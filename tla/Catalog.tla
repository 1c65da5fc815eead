------------------------------ MODULE Catalog ------------------------------
(***************************************************************************)
(* The catalog: catalog/service/service.go over                            *)
(* catalog/productdao/postgres.go.  Categories and products are rows of    *)
(* two tables; a product's images, attributes and SKUs are rows of tables  *)
(* of their own that every update deletes and inserts again.  An update    *)
(* reads the item, puts the fields its request names over what it has      *)
(* read, and writes the whole item back.  Reading a product takes several  *)
(* statements outside a transaction, writing it is one transaction.        *)
(* Deletion is soft: the row stays, and keeps its slug and SKU codes.      *)
(*                                                                         *)
(* Names, descriptions, status and the parent of a category are one field, *)
(* text; images and attributes, which are treated alike, another.          *)
(***************************************************************************)
EXTENDS Integers, Sequences, FiniteSets

CONSTANTS
    Procs,        \* request slots
    Categories,   \* ids of catalog_categories: bounds how many are created
    Products,     \* ids of catalog_products: likewise
    Slugs,        \* slugs after normalizeSlug
    Blank,        \* a slug or name with nothing left after trimming
    Texts, Images,
    SKULists,     \* lists of SKUs a request may send
    Upper(_),     \* strings.ToUpper of a SKU code
    Patches(_),   \* the fields a request for an item may send
    Faults,       \* do calls fail and requests end early
    None

Items == Categories \cup Products

SKU == [code : STRING, mrp : Int, selling : Int, active : BOOLEAN]

Category == [slug : Slugs, text : Texts, active : BOOLEAN]

Product ==
    [category : Categories, slug : Slugs, text : Texts, images : Images, skus : Seq(SKU)]

\* A field that is None was not in the request.
CategoryPatch ==
    [slug : Slugs \cup {Blank, None}, text : Texts \cup {None}, active : BOOLEAN \cup {None}]

ProductPatch ==
    [category : Categories \cup {None}, slug : Slugs \cup {Blank, None},
     text : Texts \cup {None}, images : Images \cup {None}, skus : SKULists \cup {None}]

ASSUME CatalogAssumption ==
    /\ Faults \in BOOLEAN
    /\ Categories \cap Products = {}
    /\ SKULists \subseteq Seq(SKU)
    /\ Blank # None /\ Blank \notin Slugs
    /\ None \notin Items /\ None \notin Slugs /\ None \notin Texts /\ None \notin Images
    /\ None \notin SKULists /\ None \notin BOOLEAN
    /\ None \notin Category /\ None \notin Product
    /\ None \notin CategoryPatch /\ None \notin ProductPatch
    /\ \A i \in Categories : Patches(i) \subseteq CategoryPatch
    /\ \A i \in Products : Patches(i) \subseteq ProductPatch

VARIABLES
    rows,       \* both tables
    deleted,    \* items whose deleted_at is set
    pc,         \* next step of each request
    item,       \* the item it updates
    patch,      \* the fields it sends
    read,       \* the item as it has read it
    wanted,     \* history: every field as the last request that named it left it, while
                \* the updates of the item have not overlapped
    overlapped  \* history: items written while another request was about to

request == <<pc, item, patch, read>>
vars == <<rows, deleted, pc, item, patch, read, wanted, overlapped>>

Steps == {"idle", "row", "images", "skus", "category", "write",
          "newCategory", "insert", "reread", "notFound"}

RowOf(i) == IF i \in Categories THEN Category ELSE Product
PatchOf(i) == IF i \in Categories THEN CategoryPatch ELSE ProductPatch

TypeOK ==
    /\ rows \in [Items -> Category \cup Product \cup {None}]
    /\ \A i \in Items : rows[i] \in RowOf(i) \cup {None}
    /\ deleted \subseteq {i \in Items : rows[i] # None}
    /\ pc \in [Procs -> Steps]
    /\ item \in [Procs -> Items \cup {None}]
    /\ patch \in [Procs -> CategoryPatch \cup ProductPatch \cup {None}]
    /\ read \in [Procs -> Category \cup Product \cup {None}]
    /\ wanted \in [Items -> Category \cup Product \cup {None}]
    /\ overlapped \subseteq Items

Init ==
    /\ rows = [i \in Items |-> None]
    /\ deleted = {}
    /\ pc = [p \in Procs |-> "idle"]
    /\ item = [p \in Procs |-> None]
    /\ patch = [p \in Procs |-> None]
    /\ read = [p \in Procs |-> None]
    /\ wanted = [i \in Items |-> None]
    /\ overlapped = {}

Goto(p, s) ==
    /\ pc' = [pc EXCEPT ![p] = s]
    /\ UNCHANGED <<item, patch, read>>

Return(p) ==
    /\ pc' = [pc EXCEPT ![p] = "idle"]
    /\ item' = [item EXCEPT ![p] = None]
    /\ patch' = [patch EXCEPT ![p] = None]
    /\ read' = [read EXCEPT ![p] = None]

\* What the request has read is of no use any more.
Answer(p, s) ==
    /\ pc' = [pc EXCEPT ![p] = s]
    /\ read' = [read EXCEPT ![p] = None]
    /\ UNCHANGED <<item, patch>>

stored == <<rows, deleted, wanted, overlapped>>

\* First finds a row that is not deleted.
Live(i) == rows[i] # None /\ i \notin deleted

----------------------------------------------------------------------------
(***************************************************************************)
(* What is checked before anything is stored, and what the unique indices  *)
(* refuse: they cover the rows of deleted items too.                       *)
(***************************************************************************)

\* Codes are compared in upper case within a list, as they are by the index.
ValidateSKUs(list) ==
    \A i \in DOMAIN list :
        /\ list[i].code # ""
        /\ 0 <= list[i].selling /\ list[i].selling <= list[i].mrp
        /\ \A j \in DOMAIN list : Upper(list[i].code) = Upper(list[j].code) => i = j

CodesOf(i) == {rows[i].skus[n].code : n \in DOMAIN rows[i].skus}

SlugFree(i, slug) ==
    \A j \in (IF i \in Categories THEN Categories ELSE Products) \ {i} :
        rows[j] # None => rows[j].slug # slug

CodesFree(i, list) ==
    \A j \in Products \ {i} :
        rows[j] # None => \A n \in DOMAIN list : list[n].code \notin CodesOf(j)

\* Mutant of Valid: an update may send a blank slug.
ValidBlankSlug(i, row) == i \in Products => ValidateSKUs(row.skus)

Valid(i, row) == row.slug # Blank /\ (i \in Products => ValidateSKUs(row.skus))

Free(i, row) == SlugFree(i, row.slug) /\ (i \in Products => CodesFree(i, row.skus))

\* GORM inserts the default of a column where the value is false: what is inserted is active.
Inserted(list) == [n \in DOMAIN list |-> [list[n] EXCEPT !.active = TRUE]]

\* The fields of a request put over a row.
Merged(row, fields) ==
    [f \in DOMAIN row |-> IF fields[f] = None THEN row[f] ELSE fields[f]]

\* What an update stores: a category's row is updated, a product's SKUs are inserted anew.
Written(i, row) ==
    IF i \in Categories THEN row ELSE [row EXCEPT !.skus = Inserted(row.skus)]

----------------------------------------------------------------------------
(***************************************************************************)
(* Creation.  A category is inserted at once; a product after its category *)
(* has been looked up, in one transaction with everything that belongs to  *)
(* it.  A row that is refused leaves nothing behind.                       *)
(***************************************************************************)
NewRow(i, row) ==
    /\ rows[i] = None
    /\ Free(i, row)
    /\ rows' = [rows EXCEPT ![i] = row]
    /\ wanted' = [wanted EXCEPT ![i] = row]
    /\ UNCHANGED <<deleted, overlapped>>

\* A request for a new item sends every field, or has its defaults filled in.
NewItem(i) == {f \in Patches(i) : \A x \in DOMAIN f : f[x] # None}

CreateCategory(p) ==
    /\ pc[p] = "idle"
    /\ \E i \in Categories : \E f \in NewItem(i) :
          Valid(i, f) /\ NewRow(i, [f EXCEPT !.active = TRUE])
    /\ UNCHANGED request

CreateProduct(p) ==
    /\ pc[p] = "idle"
    /\ \E i \in Products : \E f \in NewItem(i) :
          /\ rows[i] = None
          /\ f.slug # Blank
          /\ patch' = [patch EXCEPT ![p] = f]
    /\ pc' = [pc EXCEPT ![p] = "newCategory"]
    /\ UNCHANGED <<item, read>>
    /\ UNCHANGED stored

\* Mutant of CheckCategory: the category is not looked up.
CheckCategorySkipped(p) ==
    /\ pc[p] \in {"category", "newCategory"}
    /\ Goto(p, IF pc[p] = "category" THEN "write" ELSE "insert")
    /\ UNCHANGED stored

\* The category named by the request must be there now; it can be deleted right after.
CheckCategory(p) ==
    /\ pc[p] \in {"category", "newCategory"}
    /\ IF Live(patch[p].category)
       THEN Goto(p, IF pc[p] = "category" THEN "write" ELSE "insert")
       ELSE Return(p)
    /\ UNCHANGED stored

\* Bound: without an id left the insertion fails like one that an index refuses.
InsertProduct(p) ==
    LET row == [patch[p] EXCEPT !.skus = Inserted(patch[p].skus)]
        Insertable(i) == rows[i] = None /\ Free(i, row)
    IN  /\ pc[p] = "insert"
        /\ \/ /\ ValidateSKUs(patch[p].skus)
              /\ \E i \in Products :
                    /\ NewRow(i, row)
                    /\ pc' = [pc EXCEPT ![p] = "reread"]
                    /\ item' = [item EXCEPT ![p] = i]
              /\ UNCHANGED <<patch, read>>
           \/ /\ ~ValidateSKUs(patch[p].skus) \/ \A i \in Products : ~Insertable(i)
              /\ Return(p)
              /\ UNCHANGED stored

----------------------------------------------------------------------------
(***************************************************************************)
(* Update.                                                                 *)
(***************************************************************************)
Update(p) ==
    /\ pc[p] = "idle"
    /\ \E i \in Items : \E f \in Patches(i) :
          /\ rows[i] # None
          /\ item' = [item EXCEPT ![p] = i]
          /\ patch' = [patch EXCEPT ![p] = f]
    /\ pc' = [pc EXCEPT ![p] = "row"]
    /\ UNCHANGED read
    /\ UNCHANGED stored

ReadRow(p) ==
    /\ pc[p] = "row"
    /\ IF item[p] \in deleted
       THEN Answer(p, "notFound")
       ELSE /\ read' = [read EXCEPT ![p] = rows[item[p]]]
            /\ pc' = [pc EXCEPT ![p] = IF item[p] \in Categories THEN "write" ELSE "images"]
            /\ UNCHANGED <<item, patch>>
    /\ UNCHANGED stored

\* The statements that read what belongs to a product: it may have been written in between.
ReadImages(p) ==
    /\ pc[p] = "images"
    /\ read' = [read EXCEPT ![p].images = rows[item[p]].images]
    /\ pc' = [pc EXCEPT ![p] = "skus"]
    /\ UNCHANGED <<item, patch>>
    /\ UNCHANGED stored

\* Mutant of ReadSKUs: the SKUs are not loaded with the product.
ReadSKUsNotLoaded(p) ==
    /\ pc[p] = "skus"
    /\ read' = [read EXCEPT ![p].skus = <<>>]
    /\ pc' = [pc EXCEPT ![p] = IF patch[p].category = None THEN "write" ELSE "category"]
    /\ UNCHANGED <<item, patch>>
    /\ UNCHANGED stored

ReadSKUs(p) ==
    /\ pc[p] = "skus"
    /\ read' = [read EXCEPT ![p].skus = rows[item[p]].skus]
    /\ pc' = [pc EXCEPT ![p] = IF patch[p].category = None THEN "write" ELSE "category"]
    /\ UNCHANGED <<item, patch>>
    /\ UNCHANGED stored

\* A request that has read item i, or some of it, and has yet to write it.
Updating(q, i) == pc[q] \in {"images", "skus", "category", "write"} /\ item[q] = i

\* The write that is done when nothing refuses it.
Store(p, i, row) ==
    /\ rows' = [rows EXCEPT ![i] = row]
    /\ overlapped' = IF \E q \in Procs \ {p} : Updating(q, i)
                     THEN overlapped \cup {i} ELSE overlapped
    /\ wanted' = [wanted EXCEPT ![i] =
                      IF i \in overlapped' THEN row ELSE Written(i, Merged(@, patch[p]))]
    /\ UNCHANGED deleted
    /\ Answer(p, "reread")

\* Mutant of Write: the row is written by its id alone, deleted or not.
WriteDeletedToo(p) ==
    LET i == item[p]
        row == Merged(read[p], patch[p])
    IN  /\ pc[p] = "write"
        /\ IF Valid(i, row) /\ Free(i, row)
           THEN Store(p, i, Written(i, row))
           ELSE Return(p) /\ UNCHANGED stored

\* Mutant of Write: whatever goes wrong in the transaction is answered as not found.
WriteAnyErrorNotFound(p) ==
    LET i == item[p]
        row == Merged(read[p], patch[p])
    IN  /\ pc[p] = "write"
        /\ IF Valid(i, row) /\ i \notin deleted /\ Free(i, row)
           THEN Store(p, i, Written(i, row))
           ELSE Answer(p, "notFound") /\ UNCHANGED stored

(***************************************************************************)
(* The whole row, in one transaction: refused by validation, without       *)
(* effect on an item deleted meanwhile, refused by an index, or stored.    *)
(***************************************************************************)
Write(p) ==
    LET i == item[p]
        row == Merged(read[p], patch[p])
    IN  /\ pc[p] = "write"
        /\ CASE ~Valid(i, row)  -> Return(p) /\ UNCHANGED stored
             [] Valid(i, row) /\ i \in deleted -> Answer(p, "notFound") /\ UNCHANGED stored
             [] Valid(i, row) /\ i \notin deleted /\ ~Free(i, row) ->
                    Return(p) /\ UNCHANGED stored
             [] OTHER -> Store(p, i, Written(i, row))

\* The answer is read from the database after the commit.
Reread(p) ==
    /\ pc[p] = "reread"
    /\ IF item[p] \in deleted THEN Answer(p, "notFound") ELSE Return(p)
    /\ UNCHANGED stored

\* An answer that the item is not found stays visible for one step.
NotFound(p) ==
    /\ pc[p] = "notFound"
    /\ Return(p)
    /\ UNCHANGED stored

----------------------------------------------------------------------------
(***************************************************************************)
(* Deletion, one statement that sets deleted_at; and failing calls.        *)
(***************************************************************************)
Delete(i) ==
    /\ Live(i)
    /\ deleted' = deleted \cup {i}
    /\ UNCHANGED <<rows, wanted, overlapped, request>>

Abort(p) ==
    /\ Faults
    /\ pc[p] \notin {"idle", "notFound"}
    /\ Return(p)
    /\ UNCHANGED stored

Create(p) == CreateCategory(p) \/ CreateProduct(p) \/ InsertProduct(p)

Change(p) ==
    Update(p) \/ ReadRow(p) \/ ReadImages(p) \/ ReadSKUs(p) \/ Write(p)

Next ==
    \/ \E p \in Procs : \/ Create(p) \/ Change(p) \/ CheckCategory(p)
                        \/ Reread(p) \/ NotFound(p) \/ Abort(p)
    \/ \E i \in Items : Delete(i)

Spec == Init /\ [][Next]_vars

----------------------------------------------------------------------------
(***************************************************************************)
(* Properties.                                                             *)
(***************************************************************************)

\* An item whose updates never overlapped holds every field as the last request that named
\* it left it: an update changes no field its request does not name, although it writes
\* the whole item, deletes its SKUs and inserts them again.
UnmentionedFieldsKept == \A i \in Items \ overlapped : rows[i] = wanted[i]

\* A deleted item stays deleted and as it is, also for an update that had read it before.
DeletedStaysDeleted ==
    [][\A i \in deleted : i \in deleted' /\ rows'[i] = rows[i]]_vars

\* A product's category has a row, deleted or not, at whatever moment of the check, the
\* insertion and the update categories are created and deleted.
CategoryRowExists ==
    \A i \in Products : rows[i] # None => rows[rows[i].category] # None

\* A request is told that its item is not there only when that has been deleted, by the
\* first read of an update, its write, or the read after the commit of an update or of a
\* creation: never because the write was refused for another reason.
NotFoundMeansDeleted == \A p \in Procs : pc[p] = "notFound" => item[p] \in deleted
=============================================================================
