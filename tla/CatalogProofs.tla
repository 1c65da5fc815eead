--------------------------- MODULE CatalogProofs ---------------------------
(***************************************************************************)
(* Theorems about Catalog for any number of requests, categories and       *)
(* products, any requests they may send, with and without failures.        *)
(*                                                                         *)
(* The inductive invariant says what a request still knows of what it has  *)
(* read: that the category of a product it read or checked has a row,      *)
(* since rows are never removed; and that what it read of an item is the   *)
(* item, unless an update in between marked the item as overlapped.        *)
(***************************************************************************)
EXTENDS Catalog, SequenceTheorems, TLAPS

Reading == {"images", "skus", "category", "write"}

\* A request at a step that uses an item, the fields it sends or a row has one.
ItemGiven(p) ==
    pc[p] \in {"row", "reread"} \cup Reading =>
        item[p] \in Items /\ rows[item[p]] # None

PatchGiven(p) ==
    pc[p] \in {"row"} \cup Reading =>
        item[p] \in Items /\ patch[p] \in PatchOf(item[p])

ReadGiven(p) ==
    pc[p] \in Reading =>
        /\ item[p] \in Items
        /\ read[p] \in RowOf(item[p])
        /\ pc[p] # "write" => item[p] \in Products

\* A request for a new product has sent every field, and has no item yet.
NewGiven(p) ==
    /\ pc[p] \in {"idle", "newCategory", "insert"} => item[p] = None
    /\ pc[p] \in {"newCategory", "insert"} => patch[p] \in Product

\* The categories that a product may get have rows.
CategoryKnown(p) ==
    /\ pc[p] = "insert" => rows[patch[p].category] # None
    /\ pc[p] \in Reading /\ item[p] \in Products => rows[read[p].category] # None
    /\ pc[p] = "write" /\ item[p] \in Products /\ patch[p].category # None =>
          rows[patch[p].category] # None

\* What was read of an item is the item while no update came in between.
ReadExact(p) ==
    pc[p] \in Reading /\ item[p] \notin overlapped => read[p] = rows[item[p]]

NotFoundTrue(p) ==
    pc[p] = "notFound" => item[p] \in deleted

RequestOK(p) ==
    /\ ItemGiven(p) /\ PatchGiven(p) /\ ReadGiven(p) /\ NewGiven(p)
    /\ CategoryKnown(p) /\ ReadExact(p) /\ NotFoundTrue(p)

LocalType ==
    /\ pc \in [Procs -> Steps]
    /\ item \in [Procs -> Items \cup {None}]
    /\ patch \in [Procs -> CategoryPatch \cup ProductPatch \cup {None}]
    /\ read \in [Procs -> Category \cup Product \cup {None}]

StoredType ==
    /\ rows \in [Items -> Category \cup Product \cup {None}]
    /\ \A i \in Items : rows[i] \in RowOf(i) \cup {None}
    /\ deleted \subseteq {i \in Items : rows[i] # None}
    /\ wanted \in [Items -> Category \cup Product \cup {None}]
    /\ overlapped \subseteq Items

RequestInv == \A p \in Procs : RequestOK(p)

IInv == TypeOK /\ UnmentionedFieldsKept /\ CategoryRowExists /\ RequestInv

LEMMA InvInit == Init => IInv
  <1> SUFFICES ASSUME Init PROVE IInv
    OBVIOUS
  <1>1. TypeOK
    <2>1. \A i \in Items : rows[i] = None
      BY DEF Init
    <2>2. deleted \subseteq {i \in Items : rows[i] # None} /\ overlapped \subseteq Items
      BY DEF Init
    <2>3. /\ rows \in [Items -> Category \cup Product \cup {None}]
          /\ wanted \in [Items -> Category \cup Product \cup {None}]
      BY DEF Init
    <2>4. LocalType
      BY DEF Init, LocalType, Steps
    <2> QED BY <2>1, <2>2, <2>3, <2>4 DEF TypeOK, LocalType
  <1>2. UnmentionedFieldsKept /\ CategoryRowExists
    BY DEF Init, UnmentionedFieldsKept, CategoryRowExists, Items
  <1>3. RequestInv
    BY DEF Init, RequestInv, RequestOK, ItemGiven, PatchGiven, ReadGiven, NewGiven,
           CategoryKnown, ReadExact, NotFoundTrue, Reading
  <1> QED BY <1>1, <1>2, <1>3 DEF IInv

----------------------------------------------------------------------------
(***************************************************************************)
(* Rows and requests for them.                                             *)
(***************************************************************************)
LEMMA InsertedType ==
    ASSUME NEW list \in Seq(SKU)
    PROVE  Inserted(list) \in Seq(SKU)
  <1>1. DOMAIN list = 1 .. Len(list) /\ Len(list) \in Nat
    BY LenProperties
  <1>2. ASSUME NEW n \in DOMAIN list
        PROVE  [list[n] EXCEPT !.active = TRUE] \in SKU
    <2>1. list[n] \in SKU
      BY <1>1, ElementOfSeq
    <2> QED BY <2>1 DEF SKU
  <1> QED BY <1>1, <1>2, IsASeq DEF Inserted

LEMMA MergedProduct ==
    ASSUME NEW row \in Product, NEW fields \in ProductPatch, Merged(row, fields).slug # Blank
    PROVE  Merged(row, fields) \in Product
  <1> DEFINE m == Merged(row, fields)
  <1>1. DOMAIN row = {"category", "slug", "text", "images", "skus"}
    BY DEF Product
  <1>2. m = [f \in {"category", "slug", "text", "images", "skus"} |->
                IF fields[f] = None THEN row[f] ELSE fields[f]]
    BY <1>1 DEF Merged
  <1>3. m = [category |-> m.category, slug |-> m.slug, text |-> m.text, images |-> m.images,
             skus |-> m.skus]
    BY <1>2
  <1>4. /\ m.category \in Categories /\ m.slug \in Slugs /\ m.text \in Texts
        /\ m.images \in Images /\ m.skus \in Seq(SKU)
    BY <1>2, CatalogAssumption DEF Product, ProductPatch
  <1> QED BY <1>3, <1>4 DEF Product

LEMMA MergedCategory ==
    ASSUME NEW row \in Category, NEW fields \in CategoryPatch, Merged(row, fields).slug # Blank
    PROVE  Merged(row, fields) \in Category
  <1> DEFINE m == Merged(row, fields)
  <1>1. DOMAIN row = {"slug", "text", "active"}
    BY DEF Category
  <1>2. m = [f \in {"slug", "text", "active"} |->
                IF fields[f] = None THEN row[f] ELSE fields[f]]
    BY <1>1 DEF Merged
  <1>3. m = [slug |-> m.slug, text |-> m.text, active |-> m.active]
    BY <1>2
  <1>4. m.slug \in Slugs /\ m.text \in Texts /\ m.active \in BOOLEAN
    BY <1>2, CatalogAssumption DEF Category, CategoryPatch
  <1> QED BY <1>3, <1>4 DEF Category

\* What an update stores for item i is a row for it.
LEMMA WrittenType ==
    ASSUME NEW i \in Items, NEW row \in RowOf(i), NEW fields \in PatchOf(i),
           Valid(i, Merged(row, fields))
    PROVE  Written(i, Merged(row, fields)) \in RowOf(i)
  <1>1. CASE i \in Categories
    BY <1>1, MergedCategory DEF RowOf, PatchOf, Valid, Written
  <1>2. CASE i \notin Categories
    <2>1. Merged(row, fields) \in Product
      BY <1>2, MergedProduct DEF RowOf, PatchOf, Valid
    <2>2. Inserted(Merged(row, fields).skus) \in Seq(SKU)
      BY <2>1, InsertedType DEF Product
    <2> QED BY <1>2, <2>1, <2>2 DEF RowOf, Written, Product
  <1> QED BY <1>1, <1>2

LEMMA RowTypes ==
    ASSUME NEW i \in Items
    PROVE  RowOf(i) \subseteq Category \cup Product
  BY DEF RowOf

LEMMA TypeParts == TypeOK <=> StoredType /\ LocalType
  BY DEF TypeOK, StoredType, LocalType

----------------------------------------------------------------------------
(***************************************************************************)
(* What a request may rely on while request p takes a step: rows stay, and *)
(* an item that it is updating is changed only with a mark.                *)
(***************************************************************************)
StoredGrows(p) ==
    /\ \A i \in Items : rows[i] # None => rows'[i] # None
    /\ deleted \subseteq deleted'
    /\ overlapped \subseteq overlapped'
    /\ \A q \in Procs \ {p}, i \in Items :
          Updating(q, i) /\ i \notin overlapped' => rows'[i] = rows[i]

LEMMA OthersKept ==
    ASSUME NEW p \in Procs, StoredGrows(p), NEW q \in Procs \ {p}, RequestOK(q),
           pc'[q] = pc[q], item'[q] = item[q], patch'[q] = patch[q], read'[q] = read[q]
    PROVE  RequestOK(q)'
  <1>1. ItemGiven(q)' /\ PatchGiven(q)' /\ ReadGiven(q)' /\ NewGiven(q)'
    BY DEF RequestOK, ItemGiven, PatchGiven, ReadGiven, NewGiven, StoredGrows,
           PatchOf, RowOf
  <1>2. CategoryKnown(q)'
    <2>1. CASE pc[q] = "insert"
      <3>1. patch[q].category \in Items
        BY <2>1 DEF RequestOK, NewGiven, Product, Items
      <3> QED BY <2>1, <3>1 DEF RequestOK, CategoryKnown, StoredGrows, Reading
    <2>2. CASE pc[q] \in Reading /\ item[q] \in Products
      <3>1. item[q] \notin Categories
        BY <2>2, CatalogAssumption
      <3>2. read[q].category \in Items
        BY <2>2, <3>1 DEF RequestOK, ReadGiven, RowOf, Product, Items
      <3>3. patch[q].category # None => patch[q].category \in Items
        BY <2>2, <3>1 DEF RequestOK, PatchGiven, PatchOf, ProductPatch, Items
      <3> QED BY <2>2, <3>2, <3>3 DEF RequestOK, CategoryKnown, StoredGrows, Reading
    <2> QED BY <2>1, <2>2 DEF CategoryKnown, Reading
  <1>3. ReadExact(q)'
    BY DEF RequestOK, ReadExact, ReadGiven, StoredGrows, Updating, Reading
  <1>4. NotFoundTrue(q)'
    BY DEF RequestOK, NotFoundTrue, StoredGrows
  <1> QED BY <1>1, <1>2, <1>3, <1>4 DEF RequestOK

OthersIdle(p) ==
    \A q \in Procs \ {p} :
        pc'[q] = pc[q] /\ item'[q] = item[q] /\ patch'[q] = patch[q] /\ read'[q] = read[q]

LEMMA RequestsKept ==
    ASSUME RequestInv, NEW p \in Procs, StoredGrows(p), OthersIdle(p), RequestOK(p)'
    PROVE  RequestInv'
  <1> SUFFICES ASSUME NEW q \in Procs PROVE RequestOK(q)'
    BY DEF RequestInv
  <1>1. CASE q # p
    BY <1>1, OthersKept DEF RequestInv, OthersIdle
  <1> QED BY <1>1

LEMMA QuietKeeps ==
    ASSUME IInv, NEW p \in Procs, UNCHANGED stored, OthersIdle(p), LocalType', RequestOK(p)'
    PROVE  IInv'
  <1>1. StoredGrows(p)
    BY DEF StoredGrows, stored
  <1>2. StoredType'
    BY TypeParts DEF IInv, StoredType, stored, RowOf
  <1>3. UnmentionedFieldsKept' /\ CategoryRowExists'
    BY DEF IInv, UnmentionedFieldsKept, CategoryRowExists, stored
  <1>4. RequestInv'
    BY <1>1, RequestsKept DEF IInv
  <1>5. TypeOK'
    BY <1>2 DEF TypeOK, StoredType, LocalType
  <1> QED BY <1>3, <1>4, <1>5 DEF IInv

LEMMA ReturnKeeps ==
    ASSUME LocalType, NEW p \in Procs, Return(p)
    PROVE  LocalType' /\ OthersIdle(p) /\ RequestOK(p)'
  <1>1. LocalType' /\ OthersIdle(p) /\ pc'[p] = "idle" /\ item'[p] = None
    BY DEF Return, LocalType, OthersIdle, Steps
  <1> QED BY <1>1 DEF RequestOK, ItemGiven, PatchGiven, ReadGiven, NewGiven,
                      CategoryKnown, ReadExact, NotFoundTrue, Reading

\* An answer for an item that is there, or a true one of not found.
LEMMA AnswerKeeps ==
    ASSUME LocalType, NEW p \in Procs, NEW s \in {"reread", "notFound"}, Answer(p, s),
           s = "reread" => item[p] \in Items /\ rows'[item[p]] # None,
           s = "notFound" => item[p] \in deleted'
    PROVE  LocalType' /\ OthersIdle(p) /\ RequestOK(p)'
  <1>1. /\ LocalType' /\ OthersIdle(p) /\ pc'[p] = s
        /\ item'[p] = item[p] /\ patch'[p] = patch[p]
    BY DEF Answer, LocalType, OthersIdle, Steps
  <1> QED BY <1>1 DEF RequestOK, ItemGiven, PatchGiven, ReadGiven, NewGiven,
                      CategoryKnown, ReadExact, NotFoundTrue, Reading

----------------------------------------------------------------------------
(***************************************************************************)
(* The steps that store nothing.                                           *)
(***************************************************************************)
LEMMA CreateProductKeeps ==
    ASSUME IInv, NEW p \in Procs, CreateProduct(p)
    PROVE  IInv'
  <1>0. PICK i \in Products : \E f \in NewItem(i) :
            rows[i] = None /\ f.slug # Blank /\ patch' = [patch EXCEPT ![p] = f]
    BY DEF CreateProduct
  <1>1. PICK f \in NewItem(i) :
            rows[i] = None /\ f.slug # Blank /\ patch' = [patch EXCEPT ![p] = f]
    BY <1>0
  <1>2. f \in ProductPatch /\ \A x \in DOMAIN f : f[x] # None
    BY CatalogAssumption DEF NewItem
  <1>3. f \in Product
    <2>1. DOMAIN f = {"category", "slug", "text", "images", "skus"}
      BY <1>2 DEF ProductPatch
    <2>2. f.category # None /\ f.slug # None /\ f.text # None /\ f.images # None /\ f.skus # None
      BY <1>2, <2>1
    <2> QED BY <1>1, <1>2, <2>2, CatalogAssumption DEF ProductPatch, Product
  <1>4. item[p] = None
    BY DEF CreateProduct, IInv, RequestInv, RequestOK, NewGiven
  <1>5. LocalType' /\ OthersIdle(p) /\ pc'[p] = "newCategory" /\ patch'[p] = f /\ item'[p] = None
    BY <1>1, <1>2, <1>4 DEF CreateProduct, IInv, TypeOK, LocalType, OthersIdle, Steps
  <1>6. RequestOK(p)'
    BY <1>3, <1>5 DEF RequestOK, ItemGiven, PatchGiven, ReadGiven, NewGiven,
                      CategoryKnown, ReadExact, NotFoundTrue, Reading
  <1>7. UNCHANGED stored
    BY DEF CreateProduct
  <1> QED BY <1>5, <1>6, <1>7, QuietKeeps

LEMMA CheckCategoryKeeps ==
    ASSUME IInv, NEW p \in Procs, CheckCategory(p)
    PROVE  IInv'
  <1>1. LocalType /\ RequestOK(p) /\ UNCHANGED stored
    BY DEF CheckCategory, IInv, TypeOK, LocalType, RequestInv
  <1>2. CASE Return(p)
    BY <1>1, <1>2, ReturnKeeps, QuietKeeps
  <1>3. CASE Goto(p, IF pc[p] = "category" THEN "write" ELSE "insert") /\ Live(patch[p].category)
    <2>1. /\ LocalType' /\ OthersIdle(p)
          /\ UNCHANGED <<item, patch, read, rows, overlapped>>
          /\ pc'[p] = IF pc[p] = "category" THEN "write" ELSE "insert"
      BY <1>1, <1>3 DEF Goto, LocalType, OthersIdle, Steps, stored
    <2>2. rows[patch[p].category] # None
      BY <1>3 DEF Live
    <2>3. RequestOK(p)'
      <3>1. CASE pc[p] = "category"
        BY <1>1, <2>1, <2>2, <3>1
        DEF RequestOK, ItemGiven, PatchGiven, ReadGiven, NewGiven, CategoryKnown,
            ReadExact, NotFoundTrue, Reading, RowOf, PatchOf
      <3>2. CASE pc[p] = "newCategory"
        BY <1>1, <2>1, <2>2, <3>2
        DEF RequestOK, ItemGiven, PatchGiven, ReadGiven, NewGiven, CategoryKnown,
            ReadExact, NotFoundTrue, Reading
      <3> QED BY <3>1, <3>2 DEF CheckCategory
    <2> QED BY <1>1, <2>1, <2>3, QuietKeeps
  <1> QED BY <1>2, <1>3 DEF CheckCategory

LEMMA UpdateKeeps ==
    ASSUME IInv, NEW p \in Procs, Update(p)
    PROVE  IInv'
  <1>0. PICK i \in Items : \E f \in Patches(i) :
            /\ rows[i] # None
            /\ item' = [item EXCEPT ![p] = i]
            /\ patch' = [patch EXCEPT ![p] = f]
    BY DEF Update
  <1>1. PICK f \in Patches(i) :
            /\ rows[i] # None
            /\ item' = [item EXCEPT ![p] = i]
            /\ patch' = [patch EXCEPT ![p] = f]
    BY <1>0
  <1>2. f \in PatchOf(i) /\ f \in CategoryPatch \cup ProductPatch
    BY CatalogAssumption DEF PatchOf, Items
  <1>3. /\ LocalType' /\ OthersIdle(p) /\ UNCHANGED stored
        /\ pc'[p] = "row" /\ item'[p] = i /\ patch'[p] = f
    BY <1>1, <1>2 DEF Update, IInv, TypeOK, LocalType, OthersIdle, Steps
  <1>4. RequestOK(p)'
    BY <1>1, <1>2, <1>3
    DEF RequestOK, ItemGiven, PatchGiven, ReadGiven, NewGiven, CategoryKnown,
        ReadExact, NotFoundTrue, Reading, stored, PatchOf
  <1> QED BY <1>3, <1>4, QuietKeeps

LEMMA ReadRowKeeps ==
    ASSUME IInv, NEW p \in Procs, ReadRow(p)
    PROVE  IInv'
  <1>1. LocalType /\ RequestOK(p) /\ UNCHANGED stored
    BY DEF ReadRow, IInv, TypeOK, LocalType, RequestInv
  <1>2. CASE item[p] \in deleted
    <2>1. LocalType' /\ OthersIdle(p) /\ RequestOK(p)'
      BY <1>1, <1>2, AnswerKeeps DEF ReadRow, stored
    <2> QED BY <1>1, <2>1, QuietKeeps
  <1>3. CASE item[p] \notin deleted
    <2> DEFINE i == item[p]
    <2>1. i \in Items /\ rows[i] # None /\ patch[p] \in PatchOf(i)
      BY <1>1 DEF ReadRow, RequestOK, ItemGiven, PatchGiven
    <2>2. rows[i] \in RowOf(i) /\ rows[i] \in Category \cup Product
      BY <2>1, RowTypes DEF IInv, TypeOK
    <2>3. /\ LocalType' /\ OthersIdle(p)
          /\ pc'[p] = (IF i \in Categories THEN "write" ELSE "images")
          /\ read'[p] = rows[i] /\ UNCHANGED <<item, patch, rows, overlapped>>
      BY <1>1, <1>3, <2>2 DEF ReadRow, LocalType, OthersIdle, Steps, stored
    <2>4. i \in Products => rows[rows[i].category] # None /\ i \notin Categories
      BY <2>1, CatalogAssumption DEF IInv, CategoryRowExists
    <2>5. RequestOK(p)'
      BY <2>1, <2>2, <2>3, <2>4
      DEF RequestOK, ItemGiven, PatchGiven, ReadGiven, NewGiven, CategoryKnown,
          ReadExact, NotFoundTrue, Reading, RowOf, PatchOf, Items
    <2> QED BY <1>1, <2>3, <2>5, QuietKeeps
  <1> QED BY <1>2, <1>3

\* The later statements: what they read is in place of what was read before.
LEMMA ReadPartsKeeps ==
    ASSUME IInv, NEW p \in Procs, ReadImages(p) \/ ReadSKUs(p)
    PROVE  IInv'
  <1> DEFINE i == item[p]
  <1>1. LocalType /\ RequestOK(p) /\ UNCHANGED stored
    BY DEF ReadImages, ReadSKUs, IInv, TypeOK, LocalType, RequestInv
  <1>2. /\ i \in Products /\ i \in Items /\ i \notin Categories
        /\ rows[i] # None /\ patch[p] \in PatchOf(i) /\ read[p] \in Product
    BY <1>1, CatalogAssumption
    DEF ReadImages, ReadSKUs, RequestOK, ItemGiven, PatchGiven, ReadGiven, Reading, RowOf
  <1>3. rows[i] \in Product
    BY <1>2 DEF IInv, TypeOK, RowOf
  <1>4. /\ read'[p] \in Product /\ read'[p].category = read[p].category
        /\ read[p] = rows[i] => read'[p] = rows[i]
    BY <1>1, <1>2, <1>3 DEF ReadImages, ReadSKUs, LocalType, Product
  <1>5. /\ LocalType' /\ OthersIdle(p)
        /\ pc'[p] \in {"skus", "category", "write"}
        /\ pc'[p] = "category" => patch[p].category # None
        /\ pc'[p] = "write" => patch[p].category = None
        /\ UNCHANGED <<item, patch, rows, overlapped>>
    <2>1. \E x : read' = [read EXCEPT ![p] = x]
      BY DEF ReadImages, ReadSKUs
    <2>2. PICK x : read' = [read EXCEPT ![p] = x]
      BY <2>1
    <2>3. x \in Product
      BY <1>1, <1>4, <2>2 DEF LocalType
    <2>4. read' \in [Procs -> Category \cup Product \cup {None}]
      BY <1>1, <2>2, <2>3 DEF LocalType
    <2>5. pc' \in [Procs -> Steps] /\ UNCHANGED <<item, patch, rows, overlapped>>
      BY <1>1 DEF ReadImages, ReadSKUs, LocalType, Steps, stored
    <2>6. /\ pc'[p] \in {"skus", "category", "write"}
          /\ pc'[p] = "category" => patch[p].category # None
          /\ pc'[p] = "write" => patch[p].category = None
      BY <1>1 DEF ReadImages, ReadSKUs, LocalType
    <2>7. OthersIdle(p)
      BY <1>1, <2>2, <2>5 DEF ReadImages, ReadSKUs, LocalType, OthersIdle
    <2> QED BY <1>1, <2>4, <2>5, <2>6, <2>7 DEF LocalType
  <1>6. RequestOK(p)'
    BY <1>1, <1>2, <1>4, <1>5
    DEF ReadImages, ReadSKUs, RequestOK, ItemGiven, PatchGiven, ReadGiven, NewGiven,
        CategoryKnown, ReadExact, NotFoundTrue, Reading, RowOf, PatchOf
  <1> QED BY <1>1, <1>5, <1>6, QuietKeeps

LEMMA AnsweredKeeps ==
    ASSUME IInv, NEW p \in Procs, Reread(p) \/ NotFound(p) \/ Abort(p)
    PROVE  IInv'
  <1>1. LocalType /\ UNCHANGED stored
    BY DEF Reread, NotFound, Abort, IInv, TypeOK, LocalType
  <1>2. CASE Return(p)
    BY <1>1, <1>2, ReturnKeeps, QuietKeeps
  <1>3. CASE Answer(p, "notFound") /\ item[p] \in deleted
    <2>1. LocalType' /\ OthersIdle(p) /\ RequestOK(p)'
      BY <1>1, <1>3, AnswerKeeps DEF stored
    <2> QED BY <1>1, <2>1, QuietKeeps
  <1> QED BY <1>2, <1>3 DEF Reread, NotFound, Abort

----------------------------------------------------------------------------
(***************************************************************************)
(* The steps that store.                                                   *)
(***************************************************************************)

\* A row of an item that had none: nobody has read it.
LEMMA NewRowKeeps ==
    ASSUME IInv, NEW i \in Items, NEW row \in RowOf(i), NewRow(i, row),
           i \in Products => rows[row.category] # None
    PROVE  /\ StoredType' /\ UnmentionedFieldsKept' /\ CategoryRowExists'
           /\ \A p \in Procs : StoredGrows(p)
           /\ rows'[i] # None /\ rows'[i] = row
  <1>1. /\ \A j \in Items \ {i} : rows'[j] = rows[j] /\ wanted'[j] = wanted[j]
        /\ rows'[i] = row /\ wanted'[i] = row /\ rows[i] = None
        /\ UNCHANGED <<deleted, overlapped>>
    BY DEF NewRow, IInv, TypeOK
  <1>2. row # None /\ row \in Category \cup Product
    BY RowTypes, CatalogAssumption DEF RowOf
  <1>3. StoredType'
    <2>1. /\ rows' \in [Items -> Category \cup Product \cup {None}]
          /\ wanted' \in [Items -> Category \cup Product \cup {None}]
      BY <1>2 DEF NewRow, IInv, TypeOK
    <2>2. \A j \in Items : rows'[j] \in RowOf(j) \cup {None}
      BY <1>1 DEF IInv, TypeOK
    <2>3. deleted' \subseteq {j \in Items : rows'[j] # None} /\ overlapped' \subseteq Items
      BY <1>1, <1>2 DEF IInv, TypeOK
    <2> QED BY <2>1, <2>2, <2>3 DEF StoredType, RowOf
  <1>4. UnmentionedFieldsKept'
    BY <1>1 DEF IInv, UnmentionedFieldsKept
  <1>5. \A j \in Items : rows[j] # None => rows'[j] # None
    BY <1>1
  <1>6. CategoryRowExists'
    <2> SUFFICES ASSUME NEW j \in Products, rows'[j] # None
                 PROVE  rows'[rows'[j].category] # None
      BY DEF CategoryRowExists
    <2>1. j \in Items /\ j \notin Categories
      BY CatalogAssumption DEF Items
    <2>2. CASE j = i
      <3>1. row.category \in Items
        BY <2>1, <2>2 DEF RowOf, Product, Items
      <3> QED BY <1>1, <1>5, <2>2, <3>1
    <2>3. CASE j # i
      <3>1. rows[j] # None /\ rows'[j] = rows[j] /\ rows[rows[j].category] # None
        BY <1>1, <2>1, <2>3 DEF IInv, CategoryRowExists
      <3>2. rows[j].category \in Items
        BY <2>1, <3>1 DEF IInv, TypeOK, RowOf, Product, Items
      <3> QED BY <1>5, <3>1, <3>2
    <2> QED BY <2>2, <2>3
  <1>7. ASSUME NEW p \in Procs PROVE StoredGrows(p)
    <2>1. \A q \in Procs : ~Updating(q, i)
      BY <1>1 DEF IInv, RequestInv, RequestOK, ItemGiven, Updating, Reading
    <2> QED BY <1>1, <1>5, <2>1 DEF StoredGrows
  <1> QED BY <1>1, <1>2, <1>3, <1>4, <1>6, <1>7

LEMMA CreateCategoryKeeps ==
    ASSUME IInv, NEW p \in Procs, CreateCategory(p)
    PROVE  IInv'
  <1>1. PICK i \in Categories : \E f \in NewItem(i) :
            Valid(i, f) /\ NewRow(i, [f EXCEPT !.active = TRUE])
    BY DEF CreateCategory
  <1>2. PICK f \in NewItem(i) : Valid(i, f) /\ NewRow(i, [f EXCEPT !.active = TRUE])
    BY <1>1
  <1>3. f \in CategoryPatch /\ \A x \in DOMAIN f : f[x] # None
    BY CatalogAssumption DEF NewItem
  <1>4. [f EXCEPT !.active = TRUE] \in Category
    <2>1. DOMAIN f = {"slug", "text", "active"}
      BY <1>3 DEF CategoryPatch
    <2>2. f.slug # None /\ f.text # None
      BY <1>3, <2>1
    <2> QED BY <1>2, <1>3, <2>2 DEF CategoryPatch, Category, Valid
  <1>5. i \in Items /\ i \notin Products /\ [f EXCEPT !.active = TRUE] \in RowOf(i)
    BY <1>4, CatalogAssumption DEF Items, RowOf
  <1>6. StoredType' /\ UnmentionedFieldsKept' /\ CategoryRowExists' /\ StoredGrows(p)
    BY <1>2, <1>5, NewRowKeeps
  <1>7. UNCHANGED request
    BY DEF CreateCategory
  <1>8. RequestInv'
    <2>1. \A q \in Procs \ {p} : RequestOK(q)'
      BY <1>6, <1>7, OthersKept DEF request, IInv, RequestInv
    <2>2. pc[p] = "idle" /\ RequestOK(p)
      BY DEF CreateCategory, IInv, RequestInv
    <2>3. RequestOK(p)'
      BY <1>7, <2>2 DEF request, RequestOK, ItemGiven, PatchGiven, ReadGiven, NewGiven,
                        CategoryKnown, ReadExact, NotFoundTrue, Reading
    <2> QED BY <2>1, <2>3 DEF RequestInv
  <1>9. TypeOK'
    BY <1>6, <1>7 DEF request, IInv, TypeOK, StoredType
  <1> QED BY <1>6, <1>8, <1>9 DEF IInv

LEMMA InsertProductKeeps ==
    ASSUME IInv, NEW p \in Procs, InsertProduct(p)
    PROVE  IInv'
  <1> DEFINE row == [patch[p] EXCEPT !.skus = Inserted(patch[p].skus)]
  <1>1. LocalType /\ RequestOK(p)
    BY DEF IInv, TypeOK, LocalType, RequestInv
  <1>2. CASE Return(p) /\ UNCHANGED stored
    BY <1>1, <1>2, ReturnKeeps, QuietKeeps
  <1>3. CASE ~(Return(p) /\ UNCHANGED stored)
    <2>1. PICK i \in Products :
              /\ NewRow(i, row)
              /\ pc' = [pc EXCEPT ![p] = "reread"]
              /\ item' = [item EXCEPT ![p] = i]
      BY <1>3 DEF InsertProduct
    <2>2. UNCHANGED <<patch, read>> /\ pc[p] = "insert"
      BY <1>3 DEF InsertProduct
    <2>3. patch[p] \in Product /\ rows[patch[p].category] # None
      BY <1>1, <2>2 DEF RequestOK, NewGiven, CategoryKnown
    <2>4. Inserted(patch[p].skus) \in Seq(SKU)
      BY <2>3, InsertedType DEF Product
    <2>5. row \in Product /\ row.category = patch[p].category
      BY <2>3, <2>4 DEF Product
    <2>6. i \in Items /\ row \in RowOf(i)
      BY <2>5, CatalogAssumption DEF Items, RowOf
    <2> HIDE DEF row
    <2>7. /\ StoredType' /\ UnmentionedFieldsKept' /\ CategoryRowExists' /\ StoredGrows(p)
          /\ rows'[i] # None
      BY <2>1, <2>3, <2>5, <2>6, NewRowKeeps
    <2>8. /\ LocalType' /\ OthersIdle(p)
          /\ pc'[p] = "reread" /\ item'[p] = i
      BY <1>1, <2>1, <2>2, <2>6 DEF LocalType, OthersIdle, Steps
    <2>9. RequestOK(p)'
      BY <2>6, <2>7, <2>8
      DEF RequestOK, ItemGiven, PatchGiven, ReadGiven, NewGiven, CategoryKnown,
          ReadExact, NotFoundTrue, Reading
    <2>10. RequestInv'
      BY <2>7, <2>8, <2>9, RequestsKept DEF IInv
    <2>11. TypeOK'
      BY <2>7, <2>8 DEF TypeOK, StoredType, LocalType
    <2> QED BY <2>7, <2>10, <2>11 DEF IInv
  <1> QED BY <1>2, <1>3

LEMMA DeleteKeeps ==
    ASSUME IInv, NEW i \in Items, Delete(i)
    PROVE  IInv'
  <1>1. /\ rows[i] # None /\ deleted' = deleted \cup {i}
        /\ UNCHANGED <<rows, wanted, overlapped, pc, item, patch, read>>
    BY DEF Delete, Live, request
  <1>2. TypeOK'
    BY <1>1 DEF IInv, TypeOK, RowOf
  <1>3. UnmentionedFieldsKept' /\ CategoryRowExists'
    BY <1>1 DEF IInv, UnmentionedFieldsKept, CategoryRowExists
  <1>4. ASSUME NEW p \in Procs PROVE RequestOK(p)'
    <2>1. RequestOK(p)
      BY DEF IInv, RequestInv
    <2> QED BY <1>1, <2>1
            DEF RequestOK, ItemGiven, PatchGiven, ReadGiven, NewGiven,
                CategoryKnown, ReadExact, NotFoundTrue, PatchOf, RowOf
  <1> QED BY <1>2, <1>3, <1>4 DEF IInv, RequestInv

\* The row an update stores, made of what was read and what was sent: without an overlap
\* what was read is what is stored, and so what the requests before it wanted.
LEMMA StoreKeeps ==
    ASSUME IInv, NEW p \in Procs, pc[p] = "write",
           Valid(item[p], Merged(read[p], patch[p])),
           Store(p, item[p], Written(item[p], Merged(read[p], patch[p])))
    PROVE  IInv'
  <1> DEFINE i == item[p]
             row == Merged(read[p], patch[p])
             w == Written(i, row)
  <1>1. LocalType /\ RequestOK(p)
    BY DEF IInv, TypeOK, LocalType, RequestInv
  <1>2. /\ i \in Items /\ rows[i] # None
        /\ patch[p] \in PatchOf(i) /\ read[p] \in RowOf(i)
    BY <1>1 DEF RequestOK, ItemGiven, PatchGiven, ReadGiven, Reading
  <1>3. w \in RowOf(i)
    BY <1>2, WrittenType
  <1>4. w # None /\ w \in Category \cup Product
    BY <1>3, CatalogAssumption DEF RowOf
  <1>5. i \in Products =>
            /\ w.category = IF patch[p].category = None THEN read[p].category
                            ELSE patch[p].category
            /\ rows[w.category] # None
    <2> SUFFICES ASSUME i \in Products
                 PROVE  /\ w.category = IF patch[p].category = None THEN read[p].category
                                        ELSE patch[p].category
                        /\ rows[w.category] # None
      OBVIOUS
    <2>1. i \notin Categories
      BY CatalogAssumption
    <2>2. read[p] \in Product /\ patch[p] \in ProductPatch
      BY <1>2, <2>1 DEF RowOf, PatchOf
    <2>3. row \in Product
      BY <2>2, MergedProduct DEF Valid
    <2>4. "category" \in DOMAIN read[p]
      BY <2>2 DEF Product
    <2>5. row.category = IF patch[p].category = None THEN read[p].category ELSE patch[p].category
      BY <2>4 DEF Merged
    <2> HIDE DEF row
    <2>6. w.category = row.category
      BY <2>1, <2>3 DEF Written, Product
    <2>7. /\ rows[read[p].category] # None
          /\ patch[p].category # None => rows[patch[p].category] # None
      BY <1>1 DEF RequestOK, CategoryKnown, Reading
    <2> QED BY <2>5, <2>6, <2>7
  <1> HIDE DEF row, w
  <1>6. /\ rows' = [rows EXCEPT ![i] = w]
        /\ overlapped' = IF \E q \in Procs \ {p} : Updating(q, i)
                         THEN overlapped \cup {i} ELSE overlapped
        /\ wanted' = [wanted EXCEPT ![i] =
                          IF i \in overlapped' THEN w ELSE Written(i, Merged(@, patch[p]))]
        /\ UNCHANGED deleted
        /\ Answer(p, "reread")
    BY DEF Store, w, row
  <1>7. rows'[i] = w /\ \A j \in Items \ {i} : rows'[j] = rows[j] /\ wanted'[j] = wanted[j]
    BY <1>2, <1>6 DEF IInv, TypeOK
  <1>8. wanted'[i] = w
    <2>1. CASE i \in overlapped'
      BY <1>2, <1>6, <2>1 DEF IInv, TypeOK
    <2>2. CASE i \notin overlapped'
      <3>1. i \notin overlapped
        BY <1>6, <2>2
      <3>2. read[p] = rows[i] /\ rows[i] = wanted[i]
        BY <1>1, <1>2, <3>1 DEF RequestOK, ReadExact, Reading, IInv, UnmentionedFieldsKept
      <3> QED BY <1>2, <1>6, <2>2, <3>2 DEF IInv, TypeOK, w, row
    <2> QED BY <2>1, <2>2
  <1>9. StoredType'
    <2>1. rows' \in [Items -> Category \cup Product \cup {None}]
      BY <1>4, <1>6 DEF IInv, TypeOK
    <2>2. wanted' \in [Items -> Category \cup Product \cup {None}]
      <3>1. wanted' = [wanted EXCEPT ![i] = w]
        BY <1>2, <1>6, <1>8 DEF IInv, TypeOK
      <3> QED BY <1>4, <3>1 DEF IInv, TypeOK
    <2>3. \A j \in Items : rows'[j] \in RowOf(j) \cup {None}
      BY <1>3, <1>7 DEF IInv, TypeOK
    <2>4. deleted' \subseteq {j \in Items : rows'[j] # None} /\ overlapped' \subseteq Items
      BY <1>2, <1>4, <1>6, <1>7 DEF IInv, TypeOK
    <2> QED BY <2>1, <2>2, <2>3, <2>4 DEF StoredType, RowOf
  <1>10. UnmentionedFieldsKept'
    <2>1. overlapped \subseteq overlapped'
      BY <1>6
    <2> QED BY <1>7, <1>8, <2>1 DEF IInv, UnmentionedFieldsKept
  <1>11. \A j \in Items : rows[j] # None => rows'[j] # None
    BY <1>4, <1>7
  <1>12. CategoryRowExists'
    <2> SUFFICES ASSUME NEW j \in Products, rows'[j] # None
                 PROVE  rows'[rows'[j].category] # None
      BY DEF CategoryRowExists
    <2>1. j \in Items /\ j \notin Categories
      BY CatalogAssumption DEF Items
    <2>2. CASE j = i
      <3>1. w.category \in Items
        BY <1>3, <2>1, <2>2 DEF RowOf, Product, Items
      <3> QED BY <1>5, <1>7, <1>11, <2>2, <3>1
    <2>3. CASE j # i
      <3>1. rows[j] # None /\ rows'[j] = rows[j] /\ rows[rows[j].category] # None
        BY <1>7, <2>1, <2>3 DEF IInv, CategoryRowExists
      <3>2. rows[j].category \in Items
        BY <2>1, <3>1 DEF IInv, TypeOK, RowOf, Product, Items
      <3> QED BY <1>11, <3>1, <3>2
    <2> QED BY <2>2, <2>3
  <1>13. StoredGrows(p)
    BY <1>6, <1>7, <1>11 DEF StoredGrows
  <1>14. LocalType' /\ OthersIdle(p) /\ RequestOK(p)'
    BY <1>1, <1>2, <1>6, <1>11, AnswerKeeps
  <1>15. RequestInv'
    BY <1>13, <1>14, RequestsKept DEF IInv
  <1>16. TypeOK'
    BY <1>9, <1>14 DEF TypeOK, StoredType, LocalType
  <1> QED BY <1>10, <1>12, <1>15, <1>16 DEF IInv

LEMMA WriteKeeps ==
    ASSUME IInv, NEW p \in Procs, Write(p)
    PROVE  IInv'
  <1> DEFINE row == Merged(read[p], patch[p])
  <1>1. LocalType /\ pc[p] = "write"
    BY DEF Write, IInv, TypeOK, LocalType
  <1>2. CASE Return(p) /\ UNCHANGED stored
    BY <1>1, <1>2, ReturnKeeps, QuietKeeps
  <1>3. CASE Answer(p, "notFound") /\ UNCHANGED stored /\ item[p] \in deleted
    <2>1. LocalType' /\ OthersIdle(p) /\ RequestOK(p)'
      BY <1>1, <1>3, AnswerKeeps DEF stored
    <2> QED BY <1>3, <2>1, QuietKeeps
  <1>4. CASE Valid(item[p], row) /\ Store(p, item[p], Written(item[p], row))
    BY <1>1, <1>4, StoreKeeps
  <1> QED BY <1>2, <1>3, <1>4 DEF Write

----------------------------------------------------------------------------
LEMMA InvNext == IInv /\ [Next]_vars => IInv'
  <1> SUFFICES ASSUME IInv, [Next]_vars PROVE IInv'
    OBVIOUS
  <1>1. CASE UNCHANGED vars
    <2>1. UNCHANGED <<rows, deleted, wanted, overlapped, pc, item, patch, read>>
      BY <1>1 DEF vars, request
    <2>2. TypeOK' /\ UnmentionedFieldsKept' /\ CategoryRowExists'
      BY <2>1 DEF IInv, TypeOK, RowOf, UnmentionedFieldsKept, CategoryRowExists
    <2>3. ASSUME NEW p \in Procs PROVE RequestOK(p)'
      <3>1. RequestOK(p)
        BY DEF IInv, RequestInv
      <3> QED BY <2>1, <3>1
              DEF RequestOK, ItemGiven, PatchGiven, ReadGiven, NewGiven,
                  CategoryKnown, ReadExact, NotFoundTrue, PatchOf, RowOf
    <2> QED BY <2>2, <2>3 DEF IInv, RequestInv
  <1>2. ASSUME NEW p \in Procs, Create(p) PROVE IInv'
    BY <1>2, CreateCategoryKeeps, CreateProductKeeps, InsertProductKeeps DEF Create
  <1>3. ASSUME NEW p \in Procs, Change(p) PROVE IInv'
    BY <1>3, UpdateKeeps, ReadRowKeeps, ReadPartsKeeps, WriteKeeps DEF Change
  <1>4. ASSUME NEW p \in Procs, CheckCategory(p) \/ Reread(p) \/ NotFound(p) \/ Abort(p)
        PROVE  IInv'
    BY <1>4, CheckCategoryKeeps, AnsweredKeeps
  <1>5. ASSUME NEW i \in Items, Delete(i) PROVE IInv'
    BY <1>5, DeleteKeeps
  <1> QED BY <1>1, <1>2, <1>3, <1>4, <1>5 DEF Next

LEMMA Invariance == Spec => []IInv
  <1>1. Init => IInv
    BY InvInit
  <1>2. IInv /\ [Next]_vars => IInv'
    BY InvNext
  <1> QED BY <1>1, <1>2, PTL DEF Spec

\* Every variable of Catalog keeps its type: a row always has the fields of its table, for
\* any requests with valid fields, and only rows are deleted.
THEOREM TypeCorrect == Spec => []TypeOK
  <1>1. IInv => TypeOK
    BY DEF IInv
  <1> QED BY <1>1, Invariance, PTL

\* An update that writes the whole item changes only the fields its request names, as long
\* as no other update of the item ran into it.
THEOREM UpdatesArePartial == Spec => []UnmentionedFieldsKept
  <1>1. IInv => UnmentionedFieldsKept
    BY DEF IInv
  <1> QED BY <1>1, Invariance, PTL

\* A product never points to a category without a row, although the check and the insertion
\* or update are separate.
THEOREM CategoriesExist == Spec => []CategoryRowExists
  <1>1. IInv => CategoryRowExists
    BY DEF IInv
  <1> QED BY <1>1, Invariance, PTL

\* An update, and a creation that reads its product again, are told not found only about
\* what has been deleted.
THEOREM NotFoundIsTrue == Spec => []NotFoundMeansDeleted
  <1>1. IInv => NotFoundMeansDeleted
    BY DEF IInv, RequestInv, RequestOK, NotFoundTrue, NotFoundMeansDeleted
  <1> QED BY <1>1, Invariance, PTL

\* The write of an update is refused for an item that was deleted after it was read, so a
\* deleted item keeps its row and stays deleted.
THEOREM DeletedIsFinal == Spec => DeletedStaysDeleted
  <1> DEFINE Final == \A i \in deleted : i \in deleted' /\ rows'[i] = rows[i]
  <1>1. TypeOK /\ [Next]_vars => [Final]_vars
    <2> SUFFICES ASSUME TypeOK, Next PROVE Final
      OBVIOUS
    <2>1. ASSUME UNCHANGED stored PROVE Final
      BY <2>1 DEF stored
    <2>2. ASSUME NEW j \in Items, NEW row, NewRow(j, row) PROVE Final
      BY <2>2 DEF NewRow, TypeOK
    <2>3. ASSUME NEW i \in Items, Delete(i) PROVE Final
      BY <2>3 DEF Delete
    <2>4. ASSUME NEW p \in Procs, NEW row, item[p] \notin deleted, Store(p, item[p], row)
          PROVE  Final
      BY <2>4 DEF Store, TypeOK
    <2>5. ASSUME NEW p \in Procs, Create(p) PROVE Final
      <3>1. CASE CreateCategory(p)
        BY <2>2, <3>1 DEF CreateCategory, Items
      <3>2. CASE CreateProduct(p)
        BY <2>1, <3>2 DEF CreateProduct
      <3>3. CASE InsertProduct(p)
        BY <2>1, <2>2, <3>3 DEF InsertProduct, Items
      <3> QED BY <2>5, <3>1, <3>2, <3>3 DEF Create
    <2>6. ASSUME NEW p \in Procs, Write(p) PROVE Final
      BY <2>1, <2>4, <2>6 DEF Write
    <2>7. ASSUME NEW p \in Procs,
                 \/ Update(p) \/ ReadRow(p) \/ ReadImages(p) \/ ReadSKUs(p)
                 \/ CheckCategory(p) \/ Reread(p) \/ NotFound(p) \/ Abort(p)
          PROVE  Final
      BY <2>1, <2>7
      DEF Update, ReadRow, ReadImages, ReadSKUs, CheckCategory, Reread, NotFound, Abort
    <2> QED BY <2>3, <2>5, <2>6, <2>7 DEF Next, Change
  <1> QED BY <1>1, TypeCorrect, PTL DEF Spec, DeletedStaysDeleted

=============================================================================
