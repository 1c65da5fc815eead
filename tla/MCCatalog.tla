----------------------------- MODULE MCCatalog -----------------------------
\* Catalog on a small instance: one category, and two products that share two slugs and
\* two SKU codes.  Every field is sent by some request and left out by another.
EXTENDS Catalog, TLC
CONSTANTS a, b, c1, p1, p2

Sku(code, selling) == [code |-> code, mrp |-> 1, selling |-> selling, active |-> FALSE]
Tee == <<Sku("tee", 1)>>
TeeTwice == <<Sku("tee", 1), Sku("TEE", 0)>>
Cap == <<Sku("cap", 1)>>
MCSKULists == {Tee, TeeTwice, Cap}
MCUpper(code) == IF code = "tee" THEN "TEE" ELSE code

Renamed == [category |-> c1, slug |-> "r", text |-> None, images |-> "j", skus |-> None]
Restocked == [category |-> None, slug |-> None, text |-> None, images |-> None, skus |-> Cap]

MCPatches(i) ==
    IF i \in Categories
    THEN {[slug |-> "s", text |-> "t", active |-> FALSE],
          [slug |-> None, text |-> "u", active |-> None],
          [slug |-> Blank, text |-> None, active |-> None]}
    ELSE {[category |-> c1, slug |-> "s", text |-> "t", images |-> "i", skus |-> Tee],
          [category |-> c1, slug |-> "r", text |-> "t", images |-> "i", skus |-> TeeTwice],
          Renamed, Restocked}

Symmetry == Permutations(Procs) \cup Permutations(Products)
=============================================================================
