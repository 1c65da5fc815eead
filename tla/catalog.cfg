SPECIFICATION Spec
CONSTANTS
    a = a
    b = b
    c1 = c1
    p1 = p1
    p2 = p2
    Procs = {a, b}
    Categories = {c1}
    Products = {p1, p2}
    Slugs = {"s", "r"}
    Blank = ""
    Texts = {"t", "u"}
    Images = {"i", "j"}
    SKULists <- MCSKULists
    Upper <- MCUpper
    Patches <- MCPatches
    Faults = TRUE
    None = None
SYMMETRY Symmetry
INVARIANTS TypeOK UnmentionedFieldsKept CategoryRowExists NotFoundMeansDeleted
PROPERTY DeletedStaysDeleted
