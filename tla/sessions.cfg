SPECIFICATION Spec
CONSTANTS
    None = None
    Procs = {p1, p2}
    Users = {u1, u2}
    Names = {n1, n2}
    Tokens = {t1, t2, t3}
    Cached = TRUE
    Faults = TRUE
SYMMETRY Symmetry
INVARIANTS TypeOK FullAccessNeedsProfile
PROPERTY DeletedTokensStayDeleted
