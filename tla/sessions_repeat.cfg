SPECIFICATION Spec
CONSTANTS
    None = None
    Procs = {p1}
    Users = {u1}
    Names = {n1, n2}
    Tokens = {t1, t2, t3}
    Cached = FALSE
    Faults = FALSE
SYMMETRY Symmetry
INVARIANT RepeatedCompletionRefused
