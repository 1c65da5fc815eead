SPECIFICATION BrowserSpec
CONSTANTS
    None = None
    Procs = {p1}
    Users = {u1}
    Names = {n1, n2}
    Tokens = {t1, t2, t3}
    Tabs = {b1, b2}
    Cached = FALSE
    Faults = FALSE
SYMMETRY Symmetry
INVARIANTS BrowserTypeOK ExchangedOnce FullSessionNamesItsAccount LiveSessionsHeld DeadCookieWaitsForAnswer
PROPERTY ProfileCompletedOnce
