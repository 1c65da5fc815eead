SPECIFICATION Spec
CONSTANTS
    None = None
    Procs = {p1}
    Backend = "redis"
    TTL = 2
    Cooldown = 1
    MaxResends = 1
    MaxTime = 3
    SendCap = 3
    Faults = FALSE
    Usernames = {u1, u2}
    Emails = {e1, e2}
    Mobiles = {m1, m2}
SYMMETRY Symmetry
INVARIANT DuplicatesBlocked
