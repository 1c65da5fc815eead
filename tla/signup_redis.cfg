SPECIFICATION Spec
CONSTANTS
    None = None
    Procs = {p1, p2}
    Backend = "redis"
    TTL = 1
    Cooldown = 1
    MaxResends = 1
    MaxTime = 2
    SendCap = 1
    Faults = TRUE
    Usernames = {u1}
    Emails = {e1}
    Mobiles = {m1, m2}
SYMMETRY Symmetry
INVARIANTS MobileIndexMirrorsPayload StatusMissesNothing
