SPECIFICATION Spec
CONSTANTS
    None = None
    Procs = {p1, p2}
    Backend = "memory"
    TTL = 2
    Cooldown = 1
    MaxResends = 1
    MaxTime = 3
    SendCap = 1
    Faults = TRUE
    Usernames = {u1, u2}
    Emails = {e1}
    Mobiles = {m1}
SYMMETRY Symmetry
INVARIANTS TypeOK VerifiedAccounts MobileIndexMirrorsPayload IndexLeadsToOwner StatusMissesNothing
