SPECIFICATION Spec
CONSTANTS
    None = None
    Procs = {p1, p2}
    Backend = "redis"
    TTL = 2
    Cooldown = 1
    MaxResends = 1
    MaxTime = 2
    SendCap = 3
    Faults = FALSE
    Usernames = {u1}
    Emails = {e1}
    Mobiles = {m1}
SYMMETRY Symmetry
PROPERTY CompletedStaysCompleted
