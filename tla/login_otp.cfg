SPECIFICATION Spec
CONSTANTS
    None = None
    Procs = {p1, p2}
    Mobiles = {m1}
    TTL = 3
    Cooldown = 2
    MaxResends = 1
    MaxTime = 5
    MaxSends = 5
    Faults = TRUE
SYMMETRY Symmetry
INVARIANTS TypeOK StateNotInflated LoginLimitRespected
PROPERTY LoginCooldownRespected
