SPECIFICATION FairSpec
CONSTANTS
    None = None
    i1 = i1
    m1 = m1
    m2 = m2
    Procs = {p1, p2}
    IPs <- MCIPs
    Mobiles <- MCMobiles
    Limit <- MCLimit
    Window = 2
    Faults = TRUE
INVARIANTS TypeOK RollingLimit RefusedOnlyWhenSpent EndlessOnlyWhenCut
PROPERTIES EveryWindowEnds ImplementsFixedWindow
