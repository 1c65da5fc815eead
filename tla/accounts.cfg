SPECIFICATION RegistrationSpec
CONSTANTS
    a = a
    b = b
    s = s
    u1 = u1
    u2 = u2
    Procs = {a, b}
    Signups = {s}
    Users = {u1, u2}
    Identities = {"ann@a"}
    EmailOf <- MCEmailOf
    Emails = {"ann@a", "ann@b"}
    Names = {"ann", "ann_7"}
    Mobiles <- MCMobiles
    Spellings <- MCSpellings
    Length = 4
    LocalPart <- MCLocalPart
    Suffixed <- MCSuffixed
    Suffixes = {7}
    Faults = TRUE
    None = None
SYMMETRY Symmetry
INVARIANTS RegistrationTypeOK EveryUserCanLogIn LinksLeadToEmailOwner VerifiedMobileApproved TurnedDownOnlyWhenOvertaken OneAccountPerSubscriber
