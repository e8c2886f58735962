\* Two users and two servers.
SPECIFICATION FairSpec
CONSTANTS
    u1 = u1
    u2 = u2
    i1 = i1
    i2 = i2
    Users <- TwoUsers
    Pwds = {"p"}
    Ips <- TwoIps
    NoText = NoText
    None = None
    MaxRows = 2
INVARIANTS
    RightWindow ConfOfLogin LoginRemembered
PROPERTIES
    SavedSpec AutoAsSaved LoginDecided
CHECK_DEADLOCK FALSE
