SPECIFICATION MCSpec
CONSTANTS
    c1 = c1
    c2 = c2
    r1 = r1
    NoFile = NoFile
    Last = 5
    BeatTable = 2
    WatchTable = 3
    HookTable = 3
    HookPath = 4
    Operator = {"op"}
    Stale = 1
    Retries = 2
    Grace = 1
    MaxTime = 4
    MaxFaults = 1
    Name = {"hook"}
    Offers <- MCOffers
    Legacy <- MCLegacy
    Client = {c1, c2}
    MaxRows = 2
    File <- MCFile
    Loads <- MCLoads
    Token = Token
    Request = {r1}
INVARIANTS
    HealthyIsRecent
    RunsAreAuthorised
PROPERTIES
    KeepsRegistrations
    UpgradesInOrder
