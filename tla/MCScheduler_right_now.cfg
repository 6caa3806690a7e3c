SPECIFICATION Spec
CONSTANTS
    c1 = c1
    c2 = c2
    Name = {"digest", "report"}
    File <- MCFile
    Cron <- MCCron
    NextFire <- MCNextFire
    Loads <- MCLoads
    Offers <- Harmless
    Client = {c1}
    MaxTime = 2
    MaxRows = 2
    MaxFaults = 0
PROPERTIES
    AdvancesPastRightNow
