SPECIFICATION FairSpec
CONSTANTS
    r1 = r1
    r2 = r2
    r3 = r3
    Run = {r1, r2}
    NoRun = NoRun
    Name <- MCName
    StepName <- MCStepName
    Definition <- AllDefinitions
    Serves <- Everywhere
    Deployed = {"scheduler", "watcher", "api"}
    MaxTime = 1
INVARIANTS
    NoSuccessFromNothing
PROPERTIES
    WatcherSweepSparesTheLiving
    EveryRunStops
    OrphansAreRecovered
