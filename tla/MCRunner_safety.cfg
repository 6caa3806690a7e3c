SPECIFICATION Spec
CONSTANTS
    r1 = r1
    r2 = r2
    r3 = r3
    Run = {r1, r2, r3}
    NoRun = NoRun
    Name <- MCName
    StepName <- MCStepName
    Definition <- Versions
    MaxTime = 2
    Serves <- CronAndShell
    Deployed = {"scheduler"}
SYMMETRY RunSymmetry
INVARIANTS
    TypeOK
    PreviousIsASuccess
    ChainsEnd
    PreviousDataIsThere
    OutputFollowsPlan
    ReturnedIsRecorded
PROPERTIES
    IsALedger
