\* Lone deployments and a project's services, repaired to the end.
SPECIFICATION FairSpec
CONSTANTS
    InitialMb = 1024
    MaxMb = 2048
    StepMb = 0
    RetryEnabled = TRUE
    RetryLimit = 2
    MaxRepairs = 2
    Newest = 2
    Settings = {"KEY"}
    Projects = {FALSE, TRUE}
    Databases = {FALSE}
    Models = {TRUE}
    Repositories <- MCRepositories
    Deltas <- MCDeltas
    Free = {2048}
INVARIANTS
    ReportedIsFurthest
PROPERTIES
    LoopEnds
    RulesMakeProgress
CHECK_DEADLOCK FALSE
