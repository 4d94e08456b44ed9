SPECIFICATION FairSpec
CONSTANTS
    Jids = {j1}
    Minions = {m1}
    TaskJobs = {j1}
    SystemJobs = {}
    CliJobs = {}
    Target <- AllTargets
    EventRetries = 2
    MaxCrashes = 0
    MaxTtlEdits = 0
PROPERTY WaitingReturnEnds
CHECK_DEADLOCK FALSE
