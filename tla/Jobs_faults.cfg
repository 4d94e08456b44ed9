SPECIFICATION FairSpec
CONSTANTS
    Jids = {j1}
    Minions = {m1}
    TaskJobs = {j1}
    SystemJobs = {}
    CliJobs = {}
    Target <- AllTargets
    EventRetries = 2
    MaxCrashes = 1
    MaxTtlEdits = 1
INVARIANTS TypeOK HandlersRelyOn
PROPERTIES RunningJobEnds
CHECK_DEADLOCK FALSE
