SPECIFICATION Spec
CONSTANTS
    Jids = {j1}
    Minions = {m1}
    TaskJobs = {j1}
    SystemJobs = {}
    CliJobs = {}
    Target <- AllTargets
    EventRetries = 2
    MaxCrashes = 0
    MaxTtlEdits = 1
PROPERTY OverrideTakesPriority
CHECK_DEADLOCK FALSE
