SPECIFICATION RetriesSpec
CONSTANTS
    Jids = {1, 2, 3}
    TaskJobs = {1, 2, 3}
    SystemJobs = {}
    Tasks = {t1}
    Minions = {m1}
    StateApply = {t1}
    TtlTasks = {t1}
    BatchSize = 0
    MaxJobs = 1
    MaxRetries = 2
    LateAnswers = FALSE
    SlowJobs = FALSE
    MaxUserOps = 0
    MaxLosses = 1
    Events = {v1, v2}
    EventWorkers = {w1, w2}
    Chain = 2
    EventBatch = 2
    Retries = 2
    MaxFaults = 2
 
PROPERTIES InWorkEnds RunningTaskEnds  EveryEventEnds
CHECK_DEADLOCK FALSE
