SPECIFICATION TasksSpec
CONSTANTS
    t1 = t1
    t2 = t2
    Jids = {1, 2}
    TaskJobs = {1, 2}
    SystemJobs = {}
    Tasks = {t1, t2}
    Minions = {m1}
    StateApply = {t1}
    TtlTasks = {}
    BatchSize = 0
    MaxJobs = 1
    MaxRetries = 1
    LateAnswers = TRUE
    SlowJobs = FALSE
    MaxUserOps = 2
    MaxLosses = 0
INVARIANTS ActiveJobsBounded FinishedIsComplete OneTaskPerMinion StoppedIsQuiet
CHECK_DEADLOCK FALSE
