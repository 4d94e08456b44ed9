SPECIFICATION Spec
CONSTANTS
    Jids = {j1, j2, j3}
    Minions = {m1, m2}
    TaskJobs = {j1}
    SystemJobs = {j2}
    CliJobs = {j3}
    Target <- AllTargets
    EventRetries = 1
    MaxCrashes = 0
    MaxTtlEdits = 0
INVARIANTS HandledMeansRecorded NotifiedMeansRecorded
PROPERTIES AnswerIsFinal ImplementsLedger
CONSTRAINT SourcesApart
CHECK_DEADLOCK FALSE
