SPECIFICATION PlatformSpec
CONSTANTS
    p1 = p1
    p2 = p2
    p3 = p3
    upper = upper
    lower = lower
    beside = beside
    nowhere = nowhere
    Policies = {p1, p2, p3}
    Collections = {upper, lower, beside}
    Home <- PolicyHome
    Parent <- CollectionParent
    Orders <- CollectionOrders
    Weights = {1, 2}
    c1 = c1
    c2 = c2
    c3 = c3
    e1 = e1
    e2 = e2
    Nodes = {c1, c2, c3}
    Editors = {e1, e2}
    MaxReferences = 1
    MaxEdits = 2
    MasterIds = {m1, m2}
    MaxKeys = 2
    MaxMessages = 5
    MinionDocs = {m1, m2}
    RecordIds = {1, 2}
    FetchSizes = {1, 2}
    MaxStops = 1
    SaltMasters = {m1, m2}
    SaltMinions = {"minion"}
    Requests = {q1, q2}
    MaxTries = 1
    MaxEvents = 2
    Templates = {"p1"}
    PillarTasks = {"t1"}
    Users = {"u1"}
    PillarNames = {"x"}
    secret_pillars = {"x"}
    PillarValues = {"v1", "v2"}
    MaxWrites = 2
    s1 = s1
    r1 = r1
    r2 = r2
    Boxes = {s1, s2}
    Uploaders = {r1, r2}
    Paths = {f1, f2}
    Urls = {u1}
    Versions = {1, 2}
    Upload = 3
    SameFilesystem = TRUE
    MaxFiles = 2
    MaxUploads = 2
    MaxChanges = 2
    MaxFaults = 1
INVARIANTS TypeOK QueueOrdered  OnlyAcceptedKeys EntriesKept ReportedIsDone  HeldIsGiven FilesMatchDocuments 
CHECK_DEADLOCK FALSE
