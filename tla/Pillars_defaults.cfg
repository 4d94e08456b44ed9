SPECIFICATION PillarsSpec
CONSTANTS
    Templates = {"p1", "p2"}
    PillarTasks = {"t1"}
    Users = {"u1"}
    PillarNames = {"x"}
    secret_pillars = {}
    PillarValues = {"v1"}
    MaxWrites = 2
PROPERTY DefaultsStay
CHECK_DEADLOCK FALSE
