SPECIFICATION FairSpec
CONSTANTS
    p1 = p1  p2 = p2  p3 = p3 c1 = c1  root = root
    Policies = {p1, p2, p3}
    Minions = {m1}
    Collections = {c1}
    Setups <- Chain
    MaxRetries = 1
    MaxStops = 1
    Weight <- PolicyWeight
    Parent <- CollectionParent
    Order <- CollectionOrder
PROPERTIES RequirementsMet MinionServed
CHECK_DEADLOCK FALSE
