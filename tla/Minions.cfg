SPECIFICATION MinionsSpec
CONSTANTS
    d1 = d1
    d2 = d2
    n1 = n1
    n2 = n2
    a1 = a1
    a2 = a2
    st = st
    ag = ag
    mu = mu
    Docs = {d1, d2}
    Names = {n1, n2}
    Static = {st}
    Aggregated = {ag, mu}
    Single = {st, ag}
    System = {mu}
    Actors = {a1, a2}
    Preset = 1
    MaxRequests = 2
INVARIANTS InventoryTypeOK SingleManualItem  CategoryIsGone
PROPERTIES ActiveStays MergeLosesNothing
SYMMETRY Symmetry
CHECK_DEADLOCK FALSE
