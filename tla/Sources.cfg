SPECIFICATION Spec
CONSTANTS
    s1 = s1
    s2 = s2
    w1 = w1
    w2 = w2
    Srcs = {s1, s2}
    Workers = {w1, w2}
    Kinds = {"git", "mounted", "archive", "local"}
    Tasks = {"discover", "plug", "unplug", "sync", "remove", "create", "update", "delete", "external", "upload", "check", "check_archive", "apply", "apply_archive"}
    SharedRoot = {}
    MaxVersion = 3
    MaxRequests = 2
    MaxFaults = 1
INVARIANTS TypeOK Exclusive  
  
SYMMETRY Symmetry
CONSTRAINT Apart
