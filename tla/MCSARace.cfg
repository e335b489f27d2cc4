CONSTANTS
    Replicas = {r1}
    Callers = {"c1"}
    Presents <- MCPresents
    SAs = {"s1", "s2"}
    Values = {"v1", "*", ""}
    Literals = {"n1", "n2", "r1"}
    Globs = {}
    Expands <- MCExpands
    Malformed = {}
    Escaped = {}
    Feeds = {"sa"}
    Contents <- MCContents
    CMStates <- MCCMStates
    AdminPerms <- MCAdminPerms
    MaxEdits = 1
    MaxTroubles = 0
SPECIFICATION Spec
INVARIANT SyncsOnChange
