CONSTANTS
    Replicas = {r1, r2}
    Callers = {"c1"}
    Presents <- MCPresents
    SAs = {"s1", "s2"}
    Values = {"v1", "*", ""}
    Literals = {"n1", "n2", "r1"}
    Globs = {}
    Expands <- MCExpands
    Malformed = {}
    Escaped = {}
    Feeds = {"sa", "settings"}
    Contents <- MCContents
    CMStates <- MCCMStates
    AdminPerms <- MCAdminPerms
    MaxEdits = 1
    MaxTroubles = 1
SPECIFICATION FairSpec
INVARIANTS
    TypeOK
    QuietlySynced
    SyncedRowsAreListed
PROPERTIES
    ListedPermissionIsKept
    SyncConverges
    SettingsConverge

