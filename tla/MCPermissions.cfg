CONSTANTS
    Requests = {w1, w2, w3}
    UserNames = {"root", "alice"}
    SANames = {"s"}
    None = None
    Literals = {"n1", "n22", "r1"}
    Globs <- MCGlobs
    Expands <- MCExpands
    Malformed = {"["}
    Escaped <- MCEscaped
    NamespaceTable = {"n1", "n22"}
    InitialPrincipals <- MCPrincipals
    InitialGrants <- MCGrants
    Bodies <- MCBodies
    MaxInFlight = 2
    MaxFaults = 1
SYMMETRY Symmetry
SPECIFICATION Spec
INVARIANTS
    TypeOK
    RevocationIsFinal
    AckedGrantIsWhole
    GrantedPermissionSuffices
    ReservedOnlyByGlob
    CapExceedsOnlyByGlob
