CONSTANTS
    Requests = {w1, w2, w3}
    UserNames = {"root", "alice"}
    SANames = {"s"}
    None = None
    Literals = {"n1", "n22", "r1"}
    Globs <- MCGlobs
    Expands <- MCExpands
    Malformed = {"["}
    Escaped <- MCEscaped
    NamespaceTable = {"n1", "n22"}
    InitialPrincipals <- MCPrincipals
    InitialGrants <- MCGrants
    Bodies <- ReservedBodies
    MaxInFlight = 1
    MaxFaults = 0
SYMMETRY Symmetry
SPECIFICATION Spec
INVARIANT ReservedOnlyFromBootstrap
