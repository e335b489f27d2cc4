CONSTANTS
    CRs = {"a", "b"}
    Targets = {"t1"}
    Keys = {"k1", "k2"}
    Paths = {"p1"}
    Values = {"v1", "v2"}
    NoValue = "none"
    Specs <- MCSpecs
    FirstSpecs <- MCFirstSpecs
    FirstValues = {"v1", "none"}
    MaxChanges = 1
    MaxBorn = 2
    MaxFaults = 1
SPECIFICATION FairSpec
INVARIANT TypeOK
PROPERTIES
    NoStolenSecret
    ReadyDescribesSpec
    SecretConverges
    StatusConverges
CHECK_DEADLOCK FALSE
