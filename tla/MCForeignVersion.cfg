SPECIFICATION FairSpec
CONSTANTS
  Requests = {w1, w2, w3}
  n1 = n1
  nameA = nameA
  nameB = nameB
  NsNames <- OneNs
  ResNames <- TwoNames
  KEKs = {k1}
  NoKEK = NoKEK
  None = None
  Bodies <- VersionsByUUID
  MaxInFlight = 1
  MaxFaults = 0
PROPERTY ImplementsVersionedStore
