SPECIFICATION FairSpec
CONSTANTS
  Requests = {w1}
  n1 = n1
  nameA = nameA
  nameB = nameB
  NsNames <- OneNs
  ResNames <- OneName
  KEKs = {k1}
  NoKEK = NoKEK
  None = None
  Bodies <- NsDeletes
  MaxInFlight = 1
  MaxFaults = 0
PROPERTY ImplementsVersionedStore
