SPECIFICATION FairSpec
CONSTANTS
  Requests = {w1, w2}
  n1 = n1
  nameA = nameA
  nameB = nameB
  NsNames <- OneNs
  ResNames <- OneName
  KEKs = {k1}
  NoKEK = NoKEK
  None = None
  Bodies <- NsCreates
  MaxInFlight = 2
  MaxFaults = 0
INVARIANT NamespaceUnique
