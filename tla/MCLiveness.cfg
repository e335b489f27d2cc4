SPECIFICATION FairSpec
CONSTANTS
  Requests = {w1, w2}
  n1 = n1
  nameA = nameA
  nameB = nameB
  NsNames <- OneNs
  ResNames <- TwoNames
  KEKs = {k1, k2}
  NoKEK = NoKEK
  None = None
  Bodies <- AllBodies
  MaxInFlight = 2
  MaxFaults = 1
PROPERTY EveryRequestAnswered
