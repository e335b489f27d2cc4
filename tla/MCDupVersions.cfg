SPECIFICATION Spec
CONSTANTS
  Requests = {w1, w2, w3}
  n1 = n1
  nameA = nameA
  nameB = nameB
  NsNames <- OneNs
  ResNames <- OneName
  KEKs = {k1}
  NoKEK = NoKEK
  None = None
  Bodies <- WriteBodies
  MaxInFlight = 3
  MaxFaults = 0
SYMMETRY Symmetry
INVARIANT VersionNumbersUnique
