SPECIFICATION Spec
CONSTANTS
  Requests = {w1, w2, w3}
  n1 = n1
  nameA = nameA
  nameB = nameB
  NsNames <- OneNs
  ResNames <- TwoNames
  KEKs = {k1, k2}
  NoKEK = NoKEK
  None = None
  Bodies <- AllBodies
  MaxInFlight = 1
  MaxFaults = 1
SYMMETRY Symmetry
INVARIANTS VersionNumbersUnique TypeFollowsLatestWrite AckedWriteVisible NamespaceUnique
PROPERTIES DeleteRemovesName ImplementsButDepartures
