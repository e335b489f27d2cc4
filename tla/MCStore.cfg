SPECIFICATION Spec
CONSTANTS
  Requests = {w1, w2, w3}
  n1 = n1
  nameA = nameA
  nameB = nameB
  NsNames <- OneNs
  ResNames <- TwoNames
  KEKs = {k1}
  NoKEK = NoKEK
  None = None
  Bodies <- AllBodies
  MaxInFlight = 3
  MaxFaults = 1
SYMMETRY Symmetry
INVARIANTS TypeOK ReferentialIntegrity HistoryGapFree StaleMaxIsTaken EnvelopeIntegrity AckedWriteDurable ReadIntegrity ListingGapFree
PROPERTY VersionsImmutable
