SPECIFICATION Spec
CONSTANTS
  Requests = {w1, w2, w3}
  alice = alice
  bob = bob
  pw = pw
  UserNames <- Names
  Passwords <- OnePassword
  None = None
  InitialUsers <- JustAlice
  Bodies <- SessionBodies
  MaxInFlight = 3
  MaxFaults = 0
SYMMETRY Symmetry
INVARIANT RefreshedOnce
