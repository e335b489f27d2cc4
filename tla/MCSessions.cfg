SPECIFICATION Spec
CONSTANTS
  Requests = {w1, w2, w3, w4}
  alice = alice
  bob = bob
  pw = pw
  UserNames <- Names
  Passwords <- OnePassword
  None = None
  InitialUsers <- JustAlice
  Bodies <- SessionBodies
  MaxInFlight = 2
  MaxFaults = 1
SYMMETRY Symmetry
INVARIANTS TypeOK CredentialsOwned RevokedTokensAreDead RevokedRefreshIsDead
