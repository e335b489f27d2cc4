SPECIFICATION Spec
CONSTANTS
  Requests = {w1, w2, w3, w4}
  alice = alice
  bob = bob
  pw = pw
  UserNames <- Names
  Passwords <- OnePassword
  None = None
  InitialUsers <- AliceAndBob
  Bodies <- TokenBodies
  MaxInFlight = 2
  MaxFaults = 0
SYMMETRY Symmetry
INVARIANTS CredentialsOwned RevokedTokensAreDead
PROPERTY OnlyTheOwnerRevokes
