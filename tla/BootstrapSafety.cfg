SPECIFICATION Spec
CONSTANTS
  Attempts = {a1, a2, a3}
  NoAttempt = NoAttempt
  OauthTTL = 1
  SessionTTL = 2
  Deadline = 3
  MaxPasses = 1
  MaxRestarts = 1
  Horizon = 1
  MaxClock = 4
SYMMETRY Symmetry
CHECK_DEADLOCK FALSE
INVARIANTS
  SetupIsSafe
  GrantsAreHonest
PROPERTIES
  RecordsAreOwned
