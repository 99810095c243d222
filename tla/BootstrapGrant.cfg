SPECIFICATION Spec
CONSTANTS
  Attempts = {a1, a2}
  NoAttempt = NoAttempt
  OauthTTL = 1
  SessionTTL = 2
  Deadline = 3
  MaxPasses = 2
  MaxRestarts = 0
  Horizon = 1
  MaxClock = 6
SYMMETRY Symmetry
CHECK_DEADLOCK FALSE
INVARIANT GrantHeldUntilSettled
