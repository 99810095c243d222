SPECIFICATION FairSpec
CONSTANTS
  Attempts = {a1, a2}
  NoAttempt = NoAttempt
  OauthTTL = 1
  SessionTTL = 2
  Deadline = 3
  MaxPasses = 1
  MaxRestarts = 1
  Horizon = 1
  MaxClock = 6
CHECK_DEADLOCK FALSE
PROPERTY AttemptsEnd
