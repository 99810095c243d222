SPECIFICATION Spec
CONSTANTS
  Attempts = {r1, r2, r3}
  NoAttempt = NoAttempt
  ServicePolicy = TRUE
  LeaseTTL = 3
  PreflightTTL = 1
  MaxClock = 4
CONSTRAINT Bounded
SYMMETRY Symmetry
CHECK_DEADLOCK FALSE
INVARIANTS
  CreateSentOnce
  JournaledBeforeSent
  OneHostnameOwner
  NeverPublicWithoutAccess
  RevisionNamesJournal
  JournalIsReal
PROPERTY LeaseGuardsJournal
