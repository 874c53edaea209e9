SPECIFICATION Spec
CONSTANTS
  Accounts = {ada, bob}
  Unknown = Unknown
  FreeAttempts = 1
  MaxAttempts = 2
  MaxBacklog = 2
  ListFails = FALSE
  None = None
INVARIANTS SeatExclusive WorkerForSession SessionsEarned
PROPERTIES SeatPromise
