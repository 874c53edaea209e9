SPECIFICATION LiveSpec
CONSTANTS
  Accounts = {ada}
  Unknown = Unknown
  FreeAttempts = 2
  MaxAttempts = 2
  MaxBacklog = 1
  ListFails = TRUE
  None = None
PROPERTIES LoginGoesOn
