SPECIFICATION FairSpec
CONSTANTS
  None = None
  Usages <- Colliding
  PASSKEY_ENTRY_REPEAT_NUMBER = 2
PROPERTIES
  ProceduresEnd
CHECK_DEADLOCK FALSE
