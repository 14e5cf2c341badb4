SPECIFICATION FairSpec
CONSTANTS
  None = None
  Usages <- Rejecting
  PASSKEY_ENTRY_REPEAT_NUMBER = 2
PROPERTIES
  ProceduresEnd
CHECK_DEADLOCK FALSE
