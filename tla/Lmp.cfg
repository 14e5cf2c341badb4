SPECIFICATION FairSpec
CONSTANTS
  None = None
  Usages <- AllUsages
  PASSKEY_ENTRY_REPEAT_NUMBER = 2
INVARIANTS
  OutcomesAgree
  NobodyWaits
PROPERTIES
  AuthenticationSound
  ProceduresEnd
CHECK_DEADLOCK FALSE
