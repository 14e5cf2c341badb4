SPECIFICATION Spec
CONSTANTS
  None = None
  K1 = K1
  K2 = K2
  Keys = {K1, K2}
  Phys <- AllPhys
  ConfigIds = {0, 1}
  LocalCapabilities <- DefaultCapabilities
  Usages <- UpdatingHosts
  PhyChoices <- Preferences
  UpdateChoices <- Updates
  ReplyChoices <- Replies
  SubrateChoices <- Subrates
  ConfigChoices <- Configs
  ChannelChoices <- Channels
  ProcedureChoices <- Procedures
  CachedCapabilities <- OldCapabilities
  InitialParameters <- Initially
  MaxTasks = 2
  MaxData = 2
INVARIANT
  ParametersValid
CHECK_DEADLOCK FALSE
