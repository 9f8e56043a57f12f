SPECIFICATION Spec
CONSTANTS
  NumKeys = 2
  Providers = {"pd", "og", "sns"}
  Configs <- MCSplitConfigs
  Findable <- MCFindable
  None = None
INVARIANTS
  RecoveryReachesTheTrigger
