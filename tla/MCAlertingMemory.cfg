SPECIFICATION Spec
CONSTANTS
  NumKeys = 2
  Providers = {"pd", "og", "sns"}
  Configs <- MCRememberingConfigs
  Findable <- MCFindable
  None = None
INVARIANTS
  RememberedIsOpen
