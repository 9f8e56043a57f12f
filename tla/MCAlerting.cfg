SPECIFICATION Spec
CONSTANTS
  NumKeys = 2
  Providers = {"pd", "og", "sns"}
  Configs <- MCConfigs
  Findable <- MCFindable
  None = None
INVARIANTS
  TypeOK
  ProblemsArePaged
  MemoryIsTrue
  RecoveriesResolved
PROPERTIES
  NoFalseResolve
  NoEarlyRepage
  LastingProblemsArePaged
