CONSTANTS
  Checks <- MCChecks
  MaxFaults = 4
SPECIFICATION Spec
INVARIANTS
  TypeOK
  OneVerdictPerKey
  ErrorIffUnmeasured
  OutageIsRed
PROPERTIES
  WorseNeverGreener
