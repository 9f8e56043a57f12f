CONSTANTS
  Spelled <- MCSpelled
  Setups <- MCSetups
  Clock <- MCClock
  Keys <- MCIssueKeys
  Conditions <- MCConditions
  Crons <- MCCrons
  MaxDrifts = 3
SPECIFICATION Spec
INVARIANTS
  TypeOK
  GreenMeansExcused
  SinksDoNotDecide
  OutageStaysRed
  OneIssuePerProblem
PROPERTIES
  TrackerCatchesUp
