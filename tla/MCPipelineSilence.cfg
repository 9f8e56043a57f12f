CONSTANTS
  Spelled <- MCSpelled
  Setups <- MCSetups
  Clock <- MCClock
  Keys <- MCIssueKeys
  Conditions <- MCConditions
  Crons <- MCCrons
  MaxDrifts = 3
SPECIFICATION Spec
INVARIANTS
  ValidRulesKeepARed
