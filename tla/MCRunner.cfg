SPECIFICATION Spec
CONSTANTS
  NumJobs = 3
  Retries <- MCRetries
  Limits <- MCLimits
  Outcomes <- MCOutcomes
  None = None
INVARIANTS
  TypeOK
  CapRespected
  ErrorIsFinal
PROPERTIES
  RunsToContract
  Terminates
  CancelEndsRun
