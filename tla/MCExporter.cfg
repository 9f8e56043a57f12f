SPECIFICATION Spec
CONSTANTS
  certs = certs
  http = http
  redis = redis
  Modules = {certs, http, redis}
  Every <- MCEvery
  Base = 6
  Second = 1
  MaxRun = 2
  MaxLatency = 1
  None = None
INVARIANTS
  TypeOK
  AgeIsHonest
  LatestIsComplete
  PageIsComplete
  StalenessBound
PROPERTIES
  KeepsRunning
