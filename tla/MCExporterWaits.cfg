SPECIFICATION Spec
CONSTANTS
  certs = certs
  http = http
  redis = redis
  Modules = {certs, http}
  Every <- MCUniform
  Base = 4
  Second = 1
  MaxRun = 1
  MaxLatency = 1
  None = None
INVARIANTS
  NoModuleWaitsLonger
