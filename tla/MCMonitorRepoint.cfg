SPECIFICATION Spec
CONSTANTS
  Configs = {c1, c2}
  Targets = {t1}
  Statuses <- MCStatuses
  MaxCalls = 2
  MaxChanges = 1
  None = None
PROPERTY OnlyTheCurrentMonitorSpeaks
