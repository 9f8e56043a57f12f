SPECIFICATION Spec
CONSTANTS
  cron = cron
  cron2 = cron2
  Procs = {cron, cron2, desktop}
  Retaining = {cron, cron2}
  Upgraded = {desktop}
  Policies <- MCPolicies
  Day = 2
  MaxTime = 3
  MaxAppends = 4
SYMMETRY MCSymmetry
INVARIANTS TypeOK OnlyThePolicyDrops Chronological
PROPERTIES CompactionObeys
