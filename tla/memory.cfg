SPECIFICATION Spec
CONSTANTS
  town = town
  shell = shell
  script = script
  r1 = r1
  r2 = r2
  small = small
  large = large
  unit = unit
  unitDeep = unitDeep
  rig = rig
  NoTask = NoTask
  NoModel = NoModel
  Process = {town, shell, script}
  Town = town
  Boot = script
  host <- Hosts
  Run = {r1, r2}
  Task = {unit, unitDeep}
  Model = {small, large}
  Rig = rig
  Extends <- Prefixes
  MaxDay = 2
  Histories <- Evidence
  Table <- Seeds
  Added <- Tools
  Primary <- ByComplexity
  Fallback = small
  PreferTypes = 2
  MaxPolls = 2
  Budgets <- Pairs
INVARIANTS StrongestStands NoContradictionStands LockdownBlocksPlaybook RoutesByEvidence
CHECK_DEADLOCK FALSE
