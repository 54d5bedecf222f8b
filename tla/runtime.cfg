SPECIFICATION Spec
CONSTANTS
  base = base
  dep = dep
  other = other
  p1 = p1
  p2 = p2
  c1 = c1
  c2 = c2
  NoBead = NoBead
  Bead <- TwinBeads
  Recordings <- SomeRecorded
  Needs <- TwinNeeds
  Task <- TwinTask
  WitnessRequired = {}
  Polecat = {p1, p2}
  Cycle = {c1, c2}
  MaxInflight = 2
  Budgets <- TownBudgets
  KeyHolders = {"mayor", "polecat", "safeguard"}
INVARIANTS GateHolds SuccessIsCausal NoDispatchForgotten TwinsOnlyByRedispatch
PROPERTY ImplementsPipeline
CHECK_DEADLOCK FALSE
SYMMETRY Alike
