SPECIFICATION FairSpec
CONSTANTS
  base = base
  dep = dep
  other = other
  p1 = p1
  p2 = p2
  c1 = c1
  c2 = c2
  NoBead = NoBead
  Bead <- TwinBeads
  Recordings <- LiveRecorded
  Needs <- TwinNeeds
  Task <- TwinTask
  WitnessRequired = {base}
  Polecat = {p1, p2}
  Cycle = {c1}
  MaxInflight = 1
  Budgets <- LiveBudgets
  KeyHolders = {"mayor", "polecat", "runtime"}
INVARIANT InflightCap
PROPERTIES SuccessSticks DispatchSettles SlotsComeFree
