SPECIFICATION Spec
CONSTANTS
  base = base
  dep = dep
  other = other
  p1 = p1
  p2 = p2
  c1 = c1
  c2 = c2
  NoBead = NoBead
  Bead <- PairBeads
  Recordings <- PairRecorded
  Needs <- PairNeeds
  Task <- PairTask
  WitnessRequired = {}
  Polecat = {p1}
  Cycle = {c1}
  MaxInflight = 1
  Budgets <- RequeueBudgets
  KeyHolders = {"mayor", "polecat"}
INVARIANT RequeueIsDelivered
