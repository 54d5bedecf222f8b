SPECIFICATION Spec
CONSTANTS
  b1 = b1
  b2 = b2
  c1 = c1
  c2 = c2
  Bead = {b1, b2}
  Cycle = {c1, c2}
  KeyHolders = {"mayor", "polecat", "witness"}
  Critical = {b1}
  RefineryFirst = {b1}
  Urgent = {b2}
  Budgets <- Limited
INVARIANTS VotesDecide NoVerdictLost ReviewedOnce
SYMMETRY Symmetric
CHECK_DEADLOCK FALSE
