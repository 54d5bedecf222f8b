SPECIFICATION Spec
CONSTANTS
  c1 = c1
  c2 = c2
  c3 = c3
  c4 = c4
  c5 = c5
  town = town
  Bus = {town}
  Call = {c1, c2, c3, c4, c5}
  Group <- OneTown
  BusOf <- InTown
  MaxRestarts = 2
  MaxHalf = 1
INVARIANT NeverReused
INVARIANT RefusedForAnother
CHECK_DEADLOCK FALSE
