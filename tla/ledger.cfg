SPECIFICATION Spec
CONSTANTS
  a1 = a1
  a2 = a2
  a3 = a3
  a4 = a4
  shell = shell
  town = town
  absent = absent
  nobody = nobody
  Call = {a1, a2, a3, a4}
  Process = {town, shell}
  ProcessOf <- OneOfShell
  Reader = town
  MaxLines = 1
  Preexisting = FALSE
  MaxCrashes = 2
  MaxTorn = 1
INVARIANT LockIsExact
INVARIANT ReadInOrder
PROPERTY ImplementsLog
CHECK_DEADLOCK FALSE
SYMMETRY Alike
