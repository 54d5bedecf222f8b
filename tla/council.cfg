SPECIFICATION Spec
CONSTANTS
  w = w
  c = c
  s = s
  b1 = b1
  b2 = b2
  yes = yes
  no = no
  maybe = maybe
  Workers = 3
  Answer = {yes, no}
  NoAnswer = NoAnswer
  QuorumNum = 3
  QuorumDen = 5
  Bead = {b1, b2}
  Watch = {w}
  Command = {c}
  Shell = {s}
  WatchMode = "apply"
  WatchStrategy = "majority"
  None = None
  Other = maybe
  MaxRuns = 2
  MaxFaults = 1
INVARIANTS MetadataHasComb OutputIsLogged LateAnswersChangeNothing
SYMMETRY Symmetric
CHECK_DEADLOCK FALSE
