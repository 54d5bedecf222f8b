SPECIFICATION FairSpec
CONSTANTS
  safeguard1 = safeguard1
  safeguard2 = safeguard2
  s1 = s1
  s2 = s2
  s3 = s3
  s4 = s4
  NoWorker = NoWorker
  Scan = {s1, s2, s3, s4}
  Worker = {safeguard1, safeguard2}
  Flaky = {safeguard1, safeguard2}
  Priorities = {0, 10}
INVARIANT WorkersConserved
INVARIANT NoneWaitsInVain
PROPERTIES LeaveInOrder ScansSettle
CHECK_DEADLOCK FALSE
