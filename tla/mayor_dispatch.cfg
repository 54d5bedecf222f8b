SPECIFICATION Spec
CONSTANTS
  left = left
  right = right
  join = join
  caller1 = caller1
  caller2 = caller2
  Bead = {left, right, join}
  Needs <- JoinNeeds
  Caller = {caller1, caller2}
  MaxCalls <- JoinTwice
  MaxRestarts = 1
  MaxUnsent = 2
INVARIANT RendezvousWaits
INVARIANT AcceptedIsHeld
INVARIANT SentOncePerCall
SYMMETRY Callers
CHECK_DEADLOCK FALSE
