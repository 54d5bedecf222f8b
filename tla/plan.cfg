SPECIFICATION PlanSpec
CONSTANTS
  Bead = {b1, b2, b3}
  noSuchBead = noSuchBead
  Limit = 1
  Expanded = 2
  MaxPlans = 2
INVARIANT LedgerIsAcyclic
INVARIANT ReviewNeverBreaksPlan
INVARIANT SearchesAgree
INVARIANT DispatchFollowsNeeds
PROPERTY UnfinishedAreAdopted
SYMMETRY Ids
CHECK_DEADLOCK FALSE
