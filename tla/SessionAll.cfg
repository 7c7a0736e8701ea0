SPECIFICATION Spec
CONSTANTS
  p1 = p1
  p2 = p2
  p3 = p3
  t0 = t0
  t1 = t1
  Proc <- MCProc3
  Ops <- MCAllOps
  Tenant <- MCTenant
  NoTenant = t0
  NoSession = NoSession
  Free = Free
  Rotates <- MCEither
  ReuseRevokes = FALSE
  MaxGen = 2
  MaxFaults = 1
  MaxLosses = 1
  MaxReuses = 1
CHECK_DEADLOCK FALSE
SYMMETRY Symmetry
INVARIANTS RefreshersBounded StoredTokenUsable
PROPERTY EndedForGood
