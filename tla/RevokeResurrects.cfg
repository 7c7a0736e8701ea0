SPECIFICATION Spec
CONSTANTS
  p1 = p1
  p2 = p2
  p3 = p3
  t0 = t0
  t1 = t1
  Proc <- MCProc2
  Ops <- MCResolveLogout
  Tenant <- MCTenant
  NoTenant = t0
  NoSession = NoSession
  Free = Free
  Rotates <- MCAlways
  ReuseRevokes = FALSE
  MaxGen = 2
  MaxFaults = 0
  MaxLosses = 0
  MaxReuses = 0
CHECK_DEADLOCK FALSE
INVARIANT RevokedStaysGone
