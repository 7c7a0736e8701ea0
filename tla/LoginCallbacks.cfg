SPECIFICATION Spec
CONSTANTS
  c1 = c1
  c2 = c2
  s1 = s1
  s2 = s2
  k1 = k1
  k2 = k2
  p1 = p1
  p2 = p2
  Conn <- MCTwoConn
  State <- MCTwoState
  Code <- MCTwoCode
  Proc <- MCTwoProc
  None = None
  DomainCookie = {c2}
  Target <- MCTarget
  Setting <- MCSetting
  MaxRestarts = 1
  MaxCodes = 2
  MaxFaults = 1
CHECK_DEADLOCK FALSE
SYMMETRY Symmetry
INVARIANTS OneSessionPerCode CookieNamesSession
PROPERTIES FoundUntilDeleted RedirectsAllowed
