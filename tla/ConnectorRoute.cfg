SPECIFICATION Spec
CONSTANTS
  r1 = r1
  r2 = r2
  r3 = r3
  Caller <- MCCaller
  Key <- MCKey
  NoKey = NoKey
  PerMinute = 4
  Burst = 1
  Minute = 3
  MaxNow = 0
  UrlSafe <- MCUrlSafe
  File <- MCFiles
  Raw <- MCRaw
  AuthCfg <- MCAuthCfg
  Input <- MCInputs
  Session <- MCSession
  Decision <- MCDecision
  Allowed <- MCAllowed
  Limiting = TRUE
  Strategy = "principal"
  MaxBody = 6
SYMMETRY Symmetry
INVARIANTS
  ConnectorRouteResolves
CHECK_DEADLOCK FALSE
