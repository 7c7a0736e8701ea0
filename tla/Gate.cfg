SPECIFICATION Spec
CONSTANTS
  r1 = r1
  r2 = r2
  r3 = r3
  Caller <- MCCaller
  Key <- MCKey
  NoKey = NoKey
  PerMinute = 4
  Burst = 1
  Minute = 3
  MaxNow = 1
  UrlSafe <- MCUrlSafe
  File <- MCFiles
  Raw <- MCRaw
  AuthCfg <- MCAuthCfg
  Input <- MCInputs
  Session <- MCSession
  Decision <- MCDecision
  Allowed <- MCAllowed
  Limiting = TRUE
  Strategy = "principal"
  MaxBody = 6
SYMMETRY Symmetry
INVARIANTS
  TypeOK
  GrantsBounded
  RoutedMostSpecific
  UpstreamGuarded
  LimitedBeforeUpstream
  DenialIsSaid
  DefaultRouteResolves
CHECK_DEADLOCK FALSE
