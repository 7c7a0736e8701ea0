SPECIFICATION FairSpec
CONSTANTS
  c1 = c1
  Call <- MCCall
  PluginId <- MCPluginId
  Capability <- MCCapability
  Builtin <- MCBuiltin
  Setup <- MCSetup
  MaxFrames = 2
  MaxHttp = 1
INVARIANTS
  TypeOK
  GraphVerdict
  DiscoversPrefix
  ForwardedWhole
  LeftOnlyAtDeadline
PROPERTIES
  SignalEnds
  CompleteCallEnds
CHECK_DEADLOCK FALSE
