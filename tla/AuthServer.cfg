SPECIFICATION Spec
CONSTANTS
  None = None
  s1 = s1
  s2 = s2
  u1 = u1
  u2 = u2
  Sid <- MCSid
  User <- MCUser
  Raw <- MCRaw
  File <- MCFiles
  ConnId <- MCConnId
  UrlSafe <- MCUrlSafe
  AppBaseURL = "app"
  AllowedOrigins <- MCOrigins
  Headers <- MCHeaders
  MaxRestarts = 1
  MaxFaults = 1
  MaxTickets = 1
SYMMETRY Symmetry
INVARIANTS
  TypeOK
  SameConnector
  NamesApart
  MigrationKeepsSessions
  RemovalComplete
CHECK_DEADLOCK FALSE
