SPECIFICATION FairSpec
CONSTANTS
  Flow <- MCFlow
  User <- MCUser
  UserClaims <- MCUserClaims
  Keys <- MCKeys
  Skews = {1}
  Life = 1
  TTL = 1
  Fetch = 1
  Mantissa = 4
  IdClaim = "tg"
  IdKind = "telegram"
  Issuer = "idp"
  Audience = "gate"
  MaxRefresh = 1
  MaxRestarts = 1
INVARIANTS
  TypeOK
  SubjectsApart
  RolesFollowToken
PROPERTIES
  AcceptedInTime
  RefusedForCause
  IdentityStable
  Settles
CHECK_DEADLOCK FALSE
