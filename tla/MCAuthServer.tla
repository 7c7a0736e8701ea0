---------------------------- MODULE MCAuthServer ----------------------------
(***************************************************************************)
(* accessgate-auth on a small instance: two sessions, two users, one       *)
(* restart, one Redis outage, one ticket.                                  *)
(***************************************************************************)
EXTENDS AuthServer, TLC

CONSTANTS s1, s2, u1, u2

MCSid == {s1, s2}
MCUser == {u1, u2}
Symmetry == Permutations(MCSid) \cup Permutations(MCUser)

MCUrlSafe == {"default", "staff", "partner", "session"}
MCConnId == {"", "staff", "partner", "session"}

MCConn(id, dflt) ==
  [id |-> id, dflt |-> dflt, oidc |-> TRUE, prefix |-> <<>>, cookie |-> <<>>,
   idClaim |-> "", idKind |-> ""]
MCFile(conns) ==
  [redisURL |-> TRUE, appBaseURL |-> TRUE, secret |-> "k1", prefix |-> <<>>,
   cookie |-> <<>>, oidc |-> TRUE, admin |-> TRUE, conns |-> conns]

MCLegacy == MCFile(<<>>)
MCStaffPartner == MCFile(<<MCConn("staff", TRUE), MCConn("partner", FALSE)>>)

MCRaw ==
  [ legacy    |-> MCLegacy,
    multi     |-> MCStaffPartner,
    switched  |-> [MCFile(<<MCConn("staff", FALSE), MCConn("partner", TRUE)>>) EXCEPT !.admin = FALSE],
    session   |-> [MCFile(<<MCConn("staff", TRUE), MCConn("session", FALSE)>>) EXCEPT !.secret = "k2"],
    twice     |-> MCFile(<<MCConn("staff", TRUE), MCConn("partner", TRUE)>>),
    never     |-> MCFile(<<MCConn("staff", FALSE), MCConn("partner", FALSE)>>),
    same      |-> MCFile(<<MCConn("staff", TRUE), MCConn("staff", FALSE)>>),
    unsafe    |-> [MCLegacy EXCEPT !.secret = "placeholder"] ]
MCFiles == DOMAIN MCRaw

MCOrigins == {"partner-site"}
MCHeaders ==
  { [origin |-> "", referer |-> ""], [origin |-> "elsewhere", referer |-> "app"],
    [origin |-> "elsewhere", referer |-> "elsewhere"] }
=============================================================================
