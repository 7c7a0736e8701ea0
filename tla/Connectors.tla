----------------------------- MODULE Connectors -----------------------------
(***************************************************************************)
(* The connector configuration of accessgate-auth: defaults, normalisation *)
(* and validation of a loaded file, the name space and the cookie each     *)
(* connector gets, and how the HTTP layer and the service look one up.     *)
(*                                                                         *)
(* A Redis prefix is the sequence of its parts between colons, a cookie    *)
(* name the sequence of the parts the code joins with "_"; <<>> is unset.  *)
(* The OIDC client settings of a connector are one flag, oidc: all set.    *)
(***************************************************************************)
EXTENDS Naturals, Sequences

CONSTANT UrlSafe   \* the connector ids that match [A-Za-z0-9_-]+

\* What a file and the environment may say, before the defaults.
ConnectorConfig ==
  [id : STRING, dflt : BOOLEAN, oidc : BOOLEAN, prefix : Seq(STRING),
   cookie : Seq(STRING), idClaim : STRING, idKind : STRING]
Config ==
  [redisURL : BOOLEAN, appBaseURL : BOOLEAN, secret : STRING, prefix : Seq(STRING),
   cookie : Seq(STRING), oidc : BOOLEAN, admin : BOOLEAN, conns : Seq(ConnectorConfig)]

OrElse(x, default) == IF x = <<>> THEN default ELSE x

ApplyDefaults(c) ==
  [c EXCEPT !.prefix = OrElse(@, <<"auth">>),
            !.cookie = OrElse(@, <<"__Host-ess_session">>)]

\* The connector that stands for the legacy top-level OIDC fields.
Legacy(c) ==
  [id |-> "default", dflt |-> TRUE, oidc |-> c.oidc, prefix |-> <<>>,
   cookie |-> <<>>, idClaim |-> "", idKind |-> ""]

\* Mutant: the default connector gets a name of its own, too.
BugDefaultName(given, base, conn) == IF given # <<>> THEN given ELSE Append(base, conn.id)

\* Mutant: every connector without a name of its own gets the base name.
BugOwnName(given, base, conn) == IF given # <<>> THEN given ELSE base

\* A name the connector gives itself, the base name for the default connector,
\* else the base name with the id appended.
OwnName(given, base, conn) ==
  IF given # <<>> THEN given
  ELSE IF conn.dflt THEN base ELSE Append(base, conn.id)

\* The contract for the downstream identity: the claim and its kind.
ClaimMapping(conn) ==
  LET claim == IF conn.idClaim = "" THEN "sub" ELSE conn.idClaim
  IN  [claim |-> claim,
       kind  |-> IF conn.idKind # "" THEN conn.idKind
                 ELSE IF claim = "sub" THEN "oidc_sub" ELSE conn.id]

\* Mutant: the legacy fields are not turned into a connector.
BugNormalize(c) ==
  [c EXCEPT !.conns = [i \in DOMAIN c.conns |->
     [c.conns[i] EXCEPT !.prefix = OwnName(@, c.prefix, c.conns[i]),
                        !.cookie = OwnName(@, c.cookie, c.conns[i])]]]

Normalize(c) ==
  LET given == OrElse(c.conns, <<Legacy(c)>>)
      Filled(conn) ==
        [conn EXCEPT
           !.prefix  = OwnName(@, OrElse(c.prefix, <<"auth">>), conn),
           !.cookie  = OwnName(@, OrElse(c.cookie, <<"__Host-ess_session">>), conn),
           !.idClaim = ClaimMapping(conn).claim,
           !.idKind  = ClaimMapping(conn).kind]
  IN  [c EXCEPT !.conns = [i \in DOMAIN given |->
         Filled([given[i] EXCEPT !.dflt = @ \/ Len(given) = 1])]]

validateConnectors(c) ==
  /\ \A i \in DOMAIN c.conns : c.conns[i].id \in UrlSafe /\ c.conns[i].oidc
  /\ \A i, j \in DOMAIN c.conns : c.conns[i].id = c.conns[j].id => i = j
  /\ \E i \in DOMAIN c.conns : \A j \in DOMAIN c.conns : c.conns[j].dflt <=> i = j

Validate(c) ==
  /\ c.redisURL /\ c.appBaseURL
  /\ c.secret \notin {"", "placeholder"}
  /\ IF c.conns = <<>> THEN c.oidc ELSE validateConnectors(c)

\* config.Load, after the file and the environment were merged.
Loaded(raw) == Normalize(ApplyDefaults(raw))

-----------------------------------------------------------------------------
\* What a loop over the connectors returns: the first it finds, or the fallback.
FirstOf(conns, found, fallback) ==
  IF found = {} THEN fallback ELSE conns[CHOOSE i \in found : \A j \in found : i <= j]

DefaultConnector(c) ==
  FirstOf(c.conns, {i \in DOMAIN c.conns : c.conns[i].dflt}, c.conns[1])

\* An unknown id is the default connector to the HTTP layer.
ConnectorByID(c, id) ==
  IF id = "" THEN DefaultConnector(c)
  ELSE FirstOf(c.conns, {i \in DOMAIN c.conns : c.conns[i].id = id}, DefaultConnector(c))

\* Server.connectorCookie: the name under which a handler reads its cookie.
connectorCookie(c, id) == ConnectorByID(c, id).cookie

\* Service.conn refuses an unknown id.
KnownConnector(c, id) == id = "" \/ \E i \in DOMAIN c.conns : c.conns[i].id = id

\* The connector Service.conn returns; the last one marked default is "".
conn(c, id) ==
  CHOOSE x \in {c.conns[i] : i \in DOMAIN c.conns} :
    IF id = "" THEN x = DefaultConnector(c) ELSE x.id = id

\* The keys of a connector's sessions (KeyLayout.SessionKey).
SessionKey(x, sid) == x.prefix \o <<"session", sid>>
=============================================================================
