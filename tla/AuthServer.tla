----------------------------- MODULE AuthServer -----------------------------
(***************************************************************************)
(* accessgate-auth as its clients see it: the process loads one of several *)
(* configurations, serves the HTTP handlers of all its connectors over one *)
(* Redis, and may be restarted with another configuration while Redis, the *)
(* browser's cookies and the handoff tickets in flight stay.               *)
(*                                                                         *)
(* A handler is one step here: SessionLifecycle, Login and Handoff model   *)
(* what happens between its store calls.  What this module adds is which   *)
(* connector, cookie, key space and store each handler works on.           *)
(***************************************************************************)
EXTENDS Connectors, FiniteSets, Functions

CONSTANTS
  File, Raw,   \* configuration files the process is started with: name, content
  ConnId,      \* ids a request may name ("" is none), some of them unknown
  Sid,         \* session ids
  User,        \* subject and email, as the IdP and an administrator know them
  None,
  AppBaseURL, AllowedOrigins,   \* origins: the app's own, and the allow-list
  Headers,     \* values of the Origin and of the Referer header ("" is none)
  MaxRestarts, MaxFaults, MaxTickets

ASSUME AuthServerAssumption ==
  /\ Raw \in [File -> Config]
  /\ "" \in ConnId /\ None \notin Sid \cup User \cup File
  /\ MaxRestarts \in Nat /\ MaxFaults \in Nat /\ MaxTickets \in Nat

VARIABLES
  file,      \* the file the process was started with, or None
  redis,     \* session key -> session (id, user, lapsed)
  redisUp,   \* Redis answers
  jar,       \* cookie name -> signed session id: the browser's cookies
  tickets,   \* handoff tickets not consumed yet
  born,      \* sessions that logins created -> their connector, key and cookie
  seen,      \* the files that were in force so far
  last,      \* the latest request and its answer
  restarts, faults, issued

vars == <<file, redis, redisUp, jar, tickets, born, seen, last,
          restarts, faults, issued>>
storeVars == <<redis, redisUp, jar, tickets, born, seen>>
counters == <<restarts, faults, issued>>

\* What each file becomes, and the configuration in force.
Cfg == [f \in File |-> Loaded(Raw[f])]
cfg == Cfg[file]

Sessions == [id : Sid, user : User, lapsed : BOOLEAN]

\* Every variable has its type; the process runs only with a configuration that
\* passed Validate and has a connector (main, config.Load), and a session lies
\* under a key that ends in its id (KeyLayout).
TypeOK ==
  /\ file # None => file \in seen /\ cfg.conns # <<>> /\ Validate(cfg)
  /\ \A k \in DOMAIN redis : redis[k] \in Sessions /\ k[Len(k)] = redis[k].id
  /\ \A n \in DOMAIN jar : jar[n] \in [id : Sid, by : STRING]
  /\ \A t \in tickets : t.session \in Sid
  /\ DOMAIN born \subseteq Sid
  /\ redisUp \in BOOLEAN
  /\ restarts \in 0 .. MaxRestarts /\ faults \in 0 .. MaxFaults /\ issued \in 0 .. MaxTickets

Quiet == [op |-> "none", conn |-> "", who |-> None, user |-> None, status |-> 0,
          count |-> 0, gone |-> 0]

Init ==
  /\ file = None
  /\ redis = [k \in {} |-> None] /\ redisUp = TRUE
  /\ jar = [n \in {} |-> None]
  /\ tickets = {} /\ born = [s \in {} |-> None] /\ seen = {}
  /\ last = Quiet
  /\ restarts = 0 /\ faults = 0 /\ issued = 0

\* A function with one more argument, or without some.
With(f, x, y) == [a \in DOMAIN f \cup {x} |-> IF a = x THEN y ELSE f[a]]
Without(f, S) == [a \in DOMAIN f \ S |-> f[a]]

-----------------------------------------------------------------------------
\* main: load, normalise and validate the configuration, build one store and
\* one provider per connector; NewMultiConnector validates once more.  Every
\* redis.New pings.
Start(f) ==
  /\ file = None /\ redisUp
  /\ Validate(Cfg[f])
  /\ file' = f
  /\ seen' = seen \cup {f}
  /\ UNCHANGED <<last, redis, redisUp, jar, tickets, born, counters>>

\* The process ends; Redis and the clients stay as they are.
Exit ==
  /\ file # None /\ restarts < MaxRestarts
  /\ file' = None
  /\ restarts' = restarts + 1
  /\ UNCHANGED <<last, storeVars, faults, issued>>

RedisFails ==
  /\ redisUp /\ faults < MaxFaults
  /\ redisUp' = FALSE /\ faults' = faults + 1
  /\ UNCHANGED <<last, file, redis, jar, tickets, born, seen, restarts, issued>>

RedisRecovers ==
  /\ ~redisUp
  /\ redisUp' = TRUE
  /\ UNCHANGED <<last, file, redis, jar, tickets, born, seen, counters>>

\* The TTL of a key, or the access token of a session, runs out.
Expire(k) ==
  /\ redis' = Without(redis, {k})
  /\ UNCHANGED <<last, file, redisUp, jar, tickets, born, seen, counters>>

Lapse(k) ==
  /\ ~redis[k].lapsed
  /\ redis' = [redis EXCEPT ![k].lapsed = TRUE]
  /\ UNCHANGED <<last, file, redisUp, jar, tickets, born, seen, counters>>

-----------------------------------------------------------------------------
\* errormap.StatusFor goes by words of the error message.
StatusFor(err) ==
  CASE err \in {"missing", "required", "invalid", "redirect"} -> 400
    [] err = "not found" -> 404
    [] err = "unauthorized" -> 401
    [] err = "forbidden" -> 403
    [] OTHER -> 500

Answer(op, status) == [Quiet EXCEPT !.op = op, !.status = status]

\* The cookie a handler for connector id c reads: SignedManager.Decode takes
\* it when it was signed with the secret in force.
CookieName(c) == connectorCookie(cfg, c)
Decodes(c) == CookieName(c) \in DOMAIN jar /\ jar[CookieName(c)].by = cfg.secret

\* The key of the session the cookie of connector id c names.
Named(c) == SessionKey(conn(cfg, c), jar[CookieName(c)].id)

\* The store has the session behind the cookie (Service.Session and others).
Authenticated(c) ==
  KnownConnector(cfg, c) /\ Decodes(c) /\ redisUp /\ Named(c) \in DOMAIN redis

-----------------------------------------------------------------------------
\* A login that ends well (handleCallback, LoginEnd): the session is stored
\* in the connector's key space and its signed id set as its cookie.
Callback(c, s, u) ==
  /\ file # None /\ redisUp /\ s \notin DOMAIN born
  /\ IF KnownConnector(cfg, c)
     THEN LET x == conn(cfg, c) IN
          /\ redis' = With(redis, SessionKey(x, s), [id |-> s, user |-> u, lapsed |-> FALSE])
          /\ born' = With(born, s, [conn |-> x.id, key |-> SessionKey(x, s),
                                    cookie |-> CookieName(c)])
          /\ jar' = With(jar, CookieName(c), [id |-> s, by |-> cfg.secret])
          /\ last' = [Answer("callback", 302) EXCEPT !.conn = c, !.who = s]
     ELSE /\ last' = Answer("callback", StatusFor("unknown connector"))
          /\ UNCHANGED <<redis, born, jar>>
  /\ UNCHANGED <<file, redisUp, tickets, seen, counters>>

\* A callback with an error, without a state or with one the connector's store
\* does not have: the cookie is cleared, the session behind it stays.
CallbackFails(c) ==
  /\ file # None /\ KnownConnector(cfg, c)
  /\ jar' = Without(jar, {CookieName(c)})
  /\ last' = Answer("callback", 302)
  /\ UNCHANGED <<file, redis, redisUp, tickets, born, seen, counters>>

\* Mutant: the session is looked up in the default connector's store.
BugSession(c, path) ==
  /\ file # None
  /\ LET k == SessionKey(DefaultConnector(cfg), jar[CookieName(c)].id) IN
     last' = IF Decodes(c) /\ redisUp /\ k \in DOMAIN redis
             THEN [Answer(path, 200) EXCEPT !.conn = c, !.who = redis[k].id]
             ELSE Answer(path, IF path = "me" THEN 401 ELSE 200)
  /\ UNCHANGED <<file, storeVars, counters>>

\* GET /session and GET /me: the session behind the cookie, or nobody, which
\* only /me says with a 401.
Session(c, path) ==
  /\ file # None
  /\ last' = IF Authenticated(c)
             THEN [Answer(path, 200) EXCEPT !.conn = c, !.who = redis[Named(c)].id]
             ELSE Answer(path, IF path = "me" THEN 401 ELSE 200)
  /\ UNCHANGED <<file, storeVars, counters>>

\* GET /internal/resolve and GET /refresh: the refresh of a due token may
\* fail, and any error is a 401.  A refresh sets the cookie again.
Resolve(c, refreshed, fails) ==
  /\ file # None
  /\ IF Authenticated(c) /\ ~fails
     THEN /\ last' = [Answer("resolve", 200) EXCEPT
                        !.conn = c, !.who = redis[Named(c)].id]
          /\ redis' = [redis EXCEPT ![Named(c)].lapsed = @ /\ ~refreshed]
     ELSE last' = Answer("resolve", 401) /\ UNCHANGED redis
  /\ UNCHANGED <<file, redisUp, jar, tickets, born, seen, counters>>

\* The origin check of Logout.  The pages of the app only count as a Referer
\* while the list of allowed origins is not empty.
OriginRefused(origin, referer) ==
  /\ origin \notin {"", AppBaseURL}
  /\ ~\E o \in AllowedOrigins : o \in {origin, referer} \/ referer = AppBaseURL

\* The keys a logout deletes: the session the cookie names, if it is there.
LogoutKeys(c) == IF Decodes(c) /\ redisUp THEN {Named(c)} \cap DOMAIN redis ELSE {}

\* GET|POST /logout: the cookie is cleared even if the session could not be
\* deleted, because Redis does not answer.  Where a browser is sent is left to
\* module Login.
Logout(c, origin, referer) ==
  /\ file # None
  /\ IF KnownConnector(cfg, c) /\ ~OriginRefused(origin, referer)
     THEN /\ redis' = Without(redis, LogoutKeys(c))
          /\ jar' = Without(jar, {CookieName(c)})
          /\ last' = [Answer("logout", 302) EXCEPT !.conn = c,
                        !.who = IF Authenticated(c) THEN jar[CookieName(c)].id ELSE None]
     ELSE /\ last' = Answer("logout", StatusFor("csrf"))
          /\ UNCHANGED <<redis, jar>>
  /\ UNCHANGED <<file, redisUp, tickets, born, seen, counters>>

-----------------------------------------------------------------------------
\* The key is matched by the pattern prefix:* of a SCAN.
Under(prefix, k) == Len(prefix) < Len(k) /\ SubSeq(k, 1, Len(prefix)) = prefix

\* SCAN with the session prefix of a connector: every key that extends it.
Scanned(x) == {k \in DOMAIN redis : Under(x.prefix \o <<"session">>, k)}

\* The sessions of a user a scan finds (FindSessionBySubjectEmail).
Found(x, u) == {k \in Scanned(x) : redis[k].user = u /\ ~redis[k].lapsed}

\* POST /internal/handoff/issue, with the admin secret: a ticket for the first
\* session of the user that the scan of the connector finds.
IssueHandoff(c, u) ==
  /\ file # None /\ cfg.admin /\ issued < MaxTickets
  /\ IF ~KnownConnector(cfg, c) \/ ~redisUp
     THEN last' = Answer("issue", StatusFor("lookup failed")) /\ UNCHANGED <<tickets, issued>>
     ELSE IF Found(conn(cfg, c), u) = {}
     THEN last' = Answer("issue", StatusFor("not found")) /\ UNCHANGED <<tickets, issued>>
     ELSE \E k \in Found(conn(cfg, c), u) :
            /\ tickets' = tickets \cup {[n |-> issued, conn |-> conn(cfg, c).id, session |-> redis[k].id,
                                        user |-> u, by |-> cfg.secret]}
            /\ issued' = issued + 1
            /\ last' = Answer("issue", 200)
  /\ UNCHANGED <<file, redis, redisUp, jar, born, seen, restarts, faults>>

\* The redemption sets a cookie if the path names no other connector than the
\* ticket, the connector still exists and has the session.
Redeemable(c, t) ==
  /\ c \in {"", t.conn} /\ KnownConnector(cfg, t.conn)
  /\ SessionKey(conn(cfg, t.conn), t.session) \in DOMAIN redis

\* GET /handoff/redeem: the ticket is consumed first, whatever comes then.
RedeemHandoff(c, t) ==
  /\ file # None /\ redisUp /\ t.by = cfg.secret
  /\ tickets' = tickets \ {t}
  /\ IF Redeemable(c, t)
     THEN /\ jar' = With(jar, CookieName(t.conn), [id |-> t.session, by |-> cfg.secret])
          /\ last' = [Answer("redeem", 302) EXCEPT !.conn = t.conn, !.who = t.session]
     ELSE last' = Answer("redeem", 302) /\ UNCHANGED jar
  /\ UNCHANGED <<file, redis, redisUp, born, seen, counters>>

\* Mutant: the scan stops at the first session of the user.
BugRevoke(u) ==
  /\ file # None /\ cfg.admin /\ redisUp
  /\ LET x == DefaultConnector(cfg) IN
     \E k \in Found(x, u) :
       LET D == {SessionKey(x, redis[k].id)} IN
       /\ redis' = Without(redis, D)
       /\ last' = [Answer("revoke", 200) EXCEPT !.user = u, !.count = 1, !.gone = Cardinality(D \cap DOMAIN redis)]
  /\ UNCHANGED <<file, redisUp, jar, tickets, born, seen, counters>>

\* POST /internal/session/revoke: the default connector's store is scanned,
\* and of what the scan finds the key with that id is deleted and counted.
Revoke(u) ==
  /\ file # None /\ cfg.admin /\ redisUp
  /\ LET x == DefaultConnector(cfg)
         D == {SessionKey(x, redis[k].id) : k \in Found(x, u)} IN
       /\ redis' = Without(redis, D)
       /\ last' = [Answer("revoke", 200) EXCEPT !.user = u, !.count = Cardinality(Found(x, u)),
                                                   !.gone = Cardinality(D \cap DOMAIN redis)]
  /\ UNCHANGED <<file, redisUp, jar, tickets, born, seen, counters>>

\* Redis stops answering during the scan, or did not answer at all: the first
\* deletions are done, the answer is a 500.
RevokeFails(u) ==
  /\ file # None /\ cfg.admin /\ (redisUp => faults < MaxFaults)
  /\ \E F \in SUBSET Found(DefaultConnector(cfg), u) :
       /\ ~redisUp => F = {}
       /\ redis' = Without(redis, {SessionKey(DefaultConnector(cfg), redis[k].id) : k \in F})
  /\ redisUp' = FALSE /\ faults' = IF redisUp THEN faults + 1 ELSE faults
  /\ last' = Answer("revoke", 500)
  /\ UNCHANGED <<file, jar, tickets, born, seen, restarts, issued>>

\* POST /internal/token-handoff/user: the tokens of a session that the scan
\* finds, loaded again by its id from the default connector and refreshed.
TokenHandoff(u, fails) ==
  /\ file # None /\ cfg.admin
  /\ LET x == DefaultConnector(cfg) IN
     \/ ~redisUp /\ last' = Answer("token", 500)
     \/ redisUp /\ Found(x, u) = {} /\ last' = Answer("token", 404)
     \/ redisUp /\ \E k \in Found(x, u) :
          last' = IF fails \/ SessionKey(x, redis[k].id) \notin DOMAIN redis
                  THEN Answer("token", 401)
                  ELSE [Answer("token", 200) EXCEPT !.who = redis[k].id]
  /\ UNCHANGED <<file, storeVars, counters>>

-----------------------------------------------------------------------------
\* The client has read the answer; handlers are steps, so the next request
\* or event may as well wait for it.
Deliver == last # Quiet /\ last' = Quiet /\ UNCHANGED <<file, storeVars, counters>>

Environment ==
  \/ \E f \in File : Start(f)
  \/ Exit \/ RedisFails \/ RedisRecovers
  \/ \E k \in DOMAIN redis : Expire(k) \/ Lapse(k)

Public(c) ==
  \/ \E s \in Sid, u \in User : Callback(c, s, u)
  \/ CallbackFails(c)
  \/ \E path \in {"session", "me"} : Session(c, path)
  \/ \E refreshed, fails \in BOOLEAN : Resolve(c, refreshed, fails)
  \/ \E h \in Headers : Logout(c, h.origin, h.referer)
  \/ \E t \in tickets : RedeemHandoff(c, t)

Admin(u) ==
  \/ \E c \in ConnId : IssueHandoff(c, u)
  \/ Revoke(u) \/ RevokeFails(u)
  \/ \E fails \in BOOLEAN : TokenHandoff(u, fails)

Next ==
  \/ Deliver
  \/ last = Quiet /\ Environment
  \/ last = Quiet /\ \E c \in ConnId : Public(c)
  \/ last = Quiet /\ \E u \in User : Admin(u)

Spec == Init /\ [][Next]_vars

-----------------------------------------------------------------------------
\* No two connectors, of one configuration or of two that were in force one
\* after the other, share a key space.
KeySpacesOwned ==
  \A f, g \in seen : \A x \in Range(Cfg[f].conns), y \in Range(Cfg[g].conns) :
    x.prefix = y.prefix => x.id = y.id

\* A connector never answers for another: whichever handler identifies a
\* session, for whichever connector id, cookie or ticket, a login through that
\* very connector created it.  This takes configurations that do not give the
\* key space of one connector to another, which neither validateConnectors nor
\* a restart with another default connector rules out.
SameConnector ==
  last.who # None /\ KeySpacesOwned
    => KnownConnector(cfg, last.conn) /\ born[last.who].conn = conn(cfg, last.conn).id

\* The file leaves the names of the connector to the defaults.
Unnamed(x) == x.prefix = <<>> /\ x.cookie = <<>>

\* The names connectors get unless they choose their own are told apart: no
\* two share a cookie or a key space, and the scan of one finds no session of
\* another, unless its id is "session" (Config.Normalize, KeyLayout).
NamesApart ==
  file # None => \A i, j \in DOMAIN Raw[file].conns :
    LET x == cfg.conns[i]  y == cfg.conns[j] IN
    (i # j /\ \A k \in {i, j} : Unnamed(Raw[file].conns[k]))
    => /\ x.cookie # y.cookie /\ x.prefix # y.prefix
       /\ Under(Append(x.prefix, "session"), Append(y.prefix, "session")) => y.id = "session"

\* Whoever is logged in under the legacy configuration stays logged in when
\* the process is restarted with connectors, as long as the default connector
\* leaves its names to the defaults and the secret stays (docs/MIGRATION.md,
\* Config.Normalize, Server.connectorCookie).  The id of the legacy connector
\* is "default", which no configured connector has here.
MigrationKeepsSessions ==
  \A s \in DOMAIN born :
    ( /\ file # None /\ redisUp
      /\ born[s].conn = "default" /\ born[s].key \in DOMAIN redis
      /\ born[s].cookie \in DOMAIN jar /\ jar[born[s].cookie] = [id |-> s, by |-> cfg.secret]
      /\ \A i \in DOMAIN Raw[file].conns : cfg.conns[i].dflt => Unnamed(Raw[file].conns[i])
      /\ \A f \in seen : /\ Raw[f].prefix = Raw[file].prefix /\ Raw[f].cookie = Raw[file].cookie
                         /\ \A i \in DOMAIN Raw[f].conns : Raw[f].conns[i].id # "default" )
    => Authenticated("") /\ redis[Named("")].id = s

\* What a removal promises.  A logout that is not refused leaves nothing of the
\* session its cookie named in the connector's store, lapsed or not, unless
\* Redis did not answer (Service.Logout).  A revocation that answers 200 leaves
\* no session of the user with live tokens in the default connector's key
\* space, and it deleted as many as it says but for those it found in the key
\* space of another connector, whose prefix extends the scanned one; they stay
\* (Store.DeleteSessionsBySubjectEmail).
RemovalComplete ==
  /\ last.op = "logout" /\ last.who # None
       => SessionKey(conn(cfg, last.conn), last.who) \notin DOMAIN redis
  /\ last.op = "revoke" /\ last.status = 200
       => LET x == DefaultConnector(cfg) IN
          /\ last.count = last.gone + Cardinality(Found(x, last.user))
          /\ \A k \in Found(x, last.user) : k # SessionKey(x, redis[k].id)
=============================================================================
