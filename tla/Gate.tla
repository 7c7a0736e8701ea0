-------------------------------- MODULE Gate --------------------------------
(***************************************************************************)
(* accessgate-proxy between its clients, accessgate-auth and the upstreams *)
(* of its routes.  Every request is a goroutine of its own: it is matched  *)
(* to a route, its session is resolved by the auth server, the rate limit  *)
(* and the policy decide, and it is sent upstream or answered.  Sessions   *)
(* end and time passes meanwhile.                                          *)
(*                                                                         *)
(* The auth server is seen through its resolve handler, with the cookies   *)
(* and connectors of module Connectors; the limiter is module RateLimit;   *)
(* configuration and requests are module Routes.  The policy is external:  *)
(* it may allow what it knows, with or without a status of its own.        *)
(***************************************************************************)
EXTENDS RateLimit, Routes, Connectors, FiniteSets, Functions

CONSTANTS
  File, Raw,   \* configuration files of the proxy: name, content
  AuthCfg,     \* the file of the auth server
  Input,       \* requests a client sends
  Session,     \* sessions at the auth server: id, connector and subject
  Decision,    \* what the policy may answer
  Allowed,     \* the operations it allows
  Limiting, Strategy,   \* the limiter plugin is configured; its key strategy
  MaxBody      \* bytes of a body the proxy reads

Cfg == [f \in File |-> LoadedProxy(Raw[f])]
auth == Loaded(AuthCfg)
Nobody == [id |-> "none", connector |-> "", subject |-> ""]

\* Key holds the keys the limiter can meet; what is loaded, sent and decided
\* has the types of the code.
ASSUME GateAssumption ==
  /\ Limiting \in BOOLEAN /\ MaxBody \in Nat /\ IsFiniteSet(Caller)
  /\ \E f \in File : ValidateProxy(Cfg[f])
  /\ Validate(auth)
  /\ Nobody \notin Session
  /\ \A s \in Session \cup {Nobody}, in \in Input : deriveKey(Strategy, s.subject, in) \in Key
  /\ \A in \in Input : in.path \in Seq(STRING) /\ in.body.size \in Nat
  /\ \A d \in Decision : d.allow \in BOOLEAN /\ d.err \in BOOLEAN /\ d.status \in Nat
  /\ \A f \in File : /\ Cfg[f].routes \in Seq(Range(Cfg[f].routes)) /\ Cfg[f].private \in BOOLEAN
                     /\ \A i \in DOMAIN Cfg[f].routes : /\ Cfg[f].routes[i].prefix \in Seq(STRING)
                                                        /\ Cfg[f].routes[i].requireAuth \in BOOLEAN

VARIABLES
  file,     \* the file in force
  live,     \* the ids of the sessions the auth server has
  pc,       \* per request: where its goroutine is
  req,      \* per request: what the client sent
  scan,     \* per request: the route the loop of matchRoute is at
  route,    \* per request: the index of its route, of the best one in the loop
  who,      \* per request: the session it was resolved to, or nobody
  proven,   \* per request: it carried the cookie of a session of the route's
            \* connector, as the auth server names it, when it was resolved
  out       \* per request: status, and what the upstream got

gate == <<file, live, pc, req, scan, route, who, proven, out>>
vars == <<limiter, gate>>

cfg == Cfg[file]
NoDecision == [allow |-> FALSE, status |-> 503, err |-> FALSE, identity |-> ""]
Nothing == [status |-> 0, upstream |-> "", identity |-> "", path |-> <<>>, size |-> 0, ops |-> {},
            by |-> NoDecision]

Steps == {"idle", "match", "resolve", "pipeline", "take", "policy", "done"}

\* Every variable has its type; a request past the match has a route, and it is
\* about to take a token exactly while the limiter has read its key and the
\* clock (handleProxy, Plugin.Handle).
TypeOK ==
  /\ LimitTypeOK
  /\ file \in File /\ live \subseteq {s.id : s \in Session}
  /\ pc \in [Caller -> Steps]
  /\ \A r \in Caller : pc[r] # "idle" => req[r] \in Input
  /\ \A r \in Caller : pc[r] = "match" => /\ scan[r] \in 1..Len(cfg.routes) + 1
                                          /\ route[r] \in 0..scan[r] - 1
  /\ \A r \in Caller : pc[r] \notin {"idle", "match", "done"} => route[r] \in DOMAIN cfg.routes
  /\ \A r \in Caller : (pc[r] = "take") <=> (key[r] # NoKey)
  /\ \A r \in Caller : who[r] \in Session \cup {Nobody} /\ proven[r] \in BOOLEAN

Init ==
  /\ LimitInit
  /\ file \in {f \in File : ValidateProxy(Cfg[f])}
  /\ live = {s.id : s \in Session}
  /\ pc = [r \in Caller |-> "idle"]
  /\ req = [r \in Caller |-> Nothing]
  /\ scan = [r \in Caller |-> 0] /\ route = [r \in Caller |-> 0]
  /\ who = [r \in Caller |-> Nobody]
  /\ proven = [r \in Caller |-> FALSE]
  /\ out = [r \in Caller |-> Nothing]

Goto(r, step) == pc' = [pc EXCEPT ![r] = step]
Reply(r, status) == Goto(r, "done") /\ out' = [out EXCEPT ![r].status = status]
RouteOf(r) == cfg.routes[route[r]]

-----------------------------------------------------------------------------
\* handleProxy: the routes are looked through in their order.
Arrive(r, in) ==
  /\ pc[r] = "idle"
  /\ req' = [req EXCEPT ![r] = in]
  /\ scan' = [scan EXCEPT ![r] = 1] /\ route' = [route EXCEPT ![r] = 0]
  /\ Goto(r, "match")
  /\ UNCHANGED <<limiter, file, live, who, proven, out>>
Match(r) ==
  /\ pc[r] = "match" /\ scan[r] <= Len(cfg.routes)
  /\ route' = [route EXCEPT ![r] = matchRoute(cfg.routes, route[r], scan[r], req[r].host, req[r].path)]
  /\ scan' = [scan EXCEPT ![r] = @ + 1]
  /\ UNCHANGED <<limiter, file, live, pc, req, who, proven, out>>

\* No route is a 404, else the request is read.
Matched(r) ==
  /\ pc[r] = "match" /\ scan[r] > Len(cfg.routes)
  /\ scan' = [scan EXCEPT ![r] = 0]
  /\ IF route[r] = 0 THEN Reply(r, 404) ELSE Goto(r, "resolve") /\ UNCHANGED out
  /\ UNCHANGED <<limiter, file, live, req, route, who, proven>>

\* The session the auth server finds behind cookies sent for a connector.
Holder(cookies, id) ==
  {s \in Session : /\ KnownConnector(auth, id) /\ s.id \in live
                   /\ s.connector = conn(auth, id).id
                   /\ [name |-> connectorCookie(auth, id), value |-> s.id] \in cookies}

\* Mutant: the resolver reads the cookie of the route's connector, but sends
\* it for the default connector.
BugSent(r) ==
  {[name |-> Append(cfg.cookie, "default"), value |-> c.value] :
     c \in {c \in req[r].cookies : c.name = connectorCookieName(cfg, RouteOf(r).connector)}}

\* What AuthClient sends: the value of the cookie of the route's connector,
\* under the one name the client was made with.
Sent(r) ==
  {[name |-> cfg.cookie, value |-> c.value] :
     c \in {c \in req[r].cookies : c.name = connectorCookieName(cfg, RouteOf(r).connector)}}

\* AuthPrincipalResolver.Resolve answers nobody, or a principal.  A route that
\* requires one redirects to the login page or answers 401.
Resolve(r) ==
  LET found == Holder(Sent(r), RouteOf(r).connector) IN
  /\ pc[r] = "resolve"
  /\ proven' = [proven EXCEPT ![r] = Holder(req[r].cookies, RouteOf(r).connector) # {}]
  /\ IF found = {}
     THEN /\ UNCHANGED who
          /\ IF RouteOf(r).requireAuth
             THEN Reply(r, IF RouteOf(r).mode = "html_redirect" THEN 302 ELSE 401)
             ELSE Goto(r, "pipeline") /\ UNCHANGED out
     ELSE /\ \E s \in found : who' = [who EXCEPT ![r] = s]
          /\ Goto(r, "pipeline")
          /\ UNCHANGED out
  /\ UNCHANGED <<limiter, file, live, req, scan, route>>

\* The auth server does not answer in time, or answers neither 200 nor 401.
ResolveFails(r) ==
  /\ pc[r] = "resolve"
  /\ Reply(r, 502)
  /\ UNCHANGED <<limiter, file, live, req, scan, route, who, proven>>

-----------------------------------------------------------------------------
\* Mutant: the policy is asked while the limiter has not decided yet.
BugPipeline(r) ==
  /\ pc[r] = "pipeline"
  /\ LimitRead(r, deriveKey(Strategy, who[r].subject, req[r])) /\ Goto(r, "policy")
  /\ UNCHANGED <<file, live, req, scan, route, who, proven, out>>

\* The pipeline plugins: the limiter, if there is one.  An error of a plugin
\* would be a 503; the limiter, the one plugin there is, returns none.
Pipeline(r) ==
  /\ pc[r] = "pipeline"
  /\ IF Limiting
     THEN LimitRead(r, deriveKey(Strategy, who[r].subject, req[r])) /\ Goto(r, "take")
     ELSE Goto(r, "policy") /\ UNCHANGED limiter
  /\ UNCHANGED <<file, live, req, scan, route, who, proven, out>>

\* Mutant: a call without a token is let through to the policy.
BugLimit(r) ==
  /\ pc[r] = "take"
  /\ LimitTake(r) /\ Goto(r, "policy") /\ UNCHANGED <<out, file, live, req, scan, route, who, proven>>

\* The limiter's decision ends the request; without one the policy is asked.
Limit(r) ==
  /\ pc[r] = "take"
  /\ LimitTake(r)
  /\ IF Admits(key[r], at[r]) THEN Goto(r, "policy") /\ UNCHANGED out ELSE Reply(r, 429)
  /\ UNCHANGED <<file, live, req, scan, route, who, proven>>

\* The decision of the policy engine is not to let the request through.
Denied(d) == ~d.allow \/ d.err

\* Mutant: the status of a denial is not written.
BugDenyStatus(d) == 200

\* The status a denial is answered with; WriteResponse makes 200 of none.
DenyStatus(d) == IF d.err THEN 500 ELSE IF d.status = 0 THEN 200 ELSE d.status

\* ProxyToUpstream checks the scheme again: if it is neither http nor https
\* nothing is sent, and the answer is the empty 200 of a handler that wrote
\* nothing.
Forwarded(r, d) ==
  LET u == RouteOf(r).upstream IN
  IF u.scheme \notin {"http", "https"} THEN [Nothing EXCEPT !.status = 200, !.by = d]
  ELSE [status   |-> 200,
        upstream |-> RouteOf(r).id,
        identity |-> UpstreamIdentity(req[r].identity, d.identity, who[r].subject),
        path     |-> UpstreamPath(u.path, req[r].path),
        size     |-> ReadBody(req[r].body, MaxBody).size,
        ops      |-> Runs(ReadBody(req[r].body, MaxBody)),
        by       |-> d]

\* The policy is asked with the operation name of the request, and its answer
\* carried out.
Policy(r, d) ==
  /\ pc[r] = "policy"
  /\ d.allow => GraphQLOperation(req[r].opHeader, ReadBody(req[r].body, MaxBody)) \in Allowed
  /\ IF Denied(d)
     THEN out' = [out EXCEPT ![r].status = DenyStatus(d), ![r].by = d]
     ELSE out' = [out EXCEPT ![r] = Forwarded(r, d)]
  /\ Goto(r, "done")
  /\ UNCHANGED <<limiter, file, live, req, scan, route, who, proven>>

\* The auth server ends a session.
End(s) ==
  /\ s \in live
  /\ live' = live \ {s}
  /\ UNCHANGED <<limiter, file, pc, req, scan, route, who, proven, out>>

Step(r) ==
  \/ Match(r) \/ Matched(r) \/ Resolve(r) \/ ResolveFails(r) \/ Pipeline(r) \/ Limit(r)
  \/ \E d \in Decision : Policy(r, d)

Next ==
  \/ \E r \in Caller : Step(r) \/ \E in \in Input : Arrive(r, in)
  \/ \E s \in live : End(s)
  \/ Elapse /\ UNCHANGED gate

Spec == Init /\ [][Next]_vars

-----------------------------------------------------------------------------
Reached(r) == out[r].upstream # ""

\* The loop of matchRoute finds the most specific route: none of those that
\* match the host and the path of a request has a longer prefix, of equally
\* long ones the first is taken, and a 404 means that none matches.
RoutedMostSpecific ==
  \A r \in Caller : pc[r] \notin {"idle", "match"} =>
    LET Matching == {i \in DOMAIN cfg.routes :
                       /\ cfg.routes[i].hosts = {} \/ {req[r].host, <<req[r].host[1]>>} \cap cfg.routes[i].hosts # {}
                       /\ cfg.routes[i].prefix = Root \/ HasPrefix(req[r].path, cfg.routes[i].prefix)}
    IN  IF Matching = {} THEN out[r].status = 404
        ELSE /\ route[r] \in Matching
             /\ \A i \in Matching : LET p == cfg.routes[i].prefix  q == RouteOf(r).prefix IN
                  p # q => q # Root /\ (p = Root \/ Len(p) < Len(q))
             /\ \A i \in Matching : cfg.routes[i].prefix = RouteOf(r).prefix => route[r] <= i

\* What an upstream gets is what the policy allows and what the client sent
\* (DefaultEngine.Handle, NormalizeRequest, ProxyToUpstream).  The operation it
\* runs is one that the policy allows, unless a header of the client named
\* another, or the policy allows requests for which no name is found
\* (parser.go:86 finds none when a fragment comes first); on a route that requires it somebody was resolved; the
\* identity is the subject of the session or, for nobody, what the policy
\* set, never what the client claimed; the path is the client's unless a base
\* path is joined to it, and the body is whole unless it is over the limit.
UpstreamGuarded ==
  \A r \in Caller : Reached(r) =>
    /\ out[r].upstream = RouteOf(r).id
    /\ out[r].ops \subseteq Allowed \/ req[r].opHeader # "" \/ "" \in Allowed
    /\ RouteOf(r).requireAuth => who[r] # Nobody
    /\ out[r].identity = IF who[r].subject # "" THEN who[r].subject ELSE out[r].by.identity
    /\ RouteOf(r).upstream.path \in {<<>>, Root} => out[r].path = req[r].path
    /\ out[r].size # req[r].body.size => out[r].size = MaxBody /\ req[r].body.size > MaxBody

\* No request reaches an upstream without a token of its key: for each key at
\* most as many did as Plugin.Handle let through.
LimitedBeforeUpstream ==
  Limiting => \A k \in Key :
    Cardinality({r \in Caller : Reached(r) /\ deriveKey(Strategy, who[r].subject, req[r]) = k}) <= granted[k]

\* A client is told when its request did not reach the upstream: the answer
\* is a redirect or an error, unless the policy denied with no status or with
\* one below 300, or the upstream has a scheme that only allow_private_upstreams lets
\* pass (WriteResponse, handleProxy).
DenialIsSaid ==
  \A r \in Caller : pc[r] = "done" /\ ~Reached(r) =>
    \/ out[r].status >= 300
    \/ ~out[r].by.allow /\ ~out[r].by.err /\ out[r].by.status < 300
    \/ out[r].by.allow /\ cfg.private

\* The request was answered for lack of a principal, or goes on without one,
\* although it carries the cookie of a live session of the route's connector.
Unrecognised(r) ==
  proven[r] /\ who[r] = Nobody /\ pc[r] \notin {"idle", "match", "resolve"} /\ out[r].status # 502

\* On a route of the default connector whoever presents the cookie of a live
\* session is recognised, if the auth server answers (AuthClient, handleResolve).
DefaultRouteResolves ==
  \A r \in Caller : Unrecognised(r) => RouteOf(r).connector # ""

-----------------------------------------------------------------------------
(* What the documentation says and the code does not guarantee.            *)

\* docs/CONFIG-KEYS.md and docs/MIGRATION.md: a route with a connector_id
\* resolves against that connector, under the cookie name the auth side uses.
ConnectorRouteResolves == \A r \in Caller : ~Unrecognised(r)
=============================================================================
