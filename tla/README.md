# TLA+ models of AccessGate

AccessGate is two servers and a Redis. The **auth service** logs browsers in at
an OpenID Connect provider, keeps their tokens in Redis and gives them a signed
cookie that names the session. The **proxy** sends the cookie of every request
to the auth service, which answers with the session's access token and claims,
refreshing them first when they are about to expire; then plugins and a policy
decide about the request and the proxy forwards it. Any number of instances of
either run at the same time, and everything they share is in Redis.

## Inventory

| part | source | module |
|---|---|---|
| session lifecycle: refresh, resolve, tenant patch, logout, revocation | `internal/auth/service`, `internal/redis`, `pkg/session` | `SessionLifecycle` |
| login and callback, redirect targets | `internal/auth/service`, `service/redirect.go`, `pkg/oidc` | `Login` |
| handoff tickets, and the abstract one-time ticket | `internal/auth/handoff`, `service.go` | `Handoff`, `OneTime` |
| claims and ID tokens; JWKS and discovery caches, logins and refreshes over them | `pkg/token`, `pkg/oidc`, `service.go`, `internal/proxy/resolver.go` | `Claims`, `Identity` |
| configuration of the auth service: connectors, names, prefixes | `internal/auth/config` | `Connectors` |
| the auth service's HTTP handlers, start, restart | `internal/auth/httpserver`, `service.go`, `internal/redis`, `cmd/accessgate-auth` | `AuthServer` |
| configuration of the proxy, route matching, what is sent upstream | `internal/proxy/config`, `internal/proxy/httpserver`, `internal/authz` | `Routes` |
| rate limit plugin | `internal/plugins/ratelimit` | `RateLimit` |
| request path of the proxy: resolver, engine, pipeline, reverse proxy | `internal/proxy`, `internal/authz` | `Gate` |
| policy bundles, signatures, hot reload, WASM and Rego evaluation | `internal/policy` | `PolicyReload` |
| plugin manifests, registry, dependency order | `internal/plugin`, `cmd/accessgate-proxy/bootstrap.go` | `Plugins` |
| gRPC forwarding, start and shutdown of the proxy | `internal/grpc`, `cmd/accessgate-proxy` | `ProxyProcess` |

The modules compose as the code does. `AuthServer` extends `Connectors`;
`Gate` extends `RateLimit`, `Routes` and `Connectors`, so that the proxy's and
the auth service's idea of a cookie name meet in one state; `ProxyProcess`
extends `Plugins`; `Identity` extends `Claims`; `Handoff` is an implementation
of `OneTime`. Every `MC` module gives one of them the small sets its runs use.
`PROJECT.json` lists, for every definition, the lines it stands for.

Names follow the source. A definition whose name starts with `Bug` is a
deliberately wrong variant of the one after it; it is used to see that a
property can fail and is no part of any specification.

## SessionLifecycle

**State.** One session id. `session` is the value of its Redis key and `lock`
the refresh-lock key (the code stores the constant `"1"`; the model remembers
who created it, and no action of the code reads that). `pc` and `local` say
where each request handler stands and which copy of the session it holds in
memory. `gen` and `liveRT` are the identity provider: how many tokens it has
issued and which refresh tokens it accepts. `due` and `expired` are the two
questions the code asks the clock (`NeedsRefresh`, `IsExpired`). `dropped`,
`reuses`, `revoked`, `faults` and `losses` are bookkeeping for the properties.

**Actions.** Each Redis command and each provider call is a step.

| code | steps |
|---|---|
| `Service.Refresh` | `RefreshGet`, `Obtain*`, `IdP*`, `Store*`, `Release` |
| `Service.ensureFresh` (resolve, token handoff) | `ResolveGet`, `Obtain*`, `Reread`, `IdP*`, `Store*`, `Release` |
| `AttachTenantContextForConnector` | `AttachGet`, `AttachSet` |
| `Service.Logout` | `LogoutGet`, `Delete` |
| `Store.DeleteSessionsBySubjectEmail` | `RevokeGet`, `Delete` |
| a cancelled request context, a stopped instance | `Abort` |
| key TTLs, Redis failover | `SessionTTL`, `LockTTL`, `LockLost` |

The one difference between `Refresh` and `ensureFresh` that matters is in
`ObtainFree`: the latter goes to `Reread`, the former straight to the provider
with the session it read before it had the lock.

Requests that change nothing (no cookie, unknown session, token not due) are
left out, and so are replies. The claims a refresh brings are not part of this
module. A `SET NX` that finds the key is a nil reply, which the Redis client
reports as an error; the lock interface also allows `ok = false`. Both end the
request without a change, so they are one step.

`LockLost` stands for two things that really happen: the handler holds the lock
across the provider call and the JWKS fetch after it, each with a 10 s client
timeout, and the lock's default TTL is 15 s; and a failover can promote a
replica that has not seen the key (docs/REDIS-HA.md, section 3).

**Runs.** The handlers are interchangeable where `SYMMETRY` says so. One fault
and one lost lock put each of them at every point of every request.

| run | instance | shows |
|---|---|---|
| `session_all` | three handlers, all five requests, one refresh, a provider that rotates the refresh token always, never or now and then | `RefreshersBounded`, `StoredTokenUsable`, `EndedForGood` |
| `session_serve` | two handlers that resolve, log out and revoke, two refreshes | `PresentsCurrentToken`, `DueIsRefreshed` |
| `revoke_resurrects` | two handlers, resolve and logout | `RevokedStaysGone` *violated*, see Findings |

Three handlers are what `RefreshersBounded` needs: one whose lock was lost, one
that took the lock after it, and one that takes it after the first released the
key of the second. Two refreshes (`MaxGen = 3`) are what a stale copy of a token
whose successor was itself replaced needs. Deadlock is not checked: a session
that has ended is the end of its module.

**Fairness** (`session_serve`). A handler that has started runs on: Go schedules
it and every call it makes has a timeout. The lock key's TTL elapses. Requests
keep arriving, which is the condition under which the property is wanted.
Failures are limited to `MaxFaults`, since nothing is promised while the
provider or Redis stays down.

**Proofs** (`SessionLifecycleProofs`), for every set of handlers, every set of
requests and every bound; the assumptions are the `ASSUME`s of
`SessionLifecycle`, which say no more than what sort of thing each constant is
and that handlers are finitely many.

- `TypeCorrect`: `TypeOK` is inductive.
- `EndedIsFinal`: `Ended`, a session that is gone and that no handler will
  write, is stable. The handlers that matter are those after their last read:
  a resolve that waits for the lock is not among them.
- `RefreshersAreBounded`: the invariant counts *orphans*, handlers in the
  critical section whose key is gone or belongs to another. A lost lock makes
  one; a release by an orphan removes that orphan and makes at most the current
  holder one. So orphans never exceed lost locks, and with no lost lock this is
  mutual exclusion.
- `StoredTokenStaysUsable`, for every provider: one that rotates the refresh
  token always, never or now and then, and that revokes the grant on reuse or
  not. There are two arguments. With rotation on every use `TokenInv` says that
  at most one refresh token is alive, that a token just received is known to its
  receiver only, and that the live token is stored, about to be, or dropped. A
  handler with an old copy, whichever way it got past the lock, is refused by
  the provider and never writes, so lost locks do no harm. A provider that
  keeps a token now and then accepts old copies; then `ServeInv` says where a
  token that it accepts is (in the store, with the one handler about to write
  it, or dropped) for as long as no lock was lost and no grant revoked. With no
  lock lost there is one refresher, which is `OrphansBounded` again. The one
  hypothesis is about the model: where reuse revokes, `MaxReuses` is not 0, so
  that `reuses` tells whether a grant was revoked.
- `ServesCurrentToken`, where no request is `Refresh` and the provider does not
  revoke a grant on reuse, with rotation or without: `ServeInv` also says that
  the one refresher holds a token the provider accepts. Both hypotheses are
  needed: TLC finds `PresentsCurrentToken` violated without them.

## Login

**State.** A login is its random `state`, which stands for the verifier and the
nonce stored with it. `pkce` holds the Redis keys, each under its connector's
prefix, and `to` the redirect target kept with each; `login` and `spent` are the
provider's codes; `pc` and `req` the callbacks, each with its connector, state
and code; `sessions` the session keys ever stored; `answer` and `dest` what a
callback answers and where it sends the browser; `jar` the browser's cookie of
each connector. `boot` counts the restarts, and with it the settings change
(base URL, allowed origins and paths). For the properties, `uses` counts the
callbacks that found a state and `begun` remembers what a login was started
with. The end of a session is the subject of `SessionLifecycle`.

**Actions.** `LoginStart`, which validates the target and stores the result;
`Authorize` (external: a user may authenticate twice for one login); `Callback`
and `CallbackDenied`, the browser following or repeating a redirect, on the
right connector or, by a wrong redirect URI, on another, with the state of one
login and the code of the same or of another; the steps of `LoginEnd` in its
order: `PkceGet`/`PkceMiss`, `PkceDelete` (whose error is ignored),
`Exchange`/`ExchangeFails`, `Validate` (where the nonce of a foreign code is
refused, should the provider have accepted the foreign verifier), `SessionSet`,
`CookieEncode` (where the stored target is validated again); `Reply`, the
handler's Set-Cookie reaching the browser, in any order; `PkceTTL`; `Restart`,
which ends the callbacks under way wherever they stand.

`ValidateRedirect` works on parsed targets: nothing, a path, a URL, or a form
that is refused; origins compare by equality, paths by the prefix of their
pieces. Logout and the redemption of a ticket call it once and use the result at
once, which would make a property restate the operator; it is modelled only here,
where time, Redis and a restart lie between two calls.

**Run.** `login_callbacks` has two logins, two connectors (one with a cookie
domain), two codes, two callbacks, one failure and one restart: one callback to
succeed and one to repeat it, to arrive elsewhere or to bring the other code; a
failure or a restart at every point of either. The three targets are a path, a
URL that both settings accept, and one that only the first does; the second
setting has another base URL, with a path. Deadlock is not checked: a browser
whose callbacks are answered is done.

- `OneSessionPerCode` and `CookieNamesSession` hold whatever fails.
- `FoundUntilDeleted` says how much of "consumed exactly once" the two commands
  give; see Other disagreements.
- `RedirectsAllowed`: the browser goes only where the settings now in force
  allow, although the target was stored under earlier ones; and it does go to a
  target that both accept as the same URL. The exception is a path with a base
  URL that itself has a path: `LoginStart` stores base and path joined, and
  `LoginEnd` compares the joined path with the allowed prefixes.

**Proofs** (`LoginProofs`): `LoginTypeCorrect`; `CallbackOnOwnConnector`, from
`PkceOwn`, that a state lies only under its own connector's prefix (the model
takes distinct prefixes as given, which `Config.Normalize` produces unless the
configuration sets equal ones); `CodeMakesOneSession`, from `OneWinner`, that
a callback past the exchange has spent its code and no other callback with that
code is past it, and `MatchedStore`, that past the nonce check code and state are
of one login; `CookieFollowsSession`; `StateFoundUntilDeleted`, the action
property, from `GoneInv`: while nothing has failed, the state of a callback past
the deletion is under no connector's prefix, and it stays so because a state is
drawn once; `RedirectsAlwaysAllowed`, from `StoredInv`, that what is stored with a
login is its target validated under the settings it was started with, and
`ValidatedTwice`, what a second validation makes of the result of the first.

## Handoff and OneTime

**State.** Time is in ticks, `SEC` to the second: `ExpiresAt` is in whole
seconds and the replay record's TTL is not, and what is interesting happens
between the two. `record` is the end of the Redis key of a ticket, `since` the
time at which a redemption measured the TTL, `redeemed` the tickets that were
accepted. Each connector has one session, usable, access-expired (not found by
`FindSessionBySubjectEmail`, but still redeemable) or gone.

**Actions.** `Issue`; `Verify`, the first clock reading; `MeasureTTL`, the second,
from which the record's TTL is computed; `ConsumeFirst`, `ConsumeReplay`,
`ConsumeError` (fails closed, with the record made or not); `Lookup`, the
connector and session checks that come after the ticket is spent; `Abort`.
`Tick` may come between any two of them: a redemption may be slow anywhere. All
instances share one clock; skew between them has the effect of a slow one.

**Abstract specification.** `OneTime` is what a client of a ticket can rely on. A
ticket is live until it is taken or lost, then spent, and nothing leads back. A
request takes it only if it presented it in time, and only if it is live or over:
while a ticket is valid it is taken once at most. A request that took it answers
with one cookie, for the ticket's own connector, or with none. `Handoff` maps its
state to that: `Status` asks whether a record was ever made, although the record
is a Redis key that goes away. A Redis error may leave the ticket spent or not:
`Drop`, in both its forms.

**Run.** `handoff_redeem`: two redemptions, two connectors, two ticks to the
second, a ticket of three ticks and a clock that runs two seconds past its last
valid one, so that records end, too. Two redemptions are what a second
acceptance needs, and either may repeat. `RedeemedOnce` needs exactly the extra
second in the TTL; `OneTimeTicket` is the refinement. Both name one exception: a
ticket is accepted again from a request that verified it in time and reached
Redis after it had expired; see Other disagreements. Deadlock is not checked: at
the bound of the clock, with the sessions gone, nothing is left to happen.

**Proofs** (`HandoffProofs`), without hypotheses: `HandoffTypeCorrect`;
`TicketRedeemedOnce`, for every TTL, resolution and number of redemptions, however
slow. The invariant: the record of a ticket that was ever made reaches to the end
of the ticket's last valid second, whenever its TTL was measured and whenever
Redis set it (`RecordsReach`); `UnixBound` is the arithmetic that connects ticks
and seconds.

`RedeemImplementsOneTime` is the refinement, for every number of tickets,
connectors and redemptions. A step of `Handoff` changes the status of one ticket
at most, and is a step of `OneTime` or a stutter; the hard case is a `SET NX` that
succeeds, which must find a ticket that is live or over, and that follows from the
invariant of `TicketRedeemedOnce`.

## Claims and Identity

**State.** The provider (`Identity`'s `idp` variables) has a clock that may be
`Skews` ahead, a key set it rotates, and users whose claims change between two
tokens. The server has a clock, the JWKS cache with its mutex and expiry, and
the discovery result behind its `sync.Once`. Each flow is a login or a refresh
in progress with the token it got, and each session keeps the claims the code
stores. `Claims` is the pure part: `ValidateIDToken` check by check,
`claimToString` (a numeric claim goes through a float64 with `Mantissa` bits,
53 in the code), the claim mapping at login, `applyRefreshedClaims`, and the
roles as the resolver of the proxy and the session endpoint derive them.

**Actions.** Of a request: `LoginStart`, `Discover`, `Discovered`, `AuthURL`,
`Exchange` or `Refresh` and `RefreshGrant`, `GetJWKS` (the cached keys, or the
mutex and a fetch), `FetchJWKS`, `FetchFails`, `StoreJWKS`, `Check`. Of the
world: `Authorize`, `Rotate`, `Withdraw`, `Tick`, `Restart`.

**Run.** `identity`: two flows, two users with the ids 14 and 15 (the last two
below `2^Mantissa`, where every integer is still exact), two keys, a provider
one tick ahead, tokens, cache and fetch of one tick each, one refresh, one
restart. These are the smallest lifetimes with a moment before, at and after each limit.
`AcceptedInTime` and `RefusedForCause` bound trust from both sides: a withdrawn
key is honoured for the cache's lifetime and a fetch at most, and a fresh token
is refused only for a cause that passes. `SubjectsApart`, `IdentityStable` and
`RolesFollowToken` are about who a session belongs to.

**Fairness.** Some request that can go on does, since goroutines run and calls
to the provider have a timeout. Nothing is assumed of users, of the provider's
rotation or of which request goes first. `Settles` is thus about the mutex and
the `Once`: that everyone behind them comes to an end.

**Proofs** (`IdentityProofs`), for any number of flows, users, keys, refreshes
and restarts, any lifetimes and any skew. The invariant `IdInv` has three parts.
`Phase` says what a flow holds at each point (a token of its own user, issued
under its own nonce with a key of the provider). `Kept` says of a session that
its claims come from tokens of its user. `Ages` is about time: whatever is in the
cache, in a fetch under way or in the hands of a flow was in the provider's key
set at most `Window` ago, the cache's lifetime and a fetch together, and
everything older than that which is still published is in it. The mutex matters
there, since a fetch is as old as its holder has held it.

The theorems name what they need of the provider, and no more; the instance of
the run has all of it.

| theorem | property | hypotheses |
|---|---|---|
| `IdentityTypeCorrect` | `TypeOK` | |
| `KeysTrustedInTime` | `AcceptedInTime` | keys have different names (`DistinctKids`) |
| `TokensRefusedForCause` | `RefusedForCause` | `DistinctKids` |
| `IdentityAlwaysStable` | `IdentityStable` | a user has one `sub` and at most one id (`StableIds`), an id kind is configured |
| `SubjectsAlwaysApart` | `SubjectsApart` | users differ in the mapped claim, all numbers or none (`DistinctIds`); `FloatExact` |
| `RolesAlwaysFollow` | `RolesFollowToken` | no role is the empty string, which the code drops (`RolesNamed`) |

`FloatExact`, that `Float` keeps an integer below `2^Mantissa` and gives no
smaller one for the others, is arithmetic of powers, for which the prover has no
rules; TLC evaluates it for the ids of the run as part of `SubjectsApart`.

## Connectors and AuthServer

**State.** `Connectors` has the operators of the configuration: `ApplyDefaults`,
`Normalize`, `Validate`, the lookups of the HTTP layer (`ConnectorByID`, which
falls back to the default) and of the service (`conn`, which does not), and the
key layout. A prefix or a cookie name is the sequence of the parts the code
joins. `AuthServer` adds the process (`file`, the configuration it was started
with), Redis with its session keys, the browser's cookies (`jar`), tickets in
flight, and as bookkeeping what logins made (`born`) and the latest answer
(`last`; its `who` is the session a handler identified, for a logout the one it
was to remove).

**Actions.** A handler is one step, since `SessionLifecycle`, `Login` and
`Handoff` are about what happens between its store calls: `Callback`,
`CallbackFails`, `Session`, `Resolve`, `Logout`, `IssueHandoff`,
`RedeemHandoff`, `Revoke` and `RevokeFails` (which stops at the first failed
delete), `TokenHandoff`, `Deliver`; and `Start`, `Exit`, `RedisFails`,
`RedisRecovers`, `Expire`, `Lapse` around them. Restarting with another file
keeps Redis, cookies and tickets.

**Run.** `auth_server`: eight files (the legacy form, two connectors, the same with
the other one as default, a connector named `session` with another secret, and
four that must be refused: two defaults, none, one id twice, the placeholder
secret), two sessions, two interchangeable users, one
restart, one Redis outage, one ticket.

- `SameConnector`: no handler answers with a session of another connector. It
  is stated for configurations whose key spaces are owned (`KeySpacesOwned`):
  `validateConnectors` does not compare prefixes, and a restart that makes
  another connector the default hands over the legacy prefix.
- `NamesApart`: derived names and prefixes differ, and a `SCAN` of one connector
  finds nothing of another, except for a connector with the id `session`, whose
  keys the default connector's pattern matches.
- `MigrationKeepsSessions`: docs/MIGRATION.md's promise that the default
  connector keeps the legacy names.
- `RemovalComplete`: what a logout or a 200 of the revocation endpoint means. The
  session a logout was to remove is the one the cookie authenticates, not the
  keys the handler computes.

Deadlock is not checked: a stopped process with no restart left is an end.

**Proofs** (`AuthServerProofs`), for every set of configuration files of the form
`Config` and any number of sessions, users, tickets, restarts and outages. The
invariant `AuthInv`: the process runs with a valid file, and so did the ones
before it (`Files`); each session was made through a connector of one of them,
under that connector's key and cookie (`Births`); a stored session lies under the
key its login gave it (`Stored`). It carries all of the safety properties.

- `AlwaysSameConnector`: a key is a prefix, `session` and an id, so two equal
  keys have equal prefixes and ids (`KeysDiffer`); with owned key spaces the
  connector follows. This is why `born` has to record the key.
- `RemovalsComplete`: the loop of a revocation by the sets of keys it found and
  deleted; the difference is what `Found` still returns.
- `NamesAlwaysApart`: what `Normalize` makes of each connector, and that a valid
  file has one default and no id twice.
- `MigrationAlwaysKeeps`: names that `Normalize` gives the default connector are
  those of the legacy one. It is stated for files with no configured connector
  of the id `default`, which is the legacy connector's, and also holds for a
  single connector that `Normalize` makes the default.
- `AuthTypeCorrect`.

## Routes, RateLimit and Gate

**State.** `Routes` has the proxy's configuration (defaults, the legacy single
route, validation), `matchRoute`, the GraphQL operation name the policy is asked
about, what a GraphQL server runs of the same body (`Runs`, external), the key of
the limiter, and the request rebuilt for the upstream. A path
is the sequence of its parts. `RateLimit` is the token bucket: the code's float
of tokens is an integer number of units, a token being `Minute` units and a tick
`PerMinute`, so that no refill is a fraction. `Gate` has per request its program
counter, input, route, resolved session and outcome, and the live sessions of
the auth service.

**Actions.** `Arrive`, `Match` (one turn of the loop of `matchRoute`), `Matched`
(the 404, or the request goes on), `Resolve` and
`ResolveFails`, `Pipeline` (with the limiter's clock reading), `Limit` (the part
of `Plugin.Handle` under the mutex), `Policy` (evaluation, the answer, or the
reverse proxy), `End` of a session, `Elapse` of time. The clock is read before
the mutex is taken, so two calls may take tokens in the other order; `slip` adds
up by how much a bucket's time moved back.

**Run.** `proxy_requests`: three concurrent requests out of six inputs, five files
(the legacy route, four overlapping routes, and three that must be refused: a
blocked upstream, an HTML route without a login page, a duplicate route id), the
connectors `staff` (default) and `partner`, five policy decisions; burst 1, four requests per minute, a minute of three ticks, one tick
of time, bodies of up to six lexemes. A refill is then more than one token, so
the cap at the burst matters; and of three callers one can read the clock before
the tick and take the mutex between two that read it after, which is what it takes
for a bucket to be refilled twice for one interval. Requests are interchangeable. Deadlock is not checked: when
every request is answered and every session has ended, nothing is left to happen.

- `UpstreamGuarded` joins what an upstream may rely on: operation, principal,
  identity header, path and body. The operation is not the name the proxy found
  but what a server would run of the body it is sent: the operation that
  `operationName` names, or the only one of the document. The bodies of the
  inputs are a document with a comment, two operations of which a cut leaves one,
  an envelope that names the second of two, one that names none, a fragment before
  the operation, and a JSON body that is cut. Its exceptions are the code's: a
  client header can name the operation; a policy that allows requests without a
  name also allows those in which the parser finds none (a fragment first); a base
  path is joined to the path here and again by the reverse proxy; a body over the
  limit is cut.
- `DenialIsSaid` has two exceptions: a denial without a status, or with 200, is
  written as 200 (`http.go:126`); and with `allow_private_upstreams` an upstream
  whose scheme is not http passes validation.
- `GrantsBounded`: for each key, tokens granted and tokens left are at most the
  burst and the rate times the time since its first call, plus the time by which
  its bucket moved back.
- `RoutedMostSpecific`, `LimitedBeforeUpstream`, `DefaultRouteResolves`.
- `connector_route` checks `ConnectorRouteResolves`, *violated*, see Findings.

**Proofs** (`GateProofs`). `LimiterBoundsGrants`: `LimitSpec` (the limiter alone,
with any callers) satisfies `GrantsBounded`, for every rate, burst, clock and
number of keys and calls. The invariant is a budget: units granted plus units in
the bucket are at most the capacity plus the rate times (the bucket's time less
its start, plus `slip`). It holds although the bucket's time moves back, because
what the step back re-opens is what it adds to `slip`.

The others are about the whole request path, for any number of requests, files,
routes, sessions and decisions. `GateInv` has the limiter's invariant; for each
request what it knows at each stage (`Routing`, `Answering`, `Guarding`,
`Naming`, `Recognising`, `Keying`), which no step of another request disturbs; and
`Counted`, that no more requests of a key are past the limiter than it granted.

- `ProxyBoundsGrants`: `GrantsBounded` again, now of `Gate`; its steps are those
  of `LimitSpec` or leave the limiter alone.
- `MostSpecificRoute`: `Best` is the invariant of the loop, that the route so far
  is the best of those looked at. The loop of `matchRoute` is a loop in the model
  for this reason.
- `TokenBeforeUpstream`, `DenialSaidAlways`, `GateTypeCorrect`.
- `UpstreamAlwaysGuarded`, for bodies of any length. `RunsWhatIsNamed`: if the
  proxy finds a name in a body, a server runs that operation of it or none,
  because the operation at the start of a document is its only one or the server
  needs `operationName`. The policy is asked about the body that is sent, cut or
  not, so this is the name it allowed.
- `DefaultRouteRecognises`, if proxy and auth service are configured with the
  same cookie name for the default connector, as docs/CONFIG-KEYS.md asks.

## PolicyReload

**State.** The bundle file (content and mtime), the signature file, the loader's
cache, the engines instantiated so far and the one that serves, `lastMod`, the
load in progress, the evaluations, and what each module instance's memory holds.
A content is a version; what its policy says of an input is a constant.

**Actions.** A load is split at every access to the file system (`Tick`,
`LoadStat`, `LoadRead`, `Install*` with the signature file, `Seed`), because a
publisher writes both files in between (`Publish`, `Sign`); `LoadError` and
`Stop` come anywhere. A WASM evaluation
is split at its three accesses to the memory; a Rego evaluation is one step
under its lock.

**Runs.** `policy_reload`: four versions, one never signed and one that does not
compile, two inputs, both engines, no, a good and a broken key, signatures well
and badly encoded, two writes, one fault, one evaluation at a time. Two writes
are the least for a bundle that changes while an earlier change is loaded.
`AllowIsSaid`: whatever is written meanwhile, only a content that compiles and,
with a key, is signed decides, and an allow is its own. `NewestServed`: once
writes and faults are over, a bundle that loads is served; its exceptions are
changes that keep the mtime and a write between the first load and the stat that
seeds `lastMod`. `evaluate_mixed` has two concurrent evaluations of one instance
and finds `EvaluatesOwnInput` *violated*, see Findings.

**Fairness.** Weak, on the watcher: its ticker fires and file accesses return.
Nothing is assumed of publishers, faults or requests.

**Proofs** (`PolicyReloadProofs`), for any number of versions, writes, loads and
evaluations: `PolicyTypeCorrect` and `AllowIsSaidAlways`. The invariant: the
cache and all instances hold contents that compile and passed the signature check
(`LoaderInv`), though the file and its signature are read at different times;
an evaluation that has the memory to itself reads its own input (`EvalInv`); and
two that share an instance both know it (`SharingKnown`), which is what the
exception of `AllowIsSaid` needs.

## Plugins and ProxyProcess

**State.** `Plugins` is start-up: the registry's maps and the locals of
`BuildDependencyGraph`. Go ranges over maps in any order, so edges and the first
queue come in any order; what is a map or only ever looked up is a set here.
`ProxyProcess` adds the HTTP and gRPC servers, the forwarder's connection, `main`'s progress through shutdown and its deadline, and
one forwarded stream with the director's two pumps.

**Actions.** Reading the key, the walk manifest by manifest, the edges, Kahn's
loop, the policy, the pipeline; start of the servers; arrival, dialling, both
pumps frame by frame, half-close, errors of either side, a peer that stops reading
(`PeerStopsReading`, external), the director's select;
signal, HTTP shutdown, graceful and forced gRPC stop, closing the forwarder.

**Run.** `proxy_process`: ten manifest directories (an order, a cycle, a
missing capability, several providers, a plugin that needs what it provides, a
taken id, bad manifests and signatures at each place, a disabled plugin) in
strict and lenient mode, with and without a key, and nine setups for the
remaining paths; a stream of up to two frames each way, one HTTP request.

- `GraphVerdict`: the loop finds an order exactly when there is one, for every
  order of map iteration. `DiscoversPrefix`: what a bad manifest leaves.
- `ForwardedWhole`, `LeftOnlyAtDeadline`: a call the client sees succeed was
  whole, and what shutdown cuts off it cuts at the deadline only.
- `SignalEnds`, `CompleteCallEnds`: shutdown ends; a call whose client has
  finished ends, and a call that has ended leaves no pump behind. The exceptions
  of the latter: after a frame that could not be received the director waits for
  an upstream that was not told; and while a peer does not read, `SendMsg` waits
  for room in the flow-control window, and the call has no deadline of its own.

**Fairness.** `main` goes on once signalled and the timer of its context fires;
the goroutines of a call keep running, except that `SendMsg` is sure to return
only while the peer reads or when the stream is over (`SendUpstreamReturns`,
`SendClientReturns`); an upstream ends a call after its half-close. The last is
the upstream's contract; TLC finds that `SignalEnds` holds without it.
Deadlock is not checked: a process that has exited is an end.

**Proofs** (`ProxyProcessProofs`), for any registry, manifests, calls and frames.

- `StartupOrderCorrect`: `SortInv` is the invariant of Kahn's loop. The degree of
  a plugin is the number of edges from providers not yet in the order; those of
  degree 0 are in the order or the queue; what is in the order comes after its
  providers. When the queue is empty and plugins are left, each of them waits for
  another that is left, which is the cycle `GraphVerdict` asks for.
- `DiscoveryKeepsPrefix`: `WalkInv`, what is registered after each manifest.
- `CallsForwardedWhole`: `CallInv` relates the counters of the two directions to
  the states of the pumps and to the verdict.
- `ShutdownLeavesOnlyAtDeadline`: `ProcInv`, that past the graceful stop no call
  is active unless it was forced, and that nothing is forced before the deadline.
- `ProcessTypeCorrect`.

## Findings

Three runs check what a document or a comment of the repository says and find it
violated by what the code does.

- `revoke_resurrects`: `ensureFresh` and `Refresh` write the session back
  unconditionally after the provider call. A logout in between deletes it, and
  the write makes it again with fresh tokens and a full TTL.
- `connector_route`: the proxy sends the cookie under the one name its client was
  made with; the auth service reads it under the connector's name. A route with
  another connector than the default never recognises a live session.
- `evaluate_mixed`: evaluations of one WASM instance write their input to the
  same memory without a lock, and one may be decided on the other's input.

## Other disagreements

These have no run of their own; the model has the behaviour, and a property
that is checked names it as an exception.

- `Refresh` presents the token it read before it had the lock
  (`service.go:593`), which may have been exchanged by then; docs/REDIS-HA.md:163
  says "Refresh re-validates freshness, twice." With `refresh` among the
  requests of `session_serve`, `PresentsCurrentToken` is violated; without it,
  as checked, it holds.
- The tenant patch writes back the whole session it read (`service.go:902`) and
  can restore an exchanged refresh token: a disjunct of `StoredTokenUsable`.
- The PKCE state is read and deleted by two commands (`service.go:382`), so two
  callbacks can find it; docs/ARCHITECTURE.md:212 says "consumed exactly once on
  callback". `FoundUntilDeleted` states what holds, and `OneSessionPerCode`
  rests on the provider, which accepts a code once.
- A ticket can be accepted twice: a redemption that verifies it within its last
  valid second and reaches Redis after that second finds the record of an earlier
  one gone (`handoff.go:93`). `handoff.go:80` says "can be redeemed only once",
  docs/MIGRATION.md:140 "redeemable once". TLC finds the plain statement violated;
  `RedeemedOnce` and `OneTime` except this case and no other.
- The clearing cookie lacks the Domain (`httpserver/server.go:265`), so with
  `cookie_domain` set the cookie stays in the browser. `Login`'s `Reply` has it;
  no property is about it.

## What is proved, and what is only checked

Proved for every value of the constants, from the named `ASSUME`s of the modules:
every safety invariant and every action property that a passing run checks, the
type invariants and the refinement included. These theorems have hypotheses of
their own, each named in the section of its module:

- `StoredTokenUsable`: `MaxReuses` is not 0 where reuse revokes;
- `PresentsCurrentToken`: no `Refresh`, no revocation on reuse;
- `AcceptedInTime`, `RefusedForCause`, `IdentityStable`, `SubjectsApart`,
  `RolesFollowToken`: properties of the provider's keys, users and claims, and
  `FloatExact`;
- `DefaultRouteResolves`: one cookie name.

The instances of the runs satisfy these hypotheses.

Only model-checked:

- the liveness properties `DueIsRefreshed`, `Settles`, `NewestServed`,
  `SignalEnds` and `CompleteCallEnds`: fairness and `ENABLED` are out of the
  prover's reach;
- how a float64 rounds, which needs the laws of powers. It enters the proof as the
  hypothesis `FloatExact`, and TLC evaluates it on the ids of the run.

## Not modelled

- **Unused by the two binaries**: cookie encryption and older keys
  (`pkg/cookie`'s codec beyond signing), `internal/session/store.go`,
  the plugin platform and host interfaces (`internal/plugin/platform.go`,
  `config.go`), upstream header helpers (`headers.go`), the access-token
  validator and the token revocation client (`pkg/token/validator_impl.go`,
  `pkg/oidc/revoke.go`). No state of the running system depends on them.
- **No state to speak of**: `cmd/schema`, `validateconfig`, `renderconfig`, test
  data generators, observability, the merging of file and environment in
  `configload` (the models start from its result), generated protobuf code.
- **Abstracted to a flag or a value**: whether an upstream's address is blocked
  (address classification), whether a signature or a cookie verifies, how the
  GraphQL scanner reads characters, gRPC metadata and header mapping, the
  content of webhook calls after login.
- **Not covered by a property**: buckets of the limiter are never evicted and
  module instances of replaced bundles never closed, so nothing bounds either; a
  `SET NX` that finds the lock taken comes back as an error, so a resolve fails
  where it could have answered with the session it has (replies are left out of
  `SessionLifecycle`); a repeated callback clears the cookie, and a browser that
  sees that answer last is logged out again (the model reaches it, nothing
  promises otherwise); the token handoff gives the refresh token to a service
  outside the repository; a route's policy bundle path, which no code reads.
- **Networks and clocks**: Redis is one linearizable store except for the lost
  lock; instances share a clock (skew acts as a slow redemption in `Handoff`, and as
  `Skews` between provider and server in `Identity`).
- **Taken as given**: the `nbf` of an ID token, which the JWT library checks, is no
  later than its `iat`; the fields of a JSON body are spelled as the code spells
  them (Go also accepts another case); the one pipeline plugin returns no error, so
  that the engine's 503 is not reached; a refreshed token has the `sub` of the
  login (no code compares them).
