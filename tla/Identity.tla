------------------------------ MODULE Identity ------------------------------
(***************************************************************************)
(* Logins and refreshes of one connector against its identity provider.    *)
(* The provider rotates its keys, any call to it may fail, and its clock   *)
(* may be ahead; the auth server caches the key set for a while under one  *)
(* mutex, reads the discovery document once per process, and may restart.  *)
(*                                                                         *)
(* A flow is one browser: its login, then the refreshes of its session.    *)
(* The one-time use of states and codes is module Login's, the refresh     *)
(* lock is module SessionLifecycle's.                                      *)
(***************************************************************************)
EXTENDS Claims, FiniteSets

CONSTANTS
  Flow, User,
  UserClaims,  \* for every user, the claims its tokens may carry
  Keys,        \* the provider's keys, a sequence: kid and form
  Skews,       \* seconds the provider's clock may be ahead
  Life,        \* seconds a token is valid
  TTL,         \* seconds a key set is cached
  Fetch,       \* seconds GetJWKS takes at most, by the client's timeout
  MaxRefresh, MaxRestarts   \* bounds

\* OIDC requires a sub in every ID token.
ASSUME IdentityAssumption ==
  /\ "free" \notin Flow /\ "none" \notin Flow
  /\ Life \in Nat \ {0} /\ TTL \in Nat \ {0} /\ Fetch \in Nat /\ Skews \subseteq Nat
  /\ MaxRefresh \in Nat /\ MaxRestarts \in Nat
  /\ Mantissa \in Nat \ {0}
  /\ Keys \in Seq([kid : STRING, form : STRING]) /\ Keys # <<>>
  /\ \A u \in User : UserClaims[u] # {} /\ \A c \in UserClaims[u] : IsClaims(c) /\ c.sub # Empty

VARIABLES
  skew,        \* seconds the provider's clock is ahead
  key,         \* index of the key the provider signs with
  jwks,        \* indices of the keys it publishes
  born, gone,  \* seconds since a key was published and withdrawn
  cache,       \* HTTPJWKSSource.cache: keys, and seconds they are still good for
  lock,        \* its mutex: a flow, or "free"
  held,        \* seconds the mutex has been held
  disc,        \* discoveryOnce and discoveryErr
  flow,        \* logins and refreshes
  sess,        \* their sessions; `mapped`: an id was taken from IdClaim; `last`: the token
  refreshes, restarts
\* Seconds are counted from the event that matters and no further than that.
Window == TTL + Fetch
Later(n, most) == IF n < most THEN n + 1 ELSE n

idp == <<skew, key, jwks, born, gone>>
server == <<cache, lock, held, disc>>
vars == <<idp, server, flow, sess, refreshes, restarts>>

NoTok ==
  [kid |-> "", iss |-> "", aud |-> {}, nonce |-> "", iat |-> 0, exp |-> 0, age |-> 0, claims |-> <<>>]
NoFlow ==
  [pc |-> "idle", mode |-> "login", user |-> "none", tok |-> NoTok, keys |-> {}]
NoSess == [live |-> FALSE, claims |-> <<>>, mapped |-> FALSE, last |-> <<>>]

\* Every variable has its type; the JWKS mutex is held only by a flow that is
\* fetching or storing keys (GetJWKS unlocks on every path), only a session is
\* refreshed, and a session has a subject (LoginEnd).
TypeOK ==
  /\ skew \in Skews
  /\ key \in DOMAIN Keys /\ jwks \subseteq DOMAIN Keys /\ key \in jwks
  /\ cache.keys \subseteq DOMAIN Keys /\ cache.left \in 0..TTL
  /\ lock \in Flow \cup {"free"} /\ held \in 0..Fetch
  /\ (lock # "free") => flow[lock].pc \in {"fetch", "store"}
  /\ disc.st \in {"unset", "fetching", "ok", "failed"} /\ disc.by \in Flow \cup {"none"}
  /\ \A f \in Flow :
       /\ flow[f].pc \in {"idle", "discover", "started", "coded", "validate", "fetch", "store",
                          "check", "session", "refresh", "failed"}
       /\ flow[f].mode = "refresh" => sess[f].live
       /\ sess[f].live => flow[f].user \in User /\ sess[f].claims.sub # Empty
  /\ refreshes \in 0..MaxRefresh /\ restarts \in 0..MaxRestarts

Init ==
  /\ skew \in Skews /\ key = 1 /\ jwks = {1}
  /\ born = [k \in DOMAIN Keys |-> IF k = 1 THEN Window ELSE 0] /\ gone = [k \in DOMAIN Keys |-> 0]
  /\ cache = [keys |-> {}, left |-> 0] /\ lock = "free" /\ held = 0
  /\ disc = [st |-> "unset", by |-> "none"]
  /\ flow = [f \in Flow |-> NoFlow] /\ sess = [f \in Flow |-> NoSess]
  /\ refreshes = 0 /\ restarts = 0

-----------------------------------------------------------------------------
(* The identity provider and time.                                         *)

IdpOnly == UNCHANGED <<skew, server, flow, sess, refreshes, restarts>>
\* The next key is published and signs at once; the old one may stay a while.
Rotate ==
  /\ key < Len(Keys)
  /\ key' = key + 1
  /\ \E s \in {{key + 1}, {key, key + 1}} : jwks' = s
  /\ UNCHANGED <<born, gone>> /\ IdpOnly
Withdraw ==
  /\ jwks # {key} /\ jwks' = {key}
  /\ UNCHANGED <<key, born, gone>> /\ IdpOnly

\* Time passes, but a fetch under the mutex does not outlast its timeouts, and
\* the check of a token with the keys at hand takes none.
Tick ==
  /\ \A f \in Flow : flow[f].pc # "check"
  /\ lock # "free" => held < Fetch
  /\ held' = IF lock = "free" THEN 0 ELSE held + 1
  /\ cache' = [cache EXCEPT !.left = IF @ > 0 THEN @ - 1 ELSE 0]
  /\ born' = [k \in DOMAIN Keys |-> IF k <= key THEN Later(born[k], Window) ELSE 0]
  /\ gone' = [k \in DOMAIN Keys |->
                IF k <= key /\ k \notin jwks THEN Later(gone[k], Window) ELSE 0]
  /\ flow' = [f \in Flow |-> [flow[f] EXCEPT !.tok.age = Later(@, flow[f].tok.exp)]]
  /\ UNCHANGED <<skew, key, jwks, lock, disc, sess, refreshes, restarts>>

\* The token endpoint: a token signed with the current key, for this client.
\* Its times are relative to the moment it is issued.
signIDToken(claims, nonce) ==
  [kid |-> Keys[key].kid, iss |-> Issuer, aud |-> {Audience}, nonce |-> nonce,
   iat |-> skew, exp |-> skew + Life, age |-> 0, claims |-> claims]

-----------------------------------------------------------------------------
(* The auth server.                                                        *)

Goto(f, pc) == flow' = [flow EXCEPT ![f].pc = pc]
FlowOnly == UNCHANGED <<idp, sess, refreshes, restarts>>

\* What a login and a refresh do when the token cannot be validated: the login
\* fails, the refresh keeps the claims it has.
Refused(f) ==
  IF flow[f].mode = "login" THEN [NoFlow EXCEPT !.pc = "failed"]
  ELSE [flow[f] EXCEPT !.pc = "session", !.tok = NoTok, !.keys = {}]

\* LoginStart: the state is stored, then the authorization URL needs discovery.
LoginStart(f) ==
  /\ flow[f].pc = "idle" /\ Goto(f, "discover") /\ UNCHANGED server /\ FlowOnly

\* Client.Discovery: one fetch per process, whose outcome stays.  The others
\* wait for it.  It fails with the provider down, with a bad document, or
\* when the request that happens to be first is cancelled.
Discover(f) ==
  /\ flow[f].pc \in {"discover", "coded", "refresh"} /\ disc.st = "unset"
  /\ disc' = [st |-> "fetching", by |-> f]
  /\ UNCHANGED <<cache, lock, held, flow>> /\ FlowOnly
\* Mutant: a failed fetch is not recorded, and the others wait for it.
BugDiscovered(f) ==
  /\ disc.by = f
  /\ \E st \in {"ok", "fetching"} : disc' = [st |-> st, by |-> "none"]
  /\ UNCHANGED <<cache, lock, held, flow>> /\ FlowOnly
Discovered(f) ==
  /\ disc.by = f
  /\ \E st \in {"ok", "failed"} : disc' = [st |-> st, by |-> "none"]
  /\ UNCHANGED <<cache, lock, held, flow>> /\ FlowOnly
AuthURL(f) ==
  /\ flow[f].pc = "discover" /\ disc.st \in {"ok", "failed"}
  /\ Goto(f, IF disc.st = "ok" THEN "started" ELSE "failed")
  /\ UNCHANGED server /\ FlowOnly

\* Some user logs in at the provider and comes back with a code.
Authorize(f) ==
  /\ flow[f].pc = "started"
  /\ Goto(f, "coded")
  /\ UNCHANGED server /\ FlowOnly

\* The callback exchanges the code; any failure ends the login.
Exchange(f) ==
  /\ flow[f].pc = "coded" /\ disc.st \in {"ok", "failed"}
  /\ \/ /\ disc.st = "ok"
        /\ \E u \in User : \E c \in UserClaims[u] :
             flow' = [flow EXCEPT ![f].pc = "validate", ![f].user = u,
                                  ![f].tok = signIDToken(c, f)]
     \/ flow' = [flow EXCEPT ![f] = Refused(f)]
  /\ UNCHANGED server /\ FlowOnly

\* GetJWKS under the mutex: a key set that has not expired is used, whatever
\* key the token names; otherwise the document and the keys are fetched.
\* Mutant: an expired key set is used when there is one.
BugCached == cache.keys # {}
Cached == cache.left > 0
GetJWKS(f) ==
  /\ flow[f].pc = "validate" /\ lock = "free"
  /\ \/ /\ Cached /\ flow' = [flow EXCEPT ![f].pc = "check", ![f].keys = cache.keys]
        /\ UNCHANGED server
     \/ /\ ~Cached /\ Goto(f, "fetch") /\ lock' = f /\ held' = 0
        /\ UNCHANGED <<cache, disc>>
  /\ FlowOnly
\* The discovery document, then the keys it points to; an error of either.
\* Mutant: the mutex is not released on an error.
BugFetchFails(f) ==
  /\ flow[f].pc = "fetch" /\ flow' = [flow EXCEPT ![f] = Refused(f)]
  /\ UNCHANGED server /\ FlowOnly
FetchFails(f) ==
  /\ flow[f].pc = "fetch" /\ flow' = [flow EXCEPT ![f] = Refused(f)]
  /\ lock' = "free" /\ held' = 0 /\ UNCHANGED <<cache, disc>> /\ FlowOnly
FetchJWKS(f) ==
  /\ flow[f].pc = "fetch"
  /\ flow' = [flow EXCEPT ![f].pc = "store", ![f].keys = jwks]
  /\ UNCHANGED server /\ FlowOnly
StoreJWKS(f) ==
  /\ flow[f].pc = "store" /\ Goto(f, "check")
  /\ cache' = [keys |-> flow[f].keys, left |-> TTL]
  /\ lock' = "free" /\ held' = 0 /\ UNCHANGED disc /\ FlowOnly

KeySet(indices) == [i \in indices |-> Keys[i]]
Nonce(f) == IF flow[f].mode = "login" THEN f ELSE ""
Check(f) ==
  LET tok == flow[f].tok
      ok == ValidateIDToken(tok, KeySet(flow[f].keys), tok.age, Nonce(f))
      had == sess[f].live /\ sess[f].mapped
      claims == IF flow[f].mode = "login" THEN LoginClaims(tok.claims, tokenRoles(tok.claims))
                ELSE applyRefreshedClaims(sess[f].claims, tok.claims)
  IN /\ flow[f].pc = "check"
     /\ \/ /\ ok
           /\ flow' = [flow EXCEPT ![f].pc = "session", ![f].tok = NoTok, ![f].keys = {}]
           /\ sess' = [sess EXCEPT ![f] =
                [live |-> TRUE, claims |-> claims, last |-> tok.claims,
                 mapped |-> had \/ authoritativeID(tok.claims) # Empty]]
        \/ ~ok /\ flow' = [flow EXCEPT ![f] = Refused(f)] /\ UNCHANGED sess
     /\ UNCHANGED <<idp, server, refreshes, restarts>>

\* A session that is due is refreshed; the answer may come without an ID token.
Refresh(f) ==
  /\ flow[f].pc = "session" /\ refreshes < MaxRefresh
  /\ flow' = [flow EXCEPT ![f].pc = "refresh", ![f].mode = "refresh"]
  /\ refreshes' = refreshes + 1
  /\ UNCHANGED <<idp, server, sess, restarts>>
RefreshGrant(f) ==
  /\ flow[f].pc = "refresh" /\ disc.st \in {"ok", "failed"}
  /\ \/ /\ disc.st = "ok"
        /\ \E c \in UserClaims[flow[f].user] :
             flow' = [flow EXCEPT ![f].pc = "validate", ![f].tok = signIDToken(c, "")]
     \/ Goto(f, "session")
  /\ UNCHANGED server /\ FlowOnly

\* A restart forgets the caches and the requests in progress; the stored
\* states and sessions stay.
Restart ==
  /\ restarts < MaxRestarts /\ restarts' = restarts + 1
  /\ cache' = [keys |-> {}, left |-> 0] /\ lock' = "free" /\ held' = 0
  /\ disc' = [st |-> "unset", by |-> "none"]
  /\ flow' = [f \in Flow |->
       IF flow[f].pc \in {"idle", "started", "coded", "session"} THEN flow[f]
       ELSE IF flow[f].pc = "discover" THEN NoFlow ELSE Refused(f)]
  /\ UNCHANGED <<idp, sess, refreshes>>

Request(f) ==
  \/ Discover(f) \/ Discovered(f) \/ AuthURL(f) \/ Exchange(f) \/ GetJWKS(f)
  \/ FetchFails(f) \/ FetchJWKS(f) \/ StoreJWKS(f) \/ Check(f)
  \/ RefreshGrant(f)
Next ==
  \/ Rotate \/ Withdraw \/ Tick \/ Restart
  \/ \E f \in Flow : LoginStart(f) \/ Authorize(f) \/ Refresh(f) \/ Request(f)
Spec == Init /\ [][Next]_vars

\* The server does not stand still while a request can go on: a goroutine runs,
\* and every call to the provider returns or times out.
\* Users owe nothing.
FairSpec == Spec /\ WF_vars(\E f \in Flow : Request(f))

-----------------------------------------------------------------------------
Index(kid) == CHOOSE k \in DOMAIN Keys : Keys[k].kid = kid
Accepts(f) ==
  flow[f].pc = "check" /\ flow'[f].pc = "session"
    /\ (flow[f].mode = "login" \/ sess'[f] # sess[f])
Refuses(f) ==
  /\ flow[f].pc = "check" /\ flow'[f].pc # "check" /\ sess'[f] = sess[f]
  /\ UNCHANGED restarts
  /\ flow[f].mode = "login" \/ sess[f].last # flow[f].tok.claims

\* A withdrawn key is trusted for a bounded time (jwks_http.go:67): a token is
\* accepted before it expires, and at most the cache's lifetime and one
\* fetch after its key left the provider's key set.
AcceptedInTime ==
  [][\A f \in Flow : Accepts(f) =>
       LET k == Index(flow[f].tok.kid)
       IN flow[f].tok.age < flow[f].tok.exp /\ (k \notin jwks => gone[k] < Window)]_vars

\* A token the provider has just issued is refused only for a cause that passes
\* (jwks_http.go:67, validate_idtoken.go:30): its key is newer than the cached
\* key set can be or was withdrawn meanwhile, its key is one the server does
\* not take, its date lies ahead of the server's clock, or it came too late.
RefusedForCause ==
  [][\A f \in Flow : Refuses(f) =>
       LET tok == flow[f].tok
           k == Index(tok.kid)
       IN \/ born[k] < Window \/ k \notin jwks \/ Keys[k].form # "good"
          \/ tok.age < tok.iat \/ tok.age >= tok.exp]_vars

\* The downstream identity stays (service.go:651): a refresh never changes the
\* id or its kind, except that an id which the login had to take from sub is
\* replaced by the first one found in the configured claim.
IdentityStable ==
  [][\A f \in Flow : sess[f].live =>
       /\ sess'[f].claims.kind = sess[f].claims.kind
       /\ \/ sess'[f].claims.sub = sess[f].claims.sub
          \/ ~sess[f].mapped /\ sess'[f].mapped]_vars

\* Different users have different ids (service.go:492), unless a numeric id is
\* past what a float64 holds or one of them had no id in the claim.
SubjectsApart ==
  \A f, g \in Flow :
    (/\ sess[f].live /\ sess[g].live /\ flow[f].user # flow[g].user
     /\ sess[f].claims.sub = sess[g].claims.sub) =>
      \/ ~sess[f].mapped \/ ~sess[g].mapped
      \/ sess[f].claims.sub[1] = "digits" /\ sess[f].claims.sub[2] >= 2^Mantissa

\* The roles in force are those of the last token accepted (resolver.go:76,
\* context.go:266): neither the proxy nor the session endpoint sees a role
\* that token does not grant, and both see the same.
RolesFollowToken ==
  \A f \in Flow : sess[f].live =>
    /\ Principal(sess[f].claims).roles = tokenRoles(sess[f].last)
    /\ SessionUser(sess[f].claims).roles = tokenRoles(sess[f].last)

\* Nobody waits forever (discovery.go:55, jwks_http.go:67): a login or refresh
\* that is being served comes to an end, although all of them wait for one
\* mutex and one discovery.
Settles ==
  \A f \in Flow :
    flow[f].pc \in {"discover", "validate", "fetch", "store", "check", "refresh"}
      ~> flow[f].pc \in {"idle", "started", "session", "failed"}
=============================================================================
