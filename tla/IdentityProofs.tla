--------------------------- MODULE IdentityProofs ---------------------------
(***************************************************************************)
(* Proofs about module Identity, for any number of flows, users, keys,     *)
(* refreshes and restarts, any token lifetime and cache lifetime.          *)
(***************************************************************************)
EXTENDS Identity, TLAPS

\* Hypotheses on the provider, each used by the theorems that name it.
\* Its keys have different names.
DistinctKids == \A i, j \in DOMAIN Keys : Keys[i].kid = Keys[j].kid => i = j

\* It names a user by one sub, and by one id where the mapped claim is there.
StableIds ==
  \A u \in User : \A c, d \in UserClaims[u] :
    /\ c.sub = d.sub
    /\ authoritativeID(c) # Empty /\ authoritativeID(d) # Empty
         => authoritativeID(c) = authoritativeID(d)

\* Users have different values in the mapped claim, all numbers or none.
DistinctIds ==
  /\ \A u, v \in User : u # v =>
       \A c \in UserClaims[u], d \in UserClaims[v] : c.mapped # Empty => c.mapped # d.mapped
  /\ \/ \A u \in User : \A c \in UserClaims[u] :
          c.mapped # Empty => \E n \in Nat : c.mapped = <<"number", n>>
     \/ \A u \in User : \A c \in UserClaims[u] : c.mapped # Empty => c.mapped[1] # "number"

\* A float64 is exact below 2^Mantissa.  That Float rounds like this is arithmetic
\* of powers, which the provers do not have.
FloatExact == \A n \in Nat : Float(n) = n \/ Float(n) >= 2^Mantissa

\* The empty string is no role.
RolesNamed == \A u \in User : \A c \in UserClaims[u] : "" \notin c.realm \cup c.top

-----------------------------------------------------------------------------
(* The inductive invariant.                                                *)

PC == {"idle", "discover", "started", "coded", "validate", "fetch", "store", "check",
       "session", "refresh", "failed"}

\* Tokens as the provider issues them, and NoTok.
Nonces == Flow \cup {""}
Tok ==
  [kid : {Keys[k].kid : k \in DOMAIN Keys} \cup {""}, iss : {Issuer, ""}, aud : {{Audience}, {}},
   nonce : Nonces, iat : Nat, exp : Nat, age : Nat,
   claims : {<<>>} \cup UNION {UserClaims[u] : u \in User}]
FlowRec ==
  [pc : PC, mode : {"login", "refresh"}, user : User \cup {"none"}, tok : Tok,
   keys : SUBSET DOMAIN Keys]

IdpShape ==
  /\ skew \in Skews
  /\ key \in DOMAIN Keys /\ jwks \subseteq DOMAIN Keys /\ key \in jwks /\ \A k \in jwks : k <= key
  /\ born \in [DOMAIN Keys -> 0..Window] /\ gone \in [DOMAIN Keys -> 0..Window]
ServerShape ==
  /\ cache \in [keys : SUBSET DOMAIN Keys, left : 0..TTL]
  /\ lock \in Flow \cup {"free"} /\ held \in 0..Fetch
  /\ disc \in [st : {"unset", "fetching", "ok", "failed"}, by : Flow \cup {"none"}]
  /\ refreshes \in 0..MaxRefresh /\ restarts \in 0..MaxRestarts
Shape ==
  /\ IdpShape /\ ServerShape
  /\ flow \in [Flow -> FlowRec]
  /\ sess = [f \in Flow |-> sess[f]]

\* What is known of a token between its issue and its check.
Issued(f) ==
  /\ flow[f].user \in User /\ flow[f].tok.claims \in UserClaims[flow[f].user]
  /\ \E k \in DOMAIN Keys : flow[f].tok.kid = Keys[k].kid
  /\ flow[f].tok.iss = Issuer /\ flow[f].tok.aud = {Audience}
  /\ flow[f].mode = "login" => flow[f].tok.nonce = f

\* Where a flow is, whether it has a session, and whether it holds the mutex.
Phase(f) ==
  /\ flow[f].pc \in {"idle", "discover", "started", "coded", "failed"} =>
       flow[f].mode = "login" /\ ~sess[f].live
  /\ flow[f].pc \in {"session", "refresh"} => sess[f].live
  /\ flow[f].pc = "refresh" => flow[f].mode = "refresh"
  /\ flow[f].mode = "refresh" => sess[f].live
  /\ flow[f].mode = "login" /\ sess[f].live => flow[f].pc = "session"
  /\ flow[f].pc \in {"validate", "fetch", "store", "check"} => Issued(f)
  /\ flow[f].pc \in {"fetch", "store"} <=> lock = f
  /\ sess[f].live \in BOOLEAN

\* What a session keeps of the tokens of its user.
Kept(f) ==
  LET s == sess[f] IN
  s.live =>
    /\ flow[f].user \in User /\ s.last \in UserClaims[flow[f].user]
    /\ IsClaims(s.claims) /\ s.claims.sub # Empty
    /\ s.claims.realm = s.last.realm /\ (s.last.realm = {} => s.claims.top = s.last.top)
    /\ IdKind # "" => s.claims.kind = IdKind
    /\ s.mapped \in BOOLEAN
    /\ s.mapped => \E c \in UserClaims[flow[f].user] :
                     authoritativeID(c) # Empty /\ s.claims.sub = authoritativeID(c)
    /\ ~s.mapped => \E c \in UserClaims[flow[f].user] : s.claims.sub = c.sub

\* A key set is n seconds old at most: what it has too much left the provider
\* within n seconds, what it lacks was published within n seconds.
Recent(keys, n) ==
  \A k \in DOMAIN Keys : /\ k \in keys /\ k \notin jwks => gone[k] <= n
                         /\ k \in jwks /\ k \notin keys => born[k] <= n
Ages ==
  /\ \A k \in DOMAIN Keys : /\ k \in jwks \/ k > key => gone[k] = 0
                            /\ k > key => born[k] = 0
  /\ cache.left > 0 => Recent(cache.keys, Window - cache.left)
  /\ \A f \in Flow : flow[f].pc = "store" => Recent(flow[f].keys, held)
  /\ \A f \in Flow : flow[f].pc = "check" => Recent(flow[f].keys, Window - 1)

IdInv == Shape /\ (\A f \in Flow : Phase(f) /\ Kept(f)) /\ Ages

-----------------------------------------------------------------------------
(* Lemmas on the claims.                                                   *)

\* What a login keeps of the claims of its token.
LEMMA LoginKeeps ==
  ASSUME NEW c, IsClaims(c), c.sub # Empty
  PROVE  LET d == LoginClaims(c, tokenRoles(c)) IN
         /\ IsClaims(d) /\ d.sub # Empty
         /\ d.realm = c.realm /\ (c.realm = {} => d.top = c.top)
         /\ IdKind # "" => d.kind = IdKind
         /\ d.sub = IF authoritativeID(c) # Empty THEN authoritativeID(c) ELSE c.sub
<1> DEFINE d == LoginClaims(c, tokenRoles(c))
           sub == IF authoritativeID(c) # Empty THEN authoritativeID(c) ELSE c.sub
           kind == IF IdKind # "" THEN IdKind ELSE c.kind
           top == IF tokenRoles(c) # {} THEN tokenRoles(c) ELSE c.top
<1>1. d = [[[c EXCEPT !.sub = sub] EXCEPT !.kind = kind] EXCEPT !.top = top]
  BY Zenon DEF LoginClaims, IsClaims
<1>2. IdKind # "" => kind = IdKind
  BY Zenon
<1>3. c.realm = {} => top = c.top
  BY Zenon DEF tokenRoles
<1>4. sub # Empty
  BY Zenon
<1> HIDE DEF d, sub, kind, top
<1>5. IsClaims(d) /\ d.sub = sub /\ d.kind = kind /\ d.top = top /\ d.realm = c.realm
  BY <1>1, Zenon DEF IsClaims
<1> QED BY <1>2, <1>3, <1>4, <1>5, Zenon DEF d, sub

\* What a refresh keeps of the claims of the session and of the new token.
LEMMA RefreshKeeps ==
  ASSUME NEW old, NEW c, IsClaims(c), c.sub # Empty, old.sub # Empty
  PROVE  LET d == applyRefreshedClaims(old, c) IN
         /\ IsClaims(d) /\ d.sub # Empty
         /\ d.realm = c.realm /\ d.top = c.top
         /\ IdKind # "" => d.kind = IdKind
         /\ d.sub = IF authoritativeID(c) # Empty THEN authoritativeID(c)
                    ELSE IF IdClaim \notin {"", "sub"} THEN old.sub ELSE c.sub
<1> DEFINE d == applyRefreshedClaims(old, c)
           sub == IF authoritativeID(c) # Empty THEN authoritativeID(c)
                  ELSE IF IdClaim \notin {"", "sub"} THEN old.sub ELSE c.sub
           kind == IF IdKind # "" THEN IdKind ELSE IF old.kind # "" THEN old.kind ELSE c.kind
<1>1. d = [[c EXCEPT !.sub = sub] EXCEPT !.kind = kind]
  BY Zenon DEF applyRefreshedClaims, IsClaims
<1>2. IdKind # "" => kind = IdKind
  BY Zenon
<1>3. sub # Empty
  BY Zenon
<1> HIDE DEF d, sub, kind
<1>4. IsClaims(d) /\ d.sub = sub /\ d.kind = kind /\ d.top = c.top /\ d.realm = c.realm
  BY <1>1, Zenon DEF IsClaims
<1> QED BY <1>2, <1>3, <1>4, Zenon DEF d, sub

-----------------------------------------------------------------------------
(* Lemmas on the flows.                                                    *)

\* Only flow f moves.
Only(f) == flow' \in [Flow -> FlowRec] /\ \A g \in Flow \ {f} : flow'[g] = flow[g]

LEMMA TokType == NoTok \in Tok /\ NoFlow \in FlowRec
<1> DEFINE zero == 0
<1>1. zero \in Nat /\ NoTok = [kid |-> "", iss |-> "", aud |-> {}, nonce |-> "", iat |-> zero,
                               exp |-> zero, age |-> zero, claims |-> <<>>]
  BY Zenon DEF NoTok
<1> HIDE DEF zero
<1>2. NoTok \in Tok
  BY <1>1, Zenon DEF Tok, Nonces
<1> QED BY <1>2, Zenon DEF NoFlow, FlowRec, PC

LEMMA GotoMoves ==
  ASSUME Shape, NEW f \in Flow, NEW pc \in PC, Goto(f, pc)
  PROVE  /\ Only(f) /\ flow'[f].pc = pc
         /\ flow'[f].mode = flow[f].mode /\ flow'[f].user = flow[f].user
         /\ flow'[f].tok = flow[f].tok /\ flow'[f].keys = flow[f].keys
  BY Zenon DEF Shape, Goto, Only, FlowRec

LEMMA RefusedType ==
  ASSUME Shape, NEW f \in Flow
  PROVE  LET q == Refused(f) IN
         /\ q \in FlowRec
         /\ flow[f].mode = "login" => q.pc = "failed" /\ q.mode = "login"
         /\ flow[f].mode = "refresh" => q.pc = "session" /\ q.mode = "refresh" /\ q.user = flow[f].user
<1>1. flow[f] \in FlowRec /\ flow[f].mode \in {"login", "refresh"}
  BY Zenon DEF Shape, FlowRec
<1>2. flow[f].mode = "login" => /\ Refused(f) \in FlowRec /\ Refused(f).pc = "failed"
                                /\ Refused(f).mode = "login"
  BY TokType, Zenon DEF Refused, NoFlow, FlowRec, PC
<1>3. flow[f].mode = "refresh" => /\ Refused(f) \in FlowRec /\ Refused(f).pc = "session"
                                  /\ Refused(f).mode = "refresh" /\ Refused(f).user = flow[f].user
  BY <1>1, TokType, Zenon DEF Refused, FlowRec, PC
<1> QED BY <1>1, <1>2, <1>3, Zenon

LEMMA RefusedMoves ==
  ASSUME Shape, NEW f \in Flow, flow' = [flow EXCEPT ![f] = Refused(f)]
  PROVE  /\ Only(f)
         /\ flow[f].mode = "login" => flow'[f].pc = "failed" /\ flow'[f].mode = "login"
         /\ flow[f].mode = "refresh" => /\ flow'[f].pc = "session" /\ flow'[f].mode = "refresh"
                                        /\ flow'[f].user = flow[f].user
  BY RefusedType, Zenon DEF Only, Shape


\* What a step of flow f leaves alone: the other flows, their sessions, and the
\* mutex, unless f takes or releases it.
Rest(f) ==
  /\ Only(f)
  /\ sess' = [g \in Flow |-> sess'[g]] /\ \A g \in Flow \ {f} : sess'[g] = sess[g]
  /\ lock' = lock \/ (lock \in {f, "free"} /\ lock' \in {f, "free"})

\* Such a step keeps what is known of the other flows.
LEMMA RestKeeps ==
  ASSUME IdInv, NEW f \in Flow, Rest(f), NEW g \in Flow, g # f
  PROVE  Phase(g)' /\ Kept(g)'
<1>1. flow'[g] = flow[g] /\ sess'[g] = sess[g]
  BY Zenon DEF Rest, Only
<1>2. lock = g <=> lock' = g
  BY IdentityAssumption DEF Rest
<1>3. Phase(g) /\ Kept(g)
  BY Zenon DEF IdInv
<1>4. Phase(g)'
  BY <1>1, <1>2, <1>3, Zenon DEF Phase, Issued
<1>5. Kept(g)'
  BY <1>1, <1>3, Zenon DEF Kept
<1> QED BY <1>4, <1>5, Zenon

\* Flow f goes on without a change of its session.
LEMMA KeptKeeps ==
  ASSUME IdInv, NEW f \in Flow, sess'[f] = sess[f], sess[f].live => flow'[f].user = flow[f].user
  PROVE  Kept(f)'
<1>1. Kept(f)
  BY Zenon DEF IdInv
<1> QED BY <1>1, Zenon DEF Kept

-----------------------------------------------------------------------------
(* The steps of a flow.                                                    *)

\* The flow of the step and the sessions after it.
Moves(f) == Rest(f) /\ Phase(f)' /\ Kept(f)'

LEMMA LoginStartMoves ==
  ASSUME IdInv, NEW f \in Flow, LoginStart(f)
  PROVE  Moves(f) /\ flow'[f].pc \notin {"store", "check"}
<1>1. Shape /\ Phase(f)
  BY Zenon DEF IdInv
<1>2. /\ Only(f) /\ flow'[f].pc = "discover" /\ flow'[f].mode = flow[f].mode
      /\ flow'[f].user = flow[f].user
  BY <1>1, GotoMoves, Zenon DEF LoginStart, PC
<1>3. UNCHANGED <<sess, lock>> /\ flow[f].pc = "idle"
  BY Zenon DEF LoginStart, FlowOnly, server
<1>4. Rest(f)
  BY <1>1, <1>2, <1>3, Zenon DEF Rest, Shape
<1>5. Phase(f)'
  BY <1>1, <1>2, <1>3, Zenon DEF Phase
<1>6. Kept(f)'
  BY <1>2, <1>3, KeptKeeps, Zenon
<1> QED BY <1>2, <1>4, <1>5, <1>6, Zenon DEF Moves

LEMMA AuthURLMoves ==
  ASSUME IdInv, NEW f \in Flow, AuthURL(f)
  PROVE  Moves(f) /\ flow'[f].pc \notin {"store", "check"}
<1>1. Shape /\ Phase(f)
  BY Zenon DEF IdInv
<1>2. /\ Only(f) /\ flow'[f].pc \in {"started", "failed"} /\ flow'[f].mode = flow[f].mode
      /\ flow'[f].user = flow[f].user
  BY <1>1, GotoMoves, Zenon DEF AuthURL, PC
<1>3. UNCHANGED <<sess, lock>> /\ flow[f].pc = "discover"
  BY Zenon DEF AuthURL, FlowOnly, server
<1>4. Rest(f)
  BY <1>1, <1>2, <1>3, Zenon DEF Rest, Shape
<1>5. Phase(f)'
  BY <1>1, <1>2, <1>3, Zenon DEF Phase, Issued
<1>6. Kept(f)'
  BY <1>2, <1>3, KeptKeeps, Zenon
<1> QED BY <1>2, <1>4, <1>5, <1>6, Zenon DEF Moves

LEMMA AuthorizeMoves ==
  ASSUME IdInv, NEW f \in Flow, Authorize(f)
  PROVE  Moves(f) /\ flow'[f].pc \notin {"store", "check"}
<1>1. Shape /\ Phase(f)
  BY Zenon DEF IdInv
<1>2. /\ Only(f) /\ flow'[f].pc = "coded" /\ flow'[f].mode = flow[f].mode
      /\ flow'[f].user = flow[f].user
  BY <1>1, GotoMoves, Zenon DEF Authorize, PC
<1>3. UNCHANGED <<sess, lock>> /\ flow[f].pc = "started"
  BY Zenon DEF Authorize, FlowOnly, server
<1>4. Rest(f)
  BY <1>1, <1>2, <1>3, Zenon DEF Rest, Shape
<1>5. Phase(f)'
  BY <1>1, <1>2, <1>3, Zenon DEF Phase, Issued
<1>6. Kept(f)'
  BY <1>2, <1>3, KeptKeeps, Zenon
<1> QED BY <1>2, <1>4, <1>5, <1>6, Zenon DEF Moves

\* A refusal ends a login and leaves a session as it is.
LEMMA RefusedKeeps ==
  ASSUME IdInv, NEW f \in Flow, flow' = [flow EXCEPT ![f] = Refused(f)], UNCHANGED sess,
         lock' # f, lock' = lock \/ (lock \in {f, "free"} /\ lock' \in {f, "free"}),
         flow[f].pc \in {"coded", "validate", "fetch", "store", "check"}
  PROVE  Moves(f) /\ flow'[f].pc \notin {"store", "check"}
<1>1. Shape /\ Phase(f)
  BY Zenon DEF IdInv
<1>2. /\ Only(f)
      /\ flow[f].mode = "login" => flow'[f].pc = "failed" /\ flow'[f].mode = "login"
      /\ flow[f].mode = "refresh" => /\ flow'[f].pc = "session" /\ flow'[f].mode = "refresh"
                                     /\ flow'[f].user = flow[f].user
  BY <1>1, RefusedMoves, Zenon
<1>3. flow[f].mode \in {"login", "refresh"}
  BY <1>1, Zenon DEF Shape, FlowRec
<1>4. Rest(f)
  BY <1>1, <1>2, Zenon DEF Rest, Shape
<1>5. Phase(f)'
  BY <1>1, <1>2, <1>3, Zenon DEF Phase
<1>6. Kept(f)'
  BY <1>1, <1>2, <1>3, KeptKeeps, Zenon DEF Phase
<1> QED BY <1>2, <1>3, <1>4, <1>5, <1>6, Zenon DEF Moves

\* A token the provider signs.
LEMMA Signed ==
  ASSUME Shape, NEW u \in User, NEW c \in UserClaims[u], NEW n \in Nonces
  PROVE  LET t == signIDToken(c, n) IN
         /\ t \in Tok /\ t.claims = c /\ t.iss = Issuer /\ t.aud = {Audience} /\ t.nonce = n
         /\ \E k \in DOMAIN Keys : t.kid = Keys[k].kid
<1>1. skew \in Nat /\ Life \in Nat
  BY IdentityAssumption, Zenon DEF Shape, IdpShape
<1>2. key \in DOMAIN Keys
  BY Zenon DEF Shape, IdpShape
<1> DEFINE t == signIDToken(c, n)
<1>3. /\ t.claims = c /\ t.iss = Issuer /\ t.aud = {Audience} /\ t.nonce = n
      /\ t.kid = Keys[key].kid
  BY Zenon DEF signIDToken
<1>4. skew + Life \in Nat /\ 0 \in Nat
  BY <1>1
<1>5. c \in {<<>>} \cup UNION {UserClaims[v] : v \in User}
  BY Zenon
<1>6. Keys[key].kid \in {Keys[k].kid : k \in DOMAIN Keys} \cup {""}
  BY <1>2, Zenon
<1>7. t \in Tok
  BY <1>1, <1>4, <1>5, <1>6, Zenon DEF signIDToken, Tok
<1> HIDE DEF t
<1> QED BY <1>2, <1>3, <1>7, Zenon DEF t

\* Two or three fields of a flow are overwritten.
PutMode(r, pc, m) == [r EXCEPT !.pc = pc, !.mode = m]
LEMMA WithMode ==
  ASSUME NEW r \in FlowRec, NEW pc \in PC, NEW m \in {"login", "refresh"}
  PROVE  LET q == PutMode(r, pc, m) IN
         q \in FlowRec /\ q.pc = pc /\ q.mode = m /\ q.user = r.user
<1> DEFINE r1 == [r EXCEPT !.pc = pc]
<1>1. r1 \in FlowRec /\ r1.pc = pc /\ r1.user = r.user
  BY Zenon DEF FlowRec
<1>2. PutMode(r, pc, m) = [r1 EXCEPT !.mode = m]
  BY Zenon DEF PutMode
<1> HIDE DEF r1
<1> QED BY <1>1, <1>2, Zenon DEF FlowRec

PutTok(r, pc, t) == [r EXCEPT !.pc = pc, !.tok = t]
LEMMA WithTok ==
  ASSUME NEW r \in FlowRec, NEW pc \in PC, NEW t \in Tok
  PROVE  LET q == PutTok(r, pc, t) IN
         q \in FlowRec /\ q.pc = pc /\ q.mode = r.mode /\ q.user = r.user /\ q.tok = t
<1> DEFINE r1 == [r EXCEPT !.pc = pc]
<1>1. r1 \in FlowRec /\ r1.pc = pc /\ r1.mode = r.mode /\ r1.user = r.user
  BY Zenon DEF FlowRec
<1>2. PutTok(r, pc, t) = [r1 EXCEPT !.tok = t]
  BY Zenon DEF PutTok
<1> HIDE DEF r1
<1> QED BY <1>1, <1>2, Zenon DEF FlowRec

PutKeys(r, pc, ks) == [r EXCEPT !.pc = pc, !.keys = ks]
LEMMA WithKeys ==
  ASSUME NEW r \in FlowRec, NEW pc \in PC, NEW ks \in SUBSET DOMAIN Keys
  PROVE  LET q == PutKeys(r, pc, ks) IN
         /\ q \in FlowRec /\ q.pc = pc /\ q.mode = r.mode /\ q.user = r.user /\ q.tok = r.tok
         /\ q.keys = ks
<1> DEFINE r1 == [r EXCEPT !.pc = pc]
<1>1. r1 \in FlowRec /\ r1.pc = pc /\ r1.mode = r.mode /\ r1.user = r.user /\ r1.tok = r.tok
  BY Zenon DEF FlowRec
<1>2. PutKeys(r, pc, ks) = [r1 EXCEPT !.keys = ks]
  BY Zenon DEF PutKeys
<1> HIDE DEF r1
<1> QED BY <1>1, <1>2, Zenon DEF FlowRec

PutUser(r, pc, u, t) == [r EXCEPT !.pc = pc, !.user = u, !.tok = t]
LEMMA WithUser ==
  ASSUME NEW r \in FlowRec, NEW pc \in PC, NEW u \in User, NEW t \in Tok
  PROVE  LET q == PutUser(r, pc, u, t) IN
         q \in FlowRec /\ q.pc = pc /\ q.mode = r.mode /\ q.user = u /\ q.tok = t
<1> DEFINE r1 == [r EXCEPT !.pc = pc]
           r2 == [r1 EXCEPT !.user = u]
<1>1. r1 \in FlowRec /\ r1.pc = pc /\ r1.mode = r.mode
  BY Zenon DEF FlowRec
<1>2. PutUser(r, pc, u, t) = [r2 EXCEPT !.tok = t]
  BY Zenon DEF PutUser
<1> HIDE DEF r1
<1>3. r2 \in FlowRec /\ r2.pc = pc /\ r2.mode = r.mode /\ r2.user = u
  BY <1>1, Zenon DEF FlowRec
<1> HIDE DEF r2
<1> QED BY <1>2, <1>3, Zenon DEF FlowRec

DropTok(r, pc) == [r EXCEPT !.pc = pc, !.tok = NoTok, !.keys = {}]
LEMMA WithoutTok ==
  ASSUME NEW r \in FlowRec, NEW pc \in PC
  PROVE  LET q == DropTok(r, pc) IN
         q \in FlowRec /\ q.pc = pc /\ q.mode = r.mode /\ q.user = r.user
<1> DEFINE r1 == [r EXCEPT !.pc = pc]
           r2 == [r1 EXCEPT !.tok = NoTok]
<1>1. r1 \in FlowRec /\ r1.pc = pc /\ r1.mode = r.mode /\ r1.user = r.user
  BY Zenon DEF FlowRec
<1>2. DropTok(r, pc) = [r2 EXCEPT !.keys = {}]
  BY Zenon DEF DropTok
<1> HIDE DEF r1
<1>3. r2 \in FlowRec /\ r2.pc = pc /\ r2.mode = r.mode /\ r2.user = r.user
  BY <1>1, TokType, Zenon DEF FlowRec
<1> HIDE DEF r2
<1> QED BY <1>2, <1>3, Zenon DEF FlowRec

\* Flow f is replaced.
LEMMA Replaced ==
  ASSUME Shape, NEW f \in Flow, NEW q \in FlowRec, flow' = [flow EXCEPT ![f] = q]
  PROVE  Only(f) /\ flow'[f] = q
  BY Zenon DEF Shape, Only

LEMMA ExchangeMoves ==
  ASSUME IdInv, NEW f \in Flow, Exchange(f)
  PROVE  Moves(f) /\ flow'[f].pc \notin {"store", "check"}
<1>1. Shape /\ Phase(f)
  BY Zenon DEF IdInv
<1>2. UNCHANGED <<sess, lock>> /\ flow[f].pc = "coded"
  BY Zenon DEF Exchange, FlowOnly, server
<1>3. CASE flow' = [flow EXCEPT ![f] = Refused(f)]
  BY <1>1, <1>2, <1>3, RefusedKeeps, Zenon DEF Phase
<1>4. CASE \E u \in User : \E c \in UserClaims[u] :
             flow' = [flow EXCEPT ![f].pc = "validate", ![f].user = u,
                                  ![f].tok = signIDToken(c, f)]
  <2>0. PICK u \in User : \E c \in UserClaims[u] :
             flow' = [flow EXCEPT ![f].pc = "validate", ![f].user = u,
                                  ![f].tok = signIDToken(c, f)]
    BY <1>4, Zenon
  <2>1. PICK c \in UserClaims[u] :
             flow' = [flow EXCEPT ![f].pc = "validate", ![f].user = u,
                                  ![f].tok = signIDToken(c, f)]
    BY <2>0, Zenon
  <2> DEFINE t == signIDToken(c, f)
             q == PutUser(flow[f], "validate", u, t)
  <2>9. f \in Nonces
    BY Zenon DEF Nonces
  <2>2. /\ t \in Tok /\ t.claims = c /\ t.iss = Issuer /\ t.aud = {Audience} /\ t.nonce = f
        /\ \E k \in DOMAIN Keys : t.kid = Keys[k].kid
    BY <1>1, <2>9, Signed
  <2>7. flow' = [flow EXCEPT ![f] = q] /\ flow[f] \in FlowRec /\ "validate" \in PC
    BY <1>1, <2>1, Zenon DEF Shape, PC, PutUser
  <2> HIDE DEF t
  <2>8. /\ q \in FlowRec /\ q.pc = "validate" /\ q.mode = flow[f].mode /\ q.user = u /\ q.tok = t
    BY <2>2, <2>7, WithUser
  <2> HIDE DEF q
  <2>3. /\ Only(f) /\ flow'[f].pc = "validate" /\ flow'[f].mode = flow[f].mode
        /\ flow'[f].user = u /\ flow'[f].tok = t
    BY <1>1, <2>7, <2>8, Replaced, Zenon
  <2>4. Rest(f)
    BY <1>1, <1>2, <2>3, Zenon DEF Rest, Shape
  <2>5. Phase(f)'
    BY <1>1, <1>2, <2>2, <2>3, Zenon DEF Phase, Issued
  <2>6. Kept(f)'
    BY <1>1, <1>2, KeptKeeps, Zenon DEF Phase
  <2> QED BY <2>3, <2>4, <2>5, <2>6, Zenon DEF Moves
<1> QED BY <1>3, <1>4, ZenonT(30) DEF Exchange

LEMMA RefreshGrantMoves ==
  ASSUME IdInv, NEW f \in Flow, RefreshGrant(f)
  PROVE  Moves(f) /\ flow'[f].pc \notin {"store", "check"}
<1>1. Shape /\ Phase(f)
  BY Zenon DEF IdInv
<1>2. UNCHANGED <<sess, lock>> /\ flow[f].pc = "refresh" /\ sess[f].live /\ flow[f].mode = "refresh"
  BY <1>1, Zenon DEF RefreshGrant, FlowOnly, server, Phase
<1>3. CASE Goto(f, "session")
  <2>1. /\ Only(f) /\ flow'[f].pc = "session" /\ flow'[f].mode = flow[f].mode
        /\ flow'[f].user = flow[f].user
    BY <1>1, <1>3, GotoMoves, Zenon DEF PC
  <2>2. Rest(f)
    BY <1>1, <1>2, <2>1, Zenon DEF Rest, Shape
  <2>3. Phase(f)'
    BY <1>1, <1>2, <2>1, Zenon DEF Phase
  <2>4. Kept(f)'
    BY <1>2, <2>1, KeptKeeps, Zenon
  <2> QED BY <2>1, <2>2, <2>3, <2>4, Zenon DEF Moves
<1>4. CASE \E c \in UserClaims[flow[f].user] :
             flow' = [flow EXCEPT ![f].pc = "validate", ![f].tok = signIDToken(c, "")]
  <2>1. flow[f].user \in User
    BY <1>2, Zenon DEF IdInv, Kept
  <2>2. PICK c \in UserClaims[flow[f].user] :
             flow' = [flow EXCEPT ![f].pc = "validate", ![f].tok = signIDToken(c, "")]
    BY <1>4, Zenon
  <2> DEFINE u == flow[f].user
  <2>7a. \A n \in Nonces : LET t == signIDToken(c, n) IN
          /\ t \in Tok /\ t.claims = c /\ t.iss = Issuer /\ t.aud = {Audience}
          /\ \E k \in DOMAIN Keys : t.kid = Keys[k].kid
    <3>1. c \in UserClaims[u] /\ u \in User
      BY <2>1, Zenon
    <3> HIDE DEF u
    <3> QED BY <1>1, <3>1, Signed
  <2> DEFINE t == signIDToken(c, "")
             q == PutTok(flow[f], "validate", t)
  <2>0. "" \in Nonces
    BY Zenon DEF Nonces
  <2>3. /\ t \in Tok /\ t.claims = c /\ t.iss = Issuer /\ t.aud = {Audience}
        /\ \E k \in DOMAIN Keys : t.kid = Keys[k].kid
    BY <2>0, <2>7a, Zenon
  <2>8. flow' = [flow EXCEPT ![f] = q] /\ flow[f] \in FlowRec /\ "validate" \in PC
    BY <1>1, <2>2, Zenon DEF Shape, PC, PutTok
  <2> HIDE DEF t
  <2>9. /\ q \in FlowRec /\ q.pc = "validate" /\ q.mode = flow[f].mode /\ q.user = flow[f].user
        /\ q.tok = t
    BY <2>3, <2>8, WithTok
  <2> HIDE DEF q
  <2>4. /\ Only(f) /\ flow'[f].pc = "validate" /\ flow'[f].mode = flow[f].mode
        /\ flow'[f].user = flow[f].user /\ flow'[f].tok = t
    BY <1>1, <2>8, <2>9, Replaced, Zenon
  <2>5. Rest(f)
    BY <1>1, <1>2, <2>4, Zenon DEF Rest, Shape
  <2>6. Phase(f)'
    BY <1>1, <1>2, <2>1, <2>3, <2>4, Zenon DEF Phase, Issued
  <2>7. Kept(f)'
    BY <1>2, <2>4, KeptKeeps, Zenon
  <2> QED BY <2>4, <2>5, <2>6, <2>7, Zenon DEF Moves
<1> QED BY <1>3, <1>4, Zenon DEF RefreshGrant

LEMMA RefreshMoves ==
  ASSUME IdInv, NEW f \in Flow, Refresh(f)
  PROVE  Moves(f) /\ flow'[f].pc \notin {"store", "check"}
<1>1. Shape /\ Phase(f)
  BY Zenon DEF IdInv
<1>2. /\ Only(f) /\ flow'[f].pc = "refresh" /\ flow'[f].mode = "refresh"
      /\ flow'[f].user = flow[f].user
  <2> DEFINE q == PutMode(flow[f], "refresh", "refresh")
  <2>1. flow' = [flow EXCEPT ![f] = q] /\ flow[f] \in FlowRec /\ "refresh" \in PC
    BY <1>1, Zenon DEF Refresh, Shape, PC, PutMode
  <2>2. q \in FlowRec /\ q.pc = "refresh" /\ q.mode = "refresh" /\ q.user = flow[f].user
    BY <2>1, WithMode, Zenon
  <2> HIDE DEF q
  <2> QED BY <1>1, <2>1, <2>2, Replaced, Zenon
<1>3. UNCHANGED <<sess, lock>> /\ flow[f].pc = "session"
  BY Zenon DEF Refresh, server
<1>4. Rest(f)
  BY <1>1, <1>2, <1>3, Zenon DEF Rest, Shape
<1>5. Phase(f)'
  BY <1>1, <1>2, <1>3, Zenon DEF Phase, Issued
<1>6. Kept(f)'
  BY <1>2, <1>3, KeptKeeps, Zenon
<1> QED BY <1>2, <1>4, <1>5, <1>6, Zenon DEF Moves

LEMMA GetJWKSMoves ==
  ASSUME IdInv, NEW f \in Flow, GetJWKS(f)
  PROVE  /\ Moves(f) /\ flow'[f].pc # "store"
         /\ flow'[f].pc = "check" => flow'[f].keys = cache.keys /\ cache.left > 0
<1>1. Shape /\ Phase(f)
  BY Zenon DEF IdInv
<1>2. UNCHANGED sess /\ flow[f].pc = "validate" /\ lock = "free"
  BY Zenon DEF GetJWKS, FlowOnly
<1>3. CASE Cached /\ flow' = [flow EXCEPT ![f].pc = "check", ![f].keys = cache.keys] /\ UNCHANGED server
  <2> DEFINE q == PutKeys(flow[f], "check", cache.keys)
  <2>1. /\ flow' = [flow EXCEPT ![f] = q] /\ flow[f] \in FlowRec /\ "check" \in PC
        /\ cache.keys \in SUBSET DOMAIN Keys
    BY <1>1, <1>3, Zenon DEF Shape, ServerShape, PC, PutKeys
  <2>2. /\ q \in FlowRec /\ q.pc = "check" /\ q.mode = flow[f].mode /\ q.user = flow[f].user
        /\ q.tok = flow[f].tok /\ q.keys = cache.keys
    BY <2>1, WithKeys
  <2> HIDE DEF q
  <2>3. Only(f) /\ flow'[f] = q /\ lock' = lock
    BY <1>1, <1>3, <2>1, <2>2, Replaced, Zenon DEF server
  <2>4. Rest(f)
    BY <1>1, <1>2, <2>3, Zenon DEF Rest, Shape
  <2>5. Phase(f)'
    BY <1>1, <1>2, <2>2, <2>3, IdentityAssumption, ZenonT(60) DEF Phase, Issued
  <2>6. Kept(f)'
    BY <1>2, <2>2, <2>3, KeptKeeps, Zenon
  <2> QED BY <1>3, <2>2, <2>3, <2>4, <2>5, <2>6, Zenon DEF Moves, Cached
<1>4. CASE Goto(f, "fetch") /\ lock' = f
  <2>1. /\ Only(f) /\ flow'[f].pc = "fetch" /\ flow'[f].mode = flow[f].mode
        /\ flow'[f].user = flow[f].user /\ flow'[f].tok = flow[f].tok
    BY <1>1, <1>4, GotoMoves, Zenon DEF PC
  <2>2. Rest(f)
    BY <1>1, <1>2, <1>4, <2>1, Zenon DEF Rest, Shape
  <2>3. Phase(f)'
    BY <1>1, <1>2, <1>4, <2>1, Zenon DEF Phase, Issued
  <2>4. Kept(f)'
    BY <1>2, <2>1, KeptKeeps, Zenon
  <2> QED BY <2>1, <2>2, <2>3, <2>4, Zenon DEF Moves
<1> QED BY <1>3, <1>4, Zenon DEF GetJWKS

LEMMA FetchFailsMoves ==
  ASSUME IdInv, NEW f \in Flow, FetchFails(f)
  PROVE  Moves(f) /\ flow'[f].pc \notin {"store", "check"}
<1>1. Shape /\ Phase(f)
  BY Zenon DEF IdInv
<1>2. UNCHANGED sess /\ flow[f].pc = "fetch" /\ lock' = "free" /\ lock = f
  BY <1>1, Zenon DEF FetchFails, FlowOnly, Phase
<1>3. flow' = [flow EXCEPT ![f] = Refused(f)]
  BY Zenon DEF FetchFails
<1> QED BY <1>2, <1>3, RefusedKeeps, IdentityAssumption, Zenon

LEMMA FetchJWKSMoves ==
  ASSUME IdInv, NEW f \in Flow, FetchJWKS(f)
  PROVE  Moves(f) /\ flow'[f].pc = "store" /\ flow'[f].keys = jwks
<1>1. Shape /\ Phase(f)
  BY Zenon DEF IdInv
<1>2. UNCHANGED <<sess, lock>> /\ flow[f].pc = "fetch" /\ lock = f
  BY <1>1, Zenon DEF FetchJWKS, FlowOnly, Phase, server
<1> DEFINE q == PutKeys(flow[f], "store", jwks)
<1>3. /\ flow' = [flow EXCEPT ![f] = q] /\ flow[f] \in FlowRec /\ "store" \in PC
      /\ jwks \in SUBSET DOMAIN Keys
  BY <1>1, Zenon DEF FetchJWKS, Shape, IdpShape, PC, PutKeys
<1>4. /\ q \in FlowRec /\ q.pc = "store" /\ q.mode = flow[f].mode /\ q.user = flow[f].user
      /\ q.tok = flow[f].tok /\ q.keys = jwks
  BY <1>3, WithKeys
<1> HIDE DEF q
<1>5. Only(f) /\ flow'[f] = q
  BY <1>1, <1>3, <1>4, Replaced, Zenon
<1>6. Rest(f)
  BY <1>1, <1>2, <1>5, Zenon DEF Rest, Shape
<1>7. Phase(f)'
  BY <1>1, <1>2, <1>4, <1>5, Zenon DEF Phase, Issued
<1>8. Kept(f)'
  BY <1>2, <1>4, <1>5, KeptKeeps, Zenon
<1> QED BY <1>4, <1>5, <1>6, <1>7, <1>8, Zenon DEF Moves

LEMMA StoreJWKSMoves ==
  ASSUME IdInv, NEW f \in Flow, StoreJWKS(f)
  PROVE  Moves(f) /\ flow'[f].pc = "check" /\ flow'[f].keys = flow[f].keys
<1>1. Shape /\ Phase(f)
  BY Zenon DEF IdInv
<1>2. UNCHANGED sess /\ flow[f].pc = "store" /\ lock' = "free" /\ lock = f
  BY <1>1, Zenon DEF StoreJWKS, FlowOnly, Phase
<1>3. /\ Only(f) /\ flow'[f].pc = "check" /\ flow'[f].mode = flow[f].mode
      /\ flow'[f].user = flow[f].user /\ flow'[f].tok = flow[f].tok /\ flow'[f].keys = flow[f].keys
  BY <1>1, GotoMoves, Zenon DEF StoreJWKS, PC
<1>4. Rest(f)
  BY <1>1, <1>2, <1>3, Zenon DEF Rest, Shape
<1>5. Phase(f)'
  BY <1>1, <1>2, <1>3, IdentityAssumption, Zenon DEF Phase, Issued
<1>6. Kept(f)'
  BY <1>2, <1>3, KeptKeeps, Zenon
<1> QED BY <1>3, <1>4, <1>5, <1>6, Zenon DEF Moves

\* What an accepted token makes of the session.
LEMMA AcceptedKeeps ==
  ASSUME IdInv, NEW f \in Flow, flow[f].pc = "check",
         flow'[f].user = flow[f].user,
         sess'[f] =
           [live |-> TRUE,
            claims |-> IF flow[f].mode = "login"
                       THEN LoginClaims(flow[f].tok.claims, tokenRoles(flow[f].tok.claims))
                       ELSE applyRefreshedClaims(sess[f].claims, flow[f].tok.claims),
            last |-> flow[f].tok.claims,
            mapped |-> \/ sess[f].live /\ sess[f].mapped
                       \/ authoritativeID(flow[f].tok.claims) # Empty]
  PROVE  Kept(f)'
<1> DEFINE c == flow[f].tok.claims
           u == flow[f].user
           id == authoritativeID(c)
           d == IF flow[f].mode = "login" THEN LoginClaims(c, tokenRoles(c))
                ELSE applyRefreshedClaims(sess[f].claims, c)
           m == (sess[f].live /\ sess[f].mapped) \/ id # Empty
<1>1. Shape /\ Phase(f) /\ Kept(f)
  BY Zenon DEF IdInv
<1>2. u \in User /\ c \in UserClaims[u] /\ flow[f].mode \in {"login", "refresh"}
  BY <1>1, Zenon DEF Phase, Issued, Shape, FlowRec
<1>3. IsClaims(c) /\ c.sub # Empty
  BY <1>2, IdentityAssumption, Zenon
<1>4. sess'[f].live = TRUE /\ sess'[f].claims = d /\ sess'[f].last = c /\ sess'[f].mapped = m
  <2>1. sess'[f] = [live |-> TRUE, claims |-> d, last |-> c, mapped |-> m]
    BY Zenon
  <2> HIDE DEF c, d, m, id, u
  <2>2. PICK r : r = sess'[f]
    BY Zenon
  <2>3. r = [live |-> TRUE, claims |-> d, last |-> c, mapped |-> m]
    BY <2>1, <2>2, Zenon
  <2>4. r.live = TRUE /\ r.claims = d /\ r.last = c /\ r.mapped = m
    BY ONLY <2>3, Zenon
  <2> QED BY <2>2, <2>4, Zenon
<1>5. flow[f].mode = "login" => ~sess[f].live
  BY <1>1, Zenon DEF Phase
<1>6. flow[f].mode = "refresh" => sess[f].live
  BY <1>1, Zenon DEF Phase
<1>7. m \in BOOLEAN
  BY Zenon
<1> DEFINE New(x, y) ==
      /\ IsClaims(x) /\ x.sub # Empty
      /\ x.realm = c.realm /\ (c.realm = {} => x.top = c.top)
      /\ IdKind # "" => x.kind = IdKind
      /\ y => \E e \in UserClaims[u] : authoritativeID(e) # Empty /\ x.sub = authoritativeID(e)
      /\ ~y => \E e \in UserClaims[u] : x.sub = e.sub
<1>8. ASSUME flow[f].mode = "login" PROVE New(d, m)
  <2>1. m <=> id # Empty
    BY <1>5, <1>8, Zenon
  <2>2. d = LoginClaims(c, tokenRoles(c))
    BY <1>8, Zenon
  <2>3. /\ IsClaims(d) /\ d.sub # Empty
        /\ d.realm = c.realm /\ (c.realm = {} => d.top = c.top)
        /\ IdKind # "" => d.kind = IdKind
        /\ d.sub = IF id # Empty THEN id ELSE c.sub
    <3> HIDE DEF c, d, m, id, u
    <3> QED BY <1>3, <2>2, LoginKeeps, Zenon DEF id
  <2> HIDE DEF d, m, c, u, id
  <2> QED BY <1>2, <2>1, <2>3, Zenon DEF id
<1>9. ASSUME flow[f].mode = "refresh" PROVE New(d, m)
  <2>1. sess[f].live /\ (m <=> sess[f].mapped \/ id # Empty) /\ sess[f].mapped \in BOOLEAN
    BY <1>1, <1>6, <1>9, Zenon DEF Kept
  <2>2. /\ sess[f].claims.sub # Empty
        /\ sess[f].mapped => \E e \in UserClaims[u] :
             authoritativeID(e) # Empty /\ sess[f].claims.sub = authoritativeID(e)
        /\ ~sess[f].mapped => \E e \in UserClaims[u] : sess[f].claims.sub = e.sub
    BY <1>1, <2>1, Zenon DEF Kept
  <2>3. d = applyRefreshedClaims(sess[f].claims, c)
    BY <1>9, Zenon
  <2>4. /\ IsClaims(d) /\ d.sub # Empty
        /\ d.realm = c.realm /\ d.top = c.top
        /\ IdKind # "" => d.kind = IdKind
        /\ d.sub = IF id # Empty THEN id
                   ELSE IF IdClaim \notin {"", "sub"} THEN sess[f].claims.sub ELSE c.sub
    <3> DEFINE old == sess[f].claims
    <3>1. old.sub # Empty
      BY <2>2, Zenon
    <3>2. d = applyRefreshedClaims(old, c)
      BY <2>3, Zenon
    <3> HIDE DEF c, d, m, id, u, old
    <3>3. /\ IsClaims(d) /\ d.sub # Empty
          /\ d.realm = c.realm /\ d.top = c.top
          /\ IdKind # "" => d.kind = IdKind
          /\ d.sub = IF id # Empty THEN id
                     ELSE IF IdClaim \notin {"", "sub"} THEN old.sub ELSE c.sub
      BY <1>3, <3>1, <3>2, RefreshKeeps, ZenonT(60) DEF id
    <3> QED BY <3>3, Zenon DEF old
  <2>5. IdClaim \in {"", "sub"} => \A e : authoritativeID(e) = Empty
    BY Zenon DEF authoritativeID
  <2> HIDE DEF d, m, c, u, id
  <2>6. CASE id # Empty
    BY <1>2, <2>1, <2>4, <2>6, Zenon DEF id
  <2>7. CASE id = Empty /\ IdClaim \notin {"", "sub"}
    BY <2>1, <2>2, <2>4, <2>7, Zenon
  <2>8. CASE id = Empty /\ IdClaim \in {"", "sub"}
    BY <1>2, <2>1, <2>2, <2>4, <2>5, <2>8, Zenon
  <2> QED BY <2>6, <2>7, <2>8, Zenon
<1>10. New(d, m)
  BY <1>2, <1>8, <1>9, ZenonT(30)
<1> HIDE DEF c, u, id, d, m
<1>11. flow'[f].user = u
  BY Zenon DEF u
<1> QED BY <1>2, <1>4, <1>7, <1>10, <1>11, Zenon DEF Kept

LEMMA CheckMoves ==
  ASSUME IdInv, NEW f \in Flow, Check(f)
  PROVE  Moves(f) /\ flow'[f].pc \notin {"store", "check"}
<1>1. Shape /\ Phase(f)
  BY Zenon DEF IdInv
<1>2. flow[f].pc = "check" /\ lock' = lock /\ lock # f
  BY <1>1, Zenon DEF Check, Phase, server
<1>3. CASE flow' = [flow EXCEPT ![f] = Refused(f)] /\ UNCHANGED sess
  BY <1>2, <1>3, RefusedKeeps, Zenon
<1> DEFINE q == DropTok(flow[f], "session")
           new == [live |-> TRUE,
                   claims |-> IF flow[f].mode = "login"
                              THEN LoginClaims(flow[f].tok.claims, tokenRoles(flow[f].tok.claims))
                              ELSE applyRefreshedClaims(sess[f].claims, flow[f].tok.claims),
                   last |-> flow[f].tok.claims,
                   mapped |-> \/ sess[f].live /\ sess[f].mapped
                              \/ authoritativeID(flow[f].tok.claims) # Empty]
<1>4. CASE flow' = [flow EXCEPT ![f] = q] /\ sess' = [sess EXCEPT ![f] = new]
  <2>1. flow[f] \in FlowRec /\ "session" \in PC /\ sess = [g \in Flow |-> sess[g]]
    BY <1>1, Zenon DEF Shape, PC
  <2>2. /\ q \in FlowRec /\ q.pc = "session" /\ q.mode = flow[f].mode /\ q.user = flow[f].user
    BY <2>1, WithoutTok, Zenon
  <2>3. new.live = TRUE
    BY Zenon
  <2> HIDE DEF q
  <2>4. Only(f) /\ flow'[f] = q
    BY <1>1, <1>4, <2>2, Replaced, Zenon
  <2>5. sess'[f] = new /\ sess' = [g \in Flow |-> sess'[g]] /\ \A g \in Flow \ {f} : sess'[g] = sess[g]
    <3> HIDE DEF new
    <3> QED BY <1>4, <2>1, Zenon
  <2>6. Rest(f)
    BY <1>2, <2>4, <2>5, Zenon DEF Rest
  <2>7. sess'[f].live = TRUE
    <3> HIDE DEF new
    <3> QED BY <2>3, <2>5, Zenon
  <2>8. flow'[f].mode \in {"login", "refresh"}
    BY <2>4, <2>2, Zenon DEF FlowRec
  <2>9. Phase(f)'
    BY <1>2, <2>2, <2>4, <2>7, <2>8, Zenon DEF Phase
  <2>10. Kept(f)'
    BY <1>2, <2>2, <2>4, <2>5, AcceptedKeeps, Zenon
  <2> QED BY <2>2, <2>4, <2>6, <2>9, <2>10, Zenon DEF Moves
<1>5. \/ flow' = [flow EXCEPT ![f] = Refused(f)] /\ UNCHANGED sess
      \/ flow' = [flow EXCEPT ![f] = q] /\ sess' = [sess EXCEPT ![f] = new]
  <2>1. \/ flow' = [flow EXCEPT ![f] = Refused(f)] /\ UNCHANGED sess
        \/ /\ flow' = [flow EXCEPT ![f].pc = "session", ![f].tok = NoTok, ![f].keys = {}]
           /\ sess' = [sess EXCEPT ![f] = new]
    BY Zenon DEF Check
  <2>2. [flow EXCEPT ![f].pc = "session", ![f].tok = NoTok, ![f].keys = {}] = [flow EXCEPT ![f] = q]
    BY <1>1, Zenon DEF DropTok, Shape
  <2> HIDE DEF q, new
  <2> QED BY <2>1, <2>2, Zenon
<1> HIDE DEF q, new
<1> QED BY <1>3, <1>4, <1>5, Zenon

-----------------------------------------------------------------------------
(* The steps of the provider, of time, and a restart.                      *)

\* Nothing moves but the provider, the counters and discovery.
LEMMA StillKeeps ==
  ASSUME IdInv, UNCHANGED <<flow, sess, lock>>
  PROVE  \A f \in Flow : Phase(f)' /\ Kept(f)'
<1> SUFFICES ASSUME NEW f \in Flow PROVE Phase(f)' /\ Kept(f)'
  BY Zenon
<1>1. Phase(f) /\ Kept(f)
  BY Zenon DEF IdInv
<1>2. Phase(f)'
  BY <1>1, Zenon DEF Phase, Issued
<1>3. Kept(f)'
  BY <1>1, Zenon DEF Kept
<1> QED BY <1>2, <1>3, Zenon

\* Tokens grow older and nothing else about a flow changes.
LEMMA TickMoves ==
  ASSUME IdInv, Tick
  PROVE  /\ flow' \in [Flow -> FlowRec]
         /\ \A f \in Flow : /\ flow'[f].pc = flow[f].pc /\ flow'[f].keys = flow[f].keys
                            /\ Phase(f)' /\ Kept(f)'
<1>1. Shape
  BY Zenon DEF IdInv
<1>2. ASSUME NEW f \in Flow
      PROVE  /\ flow'[f] \in FlowRec /\ flow'[f].pc = flow[f].pc /\ flow'[f].keys = flow[f].keys
             /\ flow'[f].mode = flow[f].mode /\ flow'[f].user = flow[f].user
             /\ flow'[f].tok.claims = flow[f].tok.claims /\ flow'[f].tok.kid = flow[f].tok.kid
             /\ flow'[f].tok.iss = flow[f].tok.iss /\ flow'[f].tok.aud = flow[f].tok.aud
             /\ flow'[f].tok.nonce = flow[f].tok.nonce
  <2> DEFINE r == flow[f]  t == flow[f].tok  a == Later(t.age, t.exp)
             t1 == [t EXCEPT !.age = a]
  <2>1. flow'[f] = [r EXCEPT !.tok = t1]
    BY Zenon DEF Tick
  <2>2. r \in FlowRec /\ t \in Tok /\ t = r.tok
    BY <1>1, Zenon DEF Shape, FlowRec
  <2>3. t.age \in Nat /\ t.exp \in Nat
    BY <2>2, Zenon DEF Tok
  <2>4. a \in Nat
    <3> HIDE DEF t
    <3> QED BY <2>3 DEF Later
  <2> HIDE DEF a, t, r
  <2>5. /\ t1 \in Tok /\ t1.claims = t.claims /\ t1.kid = t.kid /\ t1.iss = t.iss /\ t1.aud = t.aud
        /\ t1.nonce = t.nonce
    BY <2>2, <2>4, Zenon DEF Tok
  <2> HIDE DEF t1
  <2>6. /\ flow'[f] \in FlowRec /\ flow'[f].pc = r.pc /\ flow'[f].keys = r.keys
        /\ flow'[f].mode = r.mode /\ flow'[f].user = r.user /\ flow'[f].tok = t1
    <3>1. PICK x : x = flow'[f]
      BY Zenon
    <3>2. x = [r EXCEPT !.tok = t1]
      BY <2>1, <3>1, Zenon
    <3>3. x \in FlowRec /\ x.pc = r.pc /\ x.keys = r.keys /\ x.mode = r.mode /\ x.user = r.user /\ x.tok = t1
      BY <2>2, <2>5, <3>2, Zenon DEF FlowRec
    <3> QED BY <3>1, <3>3, Zenon
  <2> QED BY <2>2, <2>5, <2>6, Zenon DEF r, t
<1>3. flow' \in [Flow -> FlowRec]
  <2>1. flow' = [f \in Flow |-> flow'[f]]
    BY Zenon DEF Tick
  <2> QED BY <1>2, <2>1, Zenon
<1>4. UNCHANGED <<sess, lock>>
  BY Zenon DEF Tick
<1>5. ASSUME NEW f \in Flow PROVE Phase(f)' /\ Kept(f)'
  <2>1. Phase(f)
    BY Zenon DEF IdInv
  <2>2. Phase(f)'
    BY <1>2, <1>4, <2>1, ZenonT(60) DEF Phase, Issued
  <2>3. Kept(f)'
    BY <1>2, <1>4, KeptKeeps, Zenon
  <2> QED BY <2>2, <2>3, Zenon
<1> QED BY <1>2, <1>3, <1>5, Zenon

\* A restart ends the requests in progress.
LEMMA RestartMoves ==
  ASSUME IdInv, Restart
  PROVE  /\ flow' \in [Flow -> FlowRec]
         /\ \A f \in Flow : flow'[f].pc \notin {"store", "check"} /\ Phase(f)' /\ Kept(f)'
<1>1. Shape /\ UNCHANGED sess /\ lock' = "free"
  BY Zenon DEF IdInv, Restart
<1>2. ASSUME NEW f \in Flow
      PROVE  flow'[f] \in FlowRec /\ flow'[f].pc \notin {"store", "check"} /\ Phase(f)' /\ Kept(f)'
  <2>1. /\ Phase(f) /\ flow[f] \in FlowRec /\ flow[f].mode \in {"login", "refresh"} /\ flow[f].pc \in PC
        /\ lock' # f
    BY <1>1, IdentityAssumption, Zenon DEF IdInv, Shape, FlowRec
  <2>2. CASE flow[f].pc \in {"idle", "started", "coded", "session"}
    <3>1. flow'[f] = flow[f]
      BY <2>2, Zenon DEF Restart
    <3>2. Phase(f)'
      BY <1>1, <2>1, <2>2, <3>1, Zenon DEF Phase
    <3>3. Kept(f)'
      BY <1>1, <3>1, KeptKeeps, Zenon
    <3> QED BY <2>1, <2>2, <3>1, <3>2, <3>3, Zenon
  <2>3. CASE flow[f].pc = "discover"
    <3>1. flow'[f] = NoFlow
      BY <2>3, Zenon DEF Restart
    <3>2. NoFlow.pc = "idle" /\ NoFlow.mode = "login" /\ ~sess[f].live
      BY <2>1, <2>3, Zenon DEF NoFlow, Phase
    <3>3. Phase(f)'
      BY <1>1, <2>1, <3>1, <3>2, Zenon DEF Phase
    <3>4. Kept(f)'
      BY <1>1, <3>2, KeptKeeps, Zenon
    <3> QED BY <3>1, <3>2, <3>3, <3>4, TokType, Zenon
  <2>4. CASE flow[f].pc \notin {"idle", "started", "coded", "session", "discover"}
    <3>1. flow'[f] = Refused(f)
      BY <2>4, Zenon DEF Restart
    <3> DEFINE q == Refused(f)
    <3>2. /\ q \in FlowRec
          /\ flow[f].mode = "login" => q.pc = "failed" /\ q.mode = "login"
          /\ flow[f].mode = "refresh" => q.pc = "session" /\ q.mode = "refresh" /\ q.user = flow[f].user
      BY <1>1, RefusedType, Zenon
    <3> HIDE DEF q
    <3>3. flow'[f] = q
      BY <3>1, Zenon DEF q
    <3>4. Phase(f)'
      BY <1>1, <2>1, <2>4, <3>2, <3>3, Zenon DEF Phase, PC
    <3>5. sess[f].live => flow[f].mode = "refresh"
      BY <2>1, <2>4, Zenon DEF Phase
    <3>6. Kept(f)'
      BY <1>1, <3>2, <3>3, <3>5, KeptKeeps, Zenon
    <3> QED BY <2>1, <3>2, <3>3, <3>4, <3>6, Zenon
  <2> QED BY <2>2, <2>3, <2>4, Zenon
<1>3. flow' = [f \in Flow |-> flow'[f]]
  BY Zenon DEF Restart
<1>4. flow' \in [Flow -> FlowRec]
  BY <1>2, <1>3, Zenon
<1> QED BY <1>2, <1>4, Zenon

-----------------------------------------------------------------------------
(* The ages of the key sets.                                               *)

LEMMA Numbers ==
  /\ TTL \in Nat /\ Fetch \in Nat /\ Window \in Nat /\ TTL > 0 /\ Window = TTL + Fetch
  /\ Len(Keys) \in Nat /\ DOMAIN Keys = 1..Len(Keys) /\ 1 \in DOMAIN Keys
<1>1. TTL \in Nat /\ TTL > 0 /\ Fetch \in Nat
  BY IdentityAssumption
<1>2. Window \in Nat /\ Window = TTL + Fetch
  BY <1>1 DEF Window
<1>3. Len(Keys) \in Nat /\ DOMAIN Keys = 1..Len(Keys) /\ Len(Keys) # 0
  BY IdentityAssumption
<1> QED BY <1>1, <1>2, <1>3

\* A key set that is recent remains so by a weaker measure.
LEMMA RecentWeaker ==
  ASSUME IdInv, NEW ks, NEW n \in Int, NEW m \in Int, n <= m, Recent(ks, n)
  PROVE  Recent(ks, m)
<1>1. \A k \in DOMAIN Keys : gone[k] \in Nat /\ born[k] \in Nat
  BY Numbers DEF IdInv, Shape, IdpShape
<1> QED BY <1>1 DEF Recent

\* A step of flow f with the key sets it leaves behind.
LEMMA FlowAges ==
  ASSUME IdInv, NEW f \in Flow, Only(f), UNCHANGED idp,
         cache' = cache \/ (cache'.left > 0 => Recent(cache'.keys, Window - cache'.left)),
         held' = held \/ lock \in {f, "free"},
         flow'[f].pc = "store" => Recent(flow'[f].keys, held'),
         flow'[f].pc = "check" => Recent(flow'[f].keys, Window - 1)
  PROVE  Ages'
<1>1. Ages /\ UNCHANGED <<key, jwks, born, gone>>
  BY Zenon DEF IdInv, idp
<1>2. \A ks, n : Recent(ks, n)' <=> Recent(ks, n)
  BY <1>1, Zenon DEF Recent
<1>3. \A k \in DOMAIN Keys : /\ k \in jwks' \/ k > key' => gone'[k] = 0
                             /\ k > key' => born'[k] = 0
  BY <1>1, Zenon DEF Ages
<1>4. cache'.left > 0 => Recent(cache'.keys, Window - cache'.left)
  BY <1>1, Zenon DEF Ages
<1>5. ASSUME NEW g \in Flow, flow'[g].pc = "store" PROVE Recent(flow'[g].keys, held')
  <2>1. CASE g = f
    BY <1>5, <2>1, Zenon
  <2>2. CASE g # f
    <3>1. flow'[g] = flow[g]
      BY <2>2, Zenon DEF Only
    <3>2. lock = g
      BY <1>5, <3>1, Zenon DEF IdInv, Phase
    <3>3. held' = held
      BY <2>2, <3>2, IdentityAssumption, Zenon
    <3> QED BY <1>1, <1>5, <3>1, <3>3, Zenon DEF Ages
  <2> QED BY <2>1, <2>2, Zenon
<1>6. ASSUME NEW g \in Flow, flow'[g].pc = "check" PROVE Recent(flow'[g].keys, Window - 1)
  <2>1. CASE g = f
    BY <1>6, <2>1, Zenon
  <2>2. CASE g # f
    BY <1>1, <1>6, <2>2, Zenon DEF Ages, Only
  <2> QED BY <2>1, <2>2, Zenon
<1>7. /\ cache'.left > 0 => \A k \in DOMAIN Keys :
           /\ k \in cache'.keys /\ k \notin jwks' => gone'[k] <= Window - cache'.left
           /\ k \in jwks' /\ k \notin cache'.keys => born'[k] <= Window - cache'.left
      /\ \A g \in Flow : flow'[g].pc = "store" => \A k \in DOMAIN Keys :
           /\ k \in flow'[g].keys /\ k \notin jwks' => gone'[k] <= held'
           /\ k \in jwks' /\ k \notin flow'[g].keys => born'[k] <= held'
      /\ \A g \in Flow : flow'[g].pc = "check" => \A k \in DOMAIN Keys :
           /\ k \in flow'[g].keys /\ k \notin jwks' => gone'[k] <= Window - 1
           /\ k \in jwks' /\ k \notin flow'[g].keys => born'[k] <= Window - 1
  BY <1>1, <1>4, <1>5, <1>6, Zenon DEF Recent
<1> QED BY <1>3, <1>7, Zenon DEF Ages, Recent, Window

\* The provider publishes or withdraws a key.
LEMMA KeysAges ==
  ASSUME IdInv, Rotate \/ Withdraw
  PROVE  Ages' /\ IdpShape'
<1>1. Ages /\ IdpShape /\ UNCHANGED <<skew, born, gone, cache, held, flow>>
  BY Zenon DEF IdInv, Shape, Rotate, Withdraw, IdpOnly, server
<1>2. /\ key' \in DOMAIN Keys /\ key' >= key /\ jwks' \subseteq DOMAIN Keys /\ key' \in jwks'
      /\ \A k \in jwks' : k <= key' /\ (k \in jwks \/ k > key)
  <2>1. key \in DOMAIN Keys /\ key \in Nat /\ key \in jwks
    BY <1>1, Numbers DEF IdpShape
  <2>2. CASE Rotate
    BY <2>1, <2>2, Numbers DEF Rotate
  <2>3. CASE Withdraw
    BY <2>1, <2>3 DEF Withdraw
  <2> QED BY <2>2, <2>3, Zenon
<1>3. \A k \in DOMAIN Keys : k \in Nat /\ gone[k] \in Nat /\ born[k] \in Nat
  BY <1>1, Numbers DEF IdpShape
<1>4. key \in Nat /\ key' \in Nat
  BY <1>1, <1>2, Numbers DEF IdpShape
<1>5. IdpShape'
  BY <1>1, <1>2, Zenon DEF IdpShape, Window
<1>6. \A k \in DOMAIN Keys : /\ k \in jwks' \/ k > key' => gone[k] = 0
                             /\ k > key' => born[k] = 0
  BY <1>1, <1>2, <1>3, <1>4 DEF Ages
<1>7. ASSUME NEW ks, NEW n \in Nat, Recent(ks, n) PROVE Recent(ks, n)'
  <2> SUFFICES ASSUME NEW k \in DOMAIN Keys
               PROVE  /\ k \in ks /\ k \notin jwks' => gone[k] <= n
                      /\ k \in jwks' /\ k \notin ks => born[k] <= n
    BY <1>1, Zenon DEF Recent
  <2>1. k \in ks /\ k \notin jwks' => gone[k] <= n
    BY <1>1, <1>3, <1>7 DEF Recent, Ages
  <2>2. k \in jwks' /\ k \notin ks => born[k] <= n
    BY <1>1, <1>2, <1>3, <1>7 DEF Recent, Ages
  <2> QED BY <2>1, <2>2, Zenon
<1>8. Window - cache.left \in Nat /\ held \in Nat /\ Window - 1 \in Nat
  BY Numbers, SMTT(60) DEF IdInv, Shape, ServerShape
<1> QED BY <1>1, <1>5, <1>6, <1>7, <1>8, Zenon DEF Ages, Window

\* A second passes.
LEMMA TickAges ==
  ASSUME IdInv, Tick
  PROVE  Ages' /\ IdpShape' /\ ServerShape'
<1>1. Ages /\ IdpShape /\ ServerShape /\ UNCHANGED <<skew, key, jwks, lock, disc, refreshes, restarts>>
  BY Zenon DEF IdInv, Shape, Tick
<1>2. /\ key \in Nat
      /\ \A k \in DOMAIN Keys :
           k \in Nat /\ gone[k] \in Nat /\ born[k] \in Nat /\ gone[k] <= Window /\ born[k] <= Window
  BY <1>1, Numbers DEF IdpShape
<1>3. \A n, m \in Nat : n <= m => Later(n, m) \in Nat /\ Later(n, m) <= m /\ Later(n, m) <= n + 1
  BY DEF Later
<1>4. \A k \in DOMAIN Keys :
        /\ born'[k] = IF k <= key THEN Later(born[k], Window) ELSE 0
        /\ gone'[k] = IF k <= key /\ k \notin jwks THEN Later(gone[k], Window) ELSE 0
  BY Zenon DEF Tick
<1>5. \A k \in DOMAIN Keys :
        /\ born'[k] \in Nat /\ born'[k] <= Window /\ born'[k] <= born[k] + 1
        /\ gone'[k] \in Nat /\ gone'[k] <= Window /\ gone'[k] <= gone[k] + 1
        /\ k \in jwks \/ k > key => gone'[k] = 0
        /\ k > key => born'[k] = 0
  <2> SUFFICES ASSUME NEW k \in DOMAIN Keys
               PROVE  /\ born'[k] \in Nat /\ born'[k] <= Window /\ born'[k] <= born[k] + 1
                      /\ gone'[k] \in Nat /\ gone'[k] <= Window /\ gone'[k] <= gone[k] + 1
                      /\ k \in jwks \/ k > key => gone'[k] = 0
                      /\ k > key => born'[k] = 0
    BY Zenon
  <2> DEFINE b == Later(born[k], Window)  g == Later(gone[k], Window)
  <2>1. b \in Nat /\ b <= Window /\ b <= born[k] + 1 /\ g \in Nat /\ g <= Window /\ g <= gone[k] + 1
    BY <1>2, <1>3, Numbers, Zenon
  <2>2. /\ born'[k] = IF k <= key THEN b ELSE 0
        /\ gone'[k] = IF k <= key /\ k \notin jwks THEN g ELSE 0
    BY <1>4, Zenon
  <2> HIDE DEF b, g
  <2>3. k \in Nat /\ key \in Nat /\ born[k] \in Nat /\ gone[k] \in Nat /\ Window \in Nat
    BY <1>2, Numbers, Zenon
  <2>4. born'[k] \in Nat /\ born'[k] <= Window /\ born'[k] <= born[k] + 1 /\ (k > key => born'[k] = 0)
    BY <2>1, <2>2, <2>3
  <2>5. CASE k <= key /\ k \notin jwks
    BY <2>1, <2>2, <2>3, <2>4, <2>5
  <2>6. CASE ~(k <= key /\ k \notin jwks)
    BY <2>2, <2>3, <2>4, <2>6
  <2> QED BY <2>5, <2>6, Zenon
<1>6. IdpShape'
  <2>1. born' \in [DOMAIN Keys -> 0..Window] /\ gone' \in [DOMAIN Keys -> 0..Window]
    <3>1. born' = [k \in DOMAIN Keys |-> born'[k]] /\ gone' = [k \in DOMAIN Keys |-> gone'[k]]
      BY Zenon DEF Tick
    <3>2. \A k \in DOMAIN Keys : born'[k] \in 0..Window /\ gone'[k] \in 0..Window
      BY <1>5, Numbers
    <3> QED BY <3>1, <3>2, Zenon
  <2> QED BY <1>1, <2>1, Zenon DEF IdpShape, Window
<1>7. /\ held' = IF lock = "free" THEN 0 ELSE held + 1
      /\ cache' = [cache EXCEPT !.left = IF cache.left > 0 THEN cache.left - 1 ELSE 0]
      /\ lock # "free" => held < Fetch
  BY Zenon DEF Tick
<1>8. /\ cache' \in [keys : SUBSET DOMAIN Keys, left : 0..TTL] /\ cache'.keys = cache.keys
      /\ cache'.left > 0 => cache.left > 0 /\ cache'.left = cache.left - 1
  BY <1>1, <1>7, Numbers, SMTT(60) DEF ServerShape
<1>9. held' \in 0..Fetch
  BY <1>1, <1>7, Numbers DEF ServerShape
<1>10. ServerShape'
  BY <1>1, <1>8, <1>9, Zenon DEF ServerShape
<1>11. ASSUME NEW ks, NEW n \in Nat, Recent(ks, n) PROVE Recent(ks, n + 1)'
  <2> SUFFICES ASSUME NEW k \in DOMAIN Keys
               PROVE  /\ k \in ks /\ k \notin jwks => gone'[k] <= n + 1
                      /\ k \in jwks /\ k \notin ks => born'[k] <= n + 1
    BY <1>1, Zenon DEF Recent
  <2> QED BY <1>2, <1>5, <1>11 DEF Recent
<1>12. ASSUME cache'.left > 0 PROVE Recent(cache.keys, Window - cache.left)'
  <2>1. cache.left \in Nat /\ cache.left <= TTL /\ cache.left > 0
    BY <1>1, <1>8, <1>12, Numbers DEF ServerShape
  <2>2. Recent(cache.keys, Window - cache.left)
    BY <1>1, <2>1, Zenon DEF Ages
  <2> DEFINE n == Window - cache.left
  <2>3. n \in Nat /\ Window - cache'.left = n + 1
    BY <1>8, <1>12, <2>1, Numbers
  <2>4. Recent(cache.keys, n)
    BY <2>2, Zenon
  <2> HIDE DEF n
  <2>5. \A k \in DOMAIN Keys : /\ k \in cache.keys /\ k \notin jwks => gone'[k] <= n + 1
                               /\ k \in jwks /\ k \notin cache.keys => born'[k] <= n + 1
    BY <1>2, <1>5, <2>3, <2>4 DEF Recent
  <2> QED BY <1>1, <1>8, <2>3, <2>5, Zenon DEF Recent, Window
<1>13. ASSUME NEW f \in Flow, flow'[f].pc = "store" PROVE Recent(flow[f].keys, held)'
  <2>1. flow[f].pc = "store" /\ flow'[f].keys = flow[f].keys
    BY <1>13, TickMoves, Zenon
  <2>2. lock = f /\ lock # "free"
    BY <2>1, IdentityAssumption, Zenon DEF IdInv, Phase
  <2>3. held \in Nat /\ held' = held + 1
    BY <1>1, <1>7, <2>2, Numbers, SMTT(30) DEF ServerShape
  <2>4. Recent(flow[f].keys, held)
    BY <1>1, <2>1, Zenon DEF Ages
  <2>5. \A k \in DOMAIN Keys : /\ k \in flow[f].keys /\ k \notin jwks => gone'[k] <= held + 1
                               /\ k \in jwks /\ k \notin flow[f].keys => born'[k] <= held + 1
    BY <1>2, <1>5, <2>3, <2>4 DEF Recent
  <2> QED BY <1>1, <2>1, <2>3, <2>5, Zenon DEF Recent
<1>14. \A f \in Flow : flow'[f].pc # "check"
  BY TickMoves, Zenon DEF Tick
<1>15. \A k \in DOMAIN Keys : /\ k \in jwks' \/ k > key' => gone'[k] = 0
                              /\ k > key' => born'[k] = 0
  BY <1>1, <1>5, Zenon
<1>16. Ages'
  BY <1>12, <1>13, <1>14, <1>15, Zenon DEF Ages
<1> QED BY <1>6, <1>10, <1>16, Zenon

-----------------------------------------------------------------------------
(* The invariant is kept.                                                  *)

\* The flows, the sessions and the key sets after a step of one flow.
LEMMA FlowStep ==
  ASSUME IdInv, NEW f \in Flow, Moves(f), UNCHANGED idp, ServerShape', Ages'
  PROVE  IdInv'
<1>1. \A g \in Flow : Phase(g)' /\ Kept(g)'
  BY RestKeeps, Zenon DEF Moves
<1>2. Shape'
  BY Zenon DEF IdInv, Shape, IdpShape, idp, Moves, Rest, Only, Window
<1> QED BY <1>1, <1>2, Zenon DEF IdInv

LEMMA IdStep == IdInv /\ [Next]_vars => IdInv'
<1> SUFFICES ASSUME IdInv, [Next]_vars PROVE IdInv'
  BY Zenon
<1>1. Shape /\ ServerShape /\ Ages /\ held \in Nat /\ held <= Fetch
  BY Numbers DEF IdInv, Shape, ServerShape
<1>2. ASSUME NEW f \in Flow, LoginStart(f) \/ AuthURL(f) \/ Authorize(f) \/ Exchange(f) \/ RefreshGrant(f)
      PROVE  IdInv'
  <2>1. Moves(f) /\ flow'[f].pc \notin {"store", "check"}
    BY <1>2, LoginStartMoves, AuthURLMoves, AuthorizeMoves, ExchangeMoves, RefreshGrantMoves, Zenon
  <2>2. UNCHANGED <<idp, server, refreshes, restarts>>
    BY <1>2, Zenon DEF LoginStart, AuthURL, Authorize, Exchange, RefreshGrant, FlowOnly
  <2>3. Ages'
    BY <2>1, <2>2, FlowAges, Zenon DEF Moves, Rest, server
  <2>4. ServerShape'
    BY <1>1, <2>2, Zenon DEF ServerShape, server
  <2> QED BY <2>1, <2>2, <2>3, <2>4, FlowStep, Zenon
<1>3. ASSUME NEW f \in Flow, Refresh(f) PROVE IdInv'
  <2>1. Moves(f) /\ flow'[f].pc \notin {"store", "check"}
    BY <1>3, RefreshMoves, Zenon
  <2>2. UNCHANGED <<idp, server, restarts>> /\ refreshes < MaxRefresh /\ refreshes' = refreshes + 1
    BY <1>3, Zenon DEF Refresh
  <2>3. Ages'
    BY <2>1, <2>2, FlowAges, Zenon DEF Moves, Rest, server
  <2>4. refreshes' \in 0..MaxRefresh
    BY <1>1, <2>2, IdentityAssumption DEF ServerShape
  <2>5. ServerShape'
    BY <1>1, <2>2, <2>4, Zenon DEF ServerShape, server
  <2> QED BY <2>1, <2>2, <2>3, <2>5, FlowStep, Zenon
<1>4. ASSUME NEW f \in Flow, Discover(f) \/ Discovered(f) PROVE IdInv'
  <2>1. /\ UNCHANGED <<idp, cache, lock, held, flow, sess, refreshes, restarts>>
        /\ disc' \in [st : {"unset", "fetching", "ok", "failed"}, by : Flow \cup {"none"}]
    <3>1. CASE Discover(f)
      BY <3>1, Zenon DEF Discover, FlowOnly
    <3>2. CASE Discovered(f)
      BY <3>2 DEF Discovered, FlowOnly
    <3> QED BY <1>4, <3>1, <3>2, Zenon
  <2>2. ServerShape' /\ IdpShape'
    BY <1>1, <2>1, Zenon DEF Shape, ServerShape, IdpShape, idp, Window
  <2>3. Shape'
    BY <1>1, <2>1, <2>2, Zenon DEF Shape
  <2>4. Ages'
    BY <1>1, <2>1, Zenon DEF Ages, Recent, idp, Window
  <2> QED BY <2>1, <2>3, <2>4, StillKeeps, Zenon DEF IdInv
<1>5. ASSUME NEW f \in Flow, GetJWKS(f) PROVE IdInv'
  <2>1. /\ Moves(f) /\ flow'[f].pc # "store"
        /\ flow'[f].pc = "check" => flow'[f].keys = cache.keys /\ cache.left > 0
    BY <1>5, GetJWKSMoves, Zenon
  <2>2. /\ UNCHANGED <<idp, cache, disc, refreshes, restarts>> /\ lock = "free"
        /\ lock' \in {"free", f} /\ held' \in {0, held}
    BY <1>5, Zenon DEF GetJWKS, FlowOnly, server
  <2>3. flow'[f].pc = "check" => Recent(flow'[f].keys, Window - 1)
    BY <1>1, <2>1, RecentWeaker, Numbers, SMTT(30) DEF Ages, ServerShape
  <2>4. Ages'
    BY <2>1, <2>2, <2>3, FlowAges, Zenon DEF Moves, Rest
  <2>5. ServerShape'
    BY <1>1, <2>2, Numbers DEF ServerShape
  <2> QED BY <2>1, <2>2, <2>4, <2>5, FlowStep, Zenon
<1>6. ASSUME NEW f \in Flow, FetchFails(f) PROVE IdInv'
  <2>1. Moves(f) /\ flow'[f].pc \notin {"store", "check"}
    BY <1>6, FetchFailsMoves, Zenon
  <2>2. /\ UNCHANGED <<idp, cache, disc, refreshes, restarts>> /\ lock = f
        /\ lock' = "free" /\ held' = 0
    BY <1>6, Zenon DEF FetchFails, FlowOnly, IdInv, Phase
  <2>3. Ages'
    BY <2>1, <2>2, FlowAges, Zenon DEF Moves, Rest
  <2>4. ServerShape'
    BY <1>1, <2>2, Numbers DEF ServerShape
  <2> QED BY <2>1, <2>2, <2>3, <2>4, FlowStep, Zenon
<1>7. ASSUME NEW f \in Flow, FetchJWKS(f) PROVE IdInv'
  <2>1. Moves(f) /\ flow'[f].pc = "store" /\ flow'[f].keys = jwks
    BY <1>7, FetchJWKSMoves, Zenon
  <2>2. UNCHANGED <<idp, server, refreshes, restarts>>
    BY <1>7, Zenon DEF FetchJWKS, FlowOnly
  <2>3. Recent(flow'[f].keys, held')
    BY <2>1, Zenon DEF Recent
  <2>4. Ages'
    BY <2>1, <2>2, <2>3, FlowAges, Zenon DEF Moves, Rest, server
  <2>5. ServerShape'
    BY <1>1, <2>2, Zenon DEF ServerShape, server
  <2> QED BY <2>1, <2>2, <2>4, <2>5, FlowStep, Zenon
<1>8. ASSUME NEW f \in Flow, StoreJWKS(f) PROVE IdInv'
  <2>1. Moves(f) /\ flow'[f].pc = "check" /\ flow'[f].keys = flow[f].keys
    BY <1>8, StoreJWKSMoves, Zenon
  <2>2. /\ UNCHANGED <<idp, disc, refreshes, restarts>> /\ flow[f].pc = "store" /\ lock = f
        /\ lock' = "free" /\ held' = 0 /\ cache' = [keys |-> flow[f].keys, left |-> TTL]
    BY <1>8, Zenon DEF StoreJWKS, FlowOnly, IdInv, Phase
  <2>3. Recent(flow[f].keys, held) /\ flow[f].keys \in SUBSET DOMAIN Keys
    BY <1>1, <2>2, Zenon DEF Ages, Shape, FlowRec
  <2>4. Recent(flow[f].keys, Window - 1) /\ Recent(flow[f].keys, Fetch)
    BY <1>1, <2>3, RecentWeaker, Numbers, SMTT(30)
  <2>5. cache'.keys = flow[f].keys /\ cache'.left = TTL /\ Window - TTL = Fetch
    BY <2>2, Numbers
  <2>6. Recent(cache'.keys, Window - cache'.left)
    BY <2>4, <2>5, Zenon
  <2>7. Ages'
    BY <2>1, <2>2, <2>4, <2>6, FlowAges, Zenon DEF Moves, Rest
  <2>8. ServerShape'
    BY <1>1, <2>2, <2>3, Numbers, SMTT(60) DEF ServerShape
  <2> QED BY <2>1, <2>2, <2>7, <2>8, FlowStep, Zenon
<1>9. ASSUME NEW f \in Flow, Check(f) PROVE IdInv'
  <2>1. Moves(f) /\ flow'[f].pc \notin {"store", "check"}
    BY <1>9, CheckMoves, Zenon
  <2>2. UNCHANGED <<idp, server, refreshes, restarts>>
    BY <1>9, Zenon DEF Check
  <2>3. Ages'
    BY <2>1, <2>2, FlowAges, Zenon DEF Moves, Rest, server
  <2>4. ServerShape'
    BY <1>1, <2>2, Zenon DEF ServerShape, server
  <2> QED BY <2>1, <2>2, <2>3, <2>4, FlowStep, Zenon
<1>10. CASE Rotate \/ Withdraw
  <2>1. UNCHANGED <<server, flow, sess, refreshes, restarts>>
    BY <1>10, Zenon DEF Rotate, Withdraw, IdpOnly
  <2>2. ServerShape' /\ UNCHANGED lock
    BY <1>1, <2>1, Zenon DEF ServerShape, server
  <2>3. Shape'
    BY <1>1, <1>10, <2>1, <2>2, KeysAges, Zenon DEF Shape
  <2> QED BY <1>10, <2>1, <2>2, <2>3, KeysAges, StillKeeps, Zenon DEF IdInv
<1>11. CASE Tick
  <2>1. UNCHANGED sess
    BY <1>11, Zenon DEF Tick
  <2> QED BY <1>1, <1>11, <2>1, TickAges, TickMoves, Zenon DEF IdInv, Shape
<1>12. CASE Restart
  <2>1. /\ UNCHANGED <<skew, key, jwks, born, gone, sess, refreshes>>
        /\ cache' = [keys |-> {}, left |-> 0] /\ lock' = "free" /\ held' = 0
        /\ disc' = [st |-> "unset", by |-> "none"]
        /\ restarts < MaxRestarts /\ restarts' = restarts + 1
    BY <1>12, Zenon DEF Restart, idp
  <2>2. restarts' \in 0..MaxRestarts
    BY <1>1, <2>1, IdentityAssumption, SMTT(30) DEF ServerShape
  <2>3. ServerShape' /\ ~(cache'.left > 0)
    BY <1>1, <2>1, <2>2, Numbers DEF ServerShape
  <2>4. IdpShape'
    BY <1>1, <2>1, Zenon DEF Shape, IdpShape, Window
  <2>5. Shape'
    BY <1>1, <1>12, <2>1, <2>3, <2>4, RestartMoves, Zenon DEF Shape
  <2>6. Ages'
    BY <1>1, <1>12, <2>1, <2>3, RestartMoves, Zenon DEF Ages
  <2> QED BY <1>12, <2>5, <2>6, RestartMoves, Zenon DEF IdInv
<1>13. CASE UNCHANGED vars
  <2>1. Shape' /\ Ages'
    BY <1>1, <1>13, Zenon DEF Shape, IdpShape, ServerShape, Ages, Recent, Window, vars, idp, server
  <2> QED BY <1>13, <2>1, StillKeeps, Zenon DEF IdInv, vars, server
<1> QED
  BY <1>2, <1>3, <1>4, <1>5, <1>6, <1>7, <1>8, <1>9, <1>10, <1>11, <1>12, <1>13, Zenon DEF Next, Request

LEMMA IdInit == Init => IdInv
<1> SUFFICES ASSUME Init PROVE IdInv
  BY Zenon
<1>1. \A f \in Flow : flow[f] = NoFlow /\ sess[f] = NoSess
  BY Zenon DEF Init
<1>2. NoFlow.pc = "idle" /\ NoFlow.mode = "login" /\ NoSess.live = FALSE
  BY Zenon DEF NoFlow, NoSess
<1>3. Shape
  <2>1. IdpShape
    BY Numbers, SMTT(30) DEF Init, IdpShape
  <2>2. ServerShape
    BY Numbers, IdentityAssumption DEF Init, ServerShape
  <2>3. flow \in [Flow -> FlowRec] /\ sess = [f \in Flow |-> sess[f]]
    BY TokType, Zenon DEF Init
  <2> QED BY <2>1, <2>2, <2>3, Zenon DEF Shape
<1>4. ASSUME NEW f \in Flow PROVE Phase(f) /\ Kept(f)
  <2>1. flow[f].pc = "idle" /\ flow[f].mode = "login" /\ sess[f].live = FALSE
    BY <1>1, <1>2, Zenon
  <2>2. lock # f
    BY IdentityAssumption, Zenon DEF Init
  <2> QED BY <2>1, <2>2, Zenon DEF Phase, Kept
<1>5. Ages
  BY <1>1, <1>2, Numbers DEF Init, Ages
<1> QED BY <1>3, <1>4, <1>5, Zenon DEF IdInv

LEMMA IdAlways == Spec => []IdInv
  BY IdInit, IdStep, PTL DEF Spec

-----------------------------------------------------------------------------
(* The theorems.                                                           *)

\* The type invariant, for all constants: the JWKS mutex is held by the one
\* flow that fetches or stores keys, only sessions are refreshed, and every
\* session has a subject.
THEOREM IdentityTypeCorrect == Spec => []TypeOK
<1>1. IdInv => TypeOK
  <2> SUFFICES ASSUME IdInv PROVE TypeOK
    BY Zenon
  <2>1. Shape /\ IdpShape /\ ServerShape
    BY Zenon DEF IdInv, Shape
  <2>2. lock # "free" => flow[lock].pc \in {"fetch", "store"}
    BY <2>1, Zenon DEF IdInv, ServerShape, Phase
  <2>3. \A f \in Flow : flow[f].pc \in PC
    BY <2>1, Zenon DEF Shape, FlowRec
  <2>4. \A f \in Flow : /\ flow[f].mode = "refresh" => sess[f].live
                        /\ sess[f].live => flow[f].user \in User /\ sess[f].claims.sub # Empty
    BY Zenon DEF IdInv, Phase, Kept
  <2>5. /\ skew \in Skews /\ key \in DOMAIN Keys /\ jwks \subseteq DOMAIN Keys /\ key \in jwks
    BY <2>1, Zenon DEF IdpShape
  <2>6. /\ cache.keys \subseteq DOMAIN Keys /\ cache.left \in 0..TTL
        /\ lock \in Flow \cup {"free"} /\ held \in 0..Fetch
        /\ disc.st \in {"unset", "fetching", "ok", "failed"} /\ disc.by \in Flow \cup {"none"}
        /\ refreshes \in 0..MaxRefresh /\ restarts \in 0..MaxRestarts
    BY <2>1, Zenon DEF ServerShape
  <2> QED BY <2>2, <2>3, <2>4, <2>5, <2>6, Zenon DEF TypeOK, PC
<1> QED BY <1>1, IdAlways, PTL

\* Neither the proxy nor the session endpoint sees a role that the last accepted
\* token does not grant, through any number of logins and refreshes.
THEOREM RolesAlwaysFollow ==
  ASSUME RolesNamed
  PROVE  Spec => []RolesFollowToken
<1>1. IdInv => RolesFollowToken
  <2> SUFFICES ASSUME IdInv, NEW f \in Flow, sess[f].live
               PROVE  /\ Principal(sess[f].claims).roles = tokenRoles(sess[f].last)
                      /\ SessionUser(sess[f].claims).roles = tokenRoles(sess[f].last)
    BY Zenon DEF RolesFollowToken
  <2> DEFINE c == sess[f].claims  l == sess[f].last
  <2>1. /\ c.realm = l.realm /\ (l.realm = {} => c.top = l.top)
        /\ "" \notin l.realm /\ "" \notin l.top
    BY Zenon DEF IdInv, Kept, RolesNamed
  <2> HIDE DEF c, l
  <2>2. tokenRoles(c) = tokenRoles(l)
    BY <2>1, Zenon DEF tokenRoles
  <2>3. c.realm \ {""} = c.realm /\ (c.realm = {} => c.top \ {""} = c.top)
    BY <2>1, Zenon
  <2>4. rolesFromClaims(c) = tokenRoles(c)
    BY <2>3, Zenon DEF rolesFromClaims, tokenRoles
  <2>5. Principal(c).roles = tokenRoles(c) /\ SessionUser(c).roles = rolesFromClaims(c)
    BY Zenon DEF Principal, extractRoles, SessionUser
  <2> QED BY <2>2, <2>4, <2>5, Zenon DEF c, l
<1> QED BY <1>1, IdAlways, PTL

\* Two users never come to share an id, as long as the provider tells them apart
\* and no numeric id is past what a float64 holds.
THEOREM SubjectsAlwaysApart ==
  ASSUME DistinctIds, FloatExact
  PROVE  Spec => []SubjectsApart
<1> DEFINE big == 2^Mantissa
<1>1. ASSUME NEW u \in User, NEW v \in User, u # v,
             NEW c \in UserClaims[u], NEW d \in UserClaims[v],
             authoritativeID(c) # Empty, authoritativeID(c) = authoritativeID(d)
      PROVE  authoritativeID(c)[1] = "digits" /\ authoritativeID(c)[2] >= big
  <2>1. authoritativeID(c) = claimToString(c.mapped) /\ authoritativeID(d) = claimToString(d.mapped)
    BY <1>1, Zenon DEF authoritativeID
  <2>2. c.mapped # Empty /\ d.mapped # Empty
    BY <1>1, <2>1, Zenon DEF claimToString
  <2>3. c.mapped # d.mapped
    BY <1>1, <2>2, Zenon DEF DistinctIds
  <2>4. CASE c.mapped[1] # "number" /\ d.mapped[1] # "number"
    BY <1>1, <2>1, <2>3, <2>4, Zenon DEF claimToString
  <2>5. CASE (\E n \in Nat : c.mapped = <<"number", n>>) /\ (\E n \in Nat : d.mapped = <<"number", n>>)
    <3>1. PICK n \in Nat : c.mapped = <<"number", n>>
      BY <2>5, Zenon
    <3>2. PICK m \in Nat : d.mapped = <<"number", m>>
      BY <2>5, Zenon
    <3>3. authoritativeID(c) = <<"digits", Float(n)>> /\ authoritativeID(d) = <<"digits", Float(m)>>
      <4>1. c.mapped[1] = "number" /\ c.mapped[2] = n /\ d.mapped[1] = "number" /\ d.mapped[2] = m
        BY <3>1, <3>2
      <4> QED BY <2>1, <2>2, <4>1, Zenon DEF claimToString
    <3>4. \A i \in Nat : Float(i) = i \/ Float(i) >= big
      BY <1>1, Zenon DEF FloatExact
    <3> HIDE DEF big
    <3>5. n # m
      BY <2>3, <3>1, <3>2, Zenon
    <3> DEFINE x == Float(n)  y == Float(m)
    <3>6. (x = n \/ x >= big) /\ (y = m \/ y >= big)
      BY <3>4, Zenon
    <3>7. authoritativeID(c)[1] = "digits" /\ authoritativeID(c)[2] = x /\ authoritativeID(d)[2] = y
      BY <3>3
    <3> HIDE DEF x, y
    <3>8. x = y
      BY <1>1, <3>7, Zenon
    <3> QED BY <3>5, <3>6, <3>7, <3>8, Zenon
  <2> QED BY <1>1, <2>2, <2>4, <2>5, Zenon DEF DistinctIds
<1>2. IdInv => SubjectsApart
  <2> HIDE DEF big
  <2> SUFFICES ASSUME IdInv, NEW f \in Flow, NEW g \in Flow,
                      sess[f].live, sess[g].live, flow[f].user # flow[g].user,
                      sess[f].claims.sub = sess[g].claims.sub, sess[f].mapped, sess[g].mapped
               PROVE  sess[f].claims.sub[1] = "digits" /\ sess[f].claims.sub[2] >= big
    <3>1. SubjectsApart <=>
            \A x, y \in Flow :
              (/\ sess[x].live /\ sess[y].live /\ flow[x].user # flow[y].user
               /\ sess[x].claims.sub = sess[y].claims.sub) =>
                 \/ ~sess[x].mapped \/ ~sess[y].mapped
                 \/ sess[x].claims.sub[1] = "digits" /\ sess[x].claims.sub[2] >= big
      BY Zenon DEF SubjectsApart, big
    <3> QED BY <3>1, Zenon
  <2> DEFINE u == flow[f].user  v == flow[g].user
  <2>1. u \in User /\ v \in User
    BY Zenon DEF IdInv, Kept
  <2>2. /\ \E c \in UserClaims[u] : authoritativeID(c) # Empty /\ sess[f].claims.sub = authoritativeID(c)
        /\ \E d \in UserClaims[v] : authoritativeID(d) # Empty /\ sess[g].claims.sub = authoritativeID(d)
    BY Zenon DEF IdInv, Kept
  <2>3. PICK c \in UserClaims[u] : authoritativeID(c) # Empty /\ sess[f].claims.sub = authoritativeID(c)
    BY <2>2, Zenon
  <2>4. PICK d \in UserClaims[v] : authoritativeID(d) # Empty /\ sess[g].claims.sub = authoritativeID(d)
    BY <2>2, Zenon
  <2>5. u # v
    BY Zenon
  <2> HIDE DEF u, v
  <2> QED BY <1>1, <2>1, <2>3, <2>4, <2>5, ZenonT(60)
<1> QED BY <1>2, IdAlways, PTL

-----------------------------------------------------------------------------
(* What a step may do with a token that is being checked.                  *)

\* Only the check itself or a restart takes a flow on from there.
LEMMA LeavesCheck ==
  ASSUME IdInv, [Next]_vars, NEW f \in Flow, flow[f].pc = "check", flow'[f].pc # "check"
  PROVE  Check(f) \/ Restart
<1>1. ASSUME NEW g \in Flow, LoginStart(g) \/ Authorize(g) \/ Refresh(g) \/ Request(g) PROVE Check(f)
  <2>1. CASE Discover(g) \/ Discovered(g)
    BY <2>1, Zenon DEF Discover, Discovered
  <2>2. CASE Check(g)
    <3>1. Only(g)
      BY <2>2, CheckMoves, Zenon DEF Moves, Rest
    <3> QED BY <2>2, <3>1, Zenon DEF Only
  <2>3. CASE \/ LoginStart(g) \/ AuthURL(g) \/ Authorize(g) \/ Exchange(g) \/ RefreshGrant(g) \/ Refresh(g)
             \/ GetJWKS(g) \/ FetchFails(g) \/ FetchJWKS(g) \/ StoreJWKS(g)
    <3>1. Only(g)
      BY <2>3, LoginStartMoves, AuthURLMoves, AuthorizeMoves, ExchangeMoves, RefreshGrantMoves, RefreshMoves,
         GetJWKSMoves, FetchFailsMoves, FetchJWKSMoves, StoreJWKSMoves, ZenonT(30) DEF Moves, Rest
    <3>2. flow[g].pc # "check"
      BY <2>3, Zenon DEF LoginStart, AuthURL, Authorize, Exchange, RefreshGrant, Refresh, GetJWKS, FetchFails,
                  FetchJWKS, StoreJWKS
    <3> QED BY <3>1, <3>2, Zenon DEF Only
  <2> QED BY <1>1, <2>1, <2>2, <2>3, Zenon DEF Request
<1>2. ~Tick
  BY Zenon DEF Tick
<1>3. ~(Rotate \/ Withdraw \/ UNCHANGED vars)
  BY Zenon DEF Rotate, Withdraw, IdpOnly, vars
<1> QED BY <1>1, <1>2, <1>3, Zenon DEF Next

\* An accepted token passed ValidateIDToken; a refused one did not.
Valid(f) == ValidateIDToken(flow[f].tok, KeySet(flow[f].keys), flow[f].tok.age, Nonce(f))

LEMMA AcceptsValid ==
  ASSUME IdInv, [Next]_vars, NEW f \in Flow, Accepts(f)
  PROVE  Valid(f)
<1>1. /\ Shape /\ flow[f].pc = "check" /\ flow'[f].pc = "session"
      /\ flow[f].mode = "login" \/ sess'[f] # sess[f]
  BY Zenon DEF IdInv, Accepts
<1>2. flow[f].mode \in {"login", "refresh"}
  BY <1>1, Zenon DEF Shape, FlowRec
<1>3. ~(flow'[f] = Refused(f) /\ sess' = sess)
  BY <1>1, <1>2, RefusedType, Zenon
<1>4. ~Restart
  BY <1>1, <1>3, Zenon DEF Restart
<1>5. Check(f)
  BY <1>1, <1>4, LeavesCheck, Zenon
<1>6. Valid(f) \/ (flow' = [flow EXCEPT ![f] = Refused(f)] /\ UNCHANGED sess)
  BY <1>5, Zenon DEF Check, Valid
<1>7. ASSUME flow' = [flow EXCEPT ![f] = Refused(f)] PROVE flow'[f] = Refused(f)
  BY <1>1, <1>7, Zenon DEF Shape
<1> QED BY <1>3, <1>6, <1>7, Zenon

LEMMA RefusesInvalid ==
  ASSUME IdInv, [Next]_vars, NEW f \in Flow, Refuses(f)
  PROVE  ~Valid(f)
<1>1. /\ Shape /\ Phase(f) /\ flow[f].pc = "check" /\ flow'[f].pc # "check" /\ sess'[f] = sess[f]
      /\ UNCHANGED restarts
      /\ flow[f].mode = "login" \/ sess[f].last # flow[f].tok.claims
  BY Zenon DEF IdInv, Refuses
<1>2. ~Restart
  BY <1>1, IdentityAssumption, SMTT(60) DEF Restart, Shape, ServerShape
<1>3. Check(f)
  BY <1>1, <1>2, LeavesCheck, Zenon
<1>4. ASSUME Valid(f) PROVE sess'[f].live = TRUE /\ sess'[f].last = flow[f].tok.claims
  <2> DEFINE had == sess[f].live /\ sess[f].mapped
             c == flow[f].tok.claims
             d == IF flow[f].mode = "login" THEN LoginClaims(c, tokenRoles(c))
                  ELSE applyRefreshedClaims(sess[f].claims, c)
             m == had \/ authoritativeID(c) # Empty
  <2>1. sess' = [sess EXCEPT ![f] = [live |-> TRUE, claims |-> d, last |-> c, mapped |-> m]]
    BY <1>3, <1>4, Zenon DEF Check, Valid
  <2> HIDE DEF c, d, m
  <2>2. PICK r : r = [live |-> TRUE, claims |-> d, last |-> c, mapped |-> m]
    BY Zenon
  <2>3. r.live = TRUE /\ r.last = c
    BY ONLY <2>2, Zenon
  <2>4. sess'[f] = r
    BY <1>1, <2>1, <2>2, Zenon DEF Shape
  <2> QED BY <2>3, <2>4, Zenon DEF c
<1>5. flow[f].mode = "login" => ~sess[f].live
  BY <1>1, Zenon DEF Phase
<1> QED BY <1>1, <1>4, <1>5, Zenon

\* With different names, a token's key is the one with its kid.
LEMMA IndexIs ==
  ASSUME DistinctKids, NEW i \in DOMAIN Keys, NEW kid, Keys[i].kid = kid
  PROVE  Index(kid) = i
<1>1. \E k \in DOMAIN Keys : Keys[k].kid = kid
  BY Zenon
<1>2. Index(kid) \in DOMAIN Keys /\ Keys[Index(kid)].kid = kid
  BY <1>1, Zenon DEF Index
<1> QED BY <1>2, Zenon DEF DistinctKids

\* A token is accepted before it expires, and less than the cache's lifetime
\* and one fetch after its key left the provider's key set: rotations,
\* failed fetches, a slow fetch and restarts included.
THEOREM KeysTrustedInTime ==
  ASSUME DistinctKids
  PROVE  Spec => AcceptedInTime
<1>1. IdInv /\ [Next]_vars =>
        [\A f \in Flow : Accepts(f) =>
           LET k == Index(flow[f].tok.kid)
           IN flow[f].tok.age < flow[f].tok.exp /\ (k \notin jwks => gone[k] < Window)]_vars
  <2> SUFFICES ASSUME IdInv, [Next]_vars, NEW f \in Flow, Accepts(f)
               PROVE  /\ flow[f].tok.age < flow[f].tok.exp
                      /\ Index(flow[f].tok.kid) \notin jwks => gone[Index(flow[f].tok.kid)] < Window
    BY Zenon
  <2>1. Valid(f) /\ flow[f].pc = "check"
    BY AcceptsValid, Zenon DEF Accepts
  <2>2. flow[f].tok.age < flow[f].tok.exp
    BY <2>1, Zenon DEF Valid, ValidateIDToken
  <2>3. flow[f].keys \subseteq DOMAIN Keys
    BY Zenon DEF IdInv, Shape, FlowRec
  <2>4. \E i \in flow[f].keys : Keys[i].kid = flow[f].tok.kid
    BY <2>1, Zenon DEF Valid, ValidateIDToken, keyFuncFromJWKS, KeySet
  <2>5. PICK i \in flow[f].keys : Keys[i].kid = flow[f].tok.kid
    BY <2>4, Zenon
  <2>6. i \in DOMAIN Keys /\ Index(flow[f].tok.kid) = i
    BY <2>3, <2>5, IndexIs, Zenon
  <2>7. i \notin jwks => gone[i] <= Window - 1
    BY <2>1, <2>6, Zenon DEF IdInv, Ages, Recent
  <2>8. gone[i] \in Nat
    BY <2>6, Numbers DEF IdInv, Shape, IdpShape
  <2>9. i \notin jwks => gone[i] < Window
    BY <2>7, <2>8, Numbers
  <2> QED BY <2>2, <2>6, <2>9, Zenon
<1> QED BY <1>1, IdAlways, PTL DEF Spec, AcceptedInTime

\* A token is refused only for a cause that passes: a key newer than the cached
\* key set can be, a withdrawn key, one the server does not take, a date
\* ahead of the server's clock, or lateness.
THEOREM TokensRefusedForCause ==
  ASSUME DistinctKids
  PROVE  Spec => RefusedForCause
<1>1. IdInv /\ [Next]_vars =>
        [\A f \in Flow : Refuses(f) =>
           LET tok == flow[f].tok
               k == Index(tok.kid)
           IN \/ born[k] < Window \/ k \notin jwks \/ Keys[k].form # "good"
              \/ tok.age < tok.iat \/ tok.age >= tok.exp]_vars
  <2> SUFFICES ASSUME IdInv, [Next]_vars, NEW f \in Flow, Refuses(f),
                      ~(born[Index(flow[f].tok.kid)] < Window), Index(flow[f].tok.kid) \in jwks,
                      Keys[Index(flow[f].tok.kid)].form = "good",
                      ~(flow[f].tok.age < flow[f].tok.iat), ~(flow[f].tok.age >= flow[f].tok.exp)
               PROVE  FALSE
    BY Zenon
  <2>1. ~Valid(f) /\ flow[f].pc = "check"
    BY RefusesInvalid, Zenon DEF Refuses
  <2>2. Issued(f)
    BY <2>1, ZenonT(30) DEF IdInv, Phase
  <2> DEFINE tok == flow[f].tok  keys == KeySet(flow[f].keys)
  <2>3. PICK k \in DOMAIN Keys : tok.kid = Keys[k].kid
    BY <2>2, Zenon DEF Issued
  <2>4. Index(tok.kid) = k
    BY <2>3, IndexIs, Zenon
  <2>5. born[k] \in Nat /\ k \in jwks /\ ~(born[k] < Window) /\ Keys[k].form = "good"
    BY <2>3, <2>4, Numbers, SMTT(60) DEF IdInv, Shape, IdpShape
  <2>6. k \in flow[f].keys
    <3>1. k \in jwks /\ k \notin flow[f].keys => born[k] <= Window - 1
      BY <2>1, <2>3, Zenon DEF IdInv, Ages, Recent
    <3> QED BY <2>5, <3>1, Numbers, SMTT(30)
  <2>7. keyFuncFromJWKS(keys, tok.kid)
    <3>1. DOMAIN keys = flow[f].keys /\ \A i \in flow[f].keys : keys[i] = Keys[i]
      BY Zenon DEF KeySet
    <3>2. flow[f].keys \subseteq DOMAIN Keys
      BY Zenon DEF IdInv, Shape, FlowRec
    <3>3. \A j \in flow[f].keys : Keys[j].kid = tok.kid => j = k
      BY <2>3, <3>2, Zenon DEF DistinctKids
    <3> HIDE DEF keys, tok
    <3>4. k \in Nat /\ ~(k < k)
      BY <2>3, Numbers
    <3> QED BY <2>3, <2>5, <2>6, <3>1, <3>3, <3>4, Zenon DEF keyFuncFromJWKS
  <2>8. tok.age \in Nat /\ tok.iat \in Nat /\ tok.exp \in Nat
    <3>1. tok \in Tok
      BY Zenon DEF IdInv, Shape, FlowRec
    <3> HIDE DEF tok
    <3> QED BY <3>1, Zenon DEF Tok
  <2>9. tok.age < tok.exp /\ tok.iat <= tok.age
    <3>1. ~(tok.age < tok.iat) /\ ~(tok.age >= tok.exp)
      BY Zenon
    <3> HIDE DEF tok
    <3> QED BY <2>8, <3>1, SMTT(30)
  <2>10. tok.iss = Issuer /\ Audience \in tok.aud
    BY <2>2, Zenon DEF Issued
  <2>11. Nonce(f) # "" => tok.nonce = Nonce(f)
    <3>1. flow[f].mode = "login" => tok.nonce = f
      BY <2>2, Zenon DEF Issued
    <3> QED BY <3>1, Zenon DEF Nonce
  <2>12. ValidateIDToken(tok, keys, tok.age, Nonce(f))
    <3> HIDE DEF tok, keys
    <3> QED BY <2>7, <2>9, <2>10, <2>11, Zenon DEF ValidateIDToken
  <2> QED BY <2>1, <2>12, Zenon DEF Valid
<1> QED BY <1>1, IdAlways, PTL DEF Spec, RefusedForCause

\* The downstream id and its kind stay through every refresh, except that the
\* first id found in the configured claim replaces the sub a login had to
\* take.  IdKind is never empty after Config.Normalize.
THEOREM IdentityAlwaysStable ==
  ASSUME StableIds, IdKind # ""
  PROVE  Spec => IdentityStable
<1>1. ASSUME IdInv, [Next]_vars, NEW f \in Flow, sess[f].live
      PROVE  \/ sess'[f] = sess[f]
             \/ /\ flow'[f].user = flow[f].user /\ sess'[f].live = TRUE
                /\ sess[f].mapped => sess'[f].mapped
  <2>1. CASE UNCHANGED sess
    BY <2>1, Zenon
  <2>2. ASSUME NEW g \in Flow, Check(g), g # f PROVE sess'[f] = sess[f]
    BY <1>1, <2>2, CheckMoves, Zenon DEF Moves, Rest
  <2>3. ASSUME Check(f), sess' # sess
        PROVE  /\ flow'[f].user = flow[f].user /\ sess'[f].live = TRUE
               /\ sess[f].mapped => sess'[f].mapped
    <3> DEFINE c == flow[f].tok.claims
               d == IF flow[f].mode = "login" THEN LoginClaims(c, tokenRoles(c))
                    ELSE applyRefreshedClaims(sess[f].claims, c)
               m == (sess[f].live /\ sess[f].mapped) \/ authoritativeID(c) # Empty
    <3>1. /\ sess' = [sess EXCEPT ![f] = [live |-> TRUE, claims |-> d, last |-> c, mapped |-> m]]
          /\ flow' = [flow EXCEPT ![f].pc = "session", ![f].tok = NoTok, ![f].keys = {}]
      BY <2>3, Zenon DEF Check
    <3>2. sess[f].mapped => m
      BY <1>1, Zenon
    <3> HIDE DEF c, d, m
    <3>3. PICK r : r = [live |-> TRUE, claims |-> d, last |-> c, mapped |-> m]
      BY Zenon
    <3>4. r.live = TRUE /\ r.mapped = m
      BY ONLY <3>3, Zenon
    <3>5. Shape
      BY <1>1, Zenon DEF IdInv
    <3>6. sess'[f] = r
      BY <3>1, <3>3, <3>5, Zenon DEF Shape
    <3>7. flow' = [flow EXCEPT ![f] = DropTok(flow[f], "session")] /\ flow[f] \in FlowRec /\ "session" \in PC
      BY <3>1, <3>5, Zenon DEF Shape, DropTok, PC
    <3>8. DropTok(flow[f], "session") \in FlowRec /\ DropTok(flow[f], "session").user = flow[f].user
      BY <3>7, WithoutTok, Zenon
    <3>9. flow'[f].user = flow[f].user
      BY <3>5, <3>7, <3>8, Replaced, ZenonT(30)
    <3> QED BY <3>2, <3>4, <3>6, <3>9, Zenon
  <2>4. UNCHANGED sess \/ \E g \in Flow : Check(g)
    BY <1>1, ZenonT(30) DEF Next, Request, Rotate, Withdraw, Tick, Restart, LoginStart, Authorize, Refresh, Discover,
                Discovered, AuthURL, Exchange, GetJWKS, FetchFails, FetchJWKS, StoreJWKS, RefreshGrant,
                FlowOnly, IdpOnly, vars
  <2> QED BY <2>1, <2>2, <2>3, <2>4, Zenon
<1>2. IdInv /\ IdInv' /\ [Next]_vars =>
        [\A f \in Flow : sess[f].live =>
           /\ sess'[f].claims.kind = sess[f].claims.kind
           /\ \/ sess'[f].claims.sub = sess[f].claims.sub
              \/ ~sess[f].mapped /\ sess'[f].mapped]_vars
  <2> SUFFICES ASSUME IdInv, IdInv', [Next]_vars, NEW f \in Flow, sess[f].live
               PROVE  /\ sess'[f].claims.kind = sess[f].claims.kind
                      /\ \/ sess'[f].claims.sub = sess[f].claims.sub
                         \/ ~sess[f].mapped /\ sess'[f].mapped
    BY Zenon
  <2>1. CASE sess'[f] = sess[f]
    BY <2>1, Zenon
  <2>2. CASE /\ flow'[f].user = flow[f].user /\ sess'[f].live = TRUE
             /\ sess[f].mapped => sess'[f].mapped
    <3> DEFINE u == flow[f].user  s == sess[f]  t == sess'[f]
    <3>1. /\ u \in User /\ (IdKind # "" => s.claims.kind = IdKind)
          /\ s.mapped => \E c \in UserClaims[u] :
               authoritativeID(c) # Empty /\ s.claims.sub = authoritativeID(c)
          /\ ~s.mapped => \E c \in UserClaims[u] : s.claims.sub = c.sub
      BY Zenon DEF IdInv, Kept
    <3>2. Kept(f)'
      BY Zenon DEF IdInv
    <3>3. /\ IdKind # "" => t.claims.kind = IdKind
          /\ t.mapped => \E c \in UserClaims[u] :
               authoritativeID(c) # Empty /\ t.claims.sub = authoritativeID(c)
          /\ ~t.mapped => \E c \in UserClaims[u] : t.claims.sub = c.sub
      BY <2>2, <3>2, Zenon DEF Kept
    <3> HIDE DEF u, s, t
    <3>4. t.claims.kind = s.claims.kind
      BY <3>1, <3>3, Zenon
    <3>5. s.mapped => t.mapped
      BY <2>2, Zenon DEF s, t
    <3>6. t.claims.sub = s.claims.sub \/ (~s.mapped /\ t.mapped)
      BY <3>1, <3>3, <3>5, Zenon DEF StableIds
    <3> QED BY <3>4, <3>6, Zenon DEF s, t
  <2> QED BY <1>1, <2>1, <2>2, Zenon
<1> QED BY <1>2, IdAlways, PTL DEF Spec, IdentityStable

=============================================================================
