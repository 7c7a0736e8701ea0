----------------------------- MODULE GateProofs -----------------------------
(***************************************************************************)
(* What accessgate-proxy does with any number of concurrent requests, for  *)
(* any configuration it accepts, any requests, sessions and decisions: the *)
(* rate limiter bounds what it lets through, the most specific route is    *)
(* found, nothing reaches an upstream unguarded, and a refusal is said.    *)
(***************************************************************************)
EXTENDS Gate, FiniteSetTheorems, TLAPS

USE RateLimitAssumption

\* The time a bucket was paid for: what passed, and what passed twice.
Paid(k) == (last[k] - first[k]) + slip[k]

\* A key without a bucket has had nothing.
Untouched == \A k \in Key \ made : granted[k] = 0

\* The account of a key: what was let through and what is left was in the first
\* bucket or paid for by time.
Account ==
  \A k \in made :
    /\ tokens[k] <= Capacity
    /\ granted[k] * Minute + tokens[k] <= Capacity + PerMinute * Paid(k)

\* Nobody has read a time that is yet to come.
Clocked == (\A c \in Caller : at[c] <= now) /\ \A k \in made : last[k] <= now

LimitInv == LimitTypeOK /\ Untouched /\ Account /\ Clocked

\* Multiplication distributes over addition.
LEMMA Distributes ==
  ASSUME NEW a \in Int, NEW b \in Int, NEW c \in Int
  PROVE  a * (b + c) = a * b + a * c /\ a * b \in Int /\ a * c \in Int
OBVIOUS

\* The burst is a number of units, and holds at least one token.
LEMMA CapacityType == Capacity \in Nat /\ Minute <= Capacity
BY SMT DEF Capacity

\* What a bucket holds is never more than the burst, and grows by no more than
\* what the time since its last use is worth.
LEMMA RefillBounded ==
  ASSUME LimitInv, NEW k \in Key, NEW t \in Nat
  PROVE  /\ Refilled(k, t) \in Nat /\ Refilled(k, t) <= Capacity
         /\ k \in made /\ t <= last[k] => Refilled(k, t) = tokens[k]
         /\ k \in made /\ t > last[k] =>
              Refilled(k, t) <= tokens[k] + PerMinute * (t - last[k])
<1>1. tokens[k] \in Nat /\ last[k] \in Nat /\ (k \in made => tokens[k] <= Capacity)
  BY Zenon DEF LimitInv, LimitTypeOK, Account
<1>2. CASE t > last[k]
  <2> DEFINE gain == (t - last[k]) * PerMinute
  <2>1. t - last[k] \in Nat
    BY <1>1, <1>2
  <2>2. gain \in Nat /\ gain = PerMinute * (t - last[k])
    BY <2>1
  <2> HIDE DEF gain
  <2>3. Refilled(k, t) = IF k \notin made THEN Capacity
                         ELSE IF t <= last[k] THEN tokens[k]
                         ELSE IF tokens[k] + gain > Capacity THEN Capacity ELSE tokens[k] + gain
    BY Zenon DEF Refilled, gain
  <2> QED BY <1>1, <1>2, <2>2, <2>3, CapacityType
<1>3. CASE t <= last[k]
  <2>1. Refilled(k, t) = IF k \notin made THEN Capacity ELSE tokens[k]
    BY <1>3, Zenon DEF Refilled
  <2> QED BY <1>1, <1>3, <2>1, CapacityType
<1> QED BY <1>1, <1>2, <1>3

\* Plugin.Handle under the mutex keeps the account of the key it serves: what
\* it hands out or leaves in the bucket was in the bucket or is paid by time.
LEMMA TakeKeepsAccount ==
  ASSUME LimitInv, LimitTypeOK', NEW c \in Caller, LimitTake(c)
  PROVE  Untouched' /\ Account' /\ Clocked'
<1>1. PICK k \in Key, t \in Nat : k = key[c] /\ t = at[c]
  BY Zenon DEF LimitInv, LimitTypeOK, LimitTake
<1> DEFINE R == Refilled(k, t)
<1>2. /\ R \in Nat /\ R <= Capacity
      /\ k \in made /\ t <= last[k] => R = tokens[k]
      /\ k \in made /\ t > last[k] => R <= tokens[k] + PerMinute * (t - last[k])
  BY <1>1, RefillBounded, Zenon
<1>3. /\ tokens[k] \in Nat /\ granted[k] \in Nat /\ last[k] \in Nat
      /\ first[k] \in Nat /\ slip[k] \in Nat
  BY <1>1, Zenon DEF LimitInv, LimitTypeOK
<1>4. /\ tokens'[k] = R - (IF R >= Minute THEN Minute ELSE 0)
      /\ granted'[k] = IF R >= Minute THEN granted[k] + 1 ELSE granted[k]
      /\ last'[k] = t
      /\ first'[k] = IF k \in made THEN first[k] ELSE t
      /\ slip'[k] = IF k \in made /\ t < last[k] THEN slip[k] + (last[k] - t) ELSE slip[k]
  BY <1>1, ZenonT(60) DEF LimitTake, LimitInv, LimitTypeOK, Admits
<1>5. granted'[k] * Minute + tokens'[k] = granted[k] * Minute + R
  <2>1. (granted[k] + 1) * Minute = granted[k] * Minute + Minute /\ granted[k] * Minute \in Nat
    BY <1>3
  <2> QED BY <1>2, <1>3, <1>4, <2>1
<1>6. tokens'[k] <= Capacity
  BY <1>2, <1>4, CapacityType
<1>7. granted'[k] * Minute + tokens'[k] <= Capacity + PerMinute * Paid(k)'
  <2>1. CASE k \notin made
    <3>1. granted[k] = 0 /\ Paid(k)' = slip[k]
      BY <1>1, <1>3, <1>4, <2>1 DEF LimitInv, Untouched, Paid
    <3>2. PerMinute * slip[k] \in Nat
      BY <1>3
    <3> QED BY <1>2, <1>5, <3>1, <3>2, CapacityType, SMTT(60)
  <2>2. CASE k \in made /\ t > last[k]
    <3>1. Paid(k)' = Paid(k) + (t - last[k])
      BY <1>3, <1>4, <1>1, <2>2 DEF Paid
    <3>2. Paid(k) \in Int /\ t - last[k] \in Int
      BY <1>1, <1>3 DEF Paid
    <3>3. PerMinute * Paid(k)' = PerMinute * Paid(k) + PerMinute * (t - last[k])
      BY <3>1, <3>2, Distributes
    <3>4. granted[k] * Minute + tokens[k] <= Capacity + PerMinute * Paid(k)
      BY <2>2, Zenon DEF LimitInv, Account, Paid
    <3>5. /\ granted[k] * Minute \in Int /\ PerMinute * Paid(k) \in Int
          /\ PerMinute * (t - last[k]) \in Int
      BY <1>3, <3>2, Distributes
    <3> QED BY <1>2, <1>3, <1>5, <2>2, <3>3, <3>4, <3>5, CapacityType, SMTT(60)
  <2>3. CASE k \in made /\ t <= last[k]
    <3>1. Paid(k)' = Paid(k)
      BY <1>1, <1>3, <1>4, <2>3 DEF Paid
    <3>2. granted[k] * Minute + tokens[k] <= Capacity + PerMinute * Paid(k)
      BY <2>3, Zenon DEF LimitInv, Account, Paid
    <3> QED BY <1>2, <1>5, <2>3, <3>1, <3>2, ZenonT(60)
  <2> QED BY <1>1, <1>3, <2>1, <2>2, <2>3
<1>8. \A j \in Key : j # k =>
        /\ tokens'[j] = tokens[j] /\ granted'[j] = granted[j] /\ last'[j] = last[j]
        /\ first'[j] = first[j] /\ slip'[j] = slip[j] /\ (j \in made' <=> j \in made)
  BY <1>1, ZenonT(60) DEF LimitTake, LimitInv, LimitTypeOK
<1>9. made' \subseteq Key
  BY Zenon DEF LimitTypeOK
<1>10. Untouched'
  BY <1>1, <1>8, Zenon DEF LimitTake, LimitInv, Untouched
<1>11. Account'
  <2> SUFFICES ASSUME NEW j \in made'
               PROVE  /\ tokens'[j] <= Capacity
                      /\ granted'[j] * Minute + tokens'[j] <= Capacity + PerMinute * Paid(j)'
    BY Zenon DEF Account, Capacity
  <2>1. CASE j = k
    BY <1>6, <1>7, <2>1, Zenon DEF Paid
  <2>2. CASE j # k
    BY <1>8, <1>9, <2>2, ZenonT(60) DEF LimitInv, Account, Paid
  <2> QED BY <2>1, <2>2, Zenon
<1>12. Clocked'
  <2>1. at' = at /\ now' = now /\ t <= now
    BY <1>1, Zenon DEF LimitTake, LimitInv, Clocked
  <2> QED BY <1>4, <1>8, <1>9, <2>1, Zenon DEF LimitInv, Clocked
<1> QED BY <1>10, <1>11, <1>12, Zenon

\* The bookkeeping of the limiter has its types.
LEMMA TakeKeepsTypes ==
  ASSUME LimitInv, NEW c \in Caller, LimitTake(c)
  PROVE  LimitTypeOK'
<1> DEFINE k == key[c]
           t == at[c]
           R == Refilled(k, t)
<1>1. k \in Key /\ t \in Nat
  BY Zenon DEF LimitInv, LimitTypeOK, LimitTake
<1>2. R \in Nat
  BY <1>1, RefillBounded, Zenon
<1>3. R - (IF R >= Minute THEN Minute ELSE 0) \in Nat
  BY <1>2
<1>4. tokens' \in [Key -> Nat]
  BY <1>1, <1>3, ZenonT(60) DEF LimitTake, LimitInv, LimitTypeOK, Admits
<1>5. slip' \in [Key -> Nat]
  BY <1>1, SMT DEF LimitTake, LimitInv, LimitTypeOK
<1> QED BY <1>1, <1>4, <1>5, SMT DEF LimitTake, LimitInv, LimitTypeOK

\* The limiter's account goes on whatever the proxy does: each step reads the
\* clock, takes a token, lets time pass or leaves the limiter alone.
LEMMA LimitStep == LimitInv /\ (LimitNext \/ UNCHANGED limiter) => LimitInv'
<1> SUFFICES ASSUME LimitInv, LimitNext \/ UNCHANGED limiter PROVE LimitInv'
  BY Zenon
<1>1. CASE Elapse
  <2>1. LimitTypeOK' /\ Clocked'
    BY <1>1, SMT DEF Elapse, buckets, LimitInv, LimitTypeOK, Clocked
  <2>2. Untouched' /\ Account'
    BY <1>1, Zenon DEF Elapse, buckets, LimitInv, Untouched, Account, Capacity, Paid
  <2> QED BY <2>1, <2>2, Zenon DEF LimitInv
<1>2. ASSUME NEW c \in Caller, NEW k \in Key, LimitRead(c, k) PROVE LimitInv'
  <2>1. LimitTypeOK' /\ Untouched' /\ Account'
    BY <1>2, Zenon DEF LimitRead, buckets, LimitInv, LimitTypeOK, Untouched, Account, Capacity, Paid
  <2>2. Clocked'
    BY <1>2, SMT DEF LimitRead, buckets, LimitInv, LimitTypeOK, Clocked
  <2> QED BY <2>1, <2>2, Zenon DEF LimitInv
<1>3. ASSUME NEW c \in Caller, LimitTake(c) PROVE LimitInv'
  BY <1>3, TakeKeepsTypes, TakeKeepsAccount, Zenon DEF LimitInv
<1>4. CASE UNCHANGED limiter
  BY <1>4, Zenon DEF limiter, LimitInv, LimitTypeOK, Untouched, Account, Capacity, Paid, Clocked
<1> QED BY <1>1, <1>2, <1>3, <1>4, Zenon DEF LimitNext

\* The account bounds what was let through by the time that passed: a bucket was
\* last used at a time that has come.
LEMMA AccountBounds == LimitInv => GrantsBounded
<1> SUFFICES ASSUME LimitInv, NEW k \in made
             PROVE  /\ tokens[k] <= Capacity
                    /\ granted[k] * Minute + tokens[k]
                         <= Capacity + PerMinute * ((now - first[k]) + slip[k])
  BY Zenon DEF GrantsBounded
<1>1. /\ now \in Nat /\ tokens[k] \in Nat /\ granted[k] \in Nat /\ last[k] \in Nat
      /\ first[k] \in Nat /\ slip[k] \in Nat /\ last[k] <= now
  BY Zenon DEF LimitInv, LimitTypeOK, Clocked
<1>2. tokens[k] <= Capacity /\ granted[k] * Minute + tokens[k] <= Capacity + PerMinute * Paid(k)
  BY Zenon DEF LimitInv, Account
<1>3. Paid(k) \in Int /\ now - last[k] \in Nat /\ (now - first[k]) + slip[k] = Paid(k) + (now - last[k])
  BY <1>1 DEF Paid
<1>4. PerMinute * ((now - first[k]) + slip[k]) = PerMinute * Paid(k) + PerMinute * (now - last[k])
  BY <1>3, Distributes
<1>5. PerMinute * (now - last[k]) \in Nat
  BY <1>3
<1>6. PerMinute * Paid(k) \in Int /\ granted[k] * Minute \in Int
  BY <1>1, <1>3, Distributes
<1> QED BY <1>1, <1>2, <1>4, <1>5, <1>6, CapacityType, SMTT(60)

-----------------------------------------------------------------------------
\* Plugin.Handle never lets more calls through for a key than the burst and
\* the rate for the time that passed, but for the time paid twice because a
\* call with an older reading of the clock took the mutex after a later one.
THEOREM LimiterBoundsGrants == LimitSpec => []GrantsBounded
<1>1. LimitInit => LimitInv
  BY SMT DEF LimitInit, LimitInv, LimitTypeOK, Untouched, Account, Clocked
<1>2. LimitInv /\ [LimitNext]_limiter => LimitInv'
  BY LimitStep, Zenon
<1>3. LimitInv => GrantsBounded
  BY AccountBounds, Zenon
<1> QED BY <1>1, <1>2, <1>3, PTL DEF LimitSpec

-----------------------------------------------------------------------------
(* The requests.                                                           *)

\* The routes among the first n that match a request.
Candidates(f, in, n) ==
  {i \in 1..n : /\ hostMatches(Cfg[f].routes[i].hosts, in.host)
                /\ pathMatches(in.path, Cfg[f].routes[i].prefix)}

\* b is what the loop of matchRoute holds after n turns.
Best(f, in, n, b) ==
  IF Candidates(f, in, n) = {} THEN b = 0
  ELSE /\ b \in Candidates(f, in, n)
       /\ \A i \in Candidates(f, in, n) :
            /\ PrefixLen(Cfg[f].routes[i].prefix) <= PrefixLen(Cfg[f].routes[b].prefix)
            /\ PrefixLen(Cfg[f].routes[i].prefix) = PrefixLen(Cfg[f].routes[b].prefix) => b <= i

\* The variables of a request are functions on the callers, and the file in
\* force was accepted.
Shape ==
  /\ file \in File /\ ValidateProxy(cfg) /\ live \subseteq {s.id : s \in Session}
  /\ pc \in [Caller -> Steps]
  /\ DOMAIN req = Caller /\ scan \in [Caller -> Nat] /\ route \in [Caller -> Nat]
  /\ who \in [Caller -> Session \cup {Nobody}] /\ proven \in [Caller -> BOOLEAN]
  /\ DOMAIN out = Caller

\* A request past its arrival is one a client sent; in the loop it has the best
\* route so far, later the best of all, and 0 only if it was answered 404.
Routing(r) ==
  /\ pc[r] # "idle" => req[r] \in Input
  /\ pc[r] = "match" => /\ scan[r] \in 1..Len(cfg.routes) + 1
                        /\ Best(file, req[r], scan[r] - 1, route[r])
  /\ pc[r] \notin {"idle", "match"} => Best(file, req[r], Len(cfg.routes), route[r])
  /\ route[r] = 0 => /\ pc[r] \in {"idle", "match", "done"}
                     /\ pc[r] = "done" => out[r].status = 404 /\ ~Reached(r)

\* Nothing is answered before the end, and a refusal is said.
Answering(r) ==
  /\ DOMAIN out[r] = DOMAIN Nothing
  /\ pc[r] # "done" => out[r] = Nothing
  /\ pc[r] = "done" /\ ~Reached(r) =>
       \/ out[r].status >= 300
       \/ ~out[r].by.allow /\ ~out[r].by.err /\ out[r].by.status < 300
       \/ out[r].by.allow /\ cfg.private

\* Where a route requires it, only somebody passes the resolver.
Guarding(r) ==
  /\ pc[r] \in {"pipeline", "take", "policy"} => (RouteOf(r).requireAuth => who[r] # Nobody)
  /\ Reached(r) =>
       /\ out[r].upstream = RouteOf(r).id
       /\ RouteOf(r).requireAuth => who[r] # Nobody
       /\ out[r].identity = IF who[r].subject # "" THEN who[r].subject ELSE out[r].by.identity
       /\ RouteOf(r).upstream.path \in {<<>>, Root} => out[r].path = req[r].path
       /\ out[r].size # req[r].body.size => out[r].size = MaxBody /\ req[r].body.size > MaxBody

\* What an upstream runs is allowed, or the client named another, or the policy
\* allows what has no name.
Naming(r) ==
  Reached(r) => out[r].ops \subseteq Allowed \/ req[r].opHeader # "" \/ "" \in Allowed

\* Until it was asked the auth server recognises nobody.
Recognising(r) ==
  /\ pc[r] \in {"idle", "match", "resolve"} => ~proven[r] /\ who[r] = Nobody
  /\ (\A f \in File : Cfg[f].cookie = connectorCookie(auth, "")) =>
       (proven[r] /\ RouteOf(r).connector = "" => who[r] # Nobody)

\* The key a request is limited by is that of its session and what it sent.
KeyOf(r) == deriveKey(Strategy, who[r].subject, req[r])
Keying(r) ==
  /\ (pc[r] = "take") <=> (key[r] # NoKey)
  /\ pc[r] = "take" => key[r] = KeyOf(r)

Local(r) == Routing(r) /\ Answering(r) /\ Guarding(r) /\ Naming(r) /\ Recognising(r) /\ Keying(r)

\* The requests of a key that the limiter let through.
Through(k) == {r \in Caller : (pc[r] = "policy" \/ Reached(r)) /\ KeyOf(r) = k}
Counted == Limiting => \A k \in Key : Cardinality(Through(k)) <= granted[k]

GateInv == LimitInv /\ Shape /\ (\A r \in Caller : Local(r)) /\ Counted

\* The routes of an accepted file, as matchRoute meets them.
LEMMA RoutesOK ==
  ASSUME NEW f \in File, ValidateProxy(Cfg[f])
  PROVE  /\ Len(Cfg[f].routes) \in Nat /\ DOMAIN Cfg[f].routes = 1..Len(Cfg[f].routes)
         /\ \A i \in DOMAIN Cfg[f].routes :
              /\ Cfg[f].routes[i].prefix \in Seq(STRING) /\ Cfg[f].routes[i].prefix # <<>>
              /\ Cfg[f].routes[i].requireAuth \in BOOLEAN /\ Cfg[f].routes[i].id # ""
              /\ Cfg[f].private \/ validateUpstreamSSRF(Cfg[f].routes[i].upstream)
         /\ Cfg[f].private \in BOOLEAN
<1>1. Cfg[f].routes \in Seq(Range(Cfg[f].routes)) /\ Cfg[f].private \in BOOLEAN
  BY GateAssumption, Zenon
<1>2. Len(Cfg[f].routes) \in Nat /\ DOMAIN Cfg[f].routes = 1..Len(Cfg[f].routes)
  BY <1>1, SMT
<1>3. \A i \in DOMAIN Cfg[f].routes : ValidRoute(Cfg[f], Cfg[f].routes[i])
  BY Zenon DEF ValidateProxy, validateRoutes
<1>4. ASSUME NEW i \in DOMAIN Cfg[f].routes
      PROVE  /\ Cfg[f].routes[i].prefix \in Seq(STRING) /\ Cfg[f].routes[i].prefix # <<>>
             /\ Cfg[f].routes[i].requireAuth \in BOOLEAN /\ Cfg[f].routes[i].id # ""
             /\ Cfg[f].private \/ validateUpstreamSSRF(Cfg[f].routes[i].upstream)
  BY <1>3, GateAssumption, Zenon DEF ValidRoute
<1> QED BY <1>1, <1>2, <1>4, Zenon

\* The length of a sequence is a number, and 0 only of the empty one.
LEMMA SeqLength ==
  ASSUME NEW S, NEW s \in Seq(S)
  PROVE  Len(s) \in Nat /\ (s # <<>> => Len(s) # 0)
BY SMT

\* PrefixLen is a number.
LEMMA PrefixLenType == ASSUME NEW p \in Seq(STRING) PROVE PrefixLen(p) \in Nat
BY SMT DEF PrefixLen

\* Two prefixes of one path that are equally long are one.
LEMMA PrefixesOfOnePath ==
  ASSUME NEW p \in Seq(STRING), NEW q \in Seq(STRING), NEW path,
         HasPrefix(path, p), HasPrefix(path, q), Len(p) = Len(q)
  PROVE  p = q
BY Zenon DEF HasPrefix

\* One turn of the loop of matchRoute keeps the best route so far.
LEMMA TurnKeepsBest ==
  ASSUME NEW f \in File, ValidateProxy(Cfg[f]), NEW in,
         NEW n \in 1..Len(Cfg[f].routes), NEW b \in Nat, Best(f, in, n - 1, b)
  PROVE  Best(f, in, n, matchRoute(Cfg[f].routes, b, n, in.host, in.path))
<1> DEFINE L(i) == PrefixLen(Cfg[f].routes[i].prefix)
           M(i) == /\ hostMatches(Cfg[f].routes[i].hosts, in.host)
                   /\ pathMatches(in.path, Cfg[f].routes[i].prefix)
           old == Candidates(f, in, n - 1)
           new == Candidates(f, in, n)
           c == matchRoute(Cfg[f].routes, b, n, in.host, in.path)
<1>1. \A i \in 1..Len(Cfg[f].routes) : L(i) \in Nat
  BY RoutesOK, PrefixLenType, Zenon
<1>2. n \in Nat \ {0} /\ n <= Len(Cfg[f].routes) /\ Len(Cfg[f].routes) \in Nat
  <2>1. Len(Cfg[f].routes) \in Nat
    BY RoutesOK, Zenon
  <2> QED BY <2>1
<1>3. old = {i \in 1..(n - 1) : M(i)} /\ new = {i \in 1..n : M(i)}
  BY Zenon DEF Candidates
<1>4. c = IF M(n) /\ (b = 0 \/ L(n) > L(b)) THEN n ELSE b
  BY Zenon DEF matchRoute
<1>5. IF old = {} THEN b = 0
      ELSE b \in old /\ \A i \in old : L(i) <= L(b) /\ (L(i) = L(b) => b <= i)
  BY Zenon DEF Best
<1>6. SUFFICES IF new = {} THEN c = 0
               ELSE c \in new /\ \A i \in new : L(i) <= L(c) /\ (L(i) = L(c) => c <= i)
  BY Zenon DEF Best
<1> HIDE DEF L, M, old, new, c
<1>7. \A i : i \in new <=> i \in old \/ (i = n /\ M(n))
  BY <1>2, <1>3
<1>8. \A i \in old : i \in 1..(n - 1) /\ L(i) \in Nat
  BY <1>1, <1>2, <1>3
<1>9. CASE ~M(n)
  BY <1>4, <1>5, <1>7, <1>9, ZenonT(60)
<1>10. CASE M(n) /\ b = 0
  <2>1. old = {} /\ c = n /\ new = {n}
    BY <1>4, <1>5, <1>7, <1>8, <1>10
  <2> QED BY <1>1, <1>2, <2>1
<1>11. CASE M(n) /\ b # 0
  <2>1. b \in old /\ \A i \in old : L(i) <= L(b) /\ (L(i) = L(b) => b <= i)
    BY <1>5, <1>11, Zenon
  <2>2. L(n) \in Nat /\ L(b) \in Nat
    BY <1>1, <1>2, <1>8, <2>1, ZenonT(60)
  <2>3. CASE L(n) > L(b)
    <3>1. c = n /\ n \in new
      BY <1>4, <1>7, <1>11, <2>3, Zenon
    <3>2. ASSUME NEW i \in new PROVE L(i) <= L(n) /\ (L(i) = L(n) => n <= i)
      <4>1. CASE i = n
        BY <1>2, <2>2, <4>1
      <4>2. CASE i \in old
        BY <1>8, <2>1, <2>2, <2>3, <4>2
      <4> QED BY <1>7, <4>1, <4>2, Zenon
    <3> QED BY <3>1, <3>2, Zenon
  <2>4. CASE ~(L(n) > L(b))
    <3>1. c = b /\ b \in new
      BY <1>4, <1>7, <1>11, <2>1, <2>4, Zenon
    <3>2. ASSUME NEW i \in new PROVE L(i) <= L(b) /\ (L(i) = L(b) => b <= i)
      <4>1. CASE i = n
        BY <1>2, <1>8, <2>1, <2>2, <2>4, <4>1, SMTT(60)
      <4>2. CASE i \in old
        BY <2>1, <4>2, Zenon
      <4> QED BY <1>7, <4>1, <4>2, ZenonT(60)
    <3> QED BY <3>1, <3>2, Zenon
  <2> QED BY <2>3, <2>4, Zenon
<1> QED BY <1>9, <1>10, <1>11, Zenon

\* Sequences of one and of two elements.
LEMMA ShortSeqs ==
  ASSUME NEW S, NEW a \in S, NEW b \in S
  PROVE  /\ <<a>> \in Seq(S) /\ Len(<<a>>) = 1 /\ <<a>>[1] = a
         /\ <<a, b>> \in Seq(S) /\ Len(<<a, b>>) = 2 /\ <<a, b>>[1] = a /\ <<a, b>>[2] = b
OBVIOUS

LEMMA SingletonSeq ==
  ASSUME NEW S, NEW s \in Seq(S), Len(s) = 1
  PROVE  s = <<s[1]>>
<1>1. s[1] \in S
  OBVIOUS
<1>2. <<s[1]>> \in Seq(S) /\ Len(<<s[1]>>) = 1 /\ <<s[1]>>[1] = s[1]
  BY <1>1, ShortSeqs, Zenon
<1>3. ASSUME NEW i \in 1..1 PROVE s[i] = <<s[1]>>[i]
  <2>1. i = 1
    OBVIOUS
  <2> QED BY <1>2, <2>1, Zenon
<1> QED BY <1>2, <1>3, SMT

LEMMA FrontOfPair ==
  ASSUME NEW S, NEW s \in Seq(S), Len(s) = 2
  PROVE  LET front == SubSeq(s, 1, Len(s) - 1) IN
         front \in Seq(S) /\ Len(front) = 1 /\ front[1] = s[1] /\ s[Len(s)] = s[2]
OBVIOUS

\* "/" is a slash and nothing after it.
LEMMA RootParts == Root[Len(Root)] = "" /\ SubSeq(Root, 1, Len(Root) - 1) = <<"">> /\ Root # <<>>
<1> DEFINE front == SubSeq(Root, 1, Len(Root) - 1)
<1>1. Root # <<>>
  BY Zenon DEF Root
<1>2. Root \in Seq({""}) /\ Len(Root) = 2 /\ Root[1] = "" /\ Root[2] = ""
  <2>1. "" \in {""}
    BY Zenon
  <2> QED BY <2>1, ShortSeqs, Zenon DEF Root
<1>3. front \in Seq({""}) /\ Len(front) = 1 /\ front[1] = "" /\ Root[Len(Root)] = ""
  BY <1>2, FrontOfPair, Zenon
<1>4. front = <<front[1]>>
  BY <1>3, SingletonSeq, Zenon
<1> QED BY <1>1, <1>3, <1>4, Zenon

\* A base path that is empty or "/" leaves a path as it is.
LEMMA NoBasePath ==
  ASSUME NEW base \in {<<>>, Root}, NEW path
  PROVE  UpstreamPath(base, path) = path
<1>1. JoinPath(<<>>, path) = path
  BY Zenon DEF JoinPath
<1>2. Root[Len(Root)] = "" /\ SubSeq(Root, 1, Len(Root) - 1) = <<"">> /\ Root # <<>>
  BY RootParts, Zenon
<1>3. JoinPath(Root, path) = path
  BY <1>2, Zenon DEF JoinPath
<1> QED BY <1>1, <1>3, Zenon DEF UpstreamPath


-----------------------------------------------------------------------------
\* An answer with nothing but a status.
LEMMA NothingHasFields ==
  /\ DOMAIN Nothing = {"status", "upstream", "identity", "path", "size", "ops", "by"}
  /\ Nothing.upstream = "" /\ Nothing.status = 0
BY Zenon DEF Nothing

\* A reply that only sets the status.
LEMMA OnlyStatus ==
  ASSUME NEW r \in Caller, DOMAIN out = Caller, out[r] = Nothing, NEW st,
         out' = [out EXCEPT ![r].status = st]
  PROVE  out'[r].status = st /\ out'[r].upstream = "" /\ DOMAIN out'[r] = DOMAIN Nothing
<1>1. out'[r] = [Nothing EXCEPT !.status = st]
  BY Zenon
<1> QED BY <1>1, NothingHasFields, Zenon

\* A request that has a route and no answer yet.
LEMMA Pending ==
  ASSUME GateInv, NEW r \in Caller, pc[r] \in {"resolve", "pipeline", "take", "policy"}
  PROVE  /\ file \in File /\ ValidateProxy(Cfg[file]) /\ Local(r)
         /\ Best(file, req[r], Len(cfg.routes), route[r]) /\ req[r] \in Input
         /\ route[r] # 0 /\ out[r] = Nothing /\ DOMAIN out = Caller
         /\ pc[r] # "take" => key[r] = NoKey
         /\ pc[r] = "resolve" => ~proven[r] /\ who[r] = Nobody
         /\ pc[r] # "resolve" => (RouteOf(r).requireAuth => who[r] # Nobody)
<1>1. file \in File /\ ValidateProxy(Cfg[file]) /\ Local(r) /\ DOMAIN out = Caller
  BY Zenon DEF GateInv, Shape, cfg
<1>2. Best(file, req[r], Len(cfg.routes), route[r]) /\ req[r] \in Input /\ route[r] # 0
  BY <1>1, ZenonT(60) DEF Local, Routing
<1>3. out[r] = Nothing
  BY <1>1, Zenon DEF Local, Answering
<1>4. pc[r] # "take" => key[r] = NoKey
  BY <1>1, Zenon DEF Local, Keying
<1>5. pc[r] = "resolve" => ~proven[r] /\ who[r] = Nobody
  BY <1>1, Zenon DEF Local, Recognising
<1>6. pc[r] # "resolve" => (RouteOf(r).requireAuth => who[r] # Nobody)
  BY <1>1, Zenon DEF Local, Guarding
<1> QED BY <1>1, <1>2, <1>3, <1>4, <1>5, <1>6, ZenonT(60)

\* A step of a request leaves the others alone.
Same(q) ==
  /\ pc'[q] = pc[q] /\ req'[q] = req[q] /\ scan'[q] = scan[q] /\ route'[q] = route[q]
  /\ who'[q] = who[q] /\ proven'[q] = proven[q] /\ out'[q] = out[q] /\ key'[q] = key[q]
Moves(r) == Shape' /\ file' = file /\ \A q \in Caller \ {r} : Same(q)

\* What holds of a request that is left alone goes on holding.
LEMMA SameKeeps ==
  ASSUME NEW q \in Caller, Same(q), file' = file, Local(q)
  PROVE  Local(q)'
<1>1. cfg' = cfg
  BY Zenon DEF cfg
<1>2. Reached(q)' <=> Reached(q)
  BY Zenon DEF Same, Reached
<1>3. RouteOf(q)' = RouteOf(q) /\ KeyOf(q)' = KeyOf(q)
  <2>1. RouteOf(q)' = RouteOf(q)
    BY <1>1, Zenon DEF Same, RouteOf
  <2>2. KeyOf(q)' = KeyOf(q)
    BY Zenon DEF Same, KeyOf
  <2> QED BY <2>1, <2>2
<1>4. Routing(q)'
  <2>1. /\ pc'[q] = pc[q] /\ req'[q] = req[q] /\ scan'[q] = scan[q] /\ route'[q] = route[q]
        /\ out'[q] = out[q]
    BY Zenon DEF Same
  <2>2. Routing(q)
    BY Zenon DEF Local
  <2> QED BY <1>1, <1>2, <2>1, <2>2, ZenonT(60) DEF Routing
<1>5. Answering(q)'
  BY <1>1, <1>2, ZenonT(60) DEF Same, Local, Answering
<1>6. Guarding(q)'
  BY <1>2, <1>3, Zenon DEF Same, Local, Guarding
<1>7. Naming(q)'
  BY <1>2, Zenon DEF Same, Local, Naming
<1>8. Recognising(q)'
  BY <1>3, Zenon DEF Same, Local, Recognising
<1>9. Keying(q)'
  BY <1>3, Zenon DEF Same, Local, Keying
<1> QED BY <1>4, <1>5, <1>6, <1>7, <1>8, <1>9, ZenonT(60) DEF Local

\* The start of a request: handleProxy begins to look for its route.
LEMMA ArriveKeeps ==
  ASSUME GateInv, NEW r \in Caller, NEW in \in Input, Arrive(r, in)
  PROVE  Moves(r) /\ Local(r)'
<1>1. Moves(r)
  BY Zenon DEF GateInv, Shape, Arrive, Goto, limiter, Moves, Same, Steps, cfg
<1>2. /\ pc[r] = "idle" /\ pc'[r] = "match" /\ req'[r] = in /\ scan'[r] = 1 /\ route'[r] = 0
      /\ out' = out /\ file' = file /\ who' = who /\ proven' = proven /\ key' = key
  BY Zenon DEF GateInv, Shape, Arrive, Goto, limiter
<1>3. Local(r) /\ out[r] = Nothing
  BY <1>2, Zenon DEF GateInv, Local, Answering
<1>4. ~Reached(r)'
  BY <1>2, <1>3, NothingHasFields, ZenonT(60) DEF Reached
<1>5. Best(file, in, 0, 0)
  BY DEF Best, Candidates
<1>6. Len(cfg.routes) \in Nat
  BY RoutesOK, ZenonT(60) DEF GateInv, Shape, cfg
<1>7. Routing(r)'
  <2>1. cfg' = cfg
    BY <1>2, Zenon DEF cfg
  <2> QED BY <1>2, <1>4, <1>5, <1>6, <2>1, SMTT(60) DEF Routing
<1>8. Answering(r)'
  BY <1>2, <1>3, Zenon DEF Answering
<1>9. Guarding(r)' /\ Naming(r)'
  BY <1>2, <1>4, Zenon DEF Guarding, Naming
<1>10. Recognising(r)'
  BY <1>2, <1>3, Zenon DEF Local, Recognising
<1>11. Keying(r)'
  BY <1>2, <1>3, Zenon DEF Local, Keying
<1> QED BY <1>1, <1>7, <1>8, <1>9, <1>10, <1>11, ZenonT(60) DEF Local

\* A turn of the loop.
LEMMA MatchKeeps ==
  ASSUME GateInv, NEW r \in Caller, Match(r)
  PROVE  Moves(r) /\ Local(r)'
<1> DEFINE c == matchRoute(cfg.routes, route[r], scan[r], req[r].host, req[r].path)
<1>1. /\ file \in File /\ ValidateProxy(Cfg[file]) /\ Local(r)
      /\ scan[r] \in 1..Len(cfg.routes) /\ route[r] \in Nat /\ pc[r] = "match"
      /\ Best(file, req[r], scan[r] - 1, route[r]) /\ Len(cfg.routes) \in Nat
  <2>1. file \in File /\ ValidateProxy(Cfg[file]) /\ Local(r) /\ pc[r] = "match" /\ route[r] \in Nat
    BY Zenon DEF GateInv, Shape, Match, cfg
  <2>2. Len(cfg.routes) \in Nat
    BY <2>1, RoutesOK, Zenon DEF cfg
  <2>3. scan[r] \in 1..Len(cfg.routes) + 1 /\ scan[r] <= Len(cfg.routes)
    BY <2>1, Zenon DEF Local, Routing, Match
  <2>4. Best(file, req[r], scan[r] - 1, route[r])
    BY <2>1, Zenon DEF Local, Routing
  <2> QED BY <2>1, <2>2, <2>3, <2>4, SMTT(60)
<1>2. Best(file, req[r], scan[r], c)
  BY <1>1, TurnKeepsBest, ZenonT(60) DEF cfg
<1>3. c \in Nat
  BY <1>1, SMTT(30) DEF matchRoute
<1> HIDE DEF c
<1>4. /\ pc' = pc /\ req' = req /\ scan'[r] = scan[r] + 1 /\ route'[r] = c
      /\ out' = out /\ file' = file /\ who' = who /\ proven' = proven /\ key' = key
  BY ZenonT(60) DEF GateInv, Shape, Match, limiter, c
<1>5. Moves(r)
  <2>1. Shape /\ scan \in [Caller -> Nat] /\ route \in [Caller -> Nat]
    BY Zenon DEF GateInv, Shape
  <2>2. /\ scan' = [scan EXCEPT ![r] = scan[r] + 1] /\ route' = [route EXCEPT ![r] = c]
        /\ UNCHANGED <<limiter, file, live, pc, req, who, proven, out>>
    BY Zenon DEF Match, c
  <2>3. scan[r] + 1 \in Nat
    BY <2>1
  <2>4. scan' \in [Caller -> Nat] /\ route' \in [Caller -> Nat]
    BY <1>3, <2>1, <2>2, <2>3, Zenon
  <2>5. Shape'
    BY <2>1, <2>2, <2>4, Zenon DEF Shape, cfg
  <2>6. \A q \in Caller \ {r} : scan'[q] = scan[q] /\ route'[q] = route[q]
    BY <2>1, <2>2, Zenon
  <2>7. \A q \in Caller \ {r} : Same(q)
    BY <2>2, <2>6, Zenon DEF Same, limiter
  <2> QED BY <2>2, <2>5, <2>7, Zenon DEF Moves
<1>6. out[r] = Nothing /\ ~Reached(r)'
  <2>1. out[r] = Nothing
    BY <1>1, Zenon DEF Local, Answering
  <2> QED BY <1>4, <2>1, NothingHasFields, Zenon DEF Reached
<1>7. Routing(r)'
  <2>1. cfg' = cfg
    BY <1>4, Zenon DEF cfg
  <2>2. scan'[r] \in 1..Len(cfg.routes) + 1 /\ scan'[r] - 1 = scan[r]
    BY <1>1, <1>4, SMTT(30)
  <2>3. pc'[r] = "match" /\ req'[r] = req[r] /\ req[r] \in Input
    BY <1>1, <1>4, Zenon DEF Local, Routing
  <2> QED BY <1>2, <1>4, <2>1, <2>2, <2>3, Zenon DEF Routing
<1>8. Answering(r)'
  BY <1>1, <1>4, <1>6, Zenon DEF Local, Answering
<1>9. Guarding(r)' /\ Naming(r)'
  BY <1>1, <1>4, <1>6, Zenon DEF Guarding, Naming
<1>10. Recognising(r)'
  BY <1>1, <1>4, Zenon DEF Local, Recognising
<1>11. Keying(r)'
  BY <1>1, <1>4, ZenonT(60) DEF Local, Keying
<1> QED BY <1>5, <1>7, <1>8, <1>9, <1>10, <1>11, ZenonT(60) DEF Local

\* The end of the loop: a 404, or the request goes on with its route.
LEMMA MatchedKeeps ==
  ASSUME GateInv, NEW r \in Caller, Matched(r)
  PROVE  Moves(r) /\ Local(r)'
<1>1. /\ file \in File /\ ValidateProxy(Cfg[file]) /\ Local(r) /\ pc[r] = "match"
      /\ scan[r] \in 1..Len(cfg.routes) + 1 /\ scan[r] > Len(cfg.routes) /\ Len(cfg.routes) \in Nat
      /\ Best(file, req[r], scan[r] - 1, route[r]) /\ req[r] \in Input
  BY RoutesOK, ZenonT(60) DEF GateInv, Shape, Matched, Local, Routing, cfg
<1>2. scan[r] - 1 = Len(cfg.routes)
  BY <1>1
<1>3. /\ req' = req /\ route' = route /\ file' = file /\ who' = who /\ proven' = proven /\ key' = key
      /\ IF route[r] = 0 THEN pc'[r] = "done" /\ out'[r] = [out[r] EXCEPT !.status = 404]
         ELSE pc'[r] = "resolve" /\ out'[r] = out[r]
  BY SMT DEF GateInv, Shape, Matched, Goto, Reply, limiter
<1>4. Moves(r)
  <2>1. /\ scan' = [scan EXCEPT ![r] = 0] /\ live' = live
        /\ \/ pc' = [pc EXCEPT ![r] = "done"] /\ out' = [out EXCEPT ![r].status = 404]
           \/ pc' = [pc EXCEPT ![r] = "resolve"] /\ out' = out
    BY Zenon DEF Matched, Goto, Reply, limiter
  <2> QED BY <1>3, <2>1, SMT DEF GateInv, Shape, Moves, Same, Steps, cfg
<1>5. out[r] = Nothing
  BY <1>1, Zenon DEF Local, Answering
<1>6. /\ ~Reached(r)' /\ DOMAIN out'[r] = DOMAIN Nothing
      /\ IF route[r] = 0 THEN out'[r].status = 404 ELSE out'[r] = Nothing
  <2>1. CASE route[r] = 0
    <3>1. out'[r] = [Nothing EXCEPT !.status = 404]
      BY <1>3, <1>5, <2>1, Zenon
    <3>2. out'[r].status = 404 /\ out'[r].upstream = "" /\ DOMAIN out'[r] = DOMAIN Nothing
      <4> DEFINE st == 404
      <4>1. SUFFICES out'[r].status = st /\ out'[r].upstream = "" /\ DOMAIN out'[r] = DOMAIN Nothing
        BY Zenon
      <4>2. out'[r] = [Nothing EXCEPT !.status = st]
        BY <3>1, Zenon
      <4> HIDE DEF st
      <4> QED BY <4>2, NothingHasFields, Zenon
    <3> QED BY <2>1, <3>2, Zenon DEF Reached
  <2>2. CASE route[r] # 0
    BY <1>3, <1>5, <2>2, NothingHasFields, Zenon DEF Reached
  <2> QED BY <2>1, <2>2, Zenon
<1>7. Routing(r)'
  <2>1. cfg' = cfg
    BY <1>3, Zenon DEF cfg
  <2> QED BY <1>1, <1>2, <1>3, <1>6, <2>1, ZenonT(60) DEF Routing
<1>8. Answering(r)'
  BY <1>3, <1>6 DEF Answering
<1>9. Guarding(r)' /\ Naming(r)'
  BY <1>3, <1>6, ZenonT(60) DEF Guarding, Naming
<1>10. Recognising(r)'
  <2>1. ~proven[r] /\ who[r] = Nobody
    BY <1>1, Zenon DEF Local, Recognising
  <2> QED BY <1>3, <2>1, Zenon DEF Recognising
<1>11. Keying(r)'
  <2>1. key[r] = NoKey /\ pc'[r] # "take"
    BY <1>1, <1>3, Zenon DEF Local, Keying
  <2> QED BY <1>3, <2>1, Zenon DEF Keying
<1> QED BY <1>4, <1>7, <1>8, <1>9, <1>10, <1>11, Zenon DEF Local


\* On a route of the default connector the resolver sends the cookie that the
\* auth server reads.
LEMMA DefaultCookieSent ==
  ASSUME NEW r, cfg.cookie = connectorCookie(auth, ""), RouteOf(r).connector = "",
         Holder(req[r].cookies, RouteOf(r).connector) # {}
  PROVE  Holder(Sent(r), RouteOf(r).connector) # {}
<1>1. PICK s \in Session : s \in Holder(req[r].cookies, "")
  BY Zenon DEF Holder
<1> DEFINE c == [name |-> cfg.cookie, value |-> s.id]
<1>2. c \in req[r].cookies
  BY <1>1, Zenon DEF Holder
<1>3. c.name = connectorCookieName(cfg, RouteOf(r).connector) /\ c.value = s.id
  BY Zenon DEF connectorCookieName
<1>4. [name |-> cfg.cookie, value |-> c.value] \in Sent(r)
  BY <1>2, <1>3, Zenon DEF Sent
<1>5. [name |-> connectorCookie(auth, ""), value |-> s.id] \in Sent(r)
  BY <1>3, <1>4, Zenon
<1>6. s \in Holder(Sent(r), "")
  BY <1>1, <1>5, ZenonT(60) DEF Holder
<1> QED BY <1>6, Zenon

\* The answer of the auth server.
LEMMA ResolveKeeps ==
  ASSUME GateInv, NEW r \in Caller, Resolve(r)
  PROVE  Moves(r) /\ Local(r)'
<1> DEFINE found == Holder(Sent(r), RouteOf(r).connector)
           shown == Holder(req[r].cookies, RouteOf(r).connector) # {}
           rt == RouteOf(r)
           st == IF RouteOf(r).mode = "html_redirect" THEN 302 ELSE 401
<1>1. /\ file \in File /\ ValidateProxy(Cfg[file]) /\ Local(r) /\ pc[r] = "resolve"
      /\ Best(file, req[r], Len(cfg.routes), route[r]) /\ req[r] \in Input
      /\ route[r] # 0 /\ out[r] = Nothing /\ key[r] = NoKey /\ who[r] = Nobody
  <2>1. pc[r] = "resolve"
    BY Zenon DEF Resolve
  <2> QED BY <2>1, Pending, Zenon
<1>2. found \subseteq Session
  BY Zenon DEF Holder
<1>3. shown \in BOOLEAN
  BY Zenon
<1>4. /\ proven' = [proven EXCEPT ![r] = shown]
      /\ req' = req /\ scan' = scan /\ route' = route /\ file' = file /\ live' = live
      /\ key' = key
      /\ \/ /\ found = {} /\ rt.requireAuth /\ who' = who /\ pc' = [pc EXCEPT ![r] = "done"]
            /\ out' = [out EXCEPT ![r].status = st]
         \/ found = {} /\ ~rt.requireAuth /\ who' = who /\ pc' = [pc EXCEPT ![r] = "pipeline"] /\ out' = out
         \/ /\ found # {} /\ \E s \in found : who' = [who EXCEPT ![r] = s]
            /\ pc' = [pc EXCEPT ![r] = "pipeline"] /\ out' = out
  <2>1. /\ proven' = [proven EXCEPT ![r] = shown]
        /\ UNCHANGED <<limiter, file, live, req, scan, route>>
    BY Zenon DEF Resolve
  <2>2. /\ found = {} /\ rt.requireAuth => who' = who /\ Reply(r, st)
        /\ found = {} /\ ~rt.requireAuth => who' = who /\ Goto(r, "pipeline") /\ out' = out
        /\ found # {} => /\ \E s \in found : who' = [who EXCEPT ![r] = s]
                         /\ Goto(r, "pipeline") /\ out' = out
    BY Zenon DEF Resolve
  <2> HIDE DEF found, shown, rt, st
  <2>3. key' = key
    BY <2>1, Zenon DEF limiter
  <2>4. CASE found # {}
    BY <2>1, <2>2, <2>3, <2>4, Zenon DEF Goto
  <2>5. CASE found = {} /\ rt.requireAuth
    BY <2>1, <2>2, <2>3, <2>5, Zenon DEF Goto, Reply
  <2>6. CASE found = {} /\ ~rt.requireAuth
    BY <2>1, <2>2, <2>3, <2>6, Zenon DEF Goto
  <2> QED BY <2>4, <2>5, <2>6, Zenon
<1>5. (\A f \in File : Cfg[f].cookie = connectorCookie(auth, "")) /\ rt.connector = "" /\ shown
        => found # {}
  BY <1>1, DefaultCookieSent, Zenon DEF cfg
<1>6. st >= 300
  OBVIOUS
<1> HIDE DEF found, shown, rt, st
<1>7. Moves(r)
  BY <1>2, <1>3, <1>4, SMT DEF GateInv, Shape, Moves, Same, Steps, cfg
<1>8. /\ proven'[r] = shown
      /\ \/ found = {} /\ rt.requireAuth /\ who'[r] = Nobody /\ pc'[r] = "done" /\ out'[r].status >= 300
         \/ /\ found = {} => ~rt.requireAuth /\ who'[r] = Nobody
            /\ found # {} => who'[r] # Nobody
            /\ pc'[r] = "pipeline" /\ out'[r] = Nothing
      /\ out'[r].upstream = "" /\ DOMAIN out'[r] = DOMAIN Nothing
  <2>1. proven'[r] = shown
    BY <1>4, Zenon DEF GateInv, Shape
  <2>2. CASE found = {} /\ rt.requireAuth
    <3>1. DOMAIN out = Caller /\ out[r] = Nothing /\ out' = [out EXCEPT ![r].status = st]
      BY <1>1, <1>4, <2>2, Zenon DEF GateInv, Shape
    <3>2. out'[r].status = st /\ out'[r].upstream = "" /\ DOMAIN out'[r] = DOMAIN Nothing
      BY <3>1, OnlyStatus, Zenon
    <3>3. out'[r].status >= 300 /\ out'[r].upstream = "" /\ DOMAIN out'[r] = DOMAIN Nothing
      BY <1>6, <3>2, Zenon
    <3>4. who'[r] = Nobody /\ pc'[r] = "done"
      BY <1>1, <1>4, <2>2, Zenon DEF GateInv, Shape
    <3> QED BY <2>1, <2>2, <3>3, <3>4, Zenon
  <2>3. CASE found = {} /\ ~rt.requireAuth
    <3>1. who'[r] = Nobody /\ pc'[r] = "pipeline" /\ out'[r] = Nothing
      BY <1>1, <1>4, <2>3, Zenon DEF GateInv, Shape
    <3> QED BY <2>1, <2>3, <3>1, NothingHasFields, Zenon
  <2>4. CASE found # {}
    <3>1. PICK s \in found : who' = [who EXCEPT ![r] = s]
      BY <1>4, <2>4, Zenon
    <3>2. who'[r] = s /\ s # Nobody
      BY <1>2, <3>1, GateAssumption, Zenon DEF GateInv, Shape
    <3>3. pc'[r] = "pipeline" /\ out'[r] = Nothing
      BY <1>1, <1>4, <2>4, Zenon DEF GateInv, Shape
    <3> QED BY <2>1, <2>4, <3>2, <3>3, NothingHasFields, Zenon
  <2> QED BY <2>2, <2>3, <2>4, Zenon
<1>9. ~Reached(r)' /\ cfg' = cfg /\ RouteOf(r)' = rt
  BY <1>4, <1>8, Zenon DEF Reached, cfg, RouteOf, rt
<1>10. Routing(r)'
  BY <1>1, <1>4, <1>8, <1>9, Zenon DEF Routing
<1>11. Answering(r)'
  BY <1>8, Zenon DEF Answering
<1>12. Guarding(r)' /\ Naming(r)'
  BY <1>8, <1>9, Zenon DEF Guarding, Naming
<1>13. Recognising(r)'
  BY <1>5, <1>8, <1>9, Zenon DEF Recognising
<1>14. Keying(r)'
  BY <1>1, <1>4, <1>8, Zenon DEF Keying
<1> QED BY <1>7, <1>10, <1>11, <1>12, <1>13, <1>14, Zenon DEF Local

\* The auth server gives no answer.
LEMMA ResolveFailsKeeps ==
  ASSUME GateInv, NEW r \in Caller, ResolveFails(r)
  PROVE  Moves(r) /\ Local(r)'
<1>1. /\ file \in File /\ ValidateProxy(Cfg[file]) /\ Local(r) /\ pc[r] = "resolve"
      /\ Best(file, req[r], Len(cfg.routes), route[r]) /\ req[r] \in Input
      /\ route[r] # 0 /\ out[r] = Nothing /\ key[r] = NoKey /\ who[r] = Nobody /\ ~proven[r]
  <2>1. pc[r] = "resolve"
    BY Zenon DEF ResolveFails
  <2> QED BY <2>1, Pending, Zenon
<1>2. /\ proven' = proven /\ req' = req /\ scan' = scan /\ route' = route /\ file' = file
      /\ live' = live /\ key' = key /\ who' = who /\ pc' = [pc EXCEPT ![r] = "done"]
      /\ out' = [out EXCEPT ![r].status = 502]
  BY Zenon DEF ResolveFails, Goto, Reply, limiter
<1>3. Moves(r)
  BY <1>2, Zenon DEF GateInv, Shape, Moves, Same, Steps, cfg
<1>4. pc'[r] = "done" /\ out'[r] = [Nothing EXCEPT !.status = 502]
  BY <1>1, <1>2, ZenonT(60) DEF GateInv, Shape
<1>5. out'[r].status >= 300 /\ out'[r].upstream = "" /\ DOMAIN out'[r] = DOMAIN Nothing
  <2> DEFINE st == 502
  <2>1. out'[r] = [Nothing EXCEPT !.status = st] /\ st >= 300
    BY <1>4
  <2> HIDE DEF st
  <2>2. out'[r].status = st /\ out'[r].upstream = "" /\ DOMAIN out'[r] = DOMAIN Nothing
    BY <2>1, NothingHasFields, Zenon
  <2> QED BY <2>1, <2>2, Zenon
<1>6. ~Reached(r)' /\ cfg' = cfg
  BY <1>2, <1>5, Zenon DEF Reached, cfg
<1>7. Routing(r)'
  BY <1>1, <1>2, <1>4, <1>6, Zenon DEF Routing
<1>8. Answering(r)'
  <2>1. pc'[r] = "done"
    BY <1>4, Zenon
  <2> QED BY <1>5, <2>1, Zenon DEF Answering
<1>9. Guarding(r)' /\ Naming(r)'
  BY <1>4, <1>6, Zenon DEF Guarding, Naming
<1>10. Recognising(r)' /\ Keying(r)'
  BY <1>1, <1>2, <1>4, Zenon DEF Recognising, Keying
<1> QED BY <1>3, <1>7, <1>8, <1>9, <1>10, Zenon DEF Local

\* The key of a request is one the limiter can meet.
LEMMA KeyOfType ==
  ASSUME GateInv, NEW r \in Caller, pc[r] # "idle"
  PROVE  KeyOf(r) \in Key
<1>1. who[r] \in Session \cup {Nobody} /\ req[r] \in Input
  BY DEF GateInv, Shape, Local, Routing
<1> QED BY <1>1, GateAssumption, Zenon DEF KeyOf

\* The limiter, if there is one, derives the key and reads the clock.
LEMMA PipelineKeeps ==
  ASSUME GateInv, NEW r \in Caller, Pipeline(r)
  PROVE  Moves(r) /\ Local(r)'
<1>1. /\ Local(r) /\ pc[r] = "pipeline" /\ out[r] = Nothing /\ key[r] = NoKey
      /\ KeyOf(r) \in Key /\ key \in [Caller -> Key \cup {NoKey}]
  <2>1. pc[r] = "pipeline"
    BY Zenon DEF Pipeline
  <2> QED BY <2>1, Pending, KeyOfType, Zenon DEF GateInv, LimitInv, LimitTypeOK
<1>2. /\ proven' = proven /\ req' = req /\ scan' = scan /\ route' = route /\ file' = file
      /\ live' = live /\ who' = who /\ out' = out
      /\ \/ pc' = [pc EXCEPT ![r] = "take"] /\ key' = [key EXCEPT ![r] = KeyOf(r)]
         \/ pc' = [pc EXCEPT ![r] = "policy"] /\ key' = key
  BY Zenon DEF Pipeline, Goto, limiter, LimitRead, KeyOf
<1>3. Moves(r)
  BY <1>1, <1>2, ZenonT(60) DEF GateInv, Shape, Moves, Same, Steps, cfg
<1>4. /\ pc'[r] \in {"take", "policy"} /\ (pc'[r] = "take" <=> key'[r] # NoKey)
      /\ pc'[r] = "take" => key'[r] = KeyOf(r)
  BY <1>1, <1>2, Zenon DEF GateInv, Shape
<1>5. ~Reached(r)' /\ cfg' = cfg /\ RouteOf(r)' = RouteOf(r) /\ KeyOf(r)' = KeyOf(r)
  BY <1>1, <1>2, NothingHasFields, ZenonT(30) DEF Reached, cfg, RouteOf, KeyOf
<1>6. Routing(r)'
  BY <1>1, <1>2, <1>4, <1>5, ZenonT(30) DEF Local, Routing
<1>7. Answering(r)' /\ Naming(r)'
  BY <1>1, <1>2, <1>4, <1>5, ZenonT(60) DEF Local, Answering, Naming
<1>8. Guarding(r)'
  BY <1>1, <1>2, <1>4, <1>5, Zenon DEF Local, Guarding
<1>9. Recognising(r)'
  <2>1. pc'[r] \notin {"idle", "match", "resolve"}
    BY <1>4, Zenon
  <2> QED BY <1>1, <1>2, <1>5, <2>1, Zenon DEF Local, Recognising
<1>10. Keying(r)'
  BY <1>4, <1>5, ZenonT(60) DEF Keying
<1> QED BY <1>3, <1>6, <1>7, <1>8, <1>9, <1>10, Zenon DEF Local

\* The limiter decides.
LEMMA LimitKeeps ==
  ASSUME GateInv, NEW r \in Caller, Limit(r)
  PROVE  Moves(r) /\ Local(r)'
<1>1. /\ Local(r) /\ pc[r] = "take" /\ out[r] = Nothing /\ key \in [Caller -> Key \cup {NoKey}]
  <2>1. pc[r] = "take"
    BY Zenon DEF Limit
  <2> QED BY <2>1, Pending, ZenonT(30) DEF GateInv, LimitInv, LimitTypeOK
<1>2. /\ proven' = proven /\ req' = req /\ scan' = scan /\ route' = route /\ file' = file
      /\ live' = live /\ who' = who /\ key' = [key EXCEPT ![r] = NoKey]
      /\ \/ pc' = [pc EXCEPT ![r] = "policy"] /\ out' = out
         \/ pc' = [pc EXCEPT ![r] = "done"] /\ out' = [out EXCEPT ![r].status = 429]
  BY Zenon DEF Limit, Goto, Reply, LimitTake
<1>3. Moves(r)
  BY <1>1, <1>2, SMT DEF GateInv, Shape, Moves, Same, Steps, cfg
<1>4. /\ key'[r] = NoKey
      /\ \/ pc'[r] = "policy" /\ out'[r] = Nothing
         \/ pc'[r] = "done" /\ out'[r] = [Nothing EXCEPT !.status = 429]
  BY <1>1, <1>2 DEF GateInv, Shape
<1>5. /\ pc'[r] = "done" => out'[r].status >= 300
      /\ out'[r].upstream = "" /\ DOMAIN out'[r] = DOMAIN Nothing
  <2>1. CASE pc'[r] = "policy"
    BY <1>4, <2>1, NothingHasFields, Zenon
  <2>2. CASE pc'[r] = "done"
    <3> DEFINE st == 429
    <3>1. out'[r] = [Nothing EXCEPT !.status = st] /\ st >= 300
      BY <1>4, <2>2
    <3> HIDE DEF st
    <3>2. out'[r].status = st /\ out'[r].upstream = "" /\ DOMAIN out'[r] = DOMAIN Nothing
      BY <3>1, NothingHasFields, Zenon
    <3> QED BY <3>1, <3>2, Zenon
  <2> QED BY <1>4, <2>1, <2>2, Zenon
<1>6. ~Reached(r)' /\ cfg' = cfg /\ RouteOf(r)' = RouteOf(r)
  BY <1>2, <1>5, Zenon DEF Reached, cfg, RouteOf
<1>7. Routing(r)'
  BY <1>1, <1>2, <1>4, <1>6, Zenon DEF Local, Routing
<1>8. Answering(r)' /\ Naming(r)'
  BY <1>4, <1>5, <1>6, Zenon DEF Answering, Naming
<1>9. Guarding(r)'
  BY <1>1, <1>2, <1>4, <1>6, Zenon DEF Local, Guarding
<1>10. Recognising(r)'
  <2>1. pc'[r] \notin {"idle", "match", "resolve"}
    BY <1>4, ZenonT(60)
  <2> QED BY <1>1, <1>2, <1>6, <2>1, ZenonT(60) DEF Local, Recognising
<1>11. Keying(r)'
  BY <1>4, Zenon DEF Keying
<1> QED BY <1>3, <1>7, <1>8, <1>9, <1>10, <1>11, Zenon DEF Local


\* A body is whole or cut at the limit.
LEMMA CutAtLimit ==
  ASSUME NEW body, NEW max \in Nat, body.size \in Nat
  PROVE  ReadBody(body, max).size # body.size => ReadBody(body, max).size = max /\ body.size > max
<1>1. CASE body.size <= max
  BY <1>1, Zenon DEF ReadBody
<1>2. CASE ~(body.size <= max)
  <2>1. ReadBody(body, max).size = max
    BY <1>2, Zenon DEF ReadBody
  <2> QED BY <1>2, <2>1
<1> QED BY <1>1, <1>2, Zenon

\* If NormalizeRequest finds a name in a body, a server runs nothing else: a
\* document's first operation is its only one, or none is run.
LEMMA RunsWhatIsNamed ==
  ASSUME NEW body
  PROVE  GraphQLOperation("", body) = "" \/ Runs(body) \subseteq {GraphQLOperation("", body)}
<1> DEFINE toks == Significant(body.doc)
<1>1. CASE body.json /\ body.operationName # ""
  BY <1>1, Zenon DEF GraphQLOperation, Runs
<1>2. CASE ~(body.json /\ body.operationName # "") /\ parseDocument(body.doc) # ""
  <2>1. /\ 1 \in DOMAIN toks /\ 2 \in DOMAIN toks /\ toks[1] \in Keyword /\ isName(toks[2])
        /\ GraphQLOperation("", body) = toks[2]
    BY <1>2, ZenonT(60) DEF parseDocument, GraphQLOperation
  <2>2. Runs(body) = {NameAt(toks, i) : i \in {j \in Operations(toks) : Operations(toks) = {j}}}
    BY <1>2, Zenon DEF Runs
  <2> HIDE DEF toks
  <2>3. 1 \in Operations(toks)
    BY <2>1, Zenon DEF Operations
  <2>4. NameAt(toks, 1) = toks[2]
    <3>1. 1 + 1 = 2
      OBVIOUS
    <3> QED BY <2>1, <3>1, Zenon DEF NameAt
  <2> QED BY <2>1, <2>2, <2>3, <2>4, Zenon
<1>3. CASE ~(body.json /\ body.operationName # "") /\ parseDocument(body.doc) = ""
  BY <1>3, Zenon DEF GraphQLOperation
<1> QED BY <1>1, <1>2, <1>3, Zenon

\* The policy decides, and its decision is carried out.
LEMMA PolicyKeeps ==
  ASSUME GateInv, NEW r \in Caller, NEW d \in Decision, Policy(r, d)
  PROVE  Moves(r) /\ Local(r)'
<1> DEFINE rt == RouteOf(r)
           o == out'[r]
           B == ReadBody(req[r].body, MaxBody)
<1>1. /\ file \in File /\ ValidateProxy(Cfg[file]) /\ Local(r) /\ pc[r] = "policy"
      /\ Best(file, req[r], Len(cfg.routes), route[r]) /\ req[r] \in Input
      /\ route[r] # 0 /\ out[r] = Nothing /\ key[r] = NoKey /\ DOMAIN out = Caller
      /\ rt.requireAuth => who[r] # Nobody
  <2>1. pc[r] = "policy"
    BY Zenon DEF Policy
  <2> QED BY <2>1, Pending, Zenon
<1>2. /\ rt.id # "" /\ cfg.private \in BOOLEAN
      /\ cfg.private \/ validateUpstreamSSRF(rt.upstream)
  <2>1. route[r] \in DOMAIN Cfg[file].routes
    BY <1>1, RoutesOK, Zenon DEF Best, Candidates, cfg
  <2> QED BY <1>1, <2>1, RoutesOK, ZenonT(30) DEF cfg, RouteOf
<1>3. /\ proven' = proven /\ req' = req /\ scan' = scan /\ route' = route /\ file' = file
      /\ live' = live /\ key' = key /\ who' = who /\ pc' = [pc EXCEPT ![r] = "done"]
      /\ d.allow => GraphQLOperation(req[r].opHeader, B) \in Allowed
      /\ IF Denied(d) THEN out' = [out EXCEPT ![r].status = DenyStatus(d), ![r].by = d]
         ELSE out' = [out EXCEPT ![r] = Forwarded(r, d)]
  BY Zenon DEF Policy, Goto, limiter
<1>4. Moves(r)
  BY <1>3, Zenon DEF GateInv, Shape, Moves, Same, Steps, cfg
<1>5. d.allow \in BOOLEAN /\ d.err \in BOOLEAN /\ d.status \in Nat
  BY GateAssumption, Zenon
<1>6. pc'[r] = "done" /\ cfg' = cfg /\ RouteOf(r)' = rt
  BY <1>3, Zenon DEF GateInv, Shape, cfg, RouteOf
<1>7. Recognising(r)' /\ Keying(r)'
  <2>1. Recognising(r)'
    <3>1. pc'[r] \notin {"idle", "match", "resolve"}
      BY <1>6, Zenon
    <3> QED BY <1>1, <1>3, <1>6, <3>1, Zenon DEF Local, Recognising
  <2>2. Keying(r)'
    BY <1>1, <1>3, <1>6, Zenon DEF Keying
  <2> QED BY <2>1, <2>2, Zenon
<1>8. CASE Denied(d)
  <2>1. o = [Nothing EXCEPT !.status = DenyStatus(d), !.by = d]
    BY <1>1, <1>3, <1>8, Zenon
  <2>2. o.status = DenyStatus(d) /\ o.by = d /\ o.upstream = "" /\ DOMAIN o = DOMAIN Nothing
    BY <2>1, NothingHasFields, Zenon
  <2>3. DenyStatus(d) >= 300 \/ (~d.allow /\ ~d.err /\ d.status < 300)
    BY <1>5, <1>8 DEF DenyStatus, Denied
  <2>4. ~Reached(r)'
    BY <2>2, Zenon DEF Reached
  <2>5. Routing(r)'
    BY <1>1, <1>3, <1>6, <2>4, Zenon DEF Routing
  <2>6. Answering(r)'
    BY <1>6, <2>2, <2>3, ZenonT(60) DEF Answering
  <2>7. Guarding(r)' /\ Naming(r)'
    BY <1>6, <2>4, Zenon DEF Guarding, Naming
  <2> QED BY <1>4, <1>7, <2>5, <2>6, <2>7, Zenon DEF Local
<1>9. CASE ~Denied(d) /\ rt.upstream.scheme \notin {"http", "https"}
  <2>1. o = [Nothing EXCEPT !.status = 200, !.by = d]
    BY <1>1, <1>3, <1>9 DEF Forwarded
  <2>2. o.by = d /\ o.upstream = "" /\ DOMAIN o = DOMAIN Nothing
    <3> DEFINE st == 200
    <3>1. o = [Nothing EXCEPT !.status = st, !.by = d]
      BY <2>1, Zenon
    <3> HIDE DEF st
    <3> QED BY <3>1, NothingHasFields, Zenon
  <2>3. d.allow /\ cfg.private
    BY <1>2, <1>5, <1>9, Zenon DEF Denied, validateUpstreamSSRF
  <2>4. ~Reached(r)'
    BY <2>2, ZenonT(60) DEF Reached
  <2>5. Routing(r)'
    BY <1>1, <1>3, <1>6, <2>4, Zenon DEF Routing
  <2>6. Answering(r)'
    BY <1>6, <2>2, <2>3, Zenon DEF Answering
  <2>7. Guarding(r)' /\ Naming(r)'
    BY <1>6, <2>4, Zenon DEF Guarding, Naming
  <2> QED BY <1>4, <1>7, <2>5, <2>6, <2>7, Zenon DEF Local
<1>10. CASE ~Denied(d) /\ rt.upstream.scheme \in {"http", "https"}
  <2>1. o = [status   |-> 200,
             upstream |-> rt.id,
             identity |-> UpstreamIdentity(req[r].identity, d.identity, who[r].subject),
             path     |-> UpstreamPath(rt.upstream.path, req[r].path),
             size     |-> B.size,
             ops      |-> Runs(B),
             by       |-> d]
    BY <1>1, <1>3, <1>10, ZenonT(60) DEF Forwarded
  <2>2. /\ o.upstream = rt.id /\ o.by = d /\ o.ops = Runs(B)
        /\ o.identity = UpstreamIdentity(req[r].identity, d.identity, who[r].subject)
        /\ o.path = UpstreamPath(rt.upstream.path, req[r].path)
        /\ o.size = B.size
        /\ DOMAIN o = DOMAIN Nothing
    BY <2>1, SMTT(30) DEF Nothing
  <2>3. Reached(r)'
    BY <1>2, <2>2, Zenon DEF Reached
  <2>4. Routing(r)'
    BY <1>1, <1>3, <1>6, ZenonT(60) DEF Routing
  <2>5. Answering(r)'
    BY <1>6, <2>2, <2>3 DEF Answering
  <2>6. Guarding(r)'
    <3>1. rt.upstream.path \in {<<>>, Root} => o.path = req[r].path
      BY <2>2, NoBasePath, Zenon
    <3>2. o.size # req[r].body.size => o.size = MaxBody /\ req[r].body.size > MaxBody
      BY <1>1, <2>2, CutAtLimit, GateAssumption, Zenon
    <3>3. o.identity = IF who[r].subject # "" THEN who[r].subject ELSE o.by.identity
      BY <2>2, Zenon DEF UpstreamIdentity
    <3> QED BY <1>1, <1>3, <1>6, <2>2, <3>1, <3>2, <3>3, ZenonT(60) DEF Guarding
  <2>7. Naming(r)'
    <3>1. GraphQLOperation(req[r].opHeader, B) \in Allowed
      BY <1>3, <1>5, <1>10, ZenonT(60) DEF Denied
    <3>2. req[r].opHeader = "" => o.ops \subseteq Allowed \/ "" \in Allowed
      BY <2>2, <3>1, RunsWhatIsNamed, Zenon
    <3> QED BY <1>3, <2>2, <3>2, Zenon DEF Naming
  <2> QED BY <1>4, <1>7, <2>4, <2>5, <2>6, <2>7, ZenonT(60) DEF Local
<1> QED BY <1>8, <1>9, <1>10, Zenon

-----------------------------------------------------------------------------
\* What the limiter let through is counted: a step that grants nothing lets
\* nobody through.
LEMMA NothingThrough ==
  ASSUME GateInv, NEW r \in Caller, Moves(r), Local(r)', granted' = granted,
         Limiting /\ (pc'[r] = "policy" \/ Reached(r)') => pc[r] = "policy" /\ KeyOf(r)' = KeyOf(r)
  PROVE  Counted'
<1> SUFFICES ASSUME Limiting, NEW k \in Key PROVE Cardinality(Through(k)') <= granted'[k]
  BY Zenon DEF Counted
<1>1. Through(k)' \subseteq Through(k)
  <2> SUFFICES ASSUME NEW q \in Caller, q \in Through(k)' PROVE q \in Through(k)
    BY Zenon DEF Through
  <2>1. (pc'[q] = "policy" \/ Reached(q)') /\ KeyOf(q)' = k
    BY Zenon DEF Through
  <2>2. CASE q = r
    BY <2>1, <2>2, Zenon DEF Through
  <2>3. CASE q # r
    BY <2>1, <2>3, ZenonT(30) DEF Through, Moves, Same, Reached, KeyOf
  <2> QED BY <2>2, <2>3, Zenon
<1>2. IsFiniteSet(Through(k))
  BY FS_Subset, GateAssumption, Zenon DEF Through
<1>3. IsFiniteSet(Through(k)') /\ Cardinality(Through(k)') <= Cardinality(Through(k))
  BY <1>1, <1>2, FS_Subset, Zenon
<1>4. Cardinality(Through(k)) \in Nat /\ Cardinality(Through(k)') \in Nat /\ granted[k] \in Nat
  BY <1>2, <1>3, FS_CardinalityType, Zenon DEF GateInv, LimitInv, LimitTypeOK
<1> QED BY <1>3, <1>4, SMTT(30) DEF GateInv, Counted

\* The limiter grants a token to each request it lets through.
LEMMA LimitCounts ==
  ASSUME GateInv, NEW r \in Caller, Limit(r), Moves(r)
  PROVE  Counted'
<1> SUFFICES ASSUME Limiting, NEW k \in Key PROVE Cardinality(Through(k)') <= granted'[k]
  BY Zenon DEF Counted
<1>1. /\ pc[r] = "take" /\ key[r] = KeyOf(r) /\ out[r] = Nothing
      /\ granted \in [Key -> Nat] /\ key[r] \in Key
  BY ZenonT(30) DEF GateInv, Local, Keying, Answering, Limit, LimitInv, LimitTypeOK
<1>2. KeyOf(r)' = KeyOf(r)
  BY ZenonT(30) DEF Limit, KeyOf
<1>3. \A q \in Caller \ {r} : q \in Through(k)' <=> q \in Through(k)
  BY Zenon DEF Moves, Same, Through, Reached, KeyOf
<1>4. r \notin Through(k)
  BY <1>1, NothingHasFields, ZenonT(30) DEF Through, Reached
<1>5. IsFiniteSet(Through(k)) /\ Cardinality(Through(k)) \in Nat
  BY FS_Subset, FS_CardinalityType, GateAssumption, Zenon DEF Through
<1>6. Cardinality(Through(k)) <= granted[k] /\ granted[k] \in Nat
  BY <1>1, ZenonT(60) DEF GateInv, Counted
<1>7. CASE Admits(key[r], at[r]) /\ key[r] = k
  <2>1. granted'[k] = granted[k] + 1
    BY <1>1, <1>7, Zenon DEF Limit, LimitTake
  <2>2. Through(k)' \subseteq Through(k) \cup {r}
    BY <1>3, Zenon DEF Through
  <2>3. IsFiniteSet(Through(k) \cup {r}) /\ Cardinality(Through(k) \cup {r}) = Cardinality(Through(k)) + 1
    BY <1>4, <1>5, FS_AddElement, Zenon
  <2>4. IsFiniteSet(Through(k)') /\ Cardinality(Through(k)') <= Cardinality(Through(k) \cup {r})
    BY <2>2, <2>3, FS_Subset, Zenon
  <2>5. Cardinality(Through(k)') \in Nat
    BY <2>4, FS_CardinalityType, Zenon
  <2> QED BY <1>5, <1>6, <2>1, <2>3, <2>4, <2>5, SMTT(60)
<1>8. CASE ~(Admits(key[r], at[r]) /\ key[r] = k)
  <2>1. r \notin Through(k)'
    <3>1. CASE key[r] # k
      BY <1>1, <1>2, <3>1, Zenon DEF Through
    <3>2. CASE ~Admits(key[r], at[r])
      <4>1. pc' = [pc EXCEPT ![r] = "done"] /\ out' = [out EXCEPT ![r].status = 429]
        BY <3>2, Zenon DEF Limit, Goto, Reply
      <4>2. pc'[r] = "done" /\ out'[r].upstream = ""
        <5> DEFINE st == 429
        <5>1. pc'[r] = "done" /\ DOMAIN out = Caller /\ out' = [out EXCEPT ![r].status = st]
          BY <4>1, Zenon DEF GateInv, Shape
        <5> HIDE DEF st
        <5> QED BY <1>1, <5>1, OnlyStatus, Zenon
      <4> QED BY <4>2, Zenon DEF Through, Reached
    <3> QED BY <1>8, <3>1, <3>2, Zenon
  <2>2. Through(k)' \subseteq Through(k)
    BY <1>3, <2>1, Zenon DEF Through
  <2>3. granted'[k] = granted[k]
    BY <1>1, <1>8, Zenon DEF Limit, LimitTake
  <2>4. IsFiniteSet(Through(k)') /\ Cardinality(Through(k)') <= Cardinality(Through(k))
    BY <1>5, <2>2, FS_Subset, Zenon
  <2>5. Cardinality(Through(k)') \in Nat
    BY <2>4, FS_CardinalityType, Zenon
  <2> QED BY <1>5, <1>6, <2>3, <2>4, <2>5, SMTT(60)
<1> QED BY <1>7, <1>8, Zenon

-----------------------------------------------------------------------------
LEMMA GateInitially == Init => GateInv
<1> SUFFICES ASSUME Init PROVE GateInv
  BY Zenon
<1>1. LimitInv
  <2>1. LimitTypeOK /\ Untouched /\ Account
    BY Zenon DEF Init, LimitInit, LimitTypeOK, Untouched, Account
  <2>2. Clocked
    BY SMT DEF Init, LimitInit, Clocked
  <2> QED BY <2>1, <2>2, Zenon DEF LimitInv
<1>2. Shape
  BY Zenon DEF Init, Shape, Steps, cfg
<1>3. ASSUME NEW r \in Caller PROVE Local(r)
  <2>1. /\ pc[r] = "idle" /\ out[r] = Nothing /\ who[r] = Nobody /\ ~proven[r] /\ key[r] = NoKey
        /\ ~Reached(r)
    BY NothingHasFields, ZenonT(30) DEF Init, LimitInit, Reached
  <2> QED BY <2>1, ZenonT(30) DEF Local, Routing, Answering, Guarding, Naming, Recognising, Keying
<1>4. Counted
  <2> SUFFICES ASSUME NEW k \in Key PROVE Cardinality(Through(k)) <= granted[k]
    BY Zenon DEF Counted
  <2>1. Through(k) = {}
    BY NothingHasFields, Zenon DEF Init, Through, Reached
  <2>2. Cardinality({}) = 0
    BY FS_EmptySet, Zenon
  <2> QED BY <2>1, <2>2, SMTT(30) DEF Init, LimitInit
<1> QED BY <1>1, <1>2, <1>3, <1>4, Zenon DEF GateInv

\* Every step of the proxy keeps the invariant.
LEMMA GateInductive == GateInv /\ [Next]_vars => GateInv'
<1> SUFFICES ASSUME GateInv, [Next]_vars PROVE GateInv'
  BY Zenon
<1>1. ASSUME NEW r \in Caller, Moves(r), Local(r)' PROVE Shape' /\ \A q \in Caller : Local(q)'
  <2>1. ASSUME NEW q \in Caller, q # r PROVE Local(q)'
    BY <1>1, <2>1, SameKeeps, Zenon DEF Moves, GateInv
  <2> QED BY <1>1, <2>1, Zenon DEF Moves
<1>2. ASSUME NEW r \in Caller, Moves(r), Local(r)', UNCHANGED limiter,
             Limiting /\ (pc'[r] = "policy" \/ Reached(r)') => pc[r] = "policy" /\ KeyOf(r)' = KeyOf(r)
      PROVE  GateInv'
  <2>1. granted' = granted
    BY <1>2, Zenon DEF limiter
  <2> QED BY <1>1, <1>2, <2>1, NothingThrough, LimitStep, ZenonT(60) DEF GateInv
<1>3. ASSUME NEW r \in Caller, pc'[r] # "policy", out'[r].upstream = ""
      PROVE  ~(pc'[r] = "policy" \/ Reached(r)')
  BY <1>3, ZenonT(30) DEF Reached
<1>4. ASSUME NEW r \in Caller, NEW in \in Input, Arrive(r, in) PROVE GateInv'
  <2>1. Moves(r) /\ Local(r)'
    BY <1>4, ArriveKeeps, Zenon
  <2>2. pc'[r] = "match"
    BY <1>4, Zenon DEF Arrive, Goto, GateInv, Shape
  <2>3. out'[r] = Nothing
    BY <2>1, <2>2, Zenon DEF Local, Answering
  <2> QED BY <1>2, <1>3, <1>4, <2>1, <2>2, <2>3, NothingHasFields, ZenonT(60) DEF Arrive
<1>5. ASSUME NEW r \in Caller, Match(r) PROVE GateInv'
  <2>1. Moves(r) /\ Local(r)'
    BY <1>5, MatchKeeps, Zenon
  <2>2. pc'[r] = "match"
    BY <1>5, Zenon DEF Match
  <2>3. out'[r] = Nothing
    BY <2>1, <2>2, Zenon DEF Local, Answering
  <2> QED BY <1>2, <1>3, <1>5, <2>1, <2>2, <2>3, NothingHasFields, ZenonT(60) DEF Match
<1>6. ASSUME NEW r \in Caller, Matched(r) PROVE GateInv'
  <2>1. Moves(r) /\ Local(r)'
    BY <1>6, MatchedKeeps, Zenon
  <2>2. pc'[r] \in {"resolve", "done"} /\ route'[r] = route[r] /\ (route[r] # 0 => pc'[r] = "resolve")
    BY <1>6, ZenonT(60) DEF Matched, Reply, Goto, GateInv, Shape
  <2>3. ~Reached(r)'
    <3>1. CASE route[r] = 0
      BY <2>1, <2>2, <3>1, Zenon DEF Local, Routing
    <3>2. CASE route[r] # 0
      BY <2>1, <2>2, <3>2, NothingHasFields, Zenon DEF Local, Answering, Reached
    <3> QED BY <3>1, <3>2, Zenon
  <2> QED BY <1>2, <1>6, <2>1, <2>2, <2>3, ZenonT(60) DEF Matched
<1>7. ASSUME NEW r \in Caller, Resolve(r) \/ ResolveFails(r) PROVE GateInv'
  <2>1. Moves(r) /\ Local(r)'
    BY <1>7, ResolveKeeps, ResolveFailsKeeps, ZenonT(60)
  <2>2. pc'[r] \in {"pipeline", "done"} /\ UNCHANGED limiter
    BY <1>7 DEF Resolve, ResolveFails, Reply, Goto, GateInv, Shape
  <2>3. ~Reached(r)'
    <3>1. pc[r] = "resolve"
      BY <1>7, Zenon DEF Resolve, ResolveFails
    <3>2. DOMAIN out = Caller /\ out[r] = Nothing
      BY <3>1, Pending, Zenon
    <3>3. out' = out \/ \E st : out' = [out EXCEPT ![r].status = st]
      <4>1. out' = out \/ \E st : Reply(r, st)
        <5>1. CASE Resolve(r)
          BY <5>1, ZenonT(60) DEF Resolve
        <5>2. CASE ResolveFails(r)
          BY <5>2, ZenonT(60) DEF ResolveFails
        <5> QED BY <1>7, <5>1, <5>2, Zenon
      <4> QED BY <4>1, Zenon DEF Reply
    <3>4. CASE out' = out
      BY <3>2, <3>4, NothingHasFields, Zenon DEF Reached
    <3>5. ASSUME NEW st, out' = [out EXCEPT ![r].status = st] PROVE out'[r].upstream = ""
      BY <3>2, <3>5, OnlyStatus, Zenon
    <3> QED BY <3>3, <3>4, <3>5, Zenon DEF Reached
  <2> QED BY <1>2, <2>1, <2>2, <2>3, Zenon
<1>8. ASSUME NEW r \in Caller, Pipeline(r) PROVE GateInv'
  <2>1. Moves(r) /\ Local(r)'
    BY <1>8, PipelineKeeps, Zenon
  <2>2. pc[r] = "pipeline" /\ KeyOf(r) \in Key
    BY <1>8, KeyOfType, Zenon DEF Pipeline
  <2>3. LimitNext \/ UNCHANGED limiter
    BY <1>8, <2>2, Zenon DEF Pipeline, LimitNext, KeyOf
  <2>4. granted' = granted /\ (Limiting => pc'[r] = "take")
    BY <1>8, Zenon DEF Pipeline, Goto, LimitRead, limiter, buckets, GateInv, Shape
  <2>5. pc'[r] # "done" => ~Reached(r)'
    BY <2>1, NothingHasFields, Zenon DEF Local, Answering, Reached
  <2>6. Limiting => ~(pc'[r] = "policy" \/ Reached(r)')
    BY <2>4, <2>5, Zenon
  <2>7. Counted'
    BY <2>1, <2>4, <2>6, NothingThrough, Zenon
  <2> QED BY <1>1, <2>1, <2>3, <2>7, LimitStep, ZenonT(60) DEF GateInv
<1>9. ASSUME NEW r \in Caller, Limit(r) PROVE GateInv'
  <2>1. Moves(r) /\ Local(r)'
    BY <1>9, LimitKeeps, Zenon
  <2>2. LimitNext
    BY <1>9, Zenon DEF Limit, LimitNext
  <2> QED BY <1>1, <1>9, <2>1, <2>2, LimitStep, LimitCounts, ZenonT(60) DEF GateInv
<1>10. ASSUME NEW r \in Caller, NEW d \in Decision, Policy(r, d) PROVE GateInv'
  <2>1. Moves(r) /\ Local(r)'
    BY <1>10, PolicyKeeps, Zenon
  <2>2. pc[r] = "policy" /\ KeyOf(r)' = KeyOf(r) /\ UNCHANGED limiter
    BY <1>10, Zenon DEF Policy, KeyOf
  <2> QED BY <1>2, <2>1, <2>2, ZenonT(60)
<1>11. ASSUME limiter' = limiter \/ LimitNext, key' = key, granted' = granted,
              file' = file, live' \subseteq live, UNCHANGED <<pc, req, scan, route, who, proven, out>>
       PROVE  GateInv'
  <2>1. Shape'
    BY <1>11, Zenon DEF GateInv, Shape, cfg
  <2>2. \A q \in Caller : Local(q)'
    BY <1>11, SameKeeps, Zenon DEF GateInv, Same
  <2>3. Counted'
    BY <1>11, Zenon DEF GateInv, Counted, Through, Reached, KeyOf
  <2> QED BY <1>11, <2>1, <2>2, <2>3, LimitStep, Zenon DEF GateInv
<1>12. CASE Elapse /\ UNCHANGED gate
  BY <1>11, <1>12, Zenon DEF Elapse, gate, buckets, LimitNext
<1>13. ASSUME NEW s \in live, End(s) PROVE GateInv'
  BY <1>11, <1>13, Zenon DEF End, limiter
<1>14. CASE UNCHANGED vars
  BY <1>11, <1>14, Zenon DEF vars, limiter, gate
<1> QED
  BY <1>4, <1>5, <1>6, <1>7, <1>8, <1>9, <1>10, <1>12, <1>13, <1>14, ZenonT(60) DEF Next, Step

-----------------------------------------------------------------------------
\* The invariant of the proxy, for all that follows.
LEMMA GateInvariant == Spec => []GateInv
BY GateInitially, GateInductive, PTL DEF Spec

\* What every variable of the proxy holds in handleProxy and Plugin.Handle.
THEOREM GateTypeCorrect == Spec => []TypeOK
<1>1. GateInv => TypeOK
  <2> SUFFICES ASSUME GateInv PROVE TypeOK
    BY Zenon
  <2>1. Len(cfg.routes) \in Nat /\ DOMAIN cfg.routes = 1..Len(cfg.routes)
    BY RoutesOK, Zenon DEF GateInv, Shape, cfg
  <2>2. ASSUME NEW r \in Caller, pc[r] = "match"
        PROVE  scan[r] \in 1..Len(cfg.routes) + 1 /\ route[r] \in 0..scan[r] - 1
    <3>1. scan[r] \in 1..Len(cfg.routes) + 1 /\ Best(file, req[r], scan[r] - 1, route[r])
      BY <2>2, ZenonT(60) DEF GateInv, Local, Routing
    <3>2. route[r] = 0 \/ route[r] \in 1..scan[r] - 1
      BY <3>1, ZenonT(30) DEF Best, Candidates
    <3> QED BY <2>1, <3>1, <3>2, SMTT(30)
  <2>3. ASSUME NEW r \in Caller, pc[r] \notin {"idle", "match", "done"}
        PROVE  route[r] \in DOMAIN cfg.routes
    <3>1. Best(file, req[r], Len(cfg.routes), route[r]) /\ route[r] # 0
      BY <2>3, ZenonT(60) DEF GateInv, Local, Routing
    <3> QED BY <2>1, <3>1, Zenon DEF Best, Candidates
  <2>4. ASSUME NEW r \in Caller
        PROVE  /\ pc[r] # "idle" => req[r] \in Input
               /\ (pc[r] = "take") <=> (key[r] # NoKey)
               /\ who[r] \in Session \cup {Nobody} /\ proven[r] \in BOOLEAN
    BY SMTT(30) DEF GateInv, Local, Routing, Keying, Shape
  <2> QED BY <2>2, <2>3, <2>4, Zenon DEF TypeOK, GateInv, LimitInv, Shape
<1> QED BY <1>1, GateInvariant, PTL

\* The bound of the limiter, for the requests of the proxy (Plugin.Handle).
THEOREM ProxyBoundsGrants == Spec => []GrantsBounded
<1>1. GateInv => GrantsBounded
  BY AccountBounds, Zenon DEF GateInv
<1> QED BY <1>1, GateInvariant, PTL

\* matchRoute finds the first of the most specific routes that match.
THEOREM MostSpecificRoute == Spec => []RoutedMostSpecific
<1>1. GateInv => RoutedMostSpecific
  <2> SUFFICES ASSUME GateInv, NEW r \in Caller, pc[r] \notin {"idle", "match"}
               PROVE  LET Matching == {i \in DOMAIN cfg.routes :
                            /\ \/ cfg.routes[i].hosts = {}
                               \/ {req[r].host, <<req[r].host[1]>>} \cap cfg.routes[i].hosts # {}
                            /\ cfg.routes[i].prefix = Root \/ HasPrefix(req[r].path, cfg.routes[i].prefix)}
                      IN  IF Matching = {} THEN out[r].status = 404
                          ELSE /\ route[r] \in Matching
                               /\ \A i \in Matching : LET p == cfg.routes[i].prefix  q == RouteOf(r).prefix IN
                                    p # q => q # Root /\ (p = Root \/ Len(p) < Len(q))
                               /\ \A i \in Matching : cfg.routes[i].prefix = RouteOf(r).prefix => route[r] <= i
    BY Zenon DEF RoutedMostSpecific
  <2> DEFINE P(i) == cfg.routes[i].prefix
             Fits(i) == /\ \/ cfg.routes[i].hosts = {}
                           \/ {req[r].host, <<req[r].host[1]>>} \cap cfg.routes[i].hosts # {}
                        /\ P(i) = Root \/ HasPrefix(req[r].path, P(i))
             Matching == {i \in DOMAIN cfg.routes : Fits(i)}
             C == Candidates(file, req[r], Len(cfg.routes))
  <2>1. file \in File /\ ValidateProxy(Cfg[file]) /\ Local(r)
    BY Zenon DEF GateInv, Shape, cfg
  <2>2. /\ Len(cfg.routes) \in Nat /\ DOMAIN cfg.routes = 1..Len(cfg.routes)
        /\ \A i \in DOMAIN cfg.routes : P(i) \in Seq(STRING) /\ P(i) # <<>>
    BY <2>1, RoutesOK, ZenonT(30) DEF cfg
  <2>3. Matching = C
    <3>1. ASSUME NEW i \in DOMAIN cfg.routes
          PROVE  Fits(i) <=> /\ hostMatches(cfg.routes[i].hosts, req[r].host)
                             /\ pathMatches(req[r].path, P(i))
      <4>1. P(i) # <<>>
        BY <2>2, Zenon
      <4> QED BY <4>1 DEF hostMatches, pathMatches
    <3>2. C = {i \in DOMAIN cfg.routes : /\ hostMatches(cfg.routes[i].hosts, req[r].host)
                                         /\ pathMatches(req[r].path, P(i))}
      BY <2>2, Zenon DEF Candidates, cfg
    <3> QED BY <3>1, <3>2, ZenonT(60)
  <2>4. /\ Best(file, req[r], Len(cfg.routes), route[r])
        /\ route[r] = 0 => out[r].status = 404
    <3>1. Best(file, req[r], Len(cfg.routes), route[r])
      BY <2>1, Zenon DEF Local, Routing
    <3>2. route[r] = 0 => out[r].status = 404
      BY <2>1, Zenon DEF Local, Routing
    <3> QED BY <3>1, <3>2, Zenon
  <2>5. CASE C = {}
    <3>1. route[r] = 0
      <4>1. route[r] # 0 => route[r] \in C
        BY <2>4, Zenon DEF Best, cfg
      <4> QED BY <2>5, <4>1, Zenon
    <3>2. Matching = {}
      BY <2>3, <2>5, Zenon
    <3>3. out[r].status = 404
      BY <2>4, <3>1, Zenon
    <3> QED BY <3>2, <3>3, Zenon
  <2>6. CASE C # {}
    <3> DEFINE b == route[r]
    <3>1. b \in C /\ \A i \in C : /\ PrefixLen(P(i)) <= PrefixLen(P(b))
                                  /\ PrefixLen(P(i)) = PrefixLen(P(b)) => b <= i
      BY <2>4, <2>6, Zenon DEF Best, cfg
    <3>2. RouteOf(r).prefix = P(b)
      BY Zenon DEF RouteOf
    <3>3. ASSUME NEW i \in C, P(i) # P(b)
          PROVE  P(b) # Root /\ (P(i) = Root \/ Len(P(i)) < Len(P(b)))
      <4>1. i \in DOMAIN cfg.routes /\ b \in DOMAIN cfg.routes /\ Fits(i) /\ Fits(b)
        BY <2>3, <3>1, ZenonT(30)
      <4>2. /\ P(i) \in Seq(STRING) /\ P(i) # <<>> /\ P(b) \in Seq(STRING) /\ P(b) # <<>>
            /\ Len(P(i)) \in Nat \ {0} /\ Len(P(b)) \in Nat \ {0}
        BY <2>2, <4>1, SeqLength, Zenon
      <4>3. PrefixLen(P(i)) <= PrefixLen(P(b))
        BY <3>1, Zenon
      <4>4. P(b) # Root
        <5>1. CASE P(b) = Root
          <6>1. PrefixLen(P(b)) = 1 /\ PrefixLen(P(i)) = 1 + Len(P(i))
            BY <3>3, <4>2, <5>1, ZenonT(60) DEF PrefixLen
          <6> QED BY <4>2, <4>3, <6>1, SMTT(30)
        <5> QED BY <5>1, ZenonT(60)
      <4>5. CASE P(i) # Root
        <5>1. PrefixLen(P(b)) = 1 + Len(P(b)) /\ PrefixLen(P(i)) = 1 + Len(P(i))
          BY <4>2, <4>4, <4>5, ZenonT(60) DEF PrefixLen
        <5>2. Len(P(i)) <= Len(P(b))
          BY <4>2, <4>3, <5>1, SMTT(60)
        <5>3. HasPrefix(req[r].path, P(i)) /\ HasPrefix(req[r].path, P(b))
          BY <4>1, <4>4, <4>5, ZenonT(30)
        <5>4. Len(P(i)) # Len(P(b))
          BY <3>3, <4>2, <5>3, PrefixesOfOnePath, Zenon
        <5> QED BY <4>2, <4>4, <5>2, <5>4, SMTT(60)
      <4> QED BY <4>4, <4>5, Zenon
    <3>4. ASSUME NEW i \in C, P(i) = P(b) PROVE b <= i
      BY <3>1, <3>4, Zenon
    <3> HIDE DEF Matching, C, P, b
    <3>5. b \in Matching /\ Matching # {}
      BY <2>3, <3>1, Zenon
    <3>6. \A i \in Matching : P(i) # P(b) => P(b) # Root /\ (P(i) = Root \/ Len(P(i)) < Len(P(b)))
      BY <2>3, <3>3, Zenon
    <3>7. \A i \in Matching : P(i) = P(b) => b <= i
      BY <2>3, <3>4, Zenon
    <3> QED BY <3>2, <3>5, <3>6, <3>7, Zenon DEF Matching, P, b
  <2> QED BY <2>5, <2>6, Zenon
<1> QED BY <1>1, GateInvariant, PTL

\* No request is sent upstream before the limiter gave it a token of its key.
THEOREM TokenBeforeUpstream == Spec => []LimitedBeforeUpstream
<1>1. GateInv => LimitedBeforeUpstream
  <2> SUFFICES ASSUME GateInv, Limiting, NEW k \in Key
               PROVE  Cardinality({r \in Caller : Reached(r) /\ deriveKey(Strategy, who[r].subject, req[r]) = k})
                        <= granted[k]
    BY Zenon DEF LimitedBeforeUpstream
  <2> DEFINE R == {r \in Caller : Reached(r) /\ deriveKey(Strategy, who[r].subject, req[r]) = k}
  <2>1. R \subseteq Through(k)
    BY Zenon DEF Through, KeyOf
  <2>2. IsFiniteSet(Through(k))
    BY FS_Subset, GateAssumption, Zenon DEF Through
  <2>3. IsFiniteSet(R) /\ Cardinality(R) <= Cardinality(Through(k))
    BY <2>1, <2>2, FS_Subset, Zenon
  <2>4. Cardinality(R) \in Nat /\ Cardinality(Through(k)) \in Nat /\ granted[k] \in Nat
    BY <2>2, <2>3, FS_CardinalityType, Zenon DEF GateInv, LimitInv, LimitTypeOK
  <2>5. Cardinality(Through(k)) <= granted[k]
    BY Zenon DEF GateInv, Counted
  <2> HIDE DEF R
  <2>6. Cardinality(R) <= granted[k]
    BY <2>3, <2>4, <2>5, SMTT(60)
  <2> QED BY <2>6, Zenon DEF R
<1> QED BY <1>1, GateInvariant, PTL

\* A client is told that its request did not reach the upstream (WriteResponse).
THEOREM DenialSaidAlways == Spec => []DenialIsSaid
<1>1. GateInv => DenialIsSaid
  BY Zenon DEF GateInv, Local, Answering, DenialIsSaid
<1> QED BY <1>1, GateInvariant, PTL

\* Upstreams get nothing but what the policy allows and the client sent
\* (DefaultEngine.Handle, NormalizeRequest, ProxyToUpstream): a server that runs
\* the operation operationName names, or the only one of the document, runs one
\* that is allowed, whatever the bodies are and wherever they are cut.
THEOREM UpstreamAlwaysGuarded == Spec => []UpstreamGuarded
<1>1. GateInv => UpstreamGuarded
  BY ZenonT(60) DEF GateInv, Local, Guarding, Naming, UpstreamGuarded
<1> QED BY <1>1, GateInvariant, PTL

\* If proxy and auth server have one cookie name for the default connector, its
\* routes recognise whoever presents a live session (AuthClient, handleResolve).
THEOREM DefaultRouteRecognises ==
  (\A f \in File : Cfg[f].cookie = connectorCookie(auth, "")) => (Spec => []DefaultRouteResolves)
<1> SUFFICES ASSUME \A f \in File : Cfg[f].cookie = connectorCookie(auth, "")
             PROVE  Spec => []DefaultRouteResolves
  BY Zenon
<1>1. GateInv => DefaultRouteResolves
  BY ZenonT(60) DEF GateInv, Local, Recognising, DefaultRouteResolves, Unrecognised
<1> QED BY <1>1, GateInvariant, PTL
=============================================================================
