----------------------------- MODULE LoginProofs -----------------------------
(***************************************************************************)
(* Repeated, concurrent and misdirected callbacks never turn a code into   *)
(* two sessions, never store a session on a foreign connector and never    *)
(* hand out a cookie without its session: for any number of connectors,    *)
(* logins, codes and callbacks, and any number of failing calls.           *)
(***************************************************************************)
EXTENDS Login, SequenceTheorems, TLAPS

USE LoginAssumption

\* What a callback does to the state, as far as types go, between its lookup and
\* its answer.
Moved(p, l) ==
  /\ pc[p] \notin {"idle", "reply", "done"} /\ pc' = [pc EXCEPT ![p] = l]
  /\ pkce' \subseteq pkce /\ UNCHANGED <<boot, begin, login, req, jar, uses>>
  /\ spent' \subseteq spent \cup {code(p)}
  /\ sessions' \subseteq sessions \cup {<<at(p), p>>}
  /\ faults' = faults \/ Fault
  /\ UNCHANGED <<answer, dest>> \/ \E a \in {"cookie", "clear", "error"} : \E d :
       answer' = [answer EXCEPT ![p] = a] /\ dest' = [dest EXCEPT ![p] = d]

LEMMA MovedKeepsType ==
  ASSUME TypeOK, NEW p \in Proc,
         NEW l \in {"delete", "exchange", "validate", "store", "encode", "reply"}, Moved(p, l)
  PROVE  TypeOK'
<1>1. req[p] \in Conn \X State \X Code
  BY Zenon DEF TypeOK, Moved
<1>2. at(p) \in Conn /\ code(p) \in Code
  BY <1>1, SMT DEF at, code
<1>3. pkce' \in SUBSET (Conn \X State)
  BY Zenon DEF TypeOK, Moved
<1>4. spent' \in SUBSET Code
  BY <1>2, ZenonT(60) DEF TypeOK, Moved
<1>5. sessions' \in SUBSET (Conn \X Proc)
  <2>1. <<at(p), p>> \in Conn \X Proc
    BY <1>2, SMT
  <2> QED BY <2>1, ZenonT(60) DEF TypeOK, Moved
<1>6. faults' \in 0..MaxFaults
  BY SMT DEF TypeOK, Moved, Fault
<1>7. pc' \in [Proc -> {"idle", "get", "delete", "exchange", "validate",
                       "store", "encode", "reply", "done"}]
  BY SMT DEF TypeOK, Moved
<1>8. \A q \in Proc : /\ pc'[q] # "idle" => pc[q] # "idle"
                      /\ pc'[q] \notin {"idle", "reply", "done"}
                           => pc[q] \notin {"idle", "reply", "done"}
  BY SMT DEF TypeOK, Moved
<1>9. DOMAIN dest' = Proc /\ answer' \in [Proc -> {"none", "cookie", "clear", "error"}]
  <2>1. DOMAIN dest = Proc /\ answer \in [Proc -> {"none", "cookie", "clear", "error"}]
    BY Zenon DEF TypeOK
  <2>2. CASE UNCHANGED <<answer, dest>>
    BY <2>1, <2>2, Zenon
  <2>3. ASSUME NEW a \in {"cookie", "clear", "error"}, NEW d,
               answer' = [answer EXCEPT ![p] = a], dest' = [dest EXCEPT ![p] = d]
        PROVE  DOMAIN dest' = Proc /\ answer' \in [Proc -> {"none", "cookie", "clear", "error"}]
    BY <2>1, <2>3, SMT
  <2> QED BY <2>2, <2>3, ZenonT(60) DEF Moved
<1> QED BY <1>3, <1>4, <1>5, <1>6, <1>7, <1>8, <1>9, ZenonT(60) DEF TypeOK, Moved, begin

\* The type invariant holds: in particular a callback in progress carries a
\* code that was issued for a login that was started.
THEOREM LoginTypeCorrect == Spec => []TypeOK
<1>1. Init => TypeOK
  BY SMT DEF Init, TypeOK
<1>2. TypeOK /\ [Next]_vars => TypeOK'
  <2> SUFFICES ASSUME TypeOK, [Next]_vars PROVE TypeOK'
    OBVIOUS
  <2> USE DEF TypeOK, Goto, Answer, Clear, Fault, at, code, state, begin
  <2>1. ASSUME NEW c \in Conn, NEW s \in State, NEW t \in Target, LoginStart(c, s, t) PROVE TypeOK'
    BY <2>1, SMT DEF LoginStart
  <2>2. ASSUME NEW c \in Conn, NEW s \in State, PkceTTL(c, s) PROVE TypeOK'
    BY <2>2, SMT DEF PkceTTL
  <2>3. ASSUME NEW s \in State, NEW k \in Code, Authorize(s, k) PROVE TypeOK'
    BY <2>3, SMT DEF Authorize
  <2>4. ASSUME NEW p \in Proc, NEW c \in Conn, CallbackDenied(p, c) PROVE TypeOK'
    BY <2>4, SMT DEF CallbackDenied
  <2>5. ASSUME NEW p \in Proc, NEW c \in Conn, NEW s \in State, NEW k \in Code,
             Callback(p, c, s, k) PROVE TypeOK'
    BY <2>5, SMT DEF Callback
  <2>6. ASSUME NEW p \in Proc, PkceGet(p) PROVE TypeOK'
    BY <2>6, SMT DEF PkceGet
  <2>7. ASSUME NEW p \in Proc, PkceMiss(p) PROVE TypeOK'
    <3>1. Moved(p, "reply")
      BY <2>7, ZenonT(60) DEF PkceMiss, Moved
    <3> HIDE DEF TypeOK
    <3> QED BY <3>1, MovedKeepsType, Zenon
  <2>8. ASSUME NEW p \in Proc, PkceDelete(p) PROVE TypeOK'
    <3>1. Moved(p, "exchange")
      BY <2>8, ZenonT(60) DEF PkceDelete, Moved
    <3> HIDE DEF TypeOK
    <3> QED BY <3>1, MovedKeepsType, Zenon
  <2>9. ASSUME NEW p \in Proc, Exchange(p) PROVE TypeOK'
    <3>1. Moved(p, "validate")
      BY <2>9, ZenonT(60) DEF Exchange, Moved
    <3> HIDE DEF TypeOK
    <3> QED BY <3>1, MovedKeepsType, Zenon
  <2>10. ASSUME NEW p \in Proc, ExchangeFails(p) PROVE TypeOK'
    <3>1. Moved(p, "reply")
      BY <2>10, ZenonT(60) DEF ExchangeFails, Moved
    <3> HIDE DEF TypeOK
    <3> QED BY <3>1, MovedKeepsType, Zenon
  <2>11. ASSUME NEW p \in Proc, Validate(p) PROVE TypeOK'
    <3>1. Moved(p, "reply") \/ Moved(p, "store")
      BY <2>11, ZenonT(60) DEF Validate, Moved
    <3> HIDE DEF TypeOK
    <3> QED BY <3>1, MovedKeepsType, Zenon
  <2>12. ASSUME NEW p \in Proc, SessionSet(p) PROVE TypeOK'
    <3>1. Moved(p, "reply") \/ Moved(p, "encode")
      BY <2>12, ZenonT(60) DEF SessionSet, Moved
    <3> HIDE DEF TypeOK
    <3> QED BY <3>1, MovedKeepsType, Zenon
  <2>13. ASSUME NEW p \in Proc, CookieEncode(p) PROVE TypeOK'
    <3>1. Moved(p, "reply")
      BY <2>13, ZenonT(60) DEF CookieEncode, Moved
    <3> HIDE DEF TypeOK
    <3> QED BY <3>1, MovedKeepsType, Zenon
  <2>14. ASSUME NEW p \in Proc, Reply(p) PROVE TypeOK'
    BY <2>14, SMT DEF Reply
  <2>15. CASE Restart
    BY <2>15, SMT DEF Restart
  <2>16. CASE UNCHANGED vars
    BY <2>16, SMT DEF vars
  <2> HIDE DEF TypeOK
  <2> QED BY <2>1, <2>2, <2>3, <2>4, <2>5, <2>6, <2>7, <2>8, <2>9, <2>10, <2>11,
             <2>12, <2>13, <2>14, <2>15, <2>16 DEF Next, Step
<1> QED BY <1>1, <1>2, PTL DEF Spec

-----------------------------------------------------------------------------
\* The PKCE state of a login lies under the prefix of its own connector.
PkceOwn == \A x \in pkce : x[1] = conn[x[2]]

\* A callback stores a session only for the login its code was issued for.
MatchedStore == \A p \in Proc : pc[p] = "store" => Matches(p)

OwnInv == PkceOwn /\ OnlyOwnConnector /\ MatchedStore

\* OwnInv is inductive.
LEMMA OwnInvHolds == Spec => []OwnInv
<1>1. Init => OwnInv
  BY SMT DEF Init, OwnInv, PkceOwn, OnlyOwnConnector, MatchedStore, Matches
<1>2. TypeOK /\ OwnInv /\ [Next]_vars => OwnInv'
  <2> SUFFICES ASSUME TypeOK, OwnInv, [Next]_vars PROVE OwnInv'
    OBVIOUS
  <2> USE DEF TypeOK, OwnInv, PkceOwn, OnlyOwnConnector, MatchedStore, Matches, Goto, Answer, Clear, Fault, at, code, state, begin
  <2>1. ASSUME NEW c \in Conn, NEW s \in State, NEW t \in Target, LoginStart(c, s, t) PROVE OwnInv'
    BY <2>1, SMT DEF LoginStart
  <2>2. ASSUME NEW c \in Conn, NEW s \in State, PkceTTL(c, s) PROVE OwnInv'
    BY <2>2, SMT DEF PkceTTL
  <2>3. ASSUME NEW s \in State, NEW k \in Code, Authorize(s, k) PROVE OwnInv'
    <3>1. PkceOwn' /\ OnlyOwnConnector'
      BY <2>3, ZenonT(60) DEF Authorize
    <3>2. ASSUME NEW p \in Proc, pc[p] = "store" PROVE Matches(p)'
      <4>1. req[p] \in Conn \X State \X Code /\ login[code(p)] # None /\ login[k] = None
        BY <2>3, <3>2, ZenonT(60) DEF Authorize
      <4>2. code(p) \in Code /\ code(p) # k
        BY <4>1, SMTT(60)
      <4>3. login'[code(p)] = login[code(p)]
        BY <2>3, <4>2, ZenonT(60) DEF Authorize
      <4> QED BY <2>3, <3>2, <4>3, ZenonT(60) DEF Authorize
    <3>3. MatchedStore'
      BY <2>3, <3>2, ZenonT(60) DEF Authorize
    <3> QED BY <3>1, <3>3, Zenon
  <2>4. ASSUME NEW p \in Proc, NEW c \in Conn, CallbackDenied(p, c) PROVE OwnInv'
    BY <2>4, SMT DEF CallbackDenied
  <2>5. ASSUME NEW p \in Proc, NEW c \in Conn, NEW s \in State, NEW k \in Code,
             Callback(p, c, s, k) PROVE OwnInv'
    BY <2>5, SMT DEF Callback
  <2>6. ASSUME NEW p \in Proc, PkceGet(p) PROVE OwnInv'
    BY <2>6, SMT DEF PkceGet, PkceFound
  <2>7. ASSUME NEW p \in Proc, PkceMiss(p) PROVE OwnInv'
    BY <2>7, SMT DEF PkceMiss
  <2>8. ASSUME NEW p \in Proc, PkceDelete(p) PROVE OwnInv'
    BY <2>8, SMT DEF PkceDelete
  <2>9. ASSUME NEW p \in Proc, Exchange(p) PROVE OwnInv'
    BY <2>9, SMT DEF Exchange
  <2>10. ASSUME NEW p \in Proc, ExchangeFails(p) PROVE OwnInv'
    BY <2>10, SMT DEF ExchangeFails
  <2>11. ASSUME NEW p \in Proc, Validate(p) PROVE OwnInv'
    BY <2>11, SMT DEF Validate
  <2>12. ASSUME NEW p \in Proc, SessionSet(p) PROVE OwnInv'
    BY <2>12, SMT DEF SessionSet
  <2>13. ASSUME NEW p \in Proc, CookieEncode(p) PROVE OwnInv'
    BY <2>13, SMT DEF CookieEncode
  <2>14. ASSUME NEW p \in Proc, Reply(p) PROVE OwnInv'
    BY <2>14, SMT DEF Reply
  <2>15. CASE Restart
    BY <2>15, SMT DEF Restart
  <2>16. CASE UNCHANGED vars
    BY <2>16, SMT DEF vars
  <2> HIDE DEF TypeOK, OwnInv
  <2> QED BY <2>1, <2>2, <2>3, <2>4, <2>5, <2>6, <2>7, <2>8, <2>9, <2>10, <2>11,
             <2>12, <2>13, <2>14, <2>15, <2>16 DEF Next, Step
<1> QED BY <1>1, <1>2, LoginTypeCorrect, PTL DEF Spec

\* Redis keeps the PKCE states of the connectors apart, so that a callback
\* gets past the lookup only on the connector its login was started on.
THEOREM CallbackOnOwnConnector == Spec => []OnlyOwnConnector
BY OwnInvHolds, PTL DEF OwnInv

-----------------------------------------------------------------------------
\* A stored session belongs to a callback that stored it where it arrived.
SessionAt ==
  \A x \in sessions :
    /\ pc[x[2]] \in {"encode", "reply", "done"}
    /\ req[x[2]] \in Conn \X State \X Code
    /\ login[code(x[2])] = state(x[2])
    /\ x[1] = at(x[2]) /\ x[1] = conn[state(x[2])]

HasSession(p) == \E c \in Conn : <<c, p>> \in sessions

\* The callback's code was exchanged by it.
Won(p) == pc[p] \in {"validate", "store", "encode"} \/ HasSession(p)

\* An exchanged code is spent, and was exchanged by one callback.
OneWinner ==
  \A p \in Proc : Won(p) =>
    /\ code(p) \in spent
    /\ \A q \in Proc : Won(q) /\ code(q) = code(p) => q = p

SessionInv == SessionAt /\ OneWinner

\* A callback that has a session is past storing it.
LEMMA SessionIsStored ==
  ASSUME SessionAt, NEW p \in Proc, HasSession(p)
  PROVE  pc[p] \in {"encode", "reply", "done"}
<1>1. PICK c \in Conn : <<c, p>> \in sessions
  BY DEF HasSession
<1> QED BY <1>1, SMT DEF SessionAt

\* Stored sessions stay where they are while no callback falls back behind them.
LEMMA SessionsKept ==
  ASSUME SessionAt, UNCHANGED <<sessions, req, conn, login>>,
         \A x \in sessions : pc[x[2]] \in {"encode", "reply", "done"}
                              => pc'[x[2]] \in {"encode", "reply", "done"}
  PROVE  SessionAt'
BY ZenonT(60) DEF SessionAt, at, code, state

\* The one winner of a code stays the one while nobody joins.
LEMMA WinnerKept ==
  ASSUME OneWinner, spent \subseteq spent',
         \A q \in Proc : Won(q)' => Won(q) /\ req'[q] = req[q]
  PROVE  OneWinner'
BY Zenon DEF OneWinner, code

\* A code becomes at most one session, kept by the login's connector, although
\* several callbacks may find the PKCE state: the IdP accepts a code once, and
\* no callback goes on without its acceptance.
THEOREM CodeMakesOneSession == Spec => []OneSessionPerCode
<1>1. Init => SessionInv
  <2> SUFFICES ASSUME Init PROVE SessionInv
    OBVIOUS
  <2>1. \A p \in Proc : ~Won(p)
    BY SMT DEF Init, Won, HasSession
  <2> QED BY <2>1 DEF Init, SessionInv, SessionAt, OneWinner
<1>2. TypeOK /\ OwnInv /\ SessionInv /\ [Next]_vars => SessionInv'
  <2> SUFFICES ASSUME TypeOK, OwnInv, SessionInv, [Next]_vars PROVE SessionInv'
    BY ZenonT(60)
  <2> USE DEF TypeOK, OwnInv, OnlyOwnConnector, MatchedStore, Matches, SessionInv, SessionAt,
              Goto, Answer, Clear, Fault, at, code, state, begin
  <2>1. ASSUME NEW c \in Conn, NEW s \in State, NEW t \in Target, LoginStart(c, s, t) PROVE SessionInv'
    <3>1. SessionAt'
      BY <2>1, SMT DEF LoginStart
    <3>2. \A q \in Proc : HasSession(q)' <=> HasSession(q)
      BY <2>1, ZenonT(60) DEF HasSession, LoginStart
    <3>3. \A q \in Proc : Won(q)' => Won(q) /\ req'[q] = req[q]
      BY <2>1, <3>2, SessionIsStored, ZenonT(60) DEF Won, LoginStart
    <3>4. spent \subseteq spent'
      BY <2>1, ZenonT(60) DEF LoginStart
    <3> QED BY <3>1, <3>3, <3>4, WinnerKept, SMTT(60) DEF SessionInv
  <2>2. ASSUME NEW c \in Conn, NEW s \in State, PkceTTL(c, s) PROVE SessionInv'
    <3>1. SessionAt'
      BY <2>2, SMT DEF PkceTTL
    <3>2. \A q \in Proc : HasSession(q)' <=> HasSession(q)
      BY <2>2, ZenonT(60) DEF HasSession, PkceTTL
    <3>3. \A q \in Proc : Won(q)' => Won(q) /\ req'[q] = req[q]
      BY <2>2, <3>2, SessionIsStored, SMT DEF Won, PkceTTL
    <3>4. spent \subseteq spent'
      BY <2>2, ZenonT(60) DEF PkceTTL
    <3> QED BY <3>1, <3>3, <3>4, WinnerKept DEF SessionInv
  <2>3. ASSUME NEW s \in State, NEW k \in Code, Authorize(s, k) PROVE SessionInv'
    <3>1. SessionAt'
      BY <2>3, SMT DEF Authorize
    <3>2. \A q \in Proc : HasSession(q)' <=> HasSession(q)
      BY <2>3, ZenonT(60) DEF HasSession, Authorize
    <3>3. \A q \in Proc : Won(q)' => Won(q) /\ req'[q] = req[q]
      BY <2>3, <3>2, SessionIsStored, ZenonT(60) DEF Won, Authorize
    <3>4. spent \subseteq spent'
      BY <2>3, ZenonT(60) DEF Authorize
    <3> QED BY <3>1, <3>3, <3>4, WinnerKept, ZenonT(60) DEF SessionInv
  <2>4. ASSUME NEW p \in Proc, NEW c \in Conn, CallbackDenied(p, c) PROVE SessionInv'
    <3>1. SessionAt'
      BY <2>4, ZenonT(60) DEF CallbackDenied
    <3>2. \A q \in Proc : HasSession(q)' <=> HasSession(q)
      BY <2>4, ZenonT(60) DEF HasSession, CallbackDenied
    <3>3. \A q \in Proc : Won(q)' => Won(q) /\ req'[q] = req[q]
      BY <2>4, <3>2, SessionIsStored, ZenonT(60) DEF Won, CallbackDenied
    <3>4. spent \subseteq spent'
      BY <2>4, ZenonT(60) DEF CallbackDenied
    <3> QED BY <3>1, <3>3, <3>4, WinnerKept, ZenonT(60) DEF SessionInv
  <2>5. ASSUME NEW p \in Proc, NEW c \in Conn, NEW s \in State, NEW k \in Code,
             Callback(p, c, s, k) PROVE SessionInv'
    <3>1. SessionAt'
      BY <2>5, ZenonT(60) DEF Callback
    <3>2. \A q \in Proc : HasSession(q)' <=> HasSession(q)
      BY <2>5, ZenonT(60) DEF HasSession, Callback
    <3>3. \A q \in Proc : Won(q)' => Won(q) /\ req'[q] = req[q]
      BY <2>5, <3>2, SessionIsStored, ZenonT(60) DEF Won, Callback
    <3>4. spent \subseteq spent'
      BY <2>5, ZenonT(60) DEF Callback
    <3> QED BY <3>1, <3>3, <3>4, WinnerKept, ZenonT(60) DEF SessionInv
  <2>6. ASSUME NEW p \in Proc, PkceGet(p) PROVE SessionInv'
    <3>1. SessionAt'
      BY <2>6, SMT DEF PkceGet
    <3>2. \A q \in Proc : HasSession(q)' <=> HasSession(q)
      BY <2>6, ZenonT(60) DEF HasSession, PkceGet
    <3>3. \A q \in Proc : Won(q)' => Won(q) /\ req'[q] = req[q]
      BY <2>6, <3>2, SessionIsStored, ZenonT(60) DEF Won, PkceGet
    <3>4. spent \subseteq spent'
      BY <2>6, ZenonT(60) DEF PkceGet
    <3> QED BY <3>1, <3>3, <3>4, WinnerKept, ZenonT(60) DEF SessionInv
  <2>7. ASSUME NEW p \in Proc, PkceMiss(p) PROVE SessionInv'
    <3>1. SessionAt'
      BY <2>7, ZenonT(60) DEF PkceMiss
    <3>2. \A q \in Proc : HasSession(q)' <=> HasSession(q)
      BY <2>7, ZenonT(60) DEF HasSession, PkceMiss
    <3>3. \A q \in Proc : Won(q)' => Won(q) /\ req'[q] = req[q]
      BY <2>7, <3>2, SessionIsStored, ZenonT(60) DEF Won, PkceMiss
    <3>4. spent \subseteq spent'
      BY <2>7, ZenonT(60) DEF PkceMiss
    <3> QED BY <3>1, <3>3, <3>4, WinnerKept DEF SessionInv
  <2>8. ASSUME NEW p \in Proc, PkceDelete(p) PROVE SessionInv'
    <3>1. SessionAt'
      BY <2>8, SMT DEF PkceDelete
    <3>2. \A q \in Proc : HasSession(q)' <=> HasSession(q)
      BY <2>8, ZenonT(60) DEF HasSession, PkceDelete
    <3>3. \A q \in Proc : Won(q)' => Won(q) /\ req'[q] = req[q]
      BY <2>8, <3>2, SessionIsStored, ZenonT(60) DEF Won, PkceDelete
    <3>4. spent \subseteq spent'
      BY <2>8, ZenonT(60) DEF PkceDelete
    <3> QED BY <3>1, <3>3, <3>4, WinnerKept DEF SessionInv
  <2>9. ASSUME NEW p \in Proc, Exchange(p) PROVE SessionInv'
    <3>1. SessionAt'
      BY <2>9, SMT DEF Exchange, Acceptable
    <3>2. code(p) \notin spent /\ spent' = spent \cup {code(p)} /\ req' = req
      BY <2>9, ZenonT(60) DEF Exchange, Acceptable
    <3>3. \A q \in Proc : HasSession(q)' <=> HasSession(q)
      BY <2>9, ZenonT(60) DEF HasSession, Exchange
    <3>4. \A q \in Proc : q # p /\ Won(q)' => Won(q)
      BY <2>9, <3>3, ZenonT(60) DEF Won, Exchange
    <3>5. \A q \in Proc : q # p /\ Won(q)' => code(q) \in spent /\ code(q) # code(p)
      BY <3>2, <3>4, ZenonT(60) DEF OneWinner
    <3>6. \A q \in Proc : code(q)' = code(q)
      BY <3>2 DEF code
    <3>7. ASSUME NEW q \in Proc, Won(q)' PROVE code(q) \in spent'
      BY <3>2, <3>5, <3>7, Zenon
    <3>8. ASSUME NEW q \in Proc, NEW o \in Proc, Won(q)', Won(o)', code(o) = code(q) PROVE o = q
      <4>1. CASE q = p \/ o = p
        BY <3>5, <3>8, <4>1, Zenon
      <4>2. CASE q # p /\ o # p
        BY <3>4, <3>8, <4>2, ZenonT(60) DEF OneWinner
      <4> QED BY <4>1, <4>2
    <3>9. OneWinner'
      BY <3>6, <3>7, <3>8, ZenonT(60) DEF OneWinner
    <3> QED BY <3>1, <3>9, ZenonT(60) DEF SessionInv
  <2>10. ASSUME NEW p \in Proc, ExchangeFails(p) PROVE SessionInv'
    <3>1. SessionAt'
      BY <2>10, ZenonT(60) DEF ExchangeFails
    <3>2. \A q \in Proc : HasSession(q)' <=> HasSession(q)
      BY <2>10, ZenonT(60) DEF HasSession, ExchangeFails
    <3>3. \A q \in Proc : Won(q)' => Won(q) /\ req'[q] = req[q]
      BY <2>10, <3>2, SessionIsStored, ZenonT(60) DEF Won, ExchangeFails
    <3>4. spent \subseteq spent'
      BY <2>10, ZenonT(60) DEF ExchangeFails
    <3> QED BY <3>1, <3>3, <3>4, WinnerKept DEF SessionInv
  <2>11. ASSUME NEW p \in Proc, Validate(p) PROVE SessionInv'
    <3>1. SessionAt'
      <4>1. \A x \in sessions : x[2] \in Proc
        BY SMT
      <4>2. \A q \in Proc : pc[q] \in {"encode", "reply", "done"}
                            => pc'[q] \in {"encode", "reply", "done"}
        BY <2>11, ZenonT(60) DEF Validate
      <4>3. UNCHANGED <<sessions, req, conn, login>>
        BY <2>11, ZenonT(60) DEF Validate
      <4> HIDE DEF SessionAt
      <4> QED BY <4>1, <4>2, <4>3, SessionsKept, ZenonT(60) DEF SessionInv
    <3>2. \A q \in Proc : HasSession(q)' <=> HasSession(q)
      BY <2>11, ZenonT(60) DEF HasSession, Validate
    <3>3. \A q \in Proc : Won(q)' => Won(q) /\ req'[q] = req[q]
      BY <2>11, <3>2, SessionIsStored, ZenonT(60) DEF Won, Validate
    <3>4. spent \subseteq spent'
      BY <2>11, ZenonT(60) DEF Validate
    <3> QED BY <3>1, <3>3, <3>4, WinnerKept DEF SessionInv
  <2>12. ASSUME NEW p \in Proc, SessionSet(p) PROVE SessionInv'
    <3>1. SessionAt'
      BY <2>12, SMTT(60) DEF SessionSet
    <3>2. \A q \in Proc : HasSession(q)' => HasSession(q) \/ q = p
      <4>1. sessions' = sessions \/ sessions' = sessions \cup {<<at(p), p>>}
        BY <2>12 DEF SessionSet
      <4>2. ASSUME NEW q \in Proc, HasSession(q)' PROVE HasSession(q) \/ q = p
        <5>1. PICK c \in Conn : <<c, q>> \in sessions'
          BY <4>2, ZenonT(60) DEF HasSession
        <5>2. <<c, q>> \in sessions \/ <<c, q>> = <<at(p), p>>
          <6>1. CASE sessions' = sessions
            BY <5>1, <6>1, SMTT(60)
          <6>2. CASE sessions' = sessions \cup {<<at(p), p>>}
            BY <5>1, <6>2, SMTT(60)
          <6> QED BY <4>1, <6>1, <6>2
        <5> QED BY <5>2, ZenonT(60) DEF HasSession
      <4> QED BY <4>2, Zenon
    <3>3. \A q \in Proc : Won(q)' => Won(q) /\ req'[q] = req[q]
      BY <2>12, <3>2, SMT DEF Won, SessionSet
    <3>4. spent \subseteq spent'
      BY <2>12, SMTT(60) DEF SessionSet
    <3> QED BY <3>1, <3>3, <3>4, WinnerKept DEF SessionInv
  <2>13. ASSUME NEW p \in Proc, CookieEncode(p) PROVE SessionInv'
    <3>1. SessionAt'
      <4>1. \A x \in sessions : x[2] \in Proc
        BY SMT
      <4>2. \A q \in Proc : pc[q] \in {"encode", "reply", "done"}
                            => pc'[q] \in {"encode", "reply", "done"}
        BY <2>13, ZenonT(60) DEF CookieEncode
      <4>3. UNCHANGED <<sessions, req, conn, login>>
        BY <2>13, ZenonT(60) DEF CookieEncode
      <4> HIDE DEF SessionAt
      <4> QED BY <4>1, <4>2, <4>3, SessionsKept, ZenonT(60) DEF SessionInv
    <3>2. \A q \in Proc : HasSession(q)' <=> HasSession(q)
      BY <2>13, ZenonT(60) DEF HasSession, CookieEncode
    <3>3. \A q \in Proc : Won(q)' => Won(q) /\ req'[q] = req[q]
      BY <2>13, <3>2, SessionIsStored, ZenonT(60) DEF Won, CookieEncode
    <3>4. spent \subseteq spent'
      BY <2>13, SMTT(60) DEF CookieEncode
    <3> QED BY <3>1, <3>3, <3>4, WinnerKept DEF SessionInv
  <2>14. ASSUME NEW p \in Proc, Reply(p) PROVE SessionInv'
    <3>1. SessionAt'
      BY <2>14, SMT DEF Reply
    <3>2. \A q \in Proc : HasSession(q)' <=> HasSession(q)
      BY <2>14, ZenonT(60) DEF HasSession, Reply
    <3>3. \A q \in Proc : Won(q)' => Won(q) /\ req'[q] = req[q]
      BY <2>14, <3>2, SessionIsStored, SMT DEF Won, Reply
    <3>4. spent \subseteq spent'
      BY <2>14, ZenonT(60) DEF Reply
    <3> QED BY <3>1, <3>3, <3>4, WinnerKept DEF SessionInv
  <2>15. CASE Restart
    <3>1. SessionAt'
      BY <2>15, ZenonT(60) DEF Restart
    <3>2. \A q \in Proc : HasSession(q)' <=> HasSession(q)
      BY <2>15, ZenonT(60) DEF HasSession, Restart
    <3>3. \A q \in Proc : Won(q)' => Won(q) /\ req'[q] = req[q]
      BY <2>15, <3>2, ZenonT(60) DEF Won, Restart
    <3>4. spent \subseteq spent'
      BY <2>15, ZenonT(60) DEF Restart
    <3> QED BY <3>1, <3>3, <3>4, WinnerKept, ZenonT(60) DEF SessionInv
  <2>16. CASE UNCHANGED vars
    BY <2>16, ZenonT(60) DEF vars, OneWinner, Won, HasSession
  <2> HIDE DEF TypeOK, SessionInv, OwnInv, OnlyOwnConnector
  <2> QED BY <2>1, <2>2, <2>3, <2>4, <2>5, <2>6, <2>7, <2>8, <2>9, <2>10, <2>11,
             <2>12, <2>13, <2>14, <2>15, <2>16 DEF Next, Step
<1>3. TypeOK /\ SessionInv => OneSessionPerCode
  <2> SUFFICES ASSUME TypeOK, SessionInv, NEW x \in sessions, NEW y \in sessions
               PROVE  /\ x[1] = conn[state(x[2])] /\ login[code(x[2])] = state(x[2])
                      /\ code(x[2]) = code(y[2]) => x = y
    BY DEF OneSessionPerCode
  <2>1. /\ x[1] = at(x[2]) /\ x[1] = conn[state(x[2])]
        /\ y[1] = at(y[2]) /\ login[code(x[2])] = state(x[2])
    BY DEF SessionInv, SessionAt
  <2>2. x \in Conn \X Proc /\ y \in Conn \X Proc
    BY DEF TypeOK
  <2>3. x = <<x[1], x[2]>> /\ y = <<y[1], y[2]>>
    BY <2>2, SMT
  <2>4. Won(x[2]) /\ Won(y[2])
    <3>1. x[1] \in Conn /\ y[1] \in Conn
      BY <2>2, SMT
    <3> QED BY <2>3, <3>1, ZenonT(60) DEF Won, HasSession
  <2>5. ASSUME code(x[2]) = code(y[2]) PROVE x = y
    <3>1. x[2] \in Proc /\ y[2] \in Proc
      BY <2>2, SMT
    <3>2. x[2] = y[2]
      BY <2>4, <2>5, <3>1 DEF SessionInv, OneWinner
    <3>3. x[1] = y[1]
      BY <2>1, <3>2, ZenonT(60) DEF at
    <3> QED BY <2>3, <3>2, <3>3
  <2> QED BY <2>1, <2>5
<1> QED BY <1>1, <1>2, <1>3, LoginTypeCorrect, OwnInvHolds, PTL DEF Spec

-----------------------------------------------------------------------------
\* A cookie follows its session: stored before it is encoded, encoded before it
\* is answered.
CookieInv ==
  /\ CookieNamesSession
  /\ \A p \in Proc :
       /\ pc[p] = "encode" => <<at(p), p>> \in sessions
       /\ answer[p] = "cookie" => pc[p] \in {"reply", "done"}

\* CookieInv is inductive.
LEMMA CookieInvHolds == Spec => []CookieInv
<1>1. Init => CookieInv
  BY SMT DEF Init, CookieInv, CookieNamesSession
<1>2. TypeOK /\ CookieInv /\ [Next]_vars => CookieInv'
  <2> SUFFICES ASSUME TypeOK, CookieInv, [Next]_vars PROVE CookieInv'
    OBVIOUS
  <2> USE DEF TypeOK, CookieInv, CookieNamesSession, Goto, Answer, Clear, Fault, at, code, state, begin
  <2>1. ASSUME NEW c \in Conn, NEW s \in State, NEW t \in Target, LoginStart(c, s, t) PROVE CookieInv'
    BY <2>1, SMT DEF LoginStart
  <2>2. ASSUME NEW c \in Conn, NEW s \in State, PkceTTL(c, s) PROVE CookieInv'
    BY <2>2, SMT DEF PkceTTL
  <2>3. ASSUME NEW s \in State, NEW k \in Code, Authorize(s, k) PROVE CookieInv'
    BY <2>3, SMT DEF Authorize
  <2>4. ASSUME NEW p \in Proc, NEW c \in Conn, CallbackDenied(p, c) PROVE CookieInv'
    BY <2>4, SMT DEF CallbackDenied
  <2>5. ASSUME NEW p \in Proc, NEW c \in Conn, NEW s \in State, NEW k \in Code,
             Callback(p, c, s, k) PROVE CookieInv'
    <3>1. pc[p] = "idle" /\ pc' = [pc EXCEPT ![p] = "get"]
      BY <2>5 DEF Callback
    <3>2. answer[p] = "cookie" => pc[p] \in {"reply", "done"}
      BY Zenon
    <3>3. answer[p] # "cookie" /\ pc'[p] = "get"
      BY <3>1, <3>2, SMT
    <3>4. \A q \in Proc : q # p => req'[q] = req[q] /\ pc'[q] = pc[q]
      BY <2>5, SMT DEF Callback
    <3>5. UNCHANGED <<sessions, answer, jar>>
      BY <2>5, ZenonT(60) DEF Callback
    <3> QED BY <3>3, <3>4, <3>5, ZenonT(60)
  <2>6. ASSUME NEW p \in Proc, PkceGet(p) PROVE CookieInv'
    BY <2>6, ZenonT(60) DEF PkceGet
  <2>7. ASSUME NEW p \in Proc, PkceMiss(p) PROVE CookieInv'
    <3>1. UNCHANGED <<sessions, req, jar>>
      BY <2>7, ZenonT(60) DEF PkceMiss
    <3>2. pc'[p] = "reply" /\ answer'[p] = "clear"
      BY <2>7, ZenonT(60) DEF PkceMiss
    <3>3. \A q \in Proc : q # p => pc'[q] = pc[q] /\ answer'[q] = answer[q]
      BY <2>7, ZenonT(60) DEF PkceMiss
    <3> QED BY <3>1, <3>2, <3>3, ZenonT(60)
  <2>8. ASSUME NEW p \in Proc, PkceDelete(p) PROVE CookieInv'
    BY <2>8, SMT DEF PkceDelete
  <2>9. ASSUME NEW p \in Proc, Exchange(p) PROVE CookieInv'
    BY <2>9, ZenonT(60) DEF Exchange
  <2>10. ASSUME NEW p \in Proc, ExchangeFails(p) PROVE CookieInv'
    <3>1. UNCHANGED <<sessions, req, jar>>
      BY <2>10, ZenonT(60) DEF ExchangeFails
    <3>2. pc'[p] = "reply" /\ answer'[p] = "clear"
      BY <2>10, ZenonT(60) DEF ExchangeFails
    <3>3. \A q \in Proc : q # p => pc'[q] = pc[q] /\ answer'[q] = answer[q]
      BY <2>10, ZenonT(60) DEF ExchangeFails
    <3> QED BY <3>1, <3>2, <3>3, ZenonT(60)
  <2>11. ASSUME NEW p \in Proc, Validate(p) PROVE CookieInv'
    <3>1. UNCHANGED <<sessions, req, jar>>
      BY <2>11, ZenonT(60) DEF Validate
    <3>2. pc[p] = "validate" /\ answer[p] # "cookie"
      BY <2>11, ZenonT(60) DEF Validate
    <3>3. answer' = answer \/ answer' = [answer EXCEPT ![p] = "clear"]
      BY <2>11, ZenonT(60) DEF Validate
    <3>4. \A q \in Proc : answer'[q] = "cookie" => answer[q] = "cookie" /\ q # p
      BY <3>2, <3>3, SMTT(60)
    <3>5. pc'[p] \in {"store", "reply"}
      BY <2>11, ZenonT(60) DEF Validate
    <3>6. \A q \in Proc : q # p => pc'[q] = pc[q]
      BY <2>11, ZenonT(60) DEF Validate
    <3> QED BY <3>1, <3>4, <3>5, <3>6, ZenonT(60)
  <2>12. ASSUME NEW p \in Proc, SessionSet(p) PROVE CookieInv'
    <3>1. sessions \subseteq sessions' /\ UNCHANGED <<req, jar>>
      BY <2>12, ZenonT(60) DEF SessionSet
    <3>2. pc[p] = "store" /\ answer[p] # "cookie"
      BY <2>12, ZenonT(60) DEF SessionSet
    <3>3. answer' = answer \/ answer' = [answer EXCEPT ![p] = "error"]
      BY <2>12, ZenonT(60) DEF SessionSet
    <3>4. \A q \in Proc : answer'[q] = "cookie" => answer[q] = "cookie" /\ q # p
      BY <3>2, <3>3, SMTT(60)
    <3>5. pc'[p] = "encode" => <<at(p), p>> \in sessions'
      BY <2>12, ZenonT(60) DEF SessionSet
    <3>6. \A q \in Proc : q # p => pc'[q] = pc[q]
      BY <2>12, ZenonT(60) DEF SessionSet
    <3> QED BY <3>1, <3>4, <3>5, <3>6, ZenonT(60)
  <2>13. ASSUME NEW p \in Proc, CookieEncode(p) PROVE CookieInv'
    BY <2>13, SMT DEF CookieEncode
  <2>14. ASSUME NEW p \in Proc, Reply(p) PROVE CookieInv'
    BY <2>14, ZenonT(60) DEF Reply
  <2>15. CASE Restart
    BY <2>15, ZenonT(60) DEF Restart
  <2>16. CASE UNCHANGED vars
    BY <2>16, SMT DEF vars
  <2> HIDE DEF TypeOK, CookieInv
  <2> QED BY <2>1, <2>2, <2>3, <2>4, <2>5, <2>6, <2>7, <2>8, <2>9, <2>10, <2>11,
             <2>12, <2>13, <2>14, <2>15, <2>16 DEF Next, Step
<1> QED BY <1>1, <1>2, LoginTypeCorrect, PTL DEF Spec

\* LoginEnd never lets a cookie out before its session is in Redis, whichever
\* of its calls fail.
THEOREM CookieFollowsSession == Spec => []CookieNamesSession
BY CookieInvHolds, PTL DEF CookieInv

-----------------------------------------------------------------------------
\* The callback is past the deletion of its PKCE state.
Past(p) ==
  pc[p] \in {"exchange", "validate", "store", "encode"} \/ answer[p] = "cookie"

\* The PKCE state of such a callback is gone, on every connector.
Gone(p) ==
  /\ state(p) \in State /\ conn[state(p)] # None
  /\ \A c \in Conn : <<c, state(p)>> \notin pkce

GoneInv == faults = 0 => \A p \in Proc : Past(p) => Gone(p)

\* A step that starts no login and takes no callback past the
\* deletion leaves deleted states deleted.
LEMMA GoneKept ==
  ASSUME GoneInv, faults' = 0 => faults = 0, pkce' \subseteq pkce, conn' = conn,
         \A q \in Proc : Past(q)' => Past(q) /\ req'[q] = req[q]
  PROVE  GoneInv'
<1> SUFFICES ASSUME faults' = 0, NEW q \in Proc, Past(q)' PROVE Gone(q)'
  BY Zenon DEF GoneInv
<1>1. Gone(q) /\ req'[q] = req[q]
  BY DEF GoneInv
<1>2. state(q)' = state(q)
  BY <1>1 DEF state
<1> QED BY <1>1, <1>2, ZenonT(60) DEF Gone

LEMMA GoneStep ==
  ASSUME TypeOK, OwnInv, CookieInv, GoneInv, [Next]_vars
  PROVE  GoneInv'
<1>0. faults \in Nat
  BY SMTT(60) DEF TypeOK
<1>1. ASSUME NEW c \in Conn, NEW s \in State, NEW t \in Target, LoginStart(c, s, t) PROVE GoneInv'
  <2>1. /\ conn[s] = None /\ conn' = [conn EXCEPT ![s] = c] /\ pkce' = pkce \cup {<<c, s>>}
        /\ UNCHANGED <<pc, req, answer, faults>>
    BY <1>1, ZenonT(60) DEF LoginStart
  <2> SUFFICES ASSUME faults = 0, NEW q \in Proc, Past(q) PROVE Gone(q)'
    BY <2>1 DEF GoneInv, Past
  <2>2. Gone(q)
    BY DEF GoneInv
  <2>3. state(q)' = state(q)
    BY <2>1, ZenonT(60) DEF state
  <2>4. state(q) # s /\ state(q) \in State
    BY <2>1, <2>2, ZenonT(60) DEF Gone
  <2>5. conn'[state(q)] = conn[state(q)]
    BY <2>1, <2>4, ZenonT(60) DEF TypeOK
  <2> QED BY <2>1, <2>2, <2>3, <2>4, <2>5 DEF Gone
<1>2. ASSUME NEW s \in State, NEW k \in Code, Authorize(s, k) PROVE GoneInv'
  BY <1>2, GoneKept, ZenonT(60) DEF Authorize, begin, Past
<1>3. ASSUME NEW c \in Conn, NEW s \in State, PkceTTL(c, s) PROVE GoneInv'
  BY <1>3, GoneKept DEF PkceTTL, begin, Past
<1>4. ASSUME NEW p \in Proc, NEW c \in Conn, CallbackDenied(p, c) PROVE GoneInv'
  <2>1. \A q \in Proc : Past(q)' => Past(q) /\ req'[q] = req[q]
    BY <1>4, ZenonT(60) DEF CallbackDenied, Clear, Answer, Past, TypeOK
  <2> QED BY <1>4, <2>1, GoneKept DEF CallbackDenied, begin
<1>5. ASSUME NEW p \in Proc, NEW c \in Conn, NEW s \in State, NEW k \in Code,
             Callback(p, c, s, k) PROVE GoneInv'
  <2>1. pc[p] = "idle" /\ answer[p] # "cookie"
    BY <1>5, ZenonT(60) DEF Callback, CookieInv
  <2>2. \A q \in Proc : Past(q)' => Past(q) /\ req'[q] = req[q]
    BY <1>5, <2>1, SMT DEF Callback, Goto, Past, TypeOK
  <2> QED BY <1>5, <2>2, GoneKept DEF Callback, begin
<1>6. ASSUME NEW p \in Proc, PkceDelete(p) PROVE GoneInv'
  <2>1. CASE Fault
    BY <1>0, <2>1, SMT DEF Fault, GoneInv
  <2>2. CASE pkce' = pkce \ {<<at(p), state(p)>>} /\ UNCHANGED faults
    <3>1. /\ pc[p] = "delete" /\ UNCHANGED <<conn, req, answer>>
          /\ \A q \in Proc : q # p => pc'[q] = pc[q]
      BY <1>6, ZenonT(60) DEF PkceDelete, begin, Goto, TypeOK
    <3>2. req[p] \in Conn \X State \X Code /\ conn[state(p)] # None /\ at(p) = conn[state(p)]
      BY <3>1, ZenonT(60) DEF TypeOK, OwnInv, OnlyOwnConnector, state
    <3>7. state(p) \in State
      BY <3>2, SMT DEF state
    <3>3. \A c \in Conn : <<c, state(p)>> \in pkce => c = at(p)
      BY <3>2, <3>7, ZenonT(60) DEF OwnInv, PkceOwn
    <3>4. \A q \in Proc : state(q)' = state(q)
      BY <3>1, ZenonT(60) DEF state
    <3>5. Gone(p)'
      BY <2>2, <3>1, <3>2, <3>3, <3>4, <3>7, ZenonT(60) DEF Gone
    <3>6. ASSUME NEW q \in Proc, q # p, faults = 0, Past(q)' PROVE Gone(q)'
      <4>1. Gone(q)
        BY <3>1, <3>6 DEF Past, GoneInv
      <4> QED BY <2>2, <3>1, <3>4, <4>1, ZenonT(60) DEF Gone
    <3> QED BY <2>2, <3>5, <3>6, ZenonT(60) DEF GoneInv
  <2> QED BY <1>6, <2>1, <2>2 DEF PkceDelete
<1>7. ASSUME NEW p \in Proc,
             PkceGet(p) \/ PkceMiss(p) \/ Exchange(p) \/ ExchangeFails(p) \/ Validate(p)
               \/ SessionSet(p) \/ CookieEncode(p) \/ Reply(p)
      PROVE  GoneInv'
  <2>1. conn' = conn /\ pkce' = pkce /\ req' = req /\ (faults' = faults \/ faults' = faults + 1)
    BY <1>7 DEF PkceGet, PkceMiss, Exchange, ExchangeFails, Validate, SessionSet, CookieEncode, Reply, Fault, begin
  <2>2. \A q \in Proc : Past(q)' => Past(q)
    BY <1>7, SMT DEF PkceGet, PkceMiss, Exchange, ExchangeFails, Validate, SessionSet, CookieEncode, Reply,
                     Goto, Answer, Clear, Past, TypeOK
  <2>3. faults' = 0 => faults = 0
    BY <1>0, <2>1, SMT
  <2> QED BY <2>1, <2>2, <2>3, GoneKept
<1>8. CASE Restart
  BY <1>8, GoneKept, ZenonT(60) DEF Restart, begin, Past
<1>9. CASE UNCHANGED vars
  BY <1>9, GoneKept DEF vars, begin, Past
<1> QED BY <1>1, <1>2, <1>3, <1>4, <1>5, <1>6, <1>7, <1>8, <1>9, ZenonT(60) DEF Next, Step

\* A step that finds a PKCE state finds one that nobody has deleted.
LEMMA FoundStep ==
  ASSUME TypeOK, GoneInv, [Next]_vars, NEW s \in State, uses'[s] > uses[s], faults = 0,
         NEW q \in Proc, Past(q)
  PROVE  state(q) # s
<1>0. uses[s] \in Nat
  BY Zenon DEF TypeOK
<1>1. CASE uses' = uses
  BY <1>0, <1>1, SMT
<1>2. ASSUME NEW p \in Proc, PkceGet(p) PROVE state(q) # s
  <2>1. uses' = [uses EXCEPT ![state(p)] = @ + 1] /\ <<at(p), state(p)>> \in pkce
    BY <1>2, ZenonT(60) DEF PkceGet, PkceFound
  <2>4. req[p] \in Conn \X State \X Code
    BY <1>2, ZenonT(60) DEF PkceGet, TypeOK
  <2>5. at(p) \in Conn
    BY <2>4, SMT DEF at
  <2>6. DOMAIN uses = State
    BY Zenon DEF TypeOK
  <2>2. state(p) = s /\ at(p) \in Conn
    BY <1>0, <2>1, <2>5, <2>6, SMT
  <2>3. Gone(q)
    BY DEF GoneInv
  <2> QED BY <2>1, <2>2, <2>3 DEF Gone
<1>3. uses' = uses \/ \E p \in Proc : PkceGet(p)
  BY ZenonT(60) DEF Next, Step, vars, Restart, LoginStart, PkceTTL, Authorize, CallbackDenied, Callback, PkceMiss, PkceDelete,
         Exchange, ExchangeFails, Validate, SessionSet, CookieEncode, Reply
<1> QED BY <1>1, <1>2, <1>3

\* Without failures, no callback finds the PKCE state of a login once another
\* has gone on to exchange a code for it, for any number of callbacks,
\* connectors and codes (LoginEnd reads and deletes by two commands).
THEOREM StateFoundUntilDeleted == Spec => FoundUntilDeleted
<1>1. Spec => [](TypeOK /\ OwnInv /\ CookieInv)
  BY LoginTypeCorrect, OwnInvHolds, CookieInvHolds, PTL
<1>2. Init => GoneInv
  BY DEF Init, GoneInv, Past
<1>3. TypeOK /\ OwnInv /\ CookieInv /\ GoneInv /\ [Next]_vars => GoneInv'
  BY GoneStep
<1>4. TypeOK /\ GoneInv /\ [Next]_vars =>
        [\A s \in State : uses'[s] > uses[s] =>
           \/ faults > 0
           \/ \A p \in Proc :
                pc[p] \in {"exchange", "validate", "store", "encode"} \/ answer[p] = "cookie"
                  => state(p) # s]_vars
  <2> SUFFICES ASSUME TypeOK, GoneInv, [Next]_vars, NEW s \in State, uses'[s] > uses[s], ~(faults > 0),
                      NEW p \in Proc, Past(p)
               PROVE  state(p) # s
    BY DEF Past
  <2>1. faults = 0
    BY SMT DEF TypeOK
  <2> QED BY <2>1, FoundStep
<1> QED BY <1>1, <1>2, <1>3, <1>4, PTL DEF Spec, FoundUntilDeleted

-----------------------------------------------------------------------------
(* Redirect targets.                                                       *)

\* Whatever is validated, the result is a URL of a trusted origin.
LEMMA RedirectIsTrusted ==
  ASSUME NEW g, NEW t
  PROVE  RedirectURL(g, t).form = "url" /\ RedirectURL(g, t).origin \in Trusted(g)
<1>1. Home(g).form = "url" /\ Home(g).origin \in Trusted(g)
  BY SMT DEF Home, URL, Trusted
<1>2. CASE t.form = "none"
  BY <1>1, <1>2, SMT DEF RedirectURL, ValidateRedirect
<1>3. CASE t.form = "path"
  <2>1. URL(g.app.origin, g.app.path \o t.path).form = "url"
    BY SMT DEF URL
  <2>2. URL(g.app.origin, g.app.path \o t.path).origin \in Trusted(g)
    BY SMT DEF URL, Trusted
  <2> QED BY <1>1, <1>3, <2>1, <2>2, SMT DEF RedirectURL, ValidateRedirect
<1>4. CASE t.form = "url"
  BY <1>1, <1>4, SMT DEF RedirectURL, ValidateRedirect
<1>5. CASE t.form \notin {"none", "path", "url"}
  BY <1>1, <1>5, SMT DEF RedirectURL, ValidateRedirect
<1> QED BY <1>2, <1>3, <1>4, <1>5

\* A URL is taken as it is or replaced by the base URL.
LEMMA URLIsKeptOrHome ==
  ASSUME NEW g, NEW t, t.form = "url"
  PROVE  RedirectURL(g, t) = t \/ RedirectURL(g, t) = Home(g)
BY SMT DEF RedirectURL, ValidateRedirect

\* Validating a target twice, with settings that agree on it, is validating it
\* once.
LEMMA ValidatedTwice ==
  ASSUME NEW u, NEW g, NEW t, t.path \in Seq(STRING),
         ValidateRedirect(g, t) # None, ValidateRedirect(g, t) = ValidateRedirect(u, t),
         t.form = "path" => g.app.path = <<>>
  PROVE  RedirectURL(g, RedirectURL(u, t)) = ValidateRedirect(g, t)
<1> DEFINE v == ValidateRedirect(g, t)
<1>1. RedirectURL(u, t) = v
  BY Zenon DEF RedirectURL
<1>2. CASE t.form = "none"
  <2>1. v = Home(g) /\ Home(g).form = "url"
    BY <1>2, SMT DEF ValidateRedirect, Home, URL
  <2> QED BY <1>1, <2>1, URLIsKeptOrHome, Zenon
<1>3. CASE t.form = "path"
  <2>1. PathAllowed(g, t.path) /\ v = URL(g.app.origin, g.app.path \o t.path)
    BY <1>3, SMT DEF ValidateRedirect
  <2>2. g.app.path \o t.path = t.path
    BY <1>3, ConcatEmptySeq, Zenon
  <2>3. v.form = "url" /\ v.origin = g.app.origin /\ v.path = t.path
    BY <2>1, <2>2, SMT DEF URL
  <2>4. v.origin \in Trusted(g) /\ PathAllowed(g, v.path)
    BY <2>1, <2>3, ZenonT(60) DEF Trusted
  <2>5. ValidateRedirect(g, v) = v
    <3> HIDE DEF v
    <3> QED BY <2>3, <2>4, SMT DEF ValidateRedirect
  <2> QED BY <1>1, <2>5, ZenonT(60) DEF RedirectURL
<1>4. CASE t.form = "url"
  <2>1. v = t
    BY <1>4, SMT DEF ValidateRedirect
  <2> QED BY <1>1, <2>1, ZenonT(60) DEF RedirectURL
<1>5. CASE t.form \notin {"none", "path", "url"}
  BY <1>5, SMT DEF ValidateRedirect
<1> QED BY <1>2, <1>3, <1>4, <1>5

\* What is stored with a login is its target as validated when it started.
StoredInv ==
  \A s \in State : conn[s] # None =>
    to[s] = RedirectURL(Setting[begun[s].under], begun[s].asked)

\* Only the start of a login stores a target.
LEMMA StoredStep ==
  ASSUME TypeOK, StoredInv, [Next]_vars
  PROVE  StoredInv'
<1>1. ASSUME NEW c \in Conn, NEW s \in State, NEW t \in Target, LoginStart(c, s, t)
      PROVE  StoredInv'
  <2>1. /\ conn' = [conn EXCEPT ![s] = c] /\ to' = [to EXCEPT ![s] = RedirectURL(setting, t)]
        /\ begun' = [begun EXCEPT ![s] = [asked |-> t, under |-> boot]]
    BY <1>1, ZenonT(60) DEF LoginStart
  <2>2. DOMAIN conn = State /\ DOMAIN to = State /\ DOMAIN begun = State
    BY Zenon DEF TypeOK
  <2>3. to'[s] = RedirectURL(setting, t) /\ begun'[s].asked = t /\ begun'[s].under = boot
    BY <2>1, <2>2, SMT
  <2>4. \A r \in State : r # s => conn'[r] = conn[r] /\ to'[r] = to[r] /\ begun'[r] = begun[r]
    BY <2>1, <2>2, Zenon
  <2> QED BY <2>3, <2>4, ZenonT(60) DEF StoredInv, setting
<1>2. CASE UNCHANGED begin
  BY <1>2, ZenonT(60) DEF begin, StoredInv
<1>3. \/ UNCHANGED begin
      \/ \E c \in Conn, s \in State, t \in Target : LoginStart(c, s, t)
  BY ZenonT(60) DEF Next, Step, vars, Restart, PkceTTL, Authorize, CallbackDenied, Callback,
       PkceGet, PkceMiss, PkceDelete, Exchange, ExchangeFails, Validate, SessionSet,
       CookieEncode, Reply
<1> QED BY <1>1, <1>2, <1>3

\* Where an answer sends the browser: nowhere or to the app, unless it carries
\* the cookie of a login.
LEMMA WhereAnswersGo ==
  ASSUME TypeOK, [Next]_vars, NEW p \in Proc, dest'[p] # dest[p], dest'[p] # None
  PROVE  \/ dest'[p] = Home(setting) /\ answer'[p] # "cookie"
         \/ pc[p] = "encode" /\ dest'[p] = RedirectURL(setting, to[state(p)])
<1> DEFINE Goal == \/ dest'[p] = Home(setting) /\ answer'[p] # "cookie"
                   \/ pc[p] = "encode" /\ dest'[p] = RedirectURL(setting, to[state(p)])
<1>0. DOMAIN dest = Proc /\ DOMAIN answer = Proc
  BY Zenon DEF TypeOK
<1>1. ASSUME NEW q \in Proc, NEW a, NEW d, Answer(q, a, d) PROVE q = p /\ dest'[p] = d /\ answer'[p] = a
  BY <1>0, <1>1, ZenonT(60) DEF Answer
<1>2. ASSUME NEW q \in Proc, Clear(q) PROVE Goal
  <2>1. dest'[p] = Home(setting) /\ answer'[p] = "clear"
    BY <1>1, <1>2, ZenonT(60) DEF Clear
  <2> QED BY <2>1
<1>3. ASSUME NEW q \in Proc, Answer(q, "error", None) PROVE Goal
  BY <1>1, <1>3, Zenon
<1>4. ASSUME NEW q \in Proc, CookieEncode(q) PROVE Goal
  <2>1. CASE Answer(q, "cookie", RedirectURL(setting, to[state(q)]))
    <3>1. q = p /\ dest'[p] = RedirectURL(setting, to[state(q)])
      BY <1>1, <2>1, Zenon
    <3> QED BY <1>4, <3>1, ZenonT(60) DEF CookieEncode
  <2> QED BY <1>3, <1>4, <2>1, ZenonT(60) DEF CookieEncode
<1>5. \/ UNCHANGED dest
      \/ \E q \in Proc : Clear(q) \/ Answer(q, "error", None) \/ CookieEncode(q)
  BY ZenonT(60) DEF Next, Step, vars, Restart, LoginStart, PkceTTL, Authorize, CallbackDenied,
       Callback, PkceGet, PkceMiss, PkceDelete, Exchange, ExchangeFails, Validate, SessionSet, Reply
<1> QED BY <1>2, <1>3, <1>4, <1>5, Zenon

\* Whatever settings the process is restarted with between the start and the end
\* of a login, LoginEnd sends the browser only where both starts of the process
\* allow or to the app, and to the target that was asked for when they agree.
THEOREM RedirectsAlwaysAllowed == Spec => RedirectsAllowed
<1>1. Init => StoredInv
  BY SMT DEF Init, StoredInv
<1>2. TypeOK /\ StoredInv /\ [Next]_vars => StoredInv'
  BY StoredStep
<1>3. ASSUME TypeOK, StoredInv, [Next]_vars, NEW p \in Proc,
             dest'[p] # dest[p], dest'[p] # None
      PROVE  /\ dest'[p].origin \in Trusted(setting)
             /\ answer'[p] = "cookie" =>
                  LET asked == begun[state(p)].asked
                      then  == Setting[begun[state(p)].under]
                      now   == ValidateRedirect(setting, asked)
                  IN  /\ dest'[p].origin \in Trusted(then) \cup {setting.app.origin}
                      /\ now # None /\ now = ValidateRedirect(then, asked)
                           /\ (asked.form = "path" => setting.app.path = <<>>)
                           => dest'[p] = now
  <2> DEFINE asked == begun[state(p)].asked
             then  == Setting[begun[state(p)].under]
             now   == ValidateRedirect(setting, asked)
  <2>1. CASE dest'[p] = Home(setting) /\ answer'[p] # "cookie"
    BY <2>1, SMT DEF Home, URL, Trusted
  <2>2. CASE pc[p] = "encode" /\ dest'[p] = RedirectURL(setting, to[state(p)])
    <3>1. req[p] \in Conn \X State \X Code /\ conn[state(p)] # None
      BY <1>3, <2>2, ZenonT(60) DEF TypeOK, state
    <3>2. state(p) \in State
      BY <3>1, SMT DEF state
    <3>3. asked \in Target /\ to[state(p)] = RedirectURL(then, asked)
      BY <1>3, <3>1, <3>2, ZenonT(60) DEF TypeOK, StoredInv
    <3>4. dest'[p] = RedirectURL(setting, RedirectURL(then, asked))
      BY <2>2, <3>3
    <3>5. dest'[p].origin \in Trusted(setting)
      BY <3>4, RedirectIsTrusted, Zenon
    <3>6. dest'[p].origin \in Trusted(then) \cup {setting.app.origin}
      <4>1. RedirectURL(then, asked).form = "url" /\ RedirectURL(then, asked).origin \in Trusted(then)
        BY RedirectIsTrusted, Zenon
      <4>2. dest'[p] = RedirectURL(then, asked) \/ dest'[p] = Home(setting)
        BY <3>4, <4>1, URLIsKeptOrHome, Zenon
      <4>3. Home(setting).origin = setting.app.origin
        BY SMT DEF Home, URL
      <4> QED BY <4>1, <4>2, <4>3, Zenon
    <3>7. ASSUME now # None, now = ValidateRedirect(then, asked),
                 asked.form = "path" => setting.app.path = <<>>
          PROVE  dest'[p] = now
      <4>1. asked.path \in Seq(STRING)
        BY <3>3, LoginAssumption, Zenon
      <4> HIDE DEF asked, then
      <4> QED BY <3>4, <3>7, <4>1, ValidatedTwice, Zenon
    <3> QED BY <3>5, <3>6, <3>7, Zenon
  <2> QED BY <1>3, <2>1, <2>2, WhereAnswersGo, Zenon
<1>4. TypeOK /\ StoredInv /\ [Next]_vars =>
        [\A p \in Proc : dest'[p] # dest[p] /\ dest'[p] # None =>
           /\ dest'[p].origin \in Trusted(setting)
           /\ answer'[p] = "cookie" =>
                LET asked == begun[state(p)].asked
                    then  == Setting[begun[state(p)].under]
                    now   == ValidateRedirect(setting, asked)
                IN  /\ dest'[p].origin \in Trusted(then) \cup {setting.app.origin}
                    /\ now # None /\ now = ValidateRedirect(then, asked)
                         /\ (asked.form = "path" => setting.app.path = <<>>)
                         => dest'[p] = now]_vars
  BY <1>3, Zenon
<1> QED BY <1>1, <1>2, <1>4, LoginTypeCorrect, PTL DEF Spec, RedirectsAllowed
=============================================================================
