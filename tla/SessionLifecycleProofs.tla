----------------------- MODULE SessionLifecycleProofs -----------------------
(* Proofs about SessionLifecycle for any number of handlers, any requests   *)
(* and any bounds.                                                          *)
EXTENDS SessionLifecycle, FiniteSetTheorems, TLAPS

\* A session has at most one refresh token, a number.
LEMMA RTOfType ==
  ASSUME NEW s \in Session \cup {NoSession}
  PROVE  RTOf(s) \in SUBSET Nat
BY Zenon DEF RTOf, Session

\* Types are preserved by every step of the handlers and of the environment.
LEMMA TypeStep == TypeOK /\ [Next]_vars => TypeOK'
<1> SUFFICES ASSUME TypeOK, [Next]_vars PROVE TypeOK'
  BY Zenon
<1> USE ConstantsAssumption DEF TypeOK, PC, Locking, Critical, Session
<1>1. ASSUME NEW p \in Proc, RefreshGet(p) PROVE TypeOK'
  BY <1>1 DEF RefreshGet, Goto, Hold, NoFault, timeVars, idpVars
<1>2. ASSUME NEW p \in Proc, ResolveGet(p) PROVE TypeOK'
  BY <1>2 DEF ResolveGet, Goto, Hold, NoFault, timeVars, idpVars
<1>3. ASSUME NEW p \in Proc, AttachGet(p) PROVE TypeOK'
  BY <1>3 DEF AttachGet, Goto, Hold, NoFault, timeVars, idpVars
<1>4. ASSUME NEW p \in Proc, LogoutGet(p) PROVE TypeOK'
  BY <1>4 DEF LogoutGet, Goto, Hold, NoFault, timeVars, idpVars
<1>22. ASSUME NEW p \in Proc, RevokeGet(p) PROVE TypeOK'
  BY <1>22 DEF RevokeGet, Goto, Hold, NoFault, timeVars, idpVars
<1>5. ASSUME NEW p \in Proc, ObtainFree(p) PROVE TypeOK'
  BY <1>5, Zenon DEF ObtainFree, Goto, NoFault, timeVars, idpVars
<1>6. ASSUME NEW p \in Proc, ObtainContended(p) PROVE TypeOK'
  BY <1>6, Zenon DEF ObtainContended, Finish, Goto, Hold, NoFault, timeVars, idpVars
<1>7. ASSUME NEW p \in Proc, ObtainError(p) PROVE TypeOK'
  BY <1>7 DEF ObtainError, Finish, Goto, Hold, Fault, timeVars, idpVars
<1>8. ASSUME NEW p \in Proc, Reread(p) PROVE TypeOK'
  BY <1>8 DEF Reread, Goto, Hold, NoFault, timeVars, idpVars
<1>9. ASSUME NEW p \in Proc, IdPGrant(p) PROVE TypeOK'
  <2> PICK rotate \in Rotates :
        LET rt == IF rotate THEN gen + 1 ELSE local[p].rt
        IN /\ liveRT' = (liveRT \ {local[p].rt}) \cup {rt}
           /\ \/ /\ Goto(p, "apply")
                 /\ Hold(p, [local[p] EXCEPT !.at = gen + 1, !.rt = rt])
                 /\ NoFault
                 /\ UNCHANGED dropped
              \/ /\ Goto(p, "release") /\ Hold(p, NoSession)
                 /\ Fault
                 /\ dropped' = dropped \cup ({rt} \ RTOf(session))
    BY <1>9, Zenon DEF IdPGrant
  <2> DEFINE rt == IF rotate THEN gen + 1 ELSE local[p].rt
  <2>1. rt \in Nat /\ gen + 1 \in Nat \ {0} /\ local[p] \in Session
    BY <1>9 DEF IdPGrant
  <2>2. gen' = gen + 1 /\ UNCHANGED <<session, lock, due, expired, reuses, revoked, losses>>
    BY <1>9, Zenon DEF IdPGrant, timeVars
  <2>3. liveRT' \in SUBSET Nat
    BY <2>1, ZenonT(60)
  <2>4. CASE /\ Goto(p, "apply")
             /\ Hold(p, [local[p] EXCEPT !.at = gen + 1, !.rt = rt])
             /\ NoFault
             /\ UNCHANGED dropped
    <3>1. [local[p] EXCEPT !.at = gen + 1, !.rt = rt] \in Session
      BY <2>1, ZenonT(60)
    <3> HIDE DEF rt
    <3> QED
      BY <2>1, <2>2, <2>3, <2>4, <3>1 DEF Goto, Hold, NoFault
  <2>5. CASE /\ Goto(p, "release") /\ Hold(p, NoSession)
             /\ Fault
             /\ dropped' = dropped \cup ({rt} \ RTOf(session))
    <3>1. dropped' \in SUBSET Nat
      BY <2>1, <2>5, Zenon
    <3> HIDE DEF rt
    <3> QED
      BY <2>1, <2>2, <2>3, <2>5, <3>1, SMTT(60) DEF Goto, Hold, Fault
  <2> QED
    BY <2>4, <2>5, Zenon
<1>10. ASSUME NEW p \in Proc, IdPReject(p) PROVE TypeOK'
  BY <1>10 DEF IdPReject, Goto, Hold, NoFault, timeVars
<1>11. ASSUME NEW p \in Proc, IdPUnavailable(p) PROVE TypeOK'
  BY <1>11 DEF IdPUnavailable, Goto, Hold, Fault, NoFault, timeVars, idpVars
<1>12. ASSUME NEW p \in Proc, StoreRefreshed(p) PROVE TypeOK'
  BY <1>12, Zenon DEF StoreRefreshed, Goto, Hold, NoFault, timeVars, idpVars
<1>13. ASSUME NEW p \in Proc, StoreError(p) PROVE TypeOK'
  <2>1. dropped' \in SUBSET Nat
    BY <1>13, RTOfType, Zenon DEF StoreError
  <2> QED
    BY <1>13, <2>1 DEF StoreError, Goto, Hold, Fault, timeVars, idpVars
<1>14. ASSUME NEW p \in Proc, Release(p) PROVE TypeOK'
  BY <1>14, Zenon DEF Release, Finish, Goto, Hold, NoFault, timeVars, idpVars
<1>15. ASSUME NEW p \in Proc, AttachSet(p) PROVE TypeOK'
  BY <1>15, Zenon DEF AttachSet, Finish, Goto, Hold, NoFault, RTOf, timeVars, idpVars
<1>16. ASSUME NEW p \in Proc, Delete(p) PROVE TypeOK'
  BY <1>16, Zenon DEF Delete, Finish, Goto, Hold, NoFault, RTOf, timeVars, idpVars
<1>17. ASSUME NEW p \in Proc, Abort(p) PROVE TypeOK'
  <2>1. dropped' \in SUBSET Nat
    BY <1>17, RTOfType, Zenon DEF Abort
  <2> QED
    BY <1>17, <2>1 DEF Abort, Finish, Goto, Hold, Fault, timeVars, idpVars
<1>18. CASE TokenDue \/ TokenExpires
  BY <1>18, ZenonT(60) DEF TokenDue, TokenExpires, idpVars
<1>19. CASE SessionTTL
  BY <1>19, Zenon DEF SessionTTL, RTOf, timeVars, idpVars
<1>20. CASE LockTTL
  BY <1>20, Zenon DEF LockTTL, timeVars, idpVars
<1>23. CASE LockLost
  BY <1>23 DEF LockLost, timeVars, idpVars
<1>21. CASE UNCHANGED vars
  BY <1>21, Zenon DEF vars
<1> QED
  BY <1>1, <1>2, <1>3, <1>4, <1>5, <1>6, <1>7, <1>8, <1>9, <1>10, <1>11, <1>12,
     <1>13, <1>14, <1>15, <1>16, <1>17, <1>18, <1>19, <1>20, <1>21,
     <1>22, <1>23, ZenonT(60) DEF Next, Arrive, Proceed, Fail, Environment

\* Every reachable state has its types, whatever the constants.
THEOREM TypeCorrect == Spec => []TypeOK
<1>1. Init => TypeOK
  <2> SUFFICES ASSUME Init PROVE TypeOK
    BY Zenon
  <2>1. PICK rt \in {0, 1} : /\ session = [at |-> 1, rt |-> rt, tc |-> NoTenant]
                            /\ liveRT = {rt} \ {0}
    BY Zenon DEF Init
  <2>2. session \in Session /\ liveRT \in SUBSET Nat
    BY <2>1, ConstantsAssumption DEF Session
  <2>3. pc \in [Proc -> PC] /\ local \in [Proc -> Session \cup {NoSession}]
    BY Zenon DEF Init, PC
  <2>4. \A p \in Proc : pc[p] = "idle"
    BY Zenon DEF Init
  <2>5. reuses \in 0..MaxReuses /\ faults \in 0..MaxFaults /\ losses \in 0..MaxLosses
    BY ConstantsAssumption DEF Init
  <2>6. /\ lock \in Proc \cup {Free} /\ gen \in Nat \ {0}
        /\ due \in SUBSET Nat /\ expired \in SUBSET due /\ dropped \in SUBSET Nat
    BY DEF Init
  <2>7. revoked \in BOOLEAN
    BY Zenon DEF Init
  <2> QED
    BY <2>2, <2>3, <2>4, <2>5, <2>6, <2>7, Zenon DEF TypeOK, Locking
<1> QED
  BY <1>1, TypeStep, PTL DEF Spec

-----------------------------------------------------------------------------
(* Deletion is final once no handler that read the session will write it.   *)

\* A step from a state in which the session has ended leads to such a state.
LEMMA EndedStep == TypeOK /\ Ended /\ [Next]_vars => Ended'
<1> SUFFICES ASSUME TypeOK, Ended, [Next]_vars PROVE Ended'
  BY Zenon
<1> USE DEF Ended, Writing
<1>1. ASSUME NEW p \in Proc, Arrive(p) PROVE FALSE
  BY <1>1, Zenon DEF Arrive, RefreshGet, ResolveGet, AttachGet, LogoutGet, RevokeGet
<1>2. ASSUME NEW p \in Proc, ObtainFree(p) PROVE Ended'
  BY <1>2, Zenon DEF ObtainFree, Locking, Goto, TypeOK
<1>3. ASSUME NEW p \in Proc, ObtainContended(p) PROVE Ended'
  BY <1>3, Zenon DEF ObtainContended, Finish, Goto, TypeOK
<1>4. ASSUME NEW p \in Proc, ObtainError(p) PROVE Ended'
  BY <1>4, Zenon DEF ObtainError, Finish, Goto, TypeOK
<1>5. ASSUME NEW p \in Proc, Reread(p) PROVE Ended'
  BY <1>5, Zenon DEF Reread, Goto, TypeOK
<1>6. ASSUME NEW p \in Proc, IdPGrant(p) \/ IdPReject(p) \/ IdPUnavailable(p) PROVE FALSE
  BY <1>6, Zenon DEF IdPGrant, IdPReject, IdPUnavailable
<1>7. ASSUME NEW p \in Proc, StoreRefreshed(p) \/ StoreError(p) \/ AttachSet(p) PROVE FALSE
  BY <1>7, Zenon DEF StoreRefreshed, StoreError, AttachSet
<1>8. ASSUME NEW p \in Proc, Release(p) PROVE Ended'
  BY <1>8, Zenon DEF Release, Finish, Goto, TypeOK
<1>9. ASSUME NEW p \in Proc, Delete(p) PROVE Ended'
  BY <1>9, Zenon DEF Delete, Finish, Goto, TypeOK
<1>10. ASSUME NEW p \in Proc, Abort(p) PROVE Ended'
  BY <1>10, Zenon DEF Abort, Finish, Goto, TypeOK
<1>11. CASE Environment
  BY <1>11, Zenon DEF Environment, TokenDue, TokenExpires, SessionTTL, LockTTL, LockLost
<1>12. CASE UNCHANGED vars
  BY <1>12, Zenon DEF vars
<1> QED
  BY <1>1, <1>2, <1>3, <1>4, <1>5, <1>6, <1>7, <1>8, <1>9, <1>10, <1>11, <1>12, ZenonT(60) DEF Next, Proceed, Fail

\* Once the session is deleted and no reader of it is left that would write,
\* no interleaving of any requests brings it back.
THEOREM EndedIsFinal == Spec => EndedForGood
<1>1. TypeOK /\ [Next]_vars => [Ended => Ended']_vars
  BY EndedStep
<1> QED
  BY <1>1, TypeCorrect, PTL DEF Spec, EndedForGood

-----------------------------------------------------------------------------
(* Refreshers: the lock's creator, and one more for each lock lost.         *)

\* Refreshers whose lock key is no longer theirs.
Orphans == {p \in Proc : pc[p] \in Critical /\ lock # p}

OrphansBounded == Cardinality(Orphans) <= losses

LEMMA OrphansFinite == IsFiniteSet(Orphans) /\ Cardinality(Orphans) \in Nat
BY ConstantsAssumption, FS_Subset, FS_CardinalityType DEF Orphans

\* A step that makes no handler an orphan keeps the bound.
LEMMA OrphansShrink ==
  ASSUME TypeOK, OrphansBounded, Orphans' \subseteq Orphans, losses' = losses
  PROVE  OrphansBounded'
<1>1. Cardinality(Orphans') <= Cardinality(Orphans) /\ Cardinality(Orphans') \in Nat
  BY OrphansFinite, FS_Subset, FS_CardinalityType
<1> QED
  BY <1>1, OrphansFinite DEF OrphansBounded, TypeOK

\* A lost lock makes one handler an orphan, and the release of an orphan at
\* most replaces one orphan by another.
LEMMA OrphansStep == TypeOK /\ OrphansBounded /\ [Next]_vars => OrphansBounded'
<1> SUFFICES ASSUME TypeOK, OrphansBounded, [Next]_vars PROVE OrphansBounded'
  OBVIOUS
<1> USE DEF Critical, Locking
<1>1. ASSUME NEW p \in Proc, Arrive(p) PROVE OrphansBounded'
  <2>1. Orphans' \subseteq Orphans /\ losses' = losses
    BY <1>1 DEF Arrive, RefreshGet, ResolveGet, AttachGet, LogoutGet, RevokeGet, Goto,
                TypeOK, Orphans
  <2> QED
    BY <2>1, OrphansShrink
<1>2. ASSUME NEW p \in Proc, ObtainFree(p) PROVE OrphansBounded'
  <2>1. Orphans' \subseteq Orphans /\ losses' = losses
    BY <1>2, ConstantsAssumption DEF ObtainFree, Goto, TypeOK, Orphans
  <2> QED
    BY <2>1, OrphansShrink
<1>3. ASSUME NEW p \in Proc, ObtainContended(p) \/ ObtainError(p) PROVE OrphansBounded'
  <2>1. Orphans' \subseteq Orphans /\ losses' = losses
    BY <1>3, ConstantsAssumption
    DEF ObtainContended, ObtainError, Finish, Goto, TypeOK, Orphans
  <2> QED
    BY <2>1, OrphansShrink
<1>4. ASSUME NEW p \in Proc,
             \/ Reread(p) \/ IdPGrant(p) \/ IdPReject(p) \/ IdPUnavailable(p)
             \/ StoreRefreshed(p) \/ StoreError(p)
      PROVE  OrphansBounded'
  <2>1. /\ pc[p] \in Critical /\ lock' = lock /\ losses' = losses
        /\ \E to \in Critical : pc' = [pc EXCEPT ![p] = to]
    BY <1>4, Zenon DEF Reread, IdPGrant, IdPReject, IdPUnavailable, StoreRefreshed, StoreError, Goto
  <2>2. Orphans' \subseteq Orphans
    BY <2>1, Zenon DEF TypeOK, Orphans
  <2> QED
    BY <2>1, <2>2, OrphansShrink, Zenon
<1>5. ASSUME NEW p \in Proc, Release(p) PROVE OrphansBounded'
  <2>1. /\ pc[p] = "release" /\ lock' = Free /\ losses' = losses
        /\ pc' = [pc EXCEPT ![p] = "idle"]
    BY <1>5 DEF Release, Finish, Goto
  <2>2. CASE lock = p \/ lock = Free
    <3>1. Orphans' \subseteq Orphans
      BY <2>1, <2>2, Zenon DEF TypeOK, Orphans
    <3> QED
      BY <2>1, <3>1, OrphansShrink
  <2>3. CASE lock \notin {p, Free}
    <3>1. p \in Orphans /\ lock \in Proc
      BY <2>1, <2>3 DEF TypeOK, Orphans
    <3> DEFINE Rest == Orphans \ {p}
    <3>2. Orphans' \subseteq Rest \cup {lock}
      BY <2>1, Zenon DEF TypeOK, Orphans
    <3>3. IsFiniteSet(Rest) /\ Cardinality(Rest) = Cardinality(Orphans) - 1
      BY <3>1, OrphansFinite, FS_RemoveElement
    <3> HIDE DEF Rest
    <3>4. /\ IsFiniteSet(Rest \cup {lock})
          /\ Cardinality(Rest \cup {lock}) <= Cardinality(Orphans)
      <4>1. /\ IsFiniteSet(Rest \cup {lock})
            /\ Cardinality(Rest \cup {lock}) =
                 IF lock \in Rest THEN Cardinality(Rest) ELSE Cardinality(Rest) + 1
        BY <3>3, FS_AddElement, Zenon
      <4> QED
        BY <3>3, <4>1, OrphansFinite
    <3>5. Cardinality(Orphans') <= Cardinality(Orphans) /\ Cardinality(Orphans') \in Nat
      BY <3>2, <3>4, OrphansFinite, FS_Subset, FS_CardinalityType
    <3> QED
      BY <2>1, <3>5, OrphansFinite DEF OrphansBounded, TypeOK
  <2> QED
    BY <2>2, <2>3
<1>6. ASSUME NEW p \in Proc, AttachSet(p) \/ Delete(p) \/ Abort(p) PROVE OrphansBounded'
  <2>1. Orphans' \subseteq Orphans /\ losses' = losses
    BY <1>6, Zenon DEF AttachSet, Delete, Abort, Finish, Goto, TypeOK, Orphans
  <2> QED
    BY <2>1, OrphansShrink
<1>7. CASE TokenDue \/ TokenExpires \/ SessionTTL \/ UNCHANGED vars
  <2>1. Orphans' \subseteq Orphans /\ losses' = losses
    BY <1>7, Zenon DEF TokenDue, TokenExpires, SessionTTL, vars, Orphans
  <2> QED
    BY <2>1, OrphansShrink
<1>8. CASE LockTTL
  <2>1. Orphans' \subseteq Orphans /\ losses' = losses
    BY <1>8, Zenon DEF LockTTL, TypeOK, Orphans
  <2> QED
    BY <2>1, OrphansShrink
<1>9. CASE LockLost
  <2>1. Orphans' \subseteq Orphans \cup {lock} /\ losses' = losses + 1
    BY <1>9 DEF LockLost, TypeOK, Orphans
  <2>2. /\ IsFiniteSet(Orphans \cup {lock})
        /\ Cardinality(Orphans \cup {lock}) <= Cardinality(Orphans) + 1
    BY OrphansFinite, FS_AddElement
  <2>3. Cardinality(Orphans') <= Cardinality(Orphans) + 1 /\ Cardinality(Orphans') \in Nat
    BY <2>1, <2>2, OrphansFinite, FS_Subset, FS_CardinalityType
  <2> QED
    BY <2>1, <2>3, OrphansFinite DEF OrphansBounded, TypeOK
<1> QED
  BY <1>1, <1>2, <1>3, <1>4, <1>5, <1>6, <1>7, <1>8, <1>9
  DEF Next, Proceed, Fail, Environment

\* At most one refresher, plus one for each lock lost while its holder worked.
THEOREM RefreshersAreBounded == Spec => []RefreshersBounded
<1>1. Init => OrphansBounded
  <2> SUFFICES ASSUME Init PROVE OrphansBounded
    OBVIOUS
  <2>1. Orphans = {}
    BY DEF Init, Orphans, Critical
  <2> QED
    BY <2>1, FS_EmptySet DEF Init, OrphansBounded
<1>2. TypeOK /\ OrphansBounded => RefreshersBounded
  <2> SUFFICES ASSUME TypeOK, OrphansBounded PROVE RefreshersBounded
    OBVIOUS
  <2>1. Refreshers \subseteq Orphans \cup {lock}
    BY DEF Refreshers, Orphans
  <2>2. /\ IsFiniteSet(Orphans \cup {lock})
        /\ Cardinality(Orphans \cup {lock}) <= Cardinality(Orphans) + 1
    BY OrphansFinite, FS_AddElement
  <2>3. Cardinality(Refreshers) <= Cardinality(Orphans) + 1 /\ Cardinality(Refreshers) \in Nat
    BY <2>1, <2>2, OrphansFinite, FS_Subset, FS_CardinalityType, SMTT(30)
  <2> QED
    BY <2>3, OrphansFinite DEF OrphansBounded, RefreshersBounded, TypeOK
<1> QED
  BY <1>1, <1>2, OrphansStep, TypeCorrect, PTL DEF Spec

-----------------------------------------------------------------------------
(* Where the provider's live refresh token is.                              *)

Holding(p) == pc[p] \in Locking \cup {"idp", "apply", "attachSet"}

\* Tokens in the store and in memory were issued.
Issued ==
  /\ session # NoSession => session.rt <= gen
  /\ \A p \in Proc : Holding(p) => local[p].rt <= gen
  /\ \A t \in liveRT : t <= gen /\ t # 0

\* Strict rotation leaves at most one refresh token alive, and none only when
\* the session never had one or the provider revoked the grant.
OneLive ==
  /\ \A s, t \in liveRT : s = t
  /\ liveRT = {} => \/ ReuseRevokes /\ reuses > 0
                    \/ /\ session # NoSession => session.rt = 0
                       /\ \A p \in Proc : Holding(p) => local[p].rt = 0

\* The token a handler has just received is known to no one else.
FreshIsPrivate ==
  \A p \in Proc : pc[p] = "apply" =>
    /\ local[p].rt # 0
    /\ liveRT \subseteq {local[p].rt}
    /\ session # NoSession => session.rt # local[p].rt
    /\ \A q \in Proc \ {p} : Holding(q) => local[q].rt # local[p].rt

\* The live token is stored, or about to be, or was dropped.
Located ==
  \A t \in liveRT : \/ t \in RTOf(session)
                    \/ \E p \in Proc : pc[p] = "apply" /\ local[p].rt = t
                    \/ t \in dropped

TokenInv == Issued /\ OneLive /\ FreshIsPrivate /\ Located

\* With strict rotation, every step keeps track of the live refresh token.
LEMMA TokenStep ==
  ASSUME FALSE \notin Rotates, ReuseRevokes => MaxReuses # 0
  PROVE  TypeOK /\ TokenInv /\ [Next]_vars => TokenInv'
<1> SUFFICES ASSUME TypeOK, TokenInv, [Next]_vars PROVE TokenInv'
  OBVIOUS
<1> USE DEF TypeOK, TokenInv, Issued, OneLive, FreshIsPrivate, Located, Holding, RTOf, Locking
<1>1. ASSUME NEW p \in Proc, RefreshGet(p) PROVE TokenInv'
  BY <1>1 DEF RefreshGet, Refreshable, Goto, Hold, idpVars
<1>2. ASSUME NEW p \in Proc, ResolveGet(p) PROVE TokenInv'
  BY <1>2 DEF ResolveGet, Refreshable, Goto, Hold, idpVars
<1>3. ASSUME NEW p \in Proc, AttachGet(p) PROVE TokenInv'
  BY <1>3, SMTT(60) DEF AttachGet, Goto, Hold, idpVars, Session
<1>4. ASSUME NEW p \in Proc, LogoutGet(p) PROVE TokenInv'
  BY <1>4, SMTT(60) DEF LogoutGet, Goto, Hold, idpVars
<1>5. ASSUME NEW p \in Proc, RevokeGet(p) PROVE TokenInv'
  BY <1>5 DEF RevokeGet, Goto, Hold, idpVars
<1>6. ASSUME NEW p \in Proc, ObtainFree(p) PROVE TokenInv'
  BY <1>6, SMTT(60) DEF ObtainFree, Goto, idpVars
<1>7. ASSUME NEW p \in Proc, ObtainContended(p) PROVE TokenInv'
  BY <1>7, SMTT(60) DEF ObtainContended, Finish, Goto, Hold, idpVars
<1>8. ASSUME NEW p \in Proc, ObtainError(p) PROVE TokenInv'
  BY <1>8, SMTT(60) DEF ObtainError, Finish, Goto, Hold, idpVars
<1>9. ASSUME NEW p \in Proc, Reread(p) PROVE TokenInv'
  BY <1>9 DEF Reread, Refreshable, Goto, Hold, idpVars
<1>10. ASSUME NEW p \in Proc, IdPGrant(p) PROVE TokenInv'
  <2>1. /\ pc[p] = "idp" /\ local[p].rt \in liveRT /\ gen' = gen + 1
        /\ UNCHANGED <<session, reuses>>
    BY <1>10 DEF IdPGrant
  <2>2. \A rotate \in Rotates : rotate = TRUE
    BY ConstantsAssumption, Zenon
  <2>3. liveRT' = (liveRT \ {local[p].rt}) \cup {gen + 1}
    BY <1>10, <2>2 DEF IdPGrant
  <2>4. \/ /\ Goto(p, "apply")
           /\ Hold(p, [local[p] EXCEPT !.at = gen + 1, !.rt = gen + 1])
           /\ UNCHANGED dropped
        \/ /\ Goto(p, "release") /\ Hold(p, NoSession)
           /\ dropped' = dropped \cup ({gen + 1} \ RTOf(session))
    BY <1>10, <2>2, Zenon DEF IdPGrant
  <2>5. liveRT' = {gen + 1}
    BY <2>1, <2>3, Zenon
  <2>6. \A q \in Proc : pc[q] # "apply"
    BY <2>1, ZenonT(60)
  <2>7. CASE /\ Goto(p, "apply")
             /\ Hold(p, [local[p] EXCEPT !.at = gen + 1, !.rt = gen + 1])
             /\ UNCHANGED dropped
    <3>1. pc'[p] = "apply" /\ local'[p].rt = gen + 1
      BY <2>1, <2>7 DEF Goto, Hold, Session
    <3>2. \A q \in Proc \ {p} : pc'[q] = pc[q] /\ local'[q] = local[q]
      BY <2>7, ZenonT(60) DEF Goto, Hold
    <3> QED
      BY <2>1, <2>5, <2>6, <2>7, <3>1, <3>2 DEF Session
  <2>8. CASE /\ Goto(p, "release") /\ Hold(p, NoSession)
             /\ dropped' = dropped \cup ({gen + 1} \ RTOf(session))
    <3>1. pc'[p] = "release"
      BY <2>1, <2>8 DEF Goto
    <3>2. \A q \in Proc \ {p} : pc'[q] = pc[q] /\ local'[q] = local[q]
      BY <2>8 DEF Goto, Hold
    <3>3. gen + 1 \in dropped'
      BY <2>8, SMTT(60) DEF Session
    <3> QED
      BY <2>1, <2>5, <2>6, <3>1, <3>2, <3>3, SMTT(60) DEF Session
  <2> QED
    BY <2>4, <2>7, <2>8
<1>11. ASSUME NEW p \in Proc, IdPReject(p) PROVE TokenInv'
  <2>1. /\ pc' = [pc EXCEPT ![p] = "release"] /\ local' = [local EXCEPT ![p] = NoSession]
        /\ pc[p] = "idp" /\ UNCHANGED <<session, gen, dropped>>
    BY <1>11 DEF IdPReject, Goto, Hold
  <2>2. CASE ReuseRevokes
    <3>1. liveRT' = {} /\ reuses' > 0
      BY <1>11, <2>2, ConstantsAssumption DEF IdPReject
    <3> QED
      BY <2>1, <2>2, <3>1, ZenonT(60)
  <2>3. CASE ~ReuseRevokes
    <3>1. liveRT' = liveRT
      BY <1>11, <2>3, SMTT(60) DEF IdPReject
    <3> QED
      BY <2>1, <2>3, <3>1
  <2> QED
    BY <2>2, <2>3
<1>12. ASSUME NEW p \in Proc, IdPUnavailable(p) PROVE TokenInv'
  BY <1>12, SMTT(60) DEF IdPUnavailable, Goto, Hold, idpVars
<1>13. ASSUME NEW p \in Proc, StoreRefreshed(p) PROVE TokenInv'
  BY <1>13, NoSessionAssumption, SMTT(60) DEF StoreRefreshed, Goto, Hold, idpVars
<1>14. ASSUME NEW p \in Proc, StoreError(p) PROVE TokenInv'
  BY <1>14, NoSessionAssumption, SMTT(60) DEF StoreError, Goto, Hold, idpVars
<1>15. ASSUME NEW p \in Proc, Release(p) PROVE TokenInv'
  BY <1>15, SMTT(60) DEF Release, Finish, Goto, Hold, idpVars
<1>16. ASSUME NEW p \in Proc, AttachSet(p) PROVE TokenInv'
  BY <1>16, NoSessionAssumption, SMTT(60) DEF AttachSet, Finish, Goto, Hold, idpVars
<1>17. ASSUME NEW p \in Proc, Delete(p) PROVE TokenInv'
  BY <1>17, SMTT(60) DEF Delete, Finish, Goto, Hold, idpVars
<1>18. ASSUME NEW p \in Proc, Abort(p) PROVE TokenInv'
  BY <1>18, NoSessionAssumption, SMTT(60) DEF Abort, Finish, Goto, Hold, idpVars
<1>19. CASE TokenDue
  BY <1>19, ZenonT(60) DEF TokenDue, idpVars
<1>20. CASE TokenExpires
  BY <1>20 DEF TokenExpires, idpVars
<1>21. CASE SessionTTL
  BY <1>21, ZenonT(60) DEF SessionTTL, idpVars
<1>22. CASE LockTTL
  BY <1>22, SMTT(60) DEF LockTTL, idpVars
<1>23. CASE LockLost
  BY <1>23, SMTT(60) DEF LockLost, idpVars
<1>24. CASE UNCHANGED vars
  BY <1>24 DEF vars
<1> QED
  BY <1>1, <1>2, <1>3, <1>4, <1>5, <1>6, <1>7, <1>8, <1>9, <1>10, <1>11, <1>12,
     <1>13, <1>14, <1>15, <1>16, <1>17, <1>18, <1>19, <1>20, <1>21, <1>22, <1>23,
     <1>24, ZenonT(60) DEF Next, Arrive, Proceed, Fail, Environment

\* With strict rotation a token that was used once fences off every handler that
\* still holds it.
LEMMA RotatedTokenUsable ==
  ASSUME FALSE \notin Rotates, ReuseRevokes => MaxReuses # 0
  PROVE  Spec => []StoredTokenUsable
<1>1. Init => TokenInv
  <2> SUFFICES ASSUME Init PROVE TokenInv
    BY Zenon
  <2>1. PICK rt \in {0, 1} : /\ session = [at |-> 1, rt |-> rt, tc |-> NoTenant]
                            /\ liveRT = {rt} \ {0}
    BY DEF Init
  <2>2. session.rt = rt /\ \A p \in Proc : pc[p] = "idle"
    BY <2>1 DEF Init
  <2>3. session # NoSession
    BY <2>1, NoSessionAssumption, ConstantsAssumption DEF Session
  <2> QED
    BY <2>1, <2>2, <2>3
    DEF Init, TokenInv, Issued, OneLive, FreshIsPrivate, Located, Holding, Locking, RTOf
<1>2. TypeOK /\ TokenInv => StoredTokenUsable
  BY ZenonT(60) DEF TypeOK, TokenInv, OneLive, Located, RTOf, StoredTokenUsable
<1> QED
  BY <1>1, <1>2, TokenStep, TypeCorrect, PTL DEF Spec

-----------------------------------------------------------------------------
(* Where the tokens are for a provider that rotates them or not, and what    *)
(* ensureFresh presents to it.                                              *)

\* No lock was lost, and the provider has not revoked the grant.
Orderly == losses = 0 /\ ~(ReuseRevokes /\ reuses > 0)

\* Refresh presents the token it read before it had the lock; ensureFresh does
\* not.
NoRefresh == "refresh" \notin Ops => \A p \in Proc : pc[p] # "refreshLock"

\* The session never had a refresh token, or one that the provider accepts is
\* on its way to the store, was dropped, or is stored.
Reachable ==
  \/ /\ session # NoSession => session.rt = 0
     /\ \A p \in Proc : Holding(p) => local[p].rt = 0
  \/ \E p \in Proc : pc[p] = "apply" /\ local[p].rt \in liveRT
  \/ dropped \cap liveRT # {}
  \/ session # NoSession /\ session.rt \in liveRT

\* What the one refresher holds.
Presented ==
  \A p \in Proc :
    /\ pc[p] = "idp" /\ "refresh" \notin Ops => local[p].rt \in liveRT \/ dropped \cap liveRT # {}
    /\ pc[p] = "apply" => local[p].rt \in liveRT

ServeInv == 0 \notin liveRT /\ NoRefresh /\ (Orderly => Reachable /\ Presented)

\* What is lost or revoked stays so.
LEMMA OrderlyBefore ==
  TypeOK /\ [Next]_vars /\ Orderly' => Orderly
<1> SUFFICES ASSUME TypeOK, [Next]_vars, Orderly' PROVE Orderly
  OBVIOUS
<1>1. losses' = losses \/ losses' = losses + 1
  BY ZenonT(60) DEF Next, Arrive, RefreshGet, ResolveGet, AttachGet, LogoutGet, RevokeGet, Proceed, ObtainFree,
         ObtainContended, Reread, IdPGrant, IdPReject, IdPUnavailable, StoreRefreshed, Release, AttachSet,
         Delete, Fail, ObtainError, StoreError, Abort, Environment, TokenDue, TokenExpires, SessionTTL,
         LockTTL, LockLost, vars
<1>2. reuses' = reuses \/ reuses' = reuses + 1
  BY ZenonT(60) DEF Next, Arrive, RefreshGet, ResolveGet, AttachGet, LogoutGet, RevokeGet, Proceed, ObtainFree,
         ObtainContended, Reread, IdPGrant, IdPReject, IdPUnavailable, StoreRefreshed, Release, AttachSet,
         Delete, Fail, ObtainError, StoreError, Abort, Environment, TokenDue, TokenExpires, SessionTTL,
         LockTTL, LockLost, vars, idpVars
<1> QED BY <1>1, <1>2 DEF Orderly, TypeOK

\* While no lock was lost there is at most one refresher.
LEMMA OneRefresher ==
  ASSUME TypeOK, OrphansBounded, losses = 0,
         NEW p \in Proc, pc[p] \in Critical, NEW q \in Proc, pc[q] \in Critical
  PROVE  p = q
<1>1. Cardinality(Orphans) = 0
  BY OrphansFinite DEF OrphansBounded
<1>2. Orphans = {}
  BY <1>1, OrphansFinite, FS_EmptySet
<1> QED BY <1>2 DEF Orphans

\* A step of a request that touches neither the store nor the provider.
LEMMA QuietKeeps ==
  ASSUME TypeOK, ServeInv, Orderly' => Orderly, session' = session, liveRT' = liveRT, dropped \subseteq dropped',
         NEW p \in Proc, pc[p] # "apply", NoRefresh',
         \A q \in Proc \ {p} : pc'[q] = pc[q] /\ local'[q] = local[q],
         pc'[p] # "apply",
         Orderly /\ pc'[p] = "idp" /\ "refresh" \notin Ops
           => local'[p].rt \in liveRT \/ dropped \cap liveRT # {},
         Holding(p)' => \/ local'[p] = local[p] /\ Holding(p)
                        \/ session # NoSession /\ local'[p].rt = session.rt
  PROVE  ServeInv'
<1>1. Orderly' => Presented'
  BY Zenon DEF ServeInv, Presented
<1>2. ASSUME Orderly' PROVE Reachable'
  <2>1. Reachable
    BY <1>2 DEF ServeInv
  <2>2. CASE /\ session # NoSession => session.rt = 0
             /\ \A q \in Proc : Holding(q) => local[q].rt = 0
    <3>1. ASSUME NEW q \in Proc, Holding(q)' PROVE local'[q].rt = 0
      <4>1. CASE q = p
        BY <2>2, <3>1, <4>1
      <4>2. CASE q # p
        BY <2>2, <3>1, <4>2 DEF Holding
      <4> QED BY <4>1, <4>2
    <3> QED BY <2>2, <3>1 DEF Reachable
  <2>3. CASE \E q \in Proc : pc[q] = "apply" /\ local[q].rt \in liveRT
    BY <2>3 DEF Reachable
  <2>4. CASE dropped \cap liveRT # {} \/ (session # NoSession /\ session.rt \in liveRT)
    BY <2>4 DEF Reachable
  <2> QED BY <2>1, <2>2, <2>3, <2>4, Zenon DEF Reachable
<1> QED BY <1>1, <1>2 DEF ServeInv

\* Every step keeps track of where the tokens are.
LEMMA ServeStep ==
  ASSUME ReuseRevokes => MaxReuses # 0
  PROVE  TypeOK /\ OrphansBounded /\ ServeInv /\ [Next]_vars => ServeInv'
<1> SUFFICES ASSUME TypeOK, OrphansBounded, ServeInv, [Next]_vars PROVE ServeInv'
  OBVIOUS
<1>0. Orderly' => Orderly
  BY OrderlyBefore
<1>1. ASSUME NEW p \in Proc, Arrive(p) PROVE ServeInv'
  <2>1. /\ pc[p] = "idle" /\ UNCHANGED <<session, liveRT, dropped, losses>>
        /\ \E to \in {"refreshLock", "resolveLock", "attachSet", "logoutDel", "revokeDel"} :
             pc' = [pc EXCEPT ![p] = to] /\ (to = "refreshLock" => "refresh" \in Ops)
        /\ \E s : local' = [local EXCEPT ![p] = s]
    BY <1>1, Zenon DEF Arrive, RefreshGet, ResolveGet, AttachGet, LogoutGet, RevokeGet, Goto, Hold, idpVars
  <2>2. /\ pc'[p] \in {"refreshLock", "resolveLock", "attachSet", "logoutDel", "revokeDel"}
        /\ pc'[p] = "refreshLock" => "refresh" \in Ops
        /\ \A q \in Proc \ {p} : pc'[q] = pc[q] /\ local'[q] = local[q]
    BY <2>1 DEF TypeOK
  <2>3. Holding(p)' => session # NoSession /\ local'[p].rt = session.rt
    BY <1>1, <2>2 DEF Arrive, RefreshGet, ResolveGet, AttachGet, LogoutGet, RevokeGet, Goto, Hold,
                      Holding, Locking, TypeOK, Session
  <2>4. NoRefresh'
    BY <2>2 DEF ServeInv, NoRefresh
  <2> QED BY <2>1, <2>2, <2>3, <2>4, <1>0, QuietKeeps
<1>2. ASSUME NEW p \in Proc, ObtainFree(p) PROVE ServeInv'
  <2>1. /\ pc[p] \in Locking /\ UNCHANGED <<session, local, liveRT, dropped, losses>>
        /\ pc' = [pc EXCEPT ![p] = IF pc[p] = "refreshLock" THEN "idp" ELSE "reread"]
    BY <1>2 DEF ObtainFree, Goto, idpVars
  <2>2. /\ pc'[p] \in {"idp", "reread"} /\ (pc'[p] = "idp" => pc[p] = "refreshLock")
        /\ \A q \in Proc \ {p} : pc'[q] = pc[q] /\ local'[q] = local[q]
    BY <2>1, Zenon DEF TypeOK
  <2>3. NoRefresh' /\ (pc'[p] = "idp" => "refresh" \in Ops)
    BY <2>2 DEF ServeInv, NoRefresh
  <2>4. Holding(p) /\ local'[p] = local[p] /\ pc[p] # "apply"
    BY <2>1, Zenon DEF Holding, Locking
  <2> QED BY <2>1, <2>2, <2>3, <2>4, <1>0, QuietKeeps
<1>3. ASSUME NEW p \in Proc,
             \/ ObtainContended(p) \/ ObtainError(p) \/ (IdPReject(p) /\ ~ReuseRevokes)
             \/ IdPUnavailable(p) \/ Release(p) \/ (Abort(p) /\ pc[p] # "apply")
      PROVE  ServeInv'
  <2>1. /\ pc[p] # "apply" /\ UNCHANGED <<session, liveRT, dropped, losses>>
        /\ \E to \in {"idle", "release"} : pc' = [pc EXCEPT ![p] = to]
        /\ \E s : local' = [local EXCEPT ![p] = s]
    BY <1>3, Zenon DEF ObtainContended, ObtainError, IdPReject, IdPUnavailable, Release, Abort,
                Finish, Goto, Hold, idpVars, Locking
  <2>2. /\ pc'[p] \in {"idle", "release"}
        /\ \A q \in Proc \ {p} : pc'[q] = pc[q] /\ local'[q] = local[q]
    BY <2>1 DEF TypeOK
  <2>3. NoRefresh' /\ ~Holding(p)'
    BY <2>2 DEF ServeInv, NoRefresh, Holding, Locking
  <2> QED BY <2>1, <2>2, <2>3, <1>0, QuietKeeps, ZenonT(60)
<1>4. ASSUME NEW p \in Proc, Reread(p) PROVE ServeInv'
  <2>1. /\ pc[p] = "reread" /\ UNCHANGED <<session, liveRT, dropped, losses>>
        /\ \/ pc' = [pc EXCEPT ![p] = "release"] /\ local' = [local EXCEPT ![p] = NoSession]
           \/ /\ session # NoSession /\ Refreshable(session)
              /\ pc' = [pc EXCEPT ![p] = "idp"] /\ local' = [local EXCEPT ![p] = session]
    BY <1>4, Zenon DEF Reread, Goto, Hold, idpVars
  <2>2. /\ pc'[p] \in {"idp", "release"}
        /\ \A q \in Proc \ {p} : pc'[q] = pc[q] /\ local'[q] = local[q]
        /\ pc'[p] = "idp" => session # NoSession /\ session.rt # 0 /\ local'[p] = session
    BY <2>1, ZenonT(60) DEF TypeOK, Refreshable
  <2>3. NoRefresh' /\ (Holding(p)' => pc'[p] = "idp")
    BY <2>2 DEF ServeInv, NoRefresh, Holding, Locking
  <2>4. ASSUME Orderly, pc'[p] = "idp" PROVE session.rt \in liveRT \/ dropped \cap liveRT # {}
    <3>1. \A q \in Proc : pc[q] # "apply"
      BY <2>1, <2>4, OneRefresher DEF Critical, Orderly
    <3>2. Reachable
      BY <2>4 DEF ServeInv
    <3> QED BY <2>2, <2>4, <3>1, <3>2 DEF Reachable
  <2> QED BY <2>1, <2>2, <2>3, <2>4, <1>0, QuietKeeps
<1>5. ASSUME NEW p \in Proc, IdPGrant(p) PROVE ServeInv'
  <2>1. /\ pc[p] = "idp" /\ local[p].rt \in liveRT /\ UNCHANGED <<session, losses>>
        /\ local[p] \in Session /\ gen \in Nat
    BY <1>5 DEF IdPGrant, TypeOK
  <2>2. PICK rt \in {gen + 1, local[p].rt} :
          /\ liveRT' = (liveRT \ {local[p].rt}) \cup {rt}
          /\ \/ /\ Goto(p, "apply") /\ Hold(p, [local[p] EXCEPT !.at = gen + 1, !.rt = rt])
                /\ UNCHANGED dropped
             \/ /\ Goto(p, "release") /\ Hold(p, NoSession)
                /\ dropped' = dropped \cup ({rt} \ RTOf(session))
    BY <1>5, Zenon DEF IdPGrant
  <2>3. 0 \notin liveRT' /\ rt \in liveRT' /\ rt # 0
    BY <2>1, <2>2 DEF ServeInv
  <2>4. /\ pc'[p] \in {"apply", "release"}
        /\ \A q \in Proc \ {p} : pc'[q] = pc[q] /\ local'[q] = local[q]
        /\ pc'[p] = "apply" => local'[p].rt = rt
        /\ pc'[p] = "release" => dropped' = dropped \cup ({rt} \ RTOf(session))
    <3>1. pc \in [Proc -> PC] /\ local \in [Proc -> Session \cup {NoSession}]
      BY DEF TypeOK
    <3>2. \E l \in {"apply", "release"} : \E s : Goto(p, l) /\ Hold(p, s)
      BY <2>2, Zenon
    <3>3. /\ pc'[p] \in {"apply", "release"}
          /\ \A q \in Proc \ {p} : pc'[q] = pc[q] /\ local'[q] = local[q]
      BY <3>1, <3>2 DEF Goto, Hold
    <3>4. CASE Goto(p, "apply") /\ Hold(p, [local[p] EXCEPT !.at = gen + 1, !.rt = rt])
      <4>1. pc'[p] = "apply" /\ local'[p] = [local[p] EXCEPT !.at = gen + 1, !.rt = rt]
        BY <3>1, <3>4 DEF Goto, Hold
      <4>2. local'[p].rt = rt
        BY <2>1, <4>1 DEF Session
      <4> QED BY <3>3, <4>1, <4>2
    <3>5. CASE Goto(p, "release") /\ dropped' = dropped \cup ({rt} \ RTOf(session))
      BY <3>1, <3>3, <3>5 DEF Goto
    <3> QED BY <2>2, <3>4, <3>5
  <2>5. NoRefresh'
    BY <2>4 DEF ServeInv, NoRefresh
  <2>6. ASSUME Orderly' PROVE Presented' /\ Reachable'
    <3>1. \A q \in Proc \ {p} : pc'[q] \notin {"idp", "apply"}
      BY <1>0, <2>1, <2>4, <2>6, OneRefresher, Zenon DEF Critical, Orderly
    <3>2. Presented'
      BY <2>3, <2>4, <3>1, ZenonT(60) DEF Presented
    <3>3. Reachable'
      BY <2>1, <2>3, <2>4 DEF Reachable, RTOf
    <3> QED BY <3>2, <3>3, Zenon
  <2> QED BY <2>3, <2>5, <2>6 DEF ServeInv
<1>6. ASSUME NEW p \in Proc, StoreRefreshed(p) PROVE ServeInv'
  <2>1. /\ pc[p] = "apply" /\ session' = local[p] /\ UNCHANGED <<liveRT, dropped, losses>>
        /\ pc' = [pc EXCEPT ![p] = "release"] /\ local' = [local EXCEPT ![p] = NoSession]
        /\ local[p] \in Session
    BY <1>6, Zenon DEF StoreRefreshed, Goto, Hold, idpVars, TypeOK
  <2>2. pc'[p] = "release" /\ \A q \in Proc \ {p} : pc'[q] = pc[q] /\ local'[q] = local[q]
    BY <2>1 DEF TypeOK
  <2>3. NoRefresh'
    BY <2>2 DEF ServeInv, NoRefresh
  <2>4. ASSUME Orderly' PROVE Presented' /\ Reachable'
    <3>1. Presented /\ local[p].rt \in liveRT
      BY <1>0, <2>1, <2>4, Zenon DEF ServeInv, Presented
    <3>2. Presented'
      BY <2>1, <2>2, <3>1 DEF Presented
    <3>3. Reachable'
      BY <2>1, <3>1, NoSessionAssumption DEF Reachable
    <3> QED BY <3>2, <3>3
  <2> QED BY <2>1, <2>3, <2>4 DEF ServeInv
<1>7. ASSUME NEW p \in Proc, StoreError(p) \/ (Abort(p) /\ pc[p] = "apply") PROVE ServeInv'
  <2>1. /\ pc[p] = "apply" /\ UNCHANGED <<session, liveRT, losses>>
        /\ dropped' = dropped \cup (RTOf(local[p]) \ RTOf(session))
        /\ \E to \in {"idle", "release"} : pc' = [pc EXCEPT ![p] = to]
        /\ local' = [local EXCEPT ![p] = NoSession] /\ local[p] \in Session
    BY <1>7 DEF StoreError, Abort, Finish, Goto, Hold, idpVars, TypeOK
  <2>2. /\ pc'[p] \in {"idle", "release"}
        /\ \A q \in Proc \ {p} : pc'[q] = pc[q] /\ local'[q] = local[q]
    BY <2>1 DEF TypeOK
  <2>3. NoRefresh'
    BY <2>2 DEF ServeInv, NoRefresh
  <2>4. ASSUME Orderly' PROVE Presented' /\ Reachable'
    <3>1. Presented /\ local[p].rt \in liveRT /\ local[p].rt # 0
      BY <1>0, <2>1, <2>4, Zenon DEF ServeInv, Presented
    <3>2. Presented'
      BY <2>1, <2>2, <3>1 DEF Presented
    <3>3. RTOf(local[p]) = {local[p].rt}
      BY <2>1, <3>1, NoSessionAssumption, Zenon DEF RTOf
    <3>4. local[p].rt \in dropped' \/ (session # NoSession /\ session.rt = local[p].rt)
      BY <2>1, <3>3 DEF RTOf
    <3>5. Reachable'
      BY <2>1, <3>1, <3>4 DEF Reachable
    <3> QED BY <3>2, <3>5
  <2> QED BY <2>1, <2>3, <2>4, ZenonT(60) DEF ServeInv
<1>8. ASSUME NEW p \in Proc, AttachSet(p) PROVE ServeInv'
  <2>1. /\ pc[p] = "attachSet" /\ session' = local[p] /\ UNCHANGED <<liveRT, losses>>
        /\ dropped' = dropped \cup (RTOf(session) \ RTOf(local[p]))
        /\ pc' = [pc EXCEPT ![p] = "idle"] /\ local' = [local EXCEPT ![p] = NoSession]
        /\ local[p] \in Session
    BY <1>8, Zenon DEF AttachSet, Finish, Goto, Hold, idpVars, TypeOK
  <2>2. pc'[p] = "idle" /\ \A q \in Proc \ {p} : pc'[q] = pc[q] /\ local'[q] = local[q]
    BY <2>1 DEF TypeOK
  <2>3. NoRefresh'
    BY <2>2, ZenonT(60) DEF ServeInv, NoRefresh
  <2>4. ASSUME Orderly' PROVE Presented' /\ Reachable'
    <3>1. Presented /\ Reachable
      BY <1>0, <2>1, <2>4 DEF ServeInv
    <3>2. Presented'
      BY <2>1, <2>2, <3>1 DEF Presented
    <3>3. CASE /\ session # NoSession => session.rt = 0
               /\ \A q \in Proc : Holding(q) => local[q].rt = 0
      <4>1. session'.rt = 0
        BY <2>1, <3>3 DEF Holding
      <4>2. \A q \in Proc : Holding(q)' => local'[q].rt = 0
        BY <2>2, <3>3 DEF Holding, Locking
      <4> QED BY <3>2, <4>1, <4>2 DEF Reachable
    <3>4. CASE \E q \in Proc : pc[q] = "apply" /\ local[q].rt \in liveRT
      BY <2>1, <2>2, <3>2, <3>4, SMTT(60) DEF Reachable
    <3>5. CASE dropped \cap liveRT # {}
      BY <2>1, <3>2, <3>5, SMTT(60) DEF Reachable
    <3>6. CASE session # NoSession /\ session.rt \in liveRT
      <4>1. session.rt # 0
        BY <3>6 DEF ServeInv
      <4>2. session.rt \in dropped' \/ local[p].rt = session.rt
        BY <2>1, <3>6, <4>1, NoSessionAssumption, SMTT(60) DEF RTOf
      <4> QED BY <2>1, <3>2, <3>6, <4>2, NoSessionAssumption DEF Reachable
    <3> QED BY <3>1, <3>3, <3>4, <3>5, <3>6 DEF Reachable
  <2> QED BY <2>1, <2>3, <2>4 DEF ServeInv
<1>9. ASSUME session' = NoSession, dropped' = dropped \cup RTOf(session), UNCHANGED <<liveRT, losses>>,
             \A q \in Proc : \/ pc'[q] = pc[q] /\ local'[q] = local[q]
                             \/ pc[q] # "apply" /\ pc'[q] = "idle"
      PROVE  ServeInv'
  <2>1. NoRefresh'
    BY <1>9, ZenonT(60) DEF ServeInv, NoRefresh
  <2>2. ASSUME Orderly' PROVE Presented' /\ Reachable'
    <3>1. Presented /\ Reachable
      BY <1>0, <1>9, <2>2, ZenonT(60) DEF ServeInv
    <3>2. Presented'
      BY <1>9, <2>2, <3>1 DEF Presented
    <3>3. CASE /\ session # NoSession => session.rt = 0
               /\ \A q \in Proc : Holding(q) => local[q].rt = 0
      <4>1. \A q \in Proc : Holding(q)' => local'[q].rt = 0
        BY <1>9, <3>3 DEF Holding, Locking
      <4> QED BY <1>9, <3>2, <4>1, SMTT(60) DEF Reachable
    <3>4. CASE \E q \in Proc : pc[q] = "apply" /\ local[q].rt \in liveRT
      BY <1>9, <2>2, <3>2, <3>4, Zenon DEF Reachable
    <3>5. CASE dropped \cap liveRT # {}
      BY <1>9, <3>2, <3>5 DEF Reachable
    <3>6. CASE session # NoSession /\ session.rt \in liveRT
      <4>1. session.rt \in dropped'
        BY <1>9, <3>6 DEF ServeInv, RTOf
      <4> QED BY <1>9, <3>2, <3>6, <4>1 DEF Reachable
    <3> QED BY <3>1, <3>3, <3>4, <3>5, <3>6 DEF Reachable
  <2> QED BY <1>9, <2>1, <2>2 DEF ServeInv
<1>10. ASSUME NEW p \in Proc, Delete(p) PROVE ServeInv'
  <2>1. /\ session' = NoSession /\ dropped' = dropped \cup RTOf(session) /\ UNCHANGED <<liveRT, losses>>
        /\ pc[p] \in {"logoutDel", "revokeDel"} /\ pc' = [pc EXCEPT ![p] = "idle"]
        /\ local' = [local EXCEPT ![p] = NoSession]
    BY <1>10 DEF Delete, Finish, Goto, Hold, idpVars
  <2>2. pc'[p] = "idle" /\ \A q \in Proc \ {p} : pc'[q] = pc[q] /\ local'[q] = local[q]
    BY <2>1, Zenon DEF TypeOK
  <2> QED BY <1>9, <2>1, <2>2
<1>11. CASE SessionTTL
  BY <1>9, <1>11 DEF SessionTTL, idpVars
<1>12. CASE TokenDue \/ TokenExpires \/ LockTTL \/ UNCHANGED vars
  <2>1. UNCHANGED <<session, pc, local, liveRT, dropped>>
    BY <1>12 DEF TokenDue, TokenExpires, LockTTL, vars, idpVars
  <2> QED BY <1>0, <2>1, Zenon DEF ServeInv, NoRefresh, Reachable, Presented, Holding
<1>13. CASE LockLost
  <2>1. ~Orderly' /\ UNCHANGED <<pc, liveRT>>
    BY <1>13 DEF LockLost, idpVars, TypeOK, Orderly
  <2> QED BY <2>1 DEF ServeInv, NoRefresh
<1>14. ASSUME NEW p \in Proc, IdPReject(p), ReuseRevokes PROVE ServeInv'
  <2>1. liveRT' = {} /\ ~Orderly' /\ pc' = [pc EXCEPT ![p] = "release"]
    BY <1>14, ConstantsAssumption DEF IdPReject, Goto, TypeOK, Orderly
  <2>2. NoRefresh'
    BY <2>1 DEF ServeInv, NoRefresh, TypeOK
  <2> QED BY <2>1, <2>2 DEF ServeInv
<1> QED
  BY <1>1, <1>2, <1>3, <1>4, <1>5, <1>6, <1>7, <1>8, <1>10, <1>11, <1>12, <1>13, <1>14, ZenonT(60) DEF Next, Proceed, Fail, Environment

\* The invariant holds initially.
LEMMA ServeInit ==
  Init => OrphansBounded /\ ServeInv
<1> SUFFICES ASSUME Init PROVE OrphansBounded /\ ServeInv
  OBVIOUS
<1>1. Orphans = {}
  BY Zenon DEF Init, Orphans, Critical
<1>2. OrphansBounded
  BY <1>1, FS_EmptySet DEF Init, OrphansBounded
<1>3. PICK rt \in {0, 1} : /\ session = [at |-> 1, rt |-> rt, tc |-> NoTenant]
                          /\ liveRT = {rt} \ {0}
  BY DEF Init
<1>4. session.rt = rt /\ \A p \in Proc : pc[p] = "idle"
  BY <1>3 DEF Init
<1>5. session # NoSession
  BY <1>3, NoSessionAssumption, ConstantsAssumption, SMTT(60) DEF Session
<1>6. ServeInv
  BY <1>3, <1>4, <1>5 DEF ServeInv, NoRefresh, Reachable, Presented, Holding, Locking
<1> QED BY <1>2, <1>6

\* No interleaving leaves a dead token in the store, whether the provider rotates
\* refresh tokens on every use, now and then or never, and whether or not it
\* revokes the grant on reuse.  With strict rotation that is so even when locks
\* are lost.  (Where reuse revokes, the model must count at least one reuse.)
THEOREM StoredTokenStaysUsable ==
  ASSUME ReuseRevokes => MaxReuses # 0
  PROVE  Spec => []StoredTokenUsable
<1>1. CASE FALSE \notin Rotates
  BY <1>1, RotatedTokenUsable
<1>2. CASE FALSE \in Rotates
  <2>1. TypeOK /\ ServeInv => StoredTokenUsable
    <3> SUFFICES ASSUME TypeOK, ServeInv PROVE StoredTokenUsable
      OBVIOUS
    <3>1. losses # 0 => losses > 0
      BY DEF TypeOK
    <3>2. CASE losses > 0
      BY <1>2, <3>2, Zenon DEF StoredTokenUsable
    <3>3. CASE ReuseRevokes /\ reuses > 0
      BY <3>3, Zenon DEF StoredTokenUsable
    <3>4. CASE Orderly
      BY <3>4, Zenon DEF ServeInv, Reachable, StoredTokenUsable
    <3> QED BY <3>1, <3>2, <3>3, <3>4 DEF Orderly
  <2> QED
    BY <2>1, ServeInit, ServeStep, OrphansStep, TypeCorrect, PTL DEF Spec
<1> QED BY <1>1, <1>2, ZenonT(60)

\* ensureFresh presents a token that the provider accepts, unless a successor
\* was dropped or a lock was lost, for any number of handlers that resolve,
\* attach, log out and revoke, and whether or not the provider rotates tokens.
\* Refresh, which does not read again, is left out; so is a provider that
\* revokes the grant when a dropped token's predecessor returns.
THEOREM ServesCurrentToken ==
  ASSUME "refresh" \notin Ops, ReuseRevokes = FALSE
  PROVE  Spec => []PresentsCurrentToken
<1>1. TypeOK /\ ServeInv => PresentsCurrentToken
  BY DEF TypeOK, ServeInv, Orderly, Presented, PresentsCurrentToken
<1>2. ReuseRevokes => MaxReuses # 0
  OBVIOUS
<1> QED
  BY <1>1, <1>2, ServeInit, ServeStep, OrphansStep, TypeCorrect, PTL DEF Spec
=============================================================================
