-------------------------- MODULE SessionLifecycle --------------------------
(***************************************************************************)
(* The life of ONE browser session of the auth service after login: the    *)
(* session record and its refresh lock in Redis, the refresh tokens at the *)
(* identity provider, and the requests that work on them concurrently in   *)
(* any number of auth instances:                                           *)
(*                                                                         *)
(*   refresh   Service.Refresh, called by the browser                      *)
(*   resolve   Service.ensureFresh, called for every proxied request       *)
(*   attach    Service.AttachTenantContextForConnector                     *)
(*   logout    Service.Logout                                              *)
(*   revoke    Store.DeleteSessionsBySubjectEmail                          *)
(*                                                                         *)
(* Every Redis command and every call of the provider is one step, so      *)
(* requests interleave between them as they do in the program.  A request  *)
(* begins with its first read of the session; whatever it does before      *)
(* (cookie decoding, connector lookup, CSRF) changes no state.             *)
(*                                                                         *)
(* Access tokens and refresh tokens are numbered in the order in which the *)
(* provider issues them; 0 is the empty refresh token.  The clock is       *)
(* abstracted to what the code asks of it: whether the stored access token *)
(* is inside its early-refresh window (NeedsRefresh) or past its end       *)
(* (IsExpired).                                                            *)
(***************************************************************************)
EXTENDS Integers, FiniteSets

CONSTANTS
  Proc,          \* request handlers, of all auth instances together
  Ops,           \* the requests that clients send
  Tenant,        \* tenant contexts
  NoTenant,      \* the nil tenant context of a new session
  NoSession,     \* the session key is absent, or a handler holds no session
  Free,          \* the refresh-lock key is absent
  Rotates,       \* does a refresh response carry a new refresh token?
  ReuseRevokes,  \* does the provider revoke the grant when a used token returns?
  MaxGen,        \* bound on the tokens the provider issues
  MaxFaults,     \* bound on failed calls, lost answers and aborted requests
  MaxLosses,     \* bound on locks lost while their holder still works
  MaxReuses      \* the count of refused refresh calls saturates here

AllOps == {"refresh", "resolve", "attach", "logout", "revoke"}

ASSUME ConstantsAssumption ==
  /\ IsFiniteSet(Proc)
  /\ Ops \subseteq AllOps
  /\ NoTenant \in Tenant
  /\ Free \notin Proc
  /\ Rotates \subseteq BOOLEAN
  /\ ReuseRevokes \in BOOLEAN
  /\ MaxGen \in Nat \ {0}
  /\ MaxFaults \in Nat
  /\ MaxLosses \in Nat
  /\ MaxReuses \in Nat

VARIABLES
  session,   \* the value of the session key in Redis
  lock,      \* the refresh-lock key: Free, or the handler whose SET NX created it
  due,       \* access tokens whose early-refresh window has begun
  expired,   \* access tokens that have expired
  pc,        \* where each handler stands
  local,     \* the session each handler holds in memory
  gen,       \* number of tokens issued so far
  liveRT,    \* refresh tokens the provider accepts
  \* Bookkeeping that no handler reads:
  dropped,   \* refresh tokens that left the store or never reached it
  reuses,    \* refused refresh calls
  revoked,   \* has Logout or Revoke deleted the session?
  faults,
  losses

idpVars  == <<gen, liveRT, reuses>>
timeVars == <<due, expired>>
vars == <<session, lock, due, expired, pc, local, gen, liveRT,
          dropped, reuses, revoked, faults, losses>>

-----------------------------------------------------------------------------
(* Types and initial state.                                                *)

Session == [at : Nat \ {0}, rt : Nat, tc : Tenant]

ASSUME NoSessionAssumption == NoSession \notin Session

Locking  == {"refreshLock", "resolveLock"}
Critical == {"reread", "idp", "apply", "release"}
PC == {"idle", "attachSet", "logoutDel", "revokeDel"} \cup Locking \cup Critical

\* Every variable has its type; a handler holds a session exactly while it is
\* between reading one and writing or dropping it.
TypeOK ==
  /\ session \in Session \cup {NoSession}
  /\ lock \in Proc \cup {Free}
  /\ due \in SUBSET Nat
  /\ expired \in SUBSET due
  /\ pc \in [Proc -> PC]
  /\ local \in [Proc -> Session \cup {NoSession}]
  /\ \A p \in Proc :
       pc[p] \in Locking \cup {"idp", "apply", "attachSet"} => local[p] \in Session
  /\ gen \in Nat \ {0}
  /\ liveRT \in SUBSET Nat
  /\ dropped \in SUBSET Nat
  /\ reuses \in 0..MaxReuses
  /\ revoked \in BOOLEAN
  /\ faults \in 0..MaxFaults
  /\ losses \in 0..MaxLosses

\* LoginEnd has stored the session: an access token and, when the provider
\* issued one, a refresh token.
Init ==
  /\ \E rt \in {0, 1} :
       /\ session = [at |-> 1, rt |-> rt, tc |-> NoTenant]
       /\ liveRT = {rt} \ {0}
  /\ lock = Free
  /\ due = {}
  /\ expired = {}
  /\ pc = [p \in Proc |-> "idle"]
  /\ local = [p \in Proc |-> NoSession]
  /\ gen = 1
  /\ dropped = {}
  /\ reuses = 0
  /\ revoked = FALSE
  /\ faults = 0
  /\ losses = 0

-----------------------------------------------------------------------------
(* The session record.                                                     *)

\* session.go: ExpiresAt - early <= now, for the access token of s.
NeedsRefresh(s) == s.at \in due

\* session.go: ExpiresAt <= now.
IsExpired(s) == s.at \in expired

\* The test Refresh and ensureFresh share: a refresh token, and a token due.
Refreshable(s) == s.rt # 0 /\ NeedsRefresh(s)

\* The refresh token of s no longer waits in the store for its next use.
RTOf(s) == IF s = NoSession THEN {} ELSE {s.rt} \ {0}

Goto(p, to) == pc' = [pc EXCEPT ![p] = to]
Hold(p, s)  == local' = [local EXCEPT ![p] = s]
Finish(p)   == Goto(p, "idle") /\ Hold(p, NoSession)

Fault == faults < MaxFaults /\ faults' = faults + 1
NoFault == UNCHANGED faults

-----------------------------------------------------------------------------
(* Refresh and Resolve.                                                    *)

\* Refresh reads the session; it goes on only with a token that is due.
RefreshGet(p) ==
  /\ "refresh" \in Ops /\ pc[p] = "idle"
  /\ session # NoSession /\ Refreshable(session)
  /\ Goto(p, "refreshLock") /\ Hold(p, session)
  /\ NoFault
  /\ UNCHANGED <<session, lock, timeVars, idpVars, dropped, revoked, losses>>

\* ensureFresh reads the session; the copy is only good for this decision.
ResolveGet(p) ==
  /\ "resolve" \in Ops /\ pc[p] = "idle"
  /\ session # NoSession /\ Refreshable(session)
  /\ Goto(p, "resolveLock") /\ Hold(p, session)
  /\ NoFault
  /\ UNCHANGED <<session, lock, timeVars, idpVars, dropped, revoked, losses>>

\* Mutant: ensureFresh uses the session it read before it had the lock.
BugObtainNoReread(p) ==
  /\ pc[p] \in Locking /\ lock = Free
  /\ lock' = p
  /\ Goto(p, "idp")
  /\ NoFault
  /\ UNCHANGED <<session, local, timeVars, idpVars, dropped, revoked, losses>>

\* Mutant: SET without NX.
BugObtainNoNX(p) ==
  /\ pc[p] \in Locking
  /\ lock' = p
  /\ Goto(p, IF pc[p] = "refreshLock" THEN "idp" ELSE "reread")
  /\ NoFault
  /\ UNCHANGED <<session, local, timeVars, idpVars, dropped, revoked, losses>>

\* SET NX succeeds.  Refresh calls the provider with the session it read
\* before it had the lock; ensureFresh reads the session again first.
ObtainFree(p) ==
  /\ pc[p] \in Locking /\ lock = Free
  /\ lock' = p
  /\ Goto(p, IF pc[p] = "refreshLock" THEN "idp" ELSE "reread")
  /\ NoFault
  /\ UNCHANGED <<session, local, timeVars, idpVars, dropped, revoked, losses>>

\* The key exists.  Refresh answers "nothing refreshed"; ensureFresh answers
\* with an error, or with the session as it is now if the store reports the
\* contention as ok = false.  None of them writes anything.
ObtainContended(p) ==
  /\ pc[p] \in Locking /\ lock # Free
  /\ Finish(p)
  /\ NoFault
  /\ UNCHANGED <<session, lock, timeVars, idpVars, dropped, revoked, losses>>

\* Redis answers with an error, whether or not it has set the key: the
\* handler gives up, and no one will release the key.
ObtainError(p) ==
  /\ pc[p] \in Locking
  /\ Fault
  /\ lock' \in {lock, IF lock = Free THEN p ELSE lock}
  /\ Finish(p)
  /\ UNCHANGED <<session, timeVars, idpVars, dropped, revoked, losses>>

\* ensureFresh under the lock: gone, or refreshed by another handler in the
\* meantime, means there is nothing to do but release the lock.
Reread(p) ==
  /\ pc[p] = "reread"
  /\ IF session # NoSession /\ Refreshable(session)
       THEN Goto(p, "idp") /\ Hold(p, session)
       ELSE Goto(p, "release") /\ Hold(p, NoSession)
  /\ NoFault
  /\ UNCHANGED <<session, lock, timeVars, idpVars, dropped, revoked, losses>>

\* Mutant: the new refresh token of the answer is ignored.
BugIdPGrant(p) ==
  /\ pc[p] = "idp" /\ local[p].rt \in liveRT /\ gen < MaxGen
  /\ gen' = gen + 1
  /\ liveRT' = (liveRT \ {local[p].rt}) \cup {gen + 1}
  /\ Goto(p, "apply")
  /\ Hold(p, [local[p] EXCEPT !.at = gen + 1])
  /\ NoFault
  /\ UNCHANGED <<session, lock, timeVars, reuses, dropped, revoked, losses>>

\* The provider accepts the refresh token and issues new tokens.  Its answer
\* carries a new refresh token or leaves it out, and then the old one stays.
IdPGrant(p) ==
  /\ pc[p] = "idp" /\ local[p].rt \in liveRT /\ gen < MaxGen
  /\ gen' = gen + 1
  /\ \E rotate \in Rotates :
       LET rt == IF rotate THEN gen + 1 ELSE local[p].rt
       IN /\ liveRT' = (liveRT \ {local[p].rt}) \cup {rt}
          /\ \/ /\ Goto(p, "apply")
                /\ Hold(p, [local[p] EXCEPT !.at = gen + 1, !.rt = rt])
                /\ NoFault
                /\ UNCHANGED dropped
             \/ \* the answer is lost: the client times out
                /\ Goto(p, "release") /\ Hold(p, NoSession)
                /\ Fault
                /\ dropped' = dropped \cup ({rt} \ RTOf(session))
  /\ UNCHANGED <<session, lock, timeVars, reuses, revoked, losses>>

\* The provider refuses a refresh token that was used before or revoked.
IdPReject(p) ==
  /\ pc[p] = "idp" /\ local[p].rt \notin liveRT
  /\ reuses' = IF reuses < MaxReuses THEN reuses + 1 ELSE reuses
  /\ liveRT' = IF ReuseRevokes THEN {} ELSE liveRT
  /\ Goto(p, "release") /\ Hold(p, NoSession)
  /\ NoFault
  /\ UNCHANGED <<session, lock, timeVars, gen, dropped, revoked, losses>>

\* The provider cannot be reached, or the bound on tokens is reached.
IdPUnavailable(p) ==
  /\ pc[p] = "idp"
  /\ IF gen < MaxGen THEN Fault ELSE NoFault
  /\ Goto(p, "release") /\ Hold(p, NoSession)
  /\ UNCHANGED <<session, lock, timeVars, idpVars, dropped, revoked, losses>>

\* The refreshed session is written over whatever the key holds now.
StoreRefreshed(p) ==
  /\ pc[p] = "apply"
  /\ session' = local[p]
  /\ Goto(p, "release") /\ Hold(p, NoSession)
  /\ NoFault
  /\ UNCHANGED <<lock, timeVars, idpVars, dropped, revoked, losses>>

\* Redis reports an error for the write and has not made it.
StoreError(p) ==
  /\ pc[p] = "apply"
  /\ Fault
  /\ Goto(p, "release") /\ Hold(p, NoSession)
  /\ dropped' = dropped \cup (RTOf(local[p]) \ RTOf(session))
  /\ UNCHANGED <<session, lock, timeVars, idpVars, revoked, losses>>

\* The deferred DEL removes the key whoever created it.
Release(p) ==
  /\ pc[p] = "release"
  /\ lock' = Free
  /\ Finish(p)
  /\ NoFault
  /\ UNCHANGED <<session, timeVars, idpVars, dropped, revoked, losses>>

-----------------------------------------------------------------------------
(* Attach, Logout, Revoke: none of them takes the lock.                    *)

AttachGet(p) ==
  /\ "attach" \in Ops /\ pc[p] = "idle" /\ session # NoSession
  /\ Goto(p, "attachSet")
  /\ \E t \in Tenant \ {NoTenant} : Hold(p, [session EXCEPT !.tc = t])
  /\ NoFault
  /\ UNCHANGED <<session, lock, timeVars, idpVars, dropped, revoked, losses>>

AttachSet(p) ==
  /\ pc[p] = "attachSet"
  /\ session' = local[p]
  /\ dropped' = dropped \cup (RTOf(session) \ RTOf(local[p]))
  /\ Finish(p)
  /\ NoFault
  /\ UNCHANGED <<lock, timeVars, idpVars, revoked, losses>>

LogoutGet(p) ==
  /\ "logout" \in Ops /\ pc[p] = "idle" /\ session # NoSession
  /\ Goto(p, "logoutDel") /\ Hold(p, NoSession)
  /\ NoFault
  /\ UNCHANGED <<session, lock, timeVars, idpVars, dropped, revoked, losses>>

\* The scan of DeleteSessionsBySubjectEmail reaches the session of the user
\* it was called for.  A session whose access token has expired is passed over.
RevokeGet(p) ==
  /\ "revoke" \in Ops /\ pc[p] = "idle" /\ session # NoSession
  /\ ~IsExpired(session)
  /\ Goto(p, "revokeDel") /\ Hold(p, NoSession)
  /\ NoFault
  /\ UNCHANGED <<session, lock, timeVars, idpVars, dropped, revoked, losses>>

\* DEL of the session key, for Logout and Revoke alike.
Delete(p) ==
  /\ pc[p] \in {"logoutDel", "revokeDel"}
  /\ session' = NoSession
  /\ dropped' = dropped \cup RTOf(session)
  /\ revoked' = TRUE
  /\ Finish(p)
  /\ NoFault
  /\ UNCHANGED <<lock, timeVars, idpVars, losses>>

-----------------------------------------------------------------------------
(* The environment.                                                        *)

\* The request's context is cancelled because its client went away, a store
\* call fails for good, or the instance stops: nothing more is written, and
\* the deferred Release, which runs under the same context, has no effect.
Abort(p) ==
  /\ pc[p] # "idle"
  /\ Fault
  /\ dropped' = IF pc[p] = "apply"
                  THEN dropped \cup (RTOf(local[p]) \ RTOf(session)) ELSE dropped
  /\ Finish(p)
  /\ UNCHANGED <<session, lock, timeVars, idpVars, revoked, losses>>

\* The stored access token enters its early-refresh window.
TokenDue ==
  /\ session # NoSession /\ session.at \notin due
  /\ due' = due \cup {session.at}
  /\ UNCHANGED <<session, lock, expired, pc, local, idpVars, dropped, revoked, faults, losses>>

TokenExpires ==
  /\ session # NoSession /\ session.at \in due \ expired
  /\ expired' = expired \cup {session.at}
  /\ UNCHANGED <<session, lock, due, pc, local, idpVars, dropped, revoked, faults, losses>>

\* The session key reaches its TTL.
SessionTTL ==
  /\ session # NoSession
  /\ session' = NoSession
  /\ dropped' = dropped \cup RTOf(session)
  /\ UNCHANGED <<lock, timeVars, pc, local, idpVars, revoked, faults, losses>>

\* Mutant: the lock key is set without a TTL.
BugLockTTL ==
  /\ FALSE
  /\ UNCHANGED vars

\* The lock's TTL frees a key whose creator will not release it any more.
LockTTL ==
  /\ lock # Free /\ pc[lock] \notin Critical
  /\ lock' = Free
  /\ UNCHANGED <<session, timeVars, pc, local, idpVars, dropped, revoked, faults, losses>>

\* The key goes while its creator still works: the provider call and the JWKS
\* fetch after it outlast the TTL, or a Redis failover promotes a replica the
\* key had not reached.
LockLost ==
  /\ lock # Free /\ pc[lock] \in Critical
  /\ losses < MaxLosses /\ losses' = losses + 1
  /\ lock' = Free
  /\ UNCHANGED <<session, timeVars, pc, local, idpVars, dropped, revoked, faults>>

-----------------------------------------------------------------------------
(* The specification.                                                      *)

\* What the handler of an accepted request does next when nothing fails.
Proceed(p) ==
  \/ ObtainFree(p) \/ ObtainContended(p) \/ Reread(p)
  \/ IdPGrant(p) \/ IdPReject(p) \/ IdPUnavailable(p)
  \/ StoreRefreshed(p) \/ Release(p) \/ AttachSet(p) \/ Delete(p)

Arrive(p) ==
  RefreshGet(p) \/ ResolveGet(p) \/ AttachGet(p) \/ LogoutGet(p) \/ RevokeGet(p)

Fail(p) == ObtainError(p) \/ StoreError(p) \/ Abort(p)

Environment == TokenDue \/ TokenExpires \/ SessionTTL \/ LockTTL \/ LockLost

Next == (\E p \in Proc : Arrive(p) \/ Proceed(p) \/ Fail(p)) \/ Environment

Spec == Init /\ [][Next]_vars

\* Handlers run until they return, the lock's TTL elapses, and the browser
\* keeps sending requests that the proxy resolves.
Fairness ==
  /\ \A p \in Proc : WF_vars(Proceed(p)) /\ WF_vars(ResolveGet(p))
  /\ WF_vars(LockTTL)

FairSpec == Spec /\ Fairness

-----------------------------------------------------------------------------
(* Properties that hold.                                                   *)

Refreshers == {p \in Proc : pc[p] \in Critical}

\* The refresh lock admits one refresher, and each lock that is lost while its
\* holder works admits at most one more: releases that delete the key of
\* another handler hand the extra place on and never multiply it.
RefreshersBounded == Cardinality(Refreshers) <= 1 + losses

\* A handler that would write the session when it finishes.
Writing(p) == pc[p] \in {"refreshLock", "idp", "apply", "attachSet"}

\* Deleting a session is final as soon as no handler that read it before is
\* still going to write it: an ensureFresh that waits for the lock, or has just
\* got it, reads again and does not bring the session back.
Ended == session = NoSession /\ \A p \in Proc : ~Writing(p)
EndedForGood == [][Ended => Ended']_vars

\* Whatever the interleaving, the stored refresh token is one the provider
\* accepts, or its successor is on the way to the store, unless a successor
\* was dropped on a known path: an answer, write or request that failed after
\* the provider had rotated the token, a tenant patch that wrote an older copy
\* back, a deletion, a provider that revokes the grant on reuse, or one that
\* rotates only now and then, of whose answers the older is stored last after
\* a lock was lost.
StoredTokenUsable ==
  session # NoSession /\ session.rt # 0 /\ session.rt \notin liveRT =>
    \/ \E p \in Proc : pc[p] = "apply" /\ local[p].rt \in liveRT
    \/ dropped \cap liveRT # {}
    \/ ReuseRevokes /\ reuses > 0
    \/ FALSE \in Rotates /\ losses > 0

\* ensureFresh reads the session again under the lock, so it never calls the
\* provider with a token that another handler has already exchanged, unless a
\* lock was lost or a successor token was dropped.
PresentsCurrentToken ==
  \A p \in Proc : pc[p] = "idp" =>
    local[p].rt \in liveRT \/ dropped \cap liveRT # {} \/ losses > 0

\* As long as requests arrive, an access token that is due is replaced, or the
\* session ends, or its refresh token has become unusable: no crash between
\* Obtain and Release leaves the session locked forever.
DueIsRefreshed ==
  \A g \in 1..(MaxGen - 1) :
    (session # NoSession /\ session.at = g /\ g \in due /\ session.rt \in liveRT)
      ~> (\/ session = NoSession \/ session.at # g
          \/ session.rt \notin liveRT \/ gen = MaxGen)

-----------------------------------------------------------------------------
(* What the documentation says and the code does not guarantee.            *)

\* pkg/session/store.go: Delete revokes the session.
RevokedStaysGone == revoked => session = NoSession
=============================================================================
