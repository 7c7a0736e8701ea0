------------------------------- MODULE Handoff -------------------------------
(***************************************************************************)
(* Signed one-time handoff tickets: an admin call issues a ticket for an   *)
(* existing session of a connector (Service.IssueHandoff), and whoever     *)
(* presents it once, before it expires, gets the cookie of that session    *)
(* (Service.RedeemHandoff).  Redemption is split where the code reads the  *)
(* clock or talks to Redis: verify, the TTL of the replay record,          *)
(* ConsumeOnce, session lookup.  Any time may pass between two of these.   *)
(*                                                                         *)
(* Time is counted in ticks, SEC of them to the second, because the ticket *)
(* carries whole seconds and the replay record does not.  Signatures are   *)
(* ideal: the only tickets are the ones that were issued.                  *)
(***************************************************************************)
EXTENDS Integers

CONSTANTS
  Ticket,       \* ticket ids (the random jti)
  Conn,         \* connectors
  Proc,         \* redemption requests in progress, of all instances together
  None,
  SEC,          \* ticks per second
  TTL,          \* life of a ticket, in ticks
  MaxNow        \* bound on the clock

ASSUME HandoffAssumption ==
  /\ None \notin Conn /\ None \notin Ticket /\ None \notin Nat
  /\ SEC \in Nat \ {0} /\ TTL \in Nat \ {0}
  /\ MaxNow \in Nat

VARIABLES
  now,       \* the clock
  exp,       \* ExpiresAt of each issued ticket, in seconds, or None
  conn,      \* its connector, or None
  record,    \* when the replay record of a ticket ends, or None
  session,   \* its session: "usable", "stale" (access token expired) or "gone"
  pc, held,  \* where each redemption stands, and with which ticket
  path,      \* the connector in its URL, or None
  since,     \* when it measured the TTL of the record it is about to make
  redeemed,  \* the tickets ConsumeOnce has accepted so far
  cookies    \* cookies handed out: ticket, and connector they are set for

vars == <<now, exp, conn, record, session, pc, held, path, since, redeemed, cookies>>
redeemVars == <<pc, held, path, since>>

TypeOK ==
  /\ now \in Nat
  /\ exp \in [Ticket -> Nat \cup {None}]
  /\ conn \in [Ticket -> Conn \cup {None}]
  /\ record \in [Ticket -> Nat \cup {None}]
  /\ session \in [Conn -> {"usable", "stale", "gone"}]
  /\ pc \in [Proc -> {"idle", "verified", "consume", "lookup"}]
  /\ held \in [Proc -> Ticket \cup {None}]
  /\ path \in [Proc -> Conn \cup {None}]
  /\ since \in [Proc -> Nat]
  /\ redeemed \in SUBSET Ticket
  /\ cookies \in SUBSET (Ticket \X Conn)
  /\ \A t \in Ticket : exp[t] # None => conn[t] # None
  /\ \A p \in Proc : pc[p] # "idle" => held[p] # None /\ exp[held[p]] # None

Init ==
  /\ now = 0
  /\ exp = [t \in Ticket |-> None]
  /\ conn = [t \in Ticket |-> None]
  /\ record = [t \in Ticket |-> None]
  /\ session = [c \in Conn |-> "usable"]
  /\ pc = [p \in Proc |-> "idle"]
  /\ held = [p \in Proc |-> None]
  /\ path = [p \in Proc |-> None]
  /\ since = [p \in Proc |-> 0]
  /\ redeemed = {}
  /\ cookies = {}

-----------------------------------------------------------------------------
Unix(t) == t \div SEC

\* Issuer.verify rejects a ticket when the clock's second is past ExpiresAt.
Valid(t) == exp[t] # None /\ Unix(now) <= exp[t]

\* Mutant: the record lives until ExpiresAt, without the extra second.
BugRecordTTL(t, v) ==
  LET ttl == exp[t] * SEC - v IN IF ttl <= 0 THEN SEC ELSE ttl

\* Issuer.Redeem keeps the replay record one second past ExpiresAt, as counted
\* at time v, and for a second when that is already over.
RecordTTL(t, v) ==
  LET ttl == exp[t] * SEC - v + SEC IN IF ttl <= 0 THEN SEC ELSE ttl

\* Redis drops the record at its end.
Recorded(t) == record[t] # None /\ now < record[t]

Finish(p) ==
  /\ pc' = [pc EXCEPT ![p] = "idle"]
  /\ held' = [held EXCEPT ![p] = None]
  /\ path' = [path EXCEPT ![p] = None]
  /\ since' = [since EXCEPT ![p] = 0]

-----------------------------------------------------------------------------
\* IssueHandoff finds the user's session by subject and e-mail; a session
\* whose access token has expired is not found.
Issue(t, c) ==
  /\ exp[t] = None /\ session[c] = "usable"
  /\ exp' = [exp EXCEPT ![t] = Unix(now + TTL)]
  /\ conn' = [conn EXCEPT ![t] = c]
  /\ UNCHANGED <<now, record, session, redeemVars, redeemed, cookies>>

\* A ticket that does not verify changes nothing and is left out.
Verify(p, t, c) ==
  /\ pc[p] = "idle" /\ Valid(t)
  /\ pc' = [pc EXCEPT ![p] = "verified"]
  /\ held' = [held EXCEPT ![p] = t]
  /\ path' = [path EXCEPT ![p] = c]
  /\ UNCHANGED <<now, exp, conn, record, session, since, redeemed, cookies>>

\* time.Until reads the clock once more.
MeasureTTL(p) ==
  /\ pc[p] = "verified"
  /\ pc' = [pc EXCEPT ![p] = "consume"]
  /\ since' = [since EXCEPT ![p] = now]
  /\ UNCHANGED <<now, exp, conn, record, session, held, path, redeemed, cookies>>

\* ConsumeOnce: SET NX creates the record.
ConsumeFirst(p) ==
  /\ pc[p] = "consume" /\ ~Recorded(held[p])
  /\ record' = [record EXCEPT ![held[p]] = now + RecordTTL(held[p], since[p])]
  /\ redeemed' = redeemed \cup {held[p]}
  /\ pc' = [pc EXCEPT ![p] = "lookup"]
  /\ UNCHANGED <<now, exp, conn, session, held, path, since, cookies>>

\* Mutant: a refused redemption takes the record away again.
BugConsumeReplay(p) ==
  /\ pc[p] = "consume" /\ Recorded(held[p])
  /\ record' = [record EXCEPT ![held[p]] = None]
  /\ Finish(p)
  /\ UNCHANGED <<now, exp, conn, session, redeemed, cookies>>

\* The record exists: a replay.
ConsumeReplay(p) ==
  /\ pc[p] = "consume" /\ Recorded(held[p])
  /\ Finish(p)
  /\ UNCHANGED <<now, exp, conn, record, session, redeemed, cookies>>

\* Redis fails, before or after it created the record: the redemption fails,
\* and in the second case the ticket is spent.
ConsumeError(p) ==
  /\ pc[p] = "consume" /\ ~Recorded(held[p])
  /\ record' \in {record, [record EXCEPT ![held[p]] = now + RecordTTL(held[p], since[p])]}
  /\ Finish(p)
  /\ UNCHANGED <<now, exp, conn, session, redeemed, cookies>>

\* The ticket is consumed; now the connector of the URL must be its own, and
\* its session must still exist.  Either failure leaves it consumed.
Refused(p) ==
  \/ path[p] \notin {None, conn[held[p]]}
  \/ session[conn[held[p]]] = "gone"

Lookup(p) ==
  /\ pc[p] = "lookup"
  /\ cookies' = IF Refused(p) THEN cookies
                ELSE cookies \cup {<<held[p], conn[held[p]]>>}
  /\ Finish(p)
  /\ UNCHANGED <<now, exp, conn, record, session, redeemed>>

-----------------------------------------------------------------------------
\* The request's context ends, its instance stops, or the session lookup or
\* the encoding of the cookie fails.
Abort(p) ==
  /\ pc[p] # "idle"
  /\ Finish(p)
  /\ UNCHANGED <<now, exp, conn, record, session, redeemed, cookies>>

\* Time passes, also while a request waits for Redis or is not scheduled.
Tick ==
  /\ now < MaxNow
  /\ now' = now + 1
  /\ UNCHANGED <<exp, conn, record, session, redeemVars, redeemed, cookies>>

\* The session's access token expires, is refreshed, or the session ends.
SessionChanges(c) ==
  /\ session[c] # "gone"
  /\ session' \in {[session EXCEPT ![c] = s] : s \in {"usable", "stale", "gone"}}
  /\ UNCHANGED <<now, exp, conn, record, redeemVars, redeemed, cookies>>

Next ==
  \/ \E t \in Ticket, c \in Conn : Issue(t, c)
  \/ \E p \in Proc :
       \/ \E t \in Ticket, c \in Conn \cup {None} : Verify(p, t, c)
       \/ MeasureTTL(p) \/ ConsumeFirst(p) \/ ConsumeReplay(p) \/ ConsumeError(p)
       \/ Lookup(p) \/ Abort(p)
  \/ \E c \in Conn : SessionChanges(c)
  \/ Tick

Spec == Init /\ [][Next]_vars

-----------------------------------------------------------------------------
\* handoff.go, Redeem: as long as a ticket has not expired it is redeemed once
\* at most, however many requests present it and however its replay record and
\* its own expiry fall.  "It can be redeemed only once" (handoff.go:80) is more
\* than the code does: ConsumeOnce accepts a redeemed ticket again from a
\* request that verified it in time and reaches Redis after it has expired,
\* when the record is gone, too.  This states that there is no other case.
RedeemedOnce ==
  [][\A p \in Proc : pc[p] = "consume" /\ pc'[p] = "lookup" /\ held[p] \in redeemed
       => ~Valid(held[p])]_vars

\* The ticket as its users see it: whether a record was ever made for it,
\* whether its time is over, which requests verified it and stand before
\* ConsumeOnce, and which between ConsumeOnce and their answer.
Status(t) == IF exp[t] = None THEN "none" ELSE IF record[t] = None THEN "live" ELSE "spent"
Over == {t \in Ticket : exp[t] # None /\ ~Valid(t)}
Asking(t) == {p \in Proc : pc[p] \in {"verified", "consume"} /\ held[p] = t}
Holding(t) == {p \in Proc : pc[p] = "lookup" /\ held[p] = t}

Promise == INSTANCE OneTime
  WITH Request <- Proc, status <- [t \in Ticket |-> Status(t)], owner <- conn, over <- Over,
       asking <- [t \in Ticket |-> Asking(t)], holder <- [t \in Ticket |-> Holding(t)],
       paid <- cookies

\* handoff.go, Redeem, and service.go, RedeemHandoff, implement a one-time
\* ticket with the exception above: before it expires a ticket that was taken
\* or lost is never taken again, although its replay record may go away; only
\* requests that presented it in time take it; and it is paid to its own
\* connector, once by each that took it.
OneTimeTicket == Promise!Spec
=============================================================================
