------------------------------- MODULE OneTime -------------------------------
(***************************************************************************)
(* What a handoff ticket promises, whatever stores, clocks and requests do *)
(* below: as long as it has not expired, one request at most takes it; a   *)
(* request takes it only if it presented it in time; and each request that *)
(* took it buys at most one cookie, for the connector of the ticket.       *)
(***************************************************************************)
CONSTANTS Ticket, Conn, Request, None

VARIABLES
  status,   \* "none", "live" until it is taken or lost, then "spent"
  owner,    \* the connector of an issued ticket, or None
  over,     \* the tickets that have expired
  asking,   \* the requests that presented each ticket in time
  holder,   \* the requests that took each ticket and have not answered yet
  paid      \* cookies: ticket and connector

vars == <<status, owner, over, asking, holder, paid>>

Init ==
  /\ status = [t \in Ticket |-> "none"] /\ owner = [t \in Ticket |-> None]
  /\ over = {} /\ paid = {}
  /\ asking = [t \in Ticket |-> {}] /\ holder = [t \in Ticket |-> {}]

Issue(t, c) ==
  /\ status[t] = "none" /\ status' = [status EXCEPT ![t] = "live"]
  /\ owner' = [owner EXCEPT ![t] = c]
  /\ UNCHANGED <<over, asking, holder, paid>>

Present(t, r) ==
  /\ status[t] # "none" /\ t \notin over
  /\ asking' = [asking EXCEPT ![t] = @ \cup {r}]
  /\ UNCHANGED <<status, owner, over, holder, paid>>

\* The request leaves the ticket, which may be lost to a failure with it.
Drop(t, r) ==
  /\ r \in asking[t] /\ asking' = [asking EXCEPT ![t] = @ \ {r}]
  /\ status' \in {status, [status EXCEPT ![t] = "spent"]}
  /\ UNCHANGED <<owner, over, holder, paid>>

\* The first to take the ticket, or one that comes too late to be refused.
Take(t, r) ==
  /\ r \in asking[t] /\ asking' = [asking EXCEPT ![t] = @ \ {r}]
  /\ status[t] = "live" \/ t \in over
  /\ status' = [status EXCEPT ![t] = "spent"]
  /\ holder' = [holder EXCEPT ![t] = @ \cup {r}]
  /\ UNCHANGED <<owner, over, paid>>

\* It answers with the cookie, or with an error.
Answer(t, r) ==
  /\ r \in holder[t] /\ holder' = [holder EXCEPT ![t] = @ \ {r}]
  /\ paid' \in {paid, paid \cup {<<t, owner[t]>>}}
  /\ UNCHANGED <<status, owner, over, asking>>

Pass ==
  /\ over \subseteq over' /\ over' \subseteq Ticket
  /\ UNCHANGED <<status, owner, asking, holder, paid>>

Next ==
  \/ Pass
  \/ \E t \in Ticket :
       \/ \E c \in Conn : Issue(t, c)
       \/ \E r \in Request : Present(t, r) \/ Drop(t, r) \/ Take(t, r) \/ Answer(t, r)

Spec == Init /\ [][Next]_vars
=============================================================================
