---------------------------- MODULE HandoffProofs ----------------------------
(***************************************************************************)
(* As long as it has not expired, a handoff ticket is redeemed at most     *)
(* once, for any number of tickets, connectors and concurrent redemptions, *)
(* any ticket life, any clock resolution and any time between the steps of *)
(* a redemption.  The argument: a replay record, whenever it is made,      *)
(* reaches past the last instant at which its ticket verifies.             *)
(***************************************************************************)
EXTENDS Handoff, TLAPS

\* Quotient and remainder.
LEMMA DivMod ==
  ASSUME NEW n \in Nat, NEW s \in Nat \ {0}
  PROVE  /\ n \div s \in Nat
         /\ s * (n \div s) <= n /\ n < s * (n \div s) + s
<1> DEFINE q == n \div s
           r == n % s
<1>1. q \in Nat /\ r \in Nat /\ r < s /\ n = s * q + r
  BY SMT
<1>2. s * q \in Nat
  BY <1>1, SMT
<1> HIDE DEF q, r
<1>3. s * q <= n /\ n < s * q + s
  BY <1>1, <1>2, SMT
<1> QED BY <1>1, <1>3 DEF q

\* The clock is below the end of the last second in which it verifies.
LEMMA UnixBound ==
  ASSUME NEW n \in Nat, NEW s \in Nat \ {0}, NEW e \in Nat, n \div s <= e
  PROVE  n < e * s + s
<1> DEFINE q == n \div s
<1>1. q \in Nat /\ n < s * q + s /\ q <= e
  BY DivMod
<1> HIDE DEF q
<1>2. s * q <= s * e
  BY <1>1, SMT
<1>3. s * e = e * s /\ s * e \in Nat /\ s * q \in Nat
  BY <1>1, SMT
<1> QED BY <1>1, <1>2, <1>3, SMT

\* Seconds do not decrease.
LEMMA DivGrows ==
  ASSUME NEW m \in Nat, NEW n \in Nat, m <= n, NEW s \in Nat \ {0}
  PROVE  m \div s <= n \div s
<1> DEFINE q == m \div s
           e == n \div s
<1>1. q \in Nat /\ e \in Nat /\ s * q <= m
  BY DivMod
<1>2. n < e * s + s
  BY <1>1, UnixBound
<1> HIDE DEF q, e
<1>3. SUFFICES ASSUME q >= e + 1 PROVE FALSE
  BY <1>1, SMT DEF q, e
<1>4. s * q >= s * (e + 1)
  BY <1>1, <1>3, SMT
<1>5. s * (e + 1) = e * s + s /\ s * q \in Nat /\ e * s \in Nat
  BY <1>1, SMT
<1> QED BY <1>1, <1>2, <1>4, <1>5, SMT

USE HandoffAssumption

\* The clock's second is a number.
LEMMA UnixType == ASSUME NEW n \in Nat PROVE Unix(n) \in Nat
BY SMT DEF Unix

\* The end of a replay record is a time.
LEMMA RecordEndType ==
  ASSUME TypeOK, NEW p \in Proc, pc[p] # "idle"
  PROVE  now + RecordTTL(held[p], since[p]) \in Nat
<1>1. now \in Nat /\ exp[held[p]] \in Nat /\ since[p] \in Nat
  BY SMT DEF TypeOK
<1>2. exp[held[p]] * SEC \in Nat
  BY <1>1, SMT
<1> QED BY <1>1, <1>2, SMT DEF RecordTTL

\* The type invariant holds: in particular a redemption in progress holds a
\* ticket that was issued.
THEOREM HandoffTypeCorrect == Spec => []TypeOK
<1>1. Init => TypeOK
  BY SMTT(60) DEF Init, TypeOK
<1>2. TypeOK /\ [Next]_vars => TypeOK'
  <2> SUFFICES ASSUME TypeOK, [Next]_vars PROVE TypeOK'
    OBVIOUS
  <2> USE DEF TypeOK, redeemVars, Finish
  <2>1. ASSUME NEW t \in Ticket, NEW c \in Conn, Issue(t, c) PROVE TypeOK'
    <3>1. Unix(now + TTL) \in Nat
      BY UnixType, SMT
    <3> DEFINE e == Unix(now + TTL)
    <3>2. e \in Nat /\ exp' = [exp EXCEPT ![t] = e]
      BY <2>1, <3>1 DEF Issue
    <3> HIDE DEF e
    <3> QED BY <2>1, <3>2, SMT DEF Issue
  <2>2. ASSUME NEW p \in Proc, NEW t \in Ticket, NEW c \in Conn \cup {None}, Verify(p, t, c)
        PROVE  TypeOK'
    BY <2>2, SMT DEF Verify, Valid
  <2>3. ASSUME NEW p \in Proc, MeasureTTL(p) PROVE TypeOK'
    BY <2>3, SMT DEF MeasureTTL
  <2>4. ASSUME NEW p \in Proc, ConsumeFirst(p) PROVE TypeOK'
    BY <2>4, RecordEndType, SMT DEF ConsumeFirst
  <2>5. ASSUME NEW p \in Proc, ConsumeReplay(p) PROVE TypeOK'
    BY <2>5, SMT DEF ConsumeReplay
  <2>6. ASSUME NEW p \in Proc, ConsumeError(p) PROVE TypeOK'
    BY <2>6, RecordEndType, SMT DEF ConsumeError
  <2>7. ASSUME NEW p \in Proc, Lookup(p) PROVE TypeOK'
    BY <2>7, SMT DEF Lookup, Refused
  <2>8. ASSUME NEW p \in Proc, Abort(p) PROVE TypeOK'
    BY <2>8, SMT DEF Abort
  <2>9. ASSUME NEW c \in Conn, SessionChanges(c) PROVE TypeOK'
    BY <2>9, SMT DEF SessionChanges
  <2>10. CASE Tick
    BY <2>10, SMT DEF Tick
  <2>11. CASE UNCHANGED vars
    BY <2>11, SMT DEF vars
  <2> QED BY <2>1, <2>2, <2>3, <2>4, <2>5, <2>6, <2>7, <2>8, <2>9, <2>10, <2>11 DEF Next
<1> QED BY <1>1, <1>2, PTL DEF Spec

-----------------------------------------------------------------------------
\* The TTL of a record was measured before the record is made.
Measured == \A p \in Proc : pc[p] = "consume" => since[p] <= now

\* Every replay record, of an accepted redemption or of one that failed after
\* Redis had made it, reaches past the ticket's life.
RecordsReach ==
  \A t \in Ticket : record[t] # None =>
    exp[t] \in Nat /\ record[t] \in Nat /\ record[t] >= exp[t] * SEC + SEC

\* A ticket that ConsumeOnce accepted has a record, present or past.
RedeemedRecorded == \A t \in redeemed : record[t] # None

OnceInv == TypeOK /\ Measured /\ RecordsReach /\ RedeemedRecorded

\* A record that is made now reaches past the ticket's life, even if the clock
\* has moved on since its TTL was measured, and even if that was too late.
LEMMA NewRecordReaches ==
  ASSUME TypeOK, Measured, NEW p \in Proc, pc[p] = "consume"
  PROVE  now + RecordTTL(held[p], since[p]) >= exp[held[p]] * SEC + SEC
<1>1. now \in Nat /\ exp[held[p]] \in Nat /\ since[p] \in Nat /\ since[p] <= now
  BY SMT DEF TypeOK, Measured
<1>2. exp[held[p]] * SEC \in Nat
  BY <1>1, SMT
<1> QED BY <1>1, <1>2, SMT DEF RecordTTL

\* OnceInv is inductive.
LEMMA OnceInvHolds == Spec => []OnceInv
<1>1. Init => OnceInv
  <2>1. Init => TypeOK
    BY SMTT(60) DEF Init, TypeOK
  <2> QED BY <2>1, SMT DEF Init, OnceInv, Measured, RecordsReach, RedeemedRecorded
<1>2. OnceInv /\ TypeOK' /\ [Next]_vars => OnceInv'
  <2> SUFFICES ASSUME OnceInv, TypeOK', [Next]_vars
               PROVE  Measured' /\ RecordsReach' /\ RedeemedRecorded'
    BY DEF OnceInv
  <2> DEFINE Kept == Measured' /\ RecordsReach' /\ RedeemedRecorded'
  <2> USE DEF OnceInv, TypeOK, Measured, RecordsReach, RedeemedRecorded, redeemVars, Finish
  <2>1. ASSUME NEW t \in Ticket, NEW c \in Conn, Issue(t, c) PROVE Kept
    <3>1. \A u \in Ticket : u # t => exp'[u] = exp[u]
      BY <2>1, Zenon DEF Issue
    <3>2. exp[t] = None /\ UNCHANGED <<now, record, pc, since, redeemed>>
      BY <2>1, Zenon DEF Issue
    <3>3. RecordsReach'
      BY <3>1, <3>2, SMTT(60)
    <3> QED BY <3>2, <3>3, Zenon
  <2>2. ASSUME NEW p \in Proc, NEW t \in Ticket, NEW c \in Conn \cup {None}, Verify(p, t, c)
        PROVE  Kept
    BY <2>2, SMTT(60) DEF Verify
  <2>3. ASSUME NEW p \in Proc, MeasureTTL(p) PROVE Kept
    BY <2>3, SMTT(60) DEF MeasureTTL
  <2>4. ASSUME NEW p \in Proc, pc[p] = "consume",
               record' \in {record, [record EXCEPT ![held[p]] = now + RecordTTL(held[p], since[p])]},
               UNCHANGED exp
        PROVE  RecordsReach' /\ \A t \in Ticket : record[t] # None => record'[t] # None
    <3> DEFINE n == now + RecordTTL(held[p], since[p])
    <3>1. n \in Nat /\ n >= exp[held[p]] * SEC + SEC
      BY <2>4, NewRecordReaches, RecordEndType, Zenon
    <3>2. held[p] \in Ticket /\ exp[held[p]] \in Nat
      BY <2>4, SMT
    <3>3. record' = record \/ record' = [record EXCEPT ![held[p]] = n]
      BY <2>4, Zenon
    <3>4. n # None
      BY <3>1, SMT
    <3> HIDE DEF n
    <3>5. \A t \in Ticket : record'[t] = record[t] \/ (t = held[p] /\ record'[t] = n)
      <4>1. record \in [Ticket -> Nat \cup {None}]
        BY Zenon
      <4> HIDE DEF OnceInv, TypeOK, Measured, RecordsReach, RedeemedRecorded
      <4>2. CASE record' = [record EXCEPT ![held[p]] = n]
        <5>1. record'[held[p]] = n
          BY <3>2, <4>1, <4>2, Zenon
        <5>2. \A t \in Ticket : t # held[p] => record'[t] = record[t]
          BY <4>1, <4>2, Zenon
        <5> QED BY <5>1, <5>2, Zenon
      <4> QED BY <3>3, <4>2, Zenon
    <3>6. RecordsReach'
      BY <2>4, <3>1, <3>2, <3>5, SMTT(60)
    <3> QED BY <3>4, <3>5, <3>6, Zenon
  <2>5. ASSUME NEW p \in Proc, ConsumeFirst(p) PROVE Kept
    <3>1. RecordsReach' /\ \A t \in Ticket : record[t] # None => record'[t] # None
      BY <2>4, <2>5, Zenon DEF ConsumeFirst
    <3>2. Measured'
      BY <2>5, SMTT(60) DEF ConsumeFirst
    <3>3. record'[held[p]] # None
      BY <2>5, RecordEndType, SMTT(60) DEF ConsumeFirst
    <3>4. redeemed \subseteq Ticket /\ redeemed' = redeemed \cup {held[p]}
      BY <2>5, Zenon DEF ConsumeFirst
    <3>5. RedeemedRecorded'
      BY <3>1, <3>3, <3>4, Zenon
    <3> QED BY <3>1, <3>2, <3>5, Zenon
  <2>6. ASSUME NEW p \in Proc, ConsumeReplay(p) PROVE Kept
    BY <2>6, SMTT(60) DEF ConsumeReplay
  <2>7. ASSUME NEW p \in Proc, ConsumeError(p) PROVE Kept
    <3>1. RecordsReach' /\ \A t \in Ticket : record[t] # None => record'[t] # None
      BY <2>4, <2>7, Zenon DEF ConsumeError
    <3>2. Measured'
      BY <2>7, SMTT(60) DEF ConsumeError
    <3>3. redeemed \subseteq Ticket /\ redeemed' = redeemed
      BY <2>7, Zenon DEF ConsumeError
    <3> QED BY <3>1, <3>2, <3>3, Zenon
  <2>8. ASSUME NEW p \in Proc, Lookup(p) PROVE Kept
    BY <2>8, SMTT(60) DEF Lookup
  <2>9. ASSUME NEW p \in Proc, Abort(p) PROVE Kept
    BY <2>9, SMTT(60) DEF Abort
  <2>10. ASSUME NEW c \in Conn, SessionChanges(c) PROVE Kept
    BY <2>10, Zenon DEF SessionChanges
  <2>11. CASE Tick
    <3>1. Measured'
      BY <2>11, SMTT(60) DEF Tick
    <3> QED BY <2>11, <3>1, Zenon DEF Tick
  <2>12. CASE UNCHANGED vars
    BY <2>12, Zenon DEF vars
  <2> HIDE DEF OnceInv, TypeOK, Measured, RecordsReach, RedeemedRecorded
  <2> QED BY <2>1, <2>2, <2>3, <2>5, <2>6, <2>7, <2>8, <2>9, <2>10, <2>11, <2>12 DEF Next
<1> QED BY <1>1, <1>2, HandoffTypeCorrect, PTL DEF Spec

\* As long as a ticket verifies, the record that was made for it is there.
LEMMA RecordStillThere ==
  ASSUME OnceInv, NEW t \in Ticket, record[t] # None, Valid(t)
  PROVE  Recorded(t)
<1>1. now \in Nat /\ exp[t] \in Nat /\ now \div SEC <= exp[t]
  BY SMT DEF OnceInv, TypeOK, Valid, Unix
<1>2. now < exp[t] * SEC + SEC
  BY <1>1, UnixBound
<1>3. record[t] \in Nat /\ record[t] >= exp[t] * SEC + SEC
  BY Zenon DEF OnceInv, RecordsReach
<1>4. exp[t] * SEC \in Nat
  BY <1>1, SMT
<1> DEFINE e == exp[t] * SEC
           n == record[t]
<1>5. now \in Nat /\ e \in Nat /\ SEC \in Nat /\ n \in Nat /\ now < e + SEC /\ n >= e + SEC
  BY <1>1, <1>2, <1>3, <1>4, Zenon
<1> HIDE DEF e, n
<1>6. now < n
  BY <1>5, SMT
<1> QED BY <1>6, Zenon DEF Recorded, n

\* ConsumeOnce accepts a ticket only if its record is not there.
LEMMA AcceptedUnrecorded ==
  ASSUME TypeOK, [Next]_vars, NEW p \in Proc, pc[p] = "consume", pc'[p] = "lookup"
  PROVE  ~Recorded(held[p])
<1> USE DEF TypeOK
<1>1. ASSUME NEW q \in Proc, NEW l, l # "lookup", pc' = [pc EXCEPT ![q] = l] PROVE FALSE
  BY <1>1, SMT
<1>2. ASSUME pc' = pc PROVE FALSE
  BY <1>2, Zenon
<1>3. ASSUME NEW q \in Proc, ConsumeFirst(q) PROVE ~Recorded(held[p])
  <2>1. q = p
    BY <1>3, SMT DEF ConsumeFirst
  <2> QED BY <1>3, <2>1, Zenon DEF ConsumeFirst
<1>4. CASE \E q \in Proc : ConsumeFirst(q)
  BY <1>3, <1>4, Zenon
<1>5. CASE \E q \in Proc : \E l : l # "lookup" /\ pc' = [pc EXCEPT ![q] = l]
  BY <1>1, <1>5, Zenon
<1>6. CASE pc' = pc
  BY <1>2, <1>6, Zenon
<1> HIDE DEF TypeOK
<1>7. ASSUME NEW q \in Proc,
             \/ \E t \in Ticket, c \in Conn \cup {None} : Verify(q, t, c)
             \/ MeasureTTL(q) \/ ConsumeReplay(q) \/ ConsumeError(q) \/ Lookup(q) \/ Abort(q)
      PROVE  \E l : l # "lookup" /\ pc' = [pc EXCEPT ![q] = l]
  <2>1. \/ pc' = [pc EXCEPT ![q] = "verified"] \/ pc' = [pc EXCEPT ![q] = "consume"]
        \/ pc' = [pc EXCEPT ![q] = "idle"]
    BY <1>7, Zenon DEF Verify, MeasureTTL, ConsumeReplay, ConsumeError, Lookup, Abort, Finish
  <2>2. "verified" # "lookup" /\ "consume" # "lookup" /\ "idle" # "lookup"
    BY SMT
  <2> QED BY <2>1, <2>2, Zenon
<1>8. ASSUME \/ \E t \in Ticket, c \in Conn : Issue(t, c)
             \/ \E c \in Conn : SessionChanges(c)
             \/ Tick \/ UNCHANGED vars
      PROVE  pc' = pc
  BY <1>8, Zenon DEF Issue, SessionChanges, Tick, vars, redeemVars
<1> QED BY <1>4, <1>5, <1>6, <1>7, <1>8, Zenon DEF Next

\* Issuer.Redeem accepts a redeemed ticket again only after the ticket has
\* expired, whatever time passes between its verification and the SET NX: the
\* extra second of the replay record covers the second in which it expires.
THEOREM TicketRedeemedOnce == Spec => RedeemedOnce
<1>1. OnceInv /\ [Next]_vars
        => [\A p \in Proc : pc[p] = "consume" /\ pc'[p] = "lookup" /\ held[p] \in redeemed
              => ~Valid(held[p])]_vars
  <2> SUFFICES ASSUME OnceInv, [Next]_vars, NEW p \in Proc,
                      pc[p] = "consume", pc'[p] = "lookup", held[p] \in redeemed, Valid(held[p])
               PROVE  FALSE
    BY Zenon
  <2>1. ~Recorded(held[p])
    BY AcceptedUnrecorded, Zenon DEF OnceInv
  <2>2. held[p] \in Ticket /\ record[held[p]] # None
    BY Zenon DEF OnceInv, TypeOK, RedeemedRecorded
  <2> QED BY <2>1, <2>2, RecordStillThere, Zenon
<1> QED BY <1>1, OnceInvHolds, PTL DEF Spec, RedeemedOnce

-----------------------------------------------------------------------------
(***************************************************************************)
(* Refinement: the redemption implements the ticket of module OneTime.     *)
(***************************************************************************)
\* A step of one request, on one ticket, moves that request between the sets
\* of the ticket and leaves those of every other ticket alone.
LEMMA RequestMoves ==
  ASSUME NEW p \in Proc, NEW t \in Ticket,
         \A q \in Proc \ {p} : pc'[q] = pc[q] /\ held'[q] = held[q],
         pc[p] # "idle" => held[p] = t, pc'[p] # "idle" => held'[p] = t
  PROVE  /\ \A u \in Ticket \ {t} : Asking(u)' = Asking(u) /\ Holding(u)' = Holding(u)
         /\ pc'[p] \in {"verified", "consume"} => Asking(t)' = Asking(t) \cup {p}
         /\ pc'[p] \notin {"verified", "consume"} => Asking(t)' = Asking(t) \ {p}
         /\ pc'[p] = "lookup" => Holding(t)' = Holding(t) \cup {p}
         /\ pc'[p] # "lookup" => Holding(t)' = Holding(t) \ {p}
<1>1. \A u \in Ticket \ {t} : Asking(u)' = Asking(u)
  BY SMT DEF Asking
<1>2. \A u \in Ticket \ {t} : Holding(u)' = Holding(u)
  BY SMT DEF Holding
<1>3. pc'[p] \in {"verified", "consume"} => Asking(t)' = Asking(t) \cup {p}
  BY SMT DEF Asking
<1>4. pc'[p] \notin {"verified", "consume"} => Asking(t)' = Asking(t) \ {p}
  BY SMT DEF Asking
<1>5. pc'[p] = "lookup" => Holding(t)' = Holding(t) \cup {p}
  BY SMT DEF Holding
<1>6. pc'[p] # "lookup" => Holding(t)' = Holding(t) \ {p}
  BY SMT DEF Holding
<1> QED BY <1>1, <1>2, <1>3, <1>4, <1>5, <1>6, Zenon

\* What the users of the tickets see.
StatusMap == [t \in Ticket |-> Status(t)]
AskingMap == [t \in Ticket |-> Asking(t)]
HoldingMap == [t \in Ticket |-> Holding(t)]

\* A map that changes for one ticket at most.
LEMMA AskingStep ==
  ASSUME NEW t \in Ticket, NEW x, Asking(t)' = x,
         \A u \in Ticket \ {t} : Asking(u)' = Asking(u)
  PROVE  AskingMap' = [AskingMap EXCEPT ![t] = x]
BY Zenon DEF AskingMap

LEMMA HoldingStep ==
  ASSUME NEW t \in Ticket, NEW x, Holding(t)' = x,
         \A u \in Ticket \ {t} : Holding(u)' = Holding(u)
  PROVE  HoldingMap' = [HoldingMap EXCEPT ![t] = x]
BY Zenon DEF HoldingMap

LEMMA StatusStep ==
  ASSUME NEW t \in Ticket, NEW x, Status(t)' = x,
         \A u \in Ticket \ {t} : Status(u)' = Status(u)
  PROVE  StatusMap' = [StatusMap EXCEPT ![t] = x]
BY Zenon DEF StatusMap

\* Status and expiry follow from a few variables.
LEMMA SameStatus ==
  ASSUME UNCHANGED <<exp, record>>
  PROVE  StatusMap' = StatusMap
BY Zenon DEF StatusMap, Status

LEMMA SameOver ==
  ASSUME UNCHANGED <<now, exp>>
  PROVE  Over' = Over
BY Zenon DEF Over, Valid, Unix

\* A redemption that ends before its ConsumeOnce, or by it, without a record.
LEMMA RequestDrops ==
  ASSUME OnceInv, NEW p \in Proc, pc[p] \in {"verified", "consume"}, Finish(p),
         UNCHANGED <<now, exp, conn, cookies>>,
         record' \in {record, [record EXCEPT ![held[p]] = now + RecordTTL(held[p], since[p])]}
  PROVE  \E t \in Ticket : Promise!Drop(t, p)
<1>1. PICK t \in Ticket : t = held[p] /\ exp[t] # None
  BY SMT DEF OnceInv, TypeOK
<1>2. pc'[p] = "idle" /\ \A q \in Proc \ {p} : pc'[q] = pc[q] /\ held'[q] = held[q]
  BY SMT DEF OnceInv, TypeOK, Finish
<1>3. /\ \A u \in Ticket \ {t} : Asking(u)' = Asking(u) /\ Holding(u)' = Holding(u)
      /\ Asking(t)' = Asking(t) \ {p} /\ Holding(t)' = Holding(t) \ {p}
  BY <1>1, <1>2, RequestMoves, SMT
<1>4. p \in Asking(t) /\ Holding(t) \ {p} = Holding(t)
  BY <1>1, SMT DEF Asking, Holding
<1>5. AskingMap' = [AskingMap EXCEPT ![t] = AskingMap[t] \ {p}]
  BY <1>3, AskingStep, Zenon DEF AskingMap
<1>6. HoldingMap' = HoldingMap
  BY <1>3, <1>4, Zenon DEF HoldingMap
<1>7. StatusMap' \in {StatusMap, [StatusMap EXCEPT ![t] = "spent"]}
  <2>1. CASE record' = record
    BY <2>1, SameStatus, Zenon
  <2>2. CASE record' = [record EXCEPT ![t] = now + RecordTTL(t, since[p])]
    <3>1. now + RecordTTL(t, since[p]) # None
      BY <1>1, RecordEndType, SMT DEF OnceInv
    <3>2. record \in [Ticket -> Nat \cup {None}]
      BY Zenon DEF OnceInv, TypeOK
    <3>3. record'[t] # None /\ \A u \in Ticket \ {t} : record'[u] = record[u]
      BY <2>2, <3>1, <3>2, Zenon
    <3>4. Status(t)' = "spent" /\ \A u \in Ticket \ {t} : Status(u)' = Status(u)
      BY <1>1, <3>3, Zenon DEF Status
    <3> QED BY <3>4, StatusStep, Zenon
  <2> QED BY <1>1, <2>1, <2>2, Zenon
<1>8. p \in AskingMap[t]
  BY <1>4, Zenon DEF AskingMap
<1>9. Over' = Over
  BY SameOver, Zenon
<1> QED BY <1>5, <1>6, <1>7, <1>8, <1>9, Zenon DEF Promise!Drop, StatusMap, AskingMap, HoldingMap

\* A redemption that answers, with the cookie of its ticket or without.
LEMMA RequestAnswers ==
  ASSUME OnceInv, NEW p \in Proc, pc[p] = "lookup", Finish(p),
         UNCHANGED <<now, exp, conn, record>>,
         cookies' \in {cookies, cookies \cup {<<held[p], conn[held[p]]>>}}
  PROVE  \E t \in Ticket : Promise!Answer(t, p)
<1>1. PICK t \in Ticket : t = held[p]
  BY SMT DEF OnceInv, TypeOK
<1>2. pc'[p] = "idle" /\ \A q \in Proc \ {p} : pc'[q] = pc[q] /\ held'[q] = held[q]
  BY SMT DEF OnceInv, TypeOK, Finish
<1>3. /\ \A u \in Ticket \ {t} : Asking(u)' = Asking(u) /\ Holding(u)' = Holding(u)
      /\ Asking(t)' = Asking(t) \ {p} /\ Holding(t)' = Holding(t) \ {p}
  BY <1>1, <1>2, RequestMoves, SMT
<1>4. p \in Holding(t) /\ Asking(t) \ {p} = Asking(t)
  BY <1>1, SMT DEF Asking, Holding
<1>5. HoldingMap' = [HoldingMap EXCEPT ![t] = HoldingMap[t] \ {p}]
  BY <1>3, HoldingStep, Zenon DEF HoldingMap
<1>6. AskingMap' = AskingMap
  BY <1>3, <1>4, Zenon DEF AskingMap
<1>7. StatusMap' = StatusMap /\ Over' = Over
  BY SameStatus, SameOver, Zenon
<1>8. p \in HoldingMap[t]
  BY <1>4, Zenon DEF HoldingMap
<1>9. cookies' \in {cookies, cookies \cup {<<t, conn[t]>>}}
  BY <1>1, Zenon
<1> QED BY <1>5, <1>6, <1>7, <1>8, <1>9, Zenon DEF Promise!Answer, StatusMap, AskingMap, HoldingMap

\* Every step of the redemption is a step of the one-time ticket, or changes
\* nothing its users see.
LEMMA StepImplements ==
  ASSUME OnceInv, OnceInv', [Next]_vars
  PROVE  [Promise!Next]_(Promise!vars)
<1> DEFINE Same == /\ StatusMap' = StatusMap /\ AskingMap' = AskingMap /\ HoldingMap' = HoldingMap
                   /\ Over' = Over /\ UNCHANGED <<conn, cookies>>
<1>0. Same => [Promise!Next]_(Promise!vars)
  BY Zenon DEF Promise!vars, StatusMap, AskingMap, HoldingMap
<1> HIDE DEF Same
<1>1. ASSUME NEW t \in Ticket, NEW c \in Conn, Issue(t, c) PROVE Promise!Issue(t, c)
  <2>1. exp[t] = None /\ record[t] = None
    BY <1>1, SMT DEF Issue, OnceInv, RecordsReach
  <2>2. UNCHANGED <<now, record, pc, held, cookies>>
    BY <1>1, Zenon DEF Issue, redeemVars
  <2>3. exp'[t] = Unix(now + TTL) /\ \A u \in Ticket \ {t} : exp'[u] = exp[u]
    BY <1>1, ZenonT(60) DEF Issue, OnceInv, TypeOK
  <2>4. exp'[t] \in Nat /\ Unix(now) \in Nat /\ Unix(now) <= exp'[t]
    <3>1. now \in Nat /\ now + TTL \in Nat /\ now <= now + TTL
      BY SMT DEF OnceInv, TypeOK
    <3> QED BY <2>3, <3>1, UnixType, DivGrows, Zenon DEF Unix
  <2>5. exp'[t] # None
    BY <2>4, SMT
  <2>6. StatusMap' = [StatusMap EXCEPT ![t] = "live"] /\ StatusMap[t] = "none"
    <3>1. Status(t)' = "live" /\ Status(t) = "none"
      BY <2>1, <2>2, <2>5, Zenon DEF Status
    <3>2. \A u \in Ticket \ {t} : Status(u)' = Status(u)
      BY <2>2, <2>3, Zenon DEF Status
    <3> QED BY <3>1, <3>2, StatusStep, Zenon DEF StatusMap
  <2>7. AskingMap' = AskingMap /\ HoldingMap' = HoldingMap
    BY <2>2, Zenon DEF AskingMap, HoldingMap, Asking, Holding
  <2>8. Over' = Over
    <3>1. t \notin Over
      BY <2>1, Zenon DEF Over
    <3>2. t \notin Over'
      BY <2>2, <2>4, <2>5, Zenon DEF Over, Valid, Unix
    <3>3. \A u \in Ticket \ {t} : u \in Over' <=> u \in Over
      BY <2>2, <2>3, Zenon DEF Over, Valid, Unix
    <3>4. Over \subseteq Ticket /\ Over' \subseteq Ticket
      BY Zenon DEF Over
    <3> QED BY <3>1, <3>2, <3>3, <3>4, SMT
  <2>9. conn' = [conn EXCEPT ![t] = c]
    BY <1>1, Zenon DEF Issue
  <2> QED BY <2>2, <2>6, <2>7, <2>8, <2>9, Zenon DEF Promise!Issue, StatusMap, AskingMap, HoldingMap
<1>2. ASSUME NEW p \in Proc, NEW t \in Ticket, NEW c \in Conn \cup {None}, Verify(p, t, c)
      PROVE  Promise!Present(t, p)
  <2>1. /\ pc[p] = "idle" /\ pc'[p] = "verified" /\ held'[p] = t
        /\ \A q \in Proc \ {p} : pc'[q] = pc[q] /\ held'[q] = held[q]
    BY <1>2, SMT DEF Verify, OnceInv, TypeOK
  <2>2. UNCHANGED <<now, exp, record, conn, cookies>>
    BY <1>2, Zenon DEF Verify
  <2>3. /\ \A u \in Ticket \ {t} : Asking(u)' = Asking(u) /\ Holding(u)' = Holding(u)
        /\ Asking(t)' = Asking(t) \cup {p} /\ Holding(t)' = Holding(t) \ {p}
    BY <2>1, RequestMoves, SMT
  <2>4. Holding(t) \ {p} = Holding(t)
    BY <2>1, SMT DEF Holding
  <2>5. AskingMap' = [AskingMap EXCEPT ![t] = AskingMap[t] \cup {p}]
    BY <2>3, AskingStep, Zenon DEF AskingMap
  <2>6. HoldingMap' = HoldingMap
    BY <2>3, <2>4, Zenon DEF HoldingMap
  <2>7. StatusMap' = StatusMap /\ Over' = Over
    BY <2>2, SameStatus, SameOver, Zenon
  <2>8. t \notin Over /\ Status(t) # "none"
    BY <1>2, SMT DEF Verify, Over, Valid, Status
  <2> QED BY <2>2, <2>5, <2>6, <2>7, <2>8, Zenon
          DEF Promise!Present, StatusMap, AskingMap, HoldingMap
<1>3. ASSUME NEW p \in Proc, MeasureTTL(p) PROVE Same
  <2>1. /\ pc[p] = "verified" /\ pc'[p] = "consume" /\ held' = held
        /\ \A q \in Proc \ {p} : pc'[q] = pc[q]
    BY <1>3, SMT DEF MeasureTTL, OnceInv, TypeOK
  <2>2. UNCHANGED <<now, exp, record, conn, cookies>>
    BY <1>3, Zenon DEF MeasureTTL
  <2>3. \A u \in Ticket : Asking(u)' = Asking(u)
    BY <2>1, SMT DEF Asking
  <2>4. \A u \in Ticket : Holding(u)' = Holding(u)
    BY <2>1, SMT DEF Holding
  <2>5. StatusMap' = StatusMap /\ Over' = Over
    BY <2>2, SameStatus, SameOver, Zenon
  <2> QED BY <2>2, <2>3, <2>4, <2>5, Zenon DEF Same, AskingMap, HoldingMap
<1>4. ASSUME NEW p \in Proc, ConsumeFirst(p) PROVE \E t \in Ticket : Promise!Take(t, p)
  <2>1. PICK t \in Ticket : t = held[p] /\ exp[t] # None
    BY <1>4, SMT DEF ConsumeFirst, OnceInv, TypeOK
  <2>2. /\ pc[p] = "consume" /\ pc'[p] = "lookup" /\ held' = held
        /\ \A q \in Proc \ {p} : pc'[q] = pc[q]
    BY <1>4, SMT DEF ConsumeFirst, OnceInv, TypeOK
  <2>3. UNCHANGED <<now, exp, conn, cookies>>
    BY <1>4, Zenon DEF ConsumeFirst
  <2>4. /\ \A u \in Ticket \ {t} : Asking(u)' = Asking(u) /\ Holding(u)' = Holding(u)
        /\ Asking(t)' = Asking(t) \ {p} /\ Holding(t)' = Holding(t) \cup {p}
    BY <2>1, <2>2, RequestMoves, SMT
  <2>5. AskingMap' = [AskingMap EXCEPT ![t] = AskingMap[t] \ {p}] /\ p \in AskingMap[t]
    <3>1. p \in Asking(t)
      BY <2>1, <2>2, SMT DEF Asking
    <3> QED BY <2>4, <3>1, AskingStep, Zenon DEF AskingMap
  <2>6. HoldingMap' = [HoldingMap EXCEPT ![t] = HoldingMap[t] \cup {p}]
    BY <2>4, HoldingStep, Zenon DEF HoldingMap
  <2>7. StatusMap' = [StatusMap EXCEPT ![t] = "spent"]
    <3>1. now + RecordTTL(t, since[p]) # None
      BY <2>1, <2>2, RecordEndType, SMT DEF OnceInv
    <3>2. record \in [Ticket -> Nat \cup {None}]
      BY Zenon DEF OnceInv, TypeOK
    <3>3. record' = [record EXCEPT ![t] = now + RecordTTL(t, since[p])]
      BY <1>4, <2>1, Zenon DEF ConsumeFirst
    <3>4. record'[t] # None /\ \A u \in Ticket \ {t} : record'[u] = record[u]
      BY <3>1, <3>2, <3>3, Zenon
    <3>5. Status(t)' = "spent" /\ \A u \in Ticket \ {t} : Status(u)' = Status(u)
      BY <2>1, <2>3, <3>4, Zenon DEF Status
    <3> QED BY <3>5, StatusStep, Zenon
  <2>8. StatusMap[t] = "live" \/ t \in Over
    <3>1. ~Recorded(t)
      BY <1>4, <2>1, Zenon DEF ConsumeFirst
    <3>2. record[t] = None \/ ~Valid(t)
      BY <3>1, RecordStillThere, Zenon
    <3> QED BY <2>1, <3>2, Zenon DEF StatusMap, Status, Over
  <2>9. Over' = Over
    BY <2>3, SameOver, Zenon
  <2> QED BY <2>3, <2>5, <2>6, <2>7, <2>8, <2>9, Zenon
          DEF Promise!Take, StatusMap, AskingMap, HoldingMap
<1>5. ASSUME NEW p \in Proc, ConsumeReplay(p) \/ ConsumeError(p)
      PROVE  \E t \in Ticket : Promise!Drop(t, p)
  BY <1>5, RequestDrops, Zenon DEF ConsumeReplay, ConsumeError
<1>6. ASSUME NEW p \in Proc, Lookup(p) PROVE \E t \in Ticket : Promise!Answer(t, p)
  BY <1>6, RequestAnswers, Zenon DEF Lookup
<1>7. ASSUME NEW p \in Proc, Abort(p)
      PROVE  \E t \in Ticket : Promise!Drop(t, p) \/ Promise!Answer(t, p)
  <2>1. CASE pc[p] = "lookup"
    BY <1>7, <2>1, RequestAnswers, Zenon DEF Abort
  <2>2. CASE pc[p] \in {"verified", "consume"}
    BY <1>7, <2>2, RequestDrops, Zenon DEF Abort
  <2>3. pc[p] \in {"verified", "consume", "lookup"}
    BY <1>7, SMT DEF Abort, OnceInv, TypeOK
  <2> QED BY <2>1, <2>2, <2>3, Zenon
<1>8. ASSUME UNCHANGED <<now, exp, conn, record, pc, held, cookies>> PROVE Same
  <2>1. StatusMap' = StatusMap /\ Over' = Over
    BY <1>8, SameStatus, SameOver, Zenon
  <2>2. AskingMap' = AskingMap /\ HoldingMap' = HoldingMap
    BY <1>8, Zenon DEF AskingMap, HoldingMap, Asking, Holding
  <2> QED BY <1>8, <2>1, <2>2, Zenon DEF Same
<1>9. CASE Tick
  <2>1. UNCHANGED <<exp, conn, record, pc, held, cookies>> /\ now' = now + 1
    BY <1>9, Zenon DEF Tick, redeemVars
  <2>2. AskingMap' = AskingMap /\ HoldingMap' = HoldingMap /\ StatusMap' = StatusMap
    BY <2>1, SameStatus, Zenon DEF AskingMap, HoldingMap, Asking, Holding
  <2>3. Over \subseteq Over'
    <3> SUFFICES ASSUME NEW t \in Over PROVE t \in Over'
      OBVIOUS
    <3>1. t \in Ticket /\ exp[t] \in Nat /\ ~(Unix(now) <= exp[t])
      BY SMT DEF Over, Valid, OnceInv, TypeOK
    <3>2. now \in Nat /\ now' \in Nat /\ now <= now'
      BY <2>1, SMT DEF OnceInv, TypeOK
    <3>3. Unix(now) \in Nat /\ Unix(now') \in Nat /\ Unix(now) <= Unix(now')
      BY <3>2, UnixType, DivGrows, Zenon DEF Unix
    <3>4. ~(Unix(now') <= exp[t])
      BY <3>1, <3>3, SMT
    <3>5. exp'[t] # None /\ exp'[t] = exp[t]
      BY <2>1, <3>1, SMT
    <3> QED BY <3>1, <3>4, <3>5, Zenon DEF Over, Valid, Unix
  <2>4. Over' \subseteq Ticket
    BY Zenon DEF Over
  <2>5. Promise!Pass
    BY <2>1, <2>2, <2>3, <2>4, Zenon DEF Promise!Pass, StatusMap, AskingMap, HoldingMap
  <2> QED BY <2>5, Zenon DEF Promise!Next
<1>10. ASSUME NEW t \in Ticket, NEW p \in Proc,
              Promise!Present(t, p) \/ Promise!Drop(t, p) \/ Promise!Take(t, p) \/ Promise!Answer(t, p)
       PROVE  [Promise!Next]_(Promise!vars)
  BY <1>10, Zenon DEF Promise!Next
<1>11. CASE \E t \in Ticket, c \in Conn : Issue(t, c)
  BY <1>1, <1>11, Zenon DEF Promise!Next
<1>12. ASSUME NEW p \in Proc,
              \/ \E t \in Ticket, c \in Conn \cup {None} : Verify(p, t, c)
              \/ MeasureTTL(p) \/ ConsumeFirst(p) \/ ConsumeReplay(p) \/ ConsumeError(p)
              \/ Lookup(p) \/ Abort(p)
       PROVE  [Promise!Next]_(Promise!vars)
  BY <1>0, <1>2, <1>3, <1>4, <1>5, <1>6, <1>7, <1>10, <1>12, Zenon
<1>13. CASE (\E c \in Conn : SessionChanges(c)) \/ UNCHANGED vars
  BY <1>0, <1>8, <1>13, Zenon DEF SessionChanges, vars, redeemVars
<1> QED BY <1>9, <1>11, <1>12, <1>13, Zenon DEF Next

\* Before any ticket is issued, the abstract ticket is in its initial state.
LEMMA InitImplements == Init => Promise!Init
<1> SUFFICES ASSUME Init PROVE Promise!Init
  OBVIOUS
<1>1. \A t \in Ticket : Status(t) = "none" /\ Asking(t) = {} /\ Holding(t) = {}
  <2>1. \A p \in Proc : pc[p] = "idle"
    BY Zenon DEF Init
  <2>2. \A t \in Ticket : Asking(t) = {}
    BY <2>1, SMT DEF Asking
  <2>3. \A t \in Ticket : Holding(t) = {}
    BY <2>1, SMT DEF Holding
  <2>4. \A t \in Ticket : Status(t) = "none"
    BY Zenon DEF Init, Status
  <2> QED BY <2>2, <2>3, <2>4, Zenon
<1>2. Over = {}
  BY Zenon DEF Init, Over
<1> QED BY <1>1, <1>2, Zenon DEF Init, Promise!Init

\* Service.RedeemHandoff over ConsumeOnce implements the one-time ticket,
\* whatever the interleaving of any number of redemptions, aborts and Redis
\* errors, and whatever time passes between their steps: before it expires, a
\* ticket that was taken or lost is not taken again; only requests that
\* presented it in time take it, and each buys at most one cookie, for the
\* connector of its session.
THEOREM RedeemImplementsOneTime == Spec => OneTimeTicket
<1>1. OnceInv /\ OnceInv' /\ [Next]_vars => [Promise!Next]_(Promise!vars)
  BY StepImplements
<1> QED BY <1>1, OnceInvHolds, InitImplements, PTL DEF Spec, OneTimeTicket, Promise!Spec
=============================================================================
