----------------------------- MODULE RateLimit ------------------------------
(***************************************************************************)
(* The rate limiting pipeline plugin: one token bucket per key, refilled   *)
(* by the time since the bucket was last used.                             *)
(*                                                                         *)
(* Plugin.Handle derives the key and reads the clock before it takes the   *)
(* mutex, so calls may take tokens in another order than they read the     *)
(* clock, and a bucket's time may move back.  The code's float of tokens   *)
(* is an integer here: a token is Minute units, and a tick of the clock is *)
(* worth PerMinute units, so no refill is a fraction.                      *)
(***************************************************************************)
EXTENDS Integers

CONSTANTS
  Caller,      \* concurrent calls of Handle
  Key,         \* derived limit keys
  PerMinute,   \* requests_per_minute
  Burst,       \* burst
  Minute,      \* ticks of the clock in a minute
  MaxNow,      \* bound on the clock
  NoKey        \* a caller that has read nothing yet

ASSUME RateLimitAssumption ==
  /\ PerMinute \in Nat \ {0} /\ Burst \in Nat \ {0} /\ Minute \in Nat \ {0}
  /\ MaxNow \in Nat /\ NoKey \notin Key

VARIABLES
  now,      \* the clock
  key, at,  \* per caller: the key it derived and the time it read
  tokens,   \* per key: units in the bucket
  last,     \* per key: when the bucket was last used
  made,     \* the keys that have a bucket
  granted,  \* per key: calls let through so far
  first,    \* per key: when its bucket was made
  slip      \* per key: by how much its time moved back, in all

limiter == <<now, key, at, tokens, last, made, granted, first, slip>>
buckets == <<tokens, last, made, granted, first, slip>>

LimitTypeOK ==
  /\ now \in Nat
  /\ key \in [Caller -> Key \cup {NoKey}] /\ at \in [Caller -> Nat]
  /\ tokens \in [Key -> Nat] /\ last \in [Key -> Nat] /\ made \in SUBSET Key
  /\ granted \in [Key -> Nat] /\ first \in [Key -> Nat] /\ slip \in [Key -> Nat]

LimitInit ==
  /\ now = 0
  /\ key = [c \in Caller |-> NoKey] /\ at = [c \in Caller |-> 0]
  /\ tokens = [k \in Key |-> 0] /\ last = [k \in Key |-> 0] /\ made = {}
  /\ granted = [k \in Key |-> 0] /\ first = [k \in Key |-> 0]
  /\ slip = [k \in Key |-> 0]

Capacity == Burst * Minute

\* Time passes.
Elapse ==
  /\ now < MaxNow
  /\ now' = now + 1
  /\ UNCHANGED <<key, at, buckets>>

\* The part of Handle before the mutex: deriveKey and time.Now.
LimitRead(c, k) ==
  /\ key[c] = NoKey
  /\ key' = [key EXCEPT ![c] = k]
  /\ at' = [at EXCEPT ![c] = now]
  /\ UNCHANGED <<now, buckets>>

\* What a bucket holds for a call that read time t: a new one is full, an old
\* one gets what the time since its last use is worth, and nothing for a time
\* before it.
Refilled(k, t) ==
  IF k \notin made THEN Capacity
  ELSE IF t <= last[k] THEN tokens[k]
  ELSE LET full == tokens[k] + (t - last[k]) * PerMinute
       IN  IF full > Capacity THEN Capacity ELSE full

\* The call holds the mutex: the bucket is made if it is not there, refilled
\* and stamped with the time the call read; a token is taken if there is one.
Admits(k, t) == Refilled(k, t) >= Minute

\* Mutant: a bucket that is used again is not stamped.
BugLimitTake(c) ==
  LET k == key[c]  t == at[c] IN
  /\ k # NoKey
  /\ made' = made \cup {k}
  /\ first' = IF k \in made THEN first ELSE [first EXCEPT ![k] = t]
  /\ last' = IF k \in made THEN last ELSE [last EXCEPT ![k] = t]
  /\ tokens' = [tokens EXCEPT ![k] = Refilled(k, t) - (IF Admits(k, t) THEN Minute ELSE 0)]
  /\ granted' = IF Admits(k, t) THEN [granted EXCEPT ![k] = @ + 1] ELSE granted
  /\ key' = [key EXCEPT ![c] = NoKey]
  /\ UNCHANGED <<now, at, slip>>

LimitTake(c) ==
  LET k == key[c]  t == at[c] IN
  /\ k # NoKey
  /\ made' = made \cup {k}
  /\ first' = IF k \in made THEN first ELSE [first EXCEPT ![k] = t]
  /\ slip' = IF k \in made /\ t < last[k] THEN [slip EXCEPT ![k] = @ + (last[k] - t)] ELSE slip
  /\ last' = [last EXCEPT ![k] = t]
  /\ tokens' = [tokens EXCEPT ![k] = Refilled(k, t) - (IF Admits(k, t) THEN Minute ELSE 0)]
  /\ granted' = IF Admits(k, t) THEN [granted EXCEPT ![k] = @ + 1] ELSE granted
  /\ key' = [key EXCEPT ![c] = NoKey]
  /\ UNCHANGED <<now, at>>

LimitNext ==
  \/ Elapse
  \/ \E c \in Caller : LimitTake(c) \/ \E k \in Key : LimitRead(c, k)

LimitSpec == LimitInit /\ [][LimitNext]_limiter

\* A bucket never holds more than the burst, and what Plugin.Handle let through
\* for a key, with what its bucket still holds, is never more than the burst and
\* requests_per_minute for the time that passed since the key's first call.
\* There is one excess: each time a call with an older
\* clock reading takes the mutex after a later one (ratelimit.go:132), the time
\* between the two readings may be paid for twice.
GrantsBounded ==
  \A k \in made :
    /\ tokens[k] <= Capacity
    /\ granted[k] * Minute + tokens[k] <= Capacity + PerMinute * ((now - first[k]) + slip[k])
=============================================================================
