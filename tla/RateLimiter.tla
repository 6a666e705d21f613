---------------------------- MODULE RateLimiter ----------------------------
(***************************************************************************)
(* The per-client token bucket in front of the read APIs.  allow reads the *)
(* clock BEFORE it takes the lock, so calls reach the bucket with stamps   *)
(* out of order and a refill can be negative; a janitor drops the buckets  *)
(* of clients it takes for idle, and a dropped client starts again with a  *)
(* full bucket.                                                            *)
(*                                                                         *)
(* Tokens are counted in integer units: a request costs Cost of them and   *)
(* Rate of them are refilled per unit of time.  b.last and b.seen are set  *)
(* to the same instant by every call, so `last' stands for both.  The      *)
(* limiter is modelled switched on (rps > 0).                              *)
(***************************************************************************)
EXTENDS Integers

CONSTANTS
    Clients,   \* client addresses
    Calls,     \* handler goroutines inside allow
    Rate, Cost, Burst,
    Idle,      \* the janitor's five minutes
    MaxLag,    \* assumption: longest wait between time.Now() and the lock
    MaxClock   \* bound on time

ASSUME RateAssumption == Rate \in Nat \ {0} /\ Cost \in Nat \ {0} /\ Burst \in Nat
ASSUME TimeAssumption == Idle \in Nat /\ MaxLag \in Nat /\ MaxClock \in Nat

VARIABLES
    clock,
    pc,        \* "idle", or "lock": the call waits for rl.mu
    client,    \* the client the call is for
    stamp,     \* the instant the call read
    present,   \* rl.buckets has the client
    tokens, last,
    sweeping,  \* the janitor waits for rl.mu
    cutoff,    \* the instant it computed
    winStart,  \* history: start of an observed window, -1 before it opens
    admitted   \* history: requests admitted per client since then

callVars == <<pc, client, stamp>>
bucketVars == <<present, tokens, last>>
janitorVars == <<sweeping, cutoff>>
windowVars == <<winStart, admitted>>
vars == <<clock, callVars, bucketVars, janitorVars, windowVars>>

Time == 0 .. MaxClock

TypeOK ==
    /\ clock \in Time
    /\ pc \in [Calls -> {"idle", "lock"}]
    /\ client \in [Calls -> Clients]
    /\ stamp \in [Calls -> Time]
    /\ present \in [Clients -> BOOLEAN]
    /\ tokens \in [Clients -> Int] /\ \A x \in Clients : tokens[x] <= Burst
    /\ last \in [Clients -> Time]
    /\ sweeping \in BOOLEAN
    /\ cutoff \in Int
    /\ winStart \in Time \cup {-1}
    /\ admitted \in [Clients -> Nat]

Init ==
    /\ clock = 0
    /\ pc = [c \in Calls |-> "idle"]
    /\ client \in [Calls -> Clients]
    /\ stamp = [c \in Calls |-> 0]
    /\ present = [x \in Clients |-> FALSE]
    /\ tokens = [x \in Clients |-> 0]
    /\ last = [x \in Clients |-> 0]
    /\ sweeping = FALSE /\ cutoff = 0
    /\ winStart = -1
    /\ admitted = [x \in Clients |-> 0]

\* now := time.Now(), before the lock.
ReadClock(c) ==
    /\ pc[c] = "idle"
    /\ pc' = [pc EXCEPT ![c] = "lock"]
    /\ stamp' = [stamp EXCEPT ![c] = clock]
    /\ \E x \in Clients : client' = [client EXCEPT ![c] = x]
    /\ UNCHANGED <<clock, bucketVars, janitorVars, windowVars>>

\* The bucket's tokens once refilled at instant t: a new bucket is full, an
\* old one gains (or loses, when t precedes last) and is capped.
Refilled_Uncapped(x, t) ==
    IF present[x] THEN tokens[x] + Rate * (t - last[x]) ELSE Burst
Refilled_StartsEmpty(x, t) ==
    LET sum == tokens[x] + Rate * (t - last[x])
    IN  IF ~present[x] THEN 0 ELSE IF sum < Burst THEN sum ELSE Burst
Refilled(x, t) ==
    LET sum == tokens[x] + Rate * (t - last[x])
    IN  IF present[x] /\ sum < Burst THEN sum ELSE Burst

\* The critical section of allow.
Allow(c) ==
    LET x == client[c]
        have == Refilled(x, stamp[c])
        ok == have >= Cost
    IN  /\ pc[c] = "lock"
        /\ pc' = [pc EXCEPT ![c] = "idle"]
        /\ present' = [present EXCEPT ![x] = TRUE]
        /\ last' = [last EXCEPT ![x] = stamp[c]]
        /\ tokens' = [tokens EXCEPT ![x] = IF ok THEN have - Cost ELSE have]
        /\ admitted' = [admitted EXCEPT ![x] = IF ok /\ winStart >= 0 THEN @ + 1 ELSE @]
        /\ UNCHANGED <<clock, client, stamp, janitorVars, winStart>>

\* The janitor's ticker fires: the cutoff is computed before the lock.
JanitorTick ==
    /\ ~sweeping
    /\ sweeping' = TRUE
    /\ cutoff' = clock - Idle
    /\ UNCHANGED <<clock, callVars, bucketVars, windowVars>>

Expired(x) == present[x] /\ last[x] < cutoff

\* Under the lock, every bucket not seen since the cutoff is dropped.
Sweep ==
    /\ sweeping
    /\ sweeping' = FALSE
    /\ present' = [x \in Clients |-> present[x] /\ ~Expired(x)]
    /\ UNCHANGED <<clock, callVars, tokens, last, cutoff, windowVars>>

\* Time passes, but no call waits for the lock longer than MaxLag.
Tick ==
    /\ clock < MaxClock
    /\ \A c \in Calls : pc[c] = "lock" => clock - stamp[c] < MaxLag
    /\ clock' = clock + 1
    /\ UNCHANGED <<callVars, bucketVars, janitorVars, windowVars>>

\* An observer starts to count: any moment may be the start of a window.
OpenWindow ==
    /\ winStart = -1
    /\ winStart' = clock
    /\ UNCHANGED <<clock, callVars, bucketVars, janitorVars, admitted>>

Next ==
    \/ \E c \in Calls : ReadClock(c) \/ Allow(c)
    \/ JanitorTick \/ Sweep \/ Tick \/ OpenWindow

Spec == Init /\ [][Next]_vars

----------------------------------------------------------------------------
(* Properties. *)

\* The limit itself: in any window, however the calls' stamps are reordered
\* and whenever the janitor runs, a client gets at most a burst plus the
\* refill of the window (lengthened by the longest wait for the lock).
WindowBound ==
    winStart >= 0 =>
        \A x \in Clients :
            Cost * admitted[x] <= Burst + Rate * (clock - winStart + MaxLag)

\* Reordered stamps take tokens back only temporarily: a client that has let
\* enough time pass for one token is admitted, whatever came before.
QuietClientAdmitted ==
    [][\A c \in Calls :
         LET x == client[c] IN
         (/\ Allow(c) /\ winStart >= 0
          /\ present[x] => Rate * (stamp[c] - last[x]) >= Cost + Rate * MaxLag)
         => admitted'[x] = admitted[x] + 1]_vars
=============================================================================
