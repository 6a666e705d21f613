------------------------- MODULE RateLimiter_proofs -------------------------
(***************************************************************************)
(* Proofs about RateLimiter: types, and the window bound for every rate,   *)
(* cost, burst and number of clients and calls, when the idle time covers  *)
(* a refill from empty plus twice the longest wait for the lock.           *)
(***************************************************************************)
EXTENDS RateLimiter, TLAPS

(* Products with a constant, kept folded so that the provers see linear    *)
(* arithmetic; the lemmas below are all they need to know.                 *)
R(t) == Rate * t
C(n) == Cost * n

LEMMA RateLinear ==
  ASSUME NEW s \in Int, NEW t \in Int
  PROVE  /\ R(s) \in Int
         /\ Rate * (s - t) = R(s) - R(t)
         /\ R(s - t) = R(s) - R(t)
         /\ R(s + t) = R(s) + R(t)
         /\ s <= t => R(s) <= R(t)
<1>1. Rate \in Int /\ Rate >= 0
  BY RateAssumption
<1>2. R(s) \in Int
  BY <1>1 DEF R
<1>3. Rate * (s - t) = R(s) - R(t) /\ R(s - t) = R(s) - R(t)
  BY <1>1 DEF R
<1>4. R(s + t) = R(s) + R(t)
  BY <1>1 DEF R
<1>5. s <= t => R(s) <= R(t)
  BY <1>1 DEF R
<1> QED BY <1>2, <1>3, <1>4, <1>5

LEMMA CostLinear ==
  ASSUME NEW n \in Nat
  PROVE  C(n) \in Int /\ C(0) = 0 /\ C(n + 1) = C(n) + Cost
<1>1. Cost \in Int
  BY RateAssumption
<1>2. C(n) \in Int /\ C(0) = 0
  BY <1>1 DEF C
<1>3. C(n + 1) = C(n) + Cost
  BY <1>1 DEF C
<1> QED BY <1>2, <1>3

----------------------------------------------------------------------------
LEMMA InitTypeOK == Init => TypeOK
<1> SUFFICES ASSUME Init PROVE TypeOK
  OBVIOUS
<1>1. 0 \in Time
  BY TimeAssumption DEF Time
<1>2. tokens \in [Clients -> Int] /\ \A x \in Clients : tokens[x] <= Burst
  BY RateAssumption DEF Init
<1>3. /\ admitted \in [Clients -> Nat]
      /\ cutoff \in Int
      /\ last \in [Clients -> Time]
      /\ stamp \in [Calls -> Time]
  BY <1>1 DEF Init
<1>4. /\ pc \in [Calls -> {"idle", "lock"}] /\ client \in [Calls -> Clients]
      /\ present \in [Clients -> BOOLEAN] /\ sweeping \in BOOLEAN
      /\ winStart \in Time \cup {-1} /\ clock \in Time
  BY <1>1 DEF Init
<1> QED BY <1>2, <1>3, <1>4 DEF TypeOK

LEMMA RefilledTyped ==
  ASSUME TypeOK, NEW x \in Clients, NEW t \in Time
  PROVE  Refilled(x, t) \in Int /\ Refilled(x, t) <= Burst
<1>1. last[x] \in Int /\ t \in Int /\ tokens[x] \in Int /\ Burst \in Int
  BY RateAssumption DEF TypeOK, Time
<1>2. tokens[x] + Rate * (t - last[x]) \in Int
  <2>1. R(t) \in Int /\ R(last[x]) \in Int /\ Rate * (t - last[x]) = R(t) - R(last[x])
    BY <1>1, RateLinear
  <2> QED BY <1>1, <2>1
<1> QED BY <1>1, <1>2 DEF Refilled

LEMMA AllowTypeOK ==
  ASSUME TypeOK, NEW c \in Calls, Allow(c)
  PROVE  TypeOK'
<1> DEFINE x == client[c]
           have == Refilled(x, stamp[c])
<1>1. x \in Clients /\ stamp[c] \in Time
  BY DEF TypeOK
<1>2. have \in Int /\ have <= Burst
  BY <1>1, RefilledTyped
<1> HIDE DEF have, x
<1>3. tokens' = [tokens EXCEPT ![x] = IF have >= Cost THEN have - Cost ELSE have]
  BY DEF Allow, have, x
<1>4. tokens' \in [Clients -> Int] /\ \A y \in Clients : tokens'[y] <= Burst
  BY <1>1, <1>2, <1>3, RateAssumption DEF TypeOK
<1>5. admitted' \in [Clients -> Nat]
  BY <1>1 DEF Allow, TypeOK, x
<1>6. /\ pc' \in [Calls -> {"idle", "lock"}]
      /\ present' \in [Clients -> BOOLEAN]
      /\ last' \in [Clients -> Time]
  BY <1>1 DEF Allow, TypeOK, x
<1>7. UNCHANGED <<clock, client, stamp, janitorVars, winStart>>
  BY DEF Allow
<1> QED BY <1>4, <1>5, <1>6, <1>7 DEF TypeOK, janitorVars

LEMMA NextTypeOK == TypeOK /\ [Next]_vars => TypeOK'
<1> SUFFICES ASSUME TypeOK, [Next]_vars PROVE TypeOK'
  OBVIOUS
<1>1. ASSUME NEW c \in Calls, ReadClock(c) PROVE TypeOK'
  BY <1>1 DEF ReadClock, TypeOK, bucketVars, janitorVars, windowVars
<1>2. ASSUME NEW c \in Calls, Allow(c) PROVE TypeOK'
  BY <1>2, AllowTypeOK
<1>3. CASE JanitorTick
  BY <1>3, TimeAssumption DEF JanitorTick, TypeOK, Time, callVars, bucketVars, windowVars
<1>4. CASE Sweep
  BY <1>4 DEF Sweep, TypeOK, callVars, windowVars
<1>5. CASE Tick
  BY <1>5, TimeAssumption DEF Tick, TypeOK, Time, callVars, bucketVars, janitorVars, windowVars
<1>6. CASE OpenWindow
  BY <1>6 DEF OpenWindow, TypeOK, callVars, bucketVars, janitorVars
<1>7. CASE UNCHANGED vars
  BY <1>7 DEF vars, TypeOK, callVars, bucketVars, janitorVars, windowVars
<1> QED BY <1>1, <1>2, <1>3, <1>4, <1>5, <1>6, <1>7 DEF Next

\* The limiter's state keeps its types, and no bucket exceeds the burst.
THEOREM TypeCorrect == Spec => []TypeOK
  BY InitTypeOK, NextTypeOK, PTL DEF Spec

----------------------------------------------------------------------------
(* The inductive invariant of the window bound. *)

\* A call's stamp is behind the clock by no more than MaxLag.
StampsFresh ==
    \A c \in Calls : pc[c] = "lock" => stamp[c] <= clock /\ clock - stamp[c] <= MaxLag

CutoffPast == sweeping => cutoff <= clock - Idle

\* A bucket in debt owes no more than the refill since a later stamp h.
Solvent(x, h) ==
    /\ h <= clock /\ h <= last[x] + MaxLag
    /\ R(last[x]) - R(h) <= tokens[x]

Debts ==
    \A x \in Clients : last[x] <= clock /\ (present[x] => \E h \in Int : Solvent(x, h))

\* Stamps used inside the window are not older than this.
W == winStart - MaxLag

\* What a client was admitted in the window, it paid from one burst and the
\* refill of the window; a dropped bucket leaves no claim on the burst.
Paid(x) ==
    /\ present[x] /\ last[x] < W => admitted[x] = 0
    /\ present[x] /\ last[x] >= W =>
         C(admitted[x]) + tokens[x] <= Burst + R(last[x]) - R(W)
    /\ ~present[x] => admitted[x] = 0 \/ C(admitted[x]) <= R(clock) - R(winStart)

Window ==
    IF winStart >= 0
    THEN winStart <= clock /\ \A x \in Clients : Paid(x)
    ELSE \A x \in Clients : admitted[x] = 0

\* What bounds a bucket's debt, whatever the janitor's idle time.
DebtInv == TypeOK /\ StampsFresh /\ Debts

IInv == DebtInv /\ CutoffPast /\ Window

LEMMA InitIInv == Init => IInv
<1> SUFFICES ASSUME Init PROVE IInv
  OBVIOUS
<1>1. TypeOK
  BY InitTypeOK
<1> QED BY <1>1 DEF Init, IInv, DebtInv, StampsFresh, CutoffPast, Debts, Window

\* What a call of client x, stamped t, reads and writes; have is its refilled
\* bucket.
Call(x, t, have) ==
    /\ /\ x \in Clients /\ t \in Int
       /\ clock \in Int /\ last[x] \in Int /\ tokens[x] \in Int
       /\ winStart \in Int /\ admitted[x] \in Nat
       /\ MaxLag \in Int /\ Burst \in Int /\ Cost \in Int /\ Cost > 0
       /\ W \in Int
    /\ t <= clock /\ clock - t <= MaxLag
    /\ have \in Int /\ have <= Burst
    /\ /\ present[x] => have <= tokens[x] + R(t) - R(last[x])
       /\ (present[x] /\ have # Burst) => have = tokens[x] + R(t) - R(last[x])
       /\ ~present[x] => have = Burst
    /\ /\ clock' = clock /\ winStart' = winStart
       /\ present'[x] = TRUE /\ last'[x] = t
       /\ tokens'[x] = (IF have >= Cost THEN have - Cost ELSE have)
       /\ admitted'[x] = (IF have >= Cost /\ winStart >= 0 THEN admitted[x] + 1 ELSE admitted[x])
       /\ \A y \in Clients : y # x =>
            /\ present'[y] = present[y] /\ last'[y] = last[y]
            /\ tokens'[y] = tokens[y] /\ admitted'[y] = admitted[y]

LEMMA AllowBucket ==
  ASSUME DebtInv, NEW c \in Calls, Allow(c),
         NEW x, x = client[c], NEW t, t = stamp[c], NEW have, have = Refilled(x, t)
  PROVE  Call(x, t, have)
<1>1. /\ x \in Clients /\ t \in Time /\ t \in Int
      /\ clock \in Int /\ last[x] \in Int /\ tokens[x] \in Int
      /\ winStart \in Int /\ admitted[x] \in Nat
      /\ MaxLag \in Int /\ Burst \in Int /\ Cost \in Int /\ Cost > 0
      /\ W \in Int
  BY RateAssumption, TimeAssumption DEF DebtInv, TypeOK, Time, W
<1>2. t <= clock /\ clock - t <= MaxLag
  BY DEF Allow, DebtInv, StampsFresh
<1>3. have \in Int /\ have <= Burst
  BY <1>1, RefilledTyped DEF DebtInv
<1>4. /\ present[x] => have <= tokens[x] + R(t) - R(last[x])
      /\ (present[x] /\ have # Burst) => have = tokens[x] + R(t) - R(last[x])
      /\ ~present[x] => have = Burst
  <2>1. Rate * (t - last[x]) = R(t) - R(last[x]) /\ R(t) \in Int /\ R(last[x]) \in Int
    BY <1>1, RateLinear
  <2> QED BY <1>1, <2>1 DEF Refilled
<1>5. /\ clock' = clock /\ winStart' = winStart
      /\ present'[x] = TRUE /\ last'[x] = t
      /\ tokens'[x] = (IF have >= Cost THEN have - Cost ELSE have)
      /\ admitted'[x] = (IF have >= Cost /\ winStart >= 0 THEN admitted[x] + 1 ELSE admitted[x])
      /\ \A y \in Clients : y # x =>
           /\ present'[y] = present[y] /\ last'[y] = last[y]
           /\ tokens'[y] = tokens[y] /\ admitted'[y] = admitted[y]
  BY <1>1 DEF Allow, DebtInv, TypeOK
<1> QED BY <1>1, <1>2, <1>3, <1>4, <1>5 DEF Call

\* The debt a call leaves behind.
LEMMA AllowDebts ==
  ASSUME DebtInv, NEW c \in Calls, Allow(c)
  PROVE  Debts'
<1> PICK x \in Clients : x = client[c]
  BY DEF DebtInv, TypeOK
<1> PICK t \in Time : t = stamp[c]
  BY DEF DebtInv, TypeOK
<1> PICK have : have = Refilled(x, t)
  OBVIOUS
<1>1. Call(x, t, have)
  BY AllowBucket
<1> USE DEF Call
<1>2. Debts'
  <2>1. \E h \in Int : h <= clock /\ h <= t + MaxLag /\ R(t) - R(h) <= tokens'[x]
    <3>1. CASE have >= Cost \/ have = Burst
      <4>1. tokens'[x] >= 0
        BY <1>1, <3>1, RateAssumption
      <4>2. R(t) \in Int
        <5>1. t \in Int
          BY <1>1
        <5> QED BY <5>1, RateLinear
      <4>3. R(t) - R(t) = 0
        BY <4>2
      <4> QED BY <1>1, <4>1, <4>3, TimeAssumption
    <3>2. CASE have < Cost /\ have # Burst
      <4>1. present[x] /\ have = tokens[x] + R(t) - R(last[x]) /\ tokens'[x] = have
        BY <1>1, <3>2
      <4>2. PICK h \in Int : h <= clock /\ R(last[x]) - R(h) <= tokens[x]
        BY <1>1, <4>1 DEF DebtInv, Debts, Solvent
      <4>3. R(t) \in Int /\ R(h) \in Int /\ R(last[x]) \in Int
        BY <1>1, RateLinear
      <4>4. h <= t + MaxLag
        BY <1>1, <4>2
      <4>5. R(t) - R(h) <= tokens'[x]
        BY <1>1, <4>1, <4>2, <4>3
      <4> QED BY <4>2, <4>4, <4>5
    <3> QED BY <1>1, <3>1, <3>2
  <2> QED BY <1>1, <2>1 DEF DebtInv, Debts, Solvent
<1> QED BY <1>2

\* The claim on the window a call leaves behind.
LEMMA AllowWindow ==
  ASSUME IInv, NEW c \in Calls, Allow(c)
  PROVE  Window'
<1> PICK x \in Clients : x = client[c]
  BY DEF IInv, DebtInv, TypeOK
<1> PICK t \in Time : t = stamp[c]
  BY DEF IInv, DebtInv, TypeOK
<1> PICK have : have = Refilled(x, t)
  OBVIOUS
<1>1. Call(x, t, have)
  BY AllowBucket DEF IInv
<1> USE DEF Call
<1>2. Window'
  <2>1. CASE winStart < 0
    BY <1>1, <2>1 DEF IInv, Window
  <2>2. CASE winStart >= 0
    <3>1. t >= W /\ winStart <= clock
      BY <1>1, <2>2 DEF IInv, Window, W
    <3>2. R(t) \in Int /\ R(W) \in Int /\ R(last[x]) \in Int /\ R(clock) \in Int
          /\ R(winStart) \in Int
          /\ R(W) <= R(t)
      BY <1>1, <3>1, RateLinear
    <3>3. C(admitted[x]) \in Int /\ C(0) = 0 /\ C(admitted[x] + 1) = C(admitted[x]) + Cost
      BY <1>1, CostLinear
    \* Before the call is charged, the client is within the bound.
    <3>4. C(admitted[x]) + have <= Burst + R(t) - R(W)
      <4>1. CASE admitted[x] = 0
        BY <1>1, <3>2, <3>3, <4>1
      <4>2. CASE present[x] /\ admitted[x] # 0
        <5>1. C(admitted[x]) + tokens[x] <= Burst + R(last[x]) - R(W)
          BY <1>1, <2>2, <4>2 DEF IInv, Window, Paid
        <5> QED BY <1>1, <3>2, <3>3, <4>2, <5>1
      <4>3. CASE ~present[x] /\ admitted[x] # 0
        <5>1. C(admitted[x]) <= R(clock) - R(winStart)
          BY <1>1, <2>2, <4>3 DEF IInv, Window, Paid
        <5>2. clock - winStart <= t - W
          BY <1>1 DEF W
        <5>3. R(clock) - R(winStart) <= R(t) - R(W)
          <6>1. R(clock - winStart) <= R(t - W)
            <7>1. clock - winStart \in Int /\ t - W \in Int
              BY <1>1
            <7> QED BY <5>2, <7>1, RateLinear
          <6>2. R(clock - winStart) = R(clock) - R(winStart) /\ R(t - W) = R(t) - R(W)
            <7>1. clock \in Int /\ winStart \in Int /\ t \in Int /\ W \in Int
              BY <1>1
            <7> QED BY <7>1, RateLinear
          <6> QED BY <6>1, <6>2
        <5> QED BY <1>1, <3>2, <3>3, <5>1, <5>3
      <4> QED BY <4>1, <4>2, <4>3
    <3>5. C(admitted'[x]) + tokens'[x] <= Burst + R(last'[x]) - R(W)
      BY <1>1, <2>2, <3>2, <3>3, <3>4
    <3>6. W' = W
      BY <1>1 DEF W
    <3>7. Paid(x)'
      BY <1>1, <3>1, <3>5, <3>6 DEF Paid
    <3>8. \A y \in Clients : y # x => Paid(y)'
      BY <1>1, <2>2, <3>6 DEF Paid, IInv, Window
    <3> QED BY <1>1, <2>2, <3>1, <3>7, <3>8 DEF Window
  <2> QED BY <1>1, <2>1, <2>2
<1> QED BY <1>2

\* Dropping a bucket that has been idle gives nothing away: the refill of the
\* idle time covers the burst and the debt.
LEMMA SweepWindow ==
  ASSUME IInv, Sweep, Burst <= Rate * (Idle - 2 * MaxLag)
  PROVE  Window'
<1>1. /\ UNCHANGED <<clock, tokens, last, winStart, admitted>>
      /\ \A x \in Clients : present'[x] = (present[x] /\ ~Expired(x))
      /\ sweeping /\ cutoff <= clock - Idle
  BY DEF Sweep, IInv, DebtInv, CutoffPast, TypeOK, callVars, windowVars
<1>2. W' = W
  BY <1>1 DEF W
<1>3. ASSUME NEW x \in Clients, winStart >= 0 PROVE Paid(x)'
  <2>1. Paid(x) /\ winStart <= clock
    BY <1>3 DEF IInv, DebtInv, Window
  <2>2. CASE ~Expired(x)
    BY <1>1, <1>2, <2>1, <2>2 DEF Paid
  <2>3. CASE Expired(x) /\ admitted[x] = 0
    BY <1>1, <2>3 DEF Paid
  <2>4. CASE Expired(x) /\ admitted[x] # 0
    <3>1. /\ clock \in Int /\ last[x] \in Int /\ tokens[x] \in Int /\ cutoff \in Int
          /\ winStart \in Int /\ MaxLag \in Int /\ Idle \in Int /\ Burst \in Int
          /\ admitted[x] \in Nat /\ W \in Int
      BY RateAssumption, TimeAssumption DEF IInv, DebtInv, TypeOK, Time, W
    <3>2. present[x] /\ last[x] < clock - Idle
      BY <1>1, <2>4, <3>1 DEF Expired
    <3>3. C(admitted[x]) + tokens[x] <= Burst + R(last[x]) - R(W)
      BY <2>1, <2>4, <3>1, <3>2 DEF Paid
    <3>4. PICK h \in Int : h <= last[x] + MaxLag /\ R(last[x]) - R(h) <= tokens[x]
      BY <3>2 DEF IInv, DebtInv, Debts, Solvent
    <3>5. R(h) + R(Idle - 2 * MaxLag) - R(W) <= R(clock) - R(winStart)
      <4>1. Idle - 2 * MaxLag \in Int /\ h - W \in Int /\ clock - winStart \in Int
        BY <3>1
      <4>2. (Idle - 2 * MaxLag) + (h - W) <= clock - winStart
        BY <3>1, <3>2, <3>4 DEF W
      <4>3. (Idle - 2 * MaxLag) + (h - W) \in Int
        BY <4>1
      <4>4. R((Idle - 2 * MaxLag) + (h - W)) <= R(clock - winStart)
        BY <4>1, <4>2, <4>3, RateLinear
      <4>5. R((Idle - 2 * MaxLag) + (h - W)) = R(Idle - 2 * MaxLag) + R(h - W)
        BY <4>1, RateLinear
      <4>6. R(h - W) = R(h) - R(W) /\ R(clock - winStart) = R(clock) - R(winStart)
        BY <3>1, RateLinear
      <4>7. /\ R(h) \in Int /\ R(W) \in Int /\ R(clock) \in Int /\ R(winStart) \in Int
            /\ R(Idle - 2 * MaxLag) \in Int
        BY <3>1, <4>1, RateLinear
      <4> QED BY <4>4, <4>5, <4>6, <4>7
    <3>6. Burst <= R(Idle - 2 * MaxLag)
      BY DEF R
    <3>7. /\ R(h) \in Int /\ R(W) \in Int /\ R(last[x]) \in Int /\ R(clock) \in Int
          /\ R(winStart) \in Int /\ R(Idle - 2 * MaxLag) \in Int
      <4>1. Idle - 2 * MaxLag \in Int
        BY <3>1
      <4> QED BY <3>1, <4>1, RateLinear
    <3>8. C(admitted[x]) \in Int
      BY <3>1, CostLinear
    <3>9. C(admitted[x]) <= R(clock) - R(winStart)
      BY <3>1, <3>3, <3>4, <3>5, <3>6, <3>7, <3>8
    <3> QED BY <1>1, <2>4, <3>9 DEF Paid
  <2> QED BY <2>2, <2>3, <2>4
<1> QED BY <1>1, <1>3 DEF IInv, Window

\* A bucket's debt is bounded by the lag alone: the janitor plays no part.
LEMMA NextDebtInv == DebtInv /\ [Next]_vars => DebtInv'
<1> SUFFICES ASSUME DebtInv, [Next]_vars PROVE DebtInv'
  OBVIOUS
<1>0. TypeOK'
  BY NextTypeOK DEF DebtInv
<1>t. /\ clock \in Nat /\ MaxLag \in Nat
      /\ \A x \in Clients : last[x] \in Int /\ tokens[x] \in Int
      /\ \A c \in Calls : stamp[c] \in Int
  BY TimeAssumption DEF DebtInv, TypeOK, Time
<1>1. ASSUME NEW c \in Calls, ReadClock(c) PROVE DebtInv'
  <2>1. /\ UNCHANGED <<clock, bucketVars>>
        /\ stamp' = [stamp EXCEPT ![c] = clock]
        /\ pc' = [pc EXCEPT ![c] = "lock"]
    BY <1>1 DEF ReadClock
  <2>2. StampsFresh'
    BY <1>t, <2>1 DEF DebtInv, TypeOK, StampsFresh
  <2> QED BY <1>0, <2>1, <2>2 DEF DebtInv, Debts, Solvent, bucketVars
<1>2. ASSUME NEW c \in Calls, Allow(c) PROVE DebtInv'
  <2>1. StampsFresh'
    BY <1>2 DEF Allow, DebtInv, TypeOK, StampsFresh
  <2> QED BY <1>0, <1>2, <2>1, AllowDebts DEF DebtInv
<1>3. CASE JanitorTick \/ OpenWindow \/ UNCHANGED vars
  BY <1>0, <1>3 DEF JanitorTick, OpenWindow, vars, DebtInv, StampsFresh, Debts, Solvent,
                    callVars, bucketVars
<1>4. CASE Sweep
  <2>1. /\ UNCHANGED <<clock, callVars, tokens, last>>
        /\ \A x \in Clients : present'[x] => present[x]
    BY <1>4 DEF Sweep
  <2> QED BY <1>0, <2>1 DEF DebtInv, StampsFresh, Debts, Solvent, callVars
<1>5. CASE Tick
  <2>1. /\ clock' = clock + 1
        /\ \A c \in Calls : pc[c] = "lock" => clock - stamp[c] < MaxLag
        /\ UNCHANGED <<callVars, bucketVars>>
    BY <1>5 DEF Tick
  <2>2. StampsFresh'
    BY <1>t, <2>1 DEF DebtInv, StampsFresh, callVars
  <2>3. Debts'
    BY <1>t, <2>1 DEF DebtInv, Debts, Solvent, bucketVars
  <2> QED BY <1>0, <2>2, <2>3 DEF DebtInv
<1> QED BY <1>1, <1>2, <1>3, <1>4, <1>5 DEF Next

LEMMA NextIInv ==
  ASSUME Burst <= Rate * (Idle - 2 * MaxLag)
  PROVE  IInv /\ [Next]_vars => IInv'
<1> SUFFICES ASSUME IInv, [Next]_vars PROVE IInv'
  OBVIOUS
<1>0. DebtInv'
  BY NextDebtInv DEF IInv
<1>t. /\ clock \in Nat /\ winStart \in Int /\ MaxLag \in Nat /\ Idle \in Nat /\ cutoff \in Int
      /\ \A x \in Clients : last[x] \in Int /\ tokens[x] \in Int /\ admitted[x] \in Nat
  BY TimeAssumption DEF IInv, DebtInv, TypeOK, Time
<1>1. ASSUME NEW c \in Calls, ReadClock(c) PROVE IInv'
  BY <1>0, <1>1 DEF ReadClock, IInv, CutoffPast, Window, Paid, W, bucketVars, janitorVars, windowVars
<1>2. ASSUME NEW c \in Calls, Allow(c) PROVE IInv'
  <2>1. CutoffPast'
    BY <1>2 DEF Allow, IInv, CutoffPast, janitorVars
  <2> QED BY <1>0, <1>2, <2>1, AllowWindow DEF IInv
<1>3. CASE JanitorTick
  <2>1. CutoffPast'
    BY <1>3, <1>t DEF JanitorTick, CutoffPast
  <2> QED BY <1>0, <1>3, <2>1 DEF JanitorTick, IInv, Window, Paid, W, bucketVars, windowVars
<1>4. CASE Sweep
  <2>1. CutoffPast'
    BY <1>4 DEF Sweep, IInv, CutoffPast
  <2> QED BY <1>0, <1>4, <2>1, SweepWindow DEF IInv
<1>5. CASE Tick
  <2>1. clock' = clock + 1 /\ UNCHANGED <<bucketVars, janitorVars, windowVars>>
    BY <1>5 DEF Tick
  <2>2. CutoffPast'
    BY <1>t, <2>1 DEF IInv, CutoffPast, janitorVars
  <2>3. R(clock) \in Int /\ R(winStart) \in Int /\ R(clock + 1) \in Int /\ R(clock) <= R(clock + 1)
    <3>1. clock + 1 \in Int /\ clock <= clock + 1 /\ clock \in Int
      BY <1>t
    <3> QED BY <1>t, <3>1, RateLinear
  <2>4. \A x \in Clients : C(admitted[x]) \in Int
    BY <1>t, CostLinear
  <2>5. Window'
    BY <1>t, <2>1, <2>3, <2>4 DEF IInv, Window, Paid, W, bucketVars, windowVars
  <2> QED BY <1>0, <2>2, <2>5 DEF IInv
<1>6. CASE OpenWindow
  <2>1. /\ winStart = -1 /\ winStart' = clock
        /\ UNCHANGED <<clock, bucketVars, janitorVars, admitted>>
    BY <1>6 DEF OpenWindow
  <2>2. \A x \in Clients : admitted[x] = 0
    BY <2>1 DEF IInv, Window
  <2>3. \A x \in Clients : Paid(x)'
    <3> SUFFICES ASSUME NEW x \in Clients PROVE Paid(x)'
      OBVIOUS
    <3>1. W' = clock - MaxLag /\ clock - MaxLag \in Int
      BY <1>t, <2>1 DEF W
    <3>2. C(0) = 0
      BY CostLinear
    <3>3. clock - MaxLag <= last[x] => R(clock - MaxLag) <= R(last[x])
      BY <1>t, <3>1, RateLinear
    <3>4. R(clock - MaxLag) \in Int /\ R(last[x]) \in Int
      BY <1>t, <3>1, RateLinear
    <3>5. tokens[x] <= Burst /\ Burst \in Int
      BY RateAssumption DEF IInv, DebtInv, TypeOK
    <3> QED BY <3>5, <1>t, <2>1, <2>2, <3>1, <3>2, <3>3, <3>4 DEF Paid, bucketVars
  <2>4. Window'
    BY <1>t, <2>1, <2>3 DEF Window
  <2> QED BY <1>0, <2>1, <2>4 DEF IInv, CutoffPast, janitorVars
<1>7. CASE UNCHANGED vars
  BY <1>0, <1>7 DEF vars, IInv, CutoffPast, Window, Paid, W, bucketVars, janitorVars, windowVars
<1> QED BY <1>1, <1>2, <1>3, <1>4, <1>5, <1>6, <1>7 DEF Next

LEMMA IInvBound == IInv => WindowBound
<1> SUFFICES ASSUME IInv, winStart >= 0, NEW x \in Clients
             PROVE  C(admitted[x]) <= Burst + Rate * (clock - winStart + MaxLag)
  BY DEF WindowBound, C
<1>1. /\ clock \in Int /\ winStart \in Int /\ MaxLag \in Nat /\ Burst \in Nat
      /\ last[x] \in Int /\ tokens[x] \in Int /\ admitted[x] \in Nat /\ W \in Int
  BY RateAssumption, TimeAssumption DEF IInv, DebtInv, TypeOK, Time, W
<1>2. Paid(x) /\ winStart <= clock
  BY DEF IInv, Window
<1>3. C(admitted[x]) \in Int /\ C(0) = 0
  BY <1>1, CostLinear
<1>4. Rate * (clock - W) = R(clock) - R(W) /\ clock - W = clock - winStart + MaxLag
  BY <1>1, RateLinear DEF W
<1>5. /\ R(clock) \in Int /\ R(W) \in Int /\ R(winStart) \in Int
      /\ R(W) <= R(winStart) /\ R(winStart) <= R(clock)
  <2>1. W <= winStart
    BY <1>1 DEF W
  <2> QED BY <1>1, <1>2, <2>1, RateLinear
<1>6. CASE admitted[x] = 0
  BY <1>1, <1>3, <1>4, <1>5, <1>6
<1>7. CASE ~present[x] /\ admitted[x] # 0
  <2>1. C(admitted[x]) <= R(clock) - R(winStart)
    BY <1>2, <1>7 DEF Paid
  <2> QED BY <1>1, <1>3, <1>4, <1>5, <2>1
<1>8. CASE present[x] /\ admitted[x] # 0
  <2>1. C(admitted[x]) + tokens[x] <= Burst + R(last[x]) - R(W)
    BY <1>1, <1>2, <1>8 DEF Paid
  <2>2. PICK h \in Int : h <= clock /\ R(last[x]) - R(h) <= tokens[x]
    BY <1>8 DEF IInv, DebtInv, Debts, Solvent
  <2>3. R(h) \in Int /\ R(last[x]) \in Int /\ R(h) <= R(clock)
    BY <1>1, <2>2, RateLinear
  <2> QED BY <1>1, <1>3, <1>4, <1>5, <2>1, <2>2, <2>3
<1> QED BY <1>6, <1>7, <1>8

\* In every window a client is admitted at most a burst plus the refill of the
\* window and of the longest wait for the lock, for any interleaving of calls
\* with stamps out of order and of the janitor.
THEOREM RateLimited ==
  ASSUME Burst <= Rate * (Idle - 2 * MaxLag)
  PROVE  Spec => []WindowBound
  BY InitIInv, NextIInv, IInvBound, PTL DEF Spec

\* Taking back tokens never goes deeper than the refill of the lag: a client
\* whose call is stamped one token and one lag after its last one is admitted,
\* whatever came before and in whatever order, if the bucket holds a token.
THEOREM QuietNeverStarved ==
  ASSUME Cost <= Burst
  PROVE  Spec => QuietClientAdmitted
<1>1. Init => DebtInv
  BY InitIInv DEF IInv
<1>2. DebtInv /\ [Next]_vars => DebtInv'
  BY NextDebtInv
<1>3. ASSUME DebtInv, NEW c \in Calls, NEW x, x = client[c], Allow(c), winStart >= 0,
             present[x] => Rate * (stamp[c] - last[x]) >= Cost + Rate * MaxLag
      PROVE  admitted'[x] = admitted[x] + 1
  <2> PICK t : t = stamp[c]
    OBVIOUS
  <2> PICK have : have = Refilled(x, t)
    OBVIOUS
  <2>1. Call(x, t, have)
    BY <1>3, AllowBucket
  <2>2. CASE ~present[x]
    BY <1>3, <2>1, <2>2 DEF Call
  <2>3. CASE present[x] /\ have # Burst
    <3>1. have = tokens[x] + R(t) - R(last[x])
      BY <2>1, <2>3 DEF Call
    <3>2. PICK h \in Int : h <= last[x] + MaxLag /\ R(last[x]) - R(h) <= tokens[x]
      BY <1>3, <2>1, <2>3 DEF DebtInv, Debts, Solvent, Call
    <3>3. last[x] \in Int /\ t \in Int /\ MaxLag \in Int /\ tokens[x] \in Int /\ Cost \in Int
      BY <2>1 DEF Call
    <3>4. R(h) <= R(last[x]) + R(MaxLag)
      <4>1. last[x] + MaxLag \in Int
        BY <3>3
      <4> QED BY <3>2, <3>3, <4>1, RateLinear
    <3>5. R(t) - R(last[x]) >= Cost + R(MaxLag)
      <4>1. Rate * (t - last[x]) = R(t) - R(last[x])
        BY <3>3, RateLinear
      <4> QED BY <1>3, <2>3, <4>1 DEF R
    <3>6. R(h) \in Int /\ R(t) \in Int /\ R(last[x]) \in Int /\ R(MaxLag) \in Int
      BY <3>2, <3>3, RateLinear
    <3>7. have >= Cost
      BY <3>1, <3>2, <3>3, <3>4, <3>5, <3>6
    <3> QED BY <1>3, <2>1, <3>7 DEF Call
  <2>4. CASE have = Burst
    BY <1>3, <2>1, <2>4 DEF Call
  <2> QED BY <2>2, <2>3, <2>4
<1>4. DebtInv /\ [Next]_vars =>
        [\A c \in Calls :
           LET x == client[c] IN
           (/\ Allow(c) /\ winStart >= 0
            /\ present[x] => Rate * (stamp[c] - last[x]) >= Cost + Rate * MaxLag)
           => admitted'[x] = admitted[x] + 1]_vars
  BY <1>3
<1> QED BY <1>1, <1>2, <1>4, PTL DEF Spec, QuietClientAdmitted
=============================================================================
