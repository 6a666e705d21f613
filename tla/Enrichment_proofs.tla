------------------------- MODULE Enrichment_proofs -------------------------
(***************************************************************************)
(* Theorems about Enrichment: types, where a malicious verdict comes from, *)
(* how old a summary may be, and how often the worker looks a host up.     *)
(***************************************************************************)
EXTENDS Enrichment, TLAPS

----------------------------------------------------------------------------
(* Records. *)

LEMMA NoRecordIsRecord == NoRecord \in Record /\ NoThreat \in Threats
  BY BoundAssumption DEF NoRecord, Record, NoThreat, Threats, Times, Verdicts

LEMMA BroughtThreats ==
  ASSUME NEW a \in Actors, NEW t \in Brought(a) PROVE t \in Threats
  BY OutcomeAssumption, NoRecordIsRecord DEF Brought

LEMMA BuiltRecord ==
  ASSUME NEW a \in Actors, now[a] \in Times, NEW t, NEW shodan \in BOOLEAN
  PROVE  Built(a, t, shodan) \in Record
  <1>1. Verdict(t) \in Verdicts
    BY DEF Verdict, Verdicts
  <1>2. 0 \in Times
    BY BoundAssumption DEF Times
  <1> QED
    BY <1>1, <1>2 DEF Built, Record

LEMMA MergedRecord ==
  ASSUME NEW old \in Record, NEW r \in Record
  PROVE  Merge(old, r) \in Record
  BY DEF Merge, Record

LEMMA SummaryDoc ==
  ASSUME NEW d \in Doc, NEW r \in Record, clock \in Times
  PROVE  Summary(d, r) \in Doc
  BY DEF Summary, Doc, Record

----------------------------------------------------------------------------
(* Types. *)

LEMMA InitTypeOK == ASSUME Init PROVE TypeOK
  <1>1. 0 \in Times /\ 1 \in Times /\ 0 \in 0 .. MaxTroubles
    BY BoundAssumption DEF Times
  <1>2. NoDoc \in Doc
    BY <1>1 DEF NoDoc, Doc, Verdicts
  <1> QED
    BY <1>1, <1>2, NoRecordIsRecord DEF Init, TypeOK

\* A call that ends leaves its actor's variables well typed.
LEMMA EndsTypeOK ==
  ASSUME TypeOK, NEW a \in Actors, Ends(a)
  PROVE  /\ pc' \in [Actors -> {"idle", "queued", "read", "lookup", "store", "summary"}]
         /\ now' \in [Actors -> Times] /\ rec' \in [Actors -> Record]
  <1>1. 0 \in Times
    BY BoundAssumption DEF Times
  <1> QED
    BY <1>1, NoRecordIsRecord DEF Ends, TypeOK

LEMMA NextTypeOK == ASSUME TypeOK, [Next]_vars PROVE TypeOK'
  <1> USE DEF TypeOK
  <1>1. CASE Queue
    BY <1>1 DEF Queue, history, Actors
  <1>2. ASSUME NEW a \in Actors, Get(a) PROVE TypeOK'
    BY <1>2 DEF Get, history
  <1>3. ASSUME NEW a \in Actors, Read(a) PROVE TypeOK'
    BY <1>3 DEF Read, history
  <1>4. ASSUME NEW a \in Actors, Lookup(a) PROVE TypeOK'
    <2>1. PICK t \in Brought(a), shodan \in BOOLEAN :
            /\ mem' = Built(a, t, shodan)
            /\ rec' = [rec EXCEPT ![a] = Built(a, t, shodan)]
            /\ corroborated' = (corroborated \/ Corroborating(t))
      BY <1>4 DEF Lookup
    <2>2. Built(a, t, shodan) \in Record
      BY BuiltRecord
    <2>3. mem' \in Record /\ rec' \in [Actors -> Record] /\ corroborated' \in BOOLEAN
      BY <2>1, <2>2 DEF Corroborating
    <2> QED
      BY <1>4, <2>3 DEF Lookup
  <1>5. ASSUME NEW a \in Actors, Store(a) PROVE TypeOK'
    <2>1. Merge(durable, rec[a]) \in Record
      BY MergedRecord
    <2> QED
      BY <1>5, <2>1 DEF Store, history
  <1>6. ASSUME NEW a \in Actors, Summarize(a) PROVE TypeOK'
    <2>1. \A s \in Services : Summary(docs[s], rec[a]) \in Doc
      BY SummaryDoc
    <2>2. docs' \in [Services -> Doc]
      BY <1>6, <2>1 DEF Summarize
    <2> QED
      BY <1>6, <2>2, EndsTypeOK DEF Summarize, history
  <1>7. ASSUME NEW a \in Actors, DbFails(a) PROVE TypeOK'
    <2>1. troubles' \in 0 .. MaxTroubles
      BY <1>7, BoundAssumption DEF DbFails
    <2>2. CASE Ends(a)
      BY <1>7, <2>1, <2>2, EndsTypeOK DEF DbFails, history
    <2>3. CASE ~Ends(a)
      BY <1>7, <2>1, <2>3 DEF DbFails, history
    <2> QED
      BY <2>2, <2>3
  <1>8. ASSUME NEW v \in Viewers, LeavesLookup(v) PROVE TypeOK'
    <2>1. v \in Actors
      BY DEF Actors
    <2>2. PICK t : /\ mem' = Built(v, t, FALSE)
                   /\ corroborated' = (corroborated \/ Corroborating(t))
      BY <1>8 DEF LeavesLookup
    <2>3. mem' \in Record /\ corroborated' \in BOOLEAN
      BY <2>1, <2>2, BuiltRecord DEF Corroborating
    <2> QED
      BY <1>8, <2>1, <2>3, EndsTypeOK DEF LeavesLookup
  <1>9. ASSUME NEW v \in Viewers, Leaves(v) PROVE TypeOK'
    BY <1>9, EndsTypeOK DEF Leaves, Actors, history
  <1>10. CASE Evict
    BY <1>10, NoRecordIsRecord DEF Evict, getVars, history
  <1>11. ASSUME NEW s \in Services, Capture(s) PROVE TypeOK'
    <2>1. [docs[s] EXCEPT !.captured = TRUE] \in Doc
      BY DEF Doc
    <2>2. docs' \in [Services -> Doc]
      BY <1>11, <2>1 DEF Capture
    <2> QED
      BY <1>11, <2>2 DEF Capture, getVars, history
  <1>12. CASE Crash
    <2>1. troubles' \in 0 .. MaxTroubles
      BY <1>12, BoundAssumption DEF Crash
    <2>2. 0 \in Times
      BY BoundAssumption DEF Times
    <2> QED
      BY <1>12, <2>1, <2>2, NoRecordIsRecord DEF Crash, history
  <1>13. CASE Tick
    <2>1. clock' \in Times
      BY <1>13, BoundAssumption DEF Tick, Times
    <2> QED
      BY <1>13, <2>1 DEF Tick, getVars, history
  <1>14. CASE UNCHANGED vars
    BY <1>14 DEF vars, getVars, history
  <1> QED
    BY <1>1, <1>2, <1>3, <1>4, <1>5, <1>6, <1>7, <1>8, <1>9, <1>10, <1>11, <1>12,
       <1>13, <1>14 DEF Next, Step

\* The caches, the documents and the calls keep their types.
THEOREM TypeCorrect == Spec => []TypeOK
  <1>1. Init => TypeOK
    BY InitTypeOK
  <1>2. TypeOK /\ [Next]_vars => TypeOK'
    BY NextTypeOK
  <1> QED
    BY <1>1, <1>2, PTL DEF Spec

----------------------------------------------------------------------------
(* Corroboration. *)

\* Verdict says malicious of two strong rows only, and merging and summarizing
\* make no verdict up.
LEMMA VerdictNeedsTwo ==
  ASSUME NEW t, Verdict(t) = "malicious" PROVE Corroborating(t)
  BY DEF Verdict

LEMMA NextCorroborated ==
  ASSUME TypeOK, VerdictCorroborated, [Next]_vars
  PROVE  VerdictCorroborated'
  <1> USE DEF TypeOK
  <1>0. NoRecord.verdict = ""
    BY DEF NoRecord
  \* Of a call that ends only an empty record is left.
  <1>e. ASSUME NEW a \in Actors, Ends(a)
        PROVE  \A b \in Actors : rec'[b].verdict \in {rec[b].verdict, ""}
    BY <1>0, <1>e DEF Ends
  <1>1. CASE Queue
    BY <1>1 DEF Queue, history, VerdictCorroborated
  <1>2. ASSUME NEW a \in Actors, Get(a) PROVE VerdictCorroborated'
    <2>1. \A b \in Actors : rec'[b].verdict \in {rec[b].verdict, mem.verdict}
      BY <1>2 DEF Get
    <2> QED
      BY <1>2, <2>1 DEF Get, history, VerdictCorroborated
  <1>3. ASSUME NEW a \in Actors, Read(a) PROVE VerdictCorroborated'
    <2>1. \A b \in Actors : rec'[b].verdict \in {rec[b].verdict, durable.verdict}
      BY <1>3 DEF Read
    <2>2. mem'.verdict \in {mem.verdict, durable.verdict}
      BY <1>3 DEF Read
    <2> QED
      BY <1>3, <2>1, <2>2 DEF Read, history, VerdictCorroborated
  <1>4. ASSUME NEW a \in Actors, Lookup(a) PROVE VerdictCorroborated'
    <2>1. PICK t \in Brought(a), shodan \in BOOLEAN :
            /\ mem' = Built(a, t, shodan)
            /\ rec' = [rec EXCEPT ![a] = Built(a, t, shodan)]
            /\ corroborated' = (corroborated \/ Corroborating(t))
      BY <1>4 DEF Lookup
    <2>2. Built(a, t, shodan).verdict = "malicious" => corroborated'
      BY <2>1, VerdictNeedsTwo DEF Built
    <2>3. \A b \in Actors : rec'[b] \in {rec[b], Built(a, t, shodan)}
      BY <2>1
    <2>4. UNCHANGED <<docs, durable>> /\ (corroborated => corroborated')
      BY <1>4, <2>1 DEF Lookup
    <2> QED
      BY <2>1, <2>2, <2>3, <2>4 DEF VerdictCorroborated
  <1>5. ASSUME NEW a \in Actors, Store(a) PROVE VerdictCorroborated'
    <2>1. durable'.verdict \in {durable.verdict, rec[a].verdict}
      BY <1>5 DEF Store, Merge
    <2> QED
      BY <1>5, <2>1 DEF Store, history, VerdictCorroborated
  <1>6. ASSUME NEW a \in Actors, Summarize(a) PROVE VerdictCorroborated'
    <2>1. \A s \in Services : docs'[s].verdict \in {docs[s].verdict, rec[a].verdict}
      BY <1>6 DEF Summarize, Summary
    <2>2. \A b \in Actors : rec'[b].verdict \in {rec[b].verdict, ""}
      BY <1>6, <1>e DEF Summarize
    <2> QED
      BY <1>6, <2>1, <2>2 DEF Summarize, history, VerdictCorroborated
  <1>7. ASSUME NEW a \in Actors, DbFails(a) PROVE VerdictCorroborated'
    <2>1. \A b \in Actors : rec'[b].verdict \in {rec[b].verdict, ""}
      BY <1>7, <1>e DEF DbFails
    <2> QED
      BY <1>7, <2>1 DEF DbFails, history, VerdictCorroborated
  <1>8. ASSUME NEW v \in Viewers, LeavesLookup(v) PROVE VerdictCorroborated'
    <2>1. PICK t : /\ mem' = Built(v, t, FALSE)
                   /\ corroborated' = (corroborated \/ Corroborating(t))
      BY <1>8 DEF LeavesLookup
    <2>2. mem'.verdict = "malicious" => corroborated'
      BY <2>1, VerdictNeedsTwo DEF Built
    <2>3. \A b \in Actors : rec'[b].verdict \in {rec[b].verdict, ""}
      BY <1>8, <1>e DEF LeavesLookup, Actors
    <2>4. UNCHANGED <<docs, durable>> /\ (corroborated => corroborated')
      BY <1>8, <2>1 DEF LeavesLookup
    <2> QED
      BY <2>2, <2>3, <2>4 DEF VerdictCorroborated
  <1>9. ASSUME NEW v \in Viewers, Leaves(v) PROVE VerdictCorroborated'
    <2>1. \A b \in Actors : rec'[b].verdict \in {rec[b].verdict, ""}
      BY <1>9, <1>e DEF Leaves, Actors
    <2> QED
      BY <1>9, <2>1 DEF Leaves, history, VerdictCorroborated
  <1>10. CASE Evict
    BY <1>0, <1>10 DEF Evict, getVars, history, VerdictCorroborated
  <1>11. ASSUME NEW s \in Services, Capture(s) PROVE VerdictCorroborated'
    <2>1. \A z \in Services : docs'[z].verdict = docs[z].verdict
      BY <1>11 DEF Capture, Doc
    <2> QED
      BY <1>11, <2>1 DEF Capture, getVars, history, VerdictCorroborated
  <1>12. CASE Crash
    <2>1. \A b \in Actors : rec'[b].verdict = ""
      BY <1>0, <1>12 DEF Crash
    <2> QED
      BY <1>0, <1>12, <2>1 DEF Crash, history, VerdictCorroborated
  <1>13. CASE Tick
    BY <1>13 DEF Tick, getVars, history, VerdictCorroborated
  <1>14. CASE UNCHANGED vars
    BY <1>14 DEF vars, getVars, history, VerdictCorroborated
  <1> QED
    BY <1>1, <1>2, <1>3, <1>4, <1>5, <1>6, <1>7, <1>8, <1>9, <1>10, <1>11, <1>12,
       <1>13, <1>14 DEF Next, Step

\* No cache, call or document says malicious without two providers' evidence.
THEOREM MaliciousCorroborated == Spec => []VerdictCorroborated
  <1>1. Init => VerdictCorroborated
    <2>1. NoRecord.verdict = "" /\ NoDoc.verdict = ""
      BY DEF NoRecord, NoDoc
    <2> QED
      BY <2>1 DEF Init, VerdictCorroborated
  <1>2. TypeOK /\ VerdictCorroborated /\ [Next]_vars => VerdictCorroborated'
    BY NextCorroborated
  <1> QED
    BY <1>1, <1>2, TypeCorrect, PTL DEF Spec

----------------------------------------------------------------------------
(* The age of what is written. *)

\* A call in flight began at most Lag ago; what it looked up is of the time it
\* read, what it took from a cache was fresh then.
TimelyCall(a) ==
    /\ pc[a] \notin {"idle", "queued"} =>
         1 <= now[a] /\ now[a] <= clock /\ clock <= now[a] + Lag
    /\ pc[a] = "store" => rec[a].fetched_at = now[a]
    /\ pc[a] = "summary" => now[a] - rec[a].fetched_at < TTL

Timely ==
    /\ 1 <= clock /\ looked <= clock
    /\ \A a \in Actors : TimelyCall(a)
    /\ pc[Worker] = "store" => looked = now[Worker]

LEMMA Numbers ==
  ASSUME TypeOK
  PROVE  /\ TTL \in Nat /\ TTL > 0 /\ Lag \in Nat /\ clock \in Nat /\ looked \in Nat
         /\ \A a \in Actors : now[a] \in Nat /\ rec[a].fetched_at \in Nat
         /\ mem.fetched_at \in Nat /\ durable.fetched_at \in Nat
         /\ \A s \in Services : docs[s].fetched_at \in Nat /\ docs[s].enriched_at \in Nat
  BY TimeAssumption, BoundAssumption DEF TypeOK, Times, Record, Doc

\* A step that leaves the clock and every other call alone.
OnlyMoves(a) ==
    /\ UNCHANGED clock
    /\ \A b \in Actors \ {a} : pc'[b] = pc[b] /\ now'[b] = now[b] /\ rec'[b] = rec[b]

LEMMA OthersTimely ==
  ASSUME Timely, NEW a \in Actors, OnlyMoves(a)
  PROVE  \A b \in Actors \ {a} : TimelyCall(b)'
  BY DEF Timely, OnlyMoves, TimelyCall

LEMMA EndsMoves ==
  ASSUME TypeOK, NEW a \in Actors, Ends(a), UNCHANGED clock
  PROVE  OnlyMoves(a) /\ pc'[a] = "idle"
  BY DEF Ends, OnlyMoves, TypeOK

LEMMA EndsTimely ==
  ASSUME TypeOK, Timely, NEW a \in Actors, Ends(a), UNCHANGED <<clock, looked>>
  PROVE  Timely'
  <1>1. OnlyMoves(a) /\ pc'[a] = "idle"
    BY EndsMoves
  <1>2. TimelyCall(a)'
    BY <1>1 DEF TimelyCall
  <1>3. pc'[Worker] = "store" => looked' = now'[Worker]
    <2>1. Worker \in Actors
      BY DEF Actors
    <2> QED
      BY <1>1, <2>1 DEF OnlyMoves, Timely
  <1> QED
    BY <1>1, <1>2, <1>3, OthersTimely DEF Timely

LEMMA NextTimely ==
  ASSUME TypeOK, Timely, [Next]_vars
  PROVE  Timely'
  <1> USE DEF TypeOK
  <1>w. Worker \in Actors
    BY DEF Actors
  <1>1. CASE Queue
    <2>1. OnlyMoves(Worker) /\ pc'[Worker] = "queued" /\ UNCHANGED looked
      BY <1>1, <1>w DEF Queue, OnlyMoves, history
    <2>2. TimelyCall(Worker)'
      BY <2>1 DEF TimelyCall
    <2> QED
      BY <2>1, <2>2, OthersTimely, <1>w DEF Timely, OnlyMoves
  <1>2. ASSUME NEW a \in Actors, Get(a) PROVE Timely'
    <2>1. OnlyMoves(a) /\ UNCHANGED looked /\ now'[a] = clock
      BY <1>2 DEF Get, OnlyMoves, history
    <2>2. pc'[a] = "read" \/ (pc'[a] = "summary" /\ rec'[a] = mem /\ Fresh(mem, clock, Deep(a)))
      <3>1. CASE Fresh(mem, clock, Deep(a))
        <4>1. rec'[a] = mem /\ pc'[a] = "summary"
          BY <1>2, <3>1 DEF Get
        <4> QED
          BY <4>1, <3>1
      <3>2. CASE ~ Fresh(mem, clock, Deep(a))
        BY <1>2, <3>2 DEF Get
      <3> QED
        BY <3>1, <3>2
    <2>3. pc'[a] = "summary" => now'[a] - rec'[a].fetched_at < TTL
      BY <2>1, <2>2 DEF Fresh
    <2>4. 1 <= now'[a] /\ now'[a] <= clock /\ clock <= now'[a] + Lag
      BY <2>1, Numbers DEF Timely
    <2>5. TimelyCall(a)'
      BY <2>1, <2>2, <2>3, <2>4 DEF TimelyCall, OnlyMoves
    <2>6. pc'[Worker] = "store" => looked' = now'[Worker]
      BY <2>1, <2>2, <1>w DEF OnlyMoves, Timely
    <2> QED
      BY <2>1, <2>5, <2>6, OthersTimely DEF Timely, OnlyMoves
  <1>3. ASSUME NEW a \in Actors, Read(a) PROVE Timely'
    <2>1. OnlyMoves(a) /\ UNCHANGED <<looked, now>> /\ pc[a] = "read"
      BY <1>3 DEF Read, OnlyMoves, history
    <2>2. \/ pc'[a] = "lookup"
          \/ pc'[a] = "summary" /\ rec'[a] = durable /\ Fresh(durable, now[a], Deep(a))
      BY <1>3 DEF Read
    <2>3. pc'[a] = "summary" => now'[a] - rec'[a].fetched_at < TTL
      BY <2>1, <2>2 DEF Fresh
    <2>4. TimelyCall(a)'
      BY <2>1, <2>2, <2>3 DEF TimelyCall, OnlyMoves, Timely
    <2>5. pc'[Worker] = "store" => looked' = now'[Worker]
      BY <2>1, <2>2, <1>w DEF OnlyMoves, Timely
    <2> QED
      BY <2>1, <2>4, <2>5, OthersTimely DEF Timely, OnlyMoves
  <1>4. ASSUME NEW a \in Actors, Lookup(a) PROVE Timely'
    <2>1. PICK t \in Brought(a), shodan \in BOOLEAN :
            rec' = [rec EXCEPT ![a] = Built(a, t, shodan)]
      BY <1>4 DEF Lookup
    <2>2. OnlyMoves(a) /\ UNCHANGED now /\ pc[a] = "lookup" /\ pc'[a] = "store"
      BY <1>4, <2>1 DEF Lookup, OnlyMoves
    <2>3. rec'[a].fetched_at = now[a]
      BY <2>1 DEF Built
    <2>4. looked' = IF a = Worker THEN now[a] ELSE looked
      BY <1>4 DEF Lookup
    <2>5. TimelyCall(a)'
      BY <2>2, <2>3 DEF TimelyCall, OnlyMoves, Timely
    <2>6. pc'[Worker] = "store" => looked' = now'[Worker]
      BY <2>2, <2>4, <1>w DEF OnlyMoves, Timely
    <2>7. looked' <= clock
      BY <2>2, <2>4 DEF Timely, TimelyCall
    <2> QED
      BY <2>2, <2>5, <2>6, <2>7, OthersTimely DEF Timely, OnlyMoves
  <1>5. ASSUME NEW a \in Actors, Store(a) PROVE Timely'
    <2>1. OnlyMoves(a) /\ UNCHANGED <<looked, now, rec>> /\ pc[a] = "store" /\ pc'[a] = "summary"
      BY <1>5 DEF Store, OnlyMoves, history
    <2>2. now'[a] - rec'[a].fetched_at < TTL
      BY <2>1, Numbers DEF Timely, TimelyCall
    <2>3. TimelyCall(a)'
      BY <2>1, <2>2 DEF TimelyCall, OnlyMoves, Timely
    <2>4. pc'[Worker] = "store" => looked' = now'[Worker]
      BY <2>1, <1>w DEF OnlyMoves, Timely
    <2> QED
      BY <2>1, <2>3, <2>4, OthersTimely DEF Timely, OnlyMoves
  <1>6. ASSUME NEW a \in Actors, Summarize(a) PROVE Timely'
    BY <1>6, EndsTimely DEF Summarize, history
  <1>7. ASSUME NEW a \in Actors, DbFails(a) PROVE Timely'
    <2>1. UNCHANGED <<clock, looked>>
      BY <1>7 DEF DbFails, history
    <2>2. CASE Ends(a)
      BY <2>1, <2>2, EndsTimely
    <2>3. CASE ~Ends(a)
      <3>1. OnlyMoves(a) /\ UNCHANGED <<now, rec>>
        BY <1>7, <2>3 DEF DbFails, OnlyMoves
      <3>2. \/ pc[a] = "read" /\ pc'[a] = "lookup"
            \/ pc[a] = "store" /\ pc'[a] = "summary"
        BY <1>7, <2>3 DEF DbFails
      <3>3. pc'[a] = "summary" => now'[a] - rec'[a].fetched_at < TTL
        BY <3>1, <3>2, Numbers DEF Timely, TimelyCall
      <3>4. TimelyCall(a)'
        BY <3>1, <3>2, <3>3 DEF TimelyCall, OnlyMoves, Timely
      <3>5. pc'[Worker] = "store" => looked' = now'[Worker]
        BY <2>1, <3>1, <3>2, <1>w DEF OnlyMoves, Timely
      <3> QED
        BY <2>1, <3>1, <3>4, <3>5, OthersTimely DEF Timely
    <2> QED
      BY <2>2, <2>3
  <1>8. ASSUME NEW v \in Viewers, LeavesLookup(v) \/ Leaves(v) PROVE Timely'
    BY <1>8, EndsTimely DEF LeavesLookup, Leaves, Actors, history
  <1>9. CASE \/ Evict \/ UNCHANGED vars \/ \E s \in Services : Capture(s)
    <2>1. UNCHANGED <<clock, looked, pc, now, rec>>
      BY <1>9 DEF Evict, Capture, vars, getVars, history
    <2> QED
      BY <2>1 DEF Timely, TimelyCall
  <1>10. CASE Crash
    <2>1. UNCHANGED <<clock, looked>> /\ \A a \in Actors : pc'[a] = "idle"
      BY <1>10 DEF Crash, history
    <2> QED
      BY <2>1, <1>w DEF Timely, TimelyCall
  <1>11. CASE Tick
    <2>1. /\ UNCHANGED <<looked, pc, now, rec>> /\ clock' = clock + 1
          /\ \A a \in Actors : pc[a] \notin {"idle", "queued"} => clock - now[a] < Lag
      BY <1>11 DEF Tick, getVars, history
    <2>2. ASSUME NEW a \in Actors PROVE TimelyCall(a)'
      BY <2>1, Numbers DEF Timely, TimelyCall
    <2>3. 1 <= clock' /\ looked' <= clock'
      BY <2>1, Numbers DEF Timely
    <2> QED
      BY <2>1, <2>2, <2>3 DEF Timely
  <1> QED
    BY <1>1, <1>2, <1>3, <1>4, <1>5, <1>6, <1>7, <1>8, <1>9, <1>10, <1>11 DEF Next, Step

LEMMA InitTimely == ASSUME Init PROVE Timely
  BY DEF Init, Timely, TimelyCall, Actors

\* A summary is written within Lag of the time its record was fresh at.
LEMMA NextHonest ==
  ASSUME TypeOK, TypeOK', Timely, StampHonest, [Next]_vars
  PROVE  StampHonest'
  <1>1. CASE \E a \in Actors : Summarize(a)
    <2>1. PICK a \in Actors : Summarize(a)
      BY <1>1
    <2>2. clock - rec[a].fetched_at < TTL + Lag
      <3>1. now[a] - rec[a].fetched_at < TTL /\ clock <= now[a] + Lag
        BY <2>1 DEF Summarize, Timely, TimelyCall
      <3> QED
        BY <3>1, Numbers
    <2>3. ASSUME NEW s \in Services
          PROVE  docs'[s].enriched_at # 0 =>
                   docs'[s].enriched_at - docs'[s].fetched_at < TTL + Lag
      <3>1. docs'[s] = Summary(docs[s], rec[a])
        BY <2>1 DEF Summarize
      <3>2. CASE docs[s].captured
        <4>1. docs'[s].enriched_at = clock /\ docs'[s].fetched_at = rec[a].fetched_at
          BY <3>1, <3>2 DEF Summary
        <4> QED
          BY <2>2, <4>1
      <3>3. CASE ~docs[s].captured
        BY <3>1, <3>3 DEF Summary, StampHonest
      <3> QED
        BY <3>2, <3>3
    <2> QED
      BY <2>3 DEF StampHonest
  <1>2. ASSUME NEW z \in Services, Capture(z) PROVE StampHonest'
    <2>1. \A s \in Services : docs'[s].enriched_at = docs[s].enriched_at
                              /\ docs'[s].fetched_at = docs[s].fetched_at
      BY <1>2 DEF Capture, TypeOK, Doc
    <2> QED
      BY <2>1 DEF StampHonest
  <1>3. CASE UNCHANGED docs
    BY <1>3 DEF StampHonest
  <1>4. \/ \E a \in Actors : Summarize(a)
        \/ \E s \in Services : Capture(s)
        \/ UNCHANGED docs
    BY DEF Next, Step, Queue, Get, Read, Lookup, Store, DbFails, LeavesLookup, Leaves,
           Evict, Crash, Tick, vars
  <1> QED
    BY <1>1, <1>2, <1>3, <1>4

\* What a document shows is never older, at its stamp, than TTL and a call.
THEOREM StampsHonest == Spec => []StampHonest
  <1>1. Init => StampHonest
    <2>1. NoDoc.enriched_at = 0
      BY DEF NoDoc
    <2> QED
      BY <2>1 DEF Init, StampHonest
  <1>2. Init => Timely
    BY InitTimely
  <1>3. TypeOK /\ TypeOK' /\ Timely /\ StampHonest /\ [Next]_vars
          => Timely' /\ StampHonest'
    BY NextTimely, NextHonest
  <1> QED
    BY <1>1, <1>2, <1>3, TypeCorrect, PTL DEF Spec
----------------------------------------------------------------------------
(* How often the worker looks the host up. *)

\* With MongoDB well, the collection's record is of the worker's last lookup or
\* of a call that began at most a Lag before it; so a worker that finds this
\* record stale is a TTL less a Lag past its last lookup.
SpacedInv ==
    troubles = 0 /\ looked # 0 =>
      /\ pc[Worker] # "store" => 1 <= durable.fetched_at /\ looked - Lag <= durable.fetched_at
      /\ pc[Worker] = "lookup" => TTL - Lag <= now[Worker] - looked

\* A step that touches neither the record nor the worker's call.
LEMMA SpacedFrame ==
  ASSUME SpacedInv, troubles' = 0 => troubles = 0,
         UNCHANGED <<looked, durable>>,
         pc'[Worker] # "store" => pc[Worker] # "store",
         pc'[Worker] = "lookup" => pc[Worker] = "lookup" /\ now'[Worker] = now[Worker]
  PROVE  SpacedInv'
  BY DEF SpacedInv

LEMMA NextSpaced ==
  ASSUME TypeOK, Timely, SpacedInv, [Next]_vars
  PROVE  SpacedInv'
  <1>w. Worker \in Actors /\ Worker \notin Viewers
    BY ActorAssumption DEF Actors
  <1>t. troubles \in Nat /\ MaxTroubles \in Nat
    BY BoundAssumption DEF TypeOK
  <1>1. ASSUME NEW a \in Actors, Get(a) PROVE SpacedInv'
    <2>1. /\ UNCHANGED <<looked, durable, troubles>>
          /\ pc'[a] \in {"read", "summary"} /\ pc[a] \in {"queued", "idle"}
          /\ \A b \in Actors \ {a} : pc'[b] = pc[b] /\ now'[b] = now[b]
      BY <1>1 DEF Get, TypeOK, history
    <2> QED
      BY <2>1, <1>w, SpacedFrame
  <1>2. ASSUME NEW a \in Actors, Read(a) PROVE SpacedInv'
    <2>1. /\ UNCHANGED <<looked, durable, troubles, now>> /\ pc[a] = "read"
          /\ pc'[a] \in {"lookup", "summary"}
          /\ pc'[a] = "lookup" => ~Fresh(durable, now[a], Deep(a))
          /\ \A b \in Actors \ {a} : pc'[b] = pc[b]
      BY <1>2 DEF Read, TypeOK, history
    <2>2. CASE a # Worker
      BY <2>1, <2>2, <1>w, SpacedFrame
    <2>3. CASE a = Worker
      <3> SUFFICES ASSUME troubles = 0, looked # 0
                   PROVE  /\ 1 <= durable.fetched_at /\ looked - Lag <= durable.fetched_at
                          /\ pc'[Worker] = "lookup" => TTL - Lag <= now[Worker] - looked
        BY <2>1 DEF SpacedInv
      <3>1. 1 <= durable.fetched_at /\ looked - Lag <= durable.fetched_at
        BY <2>1, <2>3 DEF SpacedInv
      <3>2. ASSUME pc'[Worker] = "lookup" PROVE TTL <= now[Worker] - durable.fetched_at
        <4>1. ~Fresh(durable, now[Worker], FALSE)
          BY <2>1, <2>3, <3>2 DEF Deep
        <4>2. durable.fetched_at # 0 /\ ~(now[Worker] - durable.fetched_at < TTL)
          BY <3>1, <4>1, <1>w, Numbers DEF Fresh
        <4> QED
          BY <4>2, <1>w, Numbers
      <3> QED
        BY <3>1, <3>2, <1>w, Numbers
    <2> QED
      BY <2>2, <2>3
  <1>3. ASSUME NEW a \in Actors, Lookup(a) PROVE SpacedInv'
    <2>1. /\ UNCHANGED <<durable, troubles, now>> /\ pc[a] = "lookup" /\ pc'[a] = "store"
          /\ looked' = IF a = Worker THEN now[a] ELSE looked
          /\ \A b \in Actors \ {a} : pc'[b] = pc[b]
      BY <1>3 DEF Lookup, TypeOK
    <2> QED
      BY <2>1, <1>w DEF SpacedInv
  <1>4. ASSUME NEW a \in Actors, Store(a) PROVE SpacedInv'
    <2>1. /\ UNCHANGED <<looked, troubles, now>> /\ pc[a] = "store" /\ pc'[a] = "summary"
          /\ durable'.fetched_at = rec[a].fetched_at
          /\ \A b \in Actors \ {a} : pc'[b] = pc[b]
      BY <1>4 DEF Store, Merge, TypeOK, history
    <2>2. rec[a].fetched_at = now[a] /\ 1 <= now[a] /\ clock <= now[a] + Lag /\ looked <= clock
      BY <2>1 DEF Timely, TimelyCall
    <2>3. 1 <= durable'.fetched_at /\ looked - Lag <= durable'.fetched_at
      BY <2>1, <2>2, Numbers
    <2> QED
      BY <2>1, <2>3, <1>w DEF SpacedInv
  <1>5. ASSUME NEW a \in Actors, Summarize(a) PROVE SpacedInv'
    <2>1. UNCHANGED <<looked, durable, troubles, clock>> /\ pc[a] = "summary"
      BY <1>5 DEF Summarize, history
    <2>2. OnlyMoves(a) /\ pc'[a] = "idle"
      BY <1>5, <2>1, EndsMoves DEF Summarize
    <2> QED
      BY <2>1, <2>2, <1>w, SpacedFrame DEF OnlyMoves
  <1>6. ASSUME NEW v \in Viewers, LeavesLookup(v) \/ Leaves(v) PROVE SpacedInv'
    <2>1. UNCHANGED <<looked, durable, troubles, clock>> /\ v \in Actors
      BY <1>6 DEF LeavesLookup, Leaves, history, Actors
    <2>2. OnlyMoves(v)
      BY <1>6, <2>1, EndsMoves DEF LeavesLookup, Leaves
    <2> QED
      BY <2>1, <2>2, <1>w, SpacedFrame DEF OnlyMoves
  <1>7. CASE Crash \/ \E a \in Actors : DbFails(a)
    <2>1. troubles' = troubles + 1
      BY <1>7 DEF Crash, DbFails
    <2> QED
      BY <2>1, <1>t DEF SpacedInv
  <1>8. CASE Queue \/ Evict \/ Tick \/ UNCHANGED vars \/ \E s \in Services : Capture(s)
    <2>1. /\ UNCHANGED <<looked, durable, troubles, now>>
          /\ pc'[Worker] \in {pc[Worker], "queued"} /\ (pc'[Worker] # pc[Worker] => pc[Worker] = "idle")
      BY <1>8, <1>w DEF Queue, Evict, Tick, Capture, vars, getVars, history, TypeOK
    <2> QED
      BY <2>1, SpacedFrame
  <1> QED
    BY <1>1, <1>2, <1>3, <1>4, <1>5, <1>6, <1>7, <1>8 DEF Next, Step

\* While MongoDB works and the collector runs, two lookups of the worker begin
\* at least a TTL less one call apart, whoever else looks the host up and
\* whatever memory forgets.
THEOREM LookupsApart == Spec => LookupsSpaced
  <1>1. Init => SpacedInv
    BY DEF Init, SpacedInv
  <1>2. Init => Timely
    BY InitTimely
  <1>3. TypeOK /\ Timely /\ SpacedInv /\ [Next]_vars => Timely' /\ SpacedInv'
    BY NextTimely, NextSpaced
  <1>4. TypeOK /\ Timely /\ SpacedInv /\ [Next]_vars =>
          [pc[Worker] = "lookup" /\ pc'[Worker] = "store" /\ looked # 0 /\ troubles = 0
             => now[Worker] - looked >= TTL - Lag]_vars
    <2> SUFFICES ASSUME TypeOK, SpacedInv, pc[Worker] = "lookup", looked # 0, troubles = 0
                 PROVE  now[Worker] - looked >= TTL - Lag
      OBVIOUS
    <2>1. Worker \in Actors
      BY DEF Actors
    <2>2. TTL - Lag <= now[Worker] - looked
      BY DEF SpacedInv
    <2> QED
      BY <2>1, <2>2, Numbers
  <1> QED
    BY <1>1, <1>2, <1>3, <1>4, TypeCorrect, PTL DEF Spec, LookupsSpaced
=============================================================================
