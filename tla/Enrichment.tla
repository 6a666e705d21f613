----------------------------- MODULE Enrichment -----------------------------
(***************************************************************************)
(* Enrichment of one host.  Enricher.Get answers from its memory, then     *)
(* from the enrichment collection, then looks the host up; the background  *)
(* worker asks for the keyless part, viewers of the signal page for the    *)
(* deep one with the threat feeds.  Each then writes a summary onto the    *)
(* result documents the host has at that moment.                           *)
(*                                                                         *)
(* A threat feed's answer is its grade; of the rows only the verdict they  *)
(* lead to is kept, and ports, tags, CVEs and names are left out.  Time 0  *)
(* is Go's zero time.                                                      *)
(***************************************************************************)
EXTENDS Integers

CONSTANTS
    Worker, Viewers,
    Services,      \* the host's result documents
    Feeds,         \* keyed reputation sources
    Outcomes,      \* what a deep lookup may bring back
    HasKey,        \* a Shodan key is configured
    TTL,           \* VIBESCAN_ENRICH_TTL_HOURS
    ThreatTTL,     \* VIBESCAN_THREAT_TTL_HOURS
    Lag,           \* how long a Get and its summary take at most
    MaxClock,      \* bound: time that passes
    MaxTroubles    \* bound: calls MongoDB fails, and crashes of the collector

Actors == Viewers \cup {Worker}
Deep(a) == a # Worker

\* ThreatIntel: one row per feed, absent when the feed did not answer.
Threats == [Feeds -> {"absent", "nothing", "weak", "strong"}]
NoThreat == [f \in Feeds |-> "absent"]

ASSUME ActorAssumption == Worker \notin Viewers
ASSUME OutcomeAssumption == Outcomes \subseteq Threats /\ HasKey \in BOOLEAN
ASSUME TimeAssumption ==
    TTL \in Nat \ {0} /\ ThreatTTL \in Nat \ {0} /\ Lag \in Nat
ASSUME BoundAssumption ==
    MaxClock \in Nat \ {0} /\ MaxTroubles \in Nat

VARIABLES
    clock,
    docs,        \* the host's result documents
    mem,         \* Enricher.mem: its record of the host
    durable,     \* the record in the enrichment collection
    pc, now, rec,\* each Get: its step, the time it read, its record
    looked,      \* history: the time of the worker's last lookup
    corroborated,\* history: some lookup had two strong rows
    troubles

getVars == <<pc, now, rec>>
history == <<looked, corroborated>>
vars == <<clock, docs, mem, durable, getVars, history, troubles>>

Times == 0 .. MaxClock
Verdicts == {"", "clean", "suspicious", "malicious"}

Record == [fetched_at : Times, deep_fetched_at : Times, shodan : BOOLEAN,
           verdict : Verdicts]
NoRecord == [fetched_at |-> 0, deep_fetched_at |-> 0, shodan |-> FALSE,
             verdict |-> ""]

\* fetched_at: the record the summary is of; enriched_at: when it was written.
Doc == [captured : BOOLEAN, verdict : Verdicts,
        fetched_at : Times, enriched_at : Times]
NoDoc == [captured |-> FALSE, verdict |-> "",
          fetched_at |-> 0, enriched_at |-> 0]

TypeOK ==
    /\ clock \in Times
    /\ docs \in [Services -> Doc]
    /\ mem \in Record /\ durable \in Record
    /\ pc \in [Actors -> {"idle", "queued", "read", "lookup", "store", "summary"}]
    /\ now \in [Actors -> Times]
    /\ rec \in [Actors -> Record]
    /\ looked \in Times /\ corroborated \in BOOLEAN
    /\ troubles \in 0 .. MaxTroubles

Init ==
    /\ clock = 1
    /\ docs = [s \in Services |-> NoDoc]
    /\ mem = NoRecord /\ durable = NoRecord
    /\ pc = [a \in Actors |-> "idle"]
    /\ now = [a \in Actors |-> 0]
    /\ rec = [a \in Actors |-> NoRecord]
    /\ looked = 0 /\ corroborated = FALSE
    /\ troubles = 0

----------------------------------------------------------------------------
(* The pure parts of Get. *)

\* fresh: is record r, if there is one, still usable at time t?
\* Mutant: a record once fetched stays usable.
Fresh_Always(r, t, deep) == r.fetched_at # 0
Fresh(r, t, deep) ==
    /\ r.fetched_at # 0 /\ t - r.fetched_at < TTL
    /\ deep => /\ r.deep_fetched_at # 0 /\ t - r.deep_fetched_at < ThreatTTL
               /\ HasKey => r.shodan

Rows(t, grade) == {f \in Feeds : t[f] = grade}
Corroborating(t) == \E f, g \in Rows(t, "strong") : f # g

\* computeVerdict: one strong or weak row is suspicious, two strong ones are
\* malicious; no row at all is no verdict.  Mutant: one strong row suffices.
Verdict_Alone(t) == IF Rows(t, "strong") # {} THEN "malicious" ELSE ""
Verdict(t) ==
    IF Rows(t, "absent") = Feeds THEN ""
    ELSE IF Corroborating(t) THEN "malicious"
    ELSE IF Rows(t, "strong") \cup Rows(t, "weak") # {} THEN "suspicious"
    ELSE "clean"

\* fanOutThreat and its sources: any of them may be absent.
Brought(a) == IF Deep(a) THEN Outcomes ELSE {NoThreat}

\* The record Get builds from threat t, with or without Shodan's answer.
Built(a, t, shodan) ==
    [fetched_at |-> now[a], deep_fetched_at |-> IF Deep(a) THEN now[a] ELSE 0,
     shodan |-> shodan, verdict |-> Verdict(t)]

\* UpsertEnrichment: "$set" with omitempty; no verdict and a zero time leave
\* what is stored.  Mutant: the first record is kept.
Merge_First(old, r) == IF old.fetched_at = 0 THEN r ELSE old
Merge(old, r) ==
    [fetched_at |-> r.fetched_at, shodan |-> r.shodan,
     deep_fetched_at |-> IF r.deep_fetched_at = 0 THEN old.deep_fetched_at
                         ELSE r.deep_fetched_at,
     verdict |-> IF r.verdict = "" THEN old.verdict ELSE r.verdict]

\* DenormalizeEnrichment of record r onto document d: "always stamps
\* enriched_at".
Summary(d, r) ==
    IF d.captured
    THEN [captured |-> TRUE, verdict |-> r.verdict,
          fetched_at |-> r.fetched_at, enriched_at |-> clock]
    ELSE d

----------------------------------------------------------------------------
(* Get, and what the worker and handleEnrich do with its record. *)

\* The call is over and its variables with it.
Ends(a) ==
    /\ pc' = [pc EXCEPT ![a] = "idle"]
    /\ now' = [now EXCEPT ![a] = 0]
    /\ rec' = [rec EXCEPT ![a] = NoRecord]

\* RecentUnenrichedIPs names the host.
Queue ==
    /\ pc[Worker] = "idle"
    /\ \E s \in Services :
         docs[s].captured /\ (docs[s].enriched_at = 0 \/ docs[s].enriched_at < clock - TTL)
    /\ pc' = [pc EXCEPT ![Worker] = "queued"]
    /\ UNCHANGED <<clock, docs, mem, durable, now, rec, history, troubles>>

\* The clock is read once; memory answers if it can.
Get(a) ==
    /\ pc[a] = IF a = Worker THEN "queued" ELSE "idle"
    /\ now' = [now EXCEPT ![a] = clock]
    /\ IF Fresh(mem, clock, Deep(a))
       THEN rec' = [rec EXCEPT ![a] = mem] /\ pc' = [pc EXCEPT ![a] = "summary"]
       ELSE pc' = [pc EXCEPT ![a] = "read"] /\ UNCHANGED rec
    /\ UNCHANGED <<clock, docs, mem, durable, history, troubles>>

Read(a) ==
    /\ pc[a] = "read"
    /\ IF Fresh(durable, now[a], Deep(a))
       THEN /\ mem' = durable
            /\ rec' = [rec EXCEPT ![a] = durable]
            /\ pc' = [pc EXCEPT ![a] = "summary"]
       ELSE pc' = [pc EXCEPT ![a] = "lookup"] /\ UNCHANGED <<mem, rec>>
    /\ UNCHANGED <<clock, docs, durable, now, history, troubles>>

\* The sources answer, or not, and memory takes the record.
Lookup(a) ==
    /\ pc[a] = "lookup"
    /\ \E t \in Brought(a) : \E shodan \in BOOLEAN :
         /\ shodan => HasKey /\ Deep(a)
         /\ mem' = Built(a, t, shodan)
         /\ rec' = [rec EXCEPT ![a] = Built(a, t, shodan)]
         /\ corroborated' = (corroborated \/ Corroborating(t))
    /\ pc' = [pc EXCEPT ![a] = "store"]
    /\ looked' = IF a = Worker THEN now[a] ELSE looked
    /\ UNCHANGED <<clock, docs, durable, now, troubles>>

Store(a) ==
    /\ pc[a] = "store"
    /\ durable' = Merge(durable, rec[a])
    /\ pc' = [pc EXCEPT ![a] = "summary"]
    /\ UNCHANGED <<clock, docs, mem, now, rec, history, troubles>>

\* UpdateMany on the documents of the host.
Summarize(a) ==
    /\ pc[a] = "summary"
    /\ docs' = [s \in Services |-> Summary(docs[s], rec[a])]
    /\ Ends(a)
    /\ UNCHANGED <<clock, mem, durable, history, troubles>>

\* MongoDB fails a call; every caller goes on without it.
DbFails(a) ==
    /\ troubles < MaxTroubles
    /\ troubles' = troubles + 1
    /\ \/ pc[a] = "read" /\ pc' = [pc EXCEPT ![a] = "lookup"] /\ UNCHANGED <<now, rec>>
       \/ pc[a] = "store" /\ pc' = [pc EXCEPT ![a] = "summary"] /\ UNCHANGED <<now, rec>>
       \/ pc[a] = "summary" /\ Ends(a)
    /\ UNCHANGED <<clock, docs, mem, durable, history>>

\* The viewer leaves during the lookup: the sources not heard of yet and the
\* calls to MongoDB fail, and memory takes what there is.
LeavesLookup(v) ==
    /\ pc[v] \in {"read", "lookup"}
    /\ \E t \in Outcomes \cup {NoThreat} :
         /\ mem' = Built(v, t, FALSE)
         /\ corroborated' = (corroborated \/ Corroborating(t))
    /\ Ends(v)
    /\ UNCHANGED <<clock, docs, durable, looked, troubles>>

\* The viewer leaves later: MongoDB is told nothing more.
Leaves(v) ==
    /\ pc[v] \in {"store", "summary"}
    /\ Ends(v)
    /\ UNCHANGED <<clock, docs, mem, durable, history, troubles>>

----------------------------------------------------------------------------
(* The rest of the collector, and time. *)

\* memPut of another host throws half of a full memory away.
Evict ==
    /\ mem # NoRecord
    /\ mem' = NoRecord
    /\ UNCHANGED <<clock, docs, durable, getVars, history, troubles>>

\* Ingest stores a new service of the host, without a summary.
Capture(s) ==
    /\ ~docs[s].captured
    /\ docs' = [docs EXCEPT ![s].captured = TRUE]
    /\ UNCHANGED <<clock, mem, durable, getVars, history, troubles>>

Crash ==
    /\ troubles < MaxTroubles
    /\ troubles' = troubles + 1
    /\ mem' = NoRecord
    /\ pc' = [a \in Actors |-> "idle"]
    /\ now' = [a \in Actors |-> 0]
    /\ rec' = [a \in Actors |-> NoRecord]
    /\ UNCHANGED <<clock, docs, durable, history>>

\* A Get and its summary take at most Lag; a host may wait in the worker's
\* batch for any time.
Tick ==
    /\ clock < MaxClock
    /\ \A a \in Actors : pc[a] \notin {"idle", "queued"} => clock - now[a] < Lag
    /\ clock' = clock + 1
    /\ UNCHANGED <<docs, mem, durable, getVars, history, troubles>>

----------------------------------------------------------------------------
Step(a) == Get(a) \/ Read(a) \/ Lookup(a) \/ Store(a) \/ Summarize(a) \/ DbFails(a)

Next ==
    \/ Queue
    \/ \E a \in Actors : Step(a)
    \/ \E v \in Viewers : LeavesLookup(v) \/ Leaves(v)
    \/ Evict
    \/ \E s \in Services : Capture(s)
    \/ Crash
    \/ Tick

Spec == Init /\ [][Next]_vars

----------------------------------------------------------------------------
(* Properties. *)

\* "malicious requires corroboration from at least two providers": wherever a
\* record has travelled, through both caches, merges of lookups and the result
\* documents, a malicious verdict comes from a lookup with two strong rows.
VerdictCorroborated ==
    (\/ "malicious" \in {mem.verdict, durable.verdict}
     \/ \E a \in Actors : rec[a].verdict = "malicious"
     \/ \E s \in Services : docs[s].verdict = "malicious")
      => corroborated

\* "last enrichment time": what a document shows was fetched less than a TTL
\* and a lookup before the time it is stamped with, whichever cache it is from
\* and whoever wrote last.
StampHonest ==
    \A s \in Services :
      docs[s].enriched_at # 0 =>
        docs[s].enriched_at - docs[s].fetched_at < TTL + Lag

\* "so the worker doesn't retry it before the TTL": while MongoDB works and the
\* collector runs, the worker's lookups of a host are a TTL less a lookup apart,
\* whatever is evicted and whoever else looks the host up in between.
LookupsSpaced ==
    [][pc[Worker] = "lookup" /\ pc'[Worker] = "store" /\ looked # 0
         /\ troubles = 0
       => now[Worker] - looked >= TTL - Lag]_vars
=============================================================================
