------------------------------ MODULE Blacklist ------------------------------
(***************************************************************************)
(* The CIDR exclusion list on its way from MongoDB to what agents scan.    *)
(* The collector seeds an empty collection in the background, serves the   *)
(* enabled CIDRs through a cache, and falls back on the built-in seed;     *)
(* each agent starts with the seed, replaces its list by each answer, and  *)
(* draws its targets outside it.  Operators edit the collection.           *)
(*                                                                         *)
(* CIDRs are disjoint and stand for an address in them.                    *)
(***************************************************************************)
EXTENDS Integers

CONSTANTS
    Agents,
    Seed,         \* DefaultBlacklistSeed
    Guarded,      \* 0.0.0.0/8 and 127.0.0.0/8, which RandomIP never draws
    OptOuts,      \* CIDRs operators ask to exclude
    Public,       \* addresses outside every list
    InitialRows,  \* CIDRs in the collection when the collector first starts
    TTL,          \* BlacklistTTL, also the ttl_seconds agents are told
    Retry,        \* an agent's pause after a failed refresh
    Timeout,      \* of the agent's HTTP client
    ReadTime,     \* how long a read of the collection takes to come back
    MaxClock,     \* bound: time that passes
    MaxEdits,     \* bound: edits by operators
    MaxCrashes,   \* bound: crashes of the collector
    MaxRestarts,  \* bound: restarts of agents
    MaxOutages,   \* bound: outages of MongoDB
    MaxFailures   \* bound: refreshes that fail on their way

Cidrs == Seed \cup OptOuts
Addresses == Cidrs \cup Public

ASSUME ListAssumption ==
    /\ Guarded \subseteq Seed /\ Seed # {}
    /\ Seed \cap OptOuts = {} /\ Cidrs \cap Public = {}
    /\ InitialRows \subseteq Cidrs
ASSUME TimeAssumption ==
    /\ TTL \in Nat \ {0} /\ Retry \in Nat \ {0} /\ Timeout \in Nat
    /\ ReadTime \in Nat
ASSUME BoundAssumption ==
    /\ MaxClock \in Nat /\ MaxEdits \in Nat /\ MaxCrashes \in Nat
    /\ MaxRestarts \in Nat /\ MaxOutages \in Nat /\ MaxFailures \in Nat

VARIABLES
    clock,
    rows, enabled,       \* the collection: its CIDRs, those not disabled
    added,               \* history: when each CIDR was last enabled
    lifted,              \* history: opt-outs operators have disabled, ever
    up, connected, dbUp,
    seeding, left,       \* SeedBlacklist: its step, the upserts not done yet
    cached, fetchedAt,   \* BlacklistCache
    reading,             \* its mutex is held over a read of the collection
    asker,               \* the agent that read is for, if it still waits
    found, readAt,       \* what MongoDB answered ({}: nothing or an error), when
    late,                \* requests at the mutex whose agents have left
    apc,                 \* where each agent is
    nets, blNext,        \* its list, and when it refreshes it
    sent, reply,         \* its request: when, and the answer on its way
    batch, drawn,        \* the targets being scanned, and when they were drawn
    edits, crashes, restarts, outages, failures

dbVars == <<rows, enabled, added, lifted>>
procVars == <<up, connected>>
seedVars == <<seeding, left>>
cacheVars == <<cached, fetchedAt>>
readVars == <<reading, asker, found, readAt, late>>
agentVars == <<apc, nets, blNext, sent, reply, batch, drawn>>
bounds == <<edits, crashes, restarts, outages, failures>>
vars == <<clock, dbVars, procVars, dbUp, seedVars, cacheVars, readVars, agentVars,
          bounds>>

Times == 0 .. MaxClock

TypeOK ==
    /\ clock \in Times
    /\ rows \in SUBSET Cidrs /\ enabled \in SUBSET rows
    /\ added \in [Cidrs -> Times] /\ lifted \in SUBSET OptOuts
    /\ up \in BOOLEAN /\ connected \in BOOLEAN /\ dbUp \in BOOLEAN
    /\ seeding \in {"count", "insert", "done"} /\ left \in SUBSET Seed
    /\ cached \in SUBSET Cidrs /\ fetchedAt \in Times
    /\ reading \in BOOLEAN /\ asker \in SUBSET Agents
    /\ found \in SUBSET Cidrs /\ readAt \in Times
    /\ late \in 0 .. restarts + failures
    /\ apc \in [Agents -> {"ready", "waiting", "answered", "scanning"}]
    /\ nets \in [Agents -> SUBSET Cidrs]
    /\ blNext \in [Agents -> 0 .. MaxClock + TTL + Retry]
    /\ sent \in [Agents -> Times]
    /\ reply \in [Agents -> SUBSET Cidrs]
    /\ batch \in [Agents -> SUBSET Addresses]
    /\ drawn \in [Agents -> Times]
    /\ edits \in 0 .. MaxEdits /\ crashes \in 0 .. MaxCrashes
    /\ restarts \in 0 .. MaxRestarts /\ outages \in 0 .. MaxOutages
    /\ failures \in 0 .. MaxFailures

Init ==
    /\ clock = 0
    /\ rows = InitialRows /\ enabled = InitialRows
    /\ added = [c \in Cidrs |-> 0] /\ lifted = {}
    /\ up = TRUE /\ connected = TRUE /\ dbUp = TRUE
    /\ seeding = "count" /\ left = {}
    /\ cached = {} /\ fetchedAt = 0
    /\ reading = FALSE /\ asker = {} /\ found = {} /\ readAt = 0 /\ late = 0
    /\ apc = [a \in Agents |-> "ready"]
    /\ nets = [a \in Agents |-> Seed]
    /\ blNext = [a \in Agents |-> 0]
    /\ sent = [a \in Agents |-> 0]
    /\ reply = [a \in Agents |-> {}]
    /\ batch = [a \in Agents |-> {}]
    /\ drawn = [a \in Agents |-> 0]
    /\ edits = 0 /\ crashes = 0 /\ restarts = 0 /\ outages = 0 /\ failures = 0

----------------------------------------------------------------------------
(* SeedBlacklist, in a goroutine of the collector. *)

\* A collection with any row, even a disabled one, is left as it is; so is one
\* that does not answer.
SeedCount ==
    /\ up /\ seeding = "count"
    /\ IF connected /\ dbUp /\ rows = {}
       THEN seeding' = "insert" /\ left' = Seed
       ELSE seeding' = "done" /\ UNCHANGED left
    /\ UNCHANGED <<clock, dbVars, procVars, dbUp, cacheVars, readVars, agentVars,
                   bounds>>

\* One upsert of the unordered bulk write.
SeedInsert ==
    /\ up /\ seeding = "insert" /\ dbUp
    /\ \E c \in left :
         /\ rows' = rows \cup {c} /\ enabled' = enabled \cup {c}
         /\ added' = [added EXCEPT ![c] = clock]
         /\ left' = left \ {c}
         /\ seeding' = IF left = {c} THEN "done" ELSE "insert"
    /\ UNCHANGED <<clock, lifted, procVars, dbUp, cacheVars, readVars, agentVars,
                   bounds>>

\* The count or the bulk write ends in an error: nothing tries again.
SeedFails ==
    /\ up /\ seeding \in {"count", "insert"}
    /\ seeding' = "done"
    /\ UNCHANGED <<clock, dbVars, procVars, dbUp, left, cacheVars, readVars, agentVars,
                   bounds>>

----------------------------------------------------------------------------
(* BlacklistCache.Get, under its mutex: at once from a fresh cache, else with
   MongoDB's answer as one step and Get's return, which stamps the cache, as
   another.  (To take the lock only when MongoDB answers makes no difference to
   those who wait for it.)  The rest of handleBlacklist writes the answer. *)

\* Mutant: the cache is never refreshed.
Fresh_Forever == cached # {}
Fresh == cached # {} /\ clock - fetchedAt < TTL

\* ReadBlacklistCIDRs finds CIDRs and no error.
Readable == connected /\ dbUp /\ enabled # {}

GetCached(a) ==
    /\ up /\ ~reading /\ apc[a] = "waiting" /\ Fresh
    /\ reply' = [reply EXCEPT ![a] = cached]
    /\ apc' = [apc EXCEPT ![a] = "answered"]
    /\ UNCHANGED <<clock, dbVars, procVars, dbUp, seedVars, cacheVars, readVars,
                   nets, blNext, sent, batch, drawn, bounds>>

\* MongoDB answers, for an agent or for a request that its agent has left.
ReadFor(agents) ==
    /\ up /\ ~reading /\ ~Fresh
    /\ reading' = TRUE /\ asker' = agents
    /\ found' = IF Readable THEN enabled ELSE {}
    /\ readAt' = clock
    /\ UNCHANGED <<clock, dbVars, procVars, dbUp, seedVars, cacheVars, agentVars,
                   bounds>>

GetReads(a) == apc[a] = "waiting" /\ ReadFor({a}) /\ UNCHANGED late

LateRead == late > 0 /\ ReadFor({}) /\ late' = late - 1

\* What the read returns: an outage or the agent's leaving may make it fail yet.
Returned == {found} \cup IF dbUp /\ asker # {} THEN {} ELSE {{}}

\* Mutant: without the database, no exclusions at all.
Answer_NoFallback(list) == IF list # {} THEN list ELSE cached
\* Mutant: the seed, although a stale list is at hand.
Answer_SeedFirst(list) == IF list # {} THEN list ELSE Seed
Answer(list) ==
    IF list # {} THEN list ELSE IF cached # {} THEN cached ELSE Seed

\* Get returns and lets go of the mutex.
GetReturns ==
    /\ up /\ reading
    /\ reading' = FALSE /\ asker' = {} /\ found' = {} /\ readAt' = 0
    /\ \E list \in Returned :
         /\ IF list # {} THEN cached' = list /\ fetchedAt' = clock
            ELSE UNCHANGED cacheVars
         /\ reply' = [a \in Agents |-> IF a \in asker THEN Answer(list) ELSE reply[a]]
    /\ apc' = [a \in Agents |-> IF a \in asker THEN "answered" ELSE apc[a]]
    /\ UNCHANGED <<clock, dbVars, procVars, dbUp, seedVars, late, nets,
                   blNext, sent, batch, drawn, bounds>>

----------------------------------------------------------------------------
(* An agent: refreshBlacklist, RandomBatch, scan, again. *)

\* RandomIP: outside the two guarded blocks and the list.
Allowed(list) == (Addresses \ Guarded) \ list

\* RandomBatch; the size of a batch makes no difference to what may be in it.
\* With no address allowed it never returns.
Draw(a, list) ==
    \E t \in Allowed(list) :
      /\ batch' = [batch EXCEPT ![a] = {t}]
      /\ drawn' = [drawn EXCEPT ![a] = clock]
      /\ apc' = [apc EXCEPT ![a] = "scanning"]

\* The list is due: FetchBlacklist.
Fetch(a) ==
    /\ apc[a] = "ready" /\ clock >= blNext[a]
    /\ sent' = [sent EXCEPT ![a] = clock]
    /\ apc' = [apc EXCEPT ![a] = "waiting"]
    /\ UNCHANGED <<clock, dbVars, procVars, dbUp, seedVars, cacheVars, readVars,
                   nets, blNext, reply, batch, drawn, bounds>>

\* When the list is due again.
Due == clock + TTL

RequestOver(a) ==
    sent' = [sent EXCEPT ![a] = 0] /\ reply' = [reply EXCEPT ![a] = {}]

\* The answer replaces the list, and the batch is drawn.
Refreshed(a) ==
    /\ apc[a] = "answered"
    /\ nets' = [nets EXCEPT ![a] = reply[a]]
    /\ blNext' = [blNext EXCEPT ![a] = Due]
    /\ Draw(a, reply[a])
    /\ RequestOver(a)
    /\ UNCHANGED <<clock, dbVars, procVars, dbUp, seedVars, cacheVars, readVars,
                   bounds>>

\* The agent no longer waits: its read goes on for nobody, and its request may
\* be at the mutex still.
Leaves(a) ==
    /\ asker' = asker \ {a}
    /\ late' \in IF apc[a] = "waiting" /\ a \notin asker THEN {late, late + 1} ELSE {late}
    /\ RequestOver(a)
    /\ UNCHANGED <<reading, found, readAt>>

\* No answer, or not in time: "keeping current".
RefreshFails(a) ==
    /\ apc[a] \in {"waiting", "answered"}
    /\ failures < MaxFailures
    /\ failures' = failures + 1
    /\ blNext' = [blNext EXCEPT ![a] = clock + Retry]
    /\ Draw(a, nets[a])
    /\ Leaves(a)
    /\ UNCHANGED <<clock, dbVars, procVars, dbUp, seedVars, cacheVars, nets,
                   edits, crashes, restarts, outages>>

\* The list is not due yet.
DrawBatch(a) ==
    /\ apc[a] = "ready" /\ clock < blNext[a]
    /\ Draw(a, nets[a])
    /\ UNCHANGED <<clock, dbVars, procVars, dbUp, seedVars, cacheVars, readVars,
                   nets, blNext, sent, reply, bounds>>

\* nmap, capture and submission end, well or badly.
FinishBatch(a) ==
    /\ apc[a] = "scanning"
    /\ batch' = [batch EXCEPT ![a] = {}] /\ drawn' = [drawn EXCEPT ![a] = 0]
    /\ apc' = [apc EXCEPT ![a] = "ready"]
    /\ UNCHANGED <<clock, dbVars, procVars, dbUp, seedVars, cacheVars, readVars,
                   nets, blNext, sent, reply, bounds>>

RestartAgent(a) ==
    /\ restarts < MaxRestarts
    /\ restarts' = restarts + 1
    /\ apc' = [apc EXCEPT ![a] = "ready"]
    /\ nets' = [nets EXCEPT ![a] = Seed]
    /\ blNext' = [blNext EXCEPT ![a] = 0]
    /\ batch' = [batch EXCEPT ![a] = {}] /\ drawn' = [drawn EXCEPT ![a] = 0]
    /\ Leaves(a)
    /\ UNCHANGED <<clock, dbVars, procVars, dbUp, seedVars, cacheVars, edits,
                   crashes, outages, failures>>

----------------------------------------------------------------------------
(* Operators, the process, MongoDB and time. *)

Exclude(c) ==
    /\ edits < MaxEdits /\ dbUp /\ c \notin enabled
    /\ edits' = edits + 1
    /\ rows' = rows \cup {c} /\ enabled' = enabled \cup {c}
    /\ added' = [added EXCEPT ![c] = clock]
    /\ UNCHANGED <<clock, lifted, procVars, dbUp, seedVars, cacheVars, readVars,
                   agentVars, crashes, restarts, outages, failures>>

Disable(c) ==
    /\ edits < MaxEdits /\ dbUp /\ c \in enabled
    /\ edits' = edits + 1
    /\ enabled' = enabled \ {c} /\ lifted' = lifted \cup {c}
    /\ UNCHANGED <<clock, rows, added, procVars, dbUp, seedVars, cacheVars,
                   readVars, agentVars, crashes, restarts, outages, failures>>

\* (A request the crash cuts off fails, or may as well have come after it.)
Crash ==
    /\ up /\ crashes < MaxCrashes
    /\ crashes' = crashes + 1
    /\ up' = FALSE /\ connected' = FALSE
    /\ seeding' = "done" /\ left' = {}
    /\ cached' = {} /\ fetchedAt' = 0
    /\ reading' = FALSE /\ asker' = {} /\ found' = {} /\ readAt' = 0 /\ late' = 0
    /\ UNCHANGED <<clock, dbVars, dbUp, agentVars, edits, restarts, outages, failures>>

\* Connect, then the seeding goroutine.
Start ==
    /\ ~up
    /\ up' = TRUE /\ connected' = dbUp
    /\ seeding' = "count"
    /\ UNCHANGED <<clock, dbVars, dbUp, left, cacheVars, readVars, agentVars,
                   bounds>>

DbDown ==
    /\ dbUp /\ outages < MaxOutages
    /\ dbUp' = FALSE /\ outages' = outages + 1
    /\ UNCHANGED <<clock, dbVars, procVars, seedVars, cacheVars, readVars, agentVars,
                   edits, crashes, restarts, failures>>

DbRecover ==
    /\ ~dbUp
    /\ dbUp' = TRUE
    /\ UNCHANGED <<clock, dbVars, procVars, seedVars, cacheVars, readVars, agentVars,
                   bounds>>

\* A refresh ends before the client's timeout passes, a read within ReadTime.
Tick ==
    /\ clock < MaxClock
    /\ \A a \in Agents :
         apc[a] \in {"waiting", "answered"} => clock - sent[a] < Timeout
    /\ reading => clock - readAt < ReadTime
    /\ clock' = clock + 1
    /\ UNCHANGED <<dbVars, procVars, dbUp, seedVars, cacheVars, readVars, agentVars,
                   bounds>>

----------------------------------------------------------------------------
Agent(a) ==
    \/ Fetch(a) \/ GetCached(a) \/ GetReads(a) \/ Refreshed(a) \/ RefreshFails(a)
    \/ DrawBatch(a) \/ FinishBatch(a) \/ RestartAgent(a)

Collector ==
    \/ SeedCount \/ SeedInsert \/ SeedFails \/ LateRead \/ GetReturns
    \/ Crash \/ Start

Environment ==
    \/ \E c \in OptOuts : Exclude(c) \/ Disable(c)
    \/ DbDown \/ DbRecover \/ Tick

Next == (\E a \in Agents : Agent(a)) \/ Collector \/ Environment

Spec == Init /\ [][Next]_vars

----------------------------------------------------------------------------
(* Properties. *)

\* "Seed the blacklist so the first batch is safe": no agent ever targets a
\* reserved range.
ReservedNeverScanned == \A a \in Agents : batch[a] \cap Seed = {}

\* MongoDB has been up and every refresh has been answered so far.
Undisturbed == outages = 0 /\ failures = 0

\* "agents stop capturing it within two days": while MongoDB and the network
\* are up, an exclusion in force - an operator's opt-out, or a row of the seed,
\* which the list is served without while it is being inserted - for longer than
\* a read, the collector's cache, an answer and the agent's list last is in no
\* batch.
ExclusionHonored ==
    Undisturbed =>
      \A a \in Agents : \A c \in enabled :
        c \in batch[a] => drawn[a] < added[c] + ReadTime + 2 * TTL + Timeout

\* In this step an agent loses from its list an opt-out that operators enabled
\* once and for good.
Forgets ==
    \E a \in Agents : \E c \in (OptOuts \cap enabled) \ lifted :
      c \in nets[a] /\ c \notin nets'[a]

\* "permanently": no running agent forgets an opt-out while its collector has
\* not stopped: outages of MongoDB and failed refreshes alone lose nothing.
\* (One that is disabled and enabled again may be lost with a list read in
\* between, which an outage keeps in the cache.)
OptOutOutlivesOutage ==
    [][crashes = 0 /\ restarts' = restarts => ~Forgets]_vars
=============================================================================
