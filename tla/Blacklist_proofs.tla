-------------------------- MODULE Blacklist_proofs --------------------------
(***************************************************************************)
(* What an agent may target, for any lists, any number of agents and any   *)
(* bounds.  Reserved ranges stay out of every batch because every list on  *)
(* the way to it holds them: the collection once it is seeded, the cache,  *)
(* answers and the agents' own lists.  An exclusion takes effect after a   *)
(* time that is followed along the same way: a cache without it was read   *)
(* before it was entered and stamped at most ReadTime later, so an answer  *)
(* without it was asked for at most a TTL after that, so a list without it *)
(* is due at most a TTL after its arrival.                                 *)
(***************************************************************************)
EXTENDS Blacklist, TLAPS

\* The initial state has the types TypeOK gives.
LEMMA InitTypeOK == Init => TypeOK
  <1> SUFFICES ASSUME Init PROVE TypeOK
    OBVIOUS
  <1>1. clock \in Times /\ fetchedAt \in Times
    BY BoundAssumption DEF Init, Times
  <1>2. /\ rows \in SUBSET Cidrs /\ enabled \in SUBSET rows /\ cached \in SUBSET Cidrs
        /\ left \in SUBSET Seed /\ added \in [Cidrs -> Times]
        /\ found \in SUBSET Cidrs /\ readAt \in Times /\ late \in 0 .. restarts + failures
    BY <1>1, ListAssumption DEF Init
  <1>3. /\ nets \in [Agents -> SUBSET Cidrs] /\ reply \in [Agents -> SUBSET Cidrs]
        /\ batch \in [Agents -> SUBSET Addresses]
    BY DEF Init, Cidrs
  <1>4. /\ sent \in [Agents -> Times] /\ drawn \in [Agents -> Times]
        /\ blNext \in [Agents -> 0 .. MaxClock + TTL + Retry]
    BY <1>1, BoundAssumption, TimeAssumption DEF Init
  <1>5. /\ edits \in 0 .. MaxEdits /\ crashes \in 0 .. MaxCrashes
        /\ restarts \in 0 .. MaxRestarts /\ outages \in 0 .. MaxOutages
        /\ failures \in 0 .. MaxFailures
    BY BoundAssumption DEF Init
  <1> QED
    BY <1>1, <1>2, <1>3, <1>4, <1>5 DEF Init, TypeOK

\* Drawing a batch from a list of CIDRs keeps the agent's types; its target is
\* allowed by the list.
LEMMA DrawnBatch ==
  ASSUME TypeOK, NEW a \in Agents, NEW list, Draw(a, list)
  PROVE  /\ batch' \in [Agents -> SUBSET Addresses]
         /\ drawn' \in [Agents -> Times]
         /\ apc' \in [Agents -> {"ready", "waiting", "answered", "scanning"}]
         /\ drawn'[a] = clock /\ apc'[a] = "scanning"
         /\ batch'[a] \cap list = {}
         /\ \A b \in Agents \ {a} :
              batch'[b] = batch[b] /\ drawn'[b] = drawn[b] /\ apc'[b] = apc[b]
  BY DEF Draw, Allowed, TypeOK

\* The collector's answer is a set of CIDRs.
LEMMA AnswerType ==
  ASSUME TypeOK
  PROVE  \A list \in Returned : list \in SUBSET Cidrs /\ Answer(list) \in SUBSET Cidrs
  BY DEF TypeOK, Returned, Answer, Cidrs

\* An agent that leaves keeps the types of the read and of its request.
LEMMA LeavesType ==
  ASSUME TypeOK, NEW a \in Agents, Leaves(a)
  PROVE  /\ reading' \in BOOLEAN /\ asker' \in SUBSET Agents
         /\ found' \in SUBSET Cidrs /\ readAt' \in Times
         /\ late' \in 0 .. restarts + failures + 1
         /\ sent' \in [Agents -> Times] /\ reply' \in [Agents -> SUBSET Cidrs]
  <1>1. restarts \in Nat /\ failures \in Nat
    BY BoundAssumption DEF TypeOK
  <1>2. late \in 0 .. restarts + failures /\ late' \in {late, late + 1}
    BY DEF TypeOK, Leaves
  <1>3. late' \in 0 .. restarts + failures + 1
    BY <1>1, <1>2
  <1>4. 0 \in Times
    BY BoundAssumption DEF Times
  <1> QED
    BY <1>3, <1>4 DEF TypeOK, Leaves, RequestOver

\* Every step keeps the types.
LEMMA NextTypeOK ==
  ASSUME TypeOK, [Next]_vars
  PROVE  TypeOK'
  <1>1. ASSUME NEW a \in Agents, Fetch(a) PROVE TypeOK'
    BY <1>1 DEF Fetch, TypeOK, dbVars, procVars, seedVars, cacheVars, readVars, agentVars, bounds
  <1>2. ASSUME NEW a \in Agents, GetCached(a) PROVE TypeOK'
    BY <1>2 DEF GetCached, TypeOK, dbVars, procVars, seedVars, cacheVars, readVars, bounds
  <1>19. ASSUME NEW agents \in SUBSET Agents, ReadFor(agents),
                late' \in 0 .. restarts + failures
         PROVE  TypeOK'
    BY <1>19 DEF ReadFor, TypeOK, dbVars, procVars, seedVars, cacheVars, readVars, agentVars, bounds
  <1>20. ASSUME NEW a \in Agents, GetReads(a) PROVE TypeOK'
    BY <1>19, <1>20 DEF GetReads, TypeOK
  <1>21. ASSUME LateRead PROVE TypeOK'
    <2>1. restarts \in Nat /\ failures \in Nat
      BY BoundAssumption DEF TypeOK
    <2>2. late' \in 0 .. restarts + failures
      BY <1>21, <2>1 DEF LateRead, TypeOK
    <2> QED
      BY <1>19, <1>21, <2>2 DEF LateRead
  <1>22. ASSUME GetReturns PROVE TypeOK'
    <2>1. reply' \in [Agents -> SUBSET Cidrs]
      BY <1>22, AnswerType DEF GetReturns, TypeOK
    <2>2. cached' \in SUBSET Cidrs /\ fetchedAt' \in Times
      BY <1>22, AnswerType DEF GetReturns, TypeOK, cacheVars
    <2>3. apc' \in [Agents -> {"ready", "waiting", "answered", "scanning"}]
      BY <1>22 DEF GetReturns, TypeOK
    <2>4. 0 \in Times
      BY BoundAssumption DEF Times
    <2> QED
      BY <1>22, <2>1, <2>2, <2>3, <2>4
      DEF GetReturns, TypeOK, dbVars, procVars, seedVars, bounds
  <1>3. ASSUME NEW a \in Agents, Refreshed(a) PROVE TypeOK'
    <2>1. nets' \in [Agents -> SUBSET Cidrs]
      BY <1>3 DEF Refreshed, TypeOK
    <2>2. Due \in 0 .. MaxClock + TTL + Retry
      BY BoundAssumption, TimeAssumption DEF TypeOK, Times, Due
    <2>3. blNext' \in [Agents -> 0 .. MaxClock + TTL + Retry]
      BY <1>3, <2>2 DEF Refreshed, TypeOK
    <2>4. Draw(a, reply[a])
      BY <1>3 DEF Refreshed
    <2>5. sent' \in [Agents -> Times] /\ reply' \in [Agents -> SUBSET Cidrs]
      BY <1>3, BoundAssumption DEF Refreshed, RequestOver, TypeOK, Times
    <2> QED
      BY <1>3, <2>1, <2>3, <2>4, <2>5, DrawnBatch DEF Refreshed, TypeOK, dbVars, procVars, seedVars, cacheVars, readVars, agentVars, bounds
  <1>4. ASSUME NEW a \in Agents, RefreshFails(a) PROVE TypeOK'
    <2>1. failures' \in 0 .. MaxFailures
      BY <1>4, BoundAssumption DEF RefreshFails, TypeOK
    <2>2. clock + Retry \in 0 .. MaxClock + TTL + Retry
      BY BoundAssumption, TimeAssumption DEF TypeOK, Times
    <2>3. blNext' \in [Agents -> 0 .. MaxClock + TTL + Retry]
      BY <1>4, <2>2 DEF RefreshFails, TypeOK
    <2>4. Draw(a, nets[a]) /\ Leaves(a)
      BY <1>4 DEF RefreshFails
    <2>5. failures' = failures + 1 /\ restarts' = restarts
          /\ restarts \in Nat /\ failures \in Nat
      BY <1>4, BoundAssumption DEF RefreshFails, TypeOK
    <2>6. late' \in 0 .. restarts' + failures'
      BY <2>4, <2>5, LeavesType
    <2> QED
      BY <1>4, <2>1, <2>3, <2>4, <2>6, DrawnBatch, LeavesType DEF RefreshFails, TypeOK, dbVars, procVars, seedVars, cacheVars, readVars, agentVars, bounds
  <1>5. ASSUME NEW a \in Agents, DrawBatch(a) PROVE TypeOK'
    <2>1. Draw(a, nets[a])
      BY <1>5 DEF DrawBatch
    <2> QED
      BY <1>5, <2>1, DrawnBatch DEF DrawBatch, TypeOK, dbVars, procVars, seedVars, cacheVars, readVars, agentVars, bounds
  <1>6. ASSUME NEW a \in Agents, FinishBatch(a) PROVE TypeOK'
    BY <1>6, BoundAssumption DEF Times, FinishBatch, TypeOK, dbVars, procVars, seedVars, cacheVars, readVars, agentVars, bounds
  <1>7. ASSUME NEW a \in Agents, RestartAgent(a) PROVE TypeOK'
    <2>1. restarts' \in 0 .. MaxRestarts
      BY <1>7, BoundAssumption DEF RestartAgent, TypeOK
    <2>2. nets' \in [Agents -> SUBSET Cidrs]
      BY <1>7 DEF RestartAgent, TypeOK, Cidrs
    <2>3. blNext' \in [Agents -> 0 .. MaxClock + TTL + Retry]
      BY <1>7, BoundAssumption, TimeAssumption DEF RestartAgent, TypeOK
    <2>4. failures' = failures /\ restarts' = restarts + 1 /\ Leaves(a)
          /\ restarts \in Nat /\ failures \in Nat
      BY <1>7, BoundAssumption DEF RestartAgent, TypeOK
    <2>5. late' \in 0 .. restarts' + failures'
      BY <2>4, LeavesType
    <2>6. drawn' \in [Agents -> Times]
      BY <1>7, BoundAssumption DEF RestartAgent, TypeOK, Times
    <2> QED
      BY <1>7, <2>1, <2>2, <2>3, <2>4, <2>5, <2>6, LeavesType DEF RestartAgent, TypeOK, dbVars, procVars, seedVars, cacheVars, readVars, agentVars, bounds
  <1>8. ASSUME SeedCount PROVE TypeOK'
    BY <1>8 DEF SeedCount, TypeOK, dbVars, procVars, seedVars, cacheVars, readVars, agentVars, bounds
  <1>9. ASSUME SeedInsert PROVE TypeOK'
    <2>1. rows' \in SUBSET Cidrs /\ enabled' \in SUBSET rows' /\ left' \in SUBSET Seed
      BY <1>9 DEF SeedInsert, TypeOK, Cidrs
    <2>2. seeding' \in {"count", "insert", "done"}
      BY <1>9 DEF SeedInsert
    <2>3. added' \in [Cidrs -> Times]
      BY <1>9 DEF SeedInsert, TypeOK, Cidrs
    <2> QED
      BY <1>9, <2>1, <2>2, <2>3 DEF SeedInsert, TypeOK, dbVars, procVars, seedVars, cacheVars, readVars, agentVars, bounds
  <1>10. ASSUME SeedFails PROVE TypeOK'
    BY <1>10 DEF SeedFails, TypeOK, dbVars, procVars, seedVars, cacheVars, readVars, agentVars, bounds
  <1>11. ASSUME Crash PROVE TypeOK'
    <2>1. crashes' \in 0 .. MaxCrashes
      BY <1>11, BoundAssumption DEF Crash, TypeOK
    <2>2. 0 \in Times /\ 0 \in 0 .. restarts + failures
      BY BoundAssumption DEF TypeOK, Times
    <2> QED
      BY <1>11, <2>1, <2>2 DEF Crash, TypeOK, dbVars, procVars, seedVars, cacheVars, readVars, agentVars, bounds
  <1>12. ASSUME Start PROVE TypeOK'
    BY <1>12 DEF Start, TypeOK, dbVars, procVars, seedVars, cacheVars, readVars, agentVars, bounds
  <1>13. ASSUME NEW c \in OptOuts, Exclude(c) PROVE TypeOK'
    <2>1. edits' \in 0 .. MaxEdits
      BY <1>13, BoundAssumption DEF Exclude, TypeOK
    <2>2. rows' \in SUBSET Cidrs /\ enabled' \in SUBSET rows'
      BY <1>13 DEF Exclude, TypeOK, Cidrs
    <2>3. added' \in [Cidrs -> Times]
      BY <1>13 DEF Exclude, TypeOK, Cidrs
    <2> QED
      BY <1>13, <2>1, <2>2, <2>3 DEF Exclude, TypeOK, dbVars, procVars, seedVars, cacheVars, readVars, agentVars, bounds
  <1>14. ASSUME NEW c \in OptOuts, Disable(c) PROVE TypeOK'
    <2>1. edits' \in 0 .. MaxEdits
      BY <1>14, BoundAssumption DEF Disable, TypeOK
    <2>2. enabled' \in SUBSET rows'
      BY <1>14 DEF Disable, TypeOK
    <2> QED
      BY <1>14, <2>1, <2>2 DEF Disable, TypeOK, dbVars, procVars, seedVars, cacheVars, readVars, agentVars, bounds
  <1>15. ASSUME DbDown PROVE TypeOK'
    <2>1. outages' \in 0 .. MaxOutages
      BY <1>15, BoundAssumption DEF DbDown, TypeOK
    <2> QED
      BY <1>15, <2>1 DEF DbDown, TypeOK, dbVars, procVars, seedVars, cacheVars, readVars, agentVars, bounds
  <1>16. ASSUME DbRecover PROVE TypeOK'
    BY <1>16 DEF DbRecover, TypeOK, dbVars, procVars, seedVars, cacheVars, readVars, agentVars, bounds
  <1>17. ASSUME Tick PROVE TypeOK'
    <2>1. clock' \in Times
      BY <1>17, BoundAssumption DEF Tick, TypeOK, Times
    <2> QED
      BY <1>17, <2>1 DEF Tick, TypeOK, dbVars, procVars, seedVars, cacheVars, readVars, agentVars, bounds
  <1>18. ASSUME UNCHANGED vars PROVE TypeOK'
    BY <1>18 DEF vars, TypeOK, dbVars, procVars, seedVars, cacheVars, readVars, agentVars, bounds
  <1> QED
    BY <1>1, <1>2, <1>3, <1>4, <1>5, <1>6, <1>7, <1>8, <1>9,
       <1>10, <1>11, <1>12, <1>13, <1>14, <1>15, <1>16, <1>17, <1>18,
       <1>20, <1>21, <1>22
    DEF Next, Agent, Collector, Environment

\* BlacklistCache, SeedBlacklist and the agents keep their types.
THEOREM TypeCorrect == Spec => []TypeOK
  BY InitTypeOK, NextTypeOK, PTL DEF Spec

----------------------------------------------------------------------------
\* Only the agents' own steps touch what they scan.
LEMMA BatchSteps ==
  ASSUME TypeOK, [Next]_vars, NEW b \in Agents
  PROVE  \/ batch'[b] = batch[b] /\ drawn'[b] = drawn[b]
         \/ batch'[b] = {}
         \/ Refreshed(b) \/ RefreshFails(b) \/ DrawBatch(b)
  <1>1. ASSUME NEW a \in Agents, Refreshed(a) \/ RefreshFails(a) \/ DrawBatch(a), a # b
        PROVE  batch'[b] = batch[b] /\ drawn'[b] = drawn[b]
    <2>1. \E list : Draw(a, list)
      BY <1>1 DEF Refreshed, RefreshFails, DrawBatch
    <2> QED
      BY <1>1, <2>1, DrawnBatch
  <1>2. ASSUME NEW a \in Agents, FinishBatch(a) \/ RestartAgent(a)
        PROVE  batch'[b] = {} \/ (batch'[b] = batch[b] /\ drawn'[b] = drawn[b])
    BY <1>2 DEF FinishBatch, RestartAgent, TypeOK
  <1>3. ASSUME \/ \E a \in Agents : Fetch(a) \/ GetCached(a) \/ GetReads(a)
               \/ Collector \/ Environment \/ UNCHANGED vars
        PROVE  batch' = batch /\ drawn' = drawn
    BY <1>3 DEF Fetch, GetCached, GetReads, ReadFor, Collector, Environment, SeedCount,
                SeedInsert, SeedFails, LateRead, GetReturns, Crash, Start, Exclude,
                Disable, DbDown, DbRecover, Tick, vars, agentVars
  <1> QED
    BY <1>1, <1>2, <1>3 DEF Next, Agent

\* An answer on its way was on its way before, or is Get's.
LEMMA ReplySteps ==
  ASSUME TypeOK, [Next]_vars, NEW b \in Agents, apc'[b] = "answered"
  PROVE  \/ apc[b] = "answered" /\ reply'[b] = reply[b]
         \/ GetCached(b)
         \/ GetReturns /\ b \in asker
  <1>1. ASSUME NEW a \in Agents, Refreshed(a) \/ RefreshFails(a) \/ DrawBatch(a)
        PROVE  apc[b] = "answered" /\ reply'[b] = reply[b]
    <2>1. PICK list : Draw(a, list)
      BY <1>1 DEF Refreshed, RefreshFails, DrawBatch
    <2>2. a # b /\ apc'[b] = apc[b]
      BY <2>1, DrawnBatch
    <2>3. reply'[b] = reply[b]
      BY <1>1, <2>2 DEF Refreshed, RefreshFails, DrawBatch, Leaves, RequestOver, TypeOK
    <2> QED
      BY <2>2, <2>3
  <1>2. ASSUME NEW a \in Agents, Fetch(a) \/ GetCached(a) \/ FinishBatch(a) \/ RestartAgent(a)
        PROVE  GetCached(b) \/ (apc[b] = "answered" /\ reply'[b] = reply[b])
    BY <1>2 DEF Fetch, GetCached, FinishBatch, RestartAgent, Leaves, RequestOver, TypeOK
  <1>3. ASSUME GetReturns
        PROVE  b \in asker \/ (apc[b] = "answered" /\ reply'[b] = reply[b])
    BY <1>3 DEF GetReturns
  <1>4. ASSUME \/ \E a \in Agents : GetReads(a)
               \/ SeedCount \/ SeedInsert \/ SeedFails \/ LateRead \/ Crash \/ Start
               \/ Environment \/ UNCHANGED vars
        PROVE  apc' = apc /\ reply' = reply
    BY <1>4 DEF GetReads, ReadFor, Environment, SeedCount, SeedInsert, SeedFails,
                LateRead, Crash, Start, Exclude, Disable, DbDown, DbRecover, Tick,
                vars, agentVars
  <1> QED
    BY <1>1, <1>2, <1>3, <1>4 DEF Next, Agent, Collector

\* An agent's list is the one it had, the built-in one or an answer.
LEMMA ListSteps ==
  ASSUME TypeOK, [Next]_vars, NEW b \in Agents
  PROVE  \/ nets'[b] = nets[b] \/ nets'[b] = Seed
         \/ apc[b] = "answered" /\ nets'[b] = reply[b] /\ apc'[b] # "answered"
  <1>1. ASSUME NEW a \in Agents, Refreshed(a)
        PROVE  \/ nets'[b] = nets[b]
               \/ apc[b] = "answered" /\ nets'[b] = reply[b] /\ apc'[b] # "answered"
    BY <1>1, DrawnBatch DEF Refreshed, TypeOK
  <1>2. ASSUME NEW a \in Agents, RestartAgent(a)
        PROVE  nets'[b] = nets[b] \/ nets'[b] = Seed
    BY <1>2 DEF RestartAgent, TypeOK
  <1>3. ASSUME \/ \E a \in Agents : \/ Fetch(a) \/ GetCached(a) \/ GetReads(a)
                                    \/ RefreshFails(a) \/ DrawBatch(a) \/ FinishBatch(a)
               \/ Collector \/ Environment \/ UNCHANGED vars
        PROVE  nets' = nets
    BY <1>3 DEF Fetch, GetCached, GetReads, ReadFor, RefreshFails, DrawBatch, FinishBatch,
                Collector, Environment, SeedCount, SeedInsert, SeedFails, LateRead,
                GetReturns, Crash, Start, Exclude, Disable, DbDown, DbRecover, Tick,
                vars, agentVars
  <1> QED
    BY <1>1, <1>2, <1>3 DEF Next, Agent

\* The cache is what it was, lost with the process, or what a read returns; what
\* MongoDB has answered is what it was, nothing, or the collection as it is.
LEMMA CacheSteps ==
  ASSUME TypeOK, [Next]_vars
  PROVE  /\ \/ UNCHANGED cacheVars
            \/ Crash /\ cached' = {}
            \/ GetReturns /\ cached' = found /\ cached' # {} /\ fetchedAt' = clock
         /\ \/ UNCHANGED <<found, reading, readAt>>
            \/ reading' = FALSE /\ found' = {}
            \/ /\ reading' = TRUE /\ readAt' = clock /\ up
               /\ found' = IF Readable THEN enabled ELSE {}
               /\ UNCHANGED <<cacheVars, enabled>>
  <1>1. CASE GetReturns
    BY <1>1 DEF GetReturns, Returned
  <1>2. CASE Crash
    BY <1>2 DEF Crash
  <1>3. CASE LateRead \/ \E a \in Agents : GetReads(a)
    BY <1>3 DEF LateRead, GetReads, ReadFor, dbVars
  <1>4. CASE \/ \E a \in Agents : \/ Fetch(a) \/ GetCached(a) \/ Refreshed(a)
                                  \/ RefreshFails(a) \/ DrawBatch(a) \/ FinishBatch(a)
                                  \/ RestartAgent(a)
             \/ SeedCount \/ SeedInsert \/ SeedFails \/ Start
             \/ Environment \/ UNCHANGED vars
    BY <1>4 DEF Fetch, GetCached, Refreshed, RefreshFails, DrawBatch, FinishBatch,
                RestartAgent, Leaves, Environment, SeedCount, SeedInsert, SeedFails,
                Start, Exclude, Disable, DbDown, DbRecover, Tick, vars, readVars, cacheVars
  <1> QED
    BY <1>1, <1>2, <1>3, <1>4 DEF Next, Agent, Collector

----------------------------------------------------------------------------
\* Every list between the collection and a batch holds the reserved ranges.
ReservedInv ==
    /\ Seed \subseteq enabled
    /\ cached = {} \/ Seed \subseteq cached
    /\ found = {} \/ Seed \subseteq found
    /\ \A a \in Agents :
         /\ apc[a] = "answered" => Seed \subseteq reply[a]
         /\ Seed \subseteq nets[a]
         /\ batch[a] \cap Seed = {}

LEMMA NextReserved ==
  ASSUME TypeOK, ReservedInv, [Next]_vars
  PROVE  ReservedInv'
  <1> USE DEF ReservedInv
  <1>1. \A list \in Returned : Seed \subseteq Answer(list)
    BY DEF Answer, Returned
  <1>2. Seed \subseteq enabled'
    <2>1. CASE UNCHANGED enabled
      BY <2>1
    <2>2. CASE SeedInsert
      BY <2>2 DEF SeedInsert
    <2>3. CASE \E c \in OptOuts : Exclude(c) \/ Disable(c)
      BY <2>3, ListAssumption DEF Exclude, Disable
    <2>4. UNCHANGED enabled \/ SeedInsert \/ \E c \in OptOuts : Exclude(c) \/ Disable(c)
      BY DEF Next, Agent, Collector, Environment, Fetch, GetCached, GetReads, ReadFor,
             Refreshed, RefreshFails, DrawBatch, FinishBatch, RestartAgent, SeedCount,
             SeedFails, LateRead, GetReturns, Crash, Start, DbDown, DbRecover, Tick,
             vars, dbVars
    <2> QED
      BY <2>1, <2>2, <2>3, <2>4
  <1>3. /\ cached' = {} \/ Seed \subseteq cached'
        /\ found' = {} \/ Seed \subseteq found'
    BY CacheSteps DEF cacheVars
  <1>4. ASSUME NEW b \in Agents, apc'[b] = "answered" PROVE Seed \subseteq reply'[b]
    <2>1. CASE apc[b] = "answered" /\ reply'[b] = reply[b]
      BY <2>1
    <2>2. CASE GetCached(b)
      BY <2>2 DEF GetCached, Fresh, TypeOK
    <2>3. CASE GetReturns /\ b \in asker
      BY <1>1, <2>3 DEF GetReturns
    <2> QED
      BY <1>4, <2>1, <2>2, <2>3, ReplySteps
  <1>5. ASSUME NEW b \in Agents PROVE Seed \subseteq nets'[b]
    BY ListSteps
  <1>6. ASSUME NEW b \in Agents PROVE batch'[b] \cap Seed = {}
    <2>1. CASE batch'[b] = batch[b] \/ batch'[b] = {}
      BY <2>1
    <2>2. CASE Refreshed(b)
      BY <2>2, DrawnBatch DEF Refreshed
    <2>3. CASE RefreshFails(b) \/ DrawBatch(b)
      BY <2>3, DrawnBatch DEF RefreshFails, DrawBatch
    <2> QED
      BY <2>1, <2>2, <2>3, BatchSteps
  <1> QED
    BY <1>2, <1>3, <1>4, <1>5, <1>6

\* SeedBlacklist having run once, no list ever loses the reserved ranges.
THEOREM ReservedSafe ==
  ASSUME Seed \subseteq InitialRows
  PROVE  Spec => []ReservedNeverScanned
  <1>1. Init => ReservedInv
    BY DEF Init, ReservedInv
  <1>2. ReservedInv => ReservedNeverScanned
    BY DEF ReservedInv, ReservedNeverScanned
  <1> QED
    BY <1>1, <1>2, NextReserved, TypeCorrect, PTL DEF Spec

----------------------------------------------------------------------------
\* With MongoDB and the network up: who is connected, who waits, and what has
\* happened happened by now.
Healthy ==
    /\ dbUp /\ connected = up
    /\ fetchedAt <= clock
    /\ reading => readAt <= clock /\ clock <= readAt + ReadTime
    /\ \A c \in Cidrs : added[c] <= clock
    /\ \A a \in asker : reading /\ apc[a] = "waiting"
    /\ \A a \in Agents :
         /\ sent[a] <= clock /\ drawn[a] <= clock /\ blNext[a] <= clock + TTL
         /\ apc[a] \in {"waiting", "answered"} => clock <= sent[a] + Timeout

\* How old a list without CIDR c may be, on its way to an agent's batch.
ReadAge(c) == reading => c \in found \/ readAt <= added[c]
CacheAge(c) == cached = {} \/ c \in cached \/ fetchedAt <= added[c] + ReadTime
AnswerAge(c, a) ==
    apc[a] = "answered" => c \in reply[a] \/ sent[a] < added[c] + ReadTime + TTL
ListAge(c, a) == c \in nets[a] \/ blNext[a] < added[c] + ReadTime + 2 * TTL + Timeout
BatchAge(c, a) ==
    c \in batch[a] => drawn[a] < added[c] + ReadTime + 2 * TTL + Timeout

AgentAges(c, a) == AnswerAge(c, a) /\ ListAge(c, a) /\ BatchAge(c, a)
Ages(c) == ReadAge(c) /\ CacheAge(c) /\ \A a \in Agents : AgentAges(c, a)

PromptInv == Healthy /\ \A c \in enabled : Ages(c)

\* The numbers the ages are made of.
LEMMA Numbers ==
  ASSUME TypeOK
  PROVE  /\ TTL \in Nat /\ TTL > 0 /\ Timeout \in Nat /\ ReadTime \in Nat
         /\ clock \in Int /\ fetchedAt \in Int /\ readAt \in Int
         /\ clock >= 0 /\ \A c \in enabled : c \in Cidrs
         /\ \A c \in Cidrs : added[c] \in Int /\ added[c] >= 0
         /\ \A a \in Agents : sent[a] \in Int /\ drawn[a] \in Int /\ blNext[a] \in Int
  BY TimeAssumption, BoundAssumption DEF TypeOK, Times

\* A list that is entered now is younger than anything that has happened.
LEMMA JustEntered ==
  ASSUME TypeOK, Healthy, NEW c \in Cidrs, added[c] = clock
  PROVE  Ages(c)
  <1>1. ReadAge(c) /\ CacheAge(c)
    BY Numbers DEF Healthy, ReadAge, CacheAge
  <1>2. ASSUME NEW a \in Agents PROVE AgentAges(c, a)
    <2>1. sent[a] <= added[c] /\ drawn[a] <= added[c] /\ blNext[a] <= added[c] + TTL
      BY DEF Healthy
    <2> QED
      BY <2>1, Numbers DEF AgentAges, AnswerAge, ListAge, BatchAge
  <1> QED
    BY <1>1, <1>2 DEF Ages

\* An agent that draws from a list whose age is known draws in time.
LEMMA DrawnInTime ==
  ASSUME TypeOK, NEW a \in Agents, NEW list, Draw(a, list), UNCHANGED added,
         NEW c \in Cidrs,
         c \in list \/ clock < added[c] + ReadTime + 2 * TTL + Timeout
  PROVE  BatchAge(c, a)' /\ AnswerAge(c, a)'
  BY DrawnBatch DEF BatchAge, AnswerAge

\* What a step of agent a leaves of another agent's state keeps its ages.
LEMMA OtherAges ==
  ASSUME TypeOK, NEW c, NEW b \in Agents, AgentAges(c, b), UNCHANGED added,
         apc'[b] = apc[b], nets'[b] = nets[b], blNext'[b] = blNext[b],
         sent'[b] = sent[b], reply'[b] = reply[b], batch'[b] = batch[b],
         drawn'[b] = drawn[b]
  PROVE  AgentAges(c, b)'
  BY DEF AgentAges, AnswerAge, ListAge, BatchAge

LEMMA NextPrompt ==
  ASSUME TypeOK, TypeOK', Undisturbed', PromptInv, [Next]_vars
  PROVE  PromptInv'
  <1> USE DEF PromptInv
  <1>0. Healthy /\ \A c \in enabled : c \in Cidrs /\ Ages(c)
    BY Numbers
  <1>1. ASSUME NEW a \in Agents, Fetch(a) PROVE PromptInv'
    <2>1. /\ UNCHANGED <<clock, dbVars, procVars, dbUp, cacheVars, readVars>>
          /\ UNCHANGED <<nets, blNext, reply, batch, drawn>> /\ apc[a] = "ready"
          /\ sent' = [sent EXCEPT ![a] = clock] /\ apc' = [apc EXCEPT ![a] = "waiting"]
      BY <1>1 DEF Fetch
    <2>2. Healthy'
      BY <2>1, Numbers DEF Healthy, TypeOK, dbVars, procVars, cacheVars, readVars
    <2>3. ASSUME NEW c \in enabled, NEW b \in Agents
          PROVE  AgentAges(c, b)'
      BY <2>1 DEF Ages, AgentAges, AnswerAge, ListAge, BatchAge, TypeOK, dbVars
    <2> QED
      BY <2>1, <2>2, <2>3 DEF Ages, ReadAge, CacheAge, dbVars, cacheVars, readVars
  <1>2. ASSUME NEW a \in Agents, GetCached(a) PROVE PromptInv'
    <2>1. /\ UNCHANGED <<clock, dbVars, procVars, dbUp, cacheVars, readVars>>
          /\ UNCHANGED <<nets, blNext, sent, batch, drawn>>
          /\ reply' = [reply EXCEPT ![a] = cached] /\ apc' = [apc EXCEPT ![a] = "answered"]
          /\ up /\ apc[a] = "waiting" /\ ~reading /\ Fresh
      BY <1>2 DEF GetCached
    <2>2. Healthy'
      <3>1. asker = {}
        BY <2>1 DEF Healthy
      <3> QED
        BY <2>1, <3>1, Numbers DEF Healthy, TypeOK, dbVars, procVars, cacheVars, readVars
    <2>3. ASSUME NEW c \in enabled, NEW b \in Agents PROVE AgentAges(c, b)'
      <3>1. CASE b = a
        <4>1. c \in cached \/ fetchedAt <= added[c] + ReadTime
          BY <2>1 DEF Ages, CacheAge, Fresh
        <4>2. c \in cached \/ sent[a] < added[c] + ReadTime + TTL
          BY <2>1, <4>1, Numbers DEF Fresh, Healthy
        <4> QED
          BY <2>1, <3>1, <4>2 DEF Ages, AgentAges, AnswerAge, ListAge, BatchAge, TypeOK, dbVars
      <3>2. CASE b # a
        BY <2>1, <3>2 DEF Ages, AgentAges, AnswerAge, ListAge, BatchAge, TypeOK, dbVars
      <3> QED
        BY <3>1, <3>2
    <2> QED
      BY <2>1, <2>2, <2>3 DEF Ages, ReadAge, CacheAge, dbVars, cacheVars, readVars
  <1>3. ASSUME NEW agents \in SUBSET Agents, ReadFor(agents),
               \A a \in agents : apc[a] = "waiting"
        PROVE  PromptInv'
    <2>1. /\ UNCHANGED <<clock, dbVars, procVars, dbUp, cacheVars, agentVars>>
          /\ up /\ reading' = TRUE /\ asker' = agents /\ readAt' = clock
          /\ found' = IF Readable THEN enabled ELSE {}
      BY <1>3 DEF ReadFor
    <2>2. Healthy'
      BY <1>3, <2>1, Numbers DEF Healthy, dbVars, procVars, cacheVars, agentVars
    <2>3. \A c \in enabled : c \in found'
      BY <2>1 DEF Healthy, Readable
    <2> QED
      BY <2>1, <2>2, <2>3 DEF Ages, ReadAge, CacheAge, AgentAges, AnswerAge, ListAge,
         BatchAge, dbVars, cacheVars, agentVars
  <1>4. ASSUME GetReturns PROVE PromptInv'
    <2>1. /\ UNCHANGED <<clock, dbVars, procVars, dbUp>>
          /\ UNCHANGED <<nets, blNext, sent, batch, drawn>>
          /\ apc' = [a \in Agents |-> IF a \in asker THEN "answered" ELSE apc[a]]
          /\ reading /\ ~reading' /\ asker' = {}
      BY <1>4 DEF GetReturns
    <2>2. UNCHANGED cacheVars \/ (cached' = found /\ fetchedAt' = clock)
      BY <1>4 DEF GetReturns, Returned
    <2>3. Healthy'
      BY <2>1, <2>2, Numbers DEF Healthy, TypeOK, dbVars, procVars, cacheVars
    <2>4. ASSUME NEW c \in enabled PROVE CacheAge(c)'
      <3>1. c \in found \/ clock <= added[c] + ReadTime
        BY <2>1, Numbers DEF Ages, ReadAge, Healthy
      <3> QED
        BY <2>1, <2>2, <3>1 DEF Ages, CacheAge, dbVars, cacheVars
    <2>5. ASSUME NEW c \in enabled, NEW b \in Agents PROVE AgentAges(c, b)'
      <3>1. CASE b \in asker
        <4>1. reply'[b] = Answer(found)
          BY <1>4, <3>1 DEF GetReturns, Returned, Healthy
        <4>2. c \in found \/ sent[b] < added[c] + ReadTime + TTL
          BY <2>1, Numbers DEF Ages, ReadAge, Healthy
        <4>3. c \in found => c \in Answer(found)
          BY DEF Answer
        <4> QED
          BY <2>1, <4>1, <4>2, <4>3 DEF Ages, AgentAges, AnswerAge, ListAge, BatchAge, dbVars
      <3>2. CASE b \notin asker
        <4>1. reply'[b] = reply[b] /\ apc'[b] = apc[b]
          BY <1>4, <3>2 DEF GetReturns
        <4> QED
          BY <2>1, <4>1 DEF Ages, AgentAges, AnswerAge, ListAge, BatchAge, dbVars
      <3> QED
        BY <3>1, <3>2
    <2> QED
      BY <2>1, <2>3, <2>4, <2>5 DEF Ages, ReadAge, dbVars
  <1>5. ASSUME NEW a \in Agents, Refreshed(a) PROVE PromptInv'
    <2>1. /\ UNCHANGED <<clock, dbVars, procVars, dbUp, cacheVars, readVars>>
          /\ apc[a] = "answered" /\ Draw(a, reply[a])
          /\ nets' = [nets EXCEPT ![a] = reply[a]]
          /\ blNext' = [blNext EXCEPT ![a] = clock + TTL]
          /\ sent' = [sent EXCEPT ![a] = 0] /\ reply' = [reply EXCEPT ![a] = {}]
      BY <1>5 DEF Refreshed, RequestOver, Due
    <2>2. Healthy'
      <3>1. \A b \in Agents : drawn'[b] <= clock /\ blNext'[b] <= clock + TTL /\ sent'[b] <= clock
        BY <2>1, DrawnBatch, Numbers DEF Healthy, TypeOK
      <3>2. \A b \in Agents : apc'[b] \in {"waiting", "answered"} => clock <= sent'[b] + Timeout
        BY <2>1, DrawnBatch DEF Healthy, TypeOK
      <3>3. \A b \in asker : apc'[b] = "waiting"
        BY <2>1, DrawnBatch DEF Healthy, TypeOK
      <3> QED
        BY <2>1, <3>1, <3>2, <3>3 DEF Healthy, dbVars, procVars, cacheVars, readVars
    <2>3. ASSUME NEW c \in enabled, NEW b \in Agents PROVE AgentAges(c, b)'
      <3>1. CASE b = a
        <4>1. c \in reply[a] \/ sent[a] < added[c] + ReadTime + TTL
          BY <2>1 DEF Ages, AgentAges, AnswerAge
        <4>2. c \in reply[a] \/ clock + TTL < added[c] + ReadTime + 2 * TTL + Timeout
          BY <2>1, <4>1, <1>0, Numbers DEF Healthy
        <4>3. c \in reply[a] \/ clock < added[c] + ReadTime + 2 * TTL + Timeout
          BY <4>2, <1>0, Numbers
        <4>4. ListAge(c, a)'
          BY <2>1, <4>2 DEF ListAge, TypeOK, dbVars
        <4>5. BatchAge(c, a)' /\ AnswerAge(c, a)'
          BY <1>0, <2>1, <4>3, DrawnInTime DEF dbVars
        <4> QED
          BY <3>1, <4>4, <4>5 DEF AgentAges
      <3>2. CASE b # a
        <4>1. /\ batch'[b] = batch[b] /\ drawn'[b] = drawn[b] /\ apc'[b] = apc[b]
              /\ nets'[b] = nets[b] /\ blNext'[b] = blNext[b]
              /\ sent'[b] = sent[b] /\ reply'[b] = reply[b]
          BY <2>1, <3>2, DrawnBatch DEF TypeOK
        <4> QED
          BY <2>1, <4>1, OtherAges DEF Ages, dbVars
      <3> QED
        BY <3>1, <3>2
    <2> QED
      BY <2>1, <2>2, <2>3 DEF Ages, ReadAge, CacheAge, dbVars, cacheVars, readVars
  <1>6. ASSUME NEW a \in Agents, RefreshFails(a) PROVE PromptInv'
    BY <1>6, BoundAssumption DEF RefreshFails, TypeOK, Undisturbed
  <1>7. ASSUME NEW a \in Agents, DrawBatch(a) PROVE PromptInv'
    <2>1. /\ UNCHANGED <<clock, dbVars, procVars, dbUp, cacheVars, readVars>>
          /\ UNCHANGED <<nets, blNext, sent, reply>>
          /\ apc[a] = "ready" /\ clock < blNext[a] /\ Draw(a, nets[a])
      BY <1>7 DEF DrawBatch
    <2>2. Healthy'
      <3>1. \A b \in Agents : drawn'[b] <= clock
        BY <2>1, DrawnBatch, Numbers DEF Healthy, TypeOK
      <3>2. \A b \in Agents : apc'[b] \in {"waiting", "answered"} => clock <= sent[b] + Timeout
        BY <2>1, DrawnBatch DEF Healthy
      <3>3. \A b \in asker : apc'[b] = "waiting"
        BY <2>1, DrawnBatch DEF Healthy, TypeOK
      <3> QED
        BY <2>1, <3>1, <3>2, <3>3 DEF Healthy, dbVars, procVars, cacheVars, readVars
    <2>3. ASSUME NEW c \in enabled, NEW b \in Agents PROVE AgentAges(c, b)'
      <3>1. CASE b = a
        <4>1. c \in nets[a] \/ clock < added[c] + ReadTime + 2 * TTL + Timeout
          BY <1>0, <2>1, Numbers DEF Ages, AgentAges, ListAge
        <4>2. BatchAge(c, a)' /\ AnswerAge(c, a)'
          BY <1>0, <2>1, <4>1, DrawnInTime DEF dbVars
        <4>3. ListAge(c, a)'
          BY <2>1 DEF Ages, AgentAges, ListAge, dbVars
        <4> QED
          BY <3>1, <4>2, <4>3 DEF AgentAges
      <3>2. CASE b # a
        <4>1. batch'[b] = batch[b] /\ drawn'[b] = drawn[b] /\ apc'[b] = apc[b]
          BY <2>1, <3>2, DrawnBatch
        <4> QED
          BY <2>1, <4>1, OtherAges DEF Ages, dbVars
      <3> QED
        BY <3>1, <3>2
    <2> QED
      BY <2>1, <2>2, <2>3 DEF Ages, ReadAge, CacheAge, dbVars, cacheVars, readVars
  <1>8. ASSUME NEW a \in Agents, FinishBatch(a) \/ RestartAgent(a) PROVE PromptInv'
    <2>1. /\ UNCHANGED <<clock, dbVars, procVars, dbUp, cacheVars, reading, found, readAt>>
          /\ batch' = [batch EXCEPT ![a] = {}] /\ drawn' = [drawn EXCEPT ![a] = 0]
          /\ apc' = [apc EXCEPT ![a] = "ready"]
      BY <1>8 DEF FinishBatch, RestartAgent, Leaves, readVars
    <2>2. \A b \in Agents :
            /\ (blNext'[b] = blNext[b] /\ nets'[b] = nets[b]) \/ blNext'[b] = 0
            /\ (sent'[b] = sent[b] /\ reply'[b] = reply[b]) \/ b = a
            /\ sent'[b] \in {sent[b], 0}
      BY <1>8 DEF FinishBatch, RestartAgent, Leaves, RequestOver, TypeOK
    <2>3. \A b \in asker' : b # a /\ b \in asker
      BY <1>8 DEF FinishBatch, RestartAgent, Leaves, Healthy, readVars
    <2>4. Healthy'
      <3>1. \A b \in Agents :
              blNext'[b] <= clock + TTL /\ sent'[b] <= clock /\ drawn'[b] <= clock
        BY <2>1, <2>2, Numbers DEF Healthy, TypeOK
      <3>2. \A b \in Agents : apc'[b] \in {"waiting", "answered"} => clock <= sent'[b] + Timeout
        BY <2>1, <2>2 DEF Healthy, TypeOK
      <3>3. \A b \in asker' : reading' /\ apc'[b] = "waiting"
        BY <2>1, <2>3 DEF Healthy, TypeOK
      <3> QED
        BY <2>1, <3>1, <3>2, <3>3 DEF Healthy, dbVars, procVars, cacheVars
    <2>5. ASSUME NEW c \in enabled, NEW b \in Agents PROVE AgentAges(c, b)'
      <3>1. added[c] \in Int /\ added[c] >= 0 /\ c \in Cidrs
        BY <1>0, Numbers
      <3>2. ListAge(c, b)'
        BY <2>1, <2>2, <3>1, Numbers DEF Ages, AgentAges, ListAge, dbVars
      <3>3. AnswerAge(c, b)'
        BY <2>1, <2>2 DEF Ages, AgentAges, AnswerAge, TypeOK, dbVars
      <3>4. BatchAge(c, b)'
        BY <2>1 DEF Ages, AgentAges, BatchAge, TypeOK, dbVars
      <3> QED
        BY <3>2, <3>3, <3>4 DEF AgentAges
    <2> QED
      BY <2>1, <2>4, <2>5 DEF Ages, ReadAge, CacheAge, dbVars, cacheVars
  <1>9. ASSUME NEW e \in Cidrs, UNCHANGED <<clock, procVars, dbUp, cacheVars, readVars, agentVars>>,
               enabled' = enabled \cup {e}, added' = [added EXCEPT ![e] = clock]
        PROVE PromptInv'
    <2>1. Healthy'
      BY <1>9, Numbers DEF Healthy, TypeOK, procVars, cacheVars, readVars, agentVars
    <2>2. ASSUME NEW c \in enabled' PROVE Ages(c)'
      <3>1. CASE c = e
        <4>1. added'[c] = clock' /\ c \in Cidrs
          BY <1>9, <3>1 DEF TypeOK
        <4> QED
          BY <2>1, <4>1, <1>9, Numbers DEF Healthy, Ages, ReadAge, CacheAge, AgentAges,
             AnswerAge, ListAge, BatchAge, cacheVars, readVars, agentVars
      <3>2. CASE c # e
        <4>1. added'[c] = added[c] /\ c \in enabled
          BY <1>9, <3>2 DEF TypeOK
        <4> QED
          BY <1>9, <4>1 DEF Ages, ReadAge, CacheAge, AgentAges, AnswerAge, ListAge, BatchAge,
             cacheVars, readVars, agentVars
      <3> QED
        BY <3>1, <3>2
    <2> QED
      BY <2>1, <2>2
  <1>10. ASSUME NEW e \in OptOuts, Exclude(e) PROVE PromptInv'
    BY <1>9, <1>10 DEF Exclude, Cidrs
  <1>11. ASSUME SeedInsert PROVE PromptInv'
    <2>1. PICK e \in left : enabled' = enabled \cup {e} /\ added' = [added EXCEPT ![e] = clock]
      BY <1>11 DEF SeedInsert
    <2>2. e \in Cidrs
      BY DEF TypeOK, Cidrs
    <2> QED
      BY <1>9, <1>11, <2>1, <2>2 DEF SeedInsert
  <1>12. ASSUME \/ SeedCount \/ SeedFails \/ Crash \/ Start
                \/ \E e \in OptOuts : Disable(e)
                \/ UNCHANGED vars
         PROVE  PromptInv'
    <2>1. UNCHANGED <<clock, dbUp, added, agentVars>>
      BY <1>12 DEF SeedCount, SeedFails, Crash, Start, Disable, vars, dbVars
    <2>2. \/ UNCHANGED <<cacheVars, readVars>>
          \/ cached' = {} /\ fetchedAt' = 0 /\ ~reading' /\ asker' = {}
      BY <1>12 DEF SeedCount, SeedFails, Crash, Start, Disable, vars, cacheVars, readVars
    <2>3. enabled' \subseteq enabled
      BY <1>12 DEF SeedCount, SeedFails, Crash, Start, Disable, vars, dbVars
    <2>4. connected' = up'
      <3>1. CASE Crash
        BY <3>1 DEF Crash
      <3>2. CASE Start
        <4>1. dbUp = TRUE
          BY DEF Healthy, TypeOK
        <4> QED
          BY <3>2, <4>1 DEF Start
      <3>3. CASE UNCHANGED procVars
        BY <3>3 DEF procVars, Healthy
      <3>4. Crash \/ Start \/ UNCHANGED procVars
        BY <1>12 DEF SeedCount, SeedFails, Disable, vars
      <3> QED
        BY <3>1, <3>2, <3>3, <3>4
    <2>5. Healthy'
      BY <2>1, <2>2, <2>4, Numbers DEF Healthy, agentVars, cacheVars, readVars
    <2> QED
      BY <2>1, <2>2, <2>3, <2>5 DEF Ages, ReadAge, CacheAge, AgentAges, AnswerAge, ListAge,
         BatchAge, agentVars, cacheVars, readVars
  <1>13. ASSUME DbDown PROVE PromptInv'
    BY <1>13, BoundAssumption DEF DbDown, TypeOK, Undisturbed
  <1>14. ASSUME DbRecover PROVE PromptInv'
    BY <1>14 DEF DbRecover, Healthy
  <1>15. ASSUME Tick PROVE PromptInv'
    <2>1. /\ UNCHANGED <<dbVars, procVars, dbUp, cacheVars, readVars, agentVars>>
          /\ clock' = clock + 1
          /\ reading => clock - readAt < ReadTime
          /\ \A a \in Agents :
               apc[a] \in {"waiting", "answered"} => clock - sent[a] < Timeout
      BY <1>15 DEF Tick
    <2>2. Healthy'
      BY <2>1, Numbers DEF Healthy, dbVars, procVars, cacheVars, readVars, agentVars
    <2> QED
      BY <2>1, <2>2 DEF Ages, ReadAge, CacheAge, AgentAges, AnswerAge, ListAge, BatchAge,
         dbVars, cacheVars, readVars, agentVars
  <1>16. ASSUME NEW a \in Agents, GetReads(a) PROVE PromptInv'
    BY <1>3, <1>16 DEF GetReads
  <1>17. ASSUME LateRead PROVE PromptInv'
    BY <1>3, <1>17 DEF LateRead
  <1> QED
    BY <1>1, <1>2, <1>4, <1>5, <1>6, <1>7, <1>8, <1>10, <1>11, <1>12, <1>13, <1>14, <1>15,
       <1>16, <1>17
    DEF Next, Agent, Collector, Environment

\* What has happened stays counted.
LEMMA Counted ==
  ASSUME TypeOK, [Next]_vars, Undisturbed'
  PROVE  Undisturbed
  <1>1. outages' = outages \/ outages' = outages + 1
    BY DEF Next, Agent, Collector, Environment, vars, bounds, Fetch, GetCached, GetReads,
       ReadFor, Refreshed, RefreshFails, DrawBatch, FinishBatch, RestartAgent, SeedCount,
       SeedInsert, SeedFails, LateRead, GetReturns, Crash, Start, Exclude, Disable,
       DbDown, DbRecover, Tick
  <1>2. failures' = failures \/ failures' = failures + 1
    BY DEF Next, Agent, Collector, Environment, vars, bounds, Fetch, GetCached, GetReads,
       ReadFor, Refreshed, RefreshFails, DrawBatch, FinishBatch, RestartAgent, SeedCount,
       SeedInsert, SeedFails, LateRead, GetReturns, Crash, Start, Exclude, Disable,
       DbDown, DbRecover, Tick
  <1> QED
    BY <1>1, <1>2, BoundAssumption DEF TypeOK, Undisturbed

\* A healthy collector and its agents honour an exclusion in bounded time.
THEOREM ExclusionsHonored == Spec => []ExclusionHonored
  <1>1. Init => PromptInv
    <2> SUFFICES ASSUME Init PROVE PromptInv
      OBVIOUS
    <2>1. Healthy
      BY TimeAssumption DEF Init, Healthy
    <2>2. \A c \in enabled : c \in Cidrs /\ added[c] = clock
      BY ListAssumption DEF Init
    <2> QED
      BY <2>1, <2>2, InitTypeOK, JustEntered DEF PromptInv
  <1>2. (Undisturbed => PromptInv) => ExclusionHonored
    BY DEF PromptInv, Ages, AgentAges, BatchAge, ExclusionHonored
  <1>3. TypeOK /\ TypeOK' /\ (Undisturbed => PromptInv) /\ [Next]_vars
          => (Undisturbed => PromptInv)'
    BY NextPrompt, Counted
  <1>4. Init => (Undisturbed => PromptInv)
    BY <1>1
  <1> QED
    BY <1>2, <1>3, <1>4, TypeCorrect, PTL DEF Spec

----------------------------------------------------------------------------
\* While the collector runs on, the cache keeps every opt-out that an agent, or
\* an answer on its way to one, knows of, unless operators lift it; a read on its
\* way back has found it.
Knows(c, a) ==
    /\ c \in nets[a] => c \in cached /\ (apc[a] = "answered" => c \in reply[a])
    /\ apc[a] = "answered" /\ c \in reply[a] => c \in cached

Kept(c) ==
    /\ c \in cached \cup found => c \in enabled
    /\ c \in cached => found = {} \/ c \in found
    /\ \A a \in Agents : Knows(c, a)

KeptInv == crashes = 0 => \A c \in OptOuts \ lifted : Kept(c)

\* An agent's next list is the answer it got, or the one it has: the built-in
\* one of a restarted agent holds no opt-out.
LEMMA NextKept ==
  ASSUME TypeOK, KeptInv, [Next]_vars
  PROVE  KeptInv'
  <1> SUFFICES ASSUME crashes' = 0, NEW c \in OptOuts \ lifted'
               PROVE  Kept(c)'
    BY DEF KeptInv
  <1>0. /\ crashes = 0 /\ ~Crash /\ c \in OptOuts \ lifted /\ (c \in enabled => c \in enabled')
    <2>1. Crash \/ crashes' = crashes
      BY DEF Next, Agent, Collector, Environment, vars, bounds, Fetch, GetCached, GetReads,
         ReadFor, Refreshed, RefreshFails, DrawBatch, FinishBatch, RestartAgent, SeedCount,
         SeedInsert, SeedFails, LateRead, GetReturns, Start, Exclude, Disable, DbDown,
         DbRecover, Tick
    <2>2. crashes = 0 /\ ~Crash
      BY <2>1, BoundAssumption DEF TypeOK, Crash
    <2>3. CASE \E e \in OptOuts : Disable(e)
      BY <2>2, <2>3 DEF Disable
    <2>4. CASE ~\E e \in OptOuts : Disable(e)
      <3>1. lifted' = lifted /\ enabled \subseteq enabled'
        BY <2>2, <2>4 DEF Next, Agent, Collector, Environment, vars, dbVars, Fetch,
           GetCached, GetReads, ReadFor, Refreshed, RefreshFails, DrawBatch, FinishBatch,
           RestartAgent, SeedCount, SeedInsert, SeedFails, LateRead, GetReturns, Start,
           Exclude, DbDown, DbRecover, Tick
      <3> QED
        BY <2>2, <3>1
    <2> QED
      BY <2>3, <2>4
  <1>1. Kept(c)
    BY <1>0 DEF KeptInv
  <1>2. c \notin Seed
    BY ListAssumption
  <1>3. /\ c \in cached' \cup found' => c \in enabled'
        /\ c \in cached' => found' = {} \/ c \in found'
        /\ c \in cached => c \in cached'
    BY <1>0, <1>1, CacheSteps DEF Kept, cacheVars, GetReturns
  <1>4. ASSUME NEW b \in Agents, apc'[b] = "answered"
        PROVE  /\ c \in reply'[b] => c \in cached'
               /\ c \in nets[b] => c \in reply'[b]
    <2>1. CASE apc[b] = "answered" /\ reply'[b] = reply[b]
      BY <1>1, <1>3, <2>1 DEF Kept, Knows
    <2>2. CASE GetCached(b)
      BY <1>1, <2>2 DEF Kept, Knows, GetCached, cacheVars, TypeOK
    <2>3. CASE GetReturns /\ b \in asker
      <3>1. PICK list \in Returned :
              /\ IF list # {} THEN cached' = list /\ fetchedAt' = clock
                 ELSE UNCHANGED cacheVars
              /\ reply' = [a \in Agents |-> IF a \in asker THEN Answer(list) ELSE reply[a]]
        BY <2>3 DEF GetReturns
      <3>4. /\ reply'[b] = Answer(list)
            /\ (list # {} /\ cached' = list) \/ (list = {} /\ cached' = cached)
        BY <2>3, <3>1 DEF cacheVars
      <3>2. c \in cached => c \in Answer(list)
        BY <1>1, <3>1, <3>4 DEF Kept, Returned, Answer
      <3>3. c \in Answer(list) => c \in cached'
        BY <1>2, <3>4 DEF Answer
      <3> QED
        BY <1>1, <3>2, <3>3, <3>4 DEF Kept, Knows
    <2> QED
      BY <1>4, <2>1, <2>2, <2>3, ReplySteps
  <1>5. ASSUME NEW b \in Agents PROVE Knows(c, b)'
    <2>1. CASE nets'[b] = nets[b] \/ nets'[b] = Seed
      BY <1>1, <1>2, <1>3, <1>4, <2>1 DEF Kept, Knows
    <2>2. CASE apc[b] = "answered" /\ nets'[b] = reply[b] /\ apc'[b] # "answered"
      BY <1>1, <1>3, <2>2 DEF Kept, Knows
    <2> QED
      BY <2>1, <2>2, ListSteps
  <1> QED
    BY <1>3, <1>5 DEF Kept

\* An opt-out that an agent holds, and that operators enabled for good, is
\* forgotten only when the agent or the collector stops.
THEOREM OptOutsStay == Spec => OptOutOutlivesOutage
  <1>1. Init => KeptInv
    BY ListAssumption DEF Init, KeptInv, Kept, Knows
  <1>2. TypeOK /\ KeptInv /\ [Next]_vars => KeptInv'
    BY NextKept
  <1>3. TypeOK /\ KeptInv /\ [Next]_vars =>
          [crashes = 0 /\ restarts' = restarts => ~Forgets]_vars
    <2> SUFFICES ASSUME TypeOK, KeptInv, Next, crashes = 0, restarts' = restarts,
                        NEW a \in Agents, NEW c \in (OptOuts \cap enabled) \ lifted,
                        c \in nets[a], c \notin nets'[a]
                 PROVE  FALSE
      BY DEF Forgets
    <2>1. nets'[a] = nets[a] \/ (apc[a] = "answered" /\ nets'[a] = reply[a])
      <3>1. CASE \E b \in Agents : RestartAgent(b)
        BY <3>1, BoundAssumption DEF RestartAgent, TypeOK
      <3>2. CASE \E b \in Agents : Refreshed(b)
        BY <3>2 DEF Refreshed, TypeOK
      <3>3. CASE ~\E b \in Agents : Refreshed(b) \/ RestartAgent(b)
        BY <3>3 DEF Next, Agent, Collector, Environment, Fetch, GetCached, GetReads,
           ReadFor, RefreshFails, DrawBatch, FinishBatch, SeedCount, SeedInsert, SeedFails,
           LateRead, GetReturns, Crash, Start, Exclude, Disable, DbDown, DbRecover, Tick,
           agentVars
      <3> QED
        BY <3>1, <3>2, <3>3
    <2> QED
      BY <2>1 DEF KeptInv, Kept, Knows
  <1> QED
    BY <1>1, <1>2, <1>3, TypeCorrect, PTL DEF Spec, OptOutOutlivesOutage
=============================================================================
