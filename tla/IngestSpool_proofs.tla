------------------------ MODULE IngestSpool_proofs ------------------------
(***************************************************************************)
(* Proofs about IngestSpool: types, and that an acknowledged submission is *)
(* never lost when Persist calls do not share a millisecond and the spool  *)
(* disk takes every write.                                                 *)
(***************************************************************************)
EXTENDS IngestSpool, TLAPS

(* The disk holds o; used in place of Spooled, whose UNION hides the file. *)
Safe(o) == o \in applied \/ \E n \in Names : o \in files[n]

(* The parts of the inductive invariant. *)
AckedSafe == \A o \in acked : Safe(o)

\* What a handler has counted is safe, before the answer is sent.
DoneSafe == \A r \in Requests : \A o \in done[r] : Safe(o)

\* A name is used by one Persist call: nothing is filed beyond lastName, and
\* a handler about to rename owns its temporary file.
NamesFresh ==
    /\ lastName <= clock
    /\ \A n \in Names : n > lastName => files[n] = {}

OwnTmp ==
    \A r \in Requests : pc[r] = "rename" =>
        /\ tmp[name[r]] = spool[r]
        /\ files[name[r]] = {}
        /\ name[r] <= lastName

DistinctNames ==
    \A r, q \in Requests :
        pc[r] = "rename" /\ pc[q] = "rename" /\ r # q => name[r] # name[q]

\* The flush loop removes or rewrites a file only down to what MongoDB lacks.
FlushSafe ==
    /\ fpc # "idle" => files[fpath] # {}
    /\ fpc = "apply" => fops = files[fpath]
    /\ fpc = "remove" => files[fpath] \subseteq applied
    /\ fpc \in {"rewrite", "rename"} => /\ fops \subseteq files[fpath]
                                       /\ files[fpath] \subseteq applied \cup fops
    /\ fpc = "rename" => tmp[fpath] = fops /\ fops # {}
    /\ fpc = "rewrite" => fops # {}

\* What holds of the spool directory whether or not the disk takes a write.
DiskInv ==
    /\ TypeOK
    /\ NamesFresh
    /\ OwnTmp
    /\ DistinctNames
    /\ FlushSafe

IInv == DiskInv /\ AckedSafe /\ DoneSafe

----------------------------------------------------------------------------
LEMMA InitTypeOK == Init => TypeOK
  BY BoundsAssumption DEF Init, TypeOK, Names, Op

\* What Upsert writes is typed: the CHOOSE names one of the ops written.
LEMMA UpsertTyped ==
  ASSUME TypeOK, NEW s \in SUBSET Op, Upsert(s)
  PROVE  /\ store' \in [Services -> Names \cup {-1}]
         /\ applied' \in SUBSET Op
<1>1. ASSUME NEW x \in Services, \E o \in s : o.svc = x
      PROVE  now[(CHOOSE o \in s : o.svc = x).req] \in Names
  <2>1. (CHOOSE o \in s : o.svc = x) \in s
    BY <1>1
  <2>2. (CHOOSE o \in s : o.svc = x).req \in Requests
    BY <2>1 DEF Op
  <2> QED BY <2>2 DEF TypeOK
<1> QED BY <1>1 DEF Upsert, TypeOK

\* Every step keeps the types.
LEMMA NextTypeOK == TypeOK /\ [Next]_vars => TypeOK'
<1> SUFFICES ASSUME TypeOK, [Next]_vars PROVE TypeOK'
  OBVIOUS
<1> USE BoundsAssumption, PayloadAssumption
<1>1. ASSUME NEW r \in Requests, Ingest(r) PROVE TypeOK'
  <2>1. Entries(r) \subseteq Op
    BY DEF Op, Entries
  <2> QED BY <1>1, <2>1 DEF Ingest, TypeOK, procVars, diskVars, flushVars, dbVars
<1>2. ASSUME NEW r \in Requests, SpoolChunk(r) PROVE TypeOK'
  BY <1>2 DEF SpoolChunk, TypeOK, procVars, diskVars, flushVars, dbVars
<1>3. ASSUME NEW r \in Requests, UpsertChunk(r) PROVE TypeOK'
  <2>1. PICK c \in SUBSET todo[r] : \E x, f \in SUBSET c :
          /\ Upsert(x)
          /\ todo' = [todo EXCEPT ![r] = @ \ c]
          /\ spool' = [spool EXCEPT ![r] = f]
          /\ done' = [done EXCEPT ![r] = @ \cup (c \ f)]
          /\ pc' = [pc EXCEPT ![r] = IF f = {} THEN "batch" ELSE "write"]
    BY <1>3 DEF UpsertChunk
  <2>2. PICK x, f \in SUBSET c :
          /\ Upsert(x)
          /\ todo' = [todo EXCEPT ![r] = @ \ c]
          /\ spool' = [spool EXCEPT ![r] = f]
          /\ done' = [done EXCEPT ![r] = @ \cup (c \ f)]
          /\ pc' = [pc EXCEPT ![r] = IF f = {} THEN "batch" ELSE "write"]
    BY <2>1
  <2>3. x \in SUBSET Op /\ c \in SUBSET Op
    BY DEF TypeOK
  <2>4. store' \in [Services -> Names \cup {-1}] /\ applied' \in SUBSET Op
    BY <2>2, <2>3, UpsertTyped
  <2> QED BY <1>3, <2>2, <2>3, <2>4
          DEF UpsertChunk, TypeOK, procVars, diskVars, flushVars
<1>4. ASSUME NEW r \in Requests, PersistWrite(r) PROVE TypeOK'
  BY <1>4 DEF PersistWrite, FileName, TypeOK, procVars, flushVars, dbVars
<1>5. ASSUME NEW r \in Requests, PersistRename(r) PROVE TypeOK'
  BY <1>5 DEF PersistRename, TypeOK, procVars, flushVars, dbVars
<1>6. ASSUME NEW r \in Requests, PersistFail(r) PROVE TypeOK'
  BY <1>6 DEF PersistFail, TypeOK, procVars, diskVars, flushVars, dbVars
<1>7. ASSUME NEW r \in Requests, Respond(r) PROVE TypeOK'
  BY <1>7 DEF Respond, TypeOK, procVars, diskVars, flushVars, dbVars
<1>8. CASE FlushRead
  BY <1>8 DEF FlushRead, TypeOK, procVars, handlerVars, diskVars, dbVars
<1>9. CASE FlushApply
  <2>1. PICK x, f \in SUBSET fops :
          /\ Upsert(x)
          /\ \/ f = {} /\ fpc' = "remove" /\ UNCHANGED fops
             \/ f = {} /\ ~dbUp /\ fpc' = "idle" /\ UNCHANGED fops
             \/ f # {} /\ fpc' = "rewrite" /\ fops' = f
    BY <1>9 DEF FlushApply
  <2>2. x \in SUBSET Op
    BY DEF TypeOK
  <2>3. store' \in [Services -> Names \cup {-1}] /\ applied' \in SUBSET Op
    BY <2>1, <2>2, UpsertTyped
  <2> QED BY <1>9, <2>1, <2>3 DEF FlushApply, TypeOK, procVars, handlerVars, diskVars
<1>10. CASE FlushRemove
  BY <1>10 DEF FlushRemove, TypeOK, procVars, handlerVars, dbVars
<1>11. CASE FlushRewrite
  BY <1>11 DEF FlushRewrite, TypeOK, procVars, handlerVars, dbVars
<1>12. CASE FlushRename
  BY <1>12 DEF FlushRename, TypeOK, procVars, handlerVars, dbVars
<1>13. CASE Crash
  <2>1. crashes' \in 0 .. MaxCrashes
    BY <1>13 DEF Crash, TypeOK
  <2>2. pc' \in [Requests -> {"idle", "batch", "write", "rename", "ok", "refused", "broken"}]
    BY <1>13 DEF Crash, TypeOK
  <2> QED BY <1>13, <2>1, <2>2 DEF Crash, TypeOK, diskVars, dbVars
<1>14. CASE Start
  BY <1>14 DEF Start, TypeOK, handlerVars, diskVars, flushVars, dbVars
<1>15. CASE DbDown
  <2>1. outages' \in 0 .. MaxOutages
    BY <1>15 DEF DbDown, TypeOK
  <2> QED BY <1>15, <2>1 DEF DbDown, TypeOK, procVars, handlerVars, diskVars,
                             flushVars, dbVars
<1>16. CASE DbRecover
  BY <1>16 DEF DbRecover, TypeOK, procVars, handlerVars, diskVars, flushVars, dbVars
<1>17. CASE Tick
  BY <1>17 DEF Tick, TypeOK, Names, procVars, handlerVars, diskVars, flushVars, dbVars
<1>18. CASE UNCHANGED vars
  BY <1>18 DEF vars, TypeOK, procVars, handlerVars, diskVars, flushVars, dbVars
<1> QED
  BY <1>1, <1>2, <1>3, <1>4, <1>5, <1>6, <1>7, <1>8, <1>9, <1>10, <1>11, <1>12,
     <1>13, <1>14, <1>15, <1>16, <1>17, <1>18
  DEF Next, Handler, Flush, Environment

\* The collector's state keeps its types in every behaviour.
THEOREM TypeCorrect == Spec => []TypeOK
  BY InitTypeOK, NextTypeOK, PTL DEF Spec

----------------------------------------------------------------------------
LEMMA InitIInv == Init => IInv
<1> SUFFICES ASSUME Init PROVE IInv
  OBVIOUS
<1>1. TypeOK
  BY InitTypeOK
<1>2. AckedSafe /\ DoneSafe /\ OwnTmp /\ DistinctNames /\ FlushSafe
  BY DEF Init, AckedSafe, DoneSafe, OwnTmp, DistinctNames, FlushSafe
<1>3. NamesFresh
  BY DEF Init, NamesFresh
<1> QED BY <1>1, <1>2, <1>3 DEF IInv, DiskInv

\* A step that leaves the files alone and takes nothing from MongoDB keeps
\* every safe op safe.
LEMMA SafeUnmoved ==
  ASSUME UNCHANGED files, applied \subseteq applied', NEW o, Safe(o)
  PROVE  Safe(o)'
  BY DEF Safe

\* Renaming a temporary file into an unused name adds a file.
LEMMA SafeRename ==
  ASSUME DiskInv, NEW r \in Requests, PersistRename(r), NEW o, Safe(o)
  PROVE  Safe(o)'
<1>1. name[r] \in Names /\ files[name[r]] = {}
  BY DEF DiskInv, TypeOK, OwnTmp, PersistRename
<1>2. \A n \in Names : n # name[r] => files'[n] = files[n]
  BY DEF DiskInv, TypeOK, PersistRename
<1>3. applied' = applied
  BY DEF PersistRename, dbVars
<1> QED BY <1>1, <1>2, <1>3 DEF Safe

\* The flush loop removes a file MongoDB has taken.
LEMMA SafeFlushRemove ==
  ASSUME DiskInv, FlushRemove, NEW o, Safe(o)
  PROVE  Safe(o)'
<1>1. files[fpath] \subseteq applied
  BY DEF DiskInv, FlushSafe, FlushRemove
<1>2. \A n \in Names : n # fpath => files'[n] = files[n]
  BY DEF DiskInv, TypeOK, FlushRemove
<1>3. applied' = applied
  BY DEF FlushRemove, dbVars
<1> QED BY <1>1, <1>2, <1>3 DEF Safe

\* A rewritten file lacks only what MongoDB has taken.
LEMMA SafeFlushRename ==
  ASSUME DiskInv, FlushRename, NEW o, Safe(o)
  PROVE  Safe(o)'
<1>1. /\ files[fpath] \subseteq applied \cup tmp[fpath]
      /\ tmp[fpath] # {}
      /\ fpath \in Names
  BY DEF DiskInv, FlushSafe, FlushRename, TypeOK
<1>2. /\ files'[fpath] = tmp[fpath]
      /\ \A n \in Names : n # fpath => files'[n] = files[n]
  BY <1>1 DEF DiskInv, TypeOK, FlushRename
<1>3. applied' = applied
  BY DEF FlushRename, dbVars
<1> QED BY <1>1, <1>2, <1>3 DEF Safe

\* No step loses a safe op.
LEMMA SafeKept ==
  ASSUME DiskInv, [Next]_vars, NEW o, Safe(o)
  PROVE  Safe(o)'
<1>1. CASE \E r \in Requests : Handler(r)
  <2> PICK r \in Requests : Handler(r)
    BY <1>1
  <2>1. CASE PersistRename(r)
    BY <2>1, SafeRename
  <2>2. CASE UpsertChunk(r)
    <3>1. applied \subseteq applied' /\ UNCHANGED files
      BY <2>2 DEF UpsertChunk, Upsert, diskVars
    <3> QED BY <3>1, SafeUnmoved
  <2>3. CASE Ingest(r) \/ SpoolChunk(r) \/ PersistWrite(r) \/ PersistFail(r) \/ Respond(r)
    <3>1. UNCHANGED <<files, applied>>
      BY <2>3 DEF Ingest, SpoolChunk, PersistWrite, PersistFail, Respond, diskVars, dbVars
    <3> QED BY <3>1, SafeUnmoved
  <2> QED BY <2>1, <2>2, <2>3 DEF Handler
<1>2. CASE Flush
  <2>1. CASE FlushApply
    <3>1. applied \subseteq applied' /\ UNCHANGED files
      BY <2>1 DEF FlushApply, Upsert, diskVars
    <3> QED BY <3>1, SafeUnmoved
  <2>2. CASE FlushRead \/ FlushRewrite
    <3>1. UNCHANGED <<files, applied>>
      BY <2>2 DEF FlushRead, FlushRewrite, diskVars, dbVars
    <3> QED BY <3>1, SafeUnmoved
  <2> QED BY <1>2, <2>1, <2>2, SafeFlushRemove, SafeFlushRename DEF Flush
<1>3. CASE Environment \/ UNCHANGED vars
  <2>1. UNCHANGED <<files, applied>>
    BY <1>3 DEF Environment, Crash, Start, DbDown, DbRecover, Tick, vars, diskVars, dbVars
  <2> QED BY <2>1, SafeUnmoved
<1> QED BY <1>1, <1>2, <1>3 DEF Next

----------------------------------------------------------------------------
\* What a handler counts is safe when it is counted.
LEMMA DoneKept ==
  ASSUME IInv, [Next]_vars, ~DiskFails
  PROVE  DoneSafe'
<1> SUFFICES ASSUME NEW q \in Requests, NEW o \in done'[q] PROVE Safe(o)'
  BY DEF DoneSafe
<1>1. CASE o \in done[q]
  BY <1>1, SafeKept DEF IInv, DiskInv, DoneSafe
<1>2. CASE o \notin done[q]
  <2>1. PICK r \in Requests : UpsertChunk(r) \/ PersistRename(r)
    BY <1>2 DEF Next, Handler, Ingest, SpoolChunk, PersistWrite, PersistFail, Respond,
       Flush, FlushRead, FlushApply, FlushRemove, FlushRewrite, FlushRename,
       Environment, Crash, Start, DbDown, DbRecover, Tick, vars, handlerVars
  <2>2. CASE UpsertChunk(r)
    <3>1. PICK c \in SUBSET todo[r] : \E x, f \in SUBSET c :
            /\ Outcome(c, x, f) /\ Upsert(x)
            /\ done' = [done EXCEPT ![r] = @ \cup (c \ f)]
      BY <2>2 DEF UpsertChunk
    <3>2. PICK x, f \in SUBSET c :
            /\ Outcome(c, x, f) /\ Upsert(x)
            /\ done' = [done EXCEPT ![r] = @ \cup (c \ f)]
      BY <3>1
    <3>3. o \in c \ f
      BY <1>2, <3>2 DEF IInv, DiskInv, TypeOK
    <3>4. c \ f \subseteq x
      BY <3>2 DEF Outcome
    <3> QED BY <3>2, <3>3, <3>4 DEF Upsert, Safe
  <2>3. CASE PersistRename(r)
    <3>1. o \in spool[r] /\ tmp[name[r]] = spool[r] /\ name[r] \in Names
      BY <1>2, <2>3 DEF PersistRename, IInv, DiskInv, TypeOK, OwnTmp
    <3>2. files'[name[r]] = spool[r]
      BY <2>3, <3>1 DEF PersistRename, IInv, DiskInv, TypeOK
    <3> QED BY <3>1, <3>2 DEF Safe
  <2> QED BY <2>1, <2>2, <2>3
<1> QED BY <1>1, <1>2

\* An answer acknowledges what the handler has counted.
LEMMA AckedKept ==
  ASSUME IInv, [Next]_vars
  PROVE  AckedSafe'
<1> SUFFICES ASSUME NEW o \in acked' PROVE Safe(o)'
  BY DEF AckedSafe
<1>1. o \in acked \/ \E r \in Requests : o \in done[r]
  BY DEF Next, Handler, Ingest, SpoolChunk, UpsertChunk, PersistWrite, PersistRename,
     PersistFail, Respond, Flush, FlushRead, FlushApply, FlushRemove, FlushRewrite,
     FlushRename, Environment, Crash, Start, DbDown, DbRecover, Tick, vars
<1>2. Safe(o)
  BY <1>1 DEF IInv, DiskInv, AckedSafe, DoneSafe
<1> QED BY <1>2, SafeKept DEF IInv

----------------------------------------------------------------------------
\* The bookkeeping of names, temporary files and the flush loop.
Bookkeeping == NamesFresh /\ OwnTmp /\ DistinctNames /\ FlushSafe

\* Steps that touch no file, no name and not the flush loop, and take no
\* handler to "rename", keep the bookkeeping.
LEMMA BookkeepingFrame ==
  ASSUME DiskInv,
         UNCHANGED <<files, tmp, lastName, name, flushVars>>,
         clock <= clock', clock' \in Int,
         applied \subseteq applied',
         \A r \in Requests : pc'[r] = "rename" => pc[r] = "rename" /\ spool'[r] = spool[r]
  PROVE  Bookkeeping'
<1>1. NamesFresh'
  <2>1. lastName \in Int /\ clock \in Int /\ lastName <= clock
    BY BoundsAssumption DEF DiskInv, NamesFresh, TypeOK, Names
  <2>2. lastName' <= clock'
    BY <2>1
  <2>3. \A n \in Names : n > lastName' => files'[n] = {}
    BY DEF DiskInv, NamesFresh
  <2> QED
    BY <2>2, <2>3 DEF NamesFresh
<1>2. OwnTmp'
  BY DEF DiskInv, OwnTmp
<1>3. DistinctNames'
  BY DEF DiskInv, DistinctNames
<1>4. FlushSafe'
  BY DEF DiskInv, FlushSafe, flushVars
<1> QED BY <1>1, <1>2, <1>3, <1>4 DEF Bookkeeping

\* A Persist call takes a name nobody has used: no other handler's temporary
\* file, no spool file and not the flush loop's path.
LEMMA BookkeepingPersistWrite ==
  ASSUME DiskInv, UniqueNames = TRUE, NEW r \in Requests, PersistWrite(r)
  PROVE  Bookkeeping'
<1>1. /\ clock \in Names /\ clock' = clock /\ lastName < clock
      /\ lastName' = clock
      /\ UNCHANGED <<files, flushVars, applied, spool>>
      /\ tmp' = [tmp EXCEPT ![clock] = spool[r]]
      /\ name' = [name EXCEPT ![r] = clock]
      /\ pc' = [pc EXCEPT ![r] = "rename"]
  BY DEF PersistWrite, FileName, DiskInv, TypeOK, dbVars
<1>2. files[clock] = {}
  BY <1>1 DEF DiskInv, NamesFresh
<1>3. \A q \in Requests : q # r /\ pc[q] = "rename" => name[q] # clock /\ name[q] \in Names
  BY <1>1 DEF DiskInv, OwnTmp, TypeOK, Names
<1>4. NamesFresh'
  <2>1. lastName' <= clock'
    BY <1>1 DEF Names
  <2>2. \A n \in Names : n > clock => n > lastName
    BY <1>1 DEF DiskInv, TypeOK, Names
  <2> QED BY <1>1, <2>1, <2>2 DEF DiskInv, NamesFresh
<1>5. OwnTmp'
  <2> SUFFICES ASSUME NEW q \in Requests, pc'[q] = "rename"
               PROVE /\ tmp'[name'[q]] = spool'[q]
                     /\ files'[name'[q]] = {}
                     /\ name'[q] <= lastName'
    BY DEF OwnTmp
  <2>1. CASE q = r
    BY <1>1, <1>2, <2>1 DEF DiskInv, TypeOK, Names
  <2>2. CASE q # r
    <3>1. pc[q] = "rename" /\ name'[q] = name[q]
      BY <1>1, <2>2 DEF DiskInv, TypeOK
    <3>2. tmp'[name[q]] = tmp[name[q]]
      BY <1>1, <1>3, <2>2, <3>1 DEF DiskInv, TypeOK
    <3>3. name[q] <= clock
      BY <1>1, <3>1 DEF DiskInv, OwnTmp, TypeOK, Names
    <3> QED BY <1>1, <3>1, <3>2, <3>3 DEF DiskInv, OwnTmp
  <2> QED BY <2>1, <2>2
<1>6. DistinctNames'
  <2> SUFFICES ASSUME NEW p \in Requests, NEW q \in Requests,
                      pc'[p] = "rename", pc'[q] = "rename", p # q
               PROVE name'[p] # name'[q]
    BY DEF DistinctNames
  <2>1. CASE p = r
    BY <1>1, <1>3, <2>1 DEF DiskInv, TypeOK
  <2>2. CASE q = r
    BY <1>1, <1>3, <2>2 DEF DiskInv, TypeOK
  <2>3. CASE p # r /\ q # r
    BY <1>1, <2>3 DEF DiskInv, TypeOK, DistinctNames
  <2> QED BY <2>1, <2>2, <2>3
<1>7. FlushSafe'
  <2>1. fpc # "idle" => fpath # clock
    BY <1>2 DEF DiskInv, FlushSafe
  <2>2. fpc = "rename" => tmp'[fpath] = tmp[fpath]
    BY <1>1, <2>1 DEF DiskInv, TypeOK
  <2> QED BY <1>1, <2>2 DEF DiskInv, FlushSafe, flushVars
<1> QED BY <1>4, <1>5, <1>6, <1>7 DEF Bookkeeping

\* The rename moves the handler's own temporary file.
LEMMA BookkeepingPersistRename ==
  ASSUME DiskInv, NEW r \in Requests, PersistRename(r)
  PROVE  Bookkeeping'
<1>1. /\ pc[r] = "rename" /\ name[r] \in Names
      /\ files[name[r]] = {} /\ name[r] <= lastName
      /\ UNCHANGED <<clock, lastName, name, flushVars, applied>>
      /\ pc' = [pc EXCEPT ![r] = "batch"]
      /\ spool' = [spool EXCEPT ![r] = {}]
      /\ \A n \in Names : n # name[r] => files'[n] = files[n] /\ tmp'[n] = tmp[n]
  BY DEF PersistRename, DiskInv, TypeOK, OwnTmp, dbVars
<1>2. \A q \in Requests : pc'[q] = "rename" =>
        /\ q # r /\ pc[q] = "rename" /\ spool'[q] = spool[q]
        /\ name[q] # name[r] /\ name[q] \in Names
  BY <1>1 DEF DiskInv, TypeOK, DistinctNames
<1>3. NamesFresh'
  <2>1. \A n \in Names : n > lastName => n # name[r]
    BY <1>1 DEF DiskInv, TypeOK, Names
  <2> QED BY <1>1, <2>1 DEF DiskInv, NamesFresh
<1>4. OwnTmp'
  BY <1>1, <1>2 DEF DiskInv, OwnTmp
<1>5. DistinctNames'
  BY <1>1, <1>2 DEF DiskInv, DistinctNames
<1>6. FlushSafe'
  <2>1. fpc # "idle" => fpath # name[r] /\ fpath \in Names
    BY <1>1 DEF DiskInv, FlushSafe, TypeOK
  <2> QED BY <1>1, <2>1 DEF DiskInv, FlushSafe, flushVars
<1> QED BY <1>3, <1>4, <1>5, <1>6 DEF Bookkeeping

\* The flush loop works on the one file it read, which is no handler's name.
LEMMA BookkeepingFlush ==
  ASSUME DiskInv, Flush
  PROVE  Bookkeeping'
<1>1. UNCHANGED <<clock, lastName, handlerVars>> /\ applied \subseteq applied'
  BY DEF Flush, FlushRead, FlushApply, FlushRemove, FlushRewrite, FlushRename, Upsert, dbVars
<1>2. fpath \in Names /\ fops \in SUBSET Op
  BY DEF DiskInv, TypeOK
<1>3. \A r \in Requests : pc[r] = "rename" => name[r] \in Names
  BY DEF DiskInv, TypeOK
<1>4. DistinctNames'
  BY <1>1 DEF DiskInv, DistinctNames, handlerVars
<1>5. CASE FlushRead
  BY <1>1, <1>4, <1>5 DEF FlushRead, Oldest, DiskInv, NamesFresh, OwnTmp, FlushSafe, Bookkeeping,
                          handlerVars, diskVars
<1>6. CASE FlushApply
  <2>1. PICK x, f \in SUBSET fops :
          /\ Outcome(fops, x, f) /\ Upsert(x)
          /\ \/ f = {} /\ fpc' = "remove" /\ UNCHANGED fops
             \/ f = {} /\ ~dbUp /\ fpc' = "idle" /\ UNCHANGED fops
             \/ f # {} /\ fpc' = "rewrite" /\ fops' = f
    BY <1>6 DEF FlushApply
  <2>2. fops \ f \subseteq applied'
    BY <2>1 DEF Outcome, Upsert
  <2>3. fpc = "apply" /\ UNCHANGED <<files, tmp, fpath>>
    BY <1>6 DEF FlushApply, diskVars
  <2>4. FlushSafe'
    BY <2>1, <2>2, <2>3 DEF DiskInv, FlushSafe
  <2> QED BY <1>1, <1>4, <2>3, <2>4 DEF DiskInv, NamesFresh, OwnTmp, Bookkeeping, handlerVars
<1>7. CASE FlushRemove
  <2>1. \A n \in Names : files[n] = {} => files'[n] = {}
    BY <1>2, <1>7 DEF FlushRemove, DiskInv, TypeOK
  <2> QED BY <1>1, <1>3, <1>4, <1>7, <2>1
          DEF FlushRemove, DiskInv, NamesFresh, OwnTmp, FlushSafe, Bookkeeping, handlerVars
<1>8. CASE FlushRewrite
  <2>1. files[fpath] # {}
    BY <1>8 DEF FlushRewrite, DiskInv, FlushSafe
  <2>2. \A n \in Names : n # fpath => tmp'[n] = tmp[n]
    BY <1>8 DEF FlushRewrite, DiskInv, TypeOK
  <2>3. OwnTmp'
    BY <1>1, <1>3, <1>8, <2>1, <2>2 DEF FlushRewrite, DiskInv, OwnTmp, handlerVars
  <2>4. FlushSafe'
    BY <1>1, <1>2, <1>8 DEF FlushRewrite, DiskInv, TypeOK, FlushSafe, dbVars
  <2> QED BY <1>1, <1>4, <1>8, <2>3, <2>4
          DEF FlushRewrite, DiskInv, NamesFresh, Bookkeeping
<1>9. CASE FlushRename
  <2>1. files[fpath] # {}
    BY <1>9 DEF FlushRename, DiskInv, FlushSafe
  <2>2. \A n \in Names : n # fpath => tmp'[n] = tmp[n] /\ files'[n] = files[n]
    BY <1>9 DEF FlushRename, DiskInv, TypeOK
  <2>3. OwnTmp'
    BY <1>1, <1>3, <2>1, <2>2 DEF DiskInv, OwnTmp, handlerVars
  <2>4. NamesFresh'
    BY <1>1, <2>1, <2>2 DEF DiskInv, NamesFresh
  <2>5. FlushSafe'
    BY <1>9 DEF FlushRename, FlushSafe
  <2> QED BY <1>4, <2>3, <2>4, <2>5 DEF Bookkeeping
<1> QED BY <1>5, <1>6, <1>7, <1>8, <1>9 DEF Flush

LEMMA BookkeepingKept ==
  ASSUME DiskInv, [Next]_vars, UniqueNames = TRUE
  PROVE  Bookkeeping'
<1>0. clock \in Int
  BY DEF DiskInv, TypeOK, Names
<1>1. ASSUME NEW r \in Requests, Handler(r) PROVE Bookkeeping'
  <2>1. CASE Ingest(r) \/ SpoolChunk(r) \/ UpsertChunk(r) \/ PersistFail(r) \/ Respond(r)
    <3>1. /\ UNCHANGED <<files, tmp, lastName, name, flushVars, clock>>
          /\ applied \subseteq applied'
      BY <2>1 DEF Ingest, SpoolChunk, UpsertChunk, PersistFail, Respond, Upsert,
                  diskVars, dbVars
    <3>2. \A q \in Requests : pc'[q] = "rename" => pc[q] = "rename" /\ spool'[q] = spool[q]
      BY <2>1 DEF Ingest, SpoolChunk, UpsertChunk, PersistFail, Respond, DiskInv, TypeOK
    <3>3. clock <= clock' /\ clock' \in Int
      BY <1>0, <3>1
    <3> QED BY <3>1, <3>2, <3>3, BookkeepingFrame
  <2> QED BY <1>1, <2>1, BookkeepingPersistWrite, BookkeepingPersistRename DEF Handler
<1>2. CASE Flush
  BY <1>2, BookkeepingFlush
<1>3. CASE Start \/ DbDown \/ DbRecover \/ Tick \/ UNCHANGED vars
  <2>1. UNCHANGED <<files, tmp, lastName, name, flushVars, pc, spool, applied>>
    BY <1>3 DEF Start, DbDown, DbRecover, Tick, vars, handlerVars, diskVars, dbVars
  <2>2. clock' = clock \/ clock' = clock + 1
    BY <1>3 DEF Start, DbDown, DbRecover, Tick, vars
  <2>3. clock <= clock' /\ clock' \in Int
    BY <1>0, <2>2
  <2> QED BY <2>1, <2>3, BookkeepingFrame
<1>4. CASE Crash
  <2>1. /\ UNCHANGED <<files, tmp, lastName, clock>>
        /\ fpc' = "idle"
        /\ \A r \in Requests : pc'[r] # "rename"
    BY <1>4 DEF Crash, diskVars
  <2> QED BY <2>1 DEF DiskInv, NamesFresh, OwnTmp, DistinctNames, FlushSafe, Bookkeeping
<1> QED BY <1>1, <1>2, <1>3, <1>4 DEF Next, Environment

\* The directory's bookkeeping is inductive on its own, on any disk.
LEMMA NextDiskInv ==
  ASSUME UniqueNames = TRUE
  PROVE  DiskInv /\ [Next]_vars => DiskInv'
<1> SUFFICES ASSUME DiskInv, [Next]_vars PROVE DiskInv'
  OBVIOUS
<1>1. TypeOK'
  BY NextTypeOK DEF DiskInv
<1>2. Bookkeeping'
  BY BookkeepingKept
<1> QED BY <1>1, <1>2 DEF DiskInv, Bookkeeping

\* The inductive step.
LEMMA NextIInv ==
  ASSUME UniqueNames = TRUE, DiskFails = FALSE
  PROVE  IInv /\ [Next]_vars => IInv'
<1> SUFFICES ASSUME IInv, [Next]_vars PROVE IInv'
  OBVIOUS
<1>1. DiskInv'
  BY NextDiskInv DEF IInv
<1>2. AckedSafe' /\ DoneSafe'
  BY AckedKept, DoneKept
<1> QED BY <1>1, <1>2 DEF IInv

LEMMA IInvDurable == IInv => AckedDurable
  BY DEF IInv, AckedSafe, Safe, AckedDurable, Spooled

\* An acknowledged submission is in MongoDB or in the spool, always, when no
\* two Persist calls share a millisecond and the disk takes every write.
THEOREM AckedNeverLost ==
  ASSUME UniqueNames = TRUE, DiskFails = FALSE
  PROVE  Spec => []AckedDurable
  BY InitIInv, NextIInv, IInvDurable, PTL DEF Spec

----------------------------------------------------------------------------
LEMMA SpooledFiles == \A o : o \in Spooled <=> \E n \in Names : o \in files[n]
  BY DEF Spooled

\* An op leaves the spool directory only once MongoDB has taken it, whether or
\* not the disk takes a rewrite: only names must not collide.
THEOREM SpoolKeepsUndelivered ==
  ASSUME UniqueNames = TRUE
  PROVE  Spec => SpoolLeavesByApply
<1>1. Init => DiskInv
  BY InitIInv DEF IInv
<1>2. DiskInv /\ [Next]_vars => DiskInv'
  BY NextDiskInv
<1>3. DiskInv /\ [Next]_vars => [(Spooled \ Spooled') \subseteq applied']_vars
  <2> SUFFICES ASSUME DiskInv, [Next]_vars, NEW o \in Spooled, o \notin Spooled'
               PROVE  o \in applied'
    OBVIOUS
  <2>1. Safe(o)
    BY SpooledFiles DEF Safe
  <2>2. Safe(o)'
    BY <2>1, SafeKept
  <2> QED BY <2>2 DEF Safe, Spooled
<1> QED BY <1>1, <1>2, <1>3, PTL DEF Spec, SpoolLeavesByApply

----------------------------------------------------------------------------
(* IngestSpool implements DurableDelivery. *)

\* Each step is a step of the abstract specification or leaves it alone.
LEMMA StepImplements ==
  ASSUME IInv, IInv', [Next]_vars
  PROVE  [Durable!Next]_<<Spooled, applied, acked>>
<1> USE DEF Durable!Next, Durable!Deliver, Durable!Hold, Durable!Release, Durable!Acknowledge
<1>0. /\ applied' \subseteq Op
      /\ Spooled \subseteq Op /\ Spooled' \subseteq Op
  BY DEF IInv, DiskInv, TypeOK, Spooled
\* Steps that only deliver.
<1>1. ASSUME UNCHANGED <<files, acked>>, applied \subseteq applied'
      PROVE  Durable!Deliver
  <2>1. applied' = applied \cup (applied' \ applied) /\ Spooled' = Spooled
    BY <1>1 DEF Spooled
  <2>2. applied' \ applied \in SUBSET Op
    BY <1>0
  <2> QED BY <1>1, <2>1, <2>2
\* Steps that touch nothing the abstract specification sees.
<1>2. ASSUME UNCHANGED <<files, acked, applied>>
      PROVE  UNCHANGED <<Spooled, applied, acked>>
  BY <1>2 DEF Spooled
<1>3. ASSUME NEW r \in Requests, Handler(r)
      PROVE  Durable!Next \/ UNCHANGED <<Spooled, applied, acked>>
  <2>1. CASE Ingest(r) \/ SpoolChunk(r) \/ PersistWrite(r) \/ PersistFail(r)
    BY <1>2, <2>1 DEF Ingest, SpoolChunk, PersistWrite, PersistFail, diskVars, dbVars
  <2>2. CASE UpsertChunk(r)
    <3>1. UNCHANGED <<files, acked>> /\ applied \subseteq applied'
      BY <2>2 DEF UpsertChunk, Upsert, diskVars
    <3> QED BY <1>1, <3>1
  <2>3. CASE PersistRename(r)
    <3>1. name[r] \in Names /\ files[name[r]] = {}
      BY <2>3 DEF IInv, DiskInv, TypeOK, OwnTmp, PersistRename
    <3>2. \A n \in Names : files[n] \subseteq files'[n]
      BY <2>3, <3>1 DEF IInv, TypeOK, PersistRename
    <3>3. Spooled \subseteq Spooled'
      BY <3>2 DEF Spooled
    <3>4. Spooled' = Spooled \cup (Spooled' \ Spooled) /\ Spooled' \ Spooled \in SUBSET Op
      BY <1>0, <3>3
    <3>5. UNCHANGED <<applied, acked>>
      BY <2>3 DEF PersistRename, dbVars
    <3>6. Durable!Hold
      BY <3>4, <3>5
    <3> QED BY <3>6
  <2>4. CASE Respond(r)
    <3>1. acked' = acked \cup done[r] /\ UNCHANGED <<files, applied>>
      BY <2>4 DEF Respond, diskVars, dbVars
    <3>2. done[r] \subseteq applied \cup Spooled
      BY SpooledFiles DEF IInv, DoneSafe, Safe
    <3>3. Spooled' = Spooled
      BY <3>1 DEF Spooled
    <3>4. Durable!Acknowledge
      BY <3>1, <3>2, <3>3
    <3> QED BY <3>4
  <2> QED BY <1>3, <2>1, <2>2, <2>3, <2>4 DEF Handler
<1>4. CASE Flush
  <2>1. CASE FlushRead \/ FlushRewrite
    BY <1>2, <2>1 DEF FlushRead, FlushRewrite, diskVars, dbVars
  <2>2. CASE FlushApply
    <3>1. UNCHANGED <<files, acked>> /\ applied \subseteq applied'
      BY <2>2 DEF FlushApply, Upsert, diskVars
    <3> QED BY <1>1, <3>1
  <2>3. CASE FlushRemove \/ FlushRename
    <3>1. \A n \in Names : files'[n] \subseteq files[n]
      BY <2>3 DEF IInv, DiskInv, TypeOK, FlushSafe, FlushRemove, FlushRename
    <3>2. UNCHANGED <<applied, acked>>
      BY <2>3 DEF FlushRemove, FlushRename, dbVars
    <3>3. \A o \in Spooled : o \in applied \/ o \in Spooled'
      <4>1. \A o \in Spooled : Safe(o)
        BY SpooledFiles DEF Safe
      <4>2. \A o \in Spooled : Safe(o)'
        BY <4>1, SafeKept DEF IInv
      <4> QED BY <3>2, <4>2 DEF Safe, Spooled
    <3>4. Spooled' \subseteq Spooled
      BY <3>1 DEF Spooled
    <3>5. Spooled' = Spooled \ (Spooled \ Spooled')
      BY <3>4
    <3>6. Spooled \ Spooled' \in SUBSET (Spooled \cap applied)
      BY <3>3
    <3>7. Durable!Release
      BY <3>2, <3>5, <3>6
    <3> QED BY <3>7
  <2> QED BY <1>4, <2>1, <2>2, <2>3 DEF Flush
<1>5. CASE Environment \/ UNCHANGED vars
  <2>1. UNCHANGED <<files, applied, acked>>
    BY <1>5 DEF Environment, Crash, Start, DbDown, DbRecover, Tick, vars, diskVars, dbVars
  <2> QED BY <1>2, <2>1
<1> QED BY <1>3, <1>4, <1>5 DEF Next

\* The write path implements durable delivery under the same two assumptions.
THEOREM WritePathImplementsDurable ==
  ASSUME UniqueNames = TRUE, DiskFails = FALSE
  PROVE  Spec => ImplementsDurable
<1>1. Init => Durable!Init
  BY DEF Init, Durable!Init, Spooled
<1>2. IInv /\ IInv' /\ [Next]_vars => [Durable!Next]_<<Spooled, applied, acked>>
  BY StepImplements
<1>3. IInv /\ [Next]_vars => IInv'
  BY NextIInv
<1> QED BY <1>1, <1>2, <1>3, InitIInv, PTL DEF Spec, ImplementsDurable, Durable!Spec
=============================================================================
