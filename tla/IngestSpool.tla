---------------------------- MODULE IngestSpool ----------------------------
(***************************************************************************)
(* The collector's write path: concurrent POST /results handlers persist   *)
(* their services in batches, ops MongoDB does not take are spooled to one *)
(* BSON file per Persist call, and a background loop replays the oldest    *)
(* file.  The process may crash at any step; files survive, memory does    *)
(* not.                                                                    *)
(*                                                                         *)
(* A spool file is named by the millisecond of its Persist call and the    *)
(* process id (1 in the container, in every incarnation), so files and the *)
(* temporary files beside them are indexed by the millisecond.  A file     *)
(* with no ops is an absent file: Persist refuses an empty set of ops.     *)
(***************************************************************************)
EXTENDS Integers, FiniteSets

CONSTANTS
    Requests,     \* submissions, each posted at most once
    Services,     \* (ip, port) keys
    Payload,      \* the valid services each submission carries
    BatchSize,    \* cfg.IngestBatchSize
    Rejected,     \* services whose document MongoDB refuses every time
    MaxClock,     \* bound: milliseconds that pass
    MaxCrashes,   \* bound: crashes of the collector
    MaxOutages,   \* bound: outages of MongoDB
    UniqueNames,  \* assumption: no two Persist calls in one millisecond
    DiskFails     \* the spool disk may refuse a write

ASSUME PayloadAssumption == Payload \in [Requests -> SUBSET Services]
ASSUME BoundsAssumption ==
    /\ BatchSize \in Nat \ {0}
    /\ MaxClock \in Nat /\ MaxCrashes \in Nat /\ MaxOutages \in Nat
ASSUME FlagsAssumption == UniqueNames \in BOOLEAN /\ DiskFails \in BOOLEAN
ASSUME RejectedAssumption == Rejected \subseteq Services

VARIABLES
    clock,      \* wall clock, in milliseconds
    up,         \* the collector process runs
    connected,  \* Mongo.results # nil: decided once, by Connect at startup
    dbUp,       \* MongoDB answers
    crashes, outages,
    pc,         \* where each handler is
    now,        \* the instant Ingest read, stored as updated_at
    todo,       \* entries persist has not reached
    spool,      \* the failed ops of the current chunk, being spooled
    name,       \* the file name Persist computed
    done,       \* entries counted in Result.Stored or Result.Buffered
    files, tmp, \* the spool directory: *.bson and *.bson.tmp
    fpc, fpath, fops,   \* flushOnce: its step, path and bf.Ops (or remaining)
    store,      \* updated_at of each stored document, -1 when there is none
    lastName,   \* the last millisecond a Persist call used, -1 for none
    applied,    \* history: ops MongoDB has taken at some time
    acked       \* history: ops whose submission was answered 200

handlerVars == <<pc, now, todo, spool, name, done>>
diskVars == <<files, tmp>>
flushVars == <<fpc, fpath, fops>>
dbVars == <<store, applied>>
procVars == <<up, connected, crashes>>
vars == <<clock, procVars, dbUp, outages, handlerVars, diskVars, flushVars,
          dbVars, lastName, acked>>

Names == 0 .. MaxClock
Op == [svc : Services, req : Requests]

TypeOK ==
    /\ clock \in Names
    /\ up \in BOOLEAN /\ connected \in BOOLEAN /\ dbUp \in BOOLEAN
    /\ crashes \in 0 .. MaxCrashes /\ outages \in 0 .. MaxOutages
    /\ pc \in [Requests -> {"idle", "batch", "write", "rename",
                            "ok", "refused", "broken"}]
    /\ now \in [Requests -> Names]
    /\ todo \in [Requests -> SUBSET Op]
    /\ spool \in [Requests -> SUBSET Op]
    /\ name \in [Requests -> Names]
    /\ done \in [Requests -> SUBSET Op]
    /\ files \in [Names -> SUBSET Op]
    /\ tmp \in [Names -> SUBSET Op]
    /\ fpc \in {"idle", "apply", "remove", "rewrite", "rename"}
    /\ fpath \in Names
    /\ fops \in SUBSET Op
    /\ store \in [Services -> Names \cup {-1}]
    /\ applied \in SUBSET Op
    /\ lastName \in Names \cup {-1}
    /\ acked \in SUBSET Op

Init ==
    /\ clock = 0
    /\ up = TRUE /\ dbUp = TRUE
    /\ connected = TRUE
    /\ crashes = 0 /\ outages = 0
    /\ pc = [r \in Requests |-> "idle"]
    /\ now = [r \in Requests |-> 0]
    /\ todo = [r \in Requests |-> {}]
    /\ spool = [r \in Requests |-> {}]
    /\ name = [r \in Requests |-> 0]
    /\ done = [r \in Requests |-> {}]
    /\ files = [n \in Names |-> {}]
    /\ tmp = [n \in Names |-> {}]
    /\ fpc = "idle" /\ fpath = 0 /\ fops = {}
    /\ store = [s \in Services |-> -1]
    /\ lastName = -1
    /\ applied = {} /\ acked = {}

----------------------------------------------------------------------------
(***************************************************************************)
(* Mongo.BulkUpsert: unordered upserts.  A healthy database takes every op *)
(* but the rejected ones and says so.  During an outage any subset may be  *)
(* applied before the connection breaks; whatever was not applied is       *)
(* reported failed, and an applied op may be reported failed as well.      *)
(***************************************************************************)
\* Mutants: a bulk write of which a part got through counts as a success, an
\* outage reports success, or is waited out.
Outcome_Partly(ops, a, f) ==
    /\ a \subseteq ops /\ (dbUp => a = {o \in ops : o.svc \notin Rejected})
    /\ f = IF a = {} THEN ops ELSE {}
Outcome_Silent(ops, a, f) == a \subseteq ops /\ f = {}
Outcome_Waits(ops, a, f) == dbUp /\ f = {} /\ a = ops

Outcome(ops, a, f) ==
    IF dbUp THEN /\ f = {o \in ops : o.svc \in Rejected}
                 /\ a = ops \ f
            ELSE /\ a \subseteq ops /\ f \subseteq ops
                 /\ ops \ a \subseteq f

\* "$set": the stored document becomes the op's, whichever is newer.
Upsert(a) ==
    /\ applied' = applied \cup a
    /\ store' = [s \in Services |->
                   IF \E o \in a : o.svc = s
                   THEN now[(CHOOSE o \in a : o.svc = s).req]
                   ELSE store[s]]

----------------------------------------------------------------------------
(* The handler: Ingest, then persist chunk by chunk. *)

\* The entries Ingest builds: hosts and ports that do not parse are skipped.
Entries(r) == [svc : Payload[r], req : {r}]

\* Ingest: a payload without a valid service is ErrBadRequest.
Ingest(r) ==
    /\ up /\ pc[r] = "idle"
    /\ now' = [now EXCEPT ![r] = clock]
    /\ IF Entries(r) = {}
       THEN /\ pc' = [pc EXCEPT ![r] = "refused"]
            /\ UNCHANGED todo
       ELSE /\ pc' = [pc EXCEPT ![r] = "batch"]
            /\ todo' = [todo EXCEPT ![r] = Entries(r)]
    /\ UNCHANGED <<clock, procVars, dbUp, outages, spool, name, done, diskVars,
                   flushVars, dbVars, lastName, acked>>

\* The next chunk: entries come from iterating a map, so in any order.
Chunk(r, c) ==
    /\ c \subseteq todo[r]
    /\ Cardinality(c) = IF Cardinality(todo[r]) < BatchSize
                        THEN Cardinality(todo[r]) ELSE BatchSize

\* Available() is false: the whole chunk is buffered.
SpoolChunk(r) ==
    /\ up /\ pc[r] = "batch" /\ todo[r] # {}
    /\ ~connected
    /\ \E c \in SUBSET todo[r] :
         /\ Chunk(r, c)
         /\ todo' = [todo EXCEPT ![r] = @ \ c]
         /\ spool' = [spool EXCEPT ![r] = c]
    /\ pc' = [pc EXCEPT ![r] = "write"]
    /\ UNCHANGED <<clock, procVars, dbUp, outages, now, name, done, diskVars,
                   flushVars, dbVars, lastName, acked>>

\* BulkUpsert: the ops it reports failed go to the spool, the rest are stored.
UpsertChunk(r) ==
    /\ up /\ pc[r] = "batch" /\ todo[r] # {}
    /\ connected
    /\ \E c \in SUBSET todo[r] : \E a, f \in SUBSET c :
         /\ Chunk(r, c) /\ Outcome(c, a, f)
         /\ Upsert(a)
         /\ todo' = [todo EXCEPT ![r] = @ \ c]
         /\ spool' = [spool EXCEPT ![r] = f]
         /\ done' = [done EXCEPT ![r] = @ \cup (c \ f)]
         /\ pc' = [pc EXCEPT ![r] = IF f = {} THEN "batch" ELSE "write"]
    /\ UNCHANGED <<clock, procVars, dbUp, outages, now, name, diskVars,
                   flushVars, lastName, acked>>

\* The millisecond Persist puts in the file name.
FileName == clock

\* Persist: name the file by the clock and write the temporary file.
PersistWrite(r) ==
    /\ up /\ pc[r] = "write"
    /\ UniqueNames => lastName < clock
    /\ name' = [name EXCEPT ![r] = FileName]
    /\ lastName' = FileName
    /\ tmp' = [tmp EXCEPT ![FileName] = spool[r]]
    /\ pc' = [pc EXCEPT ![r] = "rename"]
    /\ UNCHANGED <<clock, procVars, dbUp, outages, now, todo, spool, done,
                   files, flushVars, dbVars, acked>>

\* Rename over whatever has the name.  When another Persist has already
\* renamed the temporary file away it fails, and bufferOps drops the error.
PersistRename(r) ==
    /\ up /\ pc[r] = "rename"
    /\ files' = [files EXCEPT ![name[r]] = IF tmp[name[r]] = {} THEN @ ELSE tmp[name[r]]]
    /\ tmp' = [tmp EXCEPT ![name[r]] = {}]
    /\ done' = [done EXCEPT ![r] = @ \cup spool[r]]
    /\ spool' = [spool EXCEPT ![r] = {}]
    /\ pc' = [pc EXCEPT ![r] = "batch"]
    /\ UNCHANGED <<clock, procVars, dbUp, outages, now, todo, name, flushVars,
                   dbVars, lastName, acked>>

\* The disk refuses the write: bufferOps drops the error, the ops are counted.
PersistFail(r) ==
    /\ up /\ pc[r] = "write" /\ DiskFails
    /\ done' = [done EXCEPT ![r] = @ \cup spool[r]]
    /\ spool' = [spool EXCEPT ![r] = {}]
    /\ pc' = [pc EXCEPT ![r] = "batch"]
    /\ UNCHANGED <<clock, procVars, dbUp, outages, now, todo, name, diskVars,
                   flushVars, dbVars, lastName, acked>>

\* persist returns the counts and the handler answers 200.
Respond(r) ==
    /\ up /\ pc[r] = "batch" /\ todo[r] = {}
    /\ acked' = acked \cup done[r]
    /\ pc' = [pc EXCEPT ![r] = "ok"]
    /\ UNCHANGED <<clock, procVars, dbUp, outages, now, todo, spool, name, done,
                   diskVars, flushVars, dbVars, lastName>>

----------------------------------------------------------------------------
(* flushOnce, run by one goroutine every 15 seconds. *)

\* listFiles()[0]: names sort by time.
Oldest(n) == files[n] # {} /\ \A m \in Names : files[m] # {} => n <= m

\* Available, listFiles, ReadFile.
FlushRead ==
    /\ up /\ fpc = "idle" /\ connected
    /\ \E n \in Names :
         /\ Oldest(n)
         /\ fpath' = n
         /\ fops' = files[n]
    /\ fpc' = "apply"
    /\ UNCHANGED <<clock, procVars, dbUp, outages, handlerVars, diskVars,
                   dbVars, lastName, acked>>

\* BulkUpsert of the file's ops.  A write-concern error reports no failed op
\* and no success either: the file is kept.
FlushApply ==
    /\ up /\ fpc = "apply"
    /\ \E a, f \in SUBSET fops :
         /\ Outcome(fops, a, f)
         /\ Upsert(a)
         /\ \/ f = {} /\ fpc' = "remove" /\ UNCHANGED fops
            \/ f = {} /\ ~dbUp /\ fpc' = "idle" /\ UNCHANGED fops
            \/ f # {} /\ fpc' = "rewrite" /\ fops' = f
    /\ UNCHANGED <<clock, procVars, dbUp, outages, handlerVars, diskVars, fpath,
                   lastName, acked>>

FlushRemove ==
    /\ up /\ fpc = "remove"
    /\ files' = [files EXCEPT ![fpath] = {}]
    /\ fpc' = "idle"
    /\ UNCHANGED <<clock, procVars, dbUp, outages, handlerVars, tmp, fpath, fops,
                   dbVars, lastName, acked>>

\* The failed ops replace the file: temporary file, then rename.
FlushRewrite ==
    /\ up /\ fpc = "rewrite"
    /\ \/ /\ tmp' = [tmp EXCEPT ![fpath] = fops]
          /\ fpc' = "rename"
       \/ /\ DiskFails
          /\ fpc' = "idle" /\ UNCHANGED tmp
    /\ UNCHANGED <<clock, procVars, dbUp, outages, handlerVars, files, fpath,
                   fops, dbVars, lastName, acked>>

FlushRename ==
    /\ up /\ fpc = "rename"
    /\ files' = [files EXCEPT ![fpath] = IF tmp[fpath] = {} THEN @ ELSE tmp[fpath]]
    /\ tmp' = [tmp EXCEPT ![fpath] = {}]
    /\ fpc' = "idle"
    /\ UNCHANGED <<clock, procVars, dbUp, outages, handlerVars, fpath, fops,
                   dbVars, lastName, acked>>

----------------------------------------------------------------------------
(* The process and its environment. *)

\* A crash, or a shutdown that outlives its ten seconds.
Crash ==
    /\ up /\ crashes < MaxCrashes
    /\ up' = FALSE /\ connected' = FALSE
    /\ crashes' = crashes + 1
    /\ pc' = [r \in Requests |-> IF pc[r] \in {"batch", "write", "rename"}
                                 THEN "broken" ELSE pc[r]]
    /\ spool' = [r \in Requests |-> {}]
    /\ fpc' = "idle"
    /\ UNCHANGED <<clock, dbUp, outages, now, todo, name, done, diskVars, fpath,
                   fops, dbVars, lastName, acked>>

\* Connect pings once; without an answer the collections stay nil.
Start ==
    /\ ~up
    /\ up' = TRUE /\ connected' = dbUp
    /\ UNCHANGED <<clock, crashes, dbUp, outages, handlerVars, diskVars,
                   flushVars, dbVars, lastName, acked>>

DbDown ==
    /\ dbUp /\ outages < MaxOutages
    /\ dbUp' = FALSE /\ outages' = outages + 1
    /\ UNCHANGED <<clock, procVars, handlerVars, diskVars, flushVars, dbVars,
                   lastName, acked>>

DbRecover ==
    /\ ~dbUp
    /\ dbUp' = TRUE
    /\ UNCHANGED <<clock, procVars, outages, handlerVars, diskVars, flushVars,
                   dbVars, lastName, acked>>

\* Time is told apart only by the instants the code reads, so a millisecond
\* nobody has read yet is not left: MaxClock then bounds readings, not waiting.
Tick ==
    /\ clock < MaxClock
    /\ \/ lastName = clock
       \/ \E r \in Requests : pc[r] # "idle" /\ now[r] = clock
    /\ clock' = clock + 1
    /\ UNCHANGED <<procVars, dbUp, outages, handlerVars, diskVars, flushVars,
                   dbVars, lastName, acked>>

----------------------------------------------------------------------------
Handler(r) ==
    \/ Ingest(r) \/ SpoolChunk(r) \/ UpsertChunk(r)
    \/ PersistWrite(r) \/ PersistRename(r) \/ PersistFail(r)
    \/ Respond(r)

Flush == FlushRead \/ FlushApply \/ FlushRemove \/ FlushRewrite \/ FlushRename

Environment == Crash \/ Start \/ DbDown \/ DbRecover \/ Tick

Next == (\E r \in Requests : Handler(r)) \/ Flush \/ Environment

Spec == Init /\ [][Next]_vars

(***************************************************************************)
(* Goroutines are scheduled, the ticker ticks, the process supervisor      *)
(* (docker --restart) starts a dead collector.  Nothing makes MongoDB come *)
(* back: a property that needs it says so.                                 *)
(***************************************************************************)
Fairness ==
    /\ \A r \in Requests : WF_vars(Handler(r))
    /\ WF_vars(Flush)
    /\ WF_vars(Start)
    /\ WF_vars(Tick)

FairSpec == Spec /\ Fairness

----------------------------------------------------------------------------
(* Properties. *)

Spooled == UNION {files[n] : n \in Names}

\* The ops submissions can give rise to.
Carried == {o \in Op : o.svc \in Payload[o.req]}

\* A submission answered 200 ("stored" or "buffered") is never lost: each of
\* its services has been written to MongoDB or sits in a spool file, through
\* partial bulk failures, concurrent flushes, rewrites and crashes.
AckedDurable == acked \subseteq applied \cup Spooled

(***************************************************************************)
(* The write path implements durable delivery: an op leaves the spool      *)
(* directory only once MongoDB has taken it, so a crash between BulkUpsert *)
(* and Remove, or in the middle of a rewrite, repeats a write and never    *)
(* skips one; and only what is on disk or delivered is acknowledged.       *)
(***************************************************************************)
Durable == INSTANCE DurableDelivery WITH held <- Spooled
ImplementsDurable == Durable!Spec

\* Even on a disk that refuses writes, an op leaves the spool directory only
\* once MongoDB has taken it: a failed rewrite keeps the whole file.
SpoolLeavesByApply == [][(Spooled \ Spooled') \subseteq applied']_vars

\* "flushing once the database recovers": with MongoDB back for good, every
\* spooled op reaches it.
SpoolDrains ==
    <>[]dbUp => \A o \in Carried : (o \in Spooled) ~> (o \in applied)

\* The same for a collector that found MongoDB at its last start: every op
\* MongoDB does not refuse outright is replayed, through partial flushes and
\* repeated outages.
SpoolDrainsConnected ==
    <>[](dbUp /\ connected) => \A o \in Carried : (o \in Spooled) ~> (o \in applied)

\* Every submission the collector starts on is answered, unless the process
\* dies under it.
EveryRequestAnswered ==
    \A r \in Requests : (pc[r] = "batch") ~> (pc[r] \in {"ok", "broken"})
=============================================================================
