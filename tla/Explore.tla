------------------------------ MODULE Explore ------------------------------
(* The map, the record page and the notice before a host's own site          *)
(* (pages/ExternalHost.tsx) under one history, with the outline of the world *)
(* the first two share and the document's head.  A link or a jump from one   *)
(* page to another unmounts the first; between two entries of one page it    *)
(* only changes what the mounted page reads from its address.                *)
EXTENDS MapPage, RecordPage, PageHead

vars == <<historyVars, landVars, mapVars, recordVars, head>>

Entry(page, query) == [page |-> page, query |-> query]

(* The links to the map and to records are on every page, or lead over pages *)
(* that are left out; the link to a host's notice is on its record.          *)
Links == {Entry("map", u) : u \in MapLinked} \cup {Entry("record", s) : s \in Records}
         \cup {Entry("external", s) : s \in IF RecordView = "record" THEN record.shown ELSE {}}

(* The mounted page reads another address. *)
Reads(e) ==
  IF e.page = "map"
  THEN /\ IF LayerOf(e.query) = Layer THEN UNCHANGED <<mapVars, landVars>>
          ELSE Ask(LayerOf(e.query))
       /\ UNCHANGED recordVars
  ELSE IF e.page = "external" THEN UNCHANGED <<landVars, mapVars, recordVars>>
  ELSE /\ IF e.query = Here.query THEN UNCHANGED <<landVars, recordVars>>
          ELSE ChangeRecord(e.query)
       /\ UNCHANGED mapVars

Replaces(e) == \/ e.page = "map" /\ MountMap(e.query) /\ UnmountRecord
               \/ e.page = "record" /\ MountRecord(e.query) /\ UnmountMap
               \/ e.page = "external" /\ UnmountMap /\ UnmountRecord /\ UnmountLand

Show(e) == /\ IF e.page = Here.page THEN Reads(e) ELSE Replaces(e)
           /\ UseMeta(Here, e)

(* A link to the entry the browser is on replaces it by itself. *)
Follow(e) == /\ e.page = Here.page => e.query # Here.query
             /\ Push(e)
             /\ Show(e)

GoTo(i) == i \in DOMAIN entries /\ Jump(i, entries[i]) /\ Show(entries[i])

Land == /\ LandArrives \/ LandFails
        /\ UNCHANGED <<historyVars, mapVars, recordVars, head>>

Init ==
  /\ at = 1
  /\ \/ \E url \in MapLinked :
        /\ entries = <<Entry("map", url)>>
        /\ map = MapStart /\ mapCalls = {MapCall(LayerOf(url))}
        /\ record = RecordClosed /\ recordCalls = {}
        /\ land = "pending" /\ downloads = 1 /\ waiting = TRUE /\ drawn = FALSE
     \/ \E s \in Records :
        /\ entries = <<Entry("record", s)>>
        /\ map = MapStart /\ mapCalls = {}
        /\ record = RecordClosed /\ recordCalls = {RecordCall("record", s)}
        /\ LandInit
     \/ \E s \in Records :
        /\ entries = <<Entry("external", s)>>
        /\ map = MapStart /\ mapCalls = {}
        /\ record = RecordClosed /\ recordCalls = {}
        /\ LandInit
  /\ head = HeadOf(Here)

Next == \/ MapNext /\ UNCHANGED <<recordVars, head>>
        \/ RecordNext /\ UNCHANGED <<mapVars, head>>
        \/ \E e \in Links : Follow(e)
        \/ \E i \in 1 .. MaxEntries : GoTo(i)
        \/ Land

MapAnswers == \E c \in mapCalls : c.alive /\ MapResult(c) /\ UNCHANGED <<recordVars, head>>
RecordAnswers == \E c \in recordCalls : c.alive /\ RecordResult(c) /\ UNCHANGED <<mapVars, head>>
CopyTimers == CopyTimer /\ UNCHANGED <<mapVars, head>>

(* A call whose answer counts ends, or is given up for the next. *)
MapOver ==
  /\ \E c \in mapCalls : c.alive
  /\ \/ MapAnswers
     \/ Next /\ \A c \in mapCalls : c.alive => c \notin mapCalls'

RecordOver ==
  /\ \E c \in recordCalls : c.alive
  /\ \/ RecordAnswers
     \/ Next /\ \A c \in recordCalls : c.alive => c \notin recordCalls'

(* A fetch ends, with an answer or an error, as long as it is not given up,  *)
(* and timers fire.  The debt of one call is not passed to the next, and     *)
(* nothing is assumed of the reader, of the clipboard or of a call whose     *)
(* answer is ignored.                                                        *)
Spec == /\ Init /\ [][Next]_vars
        /\ WF_vars(MapOver) /\ WF_vars(RecordOver) /\ WF_vars(CopyTimers)

-----------------------------------------------------------------------------
(* The head is of the page on the screen: no record is left indexable by the *)
(* page before it nor the map unindexed by a record, and the canonical       *)
(* address is the page's own.  A notice of leaving may carry the address of  *)
(* another: its title does not tell two of them apart (meta.ts:60-81).       *)
HeadInSync ==
  /\ head.title = HeadOf(Here).title /\ head.robots = HeadOf(Here).robots
  /\ \/ head.canonical = HeadOf(Here).canonical
     \/ Here.page = "external" /\ head.canonical[1] = "external"

(* Neither the map nor a record loads for ever for a reader who waits, and no *)
(* label stays.                                                              *)
ExploreSettles == MapSettles /\ RecordSettles

Pages == {Entry("map", u) : u \in MapLinked \cup {MapURL(layer) : layer \in Layers}}
         \cup {Entry(p, s) : p \in {"record", "external"}, s \in Records}

Hosts == {s.host : s \in Records}

MapType == [data : SUBSET [layer : Layers, points : SUBSET Points],
            loading : BOOLEAN, error : BOOLEAN, https : BOOLEAN, http : BOOLEAN,
            sel : SUBSET Points, cluster : SUBSET Points, focus : SUBSET Labels,
            scale : MIN_ZOOM .. MAX_ZOOM]

RecordType == [state : {"loading", "ok", "error"}, shown : SUBSET Records,
               xref : {"unmounted", "loading", "ok", "error"}, facts : SUBSET Facts,
               factsOf : SUBSET Hosts, copying : BOOLEAN, copied : BOOLEAN, timers : Nat]

TypeOK ==
  /\ entries \in Seq(Pages) /\ at \in 1 .. Len(entries)
  /\ land \in {"none", "pending", "ok"} /\ downloads \in Nat
  /\ waiting \in BOOLEAN /\ drawn \in BOOLEAN
  /\ map \in MapType /\ mapCalls \subseteq [layer : Layers, alive : BOOLEAN]
  /\ record \in RecordType
  /\ recordCalls \subseteq [kind : {"record"}, of : Records, alive : BOOLEAN]
                          \cup [kind : {"enrich"}, of : Hosts, alive : BOOLEAN]
=============================================================================
