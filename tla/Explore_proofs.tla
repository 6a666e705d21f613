--------------------------- MODULE Explore_proofs ---------------------------
(* Proofs about the map, the record page and their history, for every set of *)
(* layers, records, answers and links, every number of entries and calls.    *)
(* The invariant IInv adds to the properties what makes them inductive: a    *)
(* live call is for what the address asks, and a page that is not mounted    *)
(* has neither state nor calls.                                              *)
EXTENDS Explore, SequenceTheorems, FiniteSetTheorems, TLAPS

(* Whatever the address says, the layer is one of the twelve. *)
LEMMA LayerTyped ==
  ASSUME NEW url
  PROVE  LayerOf(url) \in [mode : MapModes, hours : Windows]
  BY DEF LayerOf, MapModes, Windows

(* The address written for a layer asks for that layer. *)
LEMMA LayerRoundTrip ==
  ASSUME NEW layer \in Layers
  PROVE  LayerOf(MapURL(layer)) = layer
  <1>1. layer \in [mode : MapModes, hours : Windows]
    BY LayerTyped DEF Layers
  <1>2. MapURL(layer) = [p \in DOMAIN MapURL(layer) |-> IF p = "layer" THEN layer.mode ELSE layer.hours]
    BY DEF MapURL
  <1>3. /\ "layer" \in DOMAIN MapURL(layer) <=> layer.mode # "observations"
        /\ "window" \in DOMAIN MapURL(layer) <=> layer.hours # "24"
    BY DEF MapURL
  <1>4. /\ LayerOf(MapURL(layer)).mode = layer.mode
        /\ LayerOf(MapURL(layer)).hours = layer.hours
    BY <1>1, <1>2, <1>3 DEF LayerOf, MapModes, Windows
  <1> QED
    BY <1>1, <1>4, LayerTyped

-----------------------------------------------------------------------------
(* What links lead to, and what the map writes, are pages; of each, its      *)
(* address names a layer or a record.                                        *)
LEMMA UrlPage ==
  /\ \A u \in MapLinked : Entry("map", u) \in Pages
  /\ \A layer \in Layers : Entry("map", MapURL(layer)) \in Pages
  /\ \A p \in {"record", "external"}, s \in Records : Entry(p, s) \in Pages
  BY DEF Pages

LEMMA PageIs ==
  ASSUME NEW e \in Pages
  PROVE  /\ e = [page |-> e.page, query |-> e.query]
         /\ e.page \in {"map", "record", "external"}
         /\ e.page = "map" => LayerOf(e.query) \in Layers
         /\ e.page # "map" => e.query \in Records
  <1>1. CASE \E u \in MapLinked : e = Entry("map", u)
    BY <1>1 DEF Entry, Layers
  <1>2. CASE \E layer \in Layers : e = Entry("map", MapURL(layer))
    BY <1>2, LayerRoundTrip DEF Entry
  <1>3. CASE \E p \in {"record", "external"}, s \in Records : e = Entry(p, s)
    BY <1>3 DEF Entry
  <1> QED
    BY <1>1, <1>2, <1>3 DEF Pages

(* A link, and a rewrite of one entry, leave a history of pages. *)
LEMMA PushHere ==
  ASSUME entries \in Seq(Pages), at \in 1 .. Len(entries), NEW e \in Pages, Push(e)
  PROVE  entries' \in Seq(Pages) /\ at' \in 1 .. Len(entries') /\ Here' = e
  <1> DEFINE kept == SubSeq(entries, 1, at)
  <1>1. kept \in Seq(Pages) /\ Len(kept) = at
    <2>1. \A i \in 1 .. at : entries[i] \in Pages
      OBVIOUS
    <2> QED
      BY <2>1, SubSeqProperties
  <1>2. entries' = Append(kept, e) /\ at' = at + 1
    BY DEF Push
  <1>3. Len(Append(kept, e)) = at + 1 /\ Append(kept, e)[at + 1] = e
    BY <1>1
  <1> QED
    BY <1>1, <1>2, <1>3 DEF Here

LEMMA ReplaceHere ==
  ASSUME entries \in Seq(Pages), NEW e \in Pages, NEW i \in 1 .. Len(entries),
         entries' = [entries EXCEPT ![i] = e], at' = i
  PROVE  entries' \in Seq(Pages) /\ at' \in 1 .. Len(entries') /\ Here' = e
  BY DEF Here

-----------------------------------------------------------------------------
(* SelectionVisible of any state of the map. *)
SelectionOf(m) ==
  /\ Keys(m.sel) \subseteq Keys(Visible(m))
  /\ Keys(m.cluster) \subseteq Keys(Visible(m))
  /\ m.sel = {} \/ m.cluster = {}
  /\ m.https \/ m.http

(* The effect after every render restores it, and keeps what was answered. *)
LEMMA ConsistentSelection ==
  ASSUME NEW m \in MapType, m.sel = {} \/ m.cluster = {}, m.https \/ m.http
  PROVE  /\ Consistent(m) \in MapType
         /\ SelectionOf(Consistent(m))
         /\ Consistent(m).data = m.data
         /\ Consistent(m).loading = m.loading
         /\ Consistent(m).error = m.error
  <1> DEFINE c == Consistent(m)
  <1>1. /\ c.data = m.data /\ c.loading = m.loading /\ c.error = m.error
        /\ c.https = m.https /\ c.http = m.http /\ c.focus = m.focus /\ c.scale = m.scale
        /\ c.sel = {p \in m.sel : p.key \in Keys(Visible(m))}
        /\ c.cluster = IF Keys(m.cluster) \subseteq Keys(Visible(m)) THEN m.cluster ELSE {}
        /\ c = [m EXCEPT !.sel = c.sel, !.cluster = c.cluster]
    BY DEF Consistent, MapType
  <1>2. Visible(c) = Visible(m)
    BY <1>1 DEF Visible, Focused, Entries
  <1>3. Keys(c.sel) \subseteq Keys(Visible(m))
    BY <1>1 DEF Keys
  <1>4. Keys(c.cluster) \subseteq Keys(Visible(m))
    BY <1>1 DEF Keys
  <1>5. c.sel = {} \/ c.cluster = {}
    BY <1>1
  <1>6. c \in MapType
    BY <1>1 DEF MapType
  <1> QED
    BY <1>1, <1>2, <1>3, <1>4, <1>5, <1>6 DEF SelectionOf

LEMMA StartSelection ==
  MapStart \in MapType /\ SelectionOf(MapStart)
  <1>1. MapStart \in MapType
    BY MapAssumption DEF MapStart, MapType, MIN_ZOOM
  <1>2. Keys({}) = {}
    BY DEF Keys
  <1> QED
    BY <1>1, <1>2 DEF MapStart, SelectionOf

-----------------------------------------------------------------------------
(* Only a call for the layer above the map may still draw on it. *)
MapInv ==
  MapOpen => /\ \A c \in mapCalls : c.alive => c.layer = Layer
             /\ ~map.loading /\ ~map.error =>
                  \E d \in map.data : map.data = {d} /\ d.layer = Layer

(* Only the call for the record the address names, or for its host, may      *)
(* still change the page.                                                    *)
RecordInv ==
  IF RecordOpen
  THEN /\ \A c \in recordCalls : c.alive =>
            \/ record.state = "loading" /\ c = RecordCall("record", Here.query)
            \/ record.state = "ok" /\ c = RecordCall("enrich", Here.query.host)
       /\ record.state = "loading" => record.factsOf = {} /\ record.xref = "unmounted"
       /\ record.state = "ok" => record.shown = {Here.query}
       /\ record.factsOf \subseteq {Here.query.host}
       /\ record.xref = "ok" => record.factsOf # {}
  ELSE record = RecordClosed /\ recordCalls = {}

LandOK == /\ land \in {"none", "pending", "ok"} /\ downloads \in Nat
          /\ waiting \in BOOLEAN /\ drawn \in BOOLEAN
          /\ LandOnce

(* A map that is not mounted has no state. *)
MapClosed == ~MapOpen => map = MapStart /\ mapCalls = {}

IInv == /\ TypeOK /\ SelectionVisible /\ LandOnce /\ HeadInSync
        /\ MapClosed /\ MapInv /\ RecordInv

MapCallType == [layer : Layers, alive : BOOLEAN]

RecordCallType == [kind : {"record"}, of : Records, alive : BOOLEAN]
                  \cup [kind : {"enrich"}, of : Hosts, alive : BOOLEAN]

(* The outline: each of its operations keeps the one-download invariant. *)
LEMMA LandSteps ==
  ASSUME LandOK
  PROVE  /\ LoadLand => LandOK'
         /\ UnmountLand => LandOK'
         /\ LandArrives => LandOK'
         /\ LandFails => LandOK'
         /\ UNCHANGED landVars => LandOK'
  <1> DEFINE Bools == waiting \in BOOLEAN /\ drawn \in BOOLEAN
             Draws == (waiting => land = "pending") /\ (drawn => land = "ok")
             Count == /\ land \in {"none", "pending", "ok"}
                      /\ downloads = IF land = "pending" THEN 1 ELSE 0
  <1>1. Count /\ Bools /\ Draws
    BY DEF LandOK, LandOnce
  <1>2. Count' /\ Bools' /\ Draws' => LandOK'
    BY DEF LandOK, LandOnce
  <1>3. LoadLand => LandOK'
    <2>1. LoadLand => Count'
      <3>1. LoadLand => /\ land' = IF land = "none" THEN "pending" ELSE land
                        /\ downloads' = IF land = "none" THEN downloads + 1 ELSE downloads
        BY DEF LoadLand
      <3> QED
        BY <1>1, <3>1
    <2>2. LoadLand => Bools'
      BY Zenon DEF LoadLand
    <2>3. LoadLand => Draws'
      BY <1>1, Zenon DEF LoadLand
    <2> QED
      BY <1>2, <2>1, <2>2, <2>3
  <1>4. UnmountLand => LandOK'
    BY <1>1, <1>2 DEF UnmountLand
  <1>5. LandArrives => LandOK'
    <2>1. LandArrives => land' = "ok" /\ downloads' = downloads - 1 /\ downloads > 0
      BY DEF LandArrives
    <2>2. LandArrives => waiting' = FALSE /\ drawn' \in BOOLEAN
      BY <1>1, Zenon DEF LandArrives
    <2>3. LandArrives => Count'
      BY <1>1, <2>1
    <2> QED
      BY <1>2, <2>1, <2>2, <2>3
  <1>6. LandFails => LandOK'
    <2>1. LandFails => /\ land' = "none" /\ downloads' = downloads - 1 /\ downloads > 0
                       /\ waiting' = FALSE /\ drawn' = drawn
      BY DEF LandFails
    <2>2. LandFails => Count'
      BY <1>1, <2>1
    <2>3. LandFails => land = "pending"
      BY <1>1, <2>1
    <2>4. LandFails => Draws' /\ Bools'
      BY <1>1, <2>1, <2>3, Zenon
    <2> QED
      BY <1>2, <2>2, <2>4
  <1>7. UNCHANGED landVars => LandOK'
    BY <1>1, <1>2 DEF landVars
  <1> QED
    BY <1>3, <1>4, <1>5, <1>6, <1>7

(* Cleanup leaves no call alive. *)
LEMMA SupersededCalls ==
  /\ \A calls \in SUBSET MapCallType :
       /\ Superseded(calls) \subseteq MapCallType
       /\ \A c \in Superseded(calls) : ~c.alive
  /\ \A calls \in SUBSET RecordCallType :
       /\ Superseded(calls) \subseteq RecordCallType
       /\ \A c \in Superseded(calls) : ~c.alive
  <1>1. \A c \in MapCallType :
          [c EXCEPT !.alive = FALSE] \in MapCallType /\ ~[c EXCEPT !.alive = FALSE].alive
    BY DEF MapCallType
  <1>3. \A c \in RecordCallType :
          [c EXCEPT !.alive = FALSE] \in RecordCallType /\ ~[c EXCEPT !.alive = FALSE].alive
    BY DEF RecordCallType
  <1>2. ASSUME NEW calls, NEW c \in Superseded(calls)
        PROVE  \E b \in calls : c = [b EXCEPT !.alive = FALSE]
    BY DEF Superseded
  <1>4. ASSUME NEW calls \in SUBSET MapCallType, NEW c \in Superseded(calls)
        PROVE  c \in MapCallType /\ ~c.alive
    <2>1. PICK b \in calls : c = [b EXCEPT !.alive = FALSE]
      BY <1>2
    <2> QED
      BY <1>1, <2>1
  <1>5. ASSUME NEW calls \in SUBSET RecordCallType, NEW c \in Superseded(calls)
        PROVE  c \in RecordCallType /\ ~c.alive
    <2>1. PICK b \in calls : c = [b EXCEPT !.alive = FALSE]
      BY <1>2
    <2> QED
      BY <1>3, <2>1
  <1> QED
    BY <1>4, <1>5

(* A step of the mounted map alone has to keep only the map's conjuncts. *)
LEMMA MapFrame ==
  ASSUME IInv, MapOpen, UNCHANGED <<historyVars, recordVars, head>>,
         map' \in MapType, SelectionOf(map'), mapCalls' \subseteq MapCallType,
         LandOK', MapInv'
  PROVE  IInv'
  <1>1. Here' = Here
    BY DEF historyVars, Here
  <1>2. TypeOK'
    BY DEF IInv, TypeOK, LandOK, historyVars, recordVars, MapCallType
  <1>3. SelectionVisible' /\ LandOnce'
    BY DEF SelectionVisible, SelectionOf, LandOK
  <1>4. HeadInSync'
    BY <1>1 DEF IInv, HeadInSync
  <1>5. RecordInv'
    BY <1>1 DEF IInv, RecordInv, MapOpen, RecordOpen, recordVars
  <1>6. MapClosed'
    BY <1>1 DEF MapClosed, MapOpen
  <1> QED
    BY <1>2, <1>3, <1>4, <1>5, <1>6 DEF IInv

(* A change of the page's own state that leaves the answer alone. *)
LEMMA RenderStep ==
  ASSUME IInv, NEW m \in MapType, m.sel = {} \/ m.cluster = {}, m.https \/ m.http,
         m.data = map.data, m.loading = map.loading, m.error = map.error,
         Render(m), UNCHANGED <<recordVars, head>>
  PROVE  IInv'
  <1>1. /\ map' \in MapType /\ SelectionOf(map')
        /\ map'.data = map.data /\ map'.loading = map.loading /\ map'.error = map.error
    BY ConsistentSelection DEF Render
  <1>2. LandOK'
    BY LandSteps DEF IInv, TypeOK, LandOK, Render
  <1>3. MapInv'
    BY <1>1 DEF IInv, MapInv, Render, MapOpen, Layer, Here, historyVars
  <1>4. mapCalls' \subseteq MapCallType
    BY DEF Render, IInv, TypeOK, MapCallType
  <1> QED
    BY <1>1, <1>2, <1>3, <1>4, MapFrame DEF Render

LEMMA ClampScale ==
  \A n \in Int : Clamp(n) \in MIN_ZOOM .. MAX_ZOOM
  BY MapAssumption DEF Clamp, Lesser, Greater, MIN_ZOOM

LEMMA HereIsPage ==
  ASSUME IInv
  PROVE  /\ Here \in Pages /\ at \in DOMAIN entries
         /\ MapOpen => Layer \in Layers
         /\ RecordOpen => Here.query \in Records
         /\ ~(MapOpen /\ RecordOpen)
  <1>1. Here \in Pages
    BY DEF IInv, TypeOK, Here
  <1> QED
    BY <1>1, PageIs DEF IInv, TypeOK, MapOpen, RecordOpen, Layer

(* After a fetch effect only the new call counts. *)
LEMMA AskStep ==
  ASSUME IInv, NEW layer \in Layers, Ask(layer)
  PROVE  /\ map' \in MapType /\ SelectionOf(map')
         /\ map'.loading
         /\ mapCalls' \subseteq MapCallType
         /\ \A c \in mapCalls' : c.alive => c.layer = layer
         /\ LandOK'
  <1>1. map \in MapType /\ mapCalls \subseteq MapCallType
    BY DEF IInv, TypeOK, MapCallType
  <1>2. /\ map' \in MapType /\ map'.loading = TRUE
        /\ map'.sel = {} /\ map'.cluster = {}
        /\ map'.https = map.https /\ map'.http = map.http
    BY <1>1 DEF Ask, MapType
  <1>3. SelectionOf(map')
    <2>1. Keys({}) = {}
      BY DEF Keys
    <2> QED
      BY <1>2, <2>1 DEF SelectionOf, IInv, SelectionVisible
  <1>4. mapCalls' = Superseded(mapCalls) \cup {MapCall(layer)}
    BY DEF Ask
  <1>5. MapCall(layer) \in MapCallType /\ MapCall(layer).layer = layer
    BY DEF MapCall, MapCallType
  <1>6. Superseded(mapCalls) \subseteq MapCallType /\ \A c \in Superseded(mapCalls) : ~c.alive
    BY <1>1, SupersededCalls
  <1>7. LandOK'
    BY LandSteps DEF IInv, TypeOK, LandOK, Ask
  <1> QED
    BY <1>2, <1>3, <1>4, <1>5, <1>6, <1>7

LEMMA ChooseLayerStep ==
  ASSUME IInv, NEW layer \in Layers, ChooseLayer(layer), UNCHANGED <<recordVars, head>>
  PROVE  IInv'
  <1> DEFINE e == Entry("map", MapURL(layer))
  <1>1. entries' = [entries EXCEPT ![at] = e] /\ at' = at /\ MapOpen
    BY DEF ChooseLayer, Rewrite, Entry
  <1>2. entries' \in Seq(Pages) /\ at' \in 1 .. Len(entries') /\ Here' = e
    BY <1>1, UrlPage, ReplaceHere DEF IInv, TypeOK
  <1>3. Layer' = layer /\ MapOpen' /\ ~RecordOpen' /\ ~RecordOpen
    BY <1>1, <1>2, LayerRoundTrip DEF Layer, MapOpen, RecordOpen, Entry
  <1>4. /\ map' \in MapType /\ SelectionOf(map') /\ map'.loading
        /\ mapCalls' \subseteq MapCallType /\ \A c \in mapCalls' : c.alive => c.layer = layer
        /\ LandOK'
    BY AskStep DEF ChooseLayer
  <1>5. TypeOK'
    BY <1>2, <1>4 DEF IInv, TypeOK, LandOK, recordVars, MapCallType
  <1>6. SelectionVisible' /\ LandOnce'
    BY <1>4 DEF SelectionVisible, SelectionOf, LandOK
  <1>7. HeadInSync'
    BY <1>1, <1>2 DEF IInv, HeadInSync, HeadOf, Meta, Pathname, MapOpen, Entry
  <1>8. MapInv' /\ RecordInv'
    BY <1>3, <1>4 DEF IInv, MapInv, RecordInv, recordVars
  <1>9. MapClosed'
    BY <1>3 DEF MapClosed
  <1> QED
    BY <1>5, <1>6, <1>7, <1>8, <1>9 DEF IInv

LEMMA MapRetryStep ==
  ASSUME IInv, MapRetry, UNCHANGED <<recordVars, head>>
  PROVE  IInv'
  <1>1. MapOpen /\ Layer \in Layers
    BY HereIsPage DEF MapRetry
  <1>2. /\ map' \in MapType /\ SelectionOf(map') /\ map'.loading
        /\ mapCalls' \subseteq MapCallType /\ \A c \in mapCalls' : c.alive => c.layer = Layer
        /\ LandOK'
    BY <1>1, AskStep DEF MapRetry
  <1>3. Layer' = Layer
    BY DEF MapRetry, historyVars, Layer, Here
  <1>4. MapInv'
    BY <1>2, <1>3 DEF MapInv
  <1> QED
    BY <1>1, <1>2, <1>4, MapFrame DEF MapRetry

LEMMA MapResultStep ==
  ASSUME IInv, MapOpen, NEW c \in mapCalls, MapResult(c), UNCHANGED <<recordVars, head>>
  PROVE  IInv'
  <1>1. /\ map \in MapType /\ mapCalls \subseteq MapCallType /\ c \in MapCallType
        /\ map.sel = {} \/ map.cluster = {}
        /\ map.https \/ map.http
    BY DEF IInv, TypeOK, MapCallType, SelectionVisible
  <1>2. UNCHANGED historyVars /\ mapCalls' = mapCalls \ {c}
    BY DEF MapResult, MapAnswer, MapFail
  <1>3. Layer' = Layer /\ MapOpen'
    BY <1>2 DEF historyVars, Layer, Here, MapOpen
  <1>4. LandOK'
    BY LandSteps DEF IInv, TypeOK, LandOK, MapResult, MapAnswer, MapFail
  <1>5. \A d \in mapCalls' : d.alive => d.layer = Layer'
    BY <1>2, <1>3 DEF IInv, MapInv
  <1>6. CASE map' = map
    BY <1>1, <1>2, <1>3, <1>4, <1>5, <1>6, MapFrame
       DEF IInv, MapInv, SelectionVisible, SelectionOf
  <1>7. ASSUME NEW points \in Answers[c.layer], MapAnswer(c, points), c.alive
        PROVE  IInv'
    <2> DEFINE d == [layer |-> c.layer, points |-> points]
               m == [map EXCEPT !.data = {d}, !.loading = FALSE]
    <2>1. points \in SUBSET Points /\ c.layer \in Layers /\ c.layer = Layer
      BY <1>1, <1>7, AnswersAssumption DEF IInv, MapInv, MapCallType
    <2>6. {d} \in SUBSET [layer : Layers, points : SUBSET Points]
      BY <2>1
    <2>2. m \in MapType /\ m.data = {d} /\ m.loading = FALSE
      <3> HIDE DEF d
      <3> QED
        BY <1>1, <2>6 DEF MapType
    <2>3. (m.sel = {} \/ m.cluster = {}) /\ (m.https \/ m.http)
      BY <1>1 DEF MapType
    <2>4. map' = Consistent(m)
      BY <1>7 DEF MapAnswer
    <2>5. map' \in MapType /\ SelectionOf(map') /\ map'.data = {d}
      BY <2>2, <2>3, <2>4, ConsistentSelection
    <2>7. MapInv'
      BY <1>3, <1>5, <2>1, <2>5 DEF MapInv
    <2> QED
      BY <1>1, <1>2, <1>4, <2>5, <2>7, MapFrame
  <1>8. ASSUME MapFail(c), c.alive
        PROVE  IInv'
    <2>1. /\ map' \in MapType /\ map'.error = TRUE
          /\ map'.sel = map.sel /\ map'.cluster = map.cluster /\ map'.data = map.data
          /\ map'.https = map.https /\ map'.http = map.http /\ map'.focus = map.focus
      <3>1. MIN_ZOOM \in MIN_ZOOM .. MAX_ZOOM
        BY MapAssumption DEF MIN_ZOOM
      <3>2. map' = [map EXCEPT !.error = TRUE, !.loading = FALSE,
                               !.scale = IF map.data = {} THEN MIN_ZOOM ELSE @]
        BY <1>8 DEF MapFail
      <3> QED
        BY <1>1, <3>1, <3>2 DEF MapType
    <2>2. Visible(map') = Visible(map)
      BY <2>1 DEF Visible, Focused, Entries
    <2>3. SelectionOf(map')
      BY <2>1, <2>2 DEF IInv, SelectionVisible, SelectionOf
    <2>4. MapInv'
      BY <1>3, <1>5, <2>1 DEF MapInv
    <2> QED
      BY <1>1, <1>2, <1>4, <2>1, <2>3, <2>4, MapFrame
  <1> QED
    BY <1>6, <1>7, <1>8 DEF MapResult, MapAnswer, MapFail

LEMMA MapSteps ==
  ASSUME IInv, MapNext, UNCHANGED <<recordVars, head>>
  PROVE  IInv'
  <1>1. /\ map \in MapType
        /\ map.sel = {} \/ map.cluster = {}
        /\ map.https \/ map.http
    BY DEF IInv, TypeOK, SelectionVisible
  <1>2. ASSUME NEW layer \in Layers, ChooseLayer(layer)
        PROVE  IInv'
    BY <1>2, ChooseLayerStep
  <1>3. ASSUME MapRetry
        PROVE  IInv'
    BY <1>3, MapRetryStep
  <1>4. ASSUME NEW c \in mapCalls, MapResult(c)
        PROVE  IInv'
    <2>1. MapOpen
      BY <1>4 DEF IInv, MapClosed
    <2> QED
      BY <1>4, <2>1, MapResultStep
  <1>5. ASSUME ToggleHTTPS
        PROVE  IInv'
    <2> DEFINE m == [map EXCEPT !.https = IF @ /\ ~map.http THEN @ ELSE ~@]
    <2>1. /\ m \in MapType /\ m.sel = map.sel /\ m.cluster = map.cluster
          /\ m.data = map.data /\ m.loading = map.loading /\ m.error = map.error
      BY <1>1 DEF MapType
    <2>2. m.https \/ m.http
      BY <1>1 DEF MapType
    <2>3. Render(m)
      BY <1>5 DEF ToggleHTTPS
    <2> QED
      BY <1>1, <2>1, <2>2, <2>3, RenderStep
  <1>6. ASSUME ToggleHTTP
        PROVE  IInv'
    <2> DEFINE m == [map EXCEPT !.http = IF @ /\ ~map.https THEN @ ELSE ~@]
    <2>1. /\ m \in MapType /\ m.sel = map.sel /\ m.cluster = map.cluster
          /\ m.data = map.data /\ m.loading = map.loading /\ m.error = map.error
      BY <1>1 DEF MapType
    <2>2. m.https \/ m.http
      BY <1>1 DEF MapType
    <2>3. Render(m)
      BY <1>6 DEF ToggleHTTP
    <2> QED
      BY <1>1, <2>1, <2>2, <2>3, RenderStep
  <1>7. ASSUME NEW focus \in SUBSET Labels, Render([map EXCEPT !.focus = focus])
        PROVE  IInv'
    <2> DEFINE m == [map EXCEPT !.focus = focus]
    <2>1. /\ m \in MapType /\ m.sel = map.sel /\ m.cluster = map.cluster
          /\ m.data = map.data /\ m.loading = map.loading /\ m.error = map.error
          /\ m.https = map.https /\ m.http = map.http
      BY <1>1 DEF MapType
    <2> QED
      BY <1>1, <1>7, <2>1, RenderStep
  <1>8. ASSUME NEW sel \in SUBSET Points, NEW cluster \in SUBSET Points, sel = {} \/ cluster = {},
               Render([map EXCEPT !.sel = sel, !.cluster = cluster])
        PROVE  IInv'
    <2> DEFINE m == [map EXCEPT !.sel = sel, !.cluster = cluster]
    <2>1. /\ m \in MapType /\ m.sel = sel /\ m.cluster = cluster
          /\ m.data = map.data /\ m.loading = map.loading /\ m.error = map.error
          /\ m.https = map.https /\ m.http = map.http
      BY <1>1 DEF MapType
    <2> QED
      BY <1>1, <1>8, <2>1, RenderStep
  <1>9. ASSUME NEW scale \in MIN_ZOOM .. MAX_ZOOM, Render([map EXCEPT !.scale = scale])
        PROVE  IInv'
    <2> DEFINE m == [map EXCEPT !.scale = scale]
    <2>1. /\ m \in MapType /\ m.sel = map.sel /\ m.cluster = map.cluster
          /\ m.data = map.data /\ m.loading = map.loading /\ m.error = map.error
          /\ m.https = map.https /\ m.http = map.http
      BY <1>1 DEF MapType
    <2> QED
      BY <1>1, <1>9, <2>1, RenderStep
  <1>10. map.scale \in Int /\ map.sel \in SUBSET Points /\ map.cluster \in SUBSET Points
    BY <1>1, MapAssumption DEF MapType, MIN_ZOOM
  <1>11. ASSUME NEW label \in Labels, FocusOn(label)
         PROVE  IInv'
    BY <1>7, <1>11 DEF FocusOn
  <1>12. ASSUME ClearFocus
         PROVE  IInv'
    BY <1>7, <1>12 DEF ClearFocus
  <1>13. ASSUME NEW p \in Points, Activate(p)
         PROVE  IInv'
    <2>1. ClusterOf(p) \in SUBSET Points
      BY <1>1 DEF ClusterOf, Visible, Focused, Entries, MapType
    <2>2. Clamp(Greater((map.scale * 190) \div 100, 200)) \in MIN_ZOOM .. MAX_ZOOM
      BY <1>10, ClampScale DEF Greater
    <2>3. \/ Render([map EXCEPT !.scale = Clamp(Greater((map.scale * 190) \div 100, 200))])
          \/ Render([map EXCEPT !.sel = {}, !.cluster = ClusterOf(p)])
          \/ Render([map EXCEPT !.sel = {p}, !.cluster = {}])
      BY <1>13, Zenon DEF Activate, Activated
    <2> QED
      BY <1>8, <1>9, <2>1, <2>2, <2>3
  <1>14. ASSUME NEW p \in Points, PickFromList(p)
         PROVE  IInv'
    BY <1>8, <1>14 DEF PickFromList
  <1>15. ASSUME CloseSidebar
         PROVE  IInv'
    <2>1. Render([map EXCEPT !.sel = {},
                             !.cluster = IF Sidebar = "list" THEN {} ELSE map.cluster])
      BY <1>15 DEF CloseSidebar
    <2> QED
      BY <1>8, <1>10, <2>1
  <1>16. ASSUME NEW factor \in Zooms, Zoom(factor)
         PROVE  IInv'
    <2>1. (map.scale * factor[1]) \div factor[2] \in Int
      BY <1>10, MapAssumption
    <2>2. Clamp((map.scale * factor[1]) \div factor[2]) \in MIN_ZOOM .. MAX_ZOOM
      BY <2>1, ClampScale
    <2> QED
      BY <1>9, <1>16, <2>2 DEF Zoom
  <1>17. ASSUME ResetView
         PROVE  IInv'
    <2>1. MIN_ZOOM \in MIN_ZOOM .. MAX_ZOOM
      BY MapAssumption DEF MIN_ZOOM
    <2> QED
      BY <1>9, <1>17, <2>1 DEF ResetView
  <1> QED
    BY <1>2, <1>3, <1>4, <1>5, <1>6, <1>11, <1>12, <1>13, <1>14, <1>15, <1>16, <1>17 DEF MapNext

-----------------------------------------------------------------------------
(* A step of the mounted record page has to keep only its conjuncts. *)
LEMMA RecordFrame ==
  ASSUME IInv, RecordOpen, UNCHANGED <<historyVars, mapVars, head>>,
         record' \in RecordType, recordCalls' \subseteq RecordCallType,
         LandOK', RecordInv'
  PROVE  IInv'
  <1>1. Here' = Here
    BY DEF historyVars, Here
  <1>2. TypeOK'
    BY DEF IInv, TypeOK, LandOK, historyVars, mapVars, RecordCallType
  <1>3. SelectionVisible' /\ LandOnce'
    BY DEF IInv, SelectionVisible, Visible, Focused, Entries, LandOK, mapVars
  <1>4. HeadInSync'
    BY <1>1 DEF IInv, HeadInSync
  <1>5. MapInv' /\ MapClosed'
    BY <1>1 DEF IInv, MapInv, MapClosed, MapOpen, RecordOpen, mapVars
  <1> QED
    BY <1>2, <1>3, <1>4, <1>5 DEF IInv

LEMMA RecordCallTyped ==
  /\ \A s \in Records : RecordCall("record", s) \in RecordCallType
  /\ \A s \in Records : RecordCall("enrich", s.host) \in RecordCallType
  /\ \A c \in RecordCallType : c.kind = "record" => c.of \in Records
  BY DEF RecordCall, RecordCallType, Hosts

LEMMA RecordAnswerStep ==
  ASSUME IInv, RecordOpen, NEW c \in recordCalls, RecordAnswer(c), UNCHANGED <<mapVars, head>>
  PROVE  IInv'
  <1>1. /\ record \in RecordType /\ recordCalls \subseteq RecordCallType
        /\ c \in RecordCallType /\ c.kind = "record"
    BY DEF IInv, TypeOK, RecordCallType, RecordAnswer
  <1>2. UNCHANGED historyVars /\ Here' = Here /\ RecordOpen'
    BY DEF RecordAnswer, historyVars, Here, RecordOpen
  <1>3. LandOK'
    BY LandSteps, Zenon DEF IInv, TypeOK, LandOK, RecordAnswer, landVars
  <1>4. CASE ~c.alive
    <2>1. UNCHANGED record /\ recordCalls' = recordCalls \ {c}
      BY <1>4 DEF RecordAnswer
    <2>2. RecordInv'
      BY <1>2, <2>1 DEF IInv, RecordInv
    <2> QED
      BY <1>1, <1>2, <1>3, <2>1, <2>2, RecordFrame
  <1>5. CASE c.alive
    <2> DEFINE s == Here.query
    <2>1. c = RecordCall("record", s) /\ record.state = "loading"
      BY <1>1, <1>5 DEF IInv, RecordInv, RecordCall
    <2>2. c.of = s /\ s \in Records
      BY <2>1, HereIsPage DEF RecordCall
    <2>3. record' = [record EXCEPT !.state = "ok", !.shown = {s}, !.xref = "loading"]
      BY <1>5, <2>2 DEF RecordAnswer
    <2>4. recordCalls' = (recordCalls \ {c}) \cup {RecordCall("enrich", s.host)}
      BY <1>5, <2>2 DEF RecordAnswer
    <2>5. /\ record' \in RecordType
          /\ record'.state = "ok" /\ record'.shown = {s} /\ record'.xref = "loading"
          /\ record'.factsOf = record.factsOf
      BY <1>1, <2>2, <2>3 DEF RecordType
    <2>6. recordCalls' \subseteq RecordCallType
      BY <1>1, <2>2, <2>4, RecordCallTyped
    <2>7. \A d \in recordCalls' : d.alive => d = RecordCall("enrich", s.host)
      <3>1. \A d \in recordCalls \ {c} : ~d.alive
        BY <2>1 DEF IInv, RecordInv
      <3> QED
        BY <2>4, <3>1
    <2>8. RecordInv'
      BY <1>2, <2>5, <2>7 DEF IInv, RecordInv
    <2> QED
      BY <1>2, <1>3, <2>5, <2>6, <2>8, RecordFrame
  <1> QED
    BY <1>4, <1>5

LEMMA OtherResultStep ==
  ASSUME IInv, RecordOpen, NEW c \in recordCalls, UNCHANGED <<mapVars, head>>,
         \/ RecordFail(c) \/ EnrichFail(c)
         \/ \E facts \in Enrichments : EnrichAnswer(c, facts)
  PROVE  IInv'
  <1>1. /\ record \in RecordType /\ recordCalls \subseteq RecordCallType
        /\ c \in RecordCallType
    BY DEF IInv, TypeOK, RecordCallType
  <1>2. /\ UNCHANGED historyVars /\ Here' = Here /\ RecordOpen'
        /\ recordCalls' = recordCalls \ {c}
    BY DEF RecordFail, EnrichFail, EnrichAnswer, Resolved, historyVars, Here, RecordOpen
  <1>3. LandOK'
    BY LandSteps, Zenon DEF IInv, TypeOK, LandOK, RecordFail, EnrichFail, EnrichAnswer, landVars
  <1>4. CASE UNCHANGED record
    <2>1. RecordInv'
      BY <1>2, <1>4 DEF IInv, RecordInv
    <2> QED
      BY <1>1, <1>2, <1>3, <1>4, <2>1, RecordFrame
  <1>5. ASSUME RecordFail(c), c.alive
        PROVE  IInv'
    <2>1. \A d \in recordCalls' : ~d.alive
      BY <1>1, <1>2, <1>5 DEF IInv, RecordInv, RecordFail, RecordCall
    <2>2. /\ record' \in RecordType /\ record'.state = "error"
          /\ record'.factsOf = record.factsOf /\ record'.xref = record.xref
      BY <1>1, <1>5 DEF RecordFail, RecordType
    <2>3. RecordInv'
      BY <1>2, <2>1, <2>2 DEF IInv, RecordInv
    <2> QED
      BY <1>1, <1>2, <1>3, <2>2, <2>3, RecordFrame
  <1>6. ASSUME NEW facts \in Enrichments, EnrichAnswer(c, facts), c.alive
        PROVE  IInv'
    <2>1. c = RecordCall("enrich", Here.query.host) /\ record.state = "ok"
      <3>1. c.kind = "enrich"
        BY <1>6 DEF EnrichAnswer
      <3> QED
        BY <1>6, <3>1 DEF IInv, RecordInv, RecordCall
    <2>2. c.of = Here.query.host /\ c.of \in Hosts
      BY <2>1, HereIsPage DEF RecordCall, Hosts
    <2>3. facts \in SUBSET Facts
      BY RecordAssumption
    <2>4. /\ record' \in RecordType /\ record'.state = "ok" /\ record'.shown = record.shown
          /\ record'.factsOf = {c.of} /\ record'.xref = "ok"
      BY <1>1, <1>6, <2>1, <2>2, <2>3 DEF EnrichAnswer, RecordType
    <2>5. RecordInv'
      BY <1>2, <2>1, <2>2, <2>4 DEF IInv, RecordInv
    <2> QED
      BY <1>1, <1>2, <1>3, <2>4, <2>5, RecordFrame
  <1>7. ASSUME EnrichFail(c), c.alive
        PROVE  IInv'
    <2>1. record.state = "ok"
      BY <1>7 DEF IInv, RecordInv, EnrichFail, RecordCall
    <2>2. /\ record' \in RecordType /\ record'.state = "ok" /\ record'.shown = record.shown
          /\ record'.factsOf = record.factsOf /\ record'.xref = "error"
      BY <1>1, <1>7, <2>1 DEF EnrichFail, RecordType
    <2>3. RecordInv'
      BY <1>2, <2>1, <2>2 DEF IInv, RecordInv
    <2> QED
      BY <1>1, <1>2, <1>3, <2>2, <2>3, RecordFrame
  <1> QED
    BY <1>4, <1>5, <1>6, <1>7 DEF RecordFail, EnrichFail, EnrichAnswer

LEMMA CopyStep ==
  ASSUME IInv, RecordOpen, UNCHANGED <<mapVars, head>>,
         Copy \/ CopyDone \/ CopyFails \/ CopyTimer
  PROVE  IInv'
  <1>1. /\ record' \in RecordType /\ record'.state = record.state /\ record'.shown = record.shown
        /\ record'.factsOf = record.factsOf /\ record'.xref = record.xref
    <2>1. record \in RecordType
      BY DEF IInv, TypeOK
    <2>2. CASE Copy
      BY <2>1, <2>2 DEF Copy, RecordType
    <2>3. CASE CopyDone
      <3>1. record.timers + 1 \in Nat
        BY <2>1 DEF RecordType
      <3> QED
        BY <2>1, <2>3, <3>1 DEF CopyDone, RecordType
    <2>4. CASE CopyFails
      BY <2>1, <2>4 DEF CopyFails, RecordType
    <2>5. CASE CopyTimer
      <3>1. record.timers - 1 \in Nat
        BY <2>1, <2>5 DEF CopyTimer, RecordType
      <3> QED
        BY <2>1, <2>5, <3>1 DEF CopyTimer, RecordType
    <2> QED
      BY <2>2, <2>3, <2>4, <2>5
  <1>2. UNCHANGED <<recordCalls, historyVars, landVars>>
    BY DEF Copy, CopyDone, CopyFails, CopyTimer
  <1>3. LandOK'
    BY <1>2, LandSteps DEF IInv, TypeOK, LandOK
  <1>4. RecordInv'
    BY <1>1, <1>2 DEF IInv, RecordInv, RecordOpen, Here, historyVars
  <1>5. recordCalls' \subseteq RecordCallType
    BY <1>2 DEF IInv, TypeOK, RecordCallType
  <1> QED
    BY <1>1, <1>2, <1>3, <1>4, <1>5, RecordFrame

LEMMA RecordSteps ==
  ASSUME IInv, RecordNext, UNCHANGED <<mapVars, head>>
  PROVE  IInv'
  <1>1. RecordOpen
    BY DEF IInv, RecordInv, RecordNext, Copy, CopyDone, CopyFails, CopyTimer
  <1> QED
    BY <1>1, RecordAnswerStep, OtherResultStep, CopyStep DEF RecordNext, RecordResult

-----------------------------------------------------------------------------
(* The hook leaves the head of the page now on the screen, or one that says  *)
(* the same.                                                                 *)
LEMMA HeadStep ==
  ASSUME IInv, NEW e \in Pages, Here' = e, UseMeta(Here, e)
  PROVE  HeadInSync'
  <1>1. CASE head' = HeadOf(e)
    BY <1>1 DEF HeadInSync
  <1>2. CASE head' = head /\ e.page = Here.page /\ Meta(e) = Meta(Here)
    <2>1. HeadOf(e).title = HeadOf(Here).title /\ HeadOf(e).robots = HeadOf(Here).robots
      BY <1>2 DEF HeadOf
    <2>2. Here \in Pages /\ Here.page \in {"map", "record", "external"}
      BY HereIsPage, PageIs
    <2>3. CASE Here.page = "map"
      <3>1. HeadOf(e) = HeadOf(Here)
        BY <1>2, <2>3 DEF HeadOf, Meta
      <3> QED
        BY <1>2, <2>3, <3>1 DEF HeadInSync, IInv
    <2>4. CASE Here.page = "record"
      <3>1. <<e.page, e.query>> = <<Here.page, Here.query>>
        BY <1>2, <2>4 DEF Meta
      <3>2. HeadOf(e) = HeadOf(Here)
        BY <1>2, <2>4, <3>1 DEF HeadOf, Meta, Pathname
      <3> QED
        BY <1>2, <2>4, <3>2 DEF HeadInSync, IInv
    <2>5. CASE Here.page = "external"
      <3>1. HeadOf(Here).canonical[1] = "external"
        BY <2>5 DEF HeadOf, Meta, Pathname
      <3> QED
        BY <1>2, <2>1, <2>5, <3>1 DEF HeadInSync, IInv
    <2> QED
      BY <2>2, <2>3, <2>4, <2>5
  <1> QED
    BY <1>1, <1>2 DEF UseMeta

LEMMA MountedMap ==
  ASSUME IInv, NEW url, LayerOf(url) \in Layers, MountMap(url)
  PROVE  /\ map' \in MapType /\ SelectionOf(map') /\ map'.loading
         /\ mapCalls' \subseteq MapCallType
         /\ \A c \in mapCalls' : c.layer = LayerOf(url)
         /\ LandOK'
  <1>1. map' \in MapType /\ SelectionOf(map') /\ map'.loading
    BY StartSelection DEF MountMap, MapStart
  <1>2. /\ mapCalls' \subseteq MapCallType
        /\ \A c \in mapCalls' : c.layer = LayerOf(url)
    BY DEF MountMap, MapCall, MapCallType
  <1> QED
    BY <1>1, <1>2, LandSteps DEF IInv, TypeOK, LandOK, MountMap

LEMMA ClosedMap ==
  ASSUME UnmountMap
  PROVE  map' \in MapType /\ SelectionOf(map') /\ mapCalls' \subseteq MapCallType
  BY StartSelection DEF UnmountMap

LEMMA ClosedRecord == RecordClosed \in RecordType
  BY DEF RecordClosed, RecordType

LEMMA AskedRecord ==
  ASSUME IInv, NEW s \in Records,
         MountRecord(s) \/ (RecordOpen /\ ChangeRecord(s))
  PROVE  /\ record' \in RecordType /\ record'.state = "loading"
         /\ record'.xref = "unmounted" /\ record'.factsOf = {}
         /\ recordCalls' \subseteq RecordCallType
         /\ \A c \in recordCalls' : c.alive => c = RecordCall("record", s)
         /\ LandOK'
  <1>1. LandOK'
    BY LandSteps DEF IInv, TypeOK, LandOK, MountRecord, ChangeRecord
  <1>2. CASE MountRecord(s)
    <2>1. record' = RecordClosed /\ recordCalls' = {RecordCall("record", s)}
      BY <1>2 DEF MountRecord
    <2> QED
      BY <1>1, <2>1, ClosedRecord, RecordCallTyped DEF RecordClosed
  <1>3. CASE RecordOpen /\ ChangeRecord(s)
    <2>1. record \in RecordType /\ recordCalls \subseteq RecordCallType
      BY DEF IInv, TypeOK, RecordCallType
    <2>2. recordCalls' = Superseded(recordCalls) \cup {RecordCall("record", s)}
      BY <1>3 DEF ChangeRecord
    <2>3. /\ Superseded(recordCalls) \subseteq RecordCallType
          /\ \A c \in Superseded(recordCalls) : ~c.alive
      BY <2>1, SupersededCalls
    <2>4. /\ record' \in RecordType /\ record'.state = "loading"
          /\ record'.xref = "unmounted" /\ record'.factsOf = {}
      BY <1>3, <2>1 DEF ChangeRecord, RecordType
    <2> QED
      BY <1>1, <2>2, <2>3, <2>4, RecordCallTyped
  <1> QED
    BY <1>2, <1>3

(* Another entry on the screen, by a link or a jump: the mounted page reads  *)
(* it or another page mounts.                                                *)
LEMMA ShowStep ==
  ASSUME IInv, NEW e \in Pages, entries' \in Seq(Pages), at' \in 1 .. Len(entries'),
         Here' = e, Show(e)
  PROVE  IInv'
  <1>1. HeadInSync'
    BY HeadStep DEF Show
  <1>2. ASSUME map' \in MapType, SelectionOf(map'), mapCalls' \subseteq MapCallType,
               record' \in RecordType, recordCalls' \subseteq RecordCallType,
               LandOK', MapClosed', MapInv', RecordInv'
        PROVE  IInv'
    <2>1. TypeOK'
      BY <1>2 DEF TypeOK, LandOK, MapCallType, RecordCallType
    <2>2. SelectionVisible' /\ LandOnce'
      BY <1>2 DEF SelectionVisible, SelectionOf, LandOK
    <2> QED
      BY <1>1, <1>2, <2>1, <2>2 DEF IInv
  <1>3. /\ MapOpen' <=> e.page = "map"
        /\ RecordOpen' <=> e.page = "record"
        /\ Layer' = LayerOf(e.query)
        /\ e.page = "map" => LayerOf(e.query) \in Layers
        /\ e.page = "record" => e.query \in Records
        /\ e.page \in {"map", "record", "external"}
    BY PageIs DEF MapOpen, RecordOpen, Layer
  <1>4. UNCHANGED mapVars => /\ map' \in MapType /\ SelectionOf(map')
                             /\ mapCalls' \subseteq MapCallType
    BY DEF mapVars, IInv, TypeOK, SelectionVisible, SelectionOf, MapCallType
  <1>5. UNCHANGED recordVars => record' \in RecordType /\ recordCalls' \subseteq RecordCallType
    BY DEF recordVars, IInv, TypeOK, RecordCallType
  <1>6. UNCHANGED landVars \/ UnmountLand => LandOK'
    BY LandSteps DEF IInv, TypeOK, LandOK
  <1>7. CASE e.page = "map" /\ Here.page = "map"
    <2>1. UNCHANGED recordVars /\ RecordInv'
      BY <1>3, <1>7 DEF Show, Reads, IInv, RecordInv, RecordOpen, recordVars
    <2>2. CASE LayerOf(e.query) = Layer
      <3>1. UNCHANGED <<mapVars, landVars>>
        BY <1>7, <2>2 DEF Show, Reads
      <3>2. MapInv' /\ MapClosed'
        BY <1>3, <1>7, <2>2, <3>1 DEF IInv, MapInv, MapClosed, MapOpen, mapVars
      <3> QED
        BY <1>2, <1>4, <1>5, <1>6, <2>1, <3>1, <3>2
    <2>3. CASE LayerOf(e.query) # Layer
      <3>1. Ask(LayerOf(e.query))
        BY <1>7, <2>3 DEF Show, Reads
      <3>2. /\ map' \in MapType /\ SelectionOf(map') /\ map'.loading
            /\ mapCalls' \subseteq MapCallType
            /\ \A c \in mapCalls' : c.alive => c.layer = LayerOf(e.query)
            /\ LandOK'
        BY <1>3, <1>7, <3>1, AskStep
      <3>3. MapInv' /\ MapClosed'
        BY <1>3, <1>7, <3>2 DEF MapInv, MapClosed
      <3> QED
        BY <1>2, <1>5, <2>1, <3>2, <3>3
    <2> QED
      BY <2>2, <2>3
  <1>8. CASE e.page = "map" /\ Here.page # "map"
    <2>1. MountMap(e.query) /\ UnmountRecord
      BY <1>8 DEF Show, Replaces
    <2>2. RecordInv' /\ record' \in RecordType /\ recordCalls' \subseteq RecordCallType
      BY <1>3, <1>8, <2>1, ClosedRecord DEF UnmountRecord, RecordInv
    <2>3. /\ map' \in MapType /\ SelectionOf(map') /\ map'.loading
          /\ mapCalls' \subseteq MapCallType
          /\ \A c \in mapCalls' : c.layer = LayerOf(e.query)
          /\ LandOK'
      BY <1>3, <1>8, <2>1, MountedMap
    <2>4. MapInv' /\ MapClosed'
      BY <1>3, <1>8, <2>3 DEF MapInv, MapClosed
    <2> QED
      BY <1>2, <2>2, <2>3, <2>4
  <1>9. CASE e.page = "external" /\ Here.page = "external"
    <2>1. UNCHANGED <<landVars, mapVars, recordVars>>
      BY <1>9 DEF Show, Reads
    <2>2. MapInv' /\ MapClosed' /\ RecordInv'
      BY <1>3, <1>9, <2>1
         DEF IInv, MapInv, MapClosed, RecordInv, MapOpen, RecordOpen, mapVars, recordVars
    <2> QED
      BY <1>2, <1>4, <1>5, <1>6, <2>1, <2>2
  <1>10. CASE e.page = "external" /\ Here.page # "external"
    <2>1. UnmountMap /\ UnmountRecord /\ UnmountLand
      BY <1>10 DEF Show, Replaces
    <2>2. MapInv' /\ MapClosed' /\ RecordInv'
      BY <1>3, <1>10, <2>1 DEF MapInv, MapClosed, RecordInv, UnmountMap, UnmountRecord
    <2>3. record' \in RecordType /\ recordCalls' \subseteq RecordCallType
      BY <2>1, ClosedRecord DEF UnmountRecord
    <2> QED
      BY <1>2, <1>6, <2>1, <2>2, <2>3, ClosedMap
  <1>11. CASE e.page = "record" /\ Here.page = "record" /\ e.query = Here.query
    <2>1. UNCHANGED <<landVars, mapVars, recordVars>>
      BY <1>11 DEF Show, Reads
    <2>2. MapInv' /\ MapClosed'
      BY <1>3, <1>11, <2>1 DEF IInv, MapInv, MapClosed, MapOpen, mapVars
    <2>3. RecordInv'
      BY <1>3, <1>11, <2>1 DEF IInv, RecordInv, RecordOpen, recordVars
    <2> QED
      BY <1>2, <1>4, <1>5, <1>6, <2>1, <2>2, <2>3
  <1>12. CASE /\ e.page = "record"
              /\ \/ Here.page = "record" /\ e.query # Here.query
                 \/ Here.page # "record"
    <2>1. /\ MountRecord(e.query) \/ (RecordOpen /\ ChangeRecord(e.query))
          /\ UNCHANGED mapVars \/ UnmountMap
          /\ Here.page = "record" => UNCHANGED mapVars
          /\ Here.page # "record" => UnmountMap
      <3>1. CASE Here.page = "record" /\ e.query # Here.query
        <4>1. Reads(e)
          BY <1>12, <3>1 DEF Show
        <4> QED
          BY <1>12, <3>1, <4>1 DEF Reads, RecordOpen
      <3>2. CASE Here.page # "record"
        <4>1. Replaces(e)
          BY <1>12, <3>2 DEF Show
        <4> QED
          BY <1>12, <3>2, <4>1 DEF Replaces
      <3> QED
        BY <1>12, <3>1, <3>2
    <2>2. /\ record' \in RecordType /\ record'.state = "loading"
          /\ record'.xref = "unmounted" /\ record'.factsOf = {}
          /\ recordCalls' \subseteq RecordCallType
          /\ \A c \in recordCalls' : c.alive => c = RecordCall("record", e.query)
          /\ LandOK'
      BY <1>3, <1>12, <2>1, AskedRecord
    <2>3. RecordInv'
      BY <1>3, <1>12, <2>2 DEF RecordInv
    <2>4. MapInv' /\ MapClosed'
      <3>1. UnmountMap => MapClosed'
        BY DEF UnmountMap, MapClosed
      <3>2. Here.page = "record" => MapClosed'
        BY <2>1 DEF IInv, MapClosed, MapOpen, mapVars
      <3> QED
        BY <1>3, <1>12, <2>1, <3>1, <3>2 DEF MapInv
    <2> QED
      BY <1>2, <1>4, <2>1, <2>2, <2>3, <2>4, ClosedMap
  <1> QED
    BY <1>3, <1>7, <1>8, <1>9, <1>10, <1>11, <1>12

-----------------------------------------------------------------------------
(* The links lead to pages. *)
LEMMA FollowStep ==
  ASSUME IInv, NEW e \in Links, Follow(e)
  PROVE  IInv'
  <1>1. e \in Pages
    <2>1. record.shown \subseteq Records
      BY DEF IInv, TypeOK, RecordType
    <2> QED
      BY <2>1, UrlPage DEF Links
  <1>2. Push(e) /\ Show(e)
    BY DEF Follow
  <1>3. entries' \in Seq(Pages) /\ at' \in 1 .. Len(entries') /\ Here' = e
    BY <1>1, <1>2, PushHere DEF IInv, TypeOK
  <1> QED
    BY <1>1, <1>2, <1>3, ShowStep

LEMMA GoToStep ==
  ASSUME IInv, NEW i \in 1 .. MaxEntries, GoTo(i)
  PROVE  IInv'
  <1>1. entries \in Seq(Pages) /\ i \in 1 .. Len(entries)
    BY DEF IInv, TypeOK, GoTo
  <1>2. entries[i] \in Pages
    BY <1>1
  <1>3. entries' = [entries EXCEPT ![i] = entries[i]] /\ at' = i /\ Show(entries[i])
    BY DEF GoTo, Jump
  <1>4. entries' \in Seq(Pages) /\ at' \in 1 .. Len(entries') /\ Here' = entries[i]
    BY <1>1, <1>2, <1>3, ReplaceHere
  <1> QED
    BY <1>2, <1>3, <1>4, ShowStep

(* What the invariant says of all but the outline.                           *)
LEMMA RestFrame ==
  ASSUME IInv, UNCHANGED <<historyVars, mapVars, recordVars, head>>, LandOK'
  PROVE  IInv'
  <1>1. TypeOK'
    BY DEF IInv, TypeOK, LandOK, historyVars, mapVars, recordVars
  <1>2. Here' = Here /\ UNCHANGED <<map, mapCalls, record, recordCalls, head>>
    BY DEF historyVars, mapVars, recordVars, Here
  <1>3. HeadInSync' /\ SelectionVisible' /\ LandOnce'
    BY <1>2 DEF IInv, HeadInSync, SelectionVisible, LandOK
  <1>4. MapClosed' /\ MapInv' /\ RecordInv'
    BY <1>2 DEF IInv, MapClosed, MapInv, RecordInv, MapOpen, RecordOpen, Layer
  <1> QED
    BY <1>1, <1>3, <1>4 DEF IInv

(* One case per action. *)
LEMMA NextStep ==
  ASSUME IInv, [Next]_vars
  PROVE  IInv'
  <1> USE DEF Next
  <1>1. LandOK
    BY DEF IInv, TypeOK, LandOK
  <1>2. CASE MapNext /\ UNCHANGED <<recordVars, head>>
    BY <1>2, MapSteps
  <1>3. CASE RecordNext /\ UNCHANGED <<mapVars, head>>
    BY <1>3, RecordSteps
  <1>4. CASE \E e \in Links : Follow(e)
    BY <1>4, FollowStep
  <1>5. CASE \E i \in 1 .. MaxEntries : GoTo(i)
    BY <1>5, GoToStep
  <1>6. CASE Land
    BY <1>1, <1>6, LandSteps, RestFrame DEF Land
  <1>7. CASE UNCHANGED vars
    BY <1>1, <1>7, LandSteps, RestFrame DEF vars, landVars
  <1> QED
    BY <1>2, <1>3, <1>4, <1>5, <1>6, <1>7

(* The three landings. *)
LEMMA InitStep ==
  ASSUME Init
  PROVE  IInv
  <1>1. /\ map = MapStart /\ record = RecordClosed
        /\ map \in MapType /\ record \in RecordType /\ SelectionVisible
    BY StartSelection, ClosedRecord DEF Init, SelectionVisible, SelectionOf
  <1>2. HeadInSync
    BY DEF Init, HeadInSync
  <1>3. ASSUME NEW e \in Pages, entries = <<e>>
        PROVE  Here = e /\ entries \in Seq(Pages) /\ at \in 1 .. Len(entries)
    BY <1>3 DEF Init, Here
  <1>4. ASSUME LandInit
        PROVE  LandOK
    BY <1>4 DEF LandInit, LandOK, LandOnce
  <1>5. ASSUME NEW url \in MapLinked, entries = <<Entry("map", url)>>,
               mapCalls = {MapCall(LayerOf(url))}, recordCalls = {},
               land = "pending", downloads = 1, waiting = TRUE, drawn = FALSE
        PROVE  IInv
    <2>1. Entry("map", url) \in Pages
      BY UrlPage
    <2>2. Here = Entry("map", url) /\ entries \in Seq(Pages) /\ at \in 1 .. Len(entries)
      BY <1>3, <1>5, <2>1
    <2>3. MapOpen /\ ~RecordOpen /\ Layer = LayerOf(url) /\ Layer \in Layers
      BY <2>2 DEF Entry, MapOpen, RecordOpen, Layer, Layers
    <2>4. mapCalls \subseteq [layer : Layers, alive : BOOLEAN]
      BY <1>5, <2>3 DEF MapCall
    <2>5. TypeOK
      BY <1>1, <1>5, <2>2, <2>4 DEF TypeOK
    <2>6. LandOnce
      BY <1>5 DEF LandOnce
    <2>7. MapInv
      BY <1>1, <1>5, <2>3 DEF MapInv, MapCall, MapStart
    <2>8. MapClosed /\ RecordInv
      BY <1>1, <1>5, <2>3 DEF MapClosed, RecordInv
    <2> QED
      BY <1>1, <1>2, <2>5, <2>6, <2>7, <2>8 DEF IInv
  <1>6. ASSUME NEW s \in Records, entries = <<Entry("record", s)>>, mapCalls = {},
               recordCalls = {RecordCall("record", s)}, LandInit
        PROVE  IInv
    <2>1. Entry("record", s) \in Pages
      BY UrlPage
    <2>2. Here = Entry("record", s) /\ entries \in Seq(Pages) /\ at \in 1 .. Len(entries)
      BY <1>3, <1>6, <2>1
    <2>3. ~MapOpen /\ RecordOpen /\ Here.query = s
      BY <2>2 DEF Entry, MapOpen, RecordOpen
    <2>4. recordCalls \subseteq [kind : {"record"}, of : Records, alive : BOOLEAN]
                                \cup [kind : {"enrich"}, of : Hosts, alive : BOOLEAN]
      BY <1>6 DEF RecordCall
    <2>5. TypeOK /\ LandOnce
      BY <1>1, <1>4, <1>6, <2>2, <2>4 DEF TypeOK, LandOK
    <2>6. MapInv /\ MapClosed
      BY <1>1, <1>6, <2>3 DEF MapInv, MapClosed
    <2>7. RecordInv
      BY <1>1, <1>6, <2>3 DEF RecordInv, RecordClosed
    <2> QED
      BY <1>1, <1>2, <2>5, <2>6, <2>7 DEF IInv
  <1>7. ASSUME NEW s \in Records, entries = <<Entry("external", s)>>, mapCalls = {},
               recordCalls = {}, LandInit
        PROVE  IInv
    <2>1. Entry("external", s) \in Pages
      BY UrlPage
    <2>2. Here = Entry("external", s) /\ entries \in Seq(Pages) /\ at \in 1 .. Len(entries)
      BY <1>3, <1>7, <2>1
    <2>3. ~MapOpen /\ ~RecordOpen
      BY <2>2 DEF Entry, MapOpen, RecordOpen
    <2>4. TypeOK /\ LandOnce
      BY <1>1, <1>4, <1>7, <2>2 DEF TypeOK, LandOK
    <2>5. MapInv /\ MapClosed /\ RecordInv
      BY <1>1, <1>7, <2>3 DEF MapInv, MapClosed, RecordInv
    <2> QED
      BY <1>1, <1>2, <2>4, <2>5 DEF IInv
  <1> QED
    BY <1>5, <1>6, <1>7 DEF Init

(* The conjunction is inductive: it holds in every reachable state.          *)
THEOREM Invariance == Spec => []IInv
  <1>1. Init => IInv
    BY InitStep
  <1>2. IInv /\ [Next]_vars => IInv'
    BY NextStep
  <1> QED
    BY <1>1, <1>2, PTL DEF Spec

-----------------------------------------------------------------------------
(* The state of the three pages keeps its type, whatever the history, the    *)
(* layers, the records and the answers are.                                  *)
THEOREM TypeCorrect == Spec => []TypeOK
  <1>1. IInv => TypeOK
    BY DEF IInv
  <1> QED
    BY <1>1, Invariance, PTL

(* A map that neither loads nor reports an error shows the layer and window  *)
(* named above it, whatever calls it made before (ObservationMap.tsx:65-86). *)
THEOREM LayerShown == Spec => []MapShowsLayer
  <1>1. IInv => MapShowsLayer
    BY DEF IInv, MapInv, MapShowsLayer
  <1> QED
    BY <1>1, Invariance, PTL

(* What the sidebar of the map tells of is a marker of the map, after any    *)
(* sequence of toggles, focuses and answers (ObservationMap.tsx:97-126).     *)
THEOREM SelectionsVisible == Spec => []SelectionVisible
  <1>1. IInv => SelectionVisible
    BY DEF IInv
  <1> QED
    BY <1>1, Invariance, PTL

(* Every host of the map can be reached: activating its marker selects it,   *)
(* lists it, or strictly zooms in, for any number of markers in its cell and *)
(* any greatest scale, and the effect after the render keeps what it was     *)
(* given (InteractiveWorldMap.tsx:98-113, 182-189).                          *)
THEOREM MarkersReached == Spec => []ActivationProgress
  <1>1. ASSUME TypeOK, NEW p \in Visible(map), NEW after, after = Consistent(Activated(p))
        PROVE  after.sel = {p} \/ p \in after.cluster \/ map.scale < after.scale
    <2>1. map \in MapType
      BY <1>1 DEF TypeOK
    <2> DEFINE m == Activated(p)
    <2>2. /\ m \in MapType
          /\ m.data = map.data /\ m.https = map.https /\ m.http = map.http /\ m.focus = map.focus
          /\ \/ m.sel = {p}
             \/ m.cluster = ClusterOf(p)
             \/ /\ map.scale < MAX_ZOOM - 1
                /\ m.scale = Clamp(Greater((map.scale * 190) \div 100, 200))
      <3>1. ClusterOf(p) \in SUBSET Points /\ p \in Points
        BY <2>1 DEF ClusterOf, Visible, Focused, Entries, MapType
      <3>2. Clamp(Greater((map.scale * 190) \div 100, 200)) \in MIN_ZOOM .. MAX_ZOOM
        <4>1. Greater((map.scale * 190) \div 100, 200) \in Int
          BY <2>1, MapAssumption DEF MapType, Greater, MIN_ZOOM
        <4> QED
          BY <4>1, ClampScale
      <3>3. map.scale \in Int /\ MAX_ZOOM \in Int
        BY <2>1, MapAssumption DEF MapType, MIN_ZOOM
      <3>4. \/ m = [map EXCEPT !.sel = {p}, !.cluster = {}]
            \/ m = [map EXCEPT !.sel = {}, !.cluster = ClusterOf(p)]
            \/ /\ map.scale < MAX_ZOOM - 1
               /\ m = [map EXCEPT !.scale = Clamp(Greater((map.scale * 190) \div 100, 200))]
        BY <3>3 DEF Activated
      <3> HIDE DEF m
      <3>5. CASE m = [map EXCEPT !.sel = {p}, !.cluster = {}]
        BY <2>1, <3>1, <3>5 DEF MapType
      <3>6. CASE m = [map EXCEPT !.sel = {}, !.cluster = ClusterOf(p)]
        BY <2>1, <3>1, <3>6 DEF MapType
      <3>7. CASE /\ map.scale < MAX_ZOOM - 1
                 /\ m = [map EXCEPT !.scale = Clamp(Greater((map.scale * 190) \div 100, 200))]
        BY <2>1, <3>2, <3>7 DEF MapType
      <3> QED
        BY <3>4, <3>5, <3>6, <3>7
    <2> HIDE DEF m
    <2>3. Visible(m) = Visible(map)
      BY <2>2 DEF Visible, Focused, Entries
    <2>4. /\ after.scale = m.scale
          /\ after.sel = {q \in m.sel : q.key \in Keys(Visible(m))}
          /\ after.cluster = IF Keys(m.cluster) \subseteq Keys(Visible(m)) THEN m.cluster ELSE {}
      BY <1>1, <2>2 DEF m, Consistent, MapType
    <2>5. CASE m.sel = {p}
      BY <2>3, <2>4, <2>5 DEF Keys
    <2>6. CASE m.cluster = ClusterOf(p)
      BY <2>1, <2>3, <2>4, <2>6 DEF Keys, ClusterOf
    <2>7. CASE /\ map.scale < MAX_ZOOM - 1
               /\ m.scale = Clamp(Greater((map.scale * 190) \div 100, 200))
      BY <2>1, <2>4, <2>7, MapAssumption DEF MapType, Clamp, Greater, Lesser, MIN_ZOOM
    <2> QED
      BY <2>2, <2>5, <2>6, <2>7
  <1>2. TypeOK => ActivationProgress
    BY <1>1 DEF ActivationProgress
  <1> QED
    BY <1>2, TypeCorrect, PTL

(* The outline of the world is downloaded once for all the maps of a visit,  *)
(* and no map awaits one that is not under way (worldLand.ts:7-21).          *)
THEOREM OneDownload == Spec => []LandOnce
  <1>1. IInv => LandOnce
    BY DEF IInv
  <1> QED
    BY <1>1, Invariance, PTL

(* The record and the cross-reference on the screen are of the service the   *)
(* address names (Signal.tsx:43-57, CrossReference.tsx:122-136).             *)
THEOREM RecordRequested == Spec => []RecordIsRequested
  <1>1. IInv => RecordIsRequested
    <2>1. IInv => record.state \in {"loading", "ok", "error"}
      BY DEF IInv, TypeOK, RecordType
    <2> QED
      BY <2>1 DEF IInv, RecordInv, RecordIsRequested, RecordView
  <1> QED
    BY <1>1, Invariance, PTL

(* The document's head is of the page on the screen, across links, jumps and *)
(* rewrites of the address (lib/meta.ts:39-81).                              *)
THEOREM HeadFollows == Spec => []HeadInSync
  <1>1. IInv => HeadInSync
    BY DEF IInv
  <1> QED
    BY <1>1, Invariance, PTL

(* A step that leaves the state and the record of the page alone.            *)
LEMMA Unseen ==
  ASSUME RecordOpen, RecordOpen', Here.query' = Here.query,
         record'.state = record.state, record'.shown = record.shown
  PROVE  UNCHANGED Latest!answerVars
  BY DEF Latest!answerVars

(* Nothing but the end of its call changes what a record page that stays on  *)
(* one address shows.                                                        *)
LEMMA RecordHeld ==
  ASSUME IInv, IInv', [Next]_vars, RecordOpen, RecordOpen', Here.query' = Here.query
  PROVE  [Latest!Next]_(Latest!answerVars)
  <1>1. /\ record \in RecordType /\ entries \in Seq(Pages) /\ at \in 1 .. Len(entries)
        /\ recordCalls \subseteq RecordCallType
    BY DEF IInv, TypeOK, RecordCallType
  <1>2. CASE UNCHANGED recordVars
    <2>1. record' = record
      BY <1>2 DEF recordVars
    <2> QED
      BY <2>1, Unseen
  <1>3. CASE RecordNext
    <2>1. CASE \E c \in recordCalls : RecordAnswer(c) \/ RecordFail(c)
      <3>1. PICK c \in recordCalls : RecordAnswer(c) \/ RecordFail(c)
        BY <2>1
      <3>2. CASE ~c.alive
        <4>1. record' = record
          BY <3>1, <3>2 DEF RecordAnswer, RecordFail
        <4> QED
          BY <4>1, Unseen
      <3>3. CASE c.alive
        <4>1. record.state = "loading" /\ c.of = Here.query
          BY <3>1, <3>3 DEF IInv, RecordInv, RecordAnswer, RecordFail, RecordCall
        <4>2. CASE RecordAnswer(c)
          <5>1. record'.state = "ok" /\ record'.shown = {Here.query}
            BY <1>1, <3>3, <4>1, <4>2 DEF RecordAnswer, RecordType
          <5>2. Latest!Answer
            BY <4>1, <5>1 DEF Latest!Answer
          <5> QED
            BY <5>2 DEF Latest!Next
        <4>3. CASE RecordFail(c)
          <5>1. record'.state = "error"
            BY <1>1, <3>3, <4>3 DEF RecordFail, RecordType
          <5>2. Latest!Fail
            BY <4>1, <5>1 DEF Latest!Fail
          <5> QED
            BY <5>2 DEF Latest!Next
        <4> QED
          BY <3>1, <4>2, <4>3
      <3> QED
        BY <3>2, <3>3
    <2>2. CASE \/ \E c \in recordCalls :
                    (\E facts \in Enrichments : EnrichAnswer(c, facts)) \/ EnrichFail(c)
               \/ Copy \/ CopyDone \/ CopyFails \/ CopyTimer
      <3>1. record'.state = record.state /\ record'.shown = record.shown
        BY <1>1, <2>2 DEF EnrichAnswer, EnrichFail, Copy, CopyDone, CopyFails, CopyTimer, RecordType
      <3> QED
        BY <3>1, Unseen
    <2> QED
      BY <1>3, <2>1, <2>2 DEF RecordNext, RecordResult
  <1>4. CASE \E e \in Links : Follow(e)
    <2>1. PICK e \in Links : Follow(e)
      BY <1>4
    <2>2. e \in Pages
      <3>1. record.shown \subseteq Records
        BY <1>1 DEF RecordType
      <3> QED
        BY <3>1, UrlPage DEF Links
    <2>3. Here' = e
      BY <1>1, <2>1, <2>2, PushHere DEF Follow
    <2> QED
      BY <2>1, <2>3 DEF Follow, RecordOpen
  <1>5. CASE \E i \in 1 .. MaxEntries : GoTo(i)
    <2>1. PICK i \in 1 .. MaxEntries : GoTo(i)
      BY <1>5
    <2>2. i \in 1 .. Len(entries) /\ entries[i] \in Pages
      BY <1>1, <2>1 DEF GoTo
    <2>3. Here' = entries[i] /\ Show(entries[i])
      BY <1>1, <2>1, <2>2, ReplaceHere DEF GoTo, Jump
    <2>4. Reads(entries[i]) /\ entries[i].page = "record" /\ entries[i].query = Here.query
      BY <2>3 DEF Show, RecordOpen
    <2>5. UNCHANGED recordVars
      BY <2>4 DEF Reads
    <2> QED
      BY <1>2, <2>5
  <1> QED
    BY <1>2, <1>3, <1>4, <1>5 DEF Next, Land, vars, recordVars

(* The record page implements the abstract page that fetches: it starts as   *)
(* one, and every step of the three pages together is a step of it: nothing  *)
(* but an answer to the call in progress puts a record under an address, and *)
(* nothing but another address takes it away.                                *)
THEOREM RecordImplements == Spec => RecordLatest
  <1>1. Init => Latest!Init
    <2>1. SUFFICES ASSUME Init
                   PROVE  Latest!Init
      OBVIOUS
    <2>2. record = RecordClosed
      BY <2>1 DEF Init
    <2>3. CASE ~RecordOpen
      BY <2>2, <2>3 DEF Latest!Init, Latest!Closed, RecordClosed
    <2>4. CASE RecordOpen
      <3>1. PICK s \in Records : entries = <<Entry("record", s)>>
        BY <2>1, <2>4 DEF Init, RecordOpen, Here, Entry
      <3>2. Here.query = s
        BY <2>1, <3>1 DEF Init, Here, Entry
      <3> QED
        BY <2>2, <2>4, <3>2 DEF Latest!Init, RecordClosed
    <2> QED
      BY <2>3, <2>4
  <1>2. IInv /\ IInv' /\ [Next]_vars => [Latest!Next]_(Latest!answerVars)
    <2>1. ASSUME IInv', ~RecordOpen'
          PROVE  Latest!Leave
      <3>1. record' = RecordClosed
        BY <2>1 DEF IInv, RecordInv
      <3> QED
        BY <2>1, <3>1 DEF RecordClosed, Latest!Leave
    <2>2. ASSUME IInv', RecordOpen', ~RecordOpen \/ Here'.query # Here.query
          PROVE  Latest!Look
      <3>1. Here'.query \in Records
        <4>1. Here' \in Pages
          BY <2>2 DEF IInv, TypeOK, Here
        <4> QED
          BY <2>2, <4>1, PageIs DEF RecordOpen
      <3>2. record'.state \in {"loading", "ok", "error"}
        BY <2>2 DEF IInv, TypeOK, RecordType
      <3>3. record'.state = "ok" => record'.shown = {Here'.query}
        BY <2>2 DEF IInv, RecordInv
      <3> HIDE DEF Here
      <3> QED
        BY <2>2, <3>1, <3>2, <3>3 DEF Latest!Look
    <2> QED
      BY <2>1, <2>2, RecordHeld DEF Latest!Next
  <1> QED
    BY <1>1, <1>2, Invariance, PTL DEF Spec, RecordLatest, Latest!Spec

-----------------------------------------------------------------------------
(* Sorting: nothing is lost, repeated or out of order.  A member's place is  *)
(* the number of members before it, which by counting takes every value.     *)
LEMMA ArrangedProperties ==
  ASSUME NEW S, IsFiniteSet(S), NEW order,
         \A i \in S : <<i, i>> \notin order,
         \A i, j \in S : i # j => <<i, j>> \in order \/ <<j, i>> \in order,
         \A h, i, j \in S : <<h, i>> \in order /\ <<i, j>> \in order => <<h, j>> \in order
  PROVE  /\ Arranged(S, order) \in Seq(S) /\ Len(Arranged(S, order)) = Cardinality(S)
         /\ \A i \in S : \E k \in 1 .. Cardinality(S) : Arranged(S, order)[k] = i
         /\ \A k, l \in 1 .. Cardinality(S) :
              k < l => <<Arranged(S, order)[k], Arranged(S, order)[l]>> \in order
  <1> DEFINE n == Cardinality(S)
             Before(i) == {j \in S : <<j, i>> \in order}
             place == [i \in S |-> Cardinality(Before(i))]
  <1>1. n \in Nat
    BY FS_CardinalityType
  <1>2. ASSUME NEW i \in S
        PROVE  IsFiniteSet(Before(i)) /\ Cardinality(Before(i)) \in 0 .. n - 1
    <2> DEFINE before == Before(i)
               others == S \ {i}
    <2>1. before \in SUBSET others
      OBVIOUS
    <2>2. IsFiniteSet(others) /\ Cardinality(others) = n - 1
      BY FS_RemoveElement
    <2> HIDE DEF before, others
    <2>3. IsFiniteSet(before) /\ Cardinality(before) <= n - 1
      BY <2>1, <2>2, FS_Subset
    <2>4. Cardinality(before) \in Nat
      BY <2>3, FS_CardinalityType
    <2>5. before = Before(i)
      BY DEF before
    <2> HIDE DEF Before
    <2> QED
      BY <1>1, <2>3, <2>4, <2>5
  <1>3. ASSUME NEW i \in S, NEW j \in S, <<i, j>> \in order
        PROVE  place[i] < place[j]
    <2>1. Before(i) \cup {i} \in SUBSET Before(j)
      BY <1>3
    <2>2. i \notin Before(i)
      OBVIOUS
    <2> HIDE DEF Before
    <2>3. /\ IsFiniteSet(Before(i)) /\ Cardinality(Before(i)) \in Int
          /\ IsFiniteSet(Before(j)) /\ Cardinality(Before(j)) \in Int
      BY <1>1, <1>2
    <2>4. Cardinality(Before(i) \cup {i}) = Cardinality(Before(i)) + 1
      BY <2>2, <2>3, FS_AddElement
    <2>5. Cardinality(Before(i) \cup {i}) <= Cardinality(Before(j))
      BY <2>1, <2>3, FS_Subset
    <2> QED
      BY <2>3, <2>4, <2>5
  <1>4. place \in [S -> 0 .. n - 1]
    BY <1>1, <1>2
  <1>5. \A i \in S : place[i] \in Int
    <2> HIDE DEF place, n
    <2> QED
      BY <1>1, <1>4
  <1>6. ASSUME NEW i \in S, NEW j \in S, place[i] = place[j]
        PROVE  i = j
    <2> HIDE DEF place
    <2>1. ~(<<i, j>> \in order) /\ ~(<<j, i>> \in order)
      BY <1>3, <1>5, <1>6
    <2> QED
      BY <2>1
  <1>7. \A p \in 0 .. n - 1 : \E i \in S : place[i] = p
    <2> DEFINE all == 0 .. n - 1
    <2> SUFFICES ASSUME NEW p \in all, \A i \in S : place[i] # p
                 PROVE  FALSE
      OBVIOUS
    <2> DEFINE others == all \ {p}
    <2>1. IsFiniteSet(all) /\ Cardinality(all) = n
      BY <1>1, FS_Interval
    <2>2. place \in [S -> others]
      BY <1>4
    <2> HIDE DEF all, place, n
    <2>3. IsFiniteSet(others) /\ Cardinality(others) = n - 1
      BY <2>1, FS_RemoveElement
    <2>4. Cardinality(others) < Cardinality(S)
      BY <1>1, <2>3 DEF n
    <2> HIDE DEF others
    <2>5. \E i, j \in S : i # j /\ place[i] = place[j]
      BY <2>2, <2>3, <2>4, FS_PigeonHole
    <2> QED
      BY <1>6, <2>5
  <1> DEFINE f == Arranged(S, order)
  <1>8. ASSUME NEW k \in 1 .. n
        PROVE  f[k] \in S /\ place[f[k]] = k - 1
    <2>1. f[k] = CHOOSE i \in S : Cardinality(Before(i)) = k - 1
      BY DEF Arranged
    <2>2. k - 1 \in 0 .. n - 1
      BY <1>1
    <2>3. \E i \in S : Cardinality(Before(i)) = k - 1
      BY <1>7, <2>2
    <2> HIDE DEF Before, f
    <2> QED
      BY <2>1, <2>3
  <1>9. f \in [1 .. n -> S]
    BY <1>8 DEF Arranged
  <1>10. \A k \in 1 .. n : k \in Int
    BY <1>1
  <1> HIDE DEF place, f, n
  <1>11. ASSUME NEW k \in 1 .. n, NEW l \in 1 .. n, k < l
         PROVE  <<f[k], f[l]>> \in order
    <2>1. f[k] \in S /\ f[l] \in S /\ place[f[k]] = k - 1 /\ place[f[l]] = l - 1
      BY <1>8
    <2>2. k \in Int /\ l \in Int
      BY <1>10
    <2>3. f[k] # f[l]
      BY <1>11, <2>1, <2>2
    <2>4. <<f[l], f[k]>> \in order => l - 1 < k - 1
      BY <1>3, <2>1
    <2> QED
      BY <1>11, <2>1, <2>2, <2>3, <2>4
  <1>12. ASSUME NEW i \in S
         PROVE  \E k \in 1 .. n : f[k] = i
    <2>1. PICK k : k = place[i] + 1
      OBVIOUS
    <2>2. k \in 1 .. n /\ k - 1 = place[i]
      BY <1>1, <1>4, <1>5, <2>1
    <2>3. f[k] \in S /\ place[f[k]] = k - 1
      BY <1>8, <2>2
    <2> QED
      BY <1>6, <2>2, <2>3
  <1>13. f \in Seq(S) /\ Len(f) = n
    BY <1>1, <1>9
  <1> QED
    BY <1>11, <1>12, <1>13 DEF f, n

LEMMA InOrderProperties ==
  ASSUME NEW S \in SUBSET Int, IsFiniteSet(S)
  PROVE  /\ InOrder(S) \in Seq(S) /\ Len(InOrder(S)) = Cardinality(S)
         /\ \A i \in S : \E k \in 1 .. Cardinality(S) : InOrder(S)[k] = i
         /\ \A k, l \in 1 .. Cardinality(S) : k < l => InOrder(S)[k] < InOrder(S)[l]
  <1> DEFINE order == {p \in S \X S : p[1] < p[2]}
             f == Arranged(S, order)
             n == Cardinality(S)
  <1>1. \A i, j \in S : i \in Int /\ (<<i, j>> \in order <=> i < j)
    OBVIOUS
  <1> HIDE DEF order
  <1>2. /\ \A i \in S : <<i, i>> \notin order
        /\ \A i, j \in S : i # j => <<i, j>> \in order \/ <<j, i>> \in order
        /\ \A h, i, j \in S : <<h, i>> \in order /\ <<i, j>> \in order => <<h, j>> \in order
    BY <1>1
  <1>3. /\ f \in Seq(S) /\ Len(f) = n
        /\ \A i \in S : \E k \in 1 .. n : f[k] = i
        /\ \A k, l \in 1 .. n : k < l => <<f[k], f[l]>> \in order
    BY <1>2, ArrangedProperties
  <1> HIDE DEF f, n
  <1>4. \A k \in 1 .. n : f[k] \in S
    BY <1>3, LenProperties
  <1>5. \A k, l \in 1 .. n : k < l => f[k] < f[l]
    BY <1>1, <1>3, <1>4
  <1> QED
    BY <1>3, <1>5 DEF InOrder, order, f, n

LEMMA LeastOf ==
  ASSUME NEW S \in SUBSET Int, IsFiniteSet(S), S # {}
  PROVE  \E m \in S : \A i \in S : m <= i
  <1> DEFINE n == Cardinality(S)
             f == InOrder(S)
  <1>1. n \in Nat /\ n > 0
    BY FS_CardinalityType, FS_EmptySet
  <1>2. /\ f \in Seq(S) /\ Len(f) = n
        /\ \A i \in S : \E k \in 1 .. n : f[k] = i
        /\ \A k, l \in 1 .. n : k < l => f[k] < f[l]
    BY InOrderProperties
  <1>3. \A i \in S : i \in Int
    OBVIOUS
  <1> HIDE DEF n, f
  <1>4. \A k \in 1 .. n : f[k] \in S
    BY <1>2, LenProperties
  <1>5. 1 \in 1 .. n /\ \A k \in 1 .. n : k = 1 \/ 1 < k
    BY <1>1
  <1>6. ASSUME NEW i \in S
        PROVE  f[1] <= i
    <2>1. PICK k \in 1 .. n : f[k] = i
      BY <1>2
    <2>2. f[1] \in Int /\ i \in Int
      BY <1>3, <1>4, <1>5
    <2>3. k = 1 \/ f[1] < f[k]
      BY <1>2, <1>5
    <2> QED
      BY <2>1, <2>2, <2>3
  <1> QED
    BY <1>4, <1>5, <1>6

(* The items at some places of a list, in its order. *)
LEMMA PickedItems ==
  ASSUME NEW T, NEW list \in Seq(T), NEW places \in SUBSET DOMAIN list,
         NEW picked, picked = [k \in DOMAIN InOrder(places) |-> list[InOrder(places)[k]]]
  PROVE  /\ picked \in Seq(T) /\ IsFiniteSet(places) /\ Len(picked) = Cardinality(places)
         /\ InOrder(places) \in Bijection(1 .. Len(picked), places)
         /\ \A k \in 1 .. Len(picked) : picked[k] = list[InOrder(places)[k]]
  <1> DEFINE order == InOrder(places)
             n == Cardinality(places)
  <1>1. Len(list) \in Nat /\ DOMAIN list = 1 .. Len(list) /\ \A i \in DOMAIN list : list[i] \in T
    BY LenProperties
  <1>2. places \in SUBSET Int /\ IsFiniteSet(places)
    <2>1. IsFiniteSet(1 .. Len(list)) /\ places \in SUBSET (1 .. Len(list))
      BY <1>1, FS_Interval
    <2>2. \A i \in 1 .. Len(list) : i \in Int
      BY <1>1
    <2> QED
      BY <2>1, <2>2, FS_Subset
  <1>3. /\ order \in Seq(places) /\ Len(order) = n
        /\ \A i \in places : \E k \in 1 .. n : order[k] = i
        /\ \A k, l \in 1 .. n : k < l => order[k] < order[l]
    BY <1>2, InOrderProperties
  <1>4. n \in Nat
    BY <1>2, FS_CardinalityType
  <1>5. picked = [k \in DOMAIN order |-> list[order[k]]]
    OBVIOUS
  <1> HIDE DEF order, n
  <1>6. DOMAIN order = 1 .. n /\ order \in [1 .. n -> places]
    BY <1>3, LenProperties
  <1>7. ASSUME NEW k \in 1 .. n, NEW l \in 1 .. n, order[k] = order[l]
        PROVE  k = l
    <2>1. order[k] \in Int /\ k \in Int /\ l \in Int
      BY <1>2, <1>4, <1>6
    <2>2. ~(k < l) /\ ~(l < k)
      BY <1>3, <1>7, <2>1
    <2> QED
      BY <2>1, <2>2
  <1>8. order \in Bijection(1 .. n, places)
    BY <1>3, <1>6, <1>7 DEF Bijection, Injection, Surjection, IsInjective
  <1>9. picked \in Seq(T) /\ Len(picked) = n /\ \A k \in 1 .. n : picked[k] = list[order[k]]
    <2>1. \A k \in 1 .. n : list[order[k]] \in T
      BY <1>1, <1>6
    <2>2. picked = [k \in 1 .. n |-> list[order[k]]]
      BY <1>5, <1>6
    <2>3. picked \in [1 .. n -> T]
      BY <2>1, <2>2
    <2> QED
      BY <1>4, <2>2, <2>3
  <1> QED
    BY <1>2, <1>8, <1>9 DEF order, n

-----------------------------------------------------------------------------
(* Titles: their kinds, and a list of titles all different.                  *)
Titles == Seq(DOMAIN Fold)

Kinds(titles) == {Fold[titles[i]] : i \in DOMAIN titles} \ {0}

Distinct(titles) ==
  /\ \A k, l \in DOMAIN titles : Fold[titles[k]] = Fold[titles[l]] => k = l
  /\ \A k \in DOMAIN titles : Fold[titles[k]] # 0

LEMMA KindsCounted ==
  ASSUME NEW titles \in Titles, Distinct(titles)
  PROVE  /\ IsFiniteSet(Kinds(titles)) /\ Cardinality(Kinds(titles)) = Len(titles)
         /\ Kinds(titles) = {Fold[titles[i]] : i \in DOMAIN titles}
  <1> DEFINE n == Len(titles)
             kinds == Kinds(titles)
             f == [k \in 1 .. n |-> Fold[titles[k]]]
  <1>1. n \in Nat /\ DOMAIN titles = 1 .. n
    BY LenProperties DEF Titles
  <1>2. kinds = {Fold[titles[i]] : i \in DOMAIN titles}
    BY DEF Kinds, Distinct
  <1> HIDE DEF kinds, n
  <1>3. f \in Bijection(1 .. n, kinds)
    <2>1. f \in [1 .. n -> kinds]
      BY <1>1, <1>2
    <2>2. \A k, l \in 1 .. n : f[k] = f[l] => k = l
      BY <1>1 DEF Distinct
    <2>3. \A x \in kinds : \E k \in 1 .. n : f[k] = x
      BY <1>1, <1>2
    <2> HIDE DEF f
    <2> QED
      BY <2>1, <2>2, <2>3 DEF Bijection, Injection, Surjection, IsInjective
  <1>4. IsFiniteSet(1 .. n) /\ Cardinality(1 .. n) = n
    BY <1>1, FS_Interval
  <1>5. ExistsBijection(1 .. n, kinds)
    BY <1>3 DEF ExistsBijection
  <1>6. IsFiniteSet(kinds) /\ Cardinality(kinds) = n
    BY <1>4, <1>5, FS_Bijection
  <1> QED
    BY <1>2, <1>6 DEF kinds, n

(* A cut leaves the head of a list. *)
LEMMA CutTitles ==
  ASSUME NEW titles \in Titles, Distinct(titles), NEW n \in Nat
  PROVE  /\ Cut(titles, n) \in Titles /\ Distinct(Cut(titles, n))
         /\ Len(Cut(titles, n)) = IF n < Len(titles) THEN n ELSE Len(titles)
         /\ Kinds(Cut(titles, n)) \subseteq Kinds(titles)
  <1> DEFINE m == IF n < Len(titles) THEN n ELSE Len(titles)
             cut == SubSeq(titles, 1, m)
  <1>1. Len(titles) \in Nat /\ DOMAIN titles = 1 .. Len(titles)
        /\ \A i \in DOMAIN titles : titles[i] \in DOMAIN Fold
    BY LenProperties DEF Titles
  <1>2. m \in Nat /\ m <= Len(titles)
    BY <1>1
  <1>3. Cut(titles, n) = cut
    BY DEF Cut
  <1>4. \A i \in 1 .. m : i \in DOMAIN titles
    BY <1>1, <1>2
  <1> HIDE DEF m
  <1>5. cut \in Titles /\ Len(cut) = m /\ \A i \in 1 .. m : cut[i] = titles[i]
    <2>1. \A i \in 1 .. m : titles[i] \in DOMAIN Fold
      BY <1>1, <1>4
    <2> QED
      BY <1>2, <2>1, SubSeqProperties DEF Titles
  <1>6. DOMAIN cut = 1 .. m
    BY <1>5, LenProperties DEF Titles
  <1> HIDE DEF cut
  <1>7. Distinct(cut) /\ Kinds(cut) \subseteq Kinds(titles)
    BY <1>4, <1>5, <1>6 DEF Distinct, Kinds
  <1> QED
    BY <1>3, <1>5, <1>7 DEF m

(* Of each kind one title is kept, so there are as many as kinds. *)
LEMMA TitlesUnique ==
  ASSUME NEW titles \in Titles
  PROVE  /\ UniqueTitles(titles) \in Titles /\ Distinct(UniqueTitles(titles))
         /\ Kinds(UniqueTitles(titles)) = Kinds(titles)
         /\ Len(UniqueTitles(titles)) = Cardinality(Kinds(titles))
         /\ Len(UniqueTitles(titles)) <= Len(titles)
  <1> DEFINE unique == UniqueTitles(titles)
             first == {i \in DOMAIN titles : /\ Fold[titles[i]] # 0
                                             /\ \A j \in 1 .. i - 1 : Fold[titles[j]] # Fold[titles[i]]}
             order == InOrder(first)
             n == Len(unique)
  <1>1. /\ Len(titles) \in Nat /\ DOMAIN titles = 1 .. Len(titles)
        /\ \A i \in DOMAIN titles : titles[i] \in DOMAIN Fold
    BY LenProperties DEF Titles
  <1>2. unique = [i \in DOMAIN order |-> titles[order[i]]]
    BY DEF UniqueTitles
  <1>3. \A i \in first : /\ i \in DOMAIN titles /\ Fold[titles[i]] # 0
                         /\ \A j \in 1 .. i - 1 : Fold[titles[j]] # Fold[titles[i]]
    OBVIOUS
  <1>4. \A i \in DOMAIN titles : (/\ Fold[titles[i]] # 0
                                  /\ \A j \in 1 .. i - 1 : Fold[titles[j]] # Fold[titles[i]])
                                    => i \in first
    OBVIOUS
  <1>5. first \in SUBSET DOMAIN titles
    OBVIOUS
  <1> HIDE DEF first, unique
  <1>6. /\ unique \in Seq(DOMAIN Fold) /\ IsFiniteSet(first) /\ n = Cardinality(first)
        /\ order \in Bijection(1 .. n, first)
        /\ \A k \in 1 .. n : unique[k] = titles[order[k]]
    BY <1>2, <1>5, PickedItems DEF Titles
  <1>7. /\ \A k \in 1 .. n : order[k] \in first
        /\ \A k, l \in 1 .. n : order[k] = order[l] => k = l
        /\ \A i \in first : \E k \in 1 .. n : order[k] = i
    BY <1>6 DEF Bijection, Injection, Surjection, IsInjective
  <1>8. n \in Nat /\ DOMAIN unique = 1 .. n
    BY <1>6, LenProperties
  <1> HIDE DEF order, n
  <1>9. ASSUME NEW i \in first, NEW j \in first, Fold[titles[i]] = Fold[titles[j]]
        PROVE  i = j
    <2>1. i \in 1 .. Len(titles) /\ j \in 1 .. Len(titles)
      BY <1>1, <1>3
    <2>2. i \in Int /\ j \in Int /\ i > 0 /\ j > 0
      BY <1>1, <2>1
    <2>3. i < j => i \in 1 .. j - 1
      BY <2>2
    <2>4. j < i => j \in 1 .. i - 1
      BY <2>2
    <2> QED
      BY <1>3, <1>9, <2>2, <2>3, <2>4
  <1>10. Distinct(unique)
    BY <1>3, <1>6, <1>7, <1>8, <1>9 DEF Distinct
  <1>11. ASSUME NEW i \in DOMAIN titles, Fold[titles[i]] # 0
         PROVE  \E h \in first : Fold[titles[h]] = Fold[titles[i]]
    <2> DEFINE like == {j \in DOMAIN titles : Fold[titles[j]] = Fold[titles[i]]}
    <2>1. like \in SUBSET Int /\ IsFiniteSet(like) /\ like # {}
      <3>1. IsFiniteSet(1 .. Len(titles)) /\ like \in SUBSET (1 .. Len(titles))
        BY <1>1, FS_Interval
      <3>2. \A j \in 1 .. Len(titles) : j \in Int
        BY <1>1
      <3> QED
        BY <3>1, <3>2, FS_Subset
    <2>2. \A j : j \in like <=> j \in DOMAIN titles /\ Fold[titles[j]] = Fold[titles[i]]
      OBVIOUS
    <2> HIDE DEF like
    <2>3. PICK h \in like : \A j \in like : h <= j
      BY <2>1, LeastOf
    <2>4. h \in 1 .. Len(titles) /\ h \in Int
      BY <1>1, <2>1, <2>2
    <2>5. ASSUME NEW j \in 1 .. h - 1
          PROVE  Fold[titles[j]] # Fold[titles[h]]
      <3>1. j \in 1 .. Len(titles) /\ ~(h <= j)
        BY <1>1, <2>4
      <3> QED
        BY <1>1, <2>2, <2>3, <3>1
    <2>6. Fold[titles[h]] = Fold[titles[i]]
      BY <2>2
    <2> QED
      BY <1>1, <1>4, <1>11, <2>4, <2>5, <2>6
  <1>12. Kinds(unique) = Kinds(titles)
    <2>1. \A x : x \in Kinds(unique) <=> \E k \in 1 .. n : x = Fold[unique[k]] /\ x # 0
      BY <1>8 DEF Kinds
    <2>2. \A x : x \in Kinds(titles) <=> \E i \in DOMAIN titles : x = Fold[titles[i]] /\ x # 0
      BY DEF Kinds
    <2>3. \A x \in Kinds(unique) : x \in Kinds(titles)
      BY <1>3, <1>6, <1>7, <2>1, <2>2
    <2>4. ASSUME NEW x \in Kinds(titles)
          PROVE  x \in Kinds(unique)
      <3>1. PICK i \in DOMAIN titles : x = Fold[titles[i]] /\ x # 0
        BY <2>2
      <3>2. PICK h \in first : Fold[titles[h]] = x
        BY <1>11, <3>1
      <3>3. PICK k \in 1 .. n : order[k] = h
        BY <1>7
      <3> QED
        BY <1>6, <2>1, <3>1, <3>2, <3>3
    <2> QED
      BY <2>3, <2>4
  <1>13. n = Cardinality(Kinds(titles))
    BY <1>6, <1>10, <1>12, KindsCounted DEF Titles, n
  <1>14. n <= Len(titles)
    <2>1. IsFiniteSet(1 .. Len(titles)) /\ Cardinality(1 .. Len(titles)) = Len(titles)
      BY <1>1, FS_Interval
    <2>2. first \in SUBSET (1 .. Len(titles))
      BY <1>1, <1>5
    <2> QED
      BY <1>6, <2>1, <2>2, FS_Subset
  <1> QED
    BY <1>6, <1>10, <1>12, <1>13, <1>14 DEF unique, n, Titles

LEMMA LargerOf ==
  ASSUME NEW m \in Nat, NEW n \in Nat
  PROVE  Max({m, n}) = IF m <= n THEN n ELSE m
  <1> DEFINE larger == IF m <= n THEN n ELSE m
  <1>1. larger \in {m, n} /\ \A y \in {m, n} : larger >= y
    OBVIOUS
  <1>2. \A x \in {m, n} : (\A y \in {m, n} : x >= y) => x = larger
    OBVIOUS
  <1> QED
    BY <1>1, <1>2 DEF Max

(* The titles of any answer add up. *)
LEMMA OTXAddsUp ==
  ASSUME NEW titles \in Titles, NEW count \in Nat, Len(titles) <= count
  PROVE  TitlesAddUp(count, titles)
  <1> DEFINE unique == UniqueTitles(titles)
             names == Cut(unique, NAMES)
             again == UniqueTitles(names)
             visible == Cut(again, VISIBLE)
             n == Len(unique)
             kinds == Kinds(titles)
             otx == NormalizeOTX(count, titles)
             shown == SummarizeOTX(otx)
             onPage == {Fold[visible[i]] : i \in DOMAIN visible}
  <1>1. /\ unique \in Titles /\ Distinct(unique) /\ Kinds(unique) = kinds
        /\ n = Cardinality(kinds) /\ n <= Len(titles)
    BY TitlesUnique
  <1>2. n \in Nat /\ Len(titles) \in Nat
    BY <1>1, LenProperties DEF Titles
  <1>3. otx.unique_pulse_count = n /\ otx.pulse_names = names
    BY DEF NormalizeOTX
  <1>4. /\ shown.uniqueCount = Max({n, Len(again)}) /\ shown.visibleTitles = visible
        /\ shown.remaining = Max({0, Max({n, Len(again)}) - Len(visible)})
    BY <1>3 DEF SummarizeOTX
  <1>5. TitlesAddUp(count, titles) <=>
          /\ Cardinality({Fold[shown.visibleTitles[i]] : i \in DOMAIN shown.visibleTitles})
               = Len(shown.visibleTitles)
          /\ {Fold[shown.visibleTitles[i]] : i \in DOMAIN shown.visibleTitles} \subseteq kinds
          /\ shown.uniqueCount = Cardinality(kinds) /\ shown.uniqueCount <= count
          /\ Len(shown.visibleTitles) + shown.remaining = shown.uniqueCount
          /\ shown.remaining > 0 => Len(shown.visibleTitles) = VISIBLE
    BY DEF TitlesAddUp, Kinds
  <1> HIDE DEF unique, n, kinds, otx, shown
  <1>6. /\ names \in Titles /\ Distinct(names) /\ Kinds(names) \subseteq kinds
        /\ Len(names) = IF NAMES < n THEN NAMES ELSE n
    BY <1>1, CutTitles, ListAssumption DEF n
  <1>7. Cardinality(Kinds(names)) = Len(names)
    BY <1>6, KindsCounted
  <1> HIDE DEF names
  <1>8. /\ again \in Titles /\ Distinct(again) /\ Kinds(again) = Kinds(names)
        /\ Len(again) = Len(names)
    BY <1>6, <1>7, TitlesUnique
  <1> HIDE DEF again
  <1>9. /\ visible \in Titles /\ Distinct(visible) /\ Kinds(visible) \subseteq Kinds(again)
        /\ Len(visible) = IF VISIBLE < Len(again) THEN VISIBLE ELSE Len(again)
    BY <1>8, CutTitles, ListAssumption
  <1> HIDE DEF visible
  <1>10. Cardinality(onPage) = Len(visible) /\ onPage \subseteq kinds
    BY <1>6, <1>8, <1>9, KindsCounted
  <1> DEFINE a == Len(again)
             v == Len(visible)
  <1>11. /\ a = IF NAMES < n THEN NAMES ELSE n
         /\ v = IF VISIBLE < n THEN VISIBLE ELSE n
         /\ a \in Nat /\ v \in Nat /\ a <= n /\ v <= n
    BY <1>2, <1>6, <1>8, <1>9, ListAssumption
  <1>12. v < n => v = VISIBLE
    BY <1>11
  <1> HIDE DEF a, v
  <1>13. Max({n, a}) = n
    BY <1>2, <1>11, LargerOf
  <1>14. n - v \in Nat
    BY <1>2, <1>11
  <1>15. Max({0, n - v}) = n - v
    <2> DEFINE d == n - v
    <2>1. 0 \in Nat /\ d \in Nat /\ 0 <= d
      BY <1>14
    <2> HIDE DEF d
    <2>2. Max({0, d}) = d
      BY <2>1, LargerOf
    <2> QED
      BY <2>2 DEF d
  <1>16. shown.uniqueCount = n /\ shown.remaining = n - v
    BY <1>4, <1>13, <1>15 DEF a, v
  <1>17. n <= count /\ v + (n - v) = n /\ (n - v > 0 => v = VISIBLE)
    BY <1>1, <1>2, <1>11, <1>12
  <1> HIDE DEF onPage
  <1> QED
    BY <1>1, <1>4, <1>5, <1>10, <1>16, <1>17 DEF v, onPage

-----------------------------------------------------------------------------
(* The years on file and the places on file of one year's records.           *)
Named(items) == {Year[items[i]] : i \in DOMAIN items}

Later(years) == {p \in years \X years : p[1] > p[2]}

YearList(items) == Arranged(Named(items), Later(Named(items)))

OfYear(y) == {cve \in DOMAIN Year : Year[cve] = y}

FiledIn(items, y) == {i \in DOMAIN items : Year[items[i]] = y}

(* The group of a year, as a numbering of the records of that year.          *)
LEMMA GroupOf ==
  ASSUME NEW items \in Seq(DOMAIN Year), NEW y
  PROVE  \E f \in Bijection(DOMAIN Keep(items, OfYear(y)), FiledIn(items, y)) :
           \A k \in DOMAIN Keep(items, OfYear(y)) : Keep(items, OfYear(y))[k] = items[f[k]]
  <1> DEFINE mine == FiledIn(items, y)
             cves == Keep(items, OfYear(y))
  <1>1. DOMAIN items = 1 .. Len(items) /\ \A i \in DOMAIN items : items[i] \in DOMAIN Year
    BY LenProperties
  <1>2. mine = {i \in DOMAIN items : items[i] \in OfYear(y)}
    BY <1>1 DEF FiledIn, OfYear
  <1>3. cves = [k \in DOMAIN InOrder(mine) |-> items[InOrder(mine)[k]]]
    BY <1>2 DEF Keep
  <1>4. mine \in SUBSET DOMAIN items
    BY DEF FiledIn
  <1> HIDE DEF mine, cves
  <1>5. /\ cves \in Seq(DOMAIN Year)
        /\ InOrder(mine) \in Bijection(1 .. Len(cves), mine)
        /\ \A k \in 1 .. Len(cves) : cves[k] = items[InOrder(mine)[k]]
    BY <1>3, <1>4, PickedItems
  <1>6. DOMAIN cves = 1 .. Len(cves)
    BY <1>5, LenProperties
  <1>7. \E f \in Bijection(DOMAIN cves, mine) : \A k \in DOMAIN cves : cves[k] = items[f[k]]
    BY <1>5, <1>6
  <1> QED
    BY <1>7 DEF mine, cves

(* The years on file, the last one first. *)
LEMMA YearsArranged ==
  ASSUME NEW items \in Seq(DOMAIN Year)
  PROVE  /\ YearList(items) \in Seq(Named(items))
         /\ \A y \in Named(items) : \E k \in DOMAIN YearList(items) : YearList(items)[k] = y
         /\ \A k, l \in DOMAIN YearList(items) :
              /\ k < l => YearList(items)[k] > YearList(items)[l]
              /\ YearList(items)[k] = YearList(items)[l] => k = l
  <1> DEFINE named == Named(items)
             order == Later(named)
             n == Cardinality(named)
             years == YearList(items)
             f == [i \in DOMAIN items |-> Year[items[i]]]
  <1>1. /\ Len(items) \in Nat /\ DOMAIN items = 1 .. Len(items)
        /\ \A i \in DOMAIN items : items[i] \in DOMAIN Year
    BY LenProperties
  <1>2. \A y \in named : y \in Int
    BY <1>1, ListAssumption DEF Named
  <1>3. IsFiniteSet(named)
    <2>1. f \in Surjection(DOMAIN items, named)
      BY DEF Surjection, Named
    <2>2. IsFiniteSet(DOMAIN items)
      BY <1>1, FS_Interval
    <2> HIDE DEF f, named
    <2> QED
      BY <2>1, <2>2, FS_Surjection
  <1> HIDE DEF named
  <1>4. \A i, j \in named : <<i, j>> \in order <=> i > j
    BY DEF Later
  <1>5. years = Arranged(named, order)
    BY DEF YearList, named
  <1> HIDE DEF order, years
  <1>6. /\ \A i \in named : <<i, i>> \notin order
        /\ \A i, j \in named : i # j => <<i, j>> \in order \/ <<j, i>> \in order
        /\ \A h, i, j \in named : <<h, i>> \in order /\ <<i, j>> \in order => <<h, j>> \in order
    BY <1>2, <1>4
  <1>7. /\ years \in Seq(named) /\ Len(years) = n
        /\ \A y \in named : \E k \in 1 .. n : years[k] = y
        /\ \A k, l \in 1 .. n : k < l => <<years[k], years[l]>> \in order
    BY <1>3, <1>5, <1>6, ArrangedProperties
  <1>8. n \in Nat
    BY <1>3, FS_CardinalityType
  <1> HIDE DEF n
  <1>9. DOMAIN years = 1 .. n /\ \A k \in 1 .. n : years[k] \in named
    BY <1>7, LenProperties
  <1>10. \A k, l \in 1 .. n : k < l => years[k] > years[l]
    BY <1>4, <1>7, <1>9
  <1>11. ASSUME NEW k \in 1 .. n, NEW l \in 1 .. n, years[k] = years[l]
         PROVE  k = l
    <2>1. k \in Int /\ l \in Int
      BY <1>8
    <2>2. years[k] \in Int /\ years[l] \in Int
      BY <1>2, <1>9
    <2> QED
      BY <1>10, <1>11, <2>1, <2>2
  <1> QED
    BY <1>7, <1>9, <1>10, <1>11 DEF years, named

(* The groups of any records are complete. *)
LEMMA GroupsAddUp ==
  ASSUME NEW items \in Seq(DOMAIN Year)
  PROVE  GroupsComplete(items)
  <1> DEFINE named == Named(items)
             years == YearList(items)
             groups == CVEGroups(items)
             places == UNION {{i} \X DOMAIN groups[i].cves : i \in DOMAIN groups}
             Told(p) == groups[p[1]].cves[p[2]]
  <1>1. /\ Len(items) \in Nat /\ DOMAIN items = 1 .. Len(items)
        /\ \A i \in DOMAIN items : items[i] \in DOMAIN Year
    BY LenProperties
  <1>2. /\ years \in Seq(named)
        /\ \A y \in named : \E k \in DOMAIN years : years[k] = y
        /\ \A k, l \in DOMAIN years : /\ k < l => years[k] > years[l]
                                      /\ years[k] = years[l] => k = l
    <2> HIDE DEF named, years
    <2> QED
      BY YearsArranged DEF named, years
  <1>4. groups = [i \in DOMAIN years |->
                    [year |-> years[i], cves |-> Keep(items, OfYear(years[i]))]]
    BY DEF CVEGroups, YearList, Named, Later, OfYear
  <1>5. /\ \A y \in named : \E i \in DOMAIN items : Year[items[i]] = y
        /\ \A i \in DOMAIN items : Year[items[i]] \in named
        /\ \A y : \A i : i \in FiledIn(items, y) <=> i \in DOMAIN items /\ Year[items[i]] = y
        /\ ToSet(items) = {items[i] : i \in DOMAIN items}
    BY DEF ToSet, Named, FiledIn
  <1> HIDE DEF named, years, groups
  <1>3. \A k \in DOMAIN years : years[k] \in named
    BY <1>2, LenProperties
  <1>6. /\ DOMAIN groups = DOMAIN years
        /\ \A g \in DOMAIN groups :
             /\ groups[g].year = years[g]
             /\ groups[g].cves = Keep(items, OfYear(years[g]))
    BY <1>4
  <1>7. ASSUME NEW g \in DOMAIN groups
        PROVE  \E f \in Bijection(DOMAIN groups[g].cves, FiledIn(items, years[g])) :
                 \A k \in DOMAIN groups[g].cves : groups[g].cves[k] = items[f[k]]
    BY <1>6, GroupOf
  <1>8. \A p : p \in places <=>
                 /\ p[1] \in DOMAIN groups /\ p[2] \in DOMAIN groups[p[1]].cves
                 /\ p = <<p[1], p[2]>>
    OBVIOUS
  <1> HIDE DEF places
  <1>9. ASSUME NEW p \in places
        PROVE  /\ Told(p) \in ToSet(items) /\ Told(p) \in DOMAIN Year
               /\ Year[Told(p)] = groups[p[1]].year
    <2>1. p[1] \in DOMAIN groups /\ p[2] \in DOMAIN groups[p[1]].cves
      BY <1>8
    <2>2. PICK f \in Bijection(DOMAIN groups[p[1]].cves, FiledIn(items, years[p[1]])) :
            \A k \in DOMAIN groups[p[1]].cves : groups[p[1]].cves[k] = items[f[k]]
      BY <1>7, <2>1
    <2>3. f[p[2]] \in FiledIn(items, years[p[1]])
      BY <2>1, <2>2 DEF Bijection, Injection
    <2> QED
      BY <1>1, <1>5, <1>6, <2>1, <2>2, <2>3
  <1>10. ASSUME NEW g \in DOMAIN groups
         PROVE  groups[g].cves # <<>>
    <2>1. PICK f \in Bijection(DOMAIN groups[g].cves, FiledIn(items, years[g])) :
            \A k \in DOMAIN groups[g].cves : groups[g].cves[k] = items[f[k]]
      BY <1>7
    <2>2. PICK i \in DOMAIN items : i \in FiledIn(items, years[g])
      BY <1>3, <1>5, <1>6
    <2>3. PICK k \in DOMAIN groups[g].cves : f[k] = i
      BY <2>1, <2>2 DEF Bijection, Surjection
    <2>4. DOMAIN <<>> = {}
      OBVIOUS
    <2> QED
      BY <2>3, <2>4
  <1>11. ASSUME NEW cve \in ToSet(items)
         PROVE  Cardinality({p \in places : Told(p) = cve}) =
                  Cardinality({i \in DOMAIN items : items[i] = cve})
    <2> DEFINE told == {p \in places : Told(p) = cve}
               filed == {i \in DOMAIN items : items[i] = cve}
    <2>1. PICK i \in DOMAIN items : items[i] = cve
      BY <1>5
    <2>2. PICK g \in DOMAIN groups : years[g] = Year[cve]
      BY <1>2, <1>5, <1>6, <2>1
    <2>3. PICK f \in Bijection(DOMAIN groups[g].cves, FiledIn(items, years[g])) :
            \A k \in DOMAIN groups[g].cves : groups[g].cves[k] = items[f[k]]
      BY <1>7
    <2>4. /\ \A k \in DOMAIN groups[g].cves : f[k] \in FiledIn(items, years[g])
          /\ \A k, l \in DOMAIN groups[g].cves : f[k] = f[l] => k = l
          /\ \A j \in FiledIn(items, years[g]) : \E k \in DOMAIN groups[g].cves : f[k] = j
      BY <2>3 DEF Bijection, Injection, Surjection, IsInjective
    <2>5. ASSUME NEW p \in told
          PROVE  /\ p[1] = g /\ p[2] \in DOMAIN groups[g].cves /\ p = <<p[1], p[2]>>
                 /\ groups[g].cves[p[2]] = cve
      <3>1. p \in places /\ Told(p) = cve
        OBVIOUS
      <3>2. p[1] \in DOMAIN groups /\ years[p[1]] = years[g]
        BY <1>6, <1>8, <1>9, <2>2, <3>1
      <3>3. p[1] = g
        BY <1>2, <1>6, <3>2
      <3> QED
        BY <1>8, <3>1, <3>3
    <2>6. ASSUME NEW k \in DOMAIN groups[g].cves, groups[g].cves[k] = cve
          PROVE  <<g, k>> \in told
      BY <1>8, <2>6
    <2> DEFINE h == [p \in told |-> f[p[2]]]
    <2>7. IsFiniteSet(filed)
      <3>1. IsFiniteSet(DOMAIN items)
        BY <1>1, FS_Interval
      <3> QED
        BY <3>1, FS_Subset
    <2>8. ASSUME NEW p \in told
          PROVE  h[p] \in filed
      <3>1. f[p[2]] \in DOMAIN items /\ items[f[p[2]]] = cve
        BY <1>5, <2>3, <2>4, <2>5
      <3> QED
        BY <3>1
    <2>9. ASSUME NEW p \in told, NEW q \in told, h[p] = h[q]
          PROVE  p = q
      <3>1. h[p] = f[p[2]] /\ h[q] = f[q[2]]
        OBVIOUS
      <3>2. p[2] \in DOMAIN groups[g].cves /\ q[2] \in DOMAIN groups[g].cves
        BY <2>5
      <3>3. p[2] = q[2]
        BY <2>4, <2>9, <3>1, <3>2
      <3>4. p = <<g, p[2]>> /\ q = <<g, q[2]>>
        BY <2>5
      <3> QED
        BY <3>3, <3>4
    <2>10. ASSUME NEW j \in filed
           PROVE  \E p \in told : h[p] = j
      <3>1. j \in FiledIn(items, years[g])
        BY <1>5, <2>2
      <3>2. PICK k \in DOMAIN groups[g].cves : f[k] = j
        BY <2>4, <3>1
      <3>3. groups[g].cves[k] = cve
        BY <2>3, <3>2
      <3>4. <<g, k>> \in told
        BY <2>6, <3>2, <3>3
      <3> QED
        BY <3>2, <3>4
    <2>11. h \in [told -> filed]
      BY <2>8
    <2> HIDE DEF told, filed, h
    <2>12. h \in Injection(told, filed) /\ h \in Surjection(told, filed)
      BY <2>9, <2>10, <2>11 DEF Injection, Surjection, IsInjective
    <2>13. Cardinality(told) = Cardinality(filed)
      BY <2>7, <2>12, FS_Injection
    <2> QED
      BY <2>13 DEF told, filed
  <1>12. \A i, j \in DOMAIN groups : i < j => groups[i].year > groups[j].year
    BY <1>2, <1>6
  <1> QED
    BY <1>9, <1>10, <1>11, <1>12 DEF GroupsComplete, places, groups

-----------------------------------------------------------------------------
(* The facts of a cross-reference are one answer's. *)
FactsInv == record.facts = {} \/ record.facts \in Enrichments

LEMMA FactsStep ==
  ASSUME IInv, FactsInv, [Next]_vars
  PROVE  FactsInv'
  <1>1. record \in RecordType
    BY DEF IInv, TypeOK
  <1>2. CASE UNCHANGED record
    BY <1>2 DEF FactsInv
  <1>3. CASE RecordNext
    <2>1. ASSUME NEW c \in recordCalls, RecordAnswer(c) \/ RecordFail(c) \/ EnrichFail(c)
          PROVE  record'.facts = record.facts
      BY <1>1, <2>1 DEF RecordAnswer, RecordFail, EnrichFail, RecordType
    <2>2. ASSUME NEW c \in recordCalls, NEW facts \in Enrichments, EnrichAnswer(c, facts)
          PROVE  record'.facts = record.facts \/ record'.facts = facts
      BY <1>1, <2>2 DEF EnrichAnswer, RecordType
    <2>3. ASSUME Copy \/ CopyDone \/ CopyFails \/ CopyTimer
          PROVE  record'.facts = record.facts
      BY <1>1, <2>3 DEF Copy, CopyDone, CopyFails, CopyTimer, RecordType
    <2> QED
      BY <1>3, <2>1, <2>2, <2>3 DEF RecordNext, RecordResult, FactsInv
  <1>4. ASSUME NEW e, Show(e)
        PROVE  FactsInv'
    <2>1. ASSUME NEW s, ChangeRecord(s)
          PROVE  record'.facts = {}
      BY <1>1, <2>1 DEF ChangeRecord, RecordType
    <2>2. ASSUME NEW s, MountRecord(s) \/ UnmountRecord
          PROVE  record'.facts = {}
      BY <2>2 DEF MountRecord, UnmountRecord, RecordClosed
    <2> QED
      BY <1>2, <1>4, <2>1, <2>2 DEF Show, Reads, Replaces, recordVars, FactsInv
  <1> QED
    BY <1>2, <1>3, <1>4 DEF Next, Follow, GoTo, Land, vars, recordVars

(* What is on file of any answer is on the page, or hidden on purpose. *)
Hidden(f) == IF f \cap Network = {} THEN {"place", "last_seen"}
             ELSE IF "ipapi" \in f THEN {"place"} ELSE {}

LEMMA FactsTold ==
  ASSUME NEW f, f = {} \/ f \in Enrichments
  PROVE  /\ f \ Rows(f) \subseteq {"pulsedive"} \cup Hidden(f)
         /\ ~HasData(f) => f \subseteq Hidden(f)
  <1> DEFINE hidden == Hidden(f)
  <1>1. /\ f \subseteq Facts
        /\ "ipqs_flag" \in f => "ipqs" \in f
        /\ "ipinfo_flag" \in f => "ipinfo" \in f
        /\ "pulsedive_risk" \in f => "pulsedive" \in f
    BY RecordAssumption
  <1>2. ASSUME NEW x \in f, x \notin {"place", "last_seen"}
        PROVE  HasData(f)
    BY <1>1, <1>2 DEF HasData, Facts, Exposure, Providers, Flags, Feeds, Network
  <1>3. ASSUME ~HasData(f)
        PROVE  f \subseteq hidden
    <2>1. f \subseteq {"place", "last_seen"}
      BY <1>2, <1>3
    <2>2. f \cap Network = {}
      BY <1>3 DEF HasData
    <2> QED
      BY <2>1, <2>2 DEF Hidden
  <1>4. ASSUME NEW x \in f, x \notin {"pulsedive"} \cup hidden
        PROVE  x \in Rows(f)
    <2>1. HasData(f)
      BY <1>3, <1>4
    <2>2. Rows(f) = (f \cap {"verdict"}) \cup ExposureRows(f) \cup ReputationRows(f)
                    \cup FeedRows(f) \cup NetworkRows(f)
      BY <2>1 DEF Rows
    <2>3. CASE x \in Exposure
      BY <2>2, <2>3 DEF ExposureRows, Section
    <2>4. CASE x \in Providers \cup Flags \cup {"pulsedive_risk"}
      <3>1. f \cap (Providers \cup Flags) # {}
        BY <1>1, <2>4 DEF Providers
      <3> QED
        BY <1>4, <2>2, <2>4, <3>1 DEF ReputationRows, Section
    <2>5. CASE x \in Feeds
      BY <2>2, <2>5 DEF FeedRows, Section
    <2>6. CASE x \in Network \cup {"place", "last_seen"}
      <3>1. f \cap Network # {}
        BY <1>4, <2>6 DEF Hidden
      <3>2. x = "place" => "ipapi" \notin f
        BY <1>4, <3>1 DEF Hidden
      <3> QED
        BY <2>2, <2>6, <3>1, <3>2 DEF NetworkRows, Section
    <2>7. CASE x = "verdict"
      BY <2>2, <2>7
    <2> QED
      BY <1>1, <2>3, <2>4, <2>5, <2>6, <2>7 DEF Facts
  <1> QED
    BY <1>3, <1>4

(* The cross-reference tells all that is on file for the host, and its two   *)
(* lists add up: no CVE record is lost or told twice by the grouping, and    *)
(* the titles shown and the titles told to be more are all there are         *)
(* (CrossReference.tsx:73-116, 138-378).                                     *)
THEOREM XrefTrue == Spec => []XrefHonest
  <1>1. Init => FactsInv
    BY DEF Init, RecordClosed, FactsInv
  <1>2. IInv /\ FactsInv /\ [Next]_vars => FactsInv'
    BY FactsStep
  <1>3. FactsInv => XrefHonest
    <2>1. ASSUME FactsInv
          PROVE  XrefTellsAll
      <3> DEFINE f == record.facts
      <3>1. f = {} \/ f \in Enrichments
        BY <2>1 DEF FactsInv
      <3>2. XrefView = "no external records" => ~HasData(f)
        BY DEF XrefView
      <3> HIDE DEF f
      <3>3. /\ f \ Rows(f) \subseteq {"pulsedive"} \cup Hidden(f)
            /\ ~HasData(f) => f \subseteq Hidden(f)
        BY <3>1, FactsTold
      <3> QED
        BY <3>2, <3>3 DEF XrefTellsAll, Hidden, f
    <2>2. ListsAddUp
      <3>1. \A p \in Pulses : TitlesAddUp(p[1], p[2])
        BY RecordAssumption, OTXAddsUp DEF Titles
      <3>2. \A items \in Vulns : GroupsComplete(items)
        BY RecordAssumption, GroupsAddUp
      <3> QED
        BY <3>1, <3>2 DEF ListsAddUp
    <2> QED
      BY <2>1, <2>2 DEF XrefHonest
  <1> QED
    BY <1>1, <1>2, <1>3, Invariance, PTL DEF Spec
=============================================================================
