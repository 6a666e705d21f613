------------------------------ MODULE MapPage ------------------------------
(* The map explorer (pages/MapExplorer.tsx), the observation map it holds    *)
(* (components/ObservationMap.tsx) and the zoomable map in that              *)
(* (components/InteractiveWorldMap.tsx).  The layer and the window are read  *)
(* from the address at every render.  Pan offsets, the pointer and the       *)
(* choice of ranking are left out: nothing below depends on them.            *)
EXTENDS History, WorldLand

CONSTANTS Points,       \* map entries: records [key, secured, country, network, x]
          Answers,      \* Answers[layer]: the sets of entries the API may answer
          MapLinked,    \* URLs of the map that links lead to, by hand or on the site
          Zooms,        \* factors <<n, d>> of the controls, the wheel, a double click
          MAX_ZOOM      \* the greatest scale, in hundredths (800 in the code)

VARIABLES map,          \* the React state of the page and the maps in it
          mapCalls      \* its API calls in flight

mapVars == <<map, mapCalls>>

MapModes == {"observations", "cleartext", "at-risk"}
Windows  == {"0", "24", "168", "720"}

(* The smallest scale, in hundredths; a cell of the clustering grid.         *)
MIN_ZOOM == 100
CELL == 34

ASSUME MapAssumption == /\ MAX_ZOOM \in Nat /\ MAX_ZOOM > MIN_ZOOM
                        /\ Zooms \subseteq Nat \X (Nat \ {0})

-----------------------------------------------------------------------------
(* The layer an address asks for, and the address of a layer.  A window      *)
(* without a value is the number 0: everything retained.                     *)
LayerOf(url) ==
  [mode  |-> IF "layer" \in DOMAIN url /\ url["layer"] \in MapModes
             THEN url["layer"] ELSE "observations",
   hours |-> IF "window" \notin DOMAIN url THEN "24"
             ELSE IF url["window"] = "" THEN "0"
             ELSE IF url["window"] \in Windows THEN url["window"] ELSE "24"]

MapURL(layer) ==
  [p \in (IF layer.mode = "observations" THEN {} ELSE {"layer"}) \cup
         (IF layer.hours = "24" THEN {} ELSE {"window"}) |->
     IF p = "layer" THEN layer.mode ELSE layer.hours]

MapOpen == Here.page = "map"

Layer == LayerOf(Here.query)

-----------------------------------------------------------------------------
MapStart == [data |-> {}, loading |-> TRUE, error |-> FALSE, https |-> TRUE, http |-> TRUE,
             sel |-> {}, cluster |-> {}, focus |-> {}, scale |-> MIN_ZOOM]

MapCall(layer) == [layer |-> layer, alive |-> TRUE]

Entries(m) == UNION {d.points : d \in m.data}

Focused(m) == {p \in Entries(m) : \A f \in m.focus : f \in {p.country, p.network}}

Visible(m) == {p \in Focused(m) : IF p.secured THEN m.https ELSE m.http}

Keys(points) == {p.key : p \in points}

\* A fault: an open list survives a toggle.
Consistent_KeepsList(m) ==
  [m EXCEPT !.sel = {p \in @ : p.key \in Keys(Visible(m))}]

(* The effect after every render: a selected host that is no longer visible  *)
(* is deselected, a list with one that is not is closed.                     *)
Consistent(m) ==
  LET shown == Keys(Visible(m))
  IN  [m EXCEPT !.sel = {p \in @ : p.key \in shown},
                !.cluster = IF Keys(@) \subseteq shown THEN @ ELSE {}]

(* The markers of one cell of the grid at the current scale. *)
ClusterOf(p) ==
  {v \in Visible(map) : (v.x * map.scale) \div (100 * CELL) = (p.x * map.scale) \div (100 * CELL)}

Greater(a, b) == IF a > b THEN a ELSE b
Lesser(a, b)  == IF a < b THEN a ELSE b

Clamp(scale) == Lesser(MAX_ZOOM, Greater(MIN_ZOOM, scale))

(* On the screen: the error in the place of the map, only before any data;   *)
(* beside it a host's detail, the list of a cluster, or the rankings.        *)
MapFailed == map.error /\ map.data = {}

Sidebar == IF map.sel # {} THEN "detail"
           ELSE IF Cardinality(map.cluster) > 1 THEN "list" ELSE "rankings"

-----------------------------------------------------------------------------
MountMap(url) == /\ map' = MapStart
                 /\ mapCalls' = {MapCall(LayerOf(url))}
                 /\ LoadLand

UnmountMap == map' = MapStart /\ mapCalls' = {}

(* The fetch effect: what was selected or focused goes; the data stays until *)
(* the answer.  An error that hid the zoomable map is cleared: it mounts     *)
(* again.                                                                    *)
Ask(layer) ==
  /\ Cardinality(mapCalls) < MaxCalls
  /\ map' = [map EXCEPT !.loading = TRUE, !.error = FALSE,
                        !.sel = {}, !.cluster = {}, !.focus = {}]
  /\ mapCalls' = Superseded(mapCalls) \cup {MapCall(layer)}
  /\ IF MapFailed THEN LoadLand ELSE UNCHANGED landVars

ChooseLayer(layer) ==
  /\ MapOpen /\ layer # Layer
  /\ Rewrite([page |-> "map", query |-> MapURL(layer)])
  /\ Ask(layer)

MapRetry == /\ MapOpen /\ MapFailed
            /\ Ask(Layer)
            /\ UNCHANGED historyVars

\* A fault: an answer counts though its call was superseded.
MapAnswer_Late(c, points) ==
  /\ mapCalls' = mapCalls \ {c}
  /\ map' = Consistent([map EXCEPT !.data = {[layer |-> c.layer, points |-> points]},
                                   !.loading = FALSE])
  /\ UNCHANGED <<historyVars, landVars>>

MapAnswer(c, points) ==
  /\ mapCalls' = mapCalls \ {c}
  /\ map' = IF c.alive
            THEN Consistent([map EXCEPT !.data = {[layer |-> c.layer, points |-> points]},
                                        !.loading = FALSE])
            ELSE map
  /\ UNCHANGED <<historyVars, landVars>>

MapFail(c) ==
  /\ mapCalls' = mapCalls \ {c}
  /\ map' = IF ~c.alive THEN map
            ELSE [map EXCEPT !.error = TRUE, !.loading = FALSE,
                             !.scale = IF map.data = {} THEN MIN_ZOOM ELSE @]
  /\ IF c.alive /\ map.data = {} THEN UnmountLand ELSE UNCHANGED landVars
  /\ UNCHANGED historyVars

(* A change of the page's own state. *)
Render(m) == /\ MapOpen /\ map' = Consistent(m)
             /\ UNCHANGED <<mapCalls, historyVars, landVars>>

ToggleHTTPS == Render([map EXCEPT !.https = IF @ /\ ~map.http THEN @ ELSE ~@])
ToggleHTTP  == Render([map EXCEPT !.http = IF @ /\ ~map.https THEN @ ELSE ~@])

FocusOn(label) == /\ Sidebar = "rankings" /\ map.data # {}
                  /\ Render([map EXCEPT !.focus = {label}])

ClearFocus == map.focus # {} /\ Render([map EXCEPT !.focus = {}])

\* A fault: a cluster only ever zooms in.
Activated_NoList(p) ==
  IF Cardinality(ClusterOf(p)) > 1
  THEN [map EXCEPT !.scale = Clamp(Greater((@ * 190) \div 100, 200))]
  ELSE [map EXCEPT !.sel = {p}, !.cluster = {}]

(* A marker is clicked, or chosen with the keyboard: alone in its cell it is *)
(* selected, else the map zooms in or, at the greatest scale, lists the cell.*)
Activated(p) ==
  IF Cardinality(ClusterOf(p)) > 1
  THEN IF map.scale >= MAX_ZOOM - 1
       THEN [map EXCEPT !.sel = {}, !.cluster = ClusterOf(p)]
       ELSE [map EXCEPT !.scale = Clamp(Greater((@ * 190) \div 100, 200))]
  ELSE [map EXCEPT !.sel = {p}, !.cluster = {}]

Activate(p) == ~MapFailed /\ p \in Visible(map) /\ Render(Activated(p))

PickFromList(p) == /\ Sidebar = "list" /\ p \in map.cluster
                   /\ Render([map EXCEPT !.sel = {p}, !.cluster = {}])

CloseSidebar == /\ Sidebar # "rankings"
                /\ Render([map EXCEPT !.sel = {},
                                      !.cluster = IF Sidebar = "list" THEN {} ELSE @])

Zoom(factor) == ~MapFailed /\ Render([map EXCEPT !.scale = Clamp((@ * factor[1]) \div factor[2])])

ResetView == ~MapFailed /\ Render([map EXCEPT !.scale = MIN_ZOOM])

Labels == UNION {{p.country, p.network} : p \in Points}

Layers == {LayerOf(url) : url \in MapLinked}

ASSUME AnswersAssumption == \A layer \in Layers : Answers[layer] \subseteq SUBSET Points

MapResult(c) == (\E points \in Answers[c.layer] : MapAnswer(c, points)) \/ MapFail(c)

MapNext == \/ \E layer \in Layers : ChooseLayer(layer)
           \/ MapRetry
           \/ \E c \in mapCalls : MapResult(c)
           \/ ToggleHTTPS \/ ToggleHTTP
           \/ \E label \in Labels : FocusOn(label)
           \/ ClearFocus
           \/ \E p \in Points : Activate(p) \/ PickFromList(p)
           \/ CloseSidebar
           \/ \E factor \in Zooms : Zoom(factor)
           \/ ResetView

-----------------------------------------------------------------------------
(* A map that neither loads nor reports an error shows the layer and window  *)
(* named above it: a late answer for another is not drawn under the label    *)
(* (ObservationMap.tsx:65-86, 176-188).                                      *)
MapShowsLayer ==
  MapOpen /\ ~map.loading /\ ~map.error =>
    \E d \in map.data : map.data = {d} /\ d.layer = Layer

(* The host in the sidebar, or every host of the list there, is a marker of  *)
(* the map now, after any toggle, focus or answer; the sidebar never holds   *)
(* both, and no legend state empties the map by itself                       *)
(* (ObservationMap.tsx:97-126, 190-206, 228-239).                            *)
SelectionVisible ==
  /\ Keys(map.sel) \subseteq Keys(Visible(map))
  /\ Keys(map.cluster) \subseteq Keys(Visible(map))
  /\ map.sel = {} \/ map.cluster = {}
  /\ map.https \/ map.http

(* Every host can be reached however close the markers are: activating one   *)
(* selects it, lists it among the hosts it overlaps, or strictly zooms in,   *)
(* and the scale is bounded; the effect that follows the render undoes none  *)
(* of it (InteractiveWorldMap.tsx:98-113, 136-140, 182-189).                 *)
ActivationProgress ==
  MapOpen /\ ~MapFailed => \A p \in Visible(map) :
    LET after == Consistent(Activated(p))
    IN  after.sel = {p} \/ p \in after.cluster \/ map.scale < after.scale

(* The map does not update for ever, unless the reader goes on changing the  *)
(* layer, which gives up the call before it has ended                        *)
(* (ObservationMap.tsx:65-86).                                               *)
MapSettles == \/ MapOpen /\ map.loading ~> ~MapOpen \/ ~map.loading
              \/ []<><<Layer' # Layer>>_historyVars
=============================================================================
