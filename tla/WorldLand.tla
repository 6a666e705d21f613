----------------------------- MODULE WorldLand -----------------------------
(* The world's outline (lib/worldLand.ts), downloaded once and shared by the *)
(* maps of every page: the promise outlives the pages, the drawing does not. *)
EXTENDS Integers

VARIABLES land,         \* landPromise: "none", "pending" or "ok"
          downloads,    \* downloads in flight
          waiting,      \* the mounted map awaits the promise
          drawn         \* the mounted map shows the outline

landVars == <<land, downloads, waiting, drawn>>

LandInit == land = "none" /\ downloads = 0 /\ waiting = FALSE /\ drawn = FALSE

\* A fault: the promise is kept only once it has resolved.
LoadLand_Again ==
  /\ land' = IF land = "none" THEN "pending" ELSE land
  /\ downloads' = IF land = "ok" THEN downloads ELSE downloads + 1
  /\ waiting' = (land # "ok")
  /\ drawn' = (land = "ok")

(* A map mounts and asks for the outline. *)
LoadLand == /\ land' = IF land = "none" THEN "pending" ELSE land
            /\ downloads' = IF land = "none" THEN downloads + 1 ELSE downloads
            /\ waiting' = (land # "ok")
            /\ drawn' = (land = "ok")

(* The map leaves the screen: what it awaits no longer concerns it. *)
UnmountLand == /\ waiting' = FALSE /\ drawn' = FALSE
               /\ UNCHANGED <<land, downloads>>

LandArrives == /\ downloads > 0
               /\ downloads' = downloads - 1
               /\ land' = "ok"
               /\ drawn' = (drawn \/ waiting)
               /\ waiting' = FALSE

(* A later mount may try again; the mounted map stays without an outline.    *)
LandFails == /\ downloads > 0
             /\ downloads' = downloads - 1
             /\ land' = "none"
             /\ waiting' = FALSE
             /\ UNCHANGED drawn

(* The outline is downloaded once for all the maps of a visit, again only    *)
(* after a failure, and a map that waited for it draws it                    *)
(* (worldLand.ts:7-21).                                                      *)
LandOnce == /\ downloads = IF land = "pending" THEN 1 ELSE 0
            /\ waiting => land = "pending"
            /\ drawn => land = "ok"
=============================================================================
