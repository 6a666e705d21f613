------------------------------ MODULE Console ------------------------------
(* The overview page (pages/Console.tsx) and its viewport                    *)
(* (components/Viewport.tsx).  A draw asks for a random capture, falls back  *)
(* on the gallery, then fetches the observation; automatic draws do not wait *)
(* for each other.  The rails of recent observations, which are shown as     *)
(* they come and on which nothing depends, are left out.                     *)
EXTENDS StatsClient

CONSTANTS MaxDraws      \* bound: draws in progress

ASSUME ConsoleAssumption == MaxDraws \in Nat \ {0}

VARIABLES console       \* the page's React state, and its draws by phase

Phases == {"random", "gallery", "signal"}

NoDraws == [phase \in Phases |-> 0]

ConsoleClosed == [detail |-> "none", loading |-> TRUE, auto |-> FALSE, error |-> FALSE,
                  totals |-> FALSE, draws |-> NoDraws]

ConsoleOpen == page = "overview"

Draws == console.draws["random"] + console.draws["gallery"] + console.draws["signal"]

Failing == console.error /\ console.detail = "none"

(* What the viewport's screen says, and its button.  An observation may be   *)
(* bare: its record has a landing image but no capture of its own.           *)
Screen == IF console.detail = "pictured" THEN "observation"
          ELSE IF console.loading THEN "loading"
          ELSE IF Failing THEN "couldn't reach the collector"
          ELSE "no observation"

DrawButton == IF console.loading THEN "disabled" ELSE IF Failing THEN "retry" ELSE "draw"

-----------------------------------------------------------------------------
Drawing(c) == [c EXCEPT !.loading = TRUE, !.draws["random"] = @ + 1]

(* A draw goes from one phase to the next, or ends. *)
Phase(from, to) == [console EXCEPT !.draws[from] = @ - 1, !.draws[to] = @ + 1]
Ended(from)     == [console EXCEPT !.draws[from] = @ - 1, !.loading = FALSE]

(* The first draw, and the totals. *)
MountConsole == /\ CallStats(0)
                /\ console' = [Drawing(ConsoleClosed) EXCEPT !.totals = Known(0) # {}]

UnmountConsole == console' = ConsoleClosed

ConsoleHears(q) ==
  console' = IF ConsoleOpen /\ "page" \in q.waiters THEN [console EXCEPT !.totals = TRUE] ELSE console

Acquire == /\ DrawButton # "disabled" /\ Draws < MaxDraws
           /\ console' = Drawing(console)

ToggleAuto == console' = [console EXCEPT !.auto = ~@]

(* The interval of six seconds. *)
AutoTick == /\ console.auto /\ Draws < MaxDraws
            /\ console' = Drawing(console)

RandomOK == console' = Phase("random", "signal")

RandomFails == console' = Phase("random", "gallery")

GalleryOK == console' = Phase("gallery", "signal")

\* A fault: the fallback's failure is swallowed.
GalleryFails_Silent == console' = Ended("gallery")

\* A fault: the loading flag is lowered by a success only.
GalleryFails_Loading ==
  console' = [console EXCEPT !.draws["gallery"] = @ - 1, !.error = TRUE]

(* Down, or empty. *)
GalleryFails == console' = [Ended("gallery") EXCEPT !.error = TRUE]

SignalOK(detail) == console' = [Ended("signal") EXCEPT !.detail = detail, !.error = FALSE]

\* A fault: a failure takes the observation away.
SignalFails_Clears == console' = [Ended("signal") EXCEPT !.error = TRUE, !.detail = "none"]

SignalFails == console' = [Ended("signal") EXCEPT !.error = TRUE]

DrawEnds == \/ console.draws["random"] > 0 /\ (RandomOK \/ RandomFails)
            \/ console.draws["gallery"] > 0 /\ (GalleryOK \/ GalleryFails)
            \/ console.draws["signal"] > 0 /\ ((\E d \in {"pictured", "bare"} : SignalOK(d)) \/ SignalFails)

ConsoleNext == /\ ConsoleOpen
               /\ Acquire \/ ToggleAuto \/ AutoTick \/ DrawEnds

-----------------------------------------------------------------------------
(* The screen is never without an observation, a notice of loading or of     *)
(* failure, however draws overlap: "no observation" is said only over the    *)
(* details of a bare one.  While it loads, with its button disabled, a draw  *)
(* is in progress that will enable it (Console.tsx:30-58,                    *)
(* Viewport.tsx:48-62, 99-102).                                              *)
ScreenHonest ==
  ConsoleOpen => /\ Screen = "no observation" => console.detail = "bare"
                 /\ console.loading => console.draws # NoDraws

(* An observation stays until another has come: a failed draw does not take  *)
(* it away, nor is a failure told over it (Console.tsx:50-54, 175).          *)
ObservationStays ==
  [][ console.detail # "none" /\ ConsoleOpen' =>
        /\ console'.detail # "none" /\ ~Failing'
        /\ \/ console'.detail = console.detail
           \/ console'.draws["signal"] < console.draws["signal"] ]_console

(* The button is enabled again. *)
ConsoleSettles == ConsoleOpen /\ console.loading ~> ~ConsoleOpen \/ ~console.loading
=============================================================================
