------------------------------ MODULE History ------------------------------
(* The browser under the user interface: its history, one entry per page     *)
(* visited, whose query the pages read and rewrite; one page is mounted at a *)
(* time (App.tsx).                                                           *)
(* A browser event, the render it causes, the effects of that render and the *)
(* renders they cause are one step, and so are the handlers chained to one   *)
(* promise: JavaScript runs each to the end.                                 *)
EXTENDS Integers, FiniteSets, SequencesExt, FiniteSetsExt

CONSTANTS MaxEntries,       \* bound: entries of the history
          MaxCalls          \* bound: calls in flight of one page

ASSUME HistoryAssumption == MaxEntries \in Nat \ {0} /\ MaxCalls \in Nat \ {0}

VARIABLES entries,      \* the history: records [page, query]
          at            \* the entry the browser is on

historyVars == <<entries, at>>

Here == entries[at]

(* A link: the entries ahead are dropped. *)
Push(e) == /\ at < MaxEntries
           /\ entries' = Append(SubSeq(entries, 1, at), e)
           /\ at' = at + 1

(* The back and forward buttons, or a jump to an entry of the list; e is     *)
(* what the page there makes of its entry.                                   *)
Jump(i, e) == /\ i \in DOMAIN entries /\ i # at
              /\ entries' = [entries EXCEPT ![i] = e]
              /\ at' = i

Rewrite(e) == entries' = [entries EXCEPT ![at] = e] /\ UNCHANGED at

(* Effect cleanup: the answers of the calls made so far are to be ignored. *)
Superseded(calls) == {[c EXCEPT !.alive = FALSE] : c \in calls}
=============================================================================
