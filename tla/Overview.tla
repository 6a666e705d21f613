------------------------------ MODULE Overview ------------------------------
(* The overview, the statistics page and the top bar over the client's cache *)
(* of statistics.  The top bar (components/TopBar.tsx) stays mounted; the    *)
(* other pages count as one.                                                 *)
EXTENDS StatsPage, Console

VARIABLES topbar        \* the top bar shows totals

vars == <<page, clientVars, stats, console, topbar>>

(* A link: one page gives way to another. *)
Follow(p) ==
  /\ p # page
  /\ page' = p
  /\ \/ p = "stats"    /\ MountStats /\ UnmountConsole
     \/ p = "overview" /\ MountConsole /\ UnmountStats
     \/ /\ p = "other" /\ UnmountStats /\ UnmountConsole
        /\ fetches' = Ignored /\ UNCHANGED statsCache
  /\ UNCHANGED topbar

(* The end of a fetch, and all that waits for it. *)
StatsArrive(q, answer) ==
  /\ FetchOK(q, answer) /\ StatsHears(q, answer) /\ ConsoleHears(q)
  /\ topbar' = (topbar \/ "topbar" \in q.waiters)
  /\ UNCHANGED page

StatsLost(q) == /\ FetchFails(q) /\ StatsMisses(q)
                /\ UNCHANGED <<page, console, topbar>>

Answers == {[window |-> w, of |-> t] : w \in Ranges, t \in UNION {Tallies[r] : r \in Ranges}}

StatsResult(q) == StatsLost(q) \/ \E a \in Answers : a.of \in Tallies[a.window] /\ StatsArrive(q, a)

(* On the first paint the top bar calls, and the page, through the cache. *)
Init ==
  /\ topbar = FALSE
  /\ page \in {"overview", "stats", "other"}
  /\ console = IF ConsoleOpen THEN Drawing(ConsoleClosed) ELSE ConsoleClosed
  /\ stats = IF StatsOpen THEN [StatsClosed EXCEPT !.trends = TRUE] ELSE StatsClosed
  /\ fetches = {Fetch(1, 0, IF ConsoleOpen THEN {"topbar", "page"} ELSE {"topbar"})} \cup
               (IF StatsOpen THEN {Fetch(2, 24, {"page"})} ELSE {})
  /\ statsCache = [r \in Ranges |-> IF r = 0 THEN {Pending(1)}
                                    ELSE IF r = 24 /\ StatsOpen THEN {Pending(2)} ELSE {}]

StatsSteps == \/ \E h \in Ranges : ChooseHours(h)
              \/ StatsRetry
              \/ UNCHANGED clientVars /\ (TrendNext \/ \E on \in BOOLEAN : ChooseDensity(on))

Next == \/ \E p \in {"overview", "stats", "other"} : Follow(p)
        \/ \E q \in fetches : StatsResult(q)
        \/ \E r \in Ranges : Expire(r) /\ UNCHANGED <<page, stats, console, topbar>>
        \/ StatsSteps /\ UNCHANGED <<page, console, topbar>>
        \/ ConsoleNext /\ UNCHANGED <<page, clientVars, stats, topbar>>

StatsAnswered == \E q \in fetches : "page" \in q.waiters /\ StatsResult(q)
DrawAnswered == ConsoleOpen /\ DrawEnds /\ UNCHANGED <<page, clientVars, stats, topbar>>

(* A fetch ends, with an answer or an error.  Nothing is assumed of the      *)
(* reader, of the clock, or of a call whose answer is ignored.               *)
Spec == Init /\ [][Next]_vars /\ WF_vars(StatsAnswered) /\ WF_vars(DrawAnswered)

-----------------------------------------------------------------------------
(* Neither page loads for ever.                                              *)
OverviewSettles == StatsSettles /\ ConsoleSettles

FetchType == [id : Nat, range : Ranges, waiters : SUBSET {"topbar", "page"}]

EntryType == [id : Nat, state : {"pending", "ok"}, answer : SUBSET Answers]

(* Where the pointer may have picked a point. *)
Picks == {Nearest(Len(ChartPoints(AtRiskSeries(ReadDailyRollups(stored)))), px) :
            stored \in Rollups, px \in Pointers}

StatsType == [hours : Ranges, s : SUBSET Answers, loading : BOOLEAN, error : BOOLEAN,
              trends : BOOLEAN, density : BOOLEAN,
              days : {<<>>} \cup {ReadDailyRollups(stored) : stored \in Rollups},
              hover : SUBSET Picks]

ConsoleType == [detail : {"none", "bare", "pictured"}, loading : BOOLEAN, auto : BOOLEAN,
                error : BOOLEAN, totals : BOOLEAN, draws : [Phases -> Nat]]

TypeOK == /\ page \in {"overview", "stats", "other"} /\ topbar \in BOOLEAN
          /\ fetches \subseteq FetchType /\ statsCache \in [Ranges -> SUBSET EntryType]
          /\ stats \in StatsType /\ console \in ConsoleType
=============================================================================
