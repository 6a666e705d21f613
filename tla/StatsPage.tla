------------------------------ MODULE StatsPage ------------------------------
(* The statistics page (pages/Stats.tsx).  A window is fetched through the   *)
(* client's cache; the 90-day trend is fetched apart from it, and trends     *)
(* says that its answer is awaited.  The tables are derived from the answer  *)
(* at every render.  Of the charts, which are alike, the one of the trend is *)
(* modelled that can be plotted anew while a reader points at it.            *)
EXTENDS StatsClient, TrendChart

CONSTANTS Tallies,      \* Tallies[w]: what may be stored of a window w
          Rollups,      \* the daily snapshots that may be stored
          Pointers      \* where a pointer may be over a chart

(* Labels are numbers, and of the services of a label some are flagged.      *)
ASSUME TallyAssumption ==
  \A tally \in UNION {Tallies[w] : w \in Ranges}, dim \in Dims :
    /\ DOMAIN tally[dim] \subseteq Int /\ IsFiniteSet(DOMAIN tally[dim])
    /\ \A raw \in DOMAIN tally[dim] :
         /\ tally[dim][raw] \in [all : Nat, flagged : Nat]
         /\ tally[dim][raw].flagged <= tally[dim][raw].all
         /\ Label(dim, raw) \in Int

ASSUME RollupAssumption ==
  /\ \A stored \in Rollups :
       /\ DOMAIN stored \subseteq Int /\ IsFiniteSet(DOMAIN stored)
       /\ \A date \in DOMAIN stored : stored[date] \in [flagged : Nat, cleartext : Nat, secure : Nat]
  /\ Pointers \subseteq Int

VARIABLES stats         \* the React state of the statistics page

StatsClosed == [hours |-> 24, s |-> {}, loading |-> TRUE, error |-> FALSE,
                trends |-> FALSE, density |-> FALSE, days |-> <<>>, hover |-> {}]

StatsOpen == page = "stats"

(* What is on the screen in the place of the tables. *)
StatsView == IF stats.s # {} THEN "tables"
             ELSE IF stats.loading THEN "aggregating"
             ELSE IF stats.error THEN "error"
             ELSE "telemetry offline"

(* The trend is charted from three snapshots on; a chart that leaves the     *)
(* screen forgets the point it was on.                                       *)
Charted(st) == st.s # {} /\ Len(st.days) >= 3

Rendered(st) == [st EXCEPT !.hover = IF Charted(st) THEN @ ELSE {}]

-----------------------------------------------------------------------------
\* A fault: an answer for another window is dropped without an error.
Settled_Silent(st, answer) ==
  IF answer.window # st.hours THEN [st EXCEPT !.loading = FALSE]
  ELSE [st EXCEPT !.s = {answer}, !.loading = FALSE]

(* An answer is [window, of]: the window it says it is for, and the tally it *)
(* was computed from.  One for another window than asked for is an error.    *)
Settled(st, answer) ==
  IF answer.window # st.hours THEN [st EXCEPT !.error = TRUE, !.loading = FALSE]
  ELSE [st EXCEPT !.s = {answer}, !.loading = FALSE]

Failed(st) == [st EXCEPT !.error = TRUE, !.loading = FALSE]

\* A fault: the tables stay until the answer.
Asked_Kept(st, hours) ==
  LET asked == [st EXCEPT !.hours = hours, !.loading = TRUE, !.error = FALSE]
  IN  IF Rejected(hours) THEN Failed(asked)
      ELSE IF Known(hours) # {} THEN Settled(asked, CHOOSE a \in Known(hours) : TRUE)
      ELSE asked

(* The effect of a window or a retry: the tables go, and the cache may have  *)
(* the answer or the failure at hand.                                        *)
Asked(st, hours) ==
  LET asked == [st EXCEPT !.hours = hours, !.s = {}, !.loading = TRUE, !.error = FALSE]
  IN  Rendered(IF Rejected(hours) THEN Failed(asked)
               ELSE IF Known(hours) # {} THEN Settled(asked, CHOOSE a \in Known(hours) : TRUE)
               ELSE asked)

MountStats == /\ CallStats(24)
              /\ stats' = [Asked(StatsClosed, 24) EXCEPT !.trends = TRUE]

UnmountStats == stats' = StatsClosed

ChooseHours(hours) ==
  /\ StatsOpen /\ hours # stats.hours
  /\ CallStats(hours)
  /\ stats' = Asked(stats, hours)

(* The retry of the error fetches the trend again as well. *)
StatsRetry ==
  /\ StatsOpen /\ StatsView = "error"
  /\ CallStats(stats.hours)
  /\ stats' = [Asked(stats, stats.hours) EXCEPT !.trends = TRUE]

(* The parts of a fetch's end that are the page's. *)
StatsHears(q, answer) ==
  stats' = IF StatsOpen /\ "page" \in q.waiters THEN Settled(stats, answer) ELSE stats

StatsMisses(q) ==
  stats' = IF StatsOpen /\ "page" \in q.waiters THEN Failed(stats) ELSE stats

(* The trend depends on no window.  A failure leaves the one there is. *)
TrendsAnswer(stored) ==
  /\ stats.trends
  /\ stats' = Rendered([stats EXCEPT !.trends = FALSE, !.days = ReadDailyRollups(stored)])

TrendsFail == stats.trends /\ stats' = [stats EXCEPT !.trends = FALSE]

PointAt(px) == /\ Charted(stats)
               /\ stats' = [stats EXCEPT !.hover = {Nearest(Len(ChartPoints(AtRiskSeries(stats.days))), px)}]

PointAway == stats.hover # {} /\ stats' = [stats EXCEPT !.hover = {}]

TrendNext == \/ \E stored \in Rollups : TrendsAnswer(stored)
             \/ TrendsFail \/ PointAway
             \/ \E px \in Pointers : PointAt(px)

ChooseDensity(on) == /\ StatsView = "tables" /\ on # stats.density
                     /\ stats' = [stats EXCEPT !.density = on]

-----------------------------------------------------------------------------
(* The tables of the answer shown. *)
Served == [tally \in UNION {Tallies[w] : w \in Ranges} |-> StatsAggregate(tally)]

NetworkTable(answer) ==
  NetworkRates(Served[answer.of]["network"], NetworkRateMinimum(stats.hours))

ConcentrationOf(answer, dim) == Concentration(Served[answer.of][dim], stats.density)

(* The day told under the chart, and where its dot is: of the point that was *)
(* pointed at, unless a shorter trend has come since.                        *)
Tip == LET points == ChartPoints(AtRiskSeries(stats.days))
       IN  {[day |-> points[i].label, value |-> points[i].value,
             x |-> ChartX(points, i), y |-> ChartY(points, i)] : i \in stats.hover \cap DOMAIN points}

(* A link to the search for a label keeps the window of the answer; one for  *)
(* a network asks for its hosts.                                             *)
SearchHref(answer, dim, label) ==
  [dim |-> dim, label |-> label, hours |-> answer.window, grouped |-> dim = "network"]

(* The window snapshot: the largest of each kind, with its count and link.   *)
Highlights(answer) ==
  UNION {{[count |-> Served[answer.of][dim].total[label], href |-> SearchHref(answer, dim, label)] :
            label \in ToSet(Top(Served[answer.of][dim].total))} :
         dim \in {"network", "port", "product"}}

-----------------------------------------------------------------------------
(* The page implements the promise of a page that fetches: the window named  *)
(* on its chips is never over the tables of another (Stats.tsx:179-200).     *)
Latest == INSTANCE LatestAnswer WITH
  Topics <- Ranges,
  topic  <- IF StatsOpen THEN {stats.hours} ELSE {},
  shown  <- {a.window : a \in stats.s},
  status <- IF ~StatsOpen THEN "closed" ELSE IF stats.loading THEN "asking"
            ELSE IF stats.error THEN "failed" ELSE "answered"

StatsLatest == Latest!Spec

(* A page that loads has its answer on the way, and one that does not shows  *)
(* tables or an error: never "telemetry offline" (Stats.tsx:179-200,         *)
(* 326-331).                                                                 *)
StatsHonest ==
  /\ StatsOpen /\ stats.loading => \E q \in fetches : q.range = stats.hours /\ "page" \in q.waiters
  /\ ~stats.loading => (stats.error <=> stats.s = {})
  /\ StatsView # "telemetry offline"
  /\ \A q \in fetches : StatsOpen /\ "page" \in q.waiters => q.range = stats.hours /\ stats.loading

(* The retry of an error sends a fetch of its own, unless the API did answer *)
(* in the last half minute, for another window (api.ts:308-319,              *)
(* Stats.tsx:328).                                                           *)
RetryReachesServer ==
  [][ StatsRetry => \/ \E q \in fetches' \ fetches : q.range = stats.hours /\ "page" \in q.waiters
                    \/ \E a \in Known(stats.hours) : a.window # stats.hours ]_<<page, stats, clientVars>>

(* The API may leave a label out of a list only if as many others as it      *)
(* keeps are no smaller.                                                     *)
Outnumbered(counts, label, limit) ==
  /\ counts[label] > 0
  /\ Cardinality({m \in DOMAIN counts \ {label} : counts[m] >= counts[label]}) >= limit

(* The rate ranking against every network stored.  Of one that is ranked the *)
(* base is its hosts and never under the window's minimum, the flagged are   *)
(* its flagged hosts, and no rate is over 100 or under the next.  One of the *)
(* minimum that is not ranked has no higher rate than the last of a full     *)
(* ranking.  The two lists of the API, cut by size, are the only exception:  *)
(* a network with enough others as large may be left out whatever its rate,  *)
(* and one with enough others as much flagged is told, and ranked, as        *)
(* without any flagged host (stats.go:348-383, Stats.tsx:89-105, 244).       *)
RatesTrue ==
  \A answer \in stats.s :
    LET rows    == NetworkTable(answer)
        hosts   == Totals(answer.of, "network")
        flagged == Flagged(answer.of, "network")
        Unlisted(n) == Outnumbered(flagged, n, Limits["network"][2])
    IN  /\ \A i \in DOMAIN rows :
             /\ rows[i].base = hosts[rows[i].label]
             /\ rows[i].base >= NetworkRateMinimum(answer.window)
             /\ rows[i].rate <= 100
             /\ \/ rows[i].flagged = flagged[rows[i].label]
                \/ Unlisted(rows[i].label) /\ rows[i].flagged = 0
             /\ \A j \in DOMAIN rows : i < j => rows[i].rate >= rows[j].rate
        /\ \A n \in DOMAIN hosts :
             \/ n \in {rows[i].label : i \in DOMAIN rows}
             \/ hosts[n] < NetworkRateMinimum(answer.window)
             \/ Outnumbered(hosts, n, Limits["network"][1])
             \/ /\ Len(rows) = ROWS
                /\ Percent(flagged[n], hosts[n]) <= rows[ROWS].rate \/ Unlisted(n)

(* Counts and rates are told of the same groups, each of a base of twenty,   *)
(* and a rate is the group's own: over 100 only for a product with banners   *)
(* cut from the API's list of totals (Stats.tsx:67-79, 246-259).             *)
ConcentrationTrue ==
  \A answer \in stats.s, dim \in Dims \ {"network"} :
    LET group == Served[answer.of][dim]
        table == ConcentrationOf(answer, dim)
        true  == answer.of[dim]
        cut   == Cardinality(DOMAIN true) > Limits[dim][1]
    IN  /\ DOMAIN table = DOMAIN CountWithMinimumBase(group)
        /\ \A l \in DOMAIN table : /\ group.total[l] >= 20
                                   /\ stats.density /\ table[l] > 100 => dim = "product" /\ cut

(* The window snapshot is true: the network, the port and the software it    *)
(* names are those with the most hosts or services stored, with their        *)
(* number, and its links search the window whose chip is lit.  Only software *)
(* with banners cut from the API's list of totals may be told with too small *)
(* a number or passed over (Stats.tsx:262-292, 339-365).                     *)
HighlightsTrue ==
  \A answer \in stats.s : \A h \in Highlights(answer) :
    LET true == answer.of[h.href.dim]
        cut  == h.href.dim = "product" /\ Cardinality(DOMAIN true) > Limits["product"][1]
        Stored(label) == Sum([raw \in DOMAIN true |-> true[raw].all],
                             {raw \in DOMAIN true : Label(h.href.dim, raw) = label})
    IN  /\ h.href.hours = stats.hours
        /\ IF cut THEN h.count <= Stored(h.href.label)
           ELSE /\ h.count = Stored(h.href.label)
                /\ \A raw \in DOMAIN true : Stored(Label(h.href.dim, raw)) <= h.count

(* Rates, densities and highlights are true of what is stored, but for what  *)
(* the API's cuts leave out.                                                 *)
TablesTrue == RatesTrue /\ ConcentrationTrue /\ HighlightsTrue

(* The charts show the trend that is stored: the latest days, each with its  *)
(* own value, from left to right in order and inside the frame; the change   *)
(* told is from the first of them to the last; the day told to a reader who  *)
(* points is a day shown, under its own dot, and no other dot is nearer the  *)
(* pointer than the one it picks (rollup.go:189-214, Stats.tsx:202-217,      *)
(* 271-274, 525-550, TimeSeries.tsx:8-72).                                   *)
TrendTrue ==
  Charted(stats) =>
    LET points == ChartPoints(AtRiskSeries(stats.days))
        shares == CleartextSeries(stats.days)
        dates  == DOMAIN shares
        XOf(i) == ChartX(points, i)
        Far(px, i) == IF px > XOf(i) THEN px - XOf(i) ELSE XOf(i) - px
    IN  /\ Len(points) = Len(stats.days) /\ Len(points) <= DAYS
        /\ \E stored \in Rollups :
             /\ \A d \in ToSet(stats.days) : d.date \in DOMAIN stored /\ d.row = stored[d.date]
             /\ \A date \in DOMAIN stored \ dates :
                  Len(points) = DAYS /\ \A shown \in dates : date < shown
        /\ \A i \in DOMAIN points :
             /\ points[i].value = stats.days[i].row.flagged
             /\ XOf(i) \in LEFT .. LEFT + WIDTH /\ ChartY(points, i) \in TOP .. TOP + HEIGHT
             /\ \A j \in DOMAIN points : i < j => points[i].label < points[j].label /\ XOf(i) < XOf(j)
        /\ \A first, last \in dates :
             (\A date \in dates : first <= date /\ date <= last) =>
               CleartextTrend(stats.days) = shares[last] - shares[first]
        /\ \A t \in Tip : \E i \in DOMAIN points : t.day = points[i].label /\ t.x = XOf(i)
        /\ \A px \in Pointers, i \in DOMAIN points :
             Far(px, Nearest(Len(points), px)) <= Far(px, i) + 1

(* The page stops loading. *)
StatsSettles == StatsOpen /\ stats.loading ~> ~StatsOpen \/ ~stats.loading
=============================================================================
