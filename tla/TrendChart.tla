----------------------------- MODULE TrendChart -----------------------------
(* The 90-day trend: the daily snapshots the API answers with                *)
(* (store/rollup.go), the two series the statistics page makes of them       *)
(* (pages/Stats.tsx) and the chart that plots one, in whole units of its     *)
(* frame (components/TimeSeries.tsx).                                        *)
EXTENDS StatsTables

CONSTANTS DAYS          \* snapshots the page asks for (90 in the code)

(* The frame: what is left of 640 x 200 inside the padding.                  *)
LEFT == 34
WIDTH == 592
TOP == 14
HEIGHT == 162

(* No more points than units of the frame's width. *)
ASSUME TrendAssumption == DAYS \in Nat /\ DAYS <= WIDTH

\* A fault: the first snapshots are kept, not the last.
ReadDailyRollups_First(stored) ==
  LET dates == InOrder(DOMAIN stored)
  IN  [i \in 1 .. Smaller(DAYS, Len(dates)) |-> [date |-> dates[i], row |-> stored[dates[i]]]]

(* stored[date]: the snapshot of a day, [flagged, cleartext, secure].  The   *)
(* last of them, oldest first.                                               *)
ReadDailyRollups(stored) ==
  LET dates == InOrder(DOMAIN stored)
      skip  == Len(dates) - Smaller(DAYS, Len(dates))
  IN  [i \in 1 .. Smaller(DAYS, Len(dates)) |->
         [date |-> dates[skip + i], row |-> stored[dates[skip + i]]]]

(* A chart's data: a value per date. *)
AtRiskSeries(days) ==
  [date \in {d.date : d \in ToSet(days)} |-> (CHOOSE d \in ToSet(days) : d.date = date).row.flagged]

CleartextSeries(days) ==
  [date \in {d.date : d \in ToSet(days)} |->
     LET row == (CHOOSE d \in ToSet(days) : d.date = date).row
     IN  Percent(row.cleartext, row.cleartext + row.secure)]

ChartPoints(data) ==
  LET dates == InOrder(DOMAIN data)
  IN  [i \in DOMAIN dates |-> [label |-> dates[i], value |-> data[dates[i]]]]

(* The change told in the snapshot, in points. *)
CleartextTrend(days) ==
  LET points == ChartPoints(CleartextSeries(days))
  IN  IF Len(points) >= 2 THEN points[Len(points)].value - points[1].value ELSE 0

(* The place of a point, and the point the pointer is on.                    *)
ChartX(points, i) ==
  LEFT + (IF Len(points) = 1 THEN WIDTH \div 2 ELSE ((i - 1) * WIDTH) \div (Len(points) - 1))

ChartY(points, i) ==
  LET max == Max({points[j].value : j \in DOMAIN points} \cup {1})
  IN  TOP + HEIGHT - (points[i].value * HEIGHT) \div max

Nearest(count, px) ==
  LET i == (2 * (px - LEFT) * (count - 1) + WIDTH) \div (2 * WIDTH)
  IN  1 + Max({0, Smaller(count - 1, i)})
=============================================================================
