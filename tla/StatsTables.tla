----------------------------- MODULE StatsTables -----------------------------
(* The aggregates of the statistics API (store/stats.go) and the tables the  *)
(* statistics page derives from them (pages/Stats.tsx).  What is stored is a *)
(* tally: per dimension and raw label, how many services (hosts, for the     *)
(* networks) there are and how many are flagged.  Labels are numbers, in     *)
(* alphabetical order.                                                       *)
EXTENDS SequencesExt, Ordered

CONSTANTS Family,       \* Family[raw]: the product a raw banner is normalised to
          Limits,       \* Limits[dim]: <<totals, flagged>>, rows the API keeps
          ROWS          \* rows of the rate ranking (10 in the code)

Dims == {"port", "product", "country", "network"}

ASSUME TablesAssumption == ROWS \in Nat \ {0} /\ Limits \in [Dims -> Nat \X Nat]

Smaller(a, b) == IF a < b THEN a ELSE b

FirstOf(s, n) == SubSeq(s, 1, Smaller(n, Len(s)))

(* $sort by count, then label; stableRank and BarList of the page. *)
StableRank(data) ==
  LET labels == DOMAIN data
  IN  Arranged(labels, {p \in labels \X labels :
                          \/ data[p[1]] > data[p[2]]
                          \/ data[p[1]] = data[p[2]] /\ p[1] < p[2]})

At(data, label) == IF label \in DOMAIN data THEN data[label] ELSE 0

-----------------------------------------------------------------------------
(* The server: grouped, cut to the largest groups, labelled. *)
Label(dim, raw) == IF dim = "product" THEN Family[raw] ELSE raw

(* The counts of several labels, added: as many as there are things counted. *)
Sum(counts, labels) == Cardinality(UNION {{raw} \X (1 .. counts[raw]) : raw \in labels})

Grouped(dim, counts, limit) ==
  LET found == {raw \in DOMAIN counts : counts[raw] > 0}
      kept  == ToSet(FirstOf(StableRank([raw \in found |-> counts[raw]]), limit))
  IN  [label \in {Label(dim, raw) : raw \in kept} |->
         Sum(counts, {raw \in kept : Label(dim, raw) = label})]

Totals(tally, dim)  == [raw \in DOMAIN tally[dim] |-> tally[dim][raw].all]
Flagged(tally, dim) == [raw \in DOMAIN tally[dim] |-> tally[dim][raw].flagged]

StatsAggregate(tally) ==
  [dim \in Dims |-> [total   |-> Grouped(dim, Totals(tally, dim), Limits[dim][1]),
                     flagged |-> Grouped(dim, Flagged(tally, dim), Limits[dim][2])]]

-----------------------------------------------------------------------------
(* The page. *)
Percent(value, total) == IF total > 0 THEN (200 * value + total) \div (2 * total) ELSE 0

MinSample == 20

RateMap(group) ==
  [label \in {l \in DOMAIN group.flagged : At(group.total, l) >= MinSample} |->
     Percent(group.flagged[label], group.total[label])]

CountWithMinimumBase(group) ==
  [label \in {l \in DOMAIN group.flagged : At(group.total, l) >= MinSample} |->
     group.flagged[label]]

Concentration(group, density) == IF density THEN RateMap(group) ELSE CountWithMinimumBase(group)

(* The head of a ranking: at most one label. *)
Top(data) == FirstOf(StableRank(data), 1)

NetworkRateMinimum(hours) ==
  IF hours <= 1 THEN 2 ELSE IF hours <= 24 THEN 5 ELSE IF hours <= 168 THEN 10 ELSE 20

NetworkRow(group, label) ==
  [label |-> label, base |-> group.total[label], flagged |-> At(group.flagged, label),
   rate |-> Percent(At(group.flagged, label), group.total[label])]

\* A fault: the rows keep the order of the API.
NetworkRates_ByBase(group, minBase) ==
  LET rows == {NetworkRow(group, l) : l \in {l \in DOMAIN group.total : group.total[l] >= minBase}}
      before(a, b) == a.base > b.base \/ (a.base = b.base /\ a.label < b.label)
  IN  FirstOf(Arranged(rows, {p \in rows \X rows : before(p[1], p[2])}), ROWS)

NetworkRates(group, minBase) ==
  LET rows == {NetworkRow(group, l) : l \in {l \in DOMAIN group.total : group.total[l] >= minBase}}
      before(a, b) == \/ a.rate > b.rate
                      \/ a.rate = b.rate /\ a.base > b.base
                      \/ a.rate = b.rate /\ a.base = b.base /\ a.label < b.label
  IN  FirstOf(Arranged(rows, {p \in rows \X rows : before(p[1], p[2])}), ROWS)
=============================================================================
