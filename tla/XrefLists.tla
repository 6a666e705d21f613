------------------------------ MODULE XrefLists ------------------------------
(* The two lists of the cross-reference that are more than their items       *)
(* (components/CrossReference.tsx): the CVE records, grouped by year, and    *)
(* the titles of OTX pulses, which the server cuts (enrich/threat.go) and    *)
(* the page cuts again.  Titles and records are model values.                *)
EXTENDS SequencesExt, Ordered

CONSTANTS Fold,         \* Fold[title]: what is left without space and case; 0 is nothing
          Year,         \* Year[cve]: of its name; NoYear for a name without one
          NoYear,       \* greater than every year
          NAMES,        \* titles the server keeps (12 in the code)
          VISIBLE       \* titles the page shows (6 in the code)

ASSUME ListAssumption == /\ VISIBLE \in Nat /\ NAMES \in Nat /\ VISIBLE <= NAMES
                         /\ \A cve \in DOMAIN Year : Year[cve] \in Int

Cut(s, n) == SubSeq(s, 1, IF n < Len(s) THEN n ELSE Len(s))

(* The first title of each kind, in order; blank titles are none. *)
UniqueTitles(titles) ==
  LET first == {i \in DOMAIN titles : /\ Fold[titles[i]] # 0
                                      /\ \A j \in 1 .. i - 1 : Fold[titles[j]] # Fold[titles[i]]}
      order == InOrder(first)
  IN  [i \in DOMAIN order |-> titles[order[i]]]

(* What the server makes of the pulses it is told of, the first of count.    *)
NormalizeOTX(count, titles) ==
  [pulse_count |-> count, unique_pulse_count |-> Len(UniqueTitles(titles)),
   pulse_names |-> Cut(UniqueTitles(titles), NAMES)]

\* A fault: all pulses that are not shown count as more titles.
SummarizeOTX_Pulses(otx) ==
  LET titles  == UniqueTitles(otx.pulse_names)
      visible == Cut(titles, VISIBLE)
  IN  [uniqueCount   |-> Max({otx.unique_pulse_count, Len(titles)}),
       visibleTitles |-> visible, remaining |-> otx.pulse_count - Len(visible)]

SummarizeOTX(otx) ==
  LET titles  == UniqueTitles(otx.pulse_names)
      visible == Cut(titles, VISIBLE)
      unique  == Max({otx.unique_pulse_count, Len(titles)})
  IN  [uniqueCount   |-> unique, visibleTitles |-> visible,
       remaining     |-> Max({0, unique - Len(visible)})]

(* The groups, the last year first. *)
CVEGroups(items) ==
  LET named == {Year[items[i]] : i \in DOMAIN items}
      years == Arranged(named, {p \in named \X named : p[1] > p[2]})
  IN  [i \in DOMAIN years |->
         [year |-> years[i],
          cves |-> Keep(items, {cve \in DOMAIN Year : Year[cve] = years[i]})]]

-----------------------------------------------------------------------------
(* Titles add up over both cuts: no two on the page differ in space or case  *)
(* only, what is shown and what is told to be more are the titles there are, *)
(* of no more than the pulses, and none is held back while there is room     *)
(* (CrossReference.tsx:97-116, threat.go:488-515).                           *)
TitlesAddUp(count, titles) ==
  LET shown  == SummarizeOTX(NormalizeOTX(count, titles))
      kinds  == {Fold[titles[i]] : i \in DOMAIN titles} \ {0}
      onPage == {Fold[shown.visibleTitles[i]] : i \in DOMAIN shown.visibleTitles}
  IN  /\ Cardinality(onPage) = Len(shown.visibleTitles) /\ onPage \subseteq kinds
      /\ shown.uniqueCount = Cardinality(kinds) /\ shown.uniqueCount <= count
      /\ Len(shown.visibleTitles) + shown.remaining = shown.uniqueCount
      /\ shown.remaining > 0 => Len(shown.visibleTitles) = VISIBLE

(* Every CVE record is told as often as it is on file, in the group of its   *)
(* year, and nothing else is; no group is empty, and the groups go back in   *)
(* time (CrossReference.tsx:73-91).                                          *)
GroupsComplete(items) ==
  LET groups == CVEGroups(items)
      places == UNION {{i} \X DOMAIN groups[i].cves : i \in DOMAIN groups}
      Told(p) == groups[p[1]].cves[p[2]]
  IN  /\ \A cve \in ToSet(items) :
           Cardinality({p \in places : Told(p) = cve}) =
             Cardinality({i \in DOMAIN items : items[i] = cve})
      /\ \A p \in places : Told(p) \in ToSet(items) /\ Year[Told(p)] = groups[p[1]].year
      /\ \A i, j \in DOMAIN groups : /\ groups[i].cves # <<>>
                                     /\ i < j => groups[i].year > groups[j].year
=============================================================================
