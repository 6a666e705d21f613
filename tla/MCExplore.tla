---------------------------- MODULE MCExplore ----------------------------
(* Two hosts of one cell at every scale, with a protocol each, in one layer; *)
(* one of them under the other protocol, and a third apart from scale 2 on,  *)
(* in the other layer.  A fact of each section alone, and the mixes that     *)
(* meet in one section.  Pulses with blank and alike titles, more than the   *)
(* server and than the page keep; records with and without a year.           *)
EXTENDS Explore

pA == [key |-> "A", secured |-> TRUE,  country |-> "x", network |-> "y", x |-> 1]
pB == [key |-> "B", secured |-> FALSE, country |-> "y", network |-> "y", x |-> 2]
pN == [pB EXCEPT !.secured = TRUE]
pC == [key |-> "C", secured |-> FALSE, country |-> "y", network |-> "y", x |-> 30]

MCPoints == {pA, pB, pC, pN}
MCMapLinked == {<<>>, [layer |-> "at-risk", window |-> "0"]}
MCAnswers == [layer \in Layers |-> IF layer.mode = "at-risk" THEN {{pN, pC}} ELSE {{pA, pB}}]
MCZooms == {<<17, 10>>}

rA == [host |-> "A", port |-> 443, geo |-> "position"]
rB == [host |-> "B", port |-> 80, geo |-> "centre"]
MCRecords == {rA, rB}

MCEnrichments == {{}, {"tags"}, {"vulns", "ports"}, {"greynoise"}, {"ipinfo", "ipinfo_flag"},
                  {"pulsedive"}, {"pulsedive", "pulsedive_risk"}, {"otx"}, {"threatfox", "verdict"},
                  {"hostnames", "place", "last_seen"}, {"ipapi", "place"}, {"place"}}

\* 1 and 2 are alike, 6 is blank.
MCFold == <<1, 1, 3, 4, 5, 0>>
MCPulses == {<<2, <<>>>>, <<3, <<6, 2, 1>>>>, <<3, <<3, 1, 3>>>>, <<7, <<1, 2, 3, 6, 4, 5, 3>>>>}

MCYear == <<2023, 2024, 2024, 10000>>
MCVulns == {<<1>>, <<4, 2, 1, 2>>, <<2, 1, 3, 4>>}
=============================================================================
