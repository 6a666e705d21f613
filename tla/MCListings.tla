---------------------------- MODULE MCListings ----------------------------
(* Two services of one host, with the same capture, one of another /24 that  *)
(* came in the batch of the first one's better capture, so that the gallery  *)
(* has a tie, and one without a capture; pages of one row.  The controls     *)
(* offered are one of each kind: a text, a narrowing filter, the order and   *)
(* the grouping; links also carry a value that is none of the control's.     *)
EXTENDS Listings

sA1 == [net |-> "nA", host |-> "A", port |-> 80, capture |-> "p"]
sA2 == [net |-> "nA", host |-> "A", port |-> 443, capture |-> "p"]
sB1 == [net |-> "nB", host |-> "B", port |-> 80, capture |-> "p"]
sC1 == [net |-> "nC", host |-> "C", port |-> 80, capture |-> "none"]

MCServices == {sA1, sA2, sB1, sC1}
MCCaptured == {sA1, sA2, sB1}
MCStored == <<sA1, sB1, sA2, sC1>>
MCStoredAt == [s \in MCServices |-> IF s = sA1 THEN 2 ELSE IF s = sC1 THEN 0 ELSE 1]
MCLeading == {sB1, sA2}

MCTyped == {"", "x "}
MCTexts == {"", "x", "x "}
MCTrim == [t \in MCTexts |-> IF t = "" THEN "" ELSE "x"]
MCValid == [f \in Fields |-> CASE f = "secured" -> {"https"}
                               [] f = "group"   -> {"hosts"}
                               [] OTHER         -> {}]
MCOffered == [f \in Fields |-> IF f = "secured" THEN {"https"} ELSE {}]
MCLinked == {[secured |-> "tls", group |-> "hosts"]}
MCHaving == [v \in {"x", "https"} |-> IF v = "x" THEN {sA1, sA2} ELSE {sA2, sB1}]
=============================================================================
