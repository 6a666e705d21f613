----------------------------- MODULE MCOverview -----------------------------
(* Two windows with a tally each: bases on both sides of every minimum, a    *)
(* tie of rates, more networks and more flagged ones than the API keeps, the *)
(* one cut with the highest rate of all, and a product of two banners one of *)
(* which is cut from the totals.  Trends too short to be charted, of as many *)
(* days as are asked for, and of more, with a gap.                           *)
EXTENDS Overview

N(all, flagged) == [all |-> all, flagged |-> flagged]

MCFamily == [raw \in 1 .. 3 |-> IF raw = 3 THEN 1 ELSE raw]
MCLimits == [dim \in Dims |-> IF dim = "network" THEN <<4, 2>> ELSE <<2, 2>>]

Flat == <<N(20, 3), N(19, 19)>>

tDay == [port |-> <<N(20, 7), N(19, 9), N(40, 1)>>, country |-> Flat,
         product |-> <<N(30, 2), N(40, 1), N(21, 21)>>,
         network |-> <<N(5, 1), N(10, 2), N(4, 4), N(12, 1)>>]
tAll == [port |-> Flat, country |-> <<>>, product |-> Flat,
         network |-> <<N(2, 1), N(2, 2), N(60, 0), N(50, 1), N(40, 1)>>]
Day(flagged, cleartext, secure) == [flagged |-> flagged, cleartext |-> cleartext, secure |-> secure]

dShort == (1 :> Day(2, 1, 1))
dThree == (2 :> Day(0, 0, 0)) @@ (3 :> Day(0, 3, 1)) @@ (4 :> Day(0, 1, 3))
dLong  == (1 :> Day(5, 1, 9)) @@ (3 :> Day(7, 2, 3)) @@ (5 :> Day(6, 1, 2)) @@
          (6 :> Day(9, 1, 1)) @@ (7 :> Day(0, 3, 1))
MCRollups == {dShort, dThree, dLong}

MCTallies == (0 :> {tAll}) @@ (24 :> {tDay})
=============================================================================
