-------------------------- MODULE DurableDelivery --------------------------
(***************************************************************************)
(* What the collector's write path promises: ops are held on disk or       *)
(* delivered to the database, an op is acknowledged only when it is one of *)
(* the two, and an op on disk is let go only after its delivery.           *)
(***************************************************************************)
CONSTANT Op

VARIABLES held, applied, acked

Init == held = {} /\ applied = {} /\ acked = {}

Deliver == \E S \in SUBSET Op :
    /\ applied' = applied \cup S
    /\ UNCHANGED <<held, acked>>

Hold == \E S \in SUBSET Op :
    /\ held' = held \cup S
    /\ UNCHANGED <<applied, acked>>

Release == \E S \in SUBSET (held \cap applied) :
    /\ held' = held \ S
    /\ UNCHANGED <<applied, acked>>

Acknowledge == \E S \in SUBSET (held \cup applied) :
    /\ acked' = acked \cup S
    /\ UNCHANGED <<held, applied>>

Next == Deliver \/ Hold \/ Release \/ Acknowledge

Spec == Init /\ [][Next]_<<held, applied, acked>>
=============================================================================
