--------------------------- MODULE MCIngestSpool ---------------------------
(***************************************************************************)
(* Two concurrent submissions over two services, one carrying both, and a  *)
(* third without a valid service; or two of the same service.              *)
(***************************************************************************)
EXTENDS IngestSpool

CONSTANTS r1, r2, r3, a, b

MCRequests == {r1, r2}
MCServices == {a, b}
MCRequests3 == {r1, r2, r3}
MCPayload == [r \in Requests |-> IF r = r1 THEN {a, b} ELSE IF r = r2 THEN {a} ELSE {}]
MCPayload1 == [r \in Requests |-> {a}]
MCRejected == {b}
=============================================================================
