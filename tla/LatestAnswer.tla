---------------------------- MODULE LatestAnswer ----------------------------
(* What a page that fetches what its address or its controls ask for         *)
(* promises: nothing is shown under a topic but the answer for it, and a     *)
(* change of topic takes what was shown away at once.                        *)
CONSTANT Topics

VARIABLES topic,    \* what the page is asked for: {} when it is not mounted
          shown,    \* the topic of what it shows, if it shows anything
          status    \* "closed", "asking", "answered" or "failed"

answerVars == <<topic, shown, status>>

Closed == topic = {} /\ shown = {} /\ status = "closed"

Init == Closed \/ \E t \in Topics : topic = {t} /\ shown = {} /\ status = "asking"

(* The page opens, the topic changes, or a reader asks again what failed:    *)
(* the answer may be at hand.                                                *)
Look == \E t \in Topics :
          /\ topic = {t} => status = "failed"
          /\ topic' = {t}
          /\ \/ shown' = {}  /\ status' \in {"asking", "failed"}
             \/ shown' = {t} /\ status' = "answered"

Leave == topic' = {} /\ shown' = {} /\ status' = "closed"

Answer == /\ status = "asking" /\ status' = "answered"
          /\ shown' = topic /\ UNCHANGED topic

Fail == /\ status = "asking" /\ status' = "failed"
        /\ UNCHANGED <<topic, shown>>

Next == Look \/ Leave \/ Answer \/ Fail

Spec == Init /\ [][Next]_answerVars
=============================================================================
