--------------------------- MODULE MCServiceRecord ---------------------------
\* Three submissions of one service: an anonymous one and one with a
\* certificate name, whose captures share an object key or have two, and one
\* without a capture.
EXTENDS ServiceRecord, TLC
CONSTANTS r1, r2, r3
MCRequests == {r1, r2, r3}
MCCaptured == r1 :> "png" @@ r2 :> "png" @@ r3 :> "error"
MCCapturedMixed == r1 :> "png" @@ r2 :> "jpg" @@ r3 :> ""
=============================================================================
