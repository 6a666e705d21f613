----------------------------- MODULE StatsClient -----------------------------
(* The statistics call of the API client (api.ts): one promise per time      *)
(* range is kept for half a minute and handed to every caller.  An entry     *)
(* past its time is never handed out again: it is modelled as no entry.      *)
EXTENDS FiniteSetsExt

CONSTANTS Ranges,       \* time ranges, in hours; 0 is everything retained
          MaxFetches    \* bound: fetches in flight

ASSUME ClientAssumption == /\ Ranges \subseteq Nat /\ IsFiniteSet(Ranges)
                           /\ {0, 24} \subseteq Ranges /\ MaxFetches \in Nat

VARIABLES page,         \* the page mounted: "overview", "stats" or "other"
          statsCache,   \* statsCache[r]: {} or {the entry [id, state, answer]}
          fetches       \* fetches in flight: records [id, range, waiters]

clientVars == <<statsCache, fetches>>

FetchIds == 1 .. (MaxFetches + Cardinality(Ranges) + 1)

FreeId == CHOOSE i \in FetchIds : /\ \A q \in fetches : q.id # i
                                  /\ \A r \in Ranges : \A e \in statsCache[r] : e.id # i

Pending(id) == [id |-> id, state |-> "pending", answer |-> {}]

Fetch(id, r, waiters) == [id |-> id, range |-> r, waiters |-> waiters]

(* What a caller learns of the range at once. *)
Known(r)    == UNION {e.answer : e \in statsCache[r]}
Rejected(r) == \E e \in statsCache[r] : e.state = "failed"

(* An effect's cleanup, or the page's end: of those that wait for an answer, *)
(* "page" and "topbar", the second is left.                                  *)
Ignored == {[q EXCEPT !.waiters = @ \ {"page"}] : q \in fetches}

(* api.stats(r), called by the page: a promise of the cache, or a new fetch. *)
CallStats(r) ==
  IF statsCache[r] = {}
  THEN /\ Cardinality(fetches) < MaxFetches
       /\ fetches' = Ignored \cup {Fetch(FreeId, r, {"page"})}
       /\ statsCache' = [statsCache EXCEPT ![r] = {Pending(FreeId)}]
  ELSE /\ fetches' = {[q EXCEPT !.waiters =
                         IF \E e \in statsCache[r] : e.id = q.id THEN @ \cup {"page"} ELSE @] :
                       q \in Ignored}
       /\ UNCHANGED statsCache

FetchOK(q, answer) ==
  /\ fetches' = fetches \ {q}
  /\ statsCache' = [statsCache EXCEPT ![q.range] =
       {[e EXCEPT !.state  = IF e.id = q.id THEN "ok" ELSE @,
                  !.answer = IF e.id = q.id THEN {answer} ELSE @] : e \in @}]

\* A fault: the rejected promise stays in the cache.
FetchFails_Kept(q) ==
  /\ fetches' = fetches \ {q}
  /\ statsCache' = [statsCache EXCEPT ![q.range] = {[e EXCEPT !.state = "failed"] : e \in @}]

(* A failure drops the range's entry, be it of a newer fetch. *)
FetchFails(q) ==
  /\ fetches' = fetches \ {q}
  /\ statsCache' = [statsCache EXCEPT ![q.range] = {}]

(* Half a minute after the call. *)
Expire(r) == /\ statsCache[r] # {}
             /\ statsCache' = [statsCache EXCEPT ![r] = {}]
             /\ UNCHANGED fetches

-----------------------------------------------------------------------------
(* A promise of the cache always has something to give: an answer, or one    *)
(* to come from its own fetch of that range; a failed one is not handed out  *)
(* (api.ts:308-319).                                                         *)
CacheServes ==
  \A r \in Ranges : \A e \in statsCache[r] :
    /\ statsCache[r] = {e}
    /\ \/ e.state = "ok" /\ e.answer # {}
       \/ e.state = "pending" /\ \E q \in fetches : q.id = e.id /\ q.range = r
=============================================================================
