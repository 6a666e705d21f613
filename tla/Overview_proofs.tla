--------------------------- MODULE Overview_proofs ---------------------------
(* Proofs about the statistics cache of the client and the pages over it,    *)
(* for every set of windows, tallies and snapshots, every number of fetches  *)
(* and draws.  The invariant IInv adds to the properties what makes them     *)
(* inductive: which fetch a cached promise is of, and that a statistics page *)
(* that loads waits for the very promise the cache holds for its window.     *)
(* What the page derives is proved of the operators: a list is arranged by   *)
(* the places its members take, a sum compares with another by inclusion of  *)
(* what is counted, and a chart by what a division may lose.                 *)
EXTENDS Overview, SequenceTheorems, FiniteSetTheorems, TLAPS

(* What the client's state is, as a predicate of a set of fetches and of a   *)
(* cache: an entry is an answer, its fetch over, or the promise of a fetch.  *)
EntryOK(e, r, fs) ==
  \/ /\ e.state = "ok" /\ \A q \in fs : q.id # e.id
     /\ \E a \in Answers : e.answer = {a}
  \/ /\ e.state = "pending" /\ e.answer = {}
     /\ \E q \in fs : q.id = e.id /\ q.range = r

FetchesOK(fs) == /\ fs \subseteq FetchType /\ IsFiniteSet(fs)
                 /\ \A q1, q2 \in fs : q1.id = q2.id => q1 = q2

CacheOK(cache, fs) == /\ cache \in [Ranges -> SUBSET EntryType]
                      /\ \A r \in Ranges : \A e \in cache[r] :
                           cache[r] = {e} /\ EntryOK(e, r, fs)

ClientInv == FetchesOK(fetches) /\ CacheOK(statsCache, fetches)

Waiting == {q \in fetches : "page" \in q.waiters}

Waiters == SUBSET {"topbar", "page"}

-----------------------------------------------------------------------------
Relabel(fs, w) == {[q EXCEPT !.waiters = w[q]] : q \in fs}

(* To change who waits for the fetches changes neither their ids nor their   *)
(* ranges.                                                                   *)
LEMMA Relabelled ==
  ASSUME NEW fs, FetchesOK(fs), NEW w \in [fs -> Waiters], NEW gs,
         gs = Relabel(fs, w)
  PROVE  /\ FetchesOK(gs)
         /\ \A q \in fs : \E g \in gs : g.id = q.id /\ g.range = q.range /\ g.waiters = w[q]
         /\ \A g \in gs : \E q \in fs : g.id = q.id /\ g.range = q.range /\ g.waiters = w[q]
  <1> DEFINE change == [q \in fs |-> [q EXCEPT !.waiters = w[q]]]
  <1>1. \A q \in fs : /\ change[q] \in FetchType /\ change[q].id = q.id
                      /\ change[q].range = q.range /\ change[q].waiters = w[q]
    BY DEF FetchesOK, FetchType, Waiters
  <1>2. gs = {change[q] : q \in fs}
    BY DEF Relabel
  <1> HIDE DEF change
  <1>3. change \in Surjection(fs, gs)
    BY <1>2, Zenon DEF Surjection, change
  <1>4. IsFiniteSet(gs)
    BY <1>3, FS_Surjection DEF FetchesOK
  <1>5. gs \subseteq FetchType
    BY <1>1, <1>2
  <1>6. \A g1, g2 \in gs : g1.id = g2.id => g1 = g2
    BY <1>1, <1>2 DEF FetchesOK
  <1> QED
    BY <1>1, <1>2, <1>4, <1>5, <1>6 DEF FetchesOK

(* The cache does not say who waits. *)
LEMMA CacheKept ==
  ASSUME NEW cache, NEW fs, CacheOK(cache, fs), NEW gs,
         \A q \in fs : \E g \in gs : g.id = q.id /\ g.range = q.range,
         \A g \in gs : \E q \in fs : g.id = q.id /\ g.range = q.range
  PROVE  CacheOK(cache, gs)
  BY DEF CacheOK, EntryOK

LEMMA IgnoredStep ==
  ASSUME ClientInv
  PROVE  /\ FetchesOK(Ignored) /\ CacheOK(statsCache, Ignored)
         /\ \A q \in Ignored : "page" \notin q.waiters
         /\ \A q \in Ignored : \E p \in fetches : q.id = p.id /\ q.range = p.range
         /\ Cardinality(Ignored) <= Cardinality(fetches)
  <1> DEFINE w == [q \in fetches |-> q.waiters \ {"page"}]
  <1>1. FetchesOK(fetches)
    BY DEF ClientInv
  <1>2. w \in [fetches -> Waiters]
    BY <1>1 DEF FetchesOK, FetchType, Waiters
  <1>3. Ignored = Relabel(fetches, w)
    BY DEF Ignored, Relabel
  <1>w. \A q \in fetches : w[q] = q.waiters \ {"page"}
    OBVIOUS
  <1> HIDE DEF w
  <1>4. /\ FetchesOK(Ignored)
        /\ \A q \in fetches : \E g \in Ignored : g.id = q.id /\ g.range = q.range /\ g.waiters = w[q]
        /\ \A g \in Ignored : \E q \in fetches : g.id = q.id /\ g.range = q.range /\ g.waiters = w[q]
    BY <1>1, <1>2, <1>3, Relabelled
  <1>5. CacheOK(statsCache, Ignored)
    BY <1>4, CacheKept DEF ClientInv
  <1>6. \A q \in Ignored : "page" \notin q.waiters
    BY <1>4, <1>w
  <1>7. Cardinality(Ignored) <= Cardinality(fetches)
    <2> DEFINE change == [q \in fetches |-> [q EXCEPT !.waiters = w[q]]]
    <2>1. Ignored = {change[q] : q \in fetches}
      BY <1>3 DEF Relabel
    <2> HIDE DEF change
    <2>2. change \in Surjection(fetches, Ignored)
      BY <2>1, Zenon DEF Surjection, change
    <2> QED
      BY <1>1, <2>2, FS_Surjection DEF FetchesOK
  <1> QED
    BY <1>4, <1>5, <1>6, <1>7

(* There are more ids than fetches and entries. *)
LEMMA FreeIdIsFree ==
  ASSUME ClientInv, Cardinality(fetches) < MaxFetches
  PROVE  /\ FreeId \in Nat /\ \A q \in fetches : q.id # FreeId
         /\ \A r \in Ranges : \A e \in statsCache[r] : e.id # FreeId
  <1> DEFINE ids     == {q.id : q \in fetches}
             held    == {r \in Ranges : statsCache[r] # {}}
             idOf    == [r \in held |-> (CHOOSE e \in statsCache[r] : TRUE).id]
             cached  == {idOf[r] : r \in held}
             N       == MaxFetches + Cardinality(Ranges) + 1
  <1>1. IsFiniteSet(fetches) /\ IsFiniteSet(Ranges) /\ MaxFetches \in Nat
    BY ClientAssumption DEF ClientInv, FetchesOK
  <1>2. Cardinality(fetches) \in Nat /\ Cardinality(Ranges) \in Nat
    BY <1>1, FS_CardinalityType
  <1>3. IsFiniteSet(ids) /\ Cardinality(ids) <= Cardinality(fetches)
    <2> DEFINE f == [q \in fetches |-> q.id]
    <2>1. f \in Surjection(fetches, ids)
      BY Zenon DEF Surjection
    <2> QED
      BY <1>1, <2>1, FS_Surjection
  <1>4. IsFiniteSet(held) /\ Cardinality(held) <= Cardinality(Ranges)
    BY <1>1, FS_Subset
  <1>5. IsFiniteSet(cached) /\ Cardinality(cached) <= Cardinality(held)
    <2>1. idOf \in Surjection(held, cached)
      BY Zenon DEF Surjection
    <2> HIDE DEF idOf, held
    <2> QED
      BY <1>4, <2>1, FS_Surjection
  <1>6. \A r \in Ranges : \A e \in statsCache[r] : e.id \in cached
    <2>1. SUFFICES ASSUME NEW r \in Ranges, NEW e \in statsCache[r]
                   PROVE  e.id \in cached
      OBVIOUS
    <2>2. statsCache[r] = {e}
      BY DEF ClientInv, CacheOK
    <2>3. r \in held /\ idOf[r] = e.id
      BY <2>2
    <2> QED
      BY <2>3
  <1> HIDE DEF ids, cached, held, idOf
  <1>7. /\ IsFiniteSet(ids \cup cached)
        /\ Cardinality(ids \cup cached) <= Cardinality(ids) + Cardinality(cached)
    <2>1. /\ IsFiniteSet(ids \cup cached)
          /\ Cardinality(ids \cup cached) = Cardinality(ids) + Cardinality(cached) - Cardinality(ids \cap cached)
      BY <1>3, <1>5, FS_Union
    <2>2. IsFiniteSet(ids \cap cached)
      BY <1>3, FS_Intersection
    <2>3. /\ Cardinality(ids \cap cached) \in Nat
          /\ Cardinality(ids) \in Nat /\ Cardinality(cached) \in Nat
      BY <1>3, <1>5, <2>2, FS_CardinalityType
    <2> QED
      BY <2>1, <2>3
  <1>8. Cardinality(ids \cup cached) < N
    <2>1. /\ Cardinality(ids \cup cached) \in Nat /\ Cardinality(ids) \in Nat
          /\ Cardinality(cached) \in Nat /\ Cardinality(held) \in Nat
      BY <1>3, <1>4, <1>5, <1>7, FS_CardinalityType
    <2> QED
      BY <1>1, <1>2, <1>3, <1>4, <1>5, <1>7, <2>1
  <1>9. ~(FetchIds \subseteq ids \cup cached)
    <2>1. N \in Nat /\ FetchIds = 1 .. N
      BY <1>1, <1>2 DEF FetchIds
    <2>2. Cardinality(FetchIds) = N
      BY <1>1, <1>2, <2>1, FS_Interval
    <2>3. FetchIds \subseteq ids \cup cached => Cardinality(FetchIds) <= Cardinality(ids \cup cached)
      BY <1>7, FS_Subset
    <2>4. Cardinality(ids \cup cached) \in Nat
      BY <1>7, FS_CardinalityType
    <2> QED
      BY <1>8, <2>1, <2>2, <2>3, <2>4
  <1>10. PICK i \in FetchIds : i \notin ids /\ i \notin cached
    BY <1>9
  <1>11. /\ \A q \in fetches : q.id # i
         /\ \A r \in Ranges : \A e \in statsCache[r] : e.id # i
    BY <1>6, <1>10 DEF ids
  <1>12. /\ FreeId \in FetchIds
         /\ \A q \in fetches : q.id # FreeId
         /\ \A r \in Ranges : \A e \in statsCache[r] : e.id # FreeId
    BY <1>11 DEF FreeId
  <1> QED
    BY <1>1, <1>2, <1>12 DEF FetchIds

-----------------------------------------------------------------------------
(* The page's call leaves one fetch of the range it waits for, the one the   *)
(* cache holds, or none if the answer is at hand.                            *)
LEMMA CallMisses ==
  ASSUME ClientInv, NEW r \in Ranges, CallStats(r), statsCache[r] = {}
  PROVE  /\ ClientInv' /\ Known(r) = {}
         /\ \E q : /\ Waiting' = {q} /\ q.range = r /\ q \in fetches' \ fetches
                   /\ \A e \in statsCache'[r] : e.state = "pending" /\ e.id = q.id
  <1> DEFINE q == Fetch(FreeId, r, {"page"})
             e == Pending(FreeId)
  <1>1. /\ Cardinality(fetches) < MaxFetches
        /\ fetches' = Ignored \cup {q}
        /\ statsCache' = [statsCache EXCEPT ![r] = {e}]
    BY DEF CallStats
  <1>2. /\ FreeId \in Nat /\ \A p \in fetches : p.id # FreeId
        /\ \A s \in Ranges : \A d \in statsCache[s] : d.id # FreeId
    BY <1>1, FreeIdIsFree
  <1>3. /\ FetchesOK(Ignored) /\ CacheOK(statsCache, Ignored)
        /\ \A p \in Ignored : "page" \notin p.waiters
        /\ \A p \in Ignored : \E o \in fetches : p.id = o.id /\ p.range = o.range
    BY IgnoredStep
  <1>4. q \in FetchType /\ q.id = FreeId /\ q.range = r /\ "page" \in q.waiters
    BY <1>2 DEF Fetch, FetchType
  <1>5. e \in EntryType /\ e.id = FreeId /\ e.state = "pending" /\ e.answer = {}
    BY <1>2 DEF Pending, EntryType
  <1> HIDE DEF q, e
  <1>6. FetchesOK(fetches')
    <2>1. fetches' \subseteq FetchType
      BY <1>1, <1>3, <1>4 DEF FetchesOK
    <2>2. IsFiniteSet(fetches')
      BY <1>1, <1>3, FS_AddElement DEF FetchesOK
    <2>3. \A q1, q2 \in fetches' : q1.id = q2.id => q1 = q2
      BY <1>1, <1>2, <1>3, <1>4 DEF FetchesOK
    <2> QED
      BY <2>1, <2>2, <2>3 DEF FetchesOK
  <1>7. CacheOK(statsCache', fetches')
    <2>1. statsCache \in [Ranges -> SUBSET EntryType]
      BY <1>3 DEF CacheOK
    <2>2. statsCache' \in [Ranges -> SUBSET EntryType] /\ statsCache'[r] = {e}
      BY <1>1, <1>5, <2>1
    <2>3. \A s \in Ranges \ {r} : statsCache'[s] = statsCache[s]
      BY <1>1, <2>1
    <2>4. EntryOK(e, r, fetches')
      BY <1>1, <1>4, <1>5 DEF EntryOK
    <2>5. ASSUME NEW s \in Ranges \ {r}, NEW d \in statsCache[s]
          PROVE  statsCache[s] = {d} /\ EntryOK(d, s, fetches')
      <3>1. statsCache[s] = {d} /\ EntryOK(d, s, Ignored)
        BY <1>3, <2>5 DEF CacheOK
      <3>2. d.id # q.id
        BY <1>2, <1>4, <2>5
      <3> QED
        BY <1>1, <3>1, <3>2 DEF EntryOK
    <2> QED
      BY <2>2, <2>3, <2>4, <2>5 DEF CacheOK
  <1>8. Waiting' = {q}
    BY <1>1, <1>3, <1>4 DEF Waiting
  <1>9. \A d \in statsCache'[r] : d.state = "pending" /\ d.id = q.id
    <2>1. statsCache \in [Ranges -> SUBSET EntryType]
      BY <1>3 DEF CacheOK
    <2> QED
      BY <1>1, <1>4, <1>5, <2>1
  <1>10. q \in fetches' /\ q \notin fetches
    BY <1>1, <1>2, <1>4
  <1>11. Known(r) = {}
    BY DEF Known
  <1> QED
    BY <1>4, <1>6, <1>7, <1>8, <1>9, <1>10, <1>11 DEF ClientInv

LEMMA CallHits ==
  ASSUME ClientInv, NEW r \in Ranges, CallStats(r), statsCache[r] # {}
  PROVE  /\ ClientInv'
         /\ \/ /\ Known(r) = {}
               /\ \E q : /\ Waiting' = {q} /\ q.range = r /\ q \in fetches'
                         /\ \A e \in statsCache'[r] : e.state = "pending" /\ e.id = q.id
            \/ \E a \in Answers :
                 /\ Known(r) = {a} /\ Waiting' = {}
                 /\ \A e \in statsCache'[r] : e.state = "ok" /\ e.answer = {a}
  <1>1. PICK e \in statsCache[r] : statsCache[r] = {e}
    BY DEF ClientInv, CacheOK
  <1> DEFINE w == [q \in Ignored |-> IF q.id = e.id THEN q.waiters \cup {"page"} ELSE q.waiters]
  <1>2. /\ FetchesOK(Ignored) /\ CacheOK(statsCache, Ignored)
        /\ \A p \in Ignored : "page" \notin p.waiters
    BY IgnoredStep
  <1>3. w \in [Ignored -> Waiters]
    BY <1>2 DEF FetchesOK, FetchType, Waiters
  <1>4. fetches' = Relabel(Ignored, w) /\ statsCache' = statsCache
    <2>1. /\ statsCache' = statsCache
          /\ fetches' = {[q EXCEPT !.waiters =
                            IF \E d \in statsCache[r] : d.id = q.id THEN @ \cup {"page"} ELSE @] :
                          q \in Ignored}
      BY DEF CallStats
    <2>2. \A q : (\E d \in statsCache[r] : d.id = q.id) <=> q.id = e.id
      BY <1>1
    <2> QED
      BY <2>1, <2>2 DEF Relabel
  <1>5. \A q \in Ignored : w[q] = IF q.id = e.id THEN q.waiters \cup {"page"} ELSE q.waiters
    OBVIOUS
  <1> HIDE DEF w
  <1>6. /\ FetchesOK(fetches')
        /\ \A q \in Ignored : \E g \in fetches' : g.id = q.id /\ g.range = q.range /\ g.waiters = w[q]
        /\ \A g \in fetches' : \E q \in Ignored : g.id = q.id /\ g.range = q.range /\ g.waiters = w[q]
    BY <1>2, <1>3, <1>4, Relabelled
  <1>7. CacheOK(statsCache', fetches')
    BY <1>2, <1>4, <1>6, CacheKept
  <1>8. \A g \in fetches' : "page" \in g.waiters <=> g.id = e.id
    <2>1. \A q \in Ignored : "page" \in w[q] <=> q.id = e.id
      BY <1>2, <1>5, Zenon
    <2>2. ASSUME NEW g \in fetches'
          PROVE  "page" \in g.waiters <=> g.id = e.id
      <3>1. PICK q \in Ignored : g.id = q.id /\ g.waiters = w[q]
        BY <1>6
      <3> QED
        BY <2>1, <3>1
    <2> QED
      BY <2>2
  <1>9. EntryOK(e, r, fetches')
    BY <1>1, <1>4, <1>7 DEF CacheOK
  <1>10. Known(r) = e.answer
    BY <1>1 DEF Known
  <1>11. CASE e.state = "pending"
    <2>1. PICK q \in fetches' : q.id = e.id /\ q.range = r
      BY <1>9, <1>11 DEF EntryOK
    <2>2. Waiting' = {q}
      BY <1>6, <1>8, <2>1 DEF Waiting, FetchesOK
    <2>3. Known(r) = {}
      BY <1>9, <1>10, <1>11 DEF EntryOK
    <2> QED
      BY <1>1, <1>4, <1>6, <1>7, <1>11, <2>1, <2>2, <2>3 DEF ClientInv
  <1>12. CASE e.state = "ok"
    <2>1. PICK a \in Answers : e.answer = {a}
      BY <1>9, <1>12 DEF EntryOK
    <2>2. Waiting' = {}
      BY <1>8, <1>9, <1>12 DEF EntryOK, Waiting
    <2> QED
      BY <1>1, <1>4, <1>6, <1>7, <1>10, <1>12, <2>1, <2>2 DEF ClientInv
  <1> QED
    BY <1>9, <1>11, <1>12 DEF EntryOK

(* A fetch that ends takes its waiters with it, and the cache learns.        *)
LEMMA FetchOKStep ==
  ASSUME ClientInv, NEW q \in fetches, NEW answer \in Answers, FetchOK(q, answer)
  PROVE  /\ ClientInv' /\ Waiting' = Waiting \ {q}
         /\ \A r \in Ranges : \A e \in statsCache'[r] : \E d \in statsCache[r] :
              /\ d.id = e.id
              /\ \/ e = d /\ e.id # q.id
                 \/ e.id = q.id /\ e.state = "ok" /\ e.answer = {answer}
  <1>1. /\ fetches' = fetches \ {q}
        /\ statsCache' = [statsCache EXCEPT ![q.range] =
             {[e EXCEPT !.state  = IF e.id = q.id THEN "ok" ELSE @,
                        !.answer = IF e.id = q.id THEN {answer} ELSE @] : e \in @}]
    BY DEF FetchOK
  <1>2. /\ FetchesOK(fetches) /\ CacheOK(statsCache, fetches)
        /\ q \in FetchType /\ q.range \in Ranges
        /\ statsCache \in [Ranges -> SUBSET EntryType]
    BY DEF ClientInv, CacheOK, FetchesOK, FetchType
  <1>3. FetchesOK(fetches')
    BY <1>1, <1>2, FS_RemoveElement DEF FetchesOK
  <1>4. Waiting' = Waiting \ {q}
    BY <1>1 DEF Waiting
  <1>5. \A p \in fetches' : p.id # q.id
    BY <1>1, <1>2 DEF FetchesOK
  <1> DEFINE Told(e) == [e EXCEPT !.state  = IF e.id = q.id THEN "ok" ELSE @,
                                  !.answer = IF e.id = q.id THEN {answer} ELSE @]
  <1>6. \A e \in EntryType : /\ Told(e) \in EntryType /\ Told(e).id = e.id
                             /\ e.id # q.id => Told(e) = e
                             /\ e.id = q.id => Told(e).state = "ok" /\ Told(e).answer = {answer}
    <2>1. SUFFICES ASSUME NEW e \in EntryType
                   PROVE  /\ Told(e) \in EntryType /\ Told(e).id = e.id
                          /\ e.id # q.id => Told(e) = e
                          /\ e.id = q.id => Told(e).state = "ok" /\ Told(e).answer = {answer}
      OBVIOUS
    <2>2. {answer} \subseteq Answers
      OBVIOUS
    <2>3. CASE e.id = q.id
      <3>1. Told(e) = [e EXCEPT !.state = "ok", !.answer = {answer}]
        BY <2>3
      <3> QED
        BY <2>2, <2>3, <3>1 DEF EntryType
    <2>4. CASE e.id # q.id
      <3>1. Told(e) = [e EXCEPT !.state = e.state, !.answer = e.answer]
        BY <2>4
      <3> QED
        BY <2>4, <3>1 DEF EntryType
    <2> QED
      BY <2>3, <2>4
  <1>7. /\ \A r \in Ranges \ {q.range} : statsCache'[r] = statsCache[r]
        /\ statsCache'[q.range] = {Told(e) : e \in statsCache[q.range]}
        /\ DOMAIN statsCache' = Ranges /\ statsCache' = [r \in Ranges |-> statsCache'[r]]
    BY <1>1, <1>2
  <1> HIDE DEF Told
  <1>8. \A e \in statsCache[q.range] : e \in EntryType /\ statsCache[q.range] = {e}
    BY <1>2 DEF CacheOK
  <1>9. \A r \in Ranges : statsCache'[r] \subseteq EntryType
    BY <1>2, <1>6, <1>7
  <1>10. statsCache' \in [Ranges -> SUBSET EntryType]
    BY <1>7, <1>9
  <1>11. ASSUME NEW r \in Ranges \ {q.range}, NEW e \in statsCache'[r]
         PROVE  e \in statsCache[r] /\ e.id # q.id /\ statsCache'[r] = {e} /\ EntryOK(e, r, fetches')
    <2>1. e \in statsCache[r] /\ statsCache[r] = {e} /\ EntryOK(e, r, fetches)
      BY <1>2, <1>7, <1>11 DEF CacheOK
    <2>2. e.id # q.id
      BY <1>2, <1>11, <2>1 DEF EntryOK, FetchesOK
    <2> QED
      BY <1>1, <1>7, <2>1, <2>2 DEF EntryOK
  <1>12. ASSUME NEW e \in statsCache'[q.range]
         PROVE  /\ statsCache'[q.range] = {e} /\ EntryOK(e, q.range, fetches')
                /\ \E d \in statsCache[q.range] :
                     /\ d.id = e.id
                     /\ \/ e = d /\ e.id # q.id
                        \/ e.id = q.id /\ e.state = "ok" /\ e.answer = {answer}
    <2>1. PICK d \in statsCache[q.range] : e = Told(d)
      BY <1>7, <1>12
    <2>2. d \in EntryType /\ statsCache[q.range] = {d} /\ EntryOK(d, q.range, fetches)
      BY <1>2, <2>1 DEF CacheOK
    <2>3. statsCache'[q.range] = {e}
      BY <1>7, <2>1, <2>2
    <2>4. CASE d.id = q.id
      <3>1. e.id = q.id /\ e.state = "ok" /\ e.answer = {answer}
        BY <1>6, <2>1, <2>2, <2>4
      <3> QED
        BY <1>5, <2>1, <2>3, <2>4, <3>1 DEF EntryOK
    <2>5. CASE d.id # q.id
      <3>1. e = d
        BY <1>6, <2>1, <2>2, <2>5
      <3> QED
        BY <1>1, <2>1, <2>2, <2>3, <2>5, <3>1 DEF EntryOK
    <2> QED
      BY <2>4, <2>5
  <1>13. CacheOK(statsCache', fetches')
    BY <1>10, <1>11, <1>12 DEF CacheOK
  <1> QED
    BY <1>3, <1>4, <1>11, <1>12, <1>13 DEF ClientInv

LEMMA FetchFailsStep ==
  ASSUME ClientInv, NEW q \in fetches, FetchFails(q)
  PROVE  /\ ClientInv' /\ Waiting' = Waiting \ {q}
         /\ statsCache'[q.range] = {}
         /\ \A r \in Ranges : statsCache'[r] \subseteq statsCache[r]
  <1>1. fetches' = fetches \ {q} /\ statsCache' = [statsCache EXCEPT ![q.range] = {}]
    BY DEF FetchFails
  <1>2. /\ FetchesOK(fetches) /\ CacheOK(statsCache, fetches) /\ q.range \in Ranges
        /\ statsCache \in [Ranges -> SUBSET EntryType]
    BY DEF ClientInv, CacheOK, FetchesOK, FetchType
  <1>3. FetchesOK(fetches')
    BY <1>1, <1>2, FS_RemoveElement DEF FetchesOK
  <1>4. Waiting' = Waiting \ {q}
    BY <1>1 DEF Waiting
  <1>5. /\ statsCache' \in [Ranges -> SUBSET EntryType] /\ statsCache'[q.range] = {}
        /\ \A r \in Ranges \ {q.range} : statsCache'[r] = statsCache[r]
    BY <1>1, <1>2
  <1>6. ASSUME NEW r \in Ranges, NEW e \in statsCache'[r]
        PROVE  statsCache'[r] = {e} /\ EntryOK(e, r, fetches')
    <2>1. r # q.range /\ e \in statsCache[r] /\ statsCache[r] = {e} /\ EntryOK(e, r, fetches)
      BY <1>2, <1>5, <1>6 DEF CacheOK
    <2>2. \A p \in fetches : p.id = e.id /\ p.range = r => p \in fetches'
      BY <1>1, <2>1
    <2> QED
      BY <1>1, <1>5, <2>1, <2>2 DEF EntryOK
  <1> QED
    BY <1>3, <1>4, <1>5, <1>6 DEF ClientInv, CacheOK

LEMMA ExpireStep ==
  ASSUME ClientInv, NEW r \in Ranges, Expire(r)
  PROVE  /\ ClientInv' /\ Waiting' = Waiting
         /\ \A s \in Ranges : statsCache'[s] \subseteq statsCache[s]
  <1>1. fetches' = fetches /\ statsCache' = [statsCache EXCEPT ![r] = {}]
    BY DEF Expire
  <1>2. statsCache \in [Ranges -> SUBSET EntryType]
    BY DEF ClientInv, CacheOK
  <1>3. /\ statsCache' \in [Ranges -> SUBSET EntryType] /\ statsCache'[r] = {}
        /\ \A s \in Ranges \ {r} : statsCache'[s] = statsCache[s]
    BY <1>1, <1>2
  <1>4. FetchesOK(fetches') /\ Waiting' = Waiting
    BY <1>1 DEF ClientInv, Waiting
  <1>5. CacheOK(statsCache', fetches')
    BY <1>1, <1>3 DEF ClientInv, CacheOK
  <1> QED
    BY <1>3, <1>4, <1>5 DEF ClientInv

-----------------------------------------------------------------------------
(* A page that loads waits for the promise the cache holds for its window,   *)
(* if it holds one; a page in error is not contradicted by the cache.        *)
PageInv ==
  IF StatsOpen
  THEN /\ stats.loading =>
            /\ stats.s = {} /\ ~stats.error
            /\ \E q : /\ Waiting = {q} /\ q.range = stats.hours
                      /\ \A e \in statsCache[stats.hours] : e.state = "pending" /\ e.id = q.id
       /\ ~stats.loading =>
            /\ Waiting = {} /\ (stats.error <=> stats.s = {})
            /\ stats.error => \A e \in statsCache[stats.hours] :
                                e.state = "ok" /\ \A a \in e.answer : a.window # stats.hours
       /\ \A a \in stats.s : stats.s = {a} /\ a.window = stats.hours
       /\ stats.hover # {} => Charted(stats)
  ELSE stats = StatsClosed

(* A viewport that does not load has told of a failure or an observation.    *)
ConsoleInv ==
  IF ConsoleOpen
  THEN /\ console.loading => console.draws # NoDraws
       /\ ~console.loading => console.error \/ console.detail # "none"
  ELSE console = ConsoleClosed

IInv == TypeOK /\ ClientInv /\ PageInv /\ ConsoleInv

LEMMA ClosedTyped ==
  /\ StatsClosed \in StatsType /\ ConsoleClosed \in ConsoleType
  /\ StatsClosed.loading /\ ~StatsClosed.trends
  /\ StatsClosed.s = {} /\ StatsClosed.hover = {} /\ StatsClosed.days = <<>>
  /\ NoDraws \in [Phases -> Nat]
  BY ClientAssumption
     DEF StatsClosed, ConsoleClosed, StatsType, ConsoleType, NoDraws, Phases

LEMMA RenderedFields ==
  ASSUME NEW st \in StatsType
  PROVE  /\ Rendered(st) \in StatsType
         /\ Rendered(st).hours = st.hours /\ Rendered(st).s = st.s
         /\ Rendered(st).loading = st.loading /\ Rendered(st).error = st.error
         /\ Rendered(st).trends = st.trends /\ Rendered(st).days = st.days
         /\ Rendered(st).hover # {} => Charted(Rendered(st))
  <1> DEFINE hover == IF Charted(st) THEN st.hover ELSE {}
  <1>1. hover \in SUBSET Picks
    BY DEF StatsType
  <1>2. Rendered(st) = [st EXCEPT !.hover = hover]
    BY DEF Rendered
  <1>3. hover # {} => Charted(st)
    OBVIOUS
  <1> HIDE DEF hover
  <1>4. /\ Rendered(st) \in StatsType
        /\ Rendered(st).hours = st.hours /\ Rendered(st).s = st.s
        /\ Rendered(st).loading = st.loading /\ Rendered(st).error = st.error
        /\ Rendered(st).trends = st.trends /\ Rendered(st).days = st.days
        /\ Rendered(st).hover = hover
    BY <1>1, <1>2 DEF StatsType
  <1> QED
    BY <1>3, <1>4 DEF Charted

(* What an answer makes of a page's state. *)
LEMMA SettledFields ==
  ASSUME NEW st \in StatsType, NEW a \in Answers
  PROVE  /\ Settled(st, a) \in StatsType /\ Settled(st, a).hours = st.hours
         /\ ~Settled(st, a).loading
         /\ Settled(st, a).hover = st.hover /\ Settled(st, a).days = st.days
         /\ a.window = st.hours => Settled(st, a).s = {a} /\ Settled(st, a).error = st.error
         /\ a.window # st.hours => Settled(st, a).s = st.s /\ Settled(st, a).error
  <1>1. CASE a.window = st.hours
    <2>1. Settled(st, a) = [st EXCEPT !.s = {a}, !.loading = FALSE]
      BY <1>1 DEF Settled
    <2>2. Settled(st, a) \in StatsType
      <3>1. {a} \in SUBSET Answers
        OBVIOUS
      <3>2. [st EXCEPT !.s = {a}] \in StatsType
        BY <3>1 DEF StatsType
      <3>3. \A x \in StatsType : [x EXCEPT !.loading = FALSE] \in StatsType
        BY DEF StatsType
      <3>4. Settled(st, a) = [[st EXCEPT !.s = {a}] EXCEPT !.loading = FALSE]
        BY <2>1
      <3> QED
        BY <3>2, <3>3, <3>4
    <2>3. /\ Settled(st, a).hours = st.hours /\ ~Settled(st, a).loading
          /\ Settled(st, a).s = {a} /\ Settled(st, a).error = st.error
          /\ Settled(st, a).hover = st.hover /\ Settled(st, a).days = st.days
      BY <2>1 DEF StatsType
    <2> QED
      BY <1>1, <2>2, <2>3
  <1>2. CASE a.window # st.hours
    <2>1. Settled(st, a) = [st EXCEPT !.error = TRUE, !.loading = FALSE]
      BY <1>2 DEF Settled
    <2>2. Settled(st, a) \in StatsType
      BY <2>1 DEF StatsType
    <2>3. /\ Settled(st, a).hours = st.hours /\ ~Settled(st, a).loading
          /\ Settled(st, a).s = st.s /\ Settled(st, a).error
          /\ Settled(st, a).hover = st.hover /\ Settled(st, a).days = st.days
      BY <2>1 DEF StatsType
    <2> QED
      BY <1>2, <2>2, <2>3
  <1> QED
    BY <1>1, <1>2

(* The effect of a window: what it makes of what is known of it.             *)
LEMMA AskedFields ==
  ASSUME ClientInv, NEW st \in StatsType, NEW r \in Ranges
  PROVE  /\ Asked(st, r) \in StatsType /\ Asked(st, r).hours = r
         /\ Asked(st, r).hover # {} => Charted(Asked(st, r))
         /\ Known(r) = {} => /\ Asked(st, r).loading /\ Asked(st, r).s = {}
                             /\ ~Asked(st, r).error
         /\ \A a \in Answers : Known(r) = {a} =>
              /\ ~Asked(st, r).loading
              /\ a.window = r => Asked(st, r).s = {a} /\ ~Asked(st, r).error
              /\ a.window # r => Asked(st, r).s = {} /\ Asked(st, r).error
  <1> DEFINE asked == [st EXCEPT !.hours = r, !.s = {}, !.loading = TRUE, !.error = FALSE]
  <1>1. /\ asked \in StatsType /\ asked.hours = r /\ asked.s = {} /\ asked.loading /\ ~asked.error
    BY DEF StatsType
  <1>2. ~Rejected(r)
    BY DEF ClientInv, CacheOK, EntryType, Rejected
  <1>3. Asked(st, r) = Rendered(IF Known(r) # {} THEN Settled(asked, CHOOSE a \in Known(r) : TRUE)
                                ELSE asked)
    BY <1>2 DEF Asked
  <1>4. Known(r) \subseteq Answers
    BY DEF Known, ClientInv, CacheOK, EntryType
  <1> HIDE DEF asked
  <1>5. CASE Known(r) = {}
    <2>1. Asked(st, r) = Rendered(asked)
      BY <1>3, <1>5
    <2> QED
      BY <1>1, <1>5, <2>1, RenderedFields, Zenon
  <1>6. CASE Known(r) # {}
    <2> DEFINE c == CHOOSE a \in Known(r) : TRUE
    <2>1. c \in Known(r) /\ c \in Answers
      BY <1>4, <1>6
    <2>2. Asked(st, r) = Rendered(Settled(asked, c))
      BY <1>3, <1>6
    <2>3. \A a : Known(r) = {a} => c = a
      BY <2>1
    <2> HIDE DEF c
    <2>4. /\ Settled(asked, c) \in StatsType /\ Settled(asked, c).hours = r
          /\ ~Settled(asked, c).loading
          /\ c.window = r => Settled(asked, c).s = {c} /\ ~Settled(asked, c).error
          /\ c.window # r => Settled(asked, c).s = {} /\ Settled(asked, c).error
      BY <1>1, <2>1, SettledFields
    <2>5. /\ Asked(st, r) \in StatsType /\ Asked(st, r).hours = r
          /\ Asked(st, r).hover # {} => Charted(Asked(st, r))
          /\ Asked(st, r).s = Settled(asked, c).s
          /\ Asked(st, r).loading = Settled(asked, c).loading
          /\ Asked(st, r).error = Settled(asked, c).error
      BY <2>2, <2>4, RenderedFields
    <2> QED
      BY <1>6, <2>3, <2>4, <2>5
  <1> QED
    BY <1>5, <1>6

(* The page asks, for the first time, another window or again.               *)
LEMMA AskStep ==
  ASSUME ClientInv, NEW st \in StatsType, NEW r \in Ranges, CallStats(r), StatsOpen',
         stats' = Asked(st, r) \/ stats' = [Asked(st, r) EXCEPT !.trends = TRUE]
  PROVE  stats' \in StatsType /\ ClientInv' /\ PageInv' /\ stats'.hours = r
  <1> DEFINE new == Asked(st, r)
  <1>1. /\ new \in StatsType /\ new.hours = r
        /\ new.hover # {} => Charted(new)
        /\ Known(r) = {} => new.loading /\ new.s = {} /\ ~new.error
        /\ \A a \in Answers : Known(r) = {a} =>
             /\ ~new.loading
             /\ a.window = r => new.s = {a} /\ ~new.error
             /\ a.window # r => new.s = {} /\ new.error
    BY AskedFields
  <1> HIDE DEF new
  <1>2. /\ stats' \in StatsType /\ stats'.hours = new.hours /\ stats'.s = new.s
        /\ stats'.loading = new.loading /\ stats'.error = new.error
        /\ stats'.hover = new.hover /\ stats'.days = new.days
    <2>1. stats' = new \/ stats' = [new EXCEPT !.trends = TRUE]
      BY DEF new
    <2> QED
      BY <1>1, <2>1 DEF StatsType
  <1>3. stats'.hover # {} => Charted(stats')
    BY <1>1, <1>2 DEF Charted
  <1>4. /\ ClientInv'
        /\ \/ /\ Known(r) = {}
              /\ \E q : /\ Waiting' = {q} /\ q.range = r
                        /\ \A e \in statsCache'[r] : e.state = "pending" /\ e.id = q.id
           \/ \E a \in Answers :
                /\ Known(r) = {a} /\ Waiting' = {}
                /\ \A e \in statsCache'[r] : e.state = "ok" /\ e.answer = {a}
    <2>1. CASE statsCache[r] = {}
      BY <2>1, CallMisses
    <2>2. CASE statsCache[r] # {}
      BY <2>2, CallHits
    <2> QED
      BY <2>1, <2>2
  <1>5. CASE Known(r) = {}
    <2>1. \E q : /\ Waiting' = {q} /\ q.range = r
                 /\ \A e \in statsCache'[r] : e.state = "pending" /\ e.id = q.id
      BY <1>4, <1>5
    <2>2. stats'.hours = r /\ stats'.loading /\ stats'.s = {} /\ ~stats'.error
      BY <1>1, <1>2, <1>5
    <2> QED
      BY <1>2, <1>3, <1>4, <2>1, <2>2 DEF PageInv
  <1>6. CASE Known(r) # {}
    <2>1. PICK a \in Answers :
                /\ Known(r) = {a} /\ Waiting' = {}
                /\ \A e \in statsCache'[r] : e.state = "ok" /\ e.answer = {a}
      BY <1>4, <1>6
    <2>2. /\ stats'.hours = r /\ ~stats'.loading
          /\ a.window = r => stats'.s = {a} /\ ~stats'.error
          /\ a.window # r => stats'.s = {} /\ stats'.error
      BY <1>1, <1>2, <2>1
    <2>3. stats'.error <=> stats'.s = {}
      BY <2>2
    <2>4. stats'.error => a.window # r
      BY <2>2
    <2>5. \A b \in stats'.s : stats'.s = {b} /\ b.window = r
      BY <2>2
    <2> QED
      BY <1>2, <1>3, <1>4, <2>1, <2>2, <2>3, <2>4, <2>5 DEF PageInv
  <1> QED
    BY <1>5, <1>6

-----------------------------------------------------------------------------
(* The client's part of the type. *)
LEMMA ClientTyped ==
  ASSUME ClientInv
  PROVE  fetches \subseteq FetchType /\ statsCache \in [Ranges -> SUBSET EntryType]
  BY DEF ClientInv, FetchesOK, CacheOK

(* A viewport whose draws start. *)
LEMMA DrawingFields ==
  ASSUME NEW c \in ConsoleType
  PROVE  /\ Drawing(c) \in ConsoleType /\ Drawing(c).loading /\ Drawing(c).draws # NoDraws
         /\ Drawing(c).detail = c.detail /\ Drawing(c).error = c.error
  <1> DEFINE draws == [c.draws EXCEPT !["random"] = @ + 1]
  <1>1. draws \in [Phases -> Nat] /\ draws["random"] # 0
    BY DEF ConsoleType, Phases
  <1>2. Drawing(c) = [c EXCEPT !.loading = TRUE, !.draws = draws]
    BY DEF Drawing, ConsoleType
  <1>3. draws # NoDraws
    BY <1>1 DEF NoDraws, Phases
  <1> HIDE DEF draws
  <1> QED
    BY <1>1, <1>2, <1>3 DEF ConsoleType

LEMMA FollowStep ==
  ASSUME IInv, NEW p \in {"overview", "stats", "other"}, Follow(p)
  PROVE  IInv'
  <1>1. /\ ClientInv /\ {0, 24} \subseteq Ranges /\ page' = p /\ topbar' \in BOOLEAN
        /\ StatsClosed \in StatsType /\ ConsoleClosed \in ConsoleType
    BY ClosedTyped, ClientAssumption DEF IInv, TypeOK, Follow
  <1>2. ASSUME ClientInv', stats' \in StatsType, console' \in ConsoleType, PageInv', ConsoleInv'
        PROVE  IInv'
    <2>1. fetches' \subseteq FetchType /\ statsCache' \in [Ranges -> SUBSET EntryType]
      BY <1>2 DEF ClientInv, FetchesOK, CacheOK
    <2> QED
      BY <1>1, <1>2, <2>1 DEF IInv, TypeOK
  <1>3. CASE p = "stats"
    <2>1. /\ CallStats(24) /\ stats' = [Asked(StatsClosed, 24) EXCEPT !.trends = TRUE]
          /\ console' = ConsoleClosed
      BY <1>3 DEF Follow, MountStats, UnmountConsole
    <2>2. StatsOpen' /\ ~ConsoleOpen'
      BY <1>1, <1>3 DEF StatsOpen, ConsoleOpen
    <2>3. stats' \in StatsType /\ ClientInv' /\ PageInv'
      BY <1>1, <2>1, <2>2, AskStep
    <2>4. ConsoleInv'
      BY <2>1, <2>2 DEF ConsoleInv
    <2> QED
      BY <1>1, <1>2, <2>1, <2>3, <2>4
  <1>4. CASE p = "overview"
    <2>1. /\ CallStats(0) /\ stats' = StatsClosed
          /\ console' = [Drawing(ConsoleClosed) EXCEPT !.totals = Known(0) # {}]
      BY <1>4 DEF Follow, MountConsole, UnmountStats
    <2>2. ~StatsOpen' /\ ConsoleOpen'
      BY <1>1, <1>4 DEF StatsOpen, ConsoleOpen
    <2>3. ClientInv'
      BY <1>1, <2>1, CallMisses, CallHits
    <2>4. /\ Drawing(ConsoleClosed) \in ConsoleType /\ Drawing(ConsoleClosed).loading
          /\ Drawing(ConsoleClosed).draws # NoDraws
      BY <1>1, DrawingFields
    <2>5. /\ console' \in ConsoleType /\ console'.loading
          /\ console'.draws = Drawing(ConsoleClosed).draws
      BY <2>1, <2>4 DEF ConsoleType
    <2>6. PageInv' /\ ConsoleInv'
      BY <2>1, <2>2, <2>4, <2>5 DEF PageInv, ConsoleInv
    <2> QED
      BY <1>1, <1>2, <2>1, <2>3, <2>5, <2>6
  <1>5. CASE p = "other"
    <2>1. /\ fetches' = Ignored /\ statsCache' = statsCache
          /\ stats' = StatsClosed /\ console' = ConsoleClosed
      BY <1>5 DEF Follow, UnmountStats, UnmountConsole
    <2>2. ~StatsOpen' /\ ~ConsoleOpen'
      BY <1>1, <1>5 DEF StatsOpen, ConsoleOpen
    <2>3. ClientInv'
      BY <1>1, <2>1, IgnoredStep DEF ClientInv
    <2>4. PageInv' /\ ConsoleInv'
      BY <2>1, <2>2 DEF PageInv, ConsoleInv
    <2> QED
      BY <1>1, <1>2, <2>1, <2>3, <2>4
  <1> QED
    BY <1>3, <1>4, <1>5

(* A step that leaves the viewport alone. *)
LEMMA StatsFrame ==
  ASSUME IInv, ClientInv', stats' \in StatsType, PageInv', topbar' \in BOOLEAN,
         UNCHANGED <<page, console>>
  PROVE  IInv'
  <1>1. TypeOK'
    BY ClientTyped DEF IInv, TypeOK, ClientInv, FetchesOK, CacheOK
  <1>2. ConsoleInv'
    BY DEF IInv, ConsoleInv, ConsoleOpen
  <1> QED
    BY <1>1, <1>2 DEF IInv

(* Whoever waits for an answer gets it, for the window it asked for or not.  *)
LEMMA StatsHearsStep ==
  ASSUME ClientInv, stats \in StatsType, PageInv, NEW q \in fetches, NEW answer \in Answers,
         FetchOK(q, answer), StatsHears(q, answer), page' = page
  PROVE  stats' \in StatsType /\ PageInv'
  <1>1. /\ Waiting' = Waiting \ {q} /\ StatsOpen' = StatsOpen
        /\ stats' = IF StatsOpen /\ "page" \in q.waiters THEN Settled(stats, answer) ELSE stats
        /\ stats.hours \in Ranges
    BY FetchOKStep DEF StatsHears, StatsOpen, StatsType
  <1>2. \A e \in statsCache'[stats.hours] : \E d \in statsCache[stats.hours] :
           /\ d.id = e.id
           /\ \/ e = d /\ e.id # q.id
              \/ e.id = q.id /\ e.state = "ok" /\ e.answer = {answer}
    BY <1>1, FetchOKStep
  <1>3. CASE ~StatsOpen
    BY <1>1, <1>3 DEF PageInv
  <1>4. CASE StatsOpen /\ "page" \notin q.waiters
    <2>1. stats' = stats /\ Waiting' = Waiting
      BY <1>1, <1>4 DEF Waiting
    <2>2. CASE stats.loading
      <3>1. PICK p : /\ Waiting = {p} /\ p.range = stats.hours
                     /\ \A e \in statsCache[stats.hours] : e.state = "pending" /\ e.id = p.id
        BY <1>4, <2>2 DEF PageInv
      <3>2. p.id # q.id
        BY <1>4, <3>1 DEF Waiting, ClientInv, FetchesOK
      <3>3. \A e \in statsCache'[stats.hours] : e.state = "pending" /\ e.id = p.id
        BY <1>2, <3>1, <3>2
      <3> QED
        BY <1>1, <1>4, <2>1, <2>2, <3>1, <3>3 DEF PageInv, Charted
    <2>3. CASE ~stats.loading
      <3>1. ASSUME stats.error, NEW e \in statsCache'[stats.hours]
            PROVE  e.state = "ok" /\ \A a \in e.answer : a.window # stats.hours
        <4>1. PICK d \in statsCache[stats.hours] :
                     d.id = e.id /\ (e = d \/ e.id = q.id)
          BY <1>2, <3>1
        <4>2. d.state = "ok" /\ \A a \in d.answer : a.window # stats.hours
          BY <1>4, <2>3, <3>1 DEF PageInv
        <4>3. d.id # q.id
          BY <1>1, <4>2 DEF ClientInv, CacheOK, EntryOK
        <4> QED
          BY <4>1, <4>2, <4>3
      <3> QED
        BY <1>1, <1>4, <2>1, <2>3, <3>1 DEF PageInv, Charted
    <2> QED
      BY <2>1, <2>2, <2>3
  <1>5. CASE StatsOpen /\ "page" \in q.waiters
    <2>1. q \in Waiting
      BY <1>5 DEF Waiting
    <2>2. /\ stats.loading /\ stats.s = {} /\ ~stats.error
          /\ Waiting = {q} /\ q.range = stats.hours
          /\ \A e \in statsCache[stats.hours] : e.id = q.id
      BY <1>5, <2>1 DEF PageInv
    <2>3. Waiting' = {}
      BY <1>1, <2>2
    <2>4. \A e \in statsCache'[stats.hours] : e.state = "ok" /\ e.answer = {answer}
      BY <1>2, <2>2
    <2>5. /\ stats' \in StatsType /\ stats'.hours = stats.hours /\ ~stats'.loading
          /\ stats'.hover = stats.hover /\ stats'.days = stats.days
          /\ answer.window = stats.hours => stats'.s = {answer} /\ ~stats'.error
          /\ answer.window # stats.hours => stats'.s = {} /\ stats'.error
      <3>1. stats' = Settled(stats, answer) /\ stats \in StatsType
        BY <1>1, <1>5
      <3> QED
        BY <2>2, <3>1, SettledFields
    <2>6. stats'.hover # {} => Charted(stats')
      BY <1>5, <2>2, <2>5 DEF PageInv, Charted
    <2>7. stats'.error <=> stats'.s = {}
      BY <2>5
    <2>8. \A a \in stats'.s : stats'.s = {a} /\ a.window = stats'.hours
      BY <2>5
    <2>9. stats'.error => \A e \in statsCache'[stats'.hours] :
                             e.state = "ok" /\ \A a \in e.answer : a.window # stats'.hours
      BY <2>4, <2>5
    <2> QED
      BY <1>1, <1>5, <2>3, <2>5, <2>6, <2>7, <2>8, <2>9 DEF PageInv
  <1> QED
    BY <1>3, <1>4, <1>5

LEMMA ArriveStep ==
  ASSUME IInv, NEW q \in fetches, NEW answer \in Answers, StatsArrive(q, answer)
  PROVE  IInv'
  <1>1. /\ ClientInv /\ stats \in StatsType /\ PageInv /\ FetchOK(q, answer)
        /\ StatsHears(q, answer) /\ ConsoleHears(q) /\ page' = page /\ topbar' \in BOOLEAN
    BY DEF IInv, TypeOK, StatsArrive
  <1>2. ClientInv' /\ stats' \in StatsType /\ PageInv'
    BY <1>1, FetchOKStep, StatsHearsStep
  <1>3. /\ console' \in ConsoleType /\ ConsoleInv'
    <2>1. console \in ConsoleType /\ ConsoleInv /\ ConsoleOpen' = ConsoleOpen
      BY <1>1 DEF IInv, TypeOK, ConsoleOpen
    <2>2. CASE console' = console
      BY <2>1, <2>2 DEF ConsoleInv
    <2>3. CASE ConsoleOpen /\ console' = [console EXCEPT !.totals = TRUE]
      <3>1. /\ console' \in ConsoleType /\ console'.loading = console.loading
            /\ console'.draws = console.draws /\ console'.error = console.error
            /\ console'.detail = console.detail
        BY <2>1, <2>3 DEF ConsoleType
      <3> QED
        BY <2>1, <2>3, <3>1 DEF ConsoleInv
    <2> QED
      BY <1>1, <2>2, <2>3 DEF ConsoleHears
  <1>4. page' \in {"overview", "stats", "other"}
    BY <1>1 DEF IInv, TypeOK
  <1>5. TypeOK'
    BY <1>1, <1>2, <1>3, <1>4 DEF TypeOK, ClientInv, FetchesOK, CacheOK
  <1> QED
    BY <1>2, <1>3, <1>5 DEF IInv

LEMMA LostStep ==
  ASSUME IInv, NEW q \in fetches, StatsLost(q)
  PROVE  IInv'
  <1>1. /\ ClientInv /\ stats \in StatsType /\ PageInv /\ FetchFails(q)
        /\ UNCHANGED <<page, console, topbar>> /\ StatsOpen' = StatsOpen
        /\ stats' = IF StatsOpen /\ "page" \in q.waiters THEN Failed(stats) ELSE stats
    BY DEF IInv, TypeOK, StatsLost, StatsMisses, StatsOpen
  <1>2. /\ ClientInv' /\ Waiting' = Waiting \ {q} /\ statsCache'[q.range] = {}
        /\ \A r \in Ranges : statsCache'[r] \subseteq statsCache[r]
    BY <1>1, FetchFailsStep
  <1>3. stats.hours \in Ranges
    BY <1>1 DEF StatsType
  <1>4. stats' \in StatsType /\ PageInv'
    <2>1. CASE ~StatsOpen
      BY <1>1, <2>1 DEF PageInv
    <2>2. CASE StatsOpen /\ "page" \notin q.waiters
      <3>1. stats' = stats /\ Waiting' = Waiting
        BY <1>1, <1>2, <2>2 DEF Waiting
      <3>2. CASE stats.loading
        BY <1>1, <1>2, <1>3, <2>2, <3>1, <3>2 DEF PageInv, Charted
      <3>3. CASE ~stats.loading
        BY <1>1, <1>2, <1>3, <2>2, <3>1, <3>3 DEF PageInv, Charted
      <3> QED
        BY <3>2, <3>3
    <2>3. CASE StatsOpen /\ "page" \in q.waiters
      <3>1. q \in Waiting
        BY <2>3 DEF Waiting
      <3>2. /\ stats.loading /\ stats.s = {}
            /\ Waiting = {q} /\ q.range = stats.hours
        BY <1>1, <2>3, <3>1 DEF PageInv
      <3>3. Waiting' = {} /\ statsCache'[stats.hours] = {}
        BY <1>2, <3>2
      <3>4. stats' = [stats EXCEPT !.error = TRUE, !.loading = FALSE]
        BY <1>1, <2>3 DEF Failed
      <3>5. /\ stats' \in StatsType /\ stats'.hours = stats.hours /\ stats'.s = {}
            /\ stats'.error /\ ~stats'.loading
            /\ stats'.hover = stats.hover /\ stats'.days = stats.days
        BY <1>1, <3>2, <3>4 DEF StatsType
      <3>6. stats'.hover # {} => Charted(stats')
        BY <1>1, <2>3, <3>2, <3>5 DEF PageInv, Charted
      <3> QED
        BY <1>1, <2>3, <3>3, <3>5, <3>6 DEF PageInv
    <2> QED
      BY <2>1, <2>2, <2>3
  <1>5. topbar' \in BOOLEAN
    BY <1>1 DEF IInv, TypeOK
  <1> QED
    BY <1>1, <1>2, <1>4, <1>5, StatsFrame

LEMMA ExpiresStep ==
  ASSUME IInv, NEW r \in Ranges, Expire(r), UNCHANGED <<page, stats, console, topbar>>
  PROVE  IInv'
  <1>1. /\ ClientInv /\ stats \in StatsType /\ PageInv /\ StatsOpen' = StatsOpen
        /\ topbar' \in BOOLEAN
    BY DEF IInv, TypeOK, StatsOpen
  <1>2. /\ ClientInv' /\ Waiting' = Waiting
        /\ \A s \in Ranges : statsCache'[s] \subseteq statsCache[s]
    BY <1>1, ExpireStep
  <1>3. stats.hours \in Ranges
    BY <1>1 DEF StatsType
  <1>4. PageInv'
    <2>1. CASE ~StatsOpen
      BY <1>1, <2>1 DEF PageInv
    <2>2. CASE StatsOpen /\ stats.loading
      BY <1>1, <1>2, <1>3, <2>2 DEF PageInv, Charted
    <2>3. CASE StatsOpen /\ ~stats.loading
      BY <1>1, <1>2, <1>3, <2>3 DEF PageInv, Charted
    <2> QED
      BY <2>1, <2>2, <2>3
  <1> QED
    BY <1>1, <1>2, <1>4, StatsFrame

(* A change of the page's own state that leaves tables and errors alone.     *)
LEMMA OwnStep ==
  ASSUME IInv, UNCHANGED <<clientVars, page, console, topbar>>, stats' \in StatsType, StatsOpen,
         stats'.hours = stats.hours, stats'.s = stats.s, stats'.loading = stats.loading,
         stats'.error = stats.error, stats'.hover # {} => Charted(stats')
  PROVE  IInv'
  <1>1. /\ ClientInv /\ stats \in StatsType /\ PageInv /\ StatsOpen'
        /\ topbar' \in BOOLEAN /\ fetches' = fetches /\ statsCache' = statsCache
    BY DEF IInv, TypeOK, StatsOpen, clientVars
  <1>2. ClientInv' /\ Waiting' = Waiting
    BY <1>1 DEF ClientInv, Waiting
  <1>3. PageInv'
    BY <1>1, <1>2 DEF PageInv
  <1> QED
    BY <1>1, <1>2, <1>3, StatsFrame

LEMMA TrendStep ==
  ASSUME IInv, TrendNext, UNCHANGED <<clientVars, page, console, topbar>>
  PROVE  IInv'
  <1>1. /\ stats \in StatsType
        /\ StatsOpen => (stats.hover # {} => Charted(stats))
        /\ ~StatsOpen => stats = StatsClosed
    BY DEF IInv, TypeOK, PageInv
  <1>2. CASE \E stored \in Rollups : TrendsAnswer(stored)
    <2>1. PICK stored \in Rollups : TrendsAnswer(stored)
      BY <1>2
    <2>2. StatsOpen
      BY <1>1, <2>1, ClosedTyped DEF TrendsAnswer
    <2> DEFINE st == [stats EXCEPT !.trends = FALSE, !.days = ReadDailyRollups(stored)]
    <2>3. /\ st \in StatsType /\ st.hours = stats.hours /\ st.s = stats.s
          /\ st.loading = stats.loading /\ st.error = stats.error
      BY <1>1 DEF StatsType
    <2>4. stats' = Rendered(st)
      BY <2>1 DEF TrendsAnswer
    <2> HIDE DEF st
    <2>5. /\ stats' \in StatsType
          /\ stats'.hours = stats.hours /\ stats'.s = stats.s
          /\ stats'.loading = stats.loading /\ stats'.error = stats.error
          /\ stats'.hover # {} => Charted(stats')
      BY <2>3, <2>4, RenderedFields
    <2> QED
      BY <2>2, <2>5, OwnStep
  <1>3. CASE TrendsFail
    <2>1. StatsOpen
      BY <1>1, <1>3, ClosedTyped DEF TrendsFail
    <2>2. /\ stats' \in StatsType
          /\ stats'.hours = stats.hours /\ stats'.s = stats.s
          /\ stats'.loading = stats.loading /\ stats'.error = stats.error
          /\ stats'.hover = stats.hover /\ stats'.days = stats.days
      BY <1>1, <1>3 DEF TrendsFail, StatsType
    <2>3. stats'.hover # {} => Charted(stats')
      BY <1>1, <2>1, <2>2 DEF Charted
    <2> QED
      BY <2>1, <2>2, <2>3, OwnStep
  <1>4. CASE PointAway
    <2>1. StatsOpen
      BY <1>1, <1>4, ClosedTyped DEF PointAway
    <2>2. /\ stats' \in StatsType
          /\ stats'.hours = stats.hours /\ stats'.s = stats.s
          /\ stats'.loading = stats.loading /\ stats'.error = stats.error
          /\ stats'.hover = {}
      BY <1>1, <1>4 DEF PointAway, StatsType
    <2> QED
      BY <2>1, <2>2, OwnStep
  <1>5. CASE \E px \in Pointers : PointAt(px)
    <2>1. PICK px \in Pointers : PointAt(px)
      BY <1>5
    <2>2. StatsOpen
      BY <1>1, <2>1, ClosedTyped DEF PointAt, Charted
    <2> DEFINE i == Nearest(Len(ChartPoints(AtRiskSeries(stats.days))), px)
    <2>3. stats.days # <<>>
      BY <2>1 DEF PointAt, Charted
    <2>4. i \in Picks
      BY <1>1, <2>3 DEF StatsType, Picks
    <2>5. stats' = [stats EXCEPT !.hover = {i}]
      BY <2>1 DEF PointAt
    <2> HIDE DEF i
    <2>6. /\ stats' \in StatsType
          /\ stats'.hours = stats.hours /\ stats'.s = stats.s
          /\ stats'.loading = stats.loading /\ stats'.error = stats.error
          /\ stats'.days = stats.days
      BY <1>1, <2>4, <2>5 DEF StatsType
    <2>7. Charted(stats')
      BY <2>1, <2>6 DEF PointAt, Charted
    <2> QED
      BY <2>2, <2>6, <2>7, OwnStep
  <1> QED
    BY <1>2, <1>3, <1>4, <1>5 DEF TrendNext

LEMMA StatsStep ==
  ASSUME IInv, StatsSteps, UNCHANGED <<page, console, topbar>>
  PROVE  IInv'
  <1>1. /\ ClientInv /\ stats \in StatsType /\ StatsOpen' = StatsOpen /\ topbar' \in BOOLEAN
        /\ stats.hours \in Ranges
    BY DEF IInv, TypeOK, StatsOpen, StatsType
  <1>2. CASE \E h \in Ranges : ChooseHours(h)
    <2>1. PICK h \in Ranges : ChooseHours(h)
      BY <1>2
    <2>2. stats' \in StatsType /\ ClientInv' /\ PageInv'
      BY <1>1, <2>1, AskStep DEF ChooseHours
    <2> QED
      BY <1>1, <2>2, StatsFrame
  <1>3. CASE StatsRetry
    <2>1. stats' \in StatsType /\ ClientInv' /\ PageInv'
      BY <1>1, <1>3, AskStep DEF StatsRetry
    <2> QED
      BY <1>1, <2>1, StatsFrame
  <1>4. CASE UNCHANGED clientVars /\ TrendNext
    BY <1>4, TrendStep
  <1>5. CASE UNCHANGED clientVars /\ \E on \in BOOLEAN : ChooseDensity(on)
    <2>1. PICK on \in BOOLEAN : ChooseDensity(on)
      BY <1>5
    <2>2. stats.s # {}
      BY <2>1 DEF ChooseDensity, StatsView
    <2>3. StatsOpen
      BY <2>2, ClosedTyped DEF IInv, PageInv
    <2>4. /\ stats' \in StatsType
          /\ stats'.hours = stats.hours /\ stats'.s = stats.s
          /\ stats'.loading = stats.loading /\ stats'.error = stats.error
          /\ stats'.hover = stats.hover /\ stats'.days = stats.days
      BY <1>1, <2>1 DEF ChooseDensity, StatsType
    <2>5. stats'.hover # {} => Charted(stats')
      BY <2>3, <2>4 DEF IInv, PageInv, Charted
    <2> QED
      BY <1>5, <2>3, <2>4, <2>5, OwnStep
  <1> QED
    BY <1>2, <1>3, <1>4, <1>5 DEF StatsSteps

-----------------------------------------------------------------------------
(* A draw that goes on keeps the viewport loading; one that ends tells.      *)
LEMMA PhaseFields ==
  ASSUME console \in ConsoleType, NEW from \in Phases, NEW to \in Phases, from # to,
         console.draws[from] > 0
  PROVE  /\ Phase(from, to) \in ConsoleType /\ Phase(from, to).draws # NoDraws
         /\ Phase(from, to).loading = console.loading
         /\ Phase(from, to).detail = console.detail /\ Phase(from, to).error = console.error
  <1> DEFINE draws == [console.draws EXCEPT ![from] = @ - 1, ![to] = @ + 1]
  <1>1. console.draws \in [Phases -> Nat]
    BY DEF ConsoleType
  <1>2. draws \in [Phases -> Nat] /\ draws[to] # 0
    BY <1>1
  <1>3. draws # NoDraws
    BY <1>2 DEF NoDraws
  <1>4. Phase(from, to) = [console EXCEPT !.draws = draws]
    BY <1>1 DEF Phase, ConsoleType
  <1> HIDE DEF draws
  <1> QED
    BY <1>2, <1>3, <1>4 DEF ConsoleType

LEMMA EndedFields ==
  ASSUME console \in ConsoleType, NEW from \in Phases, console.draws[from] > 0
  PROVE  /\ Ended(from) \in ConsoleType /\ ~Ended(from).loading
         /\ Ended(from).detail = console.detail
         /\ Ended(from).draws[from] < console.draws[from]
  <1> DEFINE draws == [console.draws EXCEPT ![from] = @ - 1]
  <1>1. console.draws \in [Phases -> Nat]
    BY DEF ConsoleType
  <1>2. draws \in [Phases -> Nat] /\ draws[from] < console.draws[from]
    BY <1>1
  <1>3. Ended(from) = [console EXCEPT !.draws = draws, !.loading = FALSE]
    BY <1>1 DEF Ended, ConsoleType
  <1> HIDE DEF draws
  <1> QED
    BY <1>2, <1>3 DEF ConsoleType

(* What the viewport's steps do to it. *)
LEMMA ConsoleMoves ==
  ASSUME console \in ConsoleType, ConsoleNext
  PROVE  /\ console' \in ConsoleType
         /\ \/ console'.loading /\ console'.draws # NoDraws /\ console'.detail = console.detail
            \/ /\ console'.loading = console.loading /\ console'.error = console.error
               /\ console'.detail = console.detail
               /\ console'.draws # NoDraws \/ console'.draws = console.draws
            \/ /\ ~console'.loading /\ console'.error /\ console'.detail = console.detail
            \/ /\ ~console'.loading /\ console'.detail # "none"
               /\ console'.draws["signal"] < console.draws["signal"]
  <1> USE DEF Phases
  <1>1. CASE Acquire \/ AutoTick
    BY <1>1, DrawingFields DEF Acquire, AutoTick
  <1>2. CASE ToggleAuto
    BY <1>2 DEF ToggleAuto, ConsoleType
  <1>3. CASE console.draws["random"] > 0 /\ (RandomOK \/ RandomFails)
    BY <1>3, PhaseFields DEF RandomOK, RandomFails
  <1>4. CASE console.draws["gallery"] > 0 /\ GalleryOK
    BY <1>4, PhaseFields DEF GalleryOK
  <1>5. CASE console.draws["gallery"] > 0 /\ GalleryFails
    <2> DEFINE c == Ended("gallery")
    <2>1. c \in ConsoleType /\ ~c.loading /\ c.detail = console.detail
      BY <1>5, EndedFields
    <2>2. console' = [c EXCEPT !.error = TRUE]
      BY <1>5 DEF GalleryFails
    <2> HIDE DEF c
    <2> QED
      BY <2>1, <2>2 DEF ConsoleType
  <1>6. CASE console.draws["signal"] > 0 /\ SignalFails
    <2> DEFINE c == Ended("signal")
    <2>1. c \in ConsoleType /\ ~c.loading /\ c.detail = console.detail
      BY <1>6, EndedFields
    <2>2. console' = [c EXCEPT !.error = TRUE]
      BY <1>6 DEF SignalFails
    <2> HIDE DEF c
    <2> QED
      BY <2>1, <2>2 DEF ConsoleType
  <1>7. CASE console.draws["signal"] > 0 /\ \E d \in {"pictured", "bare"} : SignalOK(d)
    <2>1. PICK d \in {"pictured", "bare"} : SignalOK(d)
      BY <1>7
    <2> DEFINE c == Ended("signal")
    <2>2. c \in ConsoleType /\ ~c.loading /\ c.draws["signal"] < console.draws["signal"]
      BY <1>7, EndedFields
    <2>3. console' = [c EXCEPT !.detail = d, !.error = FALSE]
      BY <2>1 DEF SignalOK
    <2> HIDE DEF c
    <2> QED
      BY <2>2, <2>3 DEF ConsoleType
  <1> QED
    BY <1>1, <1>2, <1>3, <1>4, <1>5, <1>6, <1>7 DEF ConsoleNext, DrawEnds

LEMMA ConsoleStep ==
  ASSUME IInv, ConsoleNext, UNCHANGED <<page, clientVars, stats, topbar>>
  PROVE  IInv'
  <1>1. console \in ConsoleType /\ ConsoleInv /\ ConsoleOpen /\ ConsoleOpen'
    BY DEF IInv, TypeOK, ConsoleNext, ConsoleOpen
  <1>2. console' \in ConsoleType /\ ConsoleInv'
    BY <1>1, ConsoleMoves DEF ConsoleInv
  <1>3. ClientInv' /\ PageInv'
    <2>1. /\ fetches' = fetches /\ statsCache' = statsCache
          /\ Waiting' = Waiting /\ StatsOpen' = StatsOpen
      BY DEF clientVars, Waiting, StatsOpen
    <2> QED
      BY <2>1 DEF IInv, ClientInv, PageInv
  <1>4. TypeOK'
    BY <1>2 DEF IInv, TypeOK, clientVars
  <1> QED
    BY <1>2, <1>3, <1>4 DEF IInv

-----------------------------------------------------------------------------
LEMMA NextStep ==
  ASSUME IInv, [Next]_vars
  PROVE  IInv'
  <1>1. CASE \E p \in {"overview", "stats", "other"} : Follow(p)
    BY <1>1, FollowStep
  <1>2. CASE \E q \in fetches : StatsResult(q)
    <2>1. PICK q \in fetches : StatsResult(q)
      BY <1>2
    <2>2. CASE StatsLost(q)
      BY <2>2, LostStep
    <2>3. CASE \E a \in Answers : a.of \in Tallies[a.window] /\ StatsArrive(q, a)
      BY <2>3, ArriveStep
    <2> QED
      BY <2>1, <2>2, <2>3 DEF StatsResult
  <1>3. CASE \E r \in Ranges : Expire(r) /\ UNCHANGED <<page, stats, console, topbar>>
    BY <1>3, ExpiresStep
  <1>4. CASE StatsSteps /\ UNCHANGED <<page, console, topbar>>
    BY <1>4, StatsStep
  <1>5. CASE ConsoleNext /\ UNCHANGED <<page, clientVars, stats, topbar>>
    BY <1>5, ConsoleStep
  <1>6. CASE UNCHANGED vars
    <2>1. UNCHANGED <<page, fetches, statsCache, stats, console, topbar>>
      BY <1>6 DEF vars, clientVars
    <2>2. Waiting' = Waiting /\ StatsOpen' = StatsOpen /\ ConsoleOpen' = ConsoleOpen
      BY <2>1 DEF Waiting, StatsOpen, ConsoleOpen
    <2>3. ClientInv' /\ PageInv' /\ ConsoleInv'
      BY <2>1, <2>2 DEF IInv, ClientInv, PageInv, ConsoleInv
    <2> QED
      BY <2>1, <2>3 DEF IInv, TypeOK
  <1> QED
    BY <1>1, <1>2, <1>3, <1>4, <1>5, <1>6 DEF Next

(* On the first paint the top bar's fetch has the first id, the page's own   *)
(* the second.                                                               *)
LEMMA InitStep ==
  ASSUME Init
  PROVE  IInv
  <1> DEFINE first  == Fetch(1, 0, IF ConsoleOpen THEN {"topbar", "page"} ELSE {"topbar"})
             second == Fetch(2, 24, {"page"})
  <1>1. {0, 24} \subseteq Ranges
    BY ClientAssumption
  <1>2. /\ first \in FetchType /\ first.id = 1 /\ first.range = 0
        /\ "page" \in first.waiters <=> ConsoleOpen
        /\ second \in FetchType /\ second.id = 2 /\ second.range = 24
        /\ second.waiters = {"page"}
    BY <1>1 DEF Fetch, FetchType
  <1>3. /\ Pending(1) \in EntryType /\ Pending(1).id = 1 /\ Pending(1).state = "pending"
        /\ Pending(1).answer = {}
        /\ Pending(2) \in EntryType /\ Pending(2).id = 2 /\ Pending(2).state = "pending"
        /\ Pending(2).answer = {}
    BY DEF Pending, EntryType
  <1>4. /\ fetches = {first} \cup (IF StatsOpen THEN {second} ELSE {})
        /\ statsCache = [r \in Ranges |-> IF r = 0 THEN {Pending(1)}
                                          ELSE IF r = 24 /\ StatsOpen THEN {Pending(2)} ELSE {}]
        /\ page \in {"overview", "stats", "other"} /\ topbar = FALSE
        /\ ~(StatsOpen /\ ConsoleOpen)
    BY DEF Init, StatsOpen, ConsoleOpen
  <1> HIDE DEF first, second
  <1>5. FetchesOK(fetches)
    <2>1. IsFiniteSet(fetches)
      BY <1>4, FS_Singleton, FS_Union, FS_EmptySet, FS_AddElement
    <2> QED
      BY <1>2, <1>4, <2>1 DEF FetchesOK
  <1>6. CacheOK(statsCache, fetches)
    <2>1. statsCache \in [Ranges -> SUBSET EntryType]
      BY <1>3, <1>4
    <2>2. ASSUME NEW r \in Ranges, NEW e \in statsCache[r]
          PROVE  statsCache[r] = {e} /\ EntryOK(e, r, fetches)
      <3>1. CASE r = 0
        BY <1>2, <1>3, <1>4, <2>2, <3>1 DEF EntryOK
      <3>2. CASE r = 24 /\ StatsOpen
        BY <1>2, <1>3, <1>4, <2>2, <3>2 DEF EntryOK
      <3> QED
        BY <1>4, <2>2, <3>1, <3>2
    <2> QED
      BY <2>1, <2>2 DEF CacheOK
  <1>7. stats \in StatsType /\ PageInv
    <2>1. CASE ~StatsOpen
      BY <2>1, ClosedTyped DEF Init, PageInv
    <2>2. CASE StatsOpen
      <3>1. stats = [StatsClosed EXCEPT !.trends = TRUE]
        BY <2>2 DEF Init
      <3>2. /\ stats \in StatsType /\ stats.hours = 24 /\ stats.s = {} /\ stats.loading
            /\ ~stats.error /\ stats.hover = {}
        BY <1>1, <3>1 DEF StatsClosed, StatsType
      <3>3. Waiting = {second}
        BY <1>2, <1>4, <2>2 DEF Waiting
      <3>4. \A e \in statsCache[24] : e.state = "pending" /\ e.id = second.id
        BY <1>1, <1>2, <1>3, <1>4, <2>2
      <3>5. \E q : /\ Waiting = {q} /\ q.range = stats.hours
                   /\ \A e \in statsCache[stats.hours] : e.state = "pending" /\ e.id = q.id
        BY <1>2, <3>2, <3>3, <3>4
      <3> QED
        BY <2>2, <3>2, <3>5 DEF PageInv
    <2> QED
      BY <2>1, <2>2
  <1>8. console \in ConsoleType /\ ConsoleInv
    BY ClosedTyped, DrawingFields DEF Init, ConsoleInv
  <1>9. TypeOK
    BY <1>4, <1>5, <1>6, <1>7, <1>8 DEF TypeOK, FetchesOK, CacheOK
  <1> QED
    BY <1>5, <1>6, <1>7, <1>8, <1>9 DEF IInv, ClientInv

(* The conjunction is inductive: it holds in every reachable state.          *)
THEOREM Invariance == Spec => []IInv
  <1>1. Init => IInv
    BY InitStep
  <1>2. IInv /\ [Next]_vars => IInv'
    BY NextStep
  <1> QED
    BY <1>1, <1>2, PTL DEF Spec

-----------------------------------------------------------------------------
(* The cache, the fetches and the state of the pages keep their types.       *)
THEOREM TypeCorrect == Spec => []TypeOK
  <1>1. IInv => TypeOK
    BY DEF IInv
  <1> QED
    BY <1>1, Invariance, PTL

(* A promise of the cache has an answer, or one to come from a fetch of its  *)
(* own range: whatever failed, expired or was left (api.ts:308-319).         *)
THEOREM CacheIsServing == Spec => []CacheServes
  <1>1. IInv => CacheServes
    <2>1. ASSUME IInv, NEW r \in Ranges, NEW e \in statsCache[r]
          PROVE  /\ statsCache[r] = {e}
                 /\ \/ e.state = "ok" /\ e.answer # {}
                    \/ e.state = "pending" /\ \E q \in fetches : q.id = e.id /\ q.range = r
      <3>1. statsCache[r] = {e} /\ EntryOK(e, r, fetches)
        BY <2>1 DEF IInv, ClientInv, CacheOK
      <3> QED
        BY <3>1 DEF EntryOK
    <2> QED
      BY <2>1 DEF CacheServes
  <1> QED
    BY <1>1, Invariance, PTL

(* The statistics page loads only while a fetch of its window is on the way, *)
(* and otherwise shows tables or an error (Stats.tsx:179-200, 326-331).      *)
THEOREM StatsIsHonest == Spec => []StatsHonest
  <1>1. IInv => StatsHonest
    <2>1. SUFFICES ASSUME IInv
                   PROVE  StatsHonest
      OBVIOUS
    <2>2. CASE ~StatsOpen
      <3>1. stats = StatsClosed
        BY <2>1, <2>2 DEF IInv, PageInv
      <3> QED
        BY <2>2, <3>1, ClosedTyped DEF StatsHonest, StatsView
    <2>3. CASE StatsOpen
      <3>1. \A q \in fetches : "page" \in q.waiters <=> q \in Waiting
        BY DEF Waiting
      <3>2. Waiting \subseteq fetches
        BY DEF Waiting
      <3>3. ~stats.loading => Waiting = {} /\ (stats.error <=> stats.s = {})
        BY <2>1, <2>3 DEF IInv, PageInv
      <3>4. stats.loading => \E q \in fetches : Waiting = {q} /\ q.range = stats.hours
        BY <2>1, <2>3, <3>2 DEF IInv, PageInv
      <3>5. StatsView # "telemetry offline"
        BY <3>3 DEF StatsView
      <3> QED
        BY <3>1, <3>3, <3>4, <3>5 DEF StatsHonest
    <2> QED
      BY <2>2, <2>3
  <1> QED
    BY <1>1, Invariance, PTL

(* The viewport always tells of loading, of a failure or of an observation,  *)
(* and its button will be enabled again (Viewport.tsx:48-62, 99-102).        *)
THEOREM ViewportIsHonest == Spec => []ScreenHonest
  <1>1. IInv => ScreenHonest
    <2>1. IInv => console.detail \in {"none", "bare", "pictured"}
      BY DEF IInv, TypeOK, ConsoleType
    <2> QED
      BY <2>1 DEF IInv, ConsoleInv, ScreenHonest, Screen, Failing
  <1> QED
    BY <1>1, Invariance, PTL

(* The retry of an error sends a fetch of its own, unless the API did answer *)
(* for another window (api.ts:308-319, Stats.tsx:328).                       *)
THEOREM RetryFetches == Spec => RetryReachesServer
  <1> DEFINE Reaches == \/ \E q \in fetches' \ fetches : q.range = stats.hours /\ "page" \in q.waiters
                        \/ \E a \in Known(stats.hours) : a.window # stats.hours
  <1>1. IInv /\ StatsRetry => Reaches
    <2>1. SUFFICES ASSUME IInv, StatsRetry
                   PROVE  Reaches
      OBVIOUS
    <2>2. /\ StatsOpen /\ ~stats.loading /\ stats.error /\ CallStats(stats.hours)
          /\ ClientInv /\ PageInv /\ stats.hours \in Ranges
      BY <2>1 DEF StatsRetry, StatsView, IInv, TypeOK, StatsType
    <2>3. CASE statsCache[stats.hours] = {}
      <3>1. PICK q : Waiting' = {q} /\ q.range = stats.hours /\ q \in fetches' \ fetches
        BY <2>2, <2>3, CallMisses
      <3>2. "page" \in q.waiters
        BY <3>1 DEF Waiting
      <3> QED
        BY <3>1, <3>2
    <2>4. CASE statsCache[stats.hours] # {}
      <3>1. PICK e \in statsCache[stats.hours] : TRUE
        BY <2>4
      <3>2. e.state = "ok" /\ \A a \in e.answer : a.window # stats.hours
        BY <2>2, <3>1 DEF PageInv
      <3>3. statsCache[stats.hours] = {e} /\ EntryOK(e, stats.hours, fetches)
        BY <2>2, <3>1 DEF ClientInv, CacheOK
      <3>4. \E a : e.answer = {a}
        BY <3>2, <3>3 DEF EntryOK
      <3>5. Known(stats.hours) = e.answer
        BY <3>3 DEF Known
      <3> QED
        BY <3>2, <3>4, <3>5
    <2> QED
      BY <2>3, <2>4
  <1>2. IInv => [StatsRetry => Reaches]_<<page, stats, clientVars>>
    BY <1>1
  <1> QED
    BY <1>2, Invariance, PTL DEF RetryReachesServer

(* An observation stays on the screen until another has come, however many   *)
(* draws fail (Console.tsx:50-54, 175).                                      *)
THEOREM ObservationsStay == Spec => ObservationStays
  <1> DEFINE Stays == console.detail # "none" /\ ConsoleOpen' =>
                        /\ console'.detail # "none" /\ ~Failing'
                        /\ \/ console'.detail = console.detail
                           \/ console'.draws["signal"] < console.draws["signal"]
  <1>1. IInv /\ [Next]_vars => [Stays]_console
    <2>1. SUFFICES ASSUME IInv, [Next]_vars, console.detail # "none", ConsoleOpen',
                          console' # console
                   PROVE  /\ console'.detail # "none"
                          /\ \/ console'.detail = console.detail
                             \/ console'.draws["signal"] < console.draws["signal"]
      BY DEF Failing
    <2>2. ConsoleOpen /\ console \in ConsoleType
      BY <2>1 DEF IInv, TypeOK, ConsoleInv, ConsoleClosed
    <2>3. CASE \E p \in {"overview", "stats", "other"} : Follow(p)
      BY <2>1, <2>2, <2>3 DEF Follow, ConsoleOpen
    <2>4. CASE \E q \in fetches : StatsResult(q)
      <3>1. PICK q \in fetches : ConsoleHears(q)
        BY <2>1, <2>4 DEF StatsResult, StatsLost, StatsArrive
      <3>2. console' = [console EXCEPT !.totals = TRUE]
        BY <2>1, <3>1 DEF ConsoleHears
      <3>3. console'.detail = console.detail
        BY <2>2, <3>2 DEF ConsoleType
      <3> QED
        BY <2>1, <3>3
    <2>5. CASE ConsoleNext
      BY <2>1, <2>2, <2>5, ConsoleMoves
    <2> QED
      BY <2>1, <2>3, <2>4, <2>5 DEF Next, vars
  <1> QED
    BY <1>1, Invariance, PTL DEF Spec, ObservationStays

-----------------------------------------------------------------------------
(* What is on the page and in its charts, and not what it asks or knows. *)
LEMMA OwnKeeps ==
  ASSUME stats \in StatsType, TrendNext \/ \E on \in BOOLEAN : ChooseDensity(on)
  PROVE  /\ stats'.hours = stats.hours /\ stats'.s = stats.s
         /\ stats'.loading = stats.loading /\ stats'.error = stats.error
  <1>1. CASE \E stored \in Rollups : TrendsAnswer(stored)
    <2>1. PICK stored \in Rollups : TrendsAnswer(stored)
      BY <1>1
    <2> DEFINE st == [stats EXCEPT !.trends = FALSE, !.days = ReadDailyRollups(stored)]
    <2>2. /\ st \in StatsType /\ st.hours = stats.hours /\ st.s = stats.s
          /\ st.loading = stats.loading /\ st.error = stats.error
      BY DEF StatsType
    <2>3. stats' = Rendered(st)
      BY <2>1 DEF TrendsAnswer
    <2> HIDE DEF st
    <2> QED
      BY <2>2, <2>3, RenderedFields
  <1>2. CASE TrendsFail \/ PointAway \/ \E px \in Pointers : PointAt(px)
    BY <1>2 DEF TrendsFail, PointAway, PointAt, StatsType
  <1>3. CASE \E on \in BOOLEAN : ChooseDensity(on)
    BY <1>3 DEF ChooseDensity, StatsType
  <1> QED
    BY <1>1, <1>2, <1>3 DEF TrendNext

(* Nothing but the end of the fetch it waits for, another window or a retry  *)
(* changes what a statistics page shows.                                     *)
LEMMA StatsHeld ==
  ASSUME IInv, IInv', [Next]_vars, StatsOpen, StatsOpen', stats'.hours = stats.hours,
         stats.loading \/ ~stats.error
  PROVE  [Latest!Next]_(Latest!answerVars)
  <1>1. stats \in StatsType /\ PageInv /\ PageInv'
    BY DEF IInv, TypeOK
  <1>2. ASSUME stats'.s = stats.s, stats'.loading = stats.loading, stats'.error = stats.error
        PROVE  UNCHANGED Latest!answerVars
    BY <1>2 DEF Latest!answerVars
  <1>3. CASE \E p \in {"overview", "stats", "other"} : Follow(p)
    BY <1>3 DEF Follow, StatsOpen
  <1>4. CASE \E q \in fetches : StatsResult(q)
    <2>1. CASE stats' = stats
      BY <1>2, <2>1
    <2>2. CASE stats' # stats
      <3>1. PICK q \in fetches :
               /\ "page" \in q.waiters
               /\ stats' = Failed(stats) \/ \E a \in Answers : stats' = Settled(stats, a)
        BY <1>4, <2>2 DEF StatsResult, StatsLost, StatsMisses, StatsArrive, StatsHears
      <3>2. stats.loading /\ stats.s = {}
        BY <1>1, <3>1 DEF PageInv, Waiting
      <3>3. ~stats'.loading /\ stats'.s \subseteq Answers
        <4>1. CASE stats' = Failed(stats)
          BY <1>1, <4>1 DEF Failed, StatsType
        <4>2. CASE \E a \in Answers : stats' = Settled(stats, a)
          <5>1. PICK a \in Answers : stats' = Settled(stats, a)
            BY <4>2
          <5>2. ~stats'.loading /\ (stats'.s = {a} \/ stats'.s = stats.s)
            BY <1>1, <5>1, SettledFields
          <5> QED
            BY <3>2, <5>2
        <4> QED
          BY <3>1, <4>1, <4>2
      <3>4. CASE stats'.error
        <4>1. stats'.s = {}
          BY <1>1, <3>3, <3>4 DEF PageInv
        <4>2. Latest!Fail
          BY <3>2, <3>3, <3>4, <4>1 DEF Latest!Fail
        <4> QED
          BY <4>2 DEF Latest!Next
      <3>5. CASE ~stats'.error
        <4>1. PICK a \in stats'.s : stats'.s = {a} /\ a.window = stats.hours
          BY <1>1, <3>3, <3>5 DEF PageInv
        <4>2. {b.window : b \in stats'.s} = {stats.hours}
          BY <4>1
        <4>3. Latest!Answer
          BY <3>2, <3>3, <3>5, <4>2 DEF Latest!Answer
        <4> QED
          BY <4>3 DEF Latest!Next
      <3> QED
        BY <3>4, <3>5
    <2> QED
      BY <2>1, <2>2
  <1>5. CASE StatsSteps
    <2>1. CASE \E h \in Ranges : ChooseHours(h)
      <3>1. PICK h \in Ranges : ChooseHours(h)
        BY <2>1
      <3>2. stats'.hours = h
        BY <1>1, <3>1, AskStep DEF ChooseHours, IInv
      <3> QED
        BY <3>1, <3>2 DEF ChooseHours
    <2>2. CASE StatsRetry
      BY <2>2 DEF StatsRetry, StatsView
    <2>3. CASE TrendNext \/ \E on \in BOOLEAN : ChooseDensity(on)
      BY <1>1, <1>2, <2>3, OwnKeeps
    <2> QED
      BY <1>5, <2>1, <2>2, <2>3 DEF StatsSteps
  <1>6. CASE stats' = stats
    BY <1>2, <1>6
  <1> QED
    BY <1>3, <1>4, <1>5, <1>6 DEF Next, vars

(* The statistics page implements the abstract page that fetches: what is    *)
(* under a window is the answer for it, which stays while the window does.   *)
THEOREM StatsImplements == Spec => StatsLatest
  <1>1. Init => Latest!Init
    <2>1. SUFFICES ASSUME Init
                   PROVE  Latest!Init
      OBVIOUS
    <2>2. stats.hours = 24 /\ stats.s = {} /\ stats.loading
      BY <2>1 DEF Init, StatsClosed
    <2>3. 24 \in Ranges
      BY ClientAssumption
    <2> QED
      BY <2>2, <2>3 DEF Latest!Init, Latest!Closed
  <1>2. IInv /\ IInv' /\ [Next]_vars => [Latest!Next]_(Latest!answerVars)
    <2>1. ASSUME IInv', ~StatsOpen'
          PROVE  Latest!Leave
      <3>1. stats' = StatsClosed
        BY <2>1 DEF IInv, PageInv
      <3> QED
        BY <2>1, <3>1 DEF StatsClosed, Latest!Leave
    <2>2. ASSUME IInv', StatsOpen',
                 ~StatsOpen \/ stats'.hours # stats.hours \/ (~stats.loading /\ stats.error)
          PROVE  Latest!Look
      <3>1. stats'.hours \in Ranges /\ PageInv'
        BY <2>2 DEF IInv, TypeOK, StatsType
      <3>2. stats'.loading => {a.window : a \in stats'.s} = {}
        BY <2>2, <3>1 DEF PageInv
      <3>3. ~stats'.loading /\ stats'.error => {a.window : a \in stats'.s} = {}
        BY <2>2, <3>1 DEF PageInv
      <3>4. ~stats'.loading /\ ~stats'.error => {a.window : a \in stats'.s} = {stats'.hours}
        BY <2>2, <3>1 DEF PageInv
      <3> QED
        BY <2>2, <3>1, <3>2, <3>3, <3>4 DEF Latest!Look
    <2> QED
      BY <2>1, <2>2, StatsHeld DEF Latest!Next
  <1> QED
    BY <1>1, <1>2, Invariance, PTL DEF Spec, StatsLatest, Latest!Spec

-----------------------------------------------------------------------------
(* Sorting: nothing is lost, repeated or out of order.  A member's place is  *)
(* the number of members before it, which by counting takes every value.     *)
LEMMA ArrangedProperties ==
  ASSUME NEW S, IsFiniteSet(S), NEW order,
         \A i \in S : <<i, i>> \notin order,
         \A i, j \in S : i # j => <<i, j>> \in order \/ <<j, i>> \in order,
         \A h, i, j \in S : <<h, i>> \in order /\ <<i, j>> \in order => <<h, j>> \in order
  PROVE  /\ Arranged(S, order) \in Seq(S) /\ Len(Arranged(S, order)) = Cardinality(S)
         /\ \A i \in S : \E k \in 1 .. Cardinality(S) : Arranged(S, order)[k] = i
         /\ \A k, l \in 1 .. Cardinality(S) :
              k < l => <<Arranged(S, order)[k], Arranged(S, order)[l]>> \in order
  <1> DEFINE n == Cardinality(S)
             Before(i) == {j \in S : <<j, i>> \in order}
             place == [i \in S |-> Cardinality(Before(i))]
  <1>1. n \in Nat
    BY FS_CardinalityType
  <1>2. ASSUME NEW i \in S
        PROVE  IsFiniteSet(Before(i)) /\ Cardinality(Before(i)) \in 0 .. n - 1
    <2> DEFINE before == Before(i)
               others == S \ {i}
    <2>1. before \in SUBSET others
      OBVIOUS
    <2>2. IsFiniteSet(others) /\ Cardinality(others) = n - 1
      BY FS_RemoveElement
    <2> HIDE DEF before, others
    <2>3. IsFiniteSet(before) /\ Cardinality(before) <= n - 1
      BY <2>1, <2>2, FS_Subset
    <2>4. Cardinality(before) \in Nat
      BY <2>3, FS_CardinalityType
    <2>5. before = Before(i)
      BY DEF before
    <2> HIDE DEF Before
    <2> QED
      BY <1>1, <2>3, <2>4, <2>5
  <1>3. ASSUME NEW i \in S, NEW j \in S, <<i, j>> \in order
        PROVE  place[i] < place[j]
    <2>1. Before(i) \cup {i} \in SUBSET Before(j)
      BY <1>3
    <2>2. i \notin Before(i)
      OBVIOUS
    <2> HIDE DEF Before
    <2>3. /\ IsFiniteSet(Before(i)) /\ Cardinality(Before(i)) \in Int
          /\ IsFiniteSet(Before(j)) /\ Cardinality(Before(j)) \in Int
      BY <1>1, <1>2
    <2>4. Cardinality(Before(i) \cup {i}) = Cardinality(Before(i)) + 1
      BY <2>2, <2>3, FS_AddElement
    <2>5. Cardinality(Before(i) \cup {i}) <= Cardinality(Before(j))
      BY <2>1, <2>3, FS_Subset
    <2> QED
      BY <2>3, <2>4, <2>5
  <1>4. place \in [S -> 0 .. n - 1]
    BY <1>1, <1>2
  <1>5. \A i \in S : place[i] \in Int
    <2> HIDE DEF place, n
    <2> QED
      BY <1>1, <1>4
  <1>6. ASSUME NEW i \in S, NEW j \in S, place[i] = place[j]
        PROVE  i = j
    <2> HIDE DEF place
    <2>1. ~(<<i, j>> \in order) /\ ~(<<j, i>> \in order)
      BY <1>3, <1>5, <1>6
    <2> QED
      BY <2>1
  <1>7. \A p \in 0 .. n - 1 : \E i \in S : place[i] = p
    <2> DEFINE all == 0 .. n - 1
    <2> SUFFICES ASSUME NEW p \in all, \A i \in S : place[i] # p
                 PROVE  FALSE
      OBVIOUS
    <2> DEFINE others == all \ {p}
    <2>1. IsFiniteSet(all) /\ Cardinality(all) = n
      BY <1>1, FS_Interval
    <2>2. place \in [S -> others]
      BY <1>4
    <2> HIDE DEF all, place, n
    <2>3. IsFiniteSet(others) /\ Cardinality(others) = n - 1
      BY <2>1, FS_RemoveElement
    <2>4. Cardinality(others) < Cardinality(S)
      BY <1>1, <2>3 DEF n
    <2> HIDE DEF others
    <2>5. \E i, j \in S : i # j /\ place[i] = place[j]
      BY <2>2, <2>3, <2>4, FS_PigeonHole
    <2> QED
      BY <1>6, <2>5
  <1> DEFINE f == Arranged(S, order)
  <1>8. ASSUME NEW k \in 1 .. n
        PROVE  f[k] \in S /\ place[f[k]] = k - 1
    <2>1. f[k] = CHOOSE i \in S : Cardinality(Before(i)) = k - 1
      BY DEF Arranged
    <2>2. k - 1 \in 0 .. n - 1
      BY <1>1
    <2>3. \E i \in S : Cardinality(Before(i)) = k - 1
      BY <1>7, <2>2
    <2> HIDE DEF Before, f
    <2> QED
      BY <2>1, <2>3
  <1>9. f \in [1 .. n -> S]
    BY <1>8 DEF Arranged
  <1>10. \A k \in 1 .. n : k \in Int
    BY <1>1
  <1> HIDE DEF place, f, n
  <1>11. ASSUME NEW k \in 1 .. n, NEW l \in 1 .. n, k < l
         PROVE  <<f[k], f[l]>> \in order
    <2>1. f[k] \in S /\ f[l] \in S /\ place[f[k]] = k - 1 /\ place[f[l]] = l - 1
      BY <1>8
    <2>2. k \in Int /\ l \in Int
      BY <1>10
    <2>3. f[k] # f[l]
      BY <1>11, <2>1, <2>2
    <2>4. <<f[l], f[k]>> \in order => l - 1 < k - 1
      BY <1>3, <2>1
    <2> QED
      BY <1>11, <2>1, <2>2, <2>3, <2>4
  <1>12. ASSUME NEW i \in S
         PROVE  \E k \in 1 .. n : f[k] = i
    <2>1. PICK k : k = place[i] + 1
      OBVIOUS
    <2>2. k \in 1 .. n /\ k - 1 = place[i]
      BY <1>1, <1>4, <1>5, <2>1
    <2>3. f[k] \in S /\ place[f[k]] = k - 1
      BY <1>8, <2>2
    <2> QED
      BY <1>6, <2>2, <2>3
  <1>13. f \in Seq(S) /\ Len(f) = n
    BY <1>1, <1>9
  <1> QED
    BY <1>11, <1>12, <1>13 DEF f, n

LEMMA InOrderProperties ==
  ASSUME NEW S \in SUBSET Int, IsFiniteSet(S)
  PROVE  /\ InOrder(S) \in Seq(S) /\ Len(InOrder(S)) = Cardinality(S)
         /\ \A i \in S : \E k \in 1 .. Cardinality(S) : InOrder(S)[k] = i
         /\ \A k, l \in 1 .. Cardinality(S) : k < l => InOrder(S)[k] < InOrder(S)[l]
  <1> DEFINE order == {p \in S \X S : p[1] < p[2]}
             f == Arranged(S, order)
             n == Cardinality(S)
  <1>1. \A i, j \in S : i \in Int /\ (<<i, j>> \in order <=> i < j)
    OBVIOUS
  <1> HIDE DEF order
  <1>2. /\ \A i \in S : <<i, i>> \notin order
        /\ \A i, j \in S : i # j => <<i, j>> \in order \/ <<j, i>> \in order
        /\ \A h, i, j \in S : <<h, i>> \in order /\ <<i, j>> \in order => <<h, j>> \in order
    BY <1>1
  <1>3. /\ f \in Seq(S) /\ Len(f) = n
        /\ \A i \in S : \E k \in 1 .. n : f[k] = i
        /\ \A k, l \in 1 .. n : k < l => <<f[k], f[l]>> \in order
    BY <1>2, ArrangedProperties
  <1> HIDE DEF f, n
  <1>4. \A k \in 1 .. n : f[k] \in S
    BY <1>3, LenProperties
  <1>5. \A k, l \in 1 .. n : k < l => f[k] < f[l]
    BY <1>1, <1>3, <1>4
  <1> QED
    BY <1>3, <1>5 DEF InOrder, order, f, n

LEMMA LeastOf ==
  ASSUME NEW S \in SUBSET Int, IsFiniteSet(S), S # {}
  PROVE  \E m \in S : \A i \in S : m <= i
  <1> DEFINE n == Cardinality(S)
             f == InOrder(S)
  <1>1. n \in Nat /\ n > 0
    BY FS_CardinalityType, FS_EmptySet
  <1>2. /\ f \in Seq(S) /\ Len(f) = n
        /\ \A i \in S : \E k \in 1 .. n : f[k] = i
        /\ \A k, l \in 1 .. n : k < l => f[k] < f[l]
    BY InOrderProperties
  <1>3. \A i \in S : i \in Int
    OBVIOUS
  <1> HIDE DEF n, f
  <1>4. \A k \in 1 .. n : f[k] \in S
    BY <1>2, LenProperties
  <1>5. 1 \in 1 .. n /\ \A k \in 1 .. n : k = 1 \/ 1 < k
    BY <1>1
  <1>6. ASSUME NEW i \in S
        PROVE  f[1] <= i
    <2>1. PICK k \in 1 .. n : f[k] = i
      BY <1>2
    <2>2. f[1] \in Int /\ i \in Int
      BY <1>3, <1>4, <1>5
    <2>3. k = 1 \/ f[1] < f[k]
      BY <1>2, <1>5
    <2> QED
      BY <2>1, <2>2, <2>3
  <1> QED
    BY <1>4, <1>5, <1>6

(* A strictly increasing list is the ordering of its members. *)
LEMMA SameOrder ==
  ASSUME NEW n \in Nat, NEW f \in [1 .. n -> Int],
         \A k, l \in 1 .. n : k < l => f[k] < f[l]
  PROVE  /\ {f[k] : k \in 1 .. n} \in SUBSET Int /\ IsFiniteSet({f[k] : k \in 1 .. n})
         /\ Cardinality({f[k] : k \in 1 .. n}) = n
         /\ DOMAIN InOrder({f[k] : k \in 1 .. n}) = 1 .. n
         /\ \A j \in 1 .. n : InOrder({f[k] : k \in 1 .. n})[j] = f[j]
  <1> DEFINE S == {f[k] : k \in 1 .. n}
             g == InOrder(S)
             m == Cardinality(S)
             Off == {k \in 1 .. n : g[k] # f[k]}
  <1>1. \A k \in 1 .. n : k \in Int /\ f[k] \in Int /\ f[k] \in S
    OBVIOUS
  <1>2. ASSUME NEW k \in 1 .. n, NEW l \in 1 .. n, f[k] = f[l]
        PROVE  k = l
    <2>1. (k < l => f[k] < f[l]) /\ (l < k => f[l] < f[k])
      OBVIOUS
    <2>2. k \in Int /\ l \in Int /\ f[k] \in Int
      BY <1>1
    <2> QED
      BY <1>2, <2>1, <2>2
  <1>3. \A x \in S : \E k \in 1 .. n : f[k] = x
    OBVIOUS
  <1>4. S \in SUBSET Int
    OBVIOUS
  <1> HIDE DEF S
  <1>5. IsFiniteSet(S) /\ m = n
    <2>1. f \in Bijection(1 .. n, S)
      BY <1>1, <1>2, <1>3 DEF Bijection, Injection, Surjection, IsInjective
    <2>2. ExistsBijection(1 .. n, S)
      BY <2>1 DEF ExistsBijection
    <2>3. IsFiniteSet(1 .. n) /\ Cardinality(1 .. n) = n
      BY FS_Interval
    <2> QED
      BY <2>2, <2>3, FS_Bijection
  <1>6. /\ g \in Seq(S) /\ Len(g) = n
        /\ \A x \in S : \E k \in 1 .. n : g[k] = x
        /\ \A k, l \in 1 .. n : k < l => g[k] < g[l]
    BY <1>4, <1>5, InOrderProperties
  <1> HIDE DEF g
  <1>7. DOMAIN g = 1 .. n /\ \A k \in 1 .. n : g[k] \in S /\ g[k] \in Int
    <2>1. DOMAIN g = 1 .. n /\ \A k \in 1 .. n : g[k] \in S
      BY <1>6, LenProperties
    <2> QED
      BY <1>4, <2>1
  <1>8. Off = {}
    <2> SUFFICES ASSUME Off # {}
                 PROVE  FALSE
      OBVIOUS
    <2>1. Off \in SUBSET Int /\ IsFiniteSet(Off)
      <3>1. IsFiniteSet(1 .. n) /\ Off \in SUBSET (1 .. n)
        BY FS_Interval
      <3> QED
        BY <1>1, <3>1, FS_Subset
    <2>2. \A k : k \in Off <=> k \in 1 .. n /\ g[k] # f[k]
      OBVIOUS
    <2> HIDE DEF Off
    <2>3. PICK k \in Off : \A j \in Off : k <= j
      BY <2>1, LeastOf
    <2>4. k \in 1 .. n /\ g[k] # f[k] /\ k \in Int
      BY <1>1, <2>2
    <2>5. \A j \in 1 .. n : j < k => g[j] = f[j]
      BY <1>1, <2>2, <2>3, <2>4
    <2>6. PICK l \in 1 .. n : g[l] = f[k]
      BY <1>1, <1>6, <2>4
    <2>7. PICK h \in 1 .. n : f[h] = g[k]
      BY <1>3, <1>7, <2>4
    <2>8. l # k /\ h # k
      BY <2>4, <2>6, <2>7
    <2>9. ~(l < k)
      BY <1>2, <2>4, <2>5, <2>6, <2>8
    <2>10. ~(h < k)
      <3>1. SUFFICES ASSUME h < k
                     PROVE  FALSE
        OBVIOUS
      <3>2. g[h] = g[k] /\ g[h] < g[k]
        BY <1>6, <2>4, <2>5, <2>7, <3>1
      <3> QED
        BY <1>7, <2>4, <3>2
    <2>11. k < l /\ k < h
      BY <1>1, <2>4, <2>8, <2>9, <2>10
    <2>12. g[k] < g[l] /\ f[k] < f[h]
      BY <1>6, <2>4, <2>11
    <2> QED
      BY <1>1, <1>7, <2>4, <2>6, <2>7, <2>12
  <1>9. \A k \in 1 .. n : g[k] = f[k]
    BY <1>8
  <1> QED
    BY <1>4, <1>5, <1>7, <1>9 DEF S, g

-----------------------------------------------------------------------------
(* What the trend is drawn from: the last days stored, in order. *)
LEMMA SmallerOf ==
  ASSUME NEW m \in Nat, NEW n \in Nat
  PROVE  Smaller(m, n) \in Nat /\ Smaller(m, n) <= m /\ Smaller(m, n) <= n
         /\ (Smaller(m, n) = m \/ Smaller(m, n) = n)
  BY DEF Smaller

LEMMA LatestDays ==
  ASSUME NEW stored, DOMAIN stored \in SUBSET Int, IsFiniteSet(DOMAIN stored)
  PROVE  /\ Len(ReadDailyRollups(stored)) \in Nat /\ Len(ReadDailyRollups(stored)) <= DAYS
         /\ DOMAIN ReadDailyRollups(stored) = 1 .. Len(ReadDailyRollups(stored))
         /\ \A i \in DOMAIN ReadDailyRollups(stored) :
              /\ ReadDailyRollups(stored)[i].date \in DOMAIN stored
              /\ ReadDailyRollups(stored)[i].row = stored[ReadDailyRollups(stored)[i].date]
         /\ \A i, j \in DOMAIN ReadDailyRollups(stored) :
              i < j => ReadDailyRollups(stored)[i].date < ReadDailyRollups(stored)[j].date
         /\ \A date \in DOMAIN stored :
              \/ \E i \in DOMAIN ReadDailyRollups(stored) : date = ReadDailyRollups(stored)[i].date
              \/ /\ Len(ReadDailyRollups(stored)) = DAYS
                 /\ \A i \in DOMAIN ReadDailyRollups(stored) :
                      date < ReadDailyRollups(stored)[i].date
  <1> DEFINE S == DOMAIN stored
             dates == InOrder(S)
             n == Cardinality(S)
             m == Smaller(DAYS, n)
             skip == n - m
             days == ReadDailyRollups(stored)
  <1>1. n \in Nat
    BY FS_CardinalityType
  <1>2. /\ dates \in Seq(S) /\ Len(dates) = n
        /\ \A x \in S : \E k \in 1 .. n : dates[k] = x
        /\ \A k, l \in 1 .. n : k < l => dates[k] < dates[l]
    BY InOrderProperties
  <1>3. days = [i \in 1 .. m |-> [date |-> dates[skip + i], row |-> stored[dates[skip + i]]]]
    BY <1>2 DEF ReadDailyRollups
  <1> HIDE DEF S, dates, n, days
  <1>4. m \in Nat /\ m <= DAYS /\ m <= n /\ (m = DAYS \/ m = n)
    BY <1>1, SmallerOf, TrendAssumption
  <1> HIDE DEF m
  <1>5. \A i \in 1 .. m : i \in Int /\ skip + i \in 1 .. n /\ skip + i \in Int
    BY <1>1, <1>4
  <1>6. skip \in Nat /\ (skip # 0 => m = DAYS)
    BY <1>1, <1>4
  <1>7. skip + m = n
    BY <1>1, <1>4
  <1>8. \A k \in 1 .. n : dates[k] \in S
    BY <1>2, LenProperties
  <1>9. DOMAIN days = 1 .. m /\ Len(days) = m
    <2> DEFINE shown == {days[i] : i \in 1 .. m}
    <2>1. DOMAIN days = 1 .. m
      BY <1>3
    <2>2. days = [i \in 1 .. m |-> days[i]]
      BY <1>3
    <2>3. days \in [1 .. m -> shown]
      BY <2>2
    <2> HIDE DEF shown
    <2>4. days \in Seq(shown)
      BY <1>4, <2>3
    <2>5. Len(days) = m
      BY <1>4, <2>1, <2>4, LenProperties
    <2> QED
      BY <2>1, <2>5
  <1>10. \A i \in 1 .. m : days[i].date = dates[skip + i] /\ days[i].row = stored[dates[skip + i]]
    BY <1>3
  <1>11. \A i, j \in 1 .. m : i < j => days[i].date < days[j].date
    <2> SUFFICES ASSUME NEW i \in 1 .. m, NEW j \in 1 .. m, i < j
                 PROVE  days[i].date < days[j].date
      OBVIOUS
    <2>1. skip + i < skip + j
      BY <1>5, <1>6
    <2> QED
      BY <1>2, <1>5, <1>10, <2>1
  <1>12. ASSUME NEW date \in S, \A i \in 1 .. m : date # days[i].date
         PROVE  m = DAYS /\ \A i \in 1 .. m : date < days[i].date
    <2>1. PICK k \in 1 .. n : dates[k] = date
      BY <1>2
    <2>2. k \in Int
      BY <1>1
    <2>3. k <= skip
      <3>1. SUFFICES ASSUME ~(k <= skip)
                     PROVE  FALSE
        OBVIOUS
      <3>2. k - skip \in 1 .. m /\ skip + (k - skip) = k
        BY <1>1, <1>4, <1>6, <1>7, <2>2, <3>1
      <3> DEFINE i == k - skip
      <3>3. i \in 1 .. m /\ dates[skip + i] = date
        BY <2>1, <3>2
      <3> HIDE DEF i
      <3> QED
        BY <1>10, <1>12, <3>3
    <2>4. m = DAYS
      BY <1>6, <2>2, <2>3
    <2>5. ASSUME NEW i \in 1 .. m
          PROVE  date < days[i].date
      <3>1. k < skip + i
        BY <1>5, <1>6, <2>2, <2>3
      <3> QED
        BY <1>2, <1>5, <1>10, <2>1, <3>1
    <2> QED
      BY <2>4, <2>5
  <1>13. \A i \in 1 .. m : days[i].date \in S /\ days[i].row = stored[days[i].date]
    BY <1>5, <1>8, <1>10
  <1> QED
    BY <1>4, <1>9, <1>11, <1>12, <1>13 DEF S, days

(* Days as the page has them. *)
DaysOK(days) ==
  /\ Len(days) \in Nat /\ Len(days) <= DAYS /\ DOMAIN days = 1 .. Len(days)
  /\ \A i \in DOMAIN days : /\ days[i].date \in Int
                            /\ days[i].row \in [flagged : Nat, cleartext : Nat, secure : Nat]
  /\ \A i, j \in DOMAIN days : i < j => days[i].date < days[j].date

Dates(days) == {days[i].date : i \in DOMAIN days}

(* A series has a value for each day, its own. *)
LEMMA SeriesOf ==
  ASSUME NEW days, DaysOK(days)
  PROVE  /\ DOMAIN AtRiskSeries(days) = Dates(days)
         /\ DOMAIN CleartextSeries(days) = Dates(days)
         /\ \A i \in DOMAIN days : AtRiskSeries(days)[days[i].date] = days[i].row.flagged
  <1>1. ToSet(days) = {days[i] : i \in DOMAIN days}
    BY DEF ToSet
  <1>2. {d.date : d \in ToSet(days)} = Dates(days)
    BY <1>1 DEF Dates
  <1>3. ASSUME NEW i \in DOMAIN days, NEW j \in DOMAIN days, days[i].date = days[j].date
        PROVE  i = j
    <2>1. i \in Int /\ j \in Int /\ days[i].date \in Int
      BY DEF DaysOK
    <2>2. ~(i < j) /\ ~(j < i)
      BY <1>3, <2>1 DEF DaysOK
    <2> QED
      BY <2>1, <2>2
  <1>4. ASSUME NEW i \in DOMAIN days
        PROVE  (CHOOSE d \in ToSet(days) : d.date = days[i].date) = days[i]
    BY <1>1, <1>3
  <1>5. ASSUME NEW i \in DOMAIN days
        PROVE  AtRiskSeries(days)[days[i].date] = days[i].row.flagged
    <2>1. days[i].date \in {d.date : d \in ToSet(days)}
      BY <1>1
    <2> QED
      BY <1>4, <2>1 DEF AtRiskSeries
  <1> QED
    BY <1>2, <1>5 DEF AtRiskSeries, CleartextSeries

(* The points of a chart are the days, from left to right. *)
LEMMA PointsOf ==
  ASSUME NEW days, DaysOK(days), NEW data, DOMAIN data = Dates(days)
  PROVE  /\ Len(ChartPoints(data)) = Len(days)
         /\ DOMAIN ChartPoints(data) = DOMAIN days
         /\ \A i \in DOMAIN days : /\ ChartPoints(data)[i].label = days[i].date
                                   /\ ChartPoints(data)[i].value = data[days[i].date]
  <1> DEFINE n == Len(days)
             f == [i \in 1 .. n |-> days[i].date]
             S == {f[i] : i \in 1 .. n}
             points == ChartPoints(data)
             shown == {points[i] : i \in 1 .. n}
  <1>1. n \in Nat /\ DOMAIN days = 1 .. n
    BY DEF DaysOK
  <1>2. f \in [1 .. n -> Int] /\ \A i \in 1 .. n : f[i] = days[i].date
    BY <1>1 DEF DaysOK
  <1>3. Dates(days) = S
    BY <1>1 DEF Dates
  <1>4. \A k, l \in 1 .. n : k < l => f[k] < f[l]
    BY <1>1, <1>2 DEF DaysOK
  <1> HIDE DEF n, f
  <1>5. DOMAIN InOrder(S) = 1 .. n /\ \A k \in 1 .. n : InOrder(S)[k] = f[k]
    BY <1>1, <1>2, <1>4, SameOrder
  <1> HIDE DEF S
  <1>6. points = [i \in 1 .. n |-> [label |-> InOrder(S)[i], value |-> data[InOrder(S)[i]]]]
    BY <1>3, <1>5 DEF ChartPoints
  <1>7. DOMAIN points = 1 .. n
        /\ \A i \in 1 .. n : points[i].label = f[i] /\ points[i].value = data[f[i]]
    BY <1>5, <1>6
  <1>8. points \in [1 .. n -> shown]
    BY <1>6
  <1> HIDE DEF points, shown
  <1>9. points \in Seq(shown)
    BY <1>1, <1>8
  <1>10. Len(points) = n
    BY <1>1, <1>7, <1>9, LenProperties
  <1> QED
    BY <1>1, <1>2, <1>7, <1>10 DEF n, points

LEMMA GreatestOf ==
  ASSUME NEW S \in SUBSET Int, IsFiniteSet(S), S # {}
  PROVE  Max(S) \in S /\ \A i \in S : i <= Max(S)
  <1> DEFINE n == Cardinality(S)
             f == InOrder(S)
  <1>1. n \in Nat /\ n > 0
    BY FS_CardinalityType, FS_EmptySet
  <1>2. /\ f \in Seq(S) /\ Len(f) = n
        /\ \A i \in S : \E k \in 1 .. n : f[k] = i
        /\ \A k, l \in 1 .. n : k < l => f[k] < f[l]
    BY InOrderProperties
  <1>3. \A i \in S : i \in Int
    OBVIOUS
  <1> HIDE DEF n, f
  <1>4. \A k \in 1 .. n : f[k] \in S
    BY <1>2, LenProperties
  <1>5. n \in 1 .. n /\ \A k \in 1 .. n : k = n \/ k < n
    BY <1>1
  <1>6. ASSUME NEW i \in S
        PROVE  f[n] >= i
    <2>1. PICK k \in 1 .. n : f[k] = i
      BY <1>2
    <2>2. f[n] \in Int /\ i \in Int
      BY <1>3, <1>4, <1>5
    <2>3. k = n \/ f[k] < f[n]
      BY <1>2, <1>5
    <2> QED
      BY <2>1, <2>2, <2>3
  <1>7. \E x \in S : \A y \in S : x >= y
    BY <1>4, <1>5, <1>6
  <1>8. Max(S) \in S /\ \A y \in S : Max(S) >= y
    BY <1>7 DEF Max
  <1> QED
    BY <1>3, <1>8

-----------------------------------------------------------------------------
(* Whole numbers. *)
LEMMA DivFacts ==
  ASSUME NEW x \in Int, NEW d \in Nat \ {0}
  PROVE  x \div d \in Int /\ d * (x \div d) <= x /\ x < d * (x \div d) + d
  OBVIOUS

LEMMA Times ==
  ASSUME NEW d \in Nat \ {0}, NEW a \in Int, NEW b \in Int
  PROVE  /\ d * a \in Int /\ d * (a + b) = d * a + d * b /\ d * (a - b) = d * a - d * b
         /\ (a < b <=> d * a < d * b) /\ (a <= b <=> d * a <= d * b)
  OBVIOUS

(* Points lie in the frame, each to the right of the one before. *)
LEMMA PlacesInFrame ==
  ASSUME NEW m \in Nat \ {0}, m <= WIDTH, NEW a \in 0 .. m
  PROVE  /\ (a * WIDTH) \div m \in 0 .. WIDTH
         /\ \A b \in 0 .. m : a < b => (a * WIDTH) \div m < (b * WIDTH) \div m
  <1> DEFINE q == (a * WIDTH) \div m
  <1>1. a \in Int /\ m \in Int /\ a * WIDTH \in Int /\ 0 <= a /\ a <= m
    BY DEF WIDTH
  <1>2. q \in Int /\ m * q <= a * WIDTH /\ a * WIDTH < m * q + m
    BY <1>1, DivFacts
  <1> HIDE DEF q
  <1>3. 0 <= a * WIDTH /\ a * WIDTH <= m * WIDTH
    BY <1>1 DEF WIDTH
  <1>4. q \in 0 .. WIDTH
    <2>1. m * (q + 1) = m * q + m
      BY <1>1, <1>2
    <2>2. 0 < m * (q + 1) /\ m * q <= m * WIDTH
      BY <1>1, <1>2, <1>3, <2>1 DEF WIDTH
    <2>3. m * 0 < m * (q + 1)
      BY <2>2
    <2>4. 0 < q + 1
      BY <1>2, <2>3, Times
    <2>5. q <= WIDTH
      BY <1>2, <2>2, Times DEF WIDTH
    <2> QED
      BY <1>2, <2>4, <2>5 DEF WIDTH
  <1>5. ASSUME NEW b \in 0 .. m, a < b
        PROVE  q < (b * WIDTH) \div m
    <2> DEFINE r == (b * WIDTH) \div m
    <2>1. b \in Int /\ b * WIDTH \in Int
      BY <1>1 DEF WIDTH
    <2>2. r \in Int /\ b * WIDTH < m * r + m
      BY <1>1, <2>1, DivFacts
    <2> HIDE DEF r
    <2>3. b * WIDTH >= a * WIDTH + WIDTH
      BY <1>1, <1>5, <2>1 DEF WIDTH
    <2>4. m * q + m < m * r + m
      BY <1>1, <1>2, <2>1, <2>2, <2>3 DEF WIDTH
    <2>5. m * q < m * r
      BY <1>1, <1>2, <2>2, <2>4
    <2>6. q < r
      BY <1>2, <2>2, <2>5, Times
    <2> QED
      BY <2>6 DEF r
  <1> QED
    BY <1>4, <1>5 DEF q

LEMMA LargerOf ==
  ASSUME NEW m \in Int, NEW n \in Int
  PROVE  Max({m, n}) = IF m <= n THEN n ELSE m
  <1> DEFINE larger == IF m <= n THEN n ELSE m
  <1>1. larger \in {m, n} /\ \A y \in {m, n} : larger >= y
    OBVIOUS
  <1>2. \A x \in {m, n} : (\A y \in {m, n} : x >= y) => x = larger
    OBVIOUS
  <1> QED
    BY <1>1, <1>2 DEF Max

Size(n) == IF n > 0 THEN n ELSE -n

(* The rounded place of a pointer among m + 1 evenly spaced points is that   *)
(* of the nearest point, but for the rounding of the points themselves.      *)
LEMMA NearestPlace ==
  ASSUME NEW m \in Nat \ {0}, NEW u \in Int, NEW k \in 0 .. m, NEW p \in 0 .. m,
         NEW i, i = (2 * u * m + WIDTH) \div (2 * WIDTH),
         p = IF i < 0 THEN 0 ELSE IF i < m THEN i ELSE m
  PROVE  Size(u - (p * WIDTH) \div m) <= Size(u - (k * WIDTH) \div m) + 1
  <1> DEFINE w == m * u
             x == (p * WIDTH) \div m
             y == (k * WIDTH) \div m
             A == w - p * WIDTH
             B == w - k * WIDTH
             s == u - x
             t == u - y
  <1>1. m \in Int /\ m > 0 /\ p \in Int /\ k \in Int /\ 0 <= k /\ k <= m /\ 0 <= p /\ p <= m
    OBVIOUS
  <1>2. w \in Int /\ 2 * u * m = 2 * w
    OBVIOUS
  <1>3. p * WIDTH \in Int /\ k * WIDTH \in Int
    BY <1>1 DEF WIDTH
  <1>4. /\ x \in Int /\ m * x <= p * WIDTH /\ p * WIDTH < m * x + m
        /\ y \in Int /\ m * y <= k * WIDTH /\ k * WIDTH < m * y + m
    BY <1>1, <1>3, DivFacts
  <1> HIDE DEF x, y
  <1>5. i \in Int /\ 2 * WIDTH * i <= 2 * w + WIDTH /\ 2 * w + WIDTH < 2 * WIDTH * i + 2 * WIDTH
    <2> DEFINE v == 2 * w + WIDTH
    <2>1. i = v \div 1184 /\ v \in Int /\ 1184 \in Nat \ {0}
      BY <1>2 DEF WIDTH
    <2> HIDE DEF v
    <2>2. i \in Int /\ 1184 * i <= v /\ v < 1184 * i + 1184
      BY <2>1, DivFacts
    <2> QED
      BY <2>2 DEF v, WIDTH
  <1>6. m * s = w - m * x /\ m * t = w - m * y /\ m * s \in Int /\ m * t \in Int
    BY <1>4, Times
  <1> HIDE DEF w
  <1>7. Size(A) <= Size(B)
    BY <1>1, <1>2, <1>5 DEF WIDTH, Size
  <1>8. /\ m * x \in Int /\ m * y \in Int /\ A \in Int /\ B \in Int
        /\ A <= m * s /\ m * s < A + m
        /\ B <= m * t /\ m * t < B + m
    BY <1>1, <1>2, <1>3, <1>4, <1>6, Times
  <1>9. s \in Int /\ t \in Int
    BY <1>4
  <1> HIDE DEF A, B, s, t
  <1>10. /\ m * Size(s) = Size(m * s) /\ m * Size(t) = Size(m * t)
         /\ Size(s) \in Nat /\ Size(t) \in Nat
    <2>1. ASSUME NEW n \in Int
          PROVE  m * Size(n) = Size(m * n) /\ Size(n) \in Nat
      <3>1. m * (-n) = -(m * n) /\ m * n \in Int
        OBVIOUS
      <3>2. n > 0 <=> m * n > 0
        BY Times
      <3> QED
        BY <3>1, <3>2 DEF Size
    <2> QED
      BY <1>9, <2>1
  <1>11. Size(m * s) < Size(m * t) + 2 * m
    BY <1>1, <1>6, <1>7, <1>8 DEF Size
  <1>12. m * (Size(t) + 2) = m * Size(t) + 2 * m
    BY <1>1, <1>10
  <1>13. m * Size(s) < m * (Size(t) + 2)
    BY <1>10, <1>11, <1>12
  <1>14. Size(s) < Size(t) + 2
    BY <1>10, <1>13, Times
  <1> QED
    BY <1>10, <1>14 DEF s, t, x, y

(* A value's height is in the frame. *)
LEMMA HeightInFrame ==
  ASSUME NEW max \in Nat \ {0}, NEW v \in 0 .. max
  PROVE  TOP + HEIGHT - (v * HEIGHT) \div max \in TOP .. TOP + HEIGHT
  <1> DEFINE q == (v * HEIGHT) \div max
  <1>1. v \in Int /\ v * HEIGHT \in Int /\ 0 <= v * HEIGHT
    BY DEF HEIGHT
  <1>2. v * HEIGHT <= max * HEIGHT
    BY DEF HEIGHT
  <1>3. q \in Int /\ max * q <= v * HEIGHT /\ v * HEIGHT < max * q + max
    BY <1>1, DivFacts
  <1> HIDE DEF q
  <1>4. max * q \in Int /\ max * (q + 1) = max * q + max /\ max * 0 = 0 /\ max * HEIGHT \in Int
    BY <1>3 DEF HEIGHT
  <1>5. max * q <= max * HEIGHT /\ max * 0 < max * (q + 1)
    BY <1>1, <1>2, <1>3, <1>4
  <1>6. q <= HEIGHT /\ 0 < q + 1
    <2>1. q \in Int /\ HEIGHT \in Int /\ q + 1 \in Int /\ 0 \in Int
      BY <1>3 DEF HEIGHT
    <2> QED
      BY <1>5, <2>1, Times
  <1>7. TOP + HEIGHT - q \in TOP .. TOP + HEIGHT
    BY <1>3, <1>6 DEF TOP, HEIGHT
  <1> QED
    BY <1>7 DEF q

LEMMA ChartHeights ==
  ASSUME NEW points, NEW n \in Nat, DOMAIN points = 1 .. n,
         \A i \in 1 .. n : points[i].value \in Nat
  PROVE  \A i \in 1 .. n : ChartY(points, i) \in TOP .. TOP + HEIGHT
  <1> DEFINE values == {points[j].value : j \in 1 .. n}
             all == values \cup {1}
             f == [j \in 1 .. n |-> points[j].value]
  <1>1. IsFiniteSet(values)
    <2>1. f \in Surjection(1 .. n, values)
      BY DEF Surjection
    <2>2. IsFiniteSet(1 .. n)
      BY FS_Interval
    <2> HIDE DEF f, values
    <2> QED
      BY <2>1, <2>2, FS_Surjection
  <1>2. values \in SUBSET Nat /\ \A i \in 1 .. n : points[i].value \in values
    OBVIOUS
  <1> HIDE DEF values
  <1>3. all \in SUBSET Int /\ 1 \in all /\ IsFiniteSet(all)
    BY <1>1, <1>2, FS_AddElement
  <1>4. all # {} /\ \A x \in all : x \in Nat
    BY <1>2
  <1> HIDE DEF all
  <1>5. Max(all) \in all /\ \A x \in all : x <= Max(all)
    BY <1>3, <1>4, GreatestOf
  <1>6. Max(all) \in Nat \ {0}
    <2>1. Max(all) \in Nat /\ 1 <= Max(all)
      BY <1>3, <1>4, <1>5
    <2> QED
      BY <2>1
  <1>7. ASSUME NEW i \in 1 .. n
        PROVE  ChartY(points, i) \in TOP .. TOP + HEIGHT
    <2>1. points[i].value \in 0 .. Max(all)
      BY <1>2, <1>5, <1>6 DEF all
    <2>2. TOP + HEIGHT - (points[i].value * HEIGHT) \div Max(all) \in TOP .. TOP + HEIGHT
      BY <1>6, <2>1, HeightInFrame
    <2> QED
      BY <2>2 DEF ChartY, all, values
  <1> QED
    BY <1>7

(* Points of a chart of n days, from left to right. *)
LEMMA ChartPlaces ==
  ASSUME NEW n \in Nat, n >= 2, n <= WIDTH, NEW points, Len(points) = n
  PROVE  /\ \A i \in 1 .. n : ChartX(points, i) \in LEFT .. LEFT + WIDTH
         /\ \A i, j \in 1 .. n : i < j => ChartX(points, i) < ChartX(points, j)
         /\ \A px \in Int : Nearest(n, px) \in 1 .. n
         /\ \A i \in 1 .. n, px \in Int :
              Size(px - ChartX(points, Nearest(n, px))) <= Size(px - ChartX(points, i)) + 1
  <1> DEFINE m == n - 1
             Place(a) == (a * WIDTH) \div m
  <1>1. m \in Nat \ {0} /\ m <= WIDTH /\ m \in Int
    BY DEF WIDTH
  <1>2. \A i : ChartX(points, i) = LEFT + Place(i - 1)
    BY DEF ChartX
  <1>3. \A i \in 1 .. n : i \in Int /\ i - 1 \in 0 .. m /\ i - 1 \in Int
    OBVIOUS
  <1> HIDE DEF m, Place
  <1>4. /\ \A a \in 0 .. m : Place(a) \in 0 .. WIDTH
        /\ \A a, b \in 0 .. m : a < b => Place(a) < Place(b)
    BY <1>1, PlacesInFrame DEF Place
  <1>5. \A a \in 0 .. m : Place(a) \in Int
    <2>1. \A v \in 0 .. WIDTH : v \in Int /\ LEFT + v \in LEFT .. LEFT + WIDTH
      BY DEF LEFT, WIDTH
    <2> QED
      BY <1>4, <2>1
  <1>6. ASSUME NEW i \in 1 .. n, NEW px \in Int
        PROVE  /\ Nearest(n, px) \in 1 .. n
               /\ Size(px - ChartX(points, Nearest(n, px))) <= Size(px - ChartX(points, i)) + 1
    <2> DEFINE u == px - LEFT
               r == (2 * u * m + WIDTH) \div (2 * WIDTH)
               p == Nearest(n, px) - 1
    <2>1. u \in Int
      BY DEF LEFT
    <2>2. r \in Int
      <3>1. 2 * u * m + WIDTH \in Int
        BY <1>1, <2>1 DEF WIDTH
      <3>2. 2 * WIDTH \in Nat \ {0}
        BY DEF WIDTH
      <3> QED
        BY <3>1, <3>2, DivFacts
    <2>3. Nearest(n, px) = 1 + Max({0, Smaller(m, r)})
      BY DEF Nearest, m
    <2> HIDE DEF r
    <2>4. Smaller(m, r) \in Int /\ Smaller(m, r) = IF m < r THEN m ELSE r
      BY <1>1, <2>2 DEF Smaller
    <2>5. Max({0, Smaller(m, r)}) = IF 0 <= Smaller(m, r) THEN Smaller(m, r) ELSE 0
      BY <2>4, LargerOf
    <2>6. p = IF r < 0 THEN 0 ELSE IF r < m THEN r ELSE m
      BY <1>1, <2>2, <2>3, <2>4, <2>5
    <2>7. p \in 0 .. m /\ Nearest(n, px) = p + 1
      BY <1>1, <2>2, <2>3, <2>4, <2>5
    <2> HIDE DEF p, u
    <2> DEFINE k == i - 1
    <2>8. k \in 0 .. m
      BY <1>3
    <2> HIDE DEF k
    <2>9. Size(u - Place(p)) <= Size(u - Place(k)) + 1
      BY <1>1, <2>1, <2>6, <2>7, <2>8, NearestPlace DEF r, Place
    <2>10. p \in Int /\ p + 1 - 1 = p
      BY <1>1, <2>7
    <2>11. Place(p) \in Int /\ Place(k) \in Int
      BY <1>5, <2>7, <2>8
    <2>12. ChartX(points, Nearest(n, px)) = LEFT + Place(p) /\ ChartX(points, i) = LEFT + Place(k)
      BY <1>2, <2>7, <2>10 DEF k
    <2>13. px - (LEFT + Place(p)) = u - Place(p) /\ px - (LEFT + Place(k)) = u - Place(k)
      BY <2>11 DEF u, LEFT
    <2>14. Nearest(n, px) \in 1 .. n
      BY <2>7 DEF m
    <2> QED
      BY <2>9, <2>12, <2>13, <2>14
  <1>7. ASSUME NEW i \in 1 .. n
        PROVE  ChartX(points, i) \in LEFT .. LEFT + WIDTH
    <2>1. Place(i - 1) \in 0 .. WIDTH
      BY <1>3, <1>4
    <2>2. ChartX(points, i) = LEFT + Place(i - 1)
      BY <1>2
    <2>3. \A v \in 0 .. WIDTH : LEFT + v \in LEFT .. LEFT + WIDTH
      BY DEF LEFT, WIDTH
    <2> QED
      BY <2>1, <2>2, <2>3
  <1>8. ASSUME NEW i \in 1 .. n, NEW j \in 1 .. n, i < j
        PROVE  ChartX(points, i) < ChartX(points, j)
    <2>1. i - 1 < j - 1
      BY <1>3, <1>8
    <2>2. Place(i - 1) < Place(j - 1) /\ Place(i - 1) \in Int /\ Place(j - 1) \in Int
      BY <1>3, <1>4, <1>5, <2>1
    <2> QED
      BY <1>2, <2>2 DEF LEFT
  <1>9. \A px \in Int : Nearest(n, px) \in 1 .. n
    <2>1. 1 \in 1 .. n
      OBVIOUS
    <2> QED
      BY <1>6, <2>1
  <1> QED
    BY <1>6, <1>7, <1>8, <1>9

(* The days on the page are the latest of some snapshots. *)
LEMMA DaysKnown ==
  ASSUME stats \in StatsType, Charted(stats)
  PROVE  /\ DaysOK(stats.days) /\ Len(stats.days) >= 3
         /\ \E stored \in Rollups :
              /\ \A i \in DOMAIN stats.days : /\ stats.days[i].date \in DOMAIN stored
                                              /\ stats.days[i].row = stored[stats.days[i].date]
              /\ \A date \in DOMAIN stored :
                   \/ \E i \in DOMAIN stats.days : date = stats.days[i].date
                   \/ /\ Len(stats.days) = DAYS
                      /\ \A i \in DOMAIN stats.days : date < stats.days[i].date
  <1> DEFINE days == stats.days
  <1>1. days = <<>> \/ \E stored \in Rollups : days = ReadDailyRollups(stored)
    BY DEF StatsType
  <1>2. Len(days) >= 3 /\ Len(<<>>) = 0
    BY DEF Charted
  <1> HIDE DEF days
  <1>3. PICK stored \in Rollups : days = ReadDailyRollups(stored)
    BY <1>1, <1>2
  <1>4. /\ DOMAIN stored \in SUBSET Int /\ IsFiniteSet(DOMAIN stored)
        /\ \A date \in DOMAIN stored : stored[date] \in [flagged : Nat, cleartext : Nat, secure : Nat]
    BY RollupAssumption
  <1>5. /\ Len(days) \in Nat /\ Len(days) <= DAYS
        /\ DOMAIN days = 1 .. Len(days)
        /\ \A i \in DOMAIN days : /\ days[i].date \in DOMAIN stored
                                  /\ days[i].row = stored[days[i].date]
        /\ \A i, j \in DOMAIN days : i < j => days[i].date < days[j].date
        /\ \A date \in DOMAIN stored :
             \/ \E i \in DOMAIN days : date = days[i].date
             \/ /\ Len(days) = DAYS
                /\ \A i \in DOMAIN days : date < days[i].date
    BY <1>3, <1>4, LatestDays
  <1>6. \A i \in DOMAIN days : /\ days[i].date \in Int
                               /\ days[i].row \in [flagged : Nat, cleartext : Nat, secure : Nat]
    BY <1>4, <1>5
  <1> QED
    BY <1>2, <1>5, <1>6 DEF DaysOK, days

(* The change told is from the first day to the last. *)
LEMMA TrendOf ==
  ASSUME NEW days, DaysOK(days), Len(days) >= 2,
         NEW first \in Dates(days), NEW last \in Dates(days),
         \A date \in Dates(days) : first <= date /\ date <= last
  PROVE  CleartextTrend(days) = CleartextSeries(days)[last] - CleartextSeries(days)[first]
  <1> DEFINE shares == CleartextSeries(days)
             points == ChartPoints(shares)
             n == Len(days)
  <1>1. n \in Nat /\ n >= 2 /\ DOMAIN days = 1 .. n /\ 1 \in 1 .. n /\ n \in 1 .. n
    BY DEF DaysOK
  <1>2. DOMAIN shares = Dates(days)
    BY SeriesOf
  <1>3. CleartextTrend(days) = IF Len(points) >= 2 THEN points[Len(points)].value - points[1].value ELSE 0
    BY DEF CleartextTrend
  <1> HIDE DEF shares
  <1>4. /\ Len(points) = n
        /\ \A i \in DOMAIN days : points[i].value = shares[days[i].date]
    BY <1>2, PointsOf
  <1> HIDE DEF points, n
  <1>5. CleartextTrend(days) = shares[days[n].date] - shares[days[1].date]
    BY <1>1, <1>3, <1>4
  <1>6. \A i \in 1 .. n : days[i].date \in Int /\ i \in Int
    BY <1>1 DEF DaysOK
  <1>7. \A i, j \in 1 .. n : i < j => days[i].date < days[j].date
    BY <1>1 DEF DaysOK
  <1>8. PICK f \in 1 .. n : first = days[f].date
    BY <1>1 DEF Dates
  <1>9. PICK l \in 1 .. n : last = days[l].date
    BY <1>1 DEF Dates
  <1>10. days[1].date \in Dates(days) /\ days[n].date \in Dates(days)
    BY <1>1 DEF Dates
  <1>11. f = 1
    <2>1. ~(days[1].date < days[f].date)
      BY <1>1, <1>6, <1>8, <1>10
    <2>2. ~(1 < f)
      BY <1>1, <1>7, <2>1
    <2> QED
      BY <1>1, <2>2
  <1>12. l = n
    <2>1. ~(days[l].date < days[n].date)
      BY <1>1, <1>6, <1>9, <1>10
    <2>2. ~(l < n)
      BY <1>1, <1>7, <2>1
    <2> QED
      BY <1>1, <2>2
  <1> QED
    BY <1>5, <1>8, <1>9, <1>11, <1>12 DEF shares

(* The charts show the trend that is stored: its latest days, each with its  *)
(* own value, in order and inside the frame; a pointer picks the nearest     *)
(* point and is told of its day (rollup.go:189-214, Stats.tsx:202-217,       *)
(* TimeSeries.tsx:8-72).                                                     *)
THEOREM TrendIsTrue == Spec => []TrendTrue
  <1>1. ASSUME TypeOK, Charted(stats)
        PROVE  TrendTrue
    <2> DEFINE days == stats.days
               data == AtRiskSeries(days)
               points == ChartPoints(data)
               n == Len(days)
               dates == DOMAIN CleartextSeries(days)
               XOf(i) == ChartX(points, i)
    <2>1. stats \in StatsType
      BY <1>1 DEF TypeOK
    <2>2. /\ DaysOK(days) /\ n >= 3
          /\ \E stored \in Rollups :
               /\ \A i \in DOMAIN days : /\ days[i].date \in DOMAIN stored
                                         /\ days[i].row = stored[days[i].date]
               /\ \A date \in DOMAIN stored :
                    \/ \E i \in DOMAIN days : date = days[i].date
                    \/ /\ n = DAYS
                       /\ \A i \in DOMAIN days : date < days[i].date
      BY <1>1, <2>1, DaysKnown
    <2> HIDE DEF days
    <2>3. /\ DOMAIN data = Dates(days) /\ dates = Dates(days)
          /\ \A i \in DOMAIN days : data[days[i].date] = days[i].row.flagged
      BY <2>2, SeriesOf
    <2> HIDE DEF data, dates
    <2>4. /\ Len(points) = n /\ DOMAIN points = DOMAIN days
          /\ \A i \in DOMAIN days : /\ points[i].label = days[i].date
                                    /\ points[i].value = data[days[i].date]
      BY <2>2, <2>3, PointsOf
    <2> HIDE DEF points
    <2>5. /\ n \in Nat /\ n <= DAYS /\ DOMAIN days = 1 .. n
          /\ \A i \in 1 .. n : days[i].date \in Int /\ days[i].row.flagged \in Nat
          /\ \A i, j \in 1 .. n : i < j => days[i].date < days[j].date
      BY <2>2 DEF DaysOK
    <2>6. n >= 2 /\ n <= WIDTH
      BY <2>2, <2>5, TrendAssumption DEF WIDTH
    <2> HIDE DEF n
    <2>7. \E stored \in Rollups :
            /\ \A d \in ToSet(days) : d.date \in DOMAIN stored /\ d.row = stored[d.date]
            /\ \A date \in DOMAIN stored \ dates :
                 Len(points) = DAYS /\ \A shown \in dates : date < shown
      <3>1. ToSet(days) = {days[i] : i \in DOMAIN days}
        BY DEF ToSet
      <3>2. PICK stored \in Rollups :
               /\ \A i \in DOMAIN days : /\ days[i].date \in DOMAIN stored
                                         /\ days[i].row = stored[days[i].date]
               /\ \A date \in DOMAIN stored :
                    \/ \E i \in DOMAIN days : date = days[i].date
                    \/ /\ n = DAYS
                       /\ \A i \in DOMAIN days : date < days[i].date
        BY <2>2
      <3>3. \A date : date \in dates <=> \E i \in DOMAIN days : date = days[i].date
        BY <2>3 DEF Dates
      <3>4. \A d \in ToSet(days) : d.date \in DOMAIN stored /\ d.row = stored[d.date]
        BY <3>1, <3>2
      <3>5. \A date \in DOMAIN stored \ dates :
              Len(points) = DAYS /\ \A shown \in dates : date < shown
        BY <2>4, <3>2, <3>3
      <3> QED
        BY <3>4, <3>5
    <2>8. \A i \in 1 .. n : points[i].value = days[i].row.flagged /\ points[i].value \in Nat
      BY <2>3, <2>4, <2>5
    <2>9. /\ \A i \in 1 .. n : XOf(i) \in LEFT .. LEFT + WIDTH
          /\ \A i, j \in 1 .. n : i < j => XOf(i) < XOf(j)
          /\ \A px \in Int : Nearest(n, px) \in 1 .. n
          /\ \A i \in 1 .. n, px \in Int :
               Size(px - XOf(Nearest(n, px))) <= Size(px - XOf(i)) + 1
      BY <2>4, <2>5, <2>6, ChartPlaces
    <2>10. \A i \in 1 .. n : ChartY(points, i) \in TOP .. TOP + HEIGHT
      BY <2>4, <2>5, <2>8, ChartHeights
    <2>11. \A i, j \in 1 .. n : i < j => points[i].label < points[j].label
      BY <2>4, <2>5
    <2>12. \A first, last \in dates :
             (\A date \in dates : first <= date /\ date <= last) =>
               CleartextTrend(days) = CleartextSeries(days)[last] - CleartextSeries(days)[first]
      BY <2>2, <2>3, <2>6, TrendOf DEF n
    <2>13. \A t \in Tip : \E i \in DOMAIN points : t.day = points[i].label /\ t.x = XOf(i)
      BY DEF Tip, points, data, days
    <2>14. ASSUME NEW px \in Pointers, NEW i \in 1 .. n
           PROVE  (IF px > XOf(Nearest(Len(points), px)) THEN px - XOf(Nearest(Len(points), px))
                   ELSE XOf(Nearest(Len(points), px)) - px) <=
                  (IF px > XOf(i) THEN px - XOf(i) ELSE XOf(i) - px) + 1
      <3> DEFINE k == Nearest(n, px)
                 x == XOf(k)
                 y == XOf(i)
      <3>1. px \in Int
        BY RollupAssumption
      <3>2. Size(px - x) <= Size(px - y) + 1
        BY <2>9, <3>1
      <3>3. \A v \in LEFT .. LEFT + WIDTH : v \in Int
        BY DEF LEFT, WIDTH
      <3>4. x \in Int /\ y \in Int
        BY <2>9, <3>1, <3>3
      <3> HIDE DEF x, y, k
      <3>5. Size(px - x) = (IF px > x THEN px - x ELSE x - px)
            /\ Size(px - y) = (IF px > y THEN px - y ELSE y - px)
        BY <3>1, <3>4 DEF Size
      <3> QED
        BY <2>4, <3>2, <3>5 DEF x, y, k
    <2> QED
      BY <2>4, <2>5, <2>7, <2>8, <2>9, <2>10, <2>11, <2>12, <2>13, <2>14
      DEF TrendTrue, points, data, days, dates, n
  <1>2. TypeOK => TrendTrue
    BY <1>1 DEF TrendTrue
  <1> QED
    BY <1>2, TypeCorrect, PTL
-----------------------------------------------------------------------------
(* The head of a list. *)
LEMMA HeadOf ==
  ASSUME NEW S, NEW s \in Seq(S), NEW n \in Nat
  PROVE  /\ FirstOf(s, n) \in Seq(S) /\ Len(FirstOf(s, n)) = Smaller(n, Len(s))
         /\ DOMAIN FirstOf(s, n) = 1 .. Smaller(n, Len(s))
         /\ \A k \in 1 .. Smaller(n, Len(s)) : FirstOf(s, n)[k] = s[k]
  <1> DEFINE m == Smaller(n, Len(s))
             f == FirstOf(s, n)
  <1>1. Len(s) \in Nat /\ DOMAIN s = 1 .. Len(s) /\ \A k \in 1 .. Len(s) : s[k] \in S
    BY LenProperties
  <1>2. m \in Nat /\ m <= Len(s)
    BY <1>1, SmallerOf
  <1>3. f = SubSeq(s, 1, m)
    BY DEF FirstOf
  <1> HIDE DEF m, f
  <1>4. \A k \in 1 .. m : s[k] \in S
    BY <1>1, <1>2
  <1>5. /\ f \in Seq(S)
        /\ Len(f) = IF 1 <= m THEN m - 1 + 1 ELSE 0
        /\ \A k \in 1 .. m - 1 + 1 : f[k] = s[k + 1 - 1]
    <2> HIDE <1>1
    <2>1. 1 \in Int /\ m \in Int
      BY <1>2
    <2>2. /\ SubSeq(s, 1, m) \in Seq(S)
          /\ Len(SubSeq(s, 1, m)) = IF 1 <= m THEN m - 1 + 1 ELSE 0
          /\ \A k \in 1 .. m - 1 + 1 : SubSeq(s, 1, m)[k] = s[1 + k - 1]
      BY <1>4, <2>1, SubSeqProperties
    <2>3. \A k \in 1 .. m - 1 + 1 : 1 + k - 1 = k /\ k + 1 - 1 = k
      BY <2>1
    <2> QED
      BY <1>3, <2>2, <2>3
  <1>6. Len(f) = m /\ \A k \in 1 .. m : f[k] = s[k]
    BY <1>2, <1>5
  <1>7. DOMAIN f = 1 .. m
    BY <1>5, <1>6, LenProperties
  <1> QED
    BY <1>5, <1>6, <1>7 DEF f, m

(* A ranking names every label once, one of a larger count before one of a   *)
(* smaller.                                                                  *)
Counts(data) == /\ DOMAIN data \subseteq Int /\ IsFiniteSet(DOMAIN data)
                /\ \A l \in DOMAIN data : data[l] \in Nat

LEMMA RankOf ==
  ASSUME NEW data, Counts(data)
  PROVE  /\ StableRank(data) \in Seq(DOMAIN data)
         /\ Len(StableRank(data)) = Cardinality(DOMAIN data)
         /\ \A l \in DOMAIN data : \E k \in 1 .. Cardinality(DOMAIN data) : StableRank(data)[k] = l
         /\ \A k, l \in 1 .. Cardinality(DOMAIN data) :
              k < l => data[StableRank(data)[k]] >= data[StableRank(data)[l]]
         /\ \A k, l \in 1 .. Cardinality(DOMAIN data) :
              StableRank(data)[k] = StableRank(data)[l] => k = l
  <1> DEFINE S == DOMAIN data
             order == {p \in S \X S : \/ data[p[1]] > data[p[2]]
                                      \/ data[p[1]] = data[p[2]] /\ p[1] < p[2]}
             f == Arranged(S, order)
             n == Cardinality(S)
  <1>1. IsFiniteSet(S) /\ \A l \in S : l \in Int /\ data[l] \in Nat
    BY DEF Counts
  <1>2. StableRank(data) = f
    BY DEF StableRank
  <1>3. \A i, j \in S : <<i, j>> \in order <=> \/ data[i] > data[j]
                                               \/ data[i] = data[j] /\ i < j
    OBVIOUS
  <1> HIDE DEF S, order
  <1>4. /\ \A i \in S : <<i, i>> \notin order
        /\ \A i, j \in S : i # j => <<i, j>> \in order \/ <<j, i>> \in order
        /\ \A h, i, j \in S : <<h, i>> \in order /\ <<i, j>> \in order => <<h, j>> \in order
    BY <1>1, <1>3
  <1>5. /\ f \in Seq(S) /\ Len(f) = n
        /\ \A i \in S : \E k \in 1 .. n : f[k] = i
        /\ \A k, l \in 1 .. n : k < l => <<f[k], f[l]>> \in order
    BY <1>1, <1>4, ArrangedProperties
  <1> HIDE DEF f, n
  <1>6. \A k \in 1 .. n : f[k] \in S
    BY <1>5, LenProperties
  <1>7. ASSUME NEW k \in 1 .. n, NEW l \in 1 .. n, k < l
        PROVE  data[f[k]] >= data[f[l]]
    <2>1. f[k] \in S /\ f[l] \in S
      BY <1>6
    <2>2. data[f[k]] \in Nat /\ data[f[l]] \in Nat
      BY <1>1, <2>1
    <2>3. data[f[k]] > data[f[l]] \/ data[f[k]] = data[f[l]]
      BY <1>3, <1>5, <1>7, <2>1
    <2> QED
      BY <2>2, <2>3
  <1>8. ASSUME NEW k \in 1 .. n, NEW l \in 1 .. n, f[k] = f[l]
        PROVE  k = l
    <2>1. f[k] \in S /\ ~(k < l) /\ ~(l < k)
      BY <1>4, <1>5, <1>6, <1>8
    <2>2. k \in Int /\ l \in Int
      OBVIOUS
    <2> QED
      BY <2>1, <2>2
  <1> QED
    BY <1>2, <1>5, <1>7, <1>8 DEF S, n

(* What a cut keeps: as much as the limit allows, and nothing left out is    *)
(* larger than what is kept.                                                 *)
Best(data, limit) == ToSet(FirstOf(StableRank(data), limit))

LEMMA BestOf ==
  ASSUME NEW data, Counts(data), NEW limit \in Nat
  PROVE  /\ Best(data, limit) \subseteq DOMAIN data
         /\ \A l \in DOMAIN data \ Best(data, limit) :
              /\ Cardinality(DOMAIN data) > limit
              /\ Cardinality(Best(data, limit)) = limit
              /\ \A k \in Best(data, limit) : data[k] >= data[l]
  <1> DEFINE f == StableRank(data)
             S == DOMAIN data
             n == Cardinality(S)
             m == Smaller(limit, n)
             best == Best(data, limit)
             g == FirstOf(f, limit)
  <1>1. /\ f \in Seq(S) /\ Len(f) = n
        /\ \A l \in S : \E k \in 1 .. n : f[k] = l
        /\ \A k, l \in 1 .. n : k < l => data[f[k]] >= data[f[l]]
        /\ \A k, l \in 1 .. n : f[k] = f[l] => k = l
    BY RankOf
  <1>2. n \in Nat /\ \A l \in S : data[l] \in Nat
    BY FS_CardinalityType DEF Counts
  <1>3. best = {g[k] : k \in DOMAIN g}
    BY DEF Best, ToSet
  <1> HIDE DEF f, S, n, best, g
  <1>4. m \in Nat /\ m <= n /\ (m = limit \/ m = n)
    BY <1>2, SmallerOf
  <1>5. DOMAIN g = 1 .. m /\ \A k \in 1 .. m : g[k] = f[k]
    <2>1. f \in Seq(S) /\ Len(f) = n
      BY <1>1
    <2>2. /\ DOMAIN FirstOf(f, limit) = 1 .. Smaller(limit, Len(f))
          /\ \A k \in 1 .. Smaller(limit, Len(f)) : FirstOf(f, limit)[k] = f[k]
      BY <2>1, HeadOf, Zenon
    <2> QED
      BY <2>1, <2>2 DEF g
  <1> HIDE DEF m
  <1>6. best = {f[k] : k \in 1 .. m}
    BY <1>3, <1>5
  <1>7. \A k \in 1 .. m : k \in 1 .. n /\ k \in Int
    BY <1>2, <1>4
  <1>8. \A k \in 1 .. n : f[k] \in S /\ k \in Int
    BY <1>1, <1>2, LenProperties
  <1>9. best \subseteq S
    BY <1>6, <1>7, <1>8
  <1>10. Cardinality(best) = m
    <2> DEFINE span == 1 .. m
               place == [k \in span |-> f[k]]
    <2>1. place \in Bijection(span, best)
      BY <1>1, <1>6, <1>7 DEF Bijection, Injection, Surjection, IsInjective
    <2>2. IsFiniteSet(span) /\ Cardinality(span) = m
      BY <1>4, FS_Interval
    <2> HIDE DEF span, place
    <2>3. ExistsBijection(span, best)
      BY <2>1 DEF ExistsBijection
    <2> QED
      BY <2>2, <2>3, FS_Bijection
  <1>11. ASSUME NEW l \in S, l \notin best
         PROVE  /\ n > limit /\ Cardinality(best) = limit
                /\ \A x \in best : data[x] >= data[l]
    <2>1. PICK k \in 1 .. n : f[k] = l
      BY <1>1
    <2>2. ~(k <= m) /\ k \in Int /\ k <= n
      BY <1>2, <1>4, <1>6, <1>11, <2>1
    <2>3. m = limit /\ n > limit
      BY <1>2, <1>4, <2>2
    <2>4. \A j \in 1 .. m : data[f[j]] >= data[f[k]]
      BY <1>1, <1>2, <1>4, <1>7, <2>2
    <2> QED
      BY <1>6, <1>10, <2>1, <2>3, <2>4
  <1> QED
    BY <1>9, <1>11 DEF S, n, best

-----------------------------------------------------------------------------
(* Sums of counts are counts of pairs, and compare by inclusion.             *)
Pairs(counts, labels) == UNION {{raw} \X (1 .. counts[raw]) : raw \in labels}

LEMMA PairsFinite ==
  ASSUME NEW counts, NEW labels, IsFiniteSet(labels), \A raw \in labels : counts[raw] \in Nat
  PROVE  /\ IsFiniteSet(Pairs(counts, labels)) /\ Sum(counts, labels) = Cardinality(Pairs(counts, labels))
         /\ Sum(counts, labels) \in Nat
  <1> DEFINE rows == [raw \in labels |-> {raw} \X (1 .. counts[raw])]
             parts == {rows[raw] : raw \in labels}
  <1>1. ASSUME NEW raw \in labels
        PROVE  IsFiniteSet(rows[raw])
    <2> DEFINE span == 1 .. counts[raw]
               single == {raw}
    <2>1. IsFiniteSet(span)
      BY FS_Interval
    <2>2. IsFiniteSet(single)
      BY FS_Singleton
    <2>3. rows[raw] = single \X span
      OBVIOUS
    <2> HIDE DEF span, single, rows
    <2>4. IsFiniteSet(single \X span)
      BY <2>1, <2>2, FS_Product
    <2> QED
      BY <2>3, <2>4
  <1>2. Pairs(counts, labels) = UNION parts
    BY DEF Pairs
  <1>3. rows \in Surjection(labels, parts)
    <2>1. rows = [raw \in labels |-> rows[raw]]
      OBVIOUS
    <2> HIDE DEF rows
    <2> QED
      BY <2>1, Zenon DEF Surjection
  <1> HIDE DEF rows
  <1>4. IsFiniteSet(parts)
    BY <1>3, FS_Surjection
  <1>5. \A T \in parts : IsFiniteSet(T)
    BY <1>1
  <1> HIDE DEF parts
  <1>6. IsFiniteSet(UNION parts)
    BY <1>4, <1>5, FS_UNION
  <1>7. IsFiniteSet(Pairs(counts, labels))
    BY <1>2, <1>6
  <1>8. Sum(counts, labels) = Cardinality(Pairs(counts, labels))
    BY DEF Sum, Pairs
  <1> QED
    BY <1>7, <1>8, FS_CardinalityType

LEMMA SumGrows ==
  ASSUME NEW c, NEW L, IsFiniteSet(L), \A raw \in L : c[raw] \in Nat,
         NEW d, NEW M, IsFiniteSet(M), \A raw \in M : d[raw] \in Nat,
         \A raw \in L : c[raw] = 0 \/ (raw \in M /\ c[raw] <= d[raw])
  PROVE  Sum(c, L) <= Sum(d, M)
  <1> DEFINE P == Pairs(c, L)
             Q == Pairs(d, M)
  <1>1. IsFiniteSet(Q) /\ Sum(c, L) = Cardinality(P) /\ Sum(d, M) = Cardinality(Q)
    BY PairsFinite
  <1>2. ASSUME NEW x \in P
        PROVE  x \in Q
    <2>1. PICK raw \in L : x \in {raw} \X (1 .. c[raw])
      BY DEF Pairs
    <2>2. PICK k \in 1 .. c[raw] : x = <<raw, k>>
      BY <2>1
    <2>3. c[raw] \in Nat /\ k \in Int /\ 1 <= k /\ k <= c[raw]
      BY <2>2
    <2>4. raw \in M /\ c[raw] <= d[raw] /\ d[raw] \in Nat
      BY <2>3
    <2>5. k \in 1 .. d[raw]
      BY <2>3, <2>4
    <2> QED
      BY <2>2, <2>4, <2>5 DEF Pairs
  <1>3. P \in SUBSET Q
    BY <1>2
  <1> HIDE DEF P, Q
  <1> QED
    BY <1>1, <1>3, FS_Subset

LEMMA SumOne ==
  ASSUME NEW counts, NEW raw, counts[raw] \in Nat
  PROVE  Sum(counts, {raw}) = counts[raw]
  <1> DEFINE span == 1 .. counts[raw]
             cells == {raw} \X span
             single == {raw}
  <1>1. IsFiniteSet(span) /\ Cardinality(span) = counts[raw]
    BY FS_Interval
  <1>2. UNION {{r} \X (1 .. counts[r]) : r \in {raw}} = cells
    OBVIOUS
  <1>3. Sum(counts, {raw}) = Cardinality(cells)
    BY <1>2 DEF Sum
  <1>4. cells = single \X span
    OBVIOUS
  <1>5. IsFiniteSet(single) /\ Cardinality(single) = 1
    BY FS_Singleton
  <1> HIDE DEF span, cells, single
  <1>6. Cardinality(single \X span) = Cardinality(single) * Cardinality(span)
    BY <1>1, <1>5, FS_Product
  <1> QED
    BY <1>1, <1>3, <1>4, <1>5, <1>6

-----------------------------------------------------------------------------
(* What the API keeps of the counts of a dimension. *)
Found(counts) == {raw \in DOMAIN counts : counts[raw] > 0}

Held(counts, limit) == Best([raw \in Found(counts) |-> counts[raw]], limit)

HeldAs(dim, counts, limit, label) == {raw \in Held(counts, limit) : Label(dim, raw) = label}

LEMMA GroupedOf ==
  ASSUME NEW dim, NEW counts, Counts(counts), NEW limit \in Nat
  PROVE  /\ Held(counts, limit) \subseteq Found(counts) /\ IsFiniteSet(Held(counts, limit))
         /\ \A raw \in DOMAIN counts \ Held(counts, limit) :
              \/ counts[raw] = 0
              \/ /\ Cardinality(Found(counts)) > limit /\ Cardinality(DOMAIN counts) > limit
                 /\ \A k \in Held(counts, limit) : counts[k] >= counts[raw]
         /\ DOMAIN Grouped(dim, counts, limit) = {Label(dim, raw) : raw \in Held(counts, limit)}
         /\ \A label \in DOMAIN Grouped(dim, counts, limit) :
              Grouped(dim, counts, limit)[label] = Sum(counts, HeldAs(dim, counts, limit, label))
  <1> DEFINE all == DOMAIN counts
             found == Found(counts)
             data == [raw \in found |-> counts[raw]]
             kept == Held(counts, limit)
  <1>1. IsFiniteSet(all) /\ all \subseteq Int /\ \A raw \in all : counts[raw] \in Nat
    BY DEF Counts
  <1>2. found \in SUBSET all
    BY DEF Found
  <1>3. \A raw \in all : raw \in found <=> counts[raw] > 0
    BY DEF Found
  <1>4. DOMAIN data = found /\ \A raw \in found : data[raw] = counts[raw]
    OBVIOUS
  <1>5. kept = Best(data, limit)
    BY DEF Held
  <1>6. Grouped(dim, counts, limit) =
          [label \in {Label(dim, raw) : raw \in kept} |->
             Sum(counts, {raw \in kept : Label(dim, raw) = label})]
    BY DEF Grouped, Held, Best, Found
  <1> HIDE DEF all, found, data, kept
  <1>7. IsFiniteSet(found) /\ Cardinality(found) <= Cardinality(all)
    BY <1>1, <1>2, FS_Subset
  <1>8. Counts(data)
    BY <1>1, <1>2, <1>4, <1>7 DEF Counts
  <1>9. /\ kept \subseteq found
        /\ \A raw \in found \ kept : /\ Cardinality(found) > limit
                                     /\ \A k \in kept : data[k] >= data[raw]
    BY <1>4, <1>5, <1>8, BestOf
  <1>10. IsFiniteSet(kept)
    BY <1>7, <1>9, FS_Subset
  <1>11. Cardinality(found) \in Nat /\ Cardinality(all) \in Nat
    BY <1>1, <1>7, FS_CardinalityType
  <1>12. ASSUME NEW raw \in all, raw \notin kept
         PROVE  \/ counts[raw] = 0
                \/ /\ Cardinality(found) > limit /\ Cardinality(all) > limit
                   /\ \A k \in kept : counts[k] >= counts[raw]
    <2>1. counts[raw] \in Nat
      BY <1>1
    <2>2. CASE raw \in found
      <3>1. Cardinality(found) > limit /\ Cardinality(all) > limit
        BY <1>7, <1>9, <1>11, <1>12, <2>2
      <3>2. \A k \in kept : counts[k] >= counts[raw]
        BY <1>4, <1>9, <1>12, <2>2
      <3> QED
        BY <3>1, <3>2
    <2>3. CASE raw \notin found
      BY <1>3, <2>1, <2>3
    <2> QED
      BY <2>2, <2>3
  <1> QED
    BY <1>6, <1>9, <1>10, <1>12 DEF all, found, kept, HeldAs

(* What is left out has as many others as are kept that are no smaller. *)
LEMMA LeftOut ==
  ASSUME NEW counts, Counts(counts), NEW limit \in Nat,
         NEW raw \in DOMAIN counts \ Held(counts, limit), counts[raw] # 0
  PROVE  Outnumbered(counts, raw, limit)
  <1> DEFINE found == Found(counts)
             data == [l \in found |-> counts[l]]
             kept == Held(counts, limit)
             larger == {m \in DOMAIN counts \ {raw} : counts[m] >= counts[raw]}
  <1>1. /\ IsFiniteSet(DOMAIN counts) /\ DOMAIN counts \subseteq Int
        /\ \A l \in DOMAIN counts : counts[l] \in Nat
    BY DEF Counts
  <1>2. counts[raw] > 0 /\ raw \in found
    BY <1>1 DEF Found
  <1>3. found \in SUBSET DOMAIN counts
    BY DEF Found
  <1>4. DOMAIN data = found /\ \A l \in found : data[l] = counts[l]
    OBVIOUS
  <1>5. kept = Best(data, limit)
    BY DEF Held
  <1> HIDE DEF found, data, kept
  <1>6. IsFiniteSet(found)
    BY <1>1, <1>3, FS_Subset
  <1>7. Counts(data)
    BY <1>1, <1>3, <1>4, <1>6 DEF Counts
  <1>8. raw \in DOMAIN data \ Best(data, limit)
    BY <1>2, <1>4, <1>5 DEF kept
  <1>9. /\ kept \subseteq found /\ Cardinality(kept) = limit
        /\ \A k \in kept : data[k] >= data[raw]
    BY <1>4, <1>5, <1>7, <1>8, BestOf
  <1>10. kept \in SUBSET larger
    BY <1>2, <1>3, <1>4, <1>5, <1>8, <1>9
  <1>11. IsFiniteSet(larger)
    <2>1. larger \in SUBSET DOMAIN counts
      OBVIOUS
    <2> HIDE DEF larger
    <2> QED
      BY <1>1, <2>1, FS_Subset
  <1>12. Cardinality(kept) <= Cardinality(larger) /\ Cardinality(larger) \in Nat
    <2> HIDE DEF larger
    <2> QED
      BY <1>10, <1>11, FS_Subset, FS_CardinalityType
  <1> QED
    BY <1>2, <1>9, <1>12 DEF Outnumbered

(* A group of any dimension but the products is a raw label. *)
LEMMA PlainGroup ==
  ASSUME NEW dim, dim # "product", NEW counts, Counts(counts), NEW limit \in Nat
  PROVE  /\ DOMAIN Grouped(dim, counts, limit) = Held(counts, limit)
         /\ \A raw \in Held(counts, limit) : Grouped(dim, counts, limit)[raw] = counts[raw]
  <1> DEFINE kept == Held(counts, limit)
             group == Grouped(dim, counts, limit)
  <1>1. \A raw : Label(dim, raw) = raw
    BY DEF Label
  <1>2. /\ kept \subseteq DOMAIN counts
        /\ DOMAIN group = {Label(dim, raw) : raw \in kept}
        /\ \A label \in DOMAIN group :
              group[label] = Sum(counts, HeldAs(dim, counts, limit, label))
    BY GroupedOf DEF Found
  <1> HIDE DEF kept, group
  <1>3. DOMAIN group = kept
    BY <1>1, <1>2
  <1>4. ASSUME NEW raw \in kept
        PROVE  group[raw] = counts[raw]
    <2>1. HeldAs(dim, counts, limit, raw) = {raw}
      BY <1>1, <1>4 DEF HeldAs, kept
    <2>2. counts[raw] \in Nat
      BY <1>2 DEF Counts
    <2>3. group[raw] = Sum(counts, {raw})
      BY <1>2, <1>3, <2>1
    <2> QED
      BY <2>2, <2>3, SumOne
  <1> QED
    BY <1>3, <1>4 DEF kept, group

(* A product is told with no more than what is stored of it, and with all of *)
(* it if no label was cut.                                                   *)
StoredAs(dim, counts, label) == Sum(counts, {raw \in DOMAIN counts : Label(dim, raw) = label})

LEMMA GroupStored ==
  ASSUME NEW dim, NEW counts, Counts(counts), NEW limit \in Nat, NEW label
  PROVE  /\ StoredAs(dim, counts, label) \in Nat
         /\ label \in DOMAIN Grouped(dim, counts, limit) =>
              /\ Grouped(dim, counts, limit)[label] \in Nat
              /\ Grouped(dim, counts, limit)[label] <= StoredAs(dim, counts, label)
         /\ Cardinality(DOMAIN counts) <= limit =>
              IF label \in DOMAIN Grouped(dim, counts, limit)
              THEN Grouped(dim, counts, limit)[label] = StoredAs(dim, counts, label)
              ELSE StoredAs(dim, counts, label) = 0
  <1> DEFINE kept == Held(counts, limit)
             group == Grouped(dim, counts, limit)
             K == HeldAs(dim, counts, limit, label)
             A == {raw \in DOMAIN counts : Label(dim, raw) = label}
             E == {raw \in kept : FALSE}
             whole == DOMAIN counts
  <1>1. IsFiniteSet(whole) /\ \A raw \in whole : counts[raw] \in Nat
    BY DEF Counts
  <1>2. /\ kept \subseteq whole /\ IsFiniteSet(kept)
        /\ \A raw \in whole \ kept : counts[raw] = 0 \/ Cardinality(whole) > limit
        /\ DOMAIN group = {Label(dim, raw) : raw \in kept}
        /\ label \in DOMAIN group => group[label] = Sum(counts, K)
    BY GroupedOf DEF Found
  <1>3. StoredAs(dim, counts, label) = Sum(counts, A)
    BY DEF StoredAs
  <1>4. K \in SUBSET kept /\ A \in SUBSET whole /\ E \in SUBSET kept /\ E = {}
    BY DEF HeldAs
  <1>5. /\ \A raw \in kept : raw \in K <=> Label(dim, raw) = label
        /\ \A raw \in whole : raw \in A <=> Label(dim, raw) = label
    BY DEF HeldAs
  <1> HIDE DEF kept, group, K, A, E, whole
  <1>6. IsFiniteSet(K) /\ IsFiniteSet(A) /\ IsFiniteSet(E)
    BY <1>1, <1>2, <1>4, FS_Subset
  <1>7. /\ \A raw \in K : counts[raw] \in Nat
        /\ \A raw \in A : counts[raw] \in Nat
        /\ \A raw \in E : counts[raw] \in Nat
    BY <1>1, <1>2, <1>4
  <1>8. Sum(counts, K) \in Nat /\ Sum(counts, A) \in Nat
    BY <1>6, <1>7, PairsFinite
  <1>9. Sum(counts, K) <= Sum(counts, A)
    <2>1. \A raw \in K : counts[raw] = 0 \/ (raw \in A /\ counts[raw] <= counts[raw])
      BY <1>2, <1>4, <1>5, <1>7
    <2> QED
      BY <1>6, <1>7, <2>1, SumGrows
  <1>10. ASSUME Cardinality(whole) <= limit
         PROVE  IF label \in DOMAIN group THEN group[label] = Sum(counts, A)
                ELSE Sum(counts, A) = 0
    <2>1. Cardinality(whole) \in Nat
      BY <1>1, FS_CardinalityType
    <2>2. \A raw \in whole \ kept : counts[raw] = 0
      BY <1>2, <1>10, <2>1
    <2>3. CASE label \in DOMAIN group
      <3>1. \A raw \in A : counts[raw] = 0 \/ (raw \in K /\ counts[raw] <= counts[raw])
        BY <1>2, <1>4, <1>5, <1>7, <2>2
      <3>2. Sum(counts, A) <= Sum(counts, K)
        BY <1>6, <1>7, <3>1, SumGrows
      <3> QED
        BY <1>2, <1>8, <1>9, <2>3, <3>2
    <2>4. CASE label \notin DOMAIN group
      <3>1. \A raw \in A : counts[raw] = 0 \/ (raw \in E /\ counts[raw] <= counts[raw])
        BY <1>2, <1>4, <1>5, <2>2, <2>4
      <3>2. Sum(counts, A) <= Sum(counts, E)
        BY <1>6, <1>7, <3>1, SumGrows
      <3>3. Sum(counts, E) = Cardinality({})
        BY <1>4 DEF Sum
      <3>4. Sum(counts, E) = 0
        BY <3>3, FS_EmptySet
      <3> QED
        BY <1>8, <2>4, <3>2, <3>4
    <2> QED
      BY <2>3, <2>4
  <1> QED
    BY <1>2, <1>3, <1>8, <1>9, <1>10 DEF kept, group, whole

-----------------------------------------------------------------------------
(* What a shown answer was computed from. *)
LEMMA AnswerShown ==
  ASSUME TypeOK, PageInv, NEW answer \in stats.s
  PROVE  answer.window = stats.hours /\ answer.of \in UNION {Tallies[w] : w \in Ranges}
  BY DEF TypeOK, StatsType, Answers, PageInv, StatsClosed

LEMMA TallyShown ==
  ASSUME NEW tally \in UNION {Tallies[w] : w \in Ranges}, NEW dim \in Dims
  PROVE  /\ Served[tally][dim].total = Grouped(dim, Totals(tally, dim), Limits[dim][1])
         /\ Served[tally][dim].flagged = Grouped(dim, Flagged(tally, dim), Limits[dim][2])
         /\ Limits[dim][1] \in Nat /\ Limits[dim][2] \in Nat
         /\ Counts(Totals(tally, dim)) /\ Counts(Flagged(tally, dim))
         /\ DOMAIN Totals(tally, dim) = DOMAIN tally[dim]
         /\ DOMAIN Flagged(tally, dim) = DOMAIN tally[dim]
         /\ \A raw \in DOMAIN tally[dim] :
              /\ Totals(tally, dim)[raw] = tally[dim][raw].all
              /\ Flagged(tally, dim)[raw] = tally[dim][raw].flagged
              /\ Totals(tally, dim)[raw] \in Nat /\ Flagged(tally, dim)[raw] \in Nat
              /\ Flagged(tally, dim)[raw] <= Totals(tally, dim)[raw]
              /\ Label(dim, raw) \in Int
  <1>1. Served[tally] = StatsAggregate(tally)
    BY DEF Served
  <1>2. /\ Served[tally][dim].total = Grouped(dim, Totals(tally, dim), Limits[dim][1])
        /\ Served[tally][dim].flagged = Grouped(dim, Flagged(tally, dim), Limits[dim][2])
    BY <1>1 DEF StatsAggregate
  <1>3. Limits[dim][1] \in Nat /\ Limits[dim][2] \in Nat
    BY TablesAssumption
  <1>4. /\ DOMAIN tally[dim] \subseteq Int /\ IsFiniteSet(DOMAIN tally[dim])
        /\ \A raw \in DOMAIN tally[dim] :
             /\ tally[dim][raw].all \in Nat /\ tally[dim][raw].flagged \in Nat
             /\ tally[dim][raw].flagged <= tally[dim][raw].all
             /\ Label(dim, raw) \in Int
    BY TallyAssumption
  <1>5. /\ DOMAIN Totals(tally, dim) = DOMAIN tally[dim]
        /\ DOMAIN Flagged(tally, dim) = DOMAIN tally[dim]
        /\ \A raw \in DOMAIN tally[dim] :
              /\ Totals(tally, dim)[raw] = tally[dim][raw].all
              /\ Flagged(tally, dim)[raw] = tally[dim][raw].flagged
    BY DEF Totals, Flagged
  <1>6. Counts(Totals(tally, dim)) /\ Counts(Flagged(tally, dim))
    BY <1>4, <1>5 DEF Counts
  <1> QED
    BY <1>2, <1>3, <1>4, <1>5, <1>6

(* A part is at most a hundred percent. *)
LEMMA PercentOf ==
  ASSUME NEW v \in Nat, NEW t \in Nat
  PROVE  Percent(v, t) \in Int /\ (v <= t => Percent(v, t) <= 100)
  <1>1. CASE t = 0
    BY <1>1 DEF Percent
  <1>2. CASE t # 0
    <2> DEFINE d == 2 * t
               x == 200 * v + t
               p == x \div d
    <2>1. d \in Nat \ {0} /\ x \in Int
      BY <1>2
    <2>2. Percent(v, t) = p
      BY <1>2 DEF Percent
    <2>3. p \in Int /\ d * p <= x
      BY <2>1, DivFacts
    <2>4. v <= t => x < d * 101
      BY <1>2
    <2> HIDE DEF d, x, p
    <2>5. v <= t => d * p < d * 101
      <3>1. d * p \in Int /\ d * 101 \in Int
        BY <2>1, <2>3, Times
      <3> QED
        BY <2>1, <2>3, <2>4, <3>1
    <2>6. v <= t => p < 101
      BY <2>1, <2>3, <2>5, Times
    <2> QED
      BY <2>2, <2>3, <2>6
  <1> QED
    BY <1>1, <1>2

-----------------------------------------------------------------------------
(* The rate ranking: every row is a network's own, the rates never rise, and *)
(* a network left out is too small, or has no higher rate than any shown of  *)
(* a full ranking.                                                           *)
RowOK(group, min, rows, l) ==
  \/ group.total[l] < min
  \/ \E i \in DOMAIN rows : rows[i] = NetworkRow(group, l)
  \/ Len(rows) = ROWS /\ \A i \in DOMAIN rows : NetworkRow(group, l).rate <= rows[i].rate

LEMMA RatesOf ==
  ASSUME NEW group, Counts(group.total), Counts(group.flagged), NEW min \in Nat
  PROVE  /\ Len(NetworkRates(group, min)) \in Nat
         /\ DOMAIN NetworkRates(group, min) = 1 .. Len(NetworkRates(group, min))
         /\ \A i \in DOMAIN NetworkRates(group, min) :
              \E l \in DOMAIN group.total : /\ group.total[l] >= min
                                            /\ NetworkRates(group, min)[i] = NetworkRow(group, l)
         /\ \A i, j \in DOMAIN NetworkRates(group, min) :
              i < j => NetworkRates(group, min)[i].rate >= NetworkRates(group, min)[j].rate
         /\ \A l \in DOMAIN group.total : RowOK(group, min, NetworkRates(group, min), l)
  <1> DEFINE Large == {l \in DOMAIN group.total : group.total[l] >= min}
             R == {NetworkRow(group, l) : l \in Large}
             order == {p \in R \X R : \/ p[1].rate > p[2].rate
                                      \/ p[1].rate = p[2].rate /\ p[1].base > p[2].base
                                      \/ /\ p[1].rate = p[2].rate /\ p[1].base = p[2].base
                                         /\ p[1].label < p[2].label}
             f == Arranged(R, order)
             n == Cardinality(R)
             m == Smaller(ROWS, n)
             rows == NetworkRates(group, min)
  <1>1. /\ IsFiniteSet(DOMAIN group.total)
        /\ \A l \in DOMAIN group.total : l \in Int /\ group.total[l] \in Nat
    BY DEF Counts
  <1>2. ASSUME NEW l \in DOMAIN group.total
        PROVE  /\ NetworkRow(group, l).label = l /\ NetworkRow(group, l).label \in Int
               /\ NetworkRow(group, l).base = group.total[l] /\ NetworkRow(group, l).base \in Int
               /\ NetworkRow(group, l).rate \in Int
    <2>1. At(group.flagged, l) \in Nat
      BY DEF At, Counts
    <2>2. Percent(At(group.flagged, l), group.total[l]) \in Int
      BY <1>1, <2>1, PercentOf
    <2> QED
      BY <1>1, <2>2 DEF NetworkRow
  <1>3. rows = FirstOf(f, ROWS)
    BY DEF NetworkRates
  <1>4. Large \in SUBSET DOMAIN group.total
    OBVIOUS
  <1>5. \A l \in Large : group.total[l] >= min
    OBVIOUS
  <1>6. \A l \in DOMAIN group.total : l \in Large \/ group.total[l] < min
    BY <1>1
  <1> HIDE DEF Large
  <1>7. IsFiniteSet(R)
    <2>1. IsFiniteSet(Large)
      BY <1>1, <1>4, FS_Subset
    <2> DEFINE row == [l \in Large |-> NetworkRow(group, l)]
    <2>2. row \in Surjection(Large, R)
      BY Zenon DEF Surjection
    <2> HIDE DEF row, R
    <2> QED
      BY <2>1, <2>2, FS_Surjection
  <1>8. \A r \in R : \E l \in Large : r = NetworkRow(group, l)
    OBVIOUS
  <1>9. \A l \in Large : NetworkRow(group, l) \in R
    OBVIOUS
  <1>10. \A a, b \in R : <<a, b>> \in order <=>
           \/ a.rate > b.rate
           \/ a.rate = b.rate /\ a.base > b.base
           \/ a.rate = b.rate /\ a.base = b.base /\ a.label < b.label
    <2> HIDE DEF R
    <2> QED
      OBVIOUS
  <1> HIDE DEF R, order, rows
  <1>11. \A r \in R : r.rate \in Int /\ r.base \in Int /\ r.label \in Int
    BY <1>2, <1>4, <1>8
  <1>12. ASSUME NEW a \in R, NEW b \in R, a.label = b.label
         PROVE  a = b
    <2>1. PICK k \in Large : a = NetworkRow(group, k)
      BY <1>8
    <2>2. PICK l \in Large : b = NetworkRow(group, l)
      BY <1>8
    <2>3. a.label = k /\ b.label = l
      BY <1>2, <1>4, <2>1, <2>2
    <2> QED
      BY <1>12, <2>1, <2>2, <2>3
  <1>13. /\ \A i \in R : <<i, i>> \notin order
         /\ \A i, j \in R : i # j => <<i, j>> \in order \/ <<j, i>> \in order
         /\ \A h, i, j \in R : <<h, i>> \in order /\ <<i, j>> \in order => <<h, j>> \in order
    <2>1. \A i \in R : <<i, i>> \notin order
      BY <1>10, <1>11
    <2>2. \A i, j \in R : i # j => <<i, j>> \in order \/ <<j, i>> \in order
      BY <1>10, <1>11, <1>12
    <2>3. \A h, i, j \in R : <<h, i>> \in order /\ <<i, j>> \in order => <<h, j>> \in order
      BY <1>10, <1>11
    <2> QED
      BY <2>1, <2>2, <2>3
  <1>14. /\ f \in Seq(R) /\ Len(f) = n
         /\ \A r \in R : \E k \in 1 .. n : f[k] = r
         /\ \A k, l \in 1 .. n : k < l => <<f[k], f[l]>> \in order
    BY <1>7, <1>13, ArrangedProperties
  <1>15. n \in Nat
    BY <1>7, FS_CardinalityType
  <1> HIDE DEF f, n
  <1>16. m \in Nat /\ m <= n /\ (m = ROWS \/ m = n)
    BY <1>15, SmallerOf, TablesAssumption
  <1>17. DOMAIN rows = 1 .. m /\ Len(rows) = m /\ \A k \in 1 .. m : rows[k] = f[k]
    <2>1. ROWS \in Nat
      BY TablesAssumption
    <2>2. /\ Len(FirstOf(f, ROWS)) = Smaller(ROWS, Len(f))
          /\ DOMAIN FirstOf(f, ROWS) = 1 .. Smaller(ROWS, Len(f))
          /\ \A k \in 1 .. Smaller(ROWS, Len(f)) : FirstOf(f, ROWS)[k] = f[k]
      BY <1>14, <2>1, HeadOf, Zenon
    <2> QED
      BY <1>3, <1>14, <2>2
  <1> HIDE DEF m
  <1>18. \A k \in 1 .. m : k \in 1 .. n
    BY <1>15, <1>16
  <1>19. \A k \in 1 .. n : f[k] \in R /\ k \in Int
    BY <1>14, <1>15, LenProperties
  <1>20. \A i \in 1 .. m : \E l \in DOMAIN group.total :
           group.total[l] >= min /\ rows[i] = NetworkRow(group, l)
    BY <1>4, <1>5, <1>8, <1>17, <1>18, <1>19
  <1>21. ASSUME NEW i \in 1 .. n, NEW j \in 1 .. n, i < j
         PROVE  f[i].rate >= f[j].rate
    <2>1. f[i] \in R /\ f[j] \in R
      BY <1>19
    <2>2. f[i].rate \in Int /\ f[j].rate \in Int
      BY <1>11, <2>1
    <2>3. f[i].rate > f[j].rate \/ f[i].rate = f[j].rate
      BY <1>10, <1>14, <1>21, <2>1
    <2> QED
      BY <2>2, <2>3
  <1>22. ASSUME NEW l \in DOMAIN group.total
         PROVE  RowOK(group, min, rows, l)
    <2>1. CASE group.total[l] < min
      BY <2>1 DEF RowOK
    <2>2. CASE l \in Large
      <3>1. PICK k \in 1 .. n : f[k] = NetworkRow(group, l)
        BY <1>9, <1>14, <2>2
      <3>2. CASE k \in 1 .. m
        BY <1>17, <3>1, <3>2 DEF RowOK
      <3>3. CASE k \notin 1 .. m
        <4>1. k \in Int /\ m < k /\ m = ROWS
          BY <1>15, <1>16, <1>19, <3>3
        <4>2. \A i \in 1 .. m : i \in 1 .. n /\ i < k
          BY <1>15, <1>16, <4>1
        <4>3. \A i \in 1 .. m : f[i].rate >= f[k].rate
          BY <1>21, <4>2
        <4>4. \A i \in 1 .. m : f[k].rate <= rows[i].rate
          <5>1. \A i \in 1 .. m : f[i].rate \in Int /\ f[k].rate \in Int
            BY <1>11, <1>19, <4>2
          <5> QED
            BY <1>17, <4>3, <5>1
        <4> QED
          BY <1>17, <3>1, <4>1, <4>4 DEF RowOK
      <3> QED
        BY <3>2, <3>3
    <2> QED
      BY <1>6, <2>1, <2>2
  <1> QED
    BY <1>16, <1>17, <1>18, <1>20, <1>21, <1>22 DEF rows

-----------------------------------------------------------------------------
(* The tables are true of what is stored. *)
LEMMA RatesHonest ==
  ASSUME TypeOK, PageInv
  PROVE  RatesTrue
  <1> SUFFICES ASSUME NEW answer \in stats.s
               PROVE  LET rows    == NetworkTable(answer)
                          hosts   == Totals(answer.of, "network")
                          flagged == Flagged(answer.of, "network")
                          Unlisted(n) == Outnumbered(flagged, n, Limits["network"][2])
                      IN  /\ \A i \in DOMAIN rows :
                               /\ rows[i].base = hosts[rows[i].label]
                               /\ rows[i].base >= NetworkRateMinimum(answer.window)
                               /\ rows[i].rate <= 100
                               /\ \/ rows[i].flagged = flagged[rows[i].label]
                                  \/ Unlisted(rows[i].label) /\ rows[i].flagged = 0
                               /\ \A j \in DOMAIN rows : i < j => rows[i].rate >= rows[j].rate
                          /\ \A n \in DOMAIN hosts :
                               \/ n \in {rows[i].label : i \in DOMAIN rows}
                               \/ hosts[n] < NetworkRateMinimum(answer.window)
                               \/ Outnumbered(hosts, n, Limits["network"][1])
                               \/ /\ Len(rows) = ROWS
                                  /\ \/ Percent(flagged[n], hosts[n]) <= rows[ROWS].rate
                                     \/ Unlisted(n)
    BY DEF RatesTrue
  <1> DEFINE tally == answer.of
             group == Served[tally]["network"]
             hosts == Totals(tally, "network")
             flagged == Flagged(tally, "network")
             most == Limits["network"][1]
             worst == Limits["network"][2]
             min == NetworkRateMinimum(answer.window)
             rows == NetworkTable(answer)
             heldT == Held(hosts, most)
             heldF == Held(flagged, worst)
  <1>1. answer.window = stats.hours /\ tally \in UNION {Tallies[w] : w \in Ranges}
    BY AnswerShown
  <1>2. min \in Nat /\ min > 0 /\ rows = NetworkRates(group, min)
    BY <1>1 DEF NetworkRateMinimum, NetworkTable
  <1>3. "network" \in Dims /\ "network" # "product"
    BY DEF Dims
  <1> HIDE DEF tally
  <1>4. /\ group.total = Grouped("network", hosts, most)
        /\ group.flagged = Grouped("network", flagged, worst)
        /\ most \in Nat /\ worst \in Nat
        /\ Counts(hosts) /\ Counts(flagged)
        /\ DOMAIN flagged = DOMAIN hosts
        /\ \A raw \in DOMAIN hosts :
              hosts[raw] \in Nat /\ flagged[raw] \in Nat /\ flagged[raw] <= hosts[raw]
    BY <1>1, <1>3, TallyShown
  <1> HIDE DEF group, hosts, flagged, most, worst, min, rows
  <1>5. /\ DOMAIN group.total = heldT /\ \A raw \in heldT : group.total[raw] = hosts[raw]
        /\ DOMAIN group.flagged = heldF /\ \A raw \in heldF : group.flagged[raw] = flagged[raw]
    <2>1. \A counts, limit : Counts(counts) /\ limit \in Nat =>
            /\ DOMAIN Grouped("network", counts, limit) = Held(counts, limit)
            /\ \A raw \in Held(counts, limit) :
                 Grouped("network", counts, limit)[raw] = counts[raw]
      BY <1>3, PlainGroup, Zenon
    <2> QED
      BY <1>4, <2>1
  <1>6. /\ heldT \subseteq DOMAIN hosts /\ IsFiniteSet(heldT)
        /\ heldF \subseteq DOMAIN hosts /\ IsFiniteSet(heldF)
    BY <1>4, GroupedOf DEF Found
  <1>7. \A raw \in DOMAIN hosts \ heldT : hosts[raw] = 0 \/ Outnumbered(hosts, raw, most)
    BY <1>4, LeftOut
  <1>8. \A raw \in DOMAIN hosts \ heldF : flagged[raw] = 0 \/ Outnumbered(flagged, raw, worst)
    BY <1>4, LeftOut
  <1> HIDE DEF heldT, heldF
  <1>9. Counts(group.total) /\ Counts(group.flagged)
    <2>1. DOMAIN hosts \subseteq Int
      BY <1>4 DEF Counts
    <2> QED
      BY <1>4, <1>5, <1>6, <2>1 DEF Counts
  <1>10. /\ Len(rows) \in Nat /\ DOMAIN rows = 1 .. Len(rows)
         /\ \A i \in DOMAIN rows : \E l \in DOMAIN group.total :
              group.total[l] >= min /\ rows[i] = NetworkRow(group, l)
         /\ \A i, j \in DOMAIN rows : i < j => rows[i].rate >= rows[j].rate
         /\ \A l \in DOMAIN group.total : RowOK(group, min, rows, l)
    BY <1>2, <1>9, RatesOf
  <1>11. ASSUME NEW l \in heldT
         PROVE  /\ NetworkRow(group, l).label = l /\ NetworkRow(group, l).base = hosts[l]
                /\ NetworkRow(group, l).rate = Percent(NetworkRow(group, l).flagged, hosts[l])
                /\ NetworkRow(group, l).rate <= 100
                /\ \/ NetworkRow(group, l).flagged = flagged[l]
                   \/ Outnumbered(flagged, l, worst) /\ NetworkRow(group, l).flagged = 0
    <2> DEFINE had == At(group.flagged, l)
    <2>1. /\ NetworkRow(group, l).label = l /\ NetworkRow(group, l).base = hosts[l]
          /\ NetworkRow(group, l).flagged = had
          /\ NetworkRow(group, l).rate = Percent(had, hosts[l])
      BY <1>5 DEF NetworkRow
    <2>2. /\ l \in DOMAIN hosts /\ hosts[l] \in Nat
          /\ flagged[l] \in Nat /\ flagged[l] <= hosts[l]
      BY <1>4, <1>6
    <2>3. had = flagged[l] \/ (Outnumbered(flagged, l, worst) /\ had = 0)
      <3>1. CASE l \in heldF
        BY <1>5, <3>1 DEF At
      <3>2. CASE l \notin heldF
        <4>1. had = 0
          BY <1>5, <3>2 DEF At
        <4> QED
          BY <1>8, <2>2, <3>2, <4>1
      <3> QED
        BY <3>1, <3>2
    <2>4. had \in Nat /\ had <= hosts[l]
      BY <2>2, <2>3
    <2> HIDE DEF had
    <2>5. Percent(had, hosts[l]) <= 100
      BY <2>2, <2>4, PercentOf
    <2> QED
      BY <2>1, <2>3, <2>5
  <1>12. ASSUME NEW i \in DOMAIN rows
         PROVE  /\ rows[i].base = hosts[rows[i].label]
                /\ rows[i].base >= min
                /\ rows[i].rate <= 100
                /\ \/ rows[i].flagged = flagged[rows[i].label]
                   \/ Outnumbered(flagged, rows[i].label, worst) /\ rows[i].flagged = 0
    <2>1. PICK l \in DOMAIN group.total : group.total[l] >= min /\ rows[i] = NetworkRow(group, l)
      BY <1>10
    <2> QED
      BY <1>5, <1>11, <2>1
  <1>13. ASSUME NEW n \in DOMAIN hosts
         PROVE  \/ n \in {rows[i].label : i \in DOMAIN rows}
                \/ hosts[n] < min
                \/ Outnumbered(hosts, n, most)
                \/ /\ Len(rows) = ROWS
                   /\ Percent(flagged[n], hosts[n]) <= rows[ROWS].rate \/ Outnumbered(flagged, n, worst)
    <2>1. CASE n \notin heldT
      <3>1. hosts[n] = 0 => hosts[n] < min
        BY <1>2
      <3> QED
        BY <1>7, <2>1, <3>1
    <2>2. CASE n \in heldT
      <3>1. RowOK(group, min, rows, n) /\ group.total[n] = hosts[n]
        BY <1>5, <1>10, <2>2
      <3>2. Len(rows) = ROWS => ROWS \in DOMAIN rows
        BY <1>10, TablesAssumption
      <3>3. NetworkRow(group, n).label = n
        BY <1>11, <2>2
      <3>4. \/ NetworkRow(group, n).rate = Percent(flagged[n], hosts[n])
            \/ Outnumbered(flagged, n, worst)
        BY <1>11, <2>2
      <3> QED
        BY <3>1, <3>2, <3>3, <3>4 DEF RowOK
    <2> QED
      BY <2>1, <2>2
  <1> QED
    BY <1>10, <1>12, <1>13 DEF tally, hosts, flagged, most, worst, min, rows

(* What is flagged of a group is a part of it, unless banners were cut.      *)
LEMMA FlaggedPart ==
  ASSUME NEW tally \in UNION {Tallies[w] : w \in Ranges}, NEW dim \in Dims,
         dim # "product" \/ ~(Cardinality(DOMAIN tally[dim]) > Limits[dim][1]),
         NEW l \in DOMAIN Served[tally][dim].total,
         l \in DOMAIN Served[tally][dim].flagged
  PROVE  /\ Served[tally][dim].total[l] \in Nat /\ Served[tally][dim].flagged[l] \in Nat
         /\ Served[tally][dim].flagged[l] <= Served[tally][dim].total[l]
  <1> DEFINE group == Served[tally][dim]
             totals == Totals(tally, dim)
             flags == Flagged(tally, dim)
             whole == DOMAIN tally[dim]
             named == {raw \in whole : Label(dim, raw) = l}
  <1>1. /\ group.total = Grouped(dim, totals, Limits[dim][1])
        /\ group.flagged = Grouped(dim, flags, Limits[dim][2])
        /\ Limits[dim][1] \in Nat /\ Limits[dim][2] \in Nat
        /\ Counts(totals) /\ Counts(flags)
        /\ DOMAIN totals = whole /\ DOMAIN flags = whole
        /\ \A raw \in whole :
             totals[raw] \in Nat /\ flags[raw] \in Nat /\ flags[raw] <= totals[raw]
    BY TallyShown
  <1>2. IsFiniteSet(whole)
    BY <1>1 DEF Counts
  <1> HIDE DEF group, totals, flags, whole
  <1>3. l \in DOMAIN group.total /\ l \in DOMAIN group.flagged
    BY DEF group
  <1>4. CASE dim # "product"
    <2>1. /\ DOMAIN group.total = Held(totals, Limits[dim][1])
          /\ \A raw \in DOMAIN group.total : group.total[raw] = totals[raw]
          /\ \A raw \in DOMAIN group.flagged : group.flagged[raw] = flags[raw]
      BY <1>1, <1>4, PlainGroup
    <2>2. Held(totals, Limits[dim][1]) \subseteq whole
      BY <1>1, GroupedOf DEF Found
    <2> QED
      BY <1>1, <1>3, <2>1, <2>2 DEF group
  <1>5. CASE ~(Cardinality(whole) > Limits[dim][1])
    <2>1. Cardinality(whole) \in Nat /\ Cardinality(whole) <= Limits[dim][1]
      BY <1>1, <1>2, <1>5, FS_CardinalityType
    <2>2. /\ group.total[l] = StoredAs(dim, totals, l) /\ group.total[l] \in Nat
          /\ group.flagged[l] \in Nat /\ group.flagged[l] <= StoredAs(dim, flags, l)
          /\ StoredAs(dim, flags, l) \in Nat
      BY <1>1, <1>3, <2>1, GroupStored
    <2>3. StoredAs(dim, totals, l) = Sum(totals, named) /\ StoredAs(dim, flags, l) = Sum(flags, named)
      BY <1>1 DEF StoredAs
    <2>4. named \in SUBSET whole
      OBVIOUS
    <2> HIDE DEF named
    <2>5. IsFiniteSet(named)
      BY <1>2, <2>4, FS_Subset
    <2>6. \A raw \in named : /\ totals[raw] \in Nat /\ flags[raw] \in Nat
                             /\ flags[raw] = 0 \/ (raw \in named /\ flags[raw] <= totals[raw])
      BY <1>1, <2>4
    <2>7. Sum(flags, named) <= Sum(totals, named)
      BY <2>5, <2>6, SumGrows
    <2> QED
      BY <2>2, <2>3, <2>7 DEF group
  <1> QED
    BY <1>4, <1>5 DEF whole

LEMMA ConcentrationHonest ==
  ASSUME TypeOK, PageInv
  PROVE  ConcentrationTrue
  <1> SUFFICES ASSUME NEW answer \in stats.s, NEW dim \in Dims \ {"network"}
               PROVE  LET group == Served[answer.of][dim]
                          table == ConcentrationOf(answer, dim)
                          true  == answer.of[dim]
                          cut   == Cardinality(DOMAIN true) > Limits[dim][1]
                      IN  /\ DOMAIN table = DOMAIN CountWithMinimumBase(group)
                          /\ \A l \in DOMAIN table :
                               /\ group.total[l] >= 20
                               /\ stats.density /\ table[l] > 100 => dim = "product" /\ cut
    BY DEF ConcentrationTrue
  <1> DEFINE tally == answer.of
             group == Served[tally][dim]
             table == ConcentrationOf(answer, dim)
             cut == Cardinality(DOMAIN tally[dim]) > Limits[dim][1]
             based == {l \in DOMAIN group.flagged : At(group.total, l) >= MinSample}
  <1>1. tally \in UNION {Tallies[w] : w \in Ranges}
    BY AnswerShown
  <1>2. table = IF stats.density THEN [l \in based |-> Percent(group.flagged[l], group.total[l])]
                ELSE [l \in based |-> group.flagged[l]]
    BY DEF ConcentrationOf, Concentration, RateMap, CountWithMinimumBase
  <1>3. DOMAIN table = based /\ DOMAIN CountWithMinimumBase(group) = based
    BY <1>2 DEF CountWithMinimumBase
  <1>4. \A l \in based : /\ l \in DOMAIN group.flagged /\ l \in DOMAIN group.total
                         /\ group.total[l] >= 20
    BY DEF At, MinSample
  <1> HIDE DEF tally, group, table, cut, based
  <1>5. ASSUME NEW l \in based, stats.density, table[l] > 100
        PROVE  dim = "product" /\ cut
    <2> SUFFICES ASSUME dim # "product" \/ ~cut
                 PROVE  FALSE
      OBVIOUS
    <2> DEFINE v == group.flagged[l]
               t == group.total[l]
    <2>1. v \in Nat /\ t \in Nat /\ v <= t
      BY <1>1, <1>4, FlaggedPart DEF group, cut
    <2>2. table[l] = Percent(v, t)
      BY <1>2, <1>5
    <2> HIDE DEF v, t
    <2>3. Percent(v, t) \in Int /\ Percent(v, t) <= 100
      BY <2>1, PercentOf
    <2> QED
      BY <1>5, <2>2, <2>3
  <1> QED
    BY <1>3, <1>4, <1>5 DEF tally, group, table, cut

(* The head of a ranking is a largest. *)
LEMMA TopOf ==
  ASSUME NEW data, Counts(data), NEW l \in ToSet(Top(data))
  PROVE  l \in DOMAIN data /\ \A k \in DOMAIN data : data[k] <= data[l]
  <1> DEFINE S == DOMAIN data
             f == StableRank(data)
             n == Cardinality(S)
             m == Smaller(1, n)
             top == Top(data)
  <1>1. /\ f \in Seq(S) /\ Len(f) = n
        /\ \A k \in S : \E i \in 1 .. n : f[i] = k
        /\ \A i, j \in 1 .. n : i < j => data[f[i]] >= data[f[j]]
    BY RankOf
  <1>2. n \in Nat /\ \A k \in S : data[k] \in Nat
    BY FS_CardinalityType DEF Counts
  <1>3. top = FirstOf(f, 1)
    BY DEF Top
  <1>4. l \in {top[i] : i \in DOMAIN top}
    BY DEF ToSet
  <1> HIDE DEF S, f, n, top
  <1>5. m \in Nat /\ m <= 1 /\ m <= n
    BY <1>2, SmallerOf
  <1>6. DOMAIN top = 1 .. m /\ \A i \in 1 .. m : top[i] = f[i]
    <2>1. 1 \in Nat
      OBVIOUS
    <2>2. /\ DOMAIN FirstOf(f, 1) = 1 .. Smaller(1, Len(f))
          /\ \A k \in 1 .. Smaller(1, Len(f)) : FirstOf(f, 1)[k] = f[k]
      BY <1>1, <2>1, HeadOf, Zenon
    <2> QED
      BY <1>1, <1>3, <2>2
  <1> HIDE DEF m
  <1>7. PICK h \in 1 .. m : l = f[h]
    BY <1>4, <1>6
  <1>8. l = f[1] /\ 1 \in 1 .. n
    BY <1>2, <1>5, <1>7
  <1>9. \A i \in 1 .. n : f[i] \in S /\ (i = 1 \/ 1 < i)
    BY <1>1, <1>2, LenProperties
  <1>10. ASSUME NEW k \in S
         PROVE  data[k] <= data[l]
    <2>1. PICK j \in 1 .. n : f[j] = k
      BY <1>1
    <2>2. f[1] \in S /\ data[f[1]] \in Nat /\ data[k] \in Nat
      BY <1>2, <1>8, <1>9
    <2>3. j = 1 \/ data[f[1]] >= data[f[j]]
      BY <1>1, <1>8, <1>9
    <2> QED
      BY <1>8, <2>1, <2>2, <2>3
  <1> QED
    BY <1>8, <1>9, <1>10 DEF S

(* What the API tells of a dimension are counts again. *)
LEMMA GroupCounts ==
  ASSUME NEW dim, NEW counts, Counts(counts), NEW limit \in Nat,
         \A raw \in DOMAIN counts : Label(dim, raw) \in Int
  PROVE  Counts(Grouped(dim, counts, limit))
  <1> DEFINE kept == Held(counts, limit)
             group == Grouped(dim, counts, limit)
             labels == {Label(dim, raw) : raw \in kept}
             label == [raw \in kept |-> Label(dim, raw)]
  <1>1. kept \subseteq DOMAIN counts /\ IsFiniteSet(kept) /\ DOMAIN group = labels
    BY GroupedOf DEF Found
  <1>2. \A l \in DOMAIN group : group[l] \in Nat
    BY GroupStored
  <1> HIDE DEF kept, group
  <1>3. labels \subseteq Int
    BY <1>1
  <1>4. label \in Surjection(kept, labels)
    BY Zenon DEF Surjection
  <1> HIDE DEF label, labels
  <1>5. IsFiniteSet(labels)
    BY <1>1, <1>4, FS_Surjection
  <1> QED
    BY <1>1, <1>2, <1>3, <1>5 DEF Counts, group

(* The largest group is told with what is stored of it, and nothing stored   *)
(* is larger; of products with banners cut, with no more than is stored.     *)
LEMMA LargestGroup ==
  ASSUME NEW tally \in UNION {Tallies[w] : w \in Ranges}, NEW dim \in Dims,
         NEW l \in ToSet(Top(Served[tally][dim].total))
  PROVE  IF dim = "product" /\ Cardinality(DOMAIN tally[dim]) > Limits[dim][1]
         THEN Served[tally][dim].total[l] <= StoredAs(dim, Totals(tally, dim), l)
         ELSE /\ Served[tally][dim].total[l] = StoredAs(dim, Totals(tally, dim), l)
              /\ \A raw \in DOMAIN tally[dim] :
                   StoredAs(dim, Totals(tally, dim), Label(dim, raw)) <= Served[tally][dim].total[l]
  <1> DEFINE totals == Totals(tally, dim)
             limit == Limits[dim][1]
             group == Grouped(dim, totals, limit)
             whole == DOMAIN tally[dim]
             kept == Held(totals, limit)
             Stored(label) == StoredAs(dim, totals, label)
  <1>1. /\ Served[tally][dim].total = group /\ limit \in Nat
        /\ Counts(totals) /\ DOMAIN totals = whole
        /\ \A raw \in whole : totals[raw] \in Nat /\ Label(dim, raw) \in Int
    BY TallyShown
  <1>2. Counts(group)
    BY <1>1, GroupCounts
  <1>3. l \in ToSet(Top(group))
    BY <1>1
  <1> HIDE DEF totals, limit, group, whole, kept
  <1>4. l \in DOMAIN group /\ \A k \in DOMAIN group : group[k] <= group[l]
    BY <1>2, <1>3, TopOf
  <1>5. group[l] \in Nat
    BY <1>2, <1>4 DEF Counts
  <1>6. group[l] <= Stored(l)
    BY <1>1, <1>4, GroupStored DEF group
  <1>7. CASE dim # "product"
    <2>1. /\ DOMAIN group = kept /\ \A raw \in kept : group[raw] = totals[raw]
      BY <1>1, <1>7, PlainGroup DEF group, kept
    <2>2. /\ kept \subseteq whole
          /\ \A raw \in whole \ kept :
               totals[raw] = 0 \/ \A k \in kept : totals[k] >= totals[raw]
      BY <1>1, GroupedOf DEF kept, Found
    <2>3. ASSUME NEW raw \in whole
          PROVE  Stored(raw) = totals[raw] /\ Label(dim, raw) = raw
      <3>1. \A r \in whole : Label(dim, r) = r
        BY <1>7 DEF Label
      <3>2. {r \in DOMAIN totals : Label(dim, r) = raw} = {raw}
        BY <1>1, <3>1
      <3>3. Stored(raw) = Sum(totals, {raw})
        BY <3>2 DEF StoredAs
      <3>4. totals[raw] \in Nat
        BY <1>1
      <3> QED
        BY <3>1, <3>3, <3>4, SumOne
    <2>4. l \in kept /\ l \in whole /\ group[l] = totals[l]
      BY <1>4, <2>1, <2>2
    <2>5. ASSUME NEW raw \in whole
          PROVE  Stored(Label(dim, raw)) <= group[l]
      <3>1. Stored(Label(dim, raw)) = totals[raw] /\ totals[raw] \in Nat
        BY <1>1, <2>3
      <3>2. CASE raw \in kept
        BY <1>4, <2>1, <3>1, <3>2
      <3>3. CASE raw \notin kept
        BY <1>5, <2>2, <2>4, <3>1, <3>3
      <3> QED
        BY <3>2, <3>3
    <2>6. group[l] = Stored(l)
      BY <2>3, <2>4
    <2> QED
      BY <1>1, <1>7, <2>5, <2>6 DEF totals, whole
  <1>8. CASE dim = "product" /\ ~(Cardinality(whole) > limit)
    <2>1. IsFiniteSet(whole)
      BY <1>1 DEF Counts
    <2>2. Cardinality(whole) \in Nat /\ Cardinality(whole) <= limit
      BY <1>1, <1>8, <2>1, FS_CardinalityType
    <2>3. \A label : IF label \in DOMAIN group THEN group[label] = Stored(label)
                     ELSE Stored(label) = 0
      <3>1. TAKE label
      <3>2. Cardinality(DOMAIN totals) <= limit
        BY <1>1, <2>2
      <3> QED
        BY <1>1, <3>2, GroupStored DEF group
    <2>4. \A raw \in whole : Stored(Label(dim, raw)) <= group[l]
      BY <1>4, <1>5, <2>3
    <2> QED
      BY <1>1, <1>4, <1>8, <2>3, <2>4 DEF totals, whole, limit
  <1>9. CASE dim = "product" /\ Cardinality(whole) > limit
    BY <1>1, <1>6, <1>9 DEF totals, whole, limit
  <1> QED
    BY <1>7, <1>8, <1>9

LEMMA HighlightsHonest ==
  ASSUME TypeOK, PageInv
  PROVE  HighlightsTrue
  <1> SUFFICES ASSUME NEW answer \in stats.s, NEW h \in Highlights(answer)
               PROVE  LET true == answer.of[h.href.dim]
                          cut  == h.href.dim = "product" /\ Cardinality(DOMAIN true) > Limits["product"][1]
                          Stored(label) == Sum([raw \in DOMAIN true |-> true[raw].all],
                                               {raw \in DOMAIN true : Label(h.href.dim, raw) = label})
                      IN  /\ h.href.hours = stats.hours
                          /\ IF cut THEN h.count <= Stored(h.href.label)
                             ELSE /\ h.count = Stored(h.href.label)
                                  /\ \A raw \in DOMAIN true : Stored(Label(h.href.dim, raw)) <= h.count
    BY DEF HighlightsTrue
  <1>1. answer.window = stats.hours /\ answer.of \in UNION {Tallies[w] : w \in Ranges}
    BY AnswerShown
  <1>2. PICK dim \in {"network", "port", "product"} :
          h \in {[count |-> Served[answer.of][dim].total[label],
                  href |-> SearchHref(answer, dim, label)] :
                    label \in ToSet(Top(Served[answer.of][dim].total))}
    BY DEF Highlights
  <1>3. PICK l \in ToSet(Top(Served[answer.of][dim].total)) :
          h = [count |-> Served[answer.of][dim].total[l], href |-> SearchHref(answer, dim, l)]
    BY <1>2
  <1>4. /\ h.href.dim = dim /\ h.href.label = l /\ h.href.hours = stats.hours
        /\ h.count = Served[answer.of][dim].total[l]
    BY <1>1, <1>3 DEF SearchHref
  <1> DEFINE true == answer.of[dim]
             totals == Totals(answer.of, dim)
             Stored(label) == Sum([raw \in DOMAIN true |-> true[raw].all],
                                  {raw \in DOMAIN true : Label(dim, raw) = label})
  <1>5. totals = [raw \in DOMAIN true |-> true[raw].all] /\ DOMAIN totals = DOMAIN true
    BY DEF Totals
  <1>6. \A label : StoredAs(dim, totals, label) = Stored(label)
    BY <1>5 DEF StoredAs
  <1>7. dim \in Dims
    BY DEF Dims
  <1>8. IF dim = "product" /\ Cardinality(DOMAIN true) > Limits[dim][1]
        THEN h.count <= StoredAs(dim, totals, l)
        ELSE /\ h.count = StoredAs(dim, totals, l)
             /\ \A raw \in DOMAIN true : StoredAs(dim, totals, Label(dim, raw)) <= h.count
    BY <1>1, <1>4, <1>7, LargestGroup
  <1> HIDE DEF true, totals
  <1>9. IF dim = "product" /\ Cardinality(DOMAIN true) > Limits["product"][1]
        THEN h.count <= Stored(l)
        ELSE /\ h.count = Stored(l)
             /\ \A raw \in DOMAIN true : Stored(Label(dim, raw)) <= h.count
    BY <1>6, <1>8
  <1> QED
    BY <1>4, <1>9 DEF true

(* The rate ranking, the concentration tables and the window snapshot are    *)
(* true of what is stored of the very window they stand under, whatever the  *)
(* tallies, the limits of the API and the window (Stats.tsx:62-106, 230-292, *)
(* 336-365).                                                                 *)
THEOREM TablesAreTrue == Spec => []TablesTrue
  <1>1. IInv => TablesTrue
    BY RatesHonest, ConcentrationHonest, HighlightsHonest DEF IInv, TablesTrue
  <1> QED
    BY <1>1, Invariance, PTL
=============================================================================
