--------------------------- MODULE Listings_proofs ---------------------------
(* Proofs about the feed, the search page and their history, for every set   *)
(* of services, texts, filters and links, every page size and number of      *)
(* calls.  First the history and the calls: a call that may still answer is  *)
(* for the listing and the page now asked for (IInv).  From it, what is on   *)
(* the tiles: the top of the listing named (ListInv), each on one card.      *)
EXTENDS Listings, SequenceTheorems, FiniteSetTheorems, TLAPS

(* An address whose parameters the page can take. *)
URLOK(url) == /\ \A f \in Fields : f \in DOMAIN url => url[f] \in FilterValues
              /\ "q" \in DOMAIN url => url["q"] \in Texts

(* Filters a page mounted on their own address would have again. *)
Kept(filters) == \A f \in Fields : \/ filters[f] = Default \/ f \in Unvalidated
                                   \/ filters[f] \in Valid[f]

Trimmed(t) == Trim[t] = t

(* The entries of the history. *)
Pages == {Entry("feed", <<>>)} \cup
         {Entry("search", ToURL(t, filters)) : t \in {u \in Texts : Trimmed(u)},
                                               filters \in {g \in FilterType : Kept(g)}}

LEMMA Names == "q" \notin Fields /\ "group" \in Fields /\ Default = "default"
  BY DEF Fields, Default

LEMMA WrittenURL ==
  ASSUME NEW t \in Texts, NEW filters \in FilterType
  PROVE  /\ "q" \in DOMAIN ToURL(t, filters) <=> t # ""
         /\ t # "" => ToURL(t, filters)["q"] = t
         /\ \A f \in Fields : /\ f \in DOMAIN ToURL(t, filters) <=> filters[f] # Default
                              /\ filters[f] # Default => ToURL(t, filters)[f] = filters[f]
  <1> DEFINE params == {f \in Fields : filters[f] # Default} \cup (IF t = "" THEN {} ELSE {"q"})
  <1>1. ToURL(t, filters) = [p \in params |-> IF p = "q" THEN t ELSE filters[p]]
    BY DEF ToURL
  <1>2. /\ "q" \in params <=> t # ""
        /\ \A f \in Fields : f \in params <=> filters[f] # Default
    BY Names
  <1> HIDE DEF params
  <1> QED
    BY <1>1, <1>2, Names

(* The round trip: the address written for a query asks for that query.      *)
LEMMA URLRoundTrip ==
  ASSUME NEW t \in Texts, NEW filters \in FilterType
  PROVE  /\ URLOK(ToURL(t, filters))
         /\ Trimmed(t) /\ Kept(filters) =>
              /\ SearchStart(ToURL(t, filters)).debounced = t
              /\ SearchStart(ToURL(t, filters)).filters = filters
  <1> DEFINE url == ToURL(t, filters)
  <1>1. /\ "q" \in DOMAIN url <=> t # ""
        /\ t # "" => url["q"] = t
        /\ \A f \in Fields : /\ f \in DOMAIN url <=> filters[f] # Default
                             /\ filters[f] # Default => url[f] = filters[f]
    BY WrittenURL
  <1> HIDE DEF url
  <1>2. URLOK(url)
    BY <1>1 DEF URLOK, FilterType
  <1>3. SeededText(url) = t
    BY <1>1 DEF SeededText
  <1>4. Kept(filters) => Seeded(url) = filters
    <2>1. SUFFICES ASSUME Kept(filters)
                   PROVE  \A f \in Fields : Seeded(url)[f] = filters[f]
      BY DEF Seeded, FilterType
    <2> QED
      BY <1>1, <2>1 DEF Seeded, Kept
  <1> QED
    BY <1>2, <1>3, <1>4 DEF url, SearchStart, Trimmed

(* The state of a page mounted on an address. *)
LEMMA Started ==
  ASSUME NEW url, URLOK(url)
  PROVE  /\ SearchStart(url).q \in Texts /\ SearchStart(url).debounced \in Texts
         /\ Trimmed(SearchStart(url).debounced)
         /\ SearchStart(url).filters \in FilterType /\ Kept(SearchStart(url).filters)
         /\ SearchStart(url).page = 0
  <1>1. SeededText(url) \in Texts
    BY SearchAssumption DEF SeededText, URLOK
  <1>2. Trim[SeededText(url)] \in Texts /\ Trimmed(Trim[SeededText(url)])
    BY <1>1, SearchAssumption DEF Trimmed
  <1>3. Default \in FilterValues
    BY DEF FilterValues
  <1>4. Seeded(url) \in FilterType
    BY <1>3 DEF Seeded, FilterType, URLOK
  <1>5. Kept(Seeded(url))
    BY DEF Kept, Seeded
  <1> QED
    BY <1>1, <1>2, <1>4, <1>5 DEF SearchStart

LEMMA LinkedURL ==
  /\ \A url \in Linked : URLOK(url)
  /\ URLOK(<<>>)
  /\ \A e \in Pages : e.page = "search" => URLOK(e.query)
  <1>1. ASSUME NEW url \in Linked
        PROVE  URLOK(url)
    <2>1. ASSUME NEW f \in Fields, f \in DOMAIN url
          PROVE  url[f] \in FilterValues
      <3>1. url[f] \in {url[g] : g \in Fields \cap DOMAIN url}
        BY <2>1
      <3>2. url[f] \in UNION {{u[g] : g \in Fields \cap DOMAIN u} : u \in Linked}
        BY <3>1
      <3> QED
        BY <3>2 DEF FilterValues
    <2> QED
      BY <2>1, SearchAssumption DEF URLOK
  <1>2. URLOK(<<>>)
    <2>1. DOMAIN <<>> = {}
      OBVIOUS
    <2> QED
      BY <2>1 DEF URLOK
  <1>3. \A e \in Pages : e.page = "search" => URLOK(e.query)
    BY URLRoundTrip DEF Pages, Entry
  <1> QED
    BY <1>1, <1>2, <1>3

-----------------------------------------------------------------------------
(* Page state as far as it matters here. *)
StateOK(s) == /\ s = [q |-> s.q, debounced |-> s.debounced, filters |-> s.filters,
                      tiles |-> s.tiles, page |-> s.page, more |-> s.more, total |-> s.total,
                      hosts |-> s.hosts, loading |-> s.loading, touched |-> s.touched,
                      error |-> s.error]
              /\ s.q \in Texts /\ s.debounced \in Texts /\ Trimmed(s.debounced)
              /\ s.filters \in FilterType /\ Kept(s.filters) /\ s.page \in Nat

FeedOK(f) == /\ f = [mode |-> f.mode, group |-> f.group, tiles |-> f.tiles, offset |-> f.offset,
                     more |-> f.more, loading |-> f.loading, error |-> f.error]
             /\ f.mode \in Modes /\ f.offset \in Nat

FeedCallType == [mode : Modes, offset : Nat, alive : BOOLEAN]

SearchCallType == [query : [q : Texts, f : FilterType], page : Nat, alive : BOOLEAN]

(* The calls whose answers count are for what the page shows as loading.     *)
FeedLive(calls, f) == \A c \in calls : c.alive => f.loading /\ c = FeedCall(f.mode, f.offset)

SearchLive(calls, s) ==
  \A c \in calls : c.alive => s.loading /\ c = SearchCall(QueryOf(s), s.page)

LiveCalls ==
  /\ FeedLive(feedCalls, feed) /\ SearchLive(searchCalls, search)
  /\ \A c \in feedCalls : c.alive => FeedOpen
  /\ \A c \in searchCalls : c.alive => SearchOpen

HistoryOK == entries \in Seq(Pages) /\ at \in 1 .. Len(entries)

IInv == /\ HistoryOK /\ FeedOK(feed) /\ StateOK(search)
        /\ feedCalls \subseteq FeedCallType /\ searchCalls \subseteq SearchCallType
        /\ LiveCalls
        /\ SearchOpen => Here = Cited(search)

LEMMA StartOK ==
  ASSUME NEW url, URLOK(url)
  PROVE  StateOK(SearchStart(url))
  <1>1. SearchStart(url).page = 0
    BY DEF SearchStart
  <1> QED
    BY <1>1, Started DEF StateOK, SearchStart

(* The address a page cites is one of the history's.                         *)
LEMMA CitedPage ==
  ASSUME NEW s, StateOK(s)
  PROVE  /\ Cited(s) \in Pages /\ Cited(s).page = "search"
         /\ SearchStart(Cited(s).query).debounced = s.debounced
         /\ SearchStart(Cited(s).query).filters = s.filters
  BY URLRoundTrip DEF StateOK, Cited, Pages, Entry

(* The fetch effect asks for the query and the page it finds. *)
LEMMA FetchingFields ==
  ASSUME NEW s, StateOK(s)
  PROVE  /\ StateOK(Fetching(s)) /\ QueryOf(Fetching(s)) = QueryOf(s)
         /\ Fetching(s).page = s.page /\ Cited(Fetching(s)) = Cited(s)
         /\ Active(s) => Fetching(s).loading
         /\ FetchCalls(s) \subseteq SearchCallType
         /\ \A c \in FetchCalls(s) : Active(s) /\ c = SearchCall(QueryOf(s), s.page)
         /\ SearchLive(FetchCalls(s), Fetching(s))
  <1>1. /\ StateOK(Fetching(s)) /\ Fetching(s).debounced = s.debounced
        /\ Fetching(s).filters = s.filters /\ Fetching(s).page = s.page
        /\ Active(s) => Fetching(s).loading
    BY DEF Fetching, StateOK
  <1>2. QueryOf(s) \in [q : Texts, f : FilterType]
    BY DEF StateOK, QueryOf, FilterType, FilterValues
  <1>3. QueryOf(Fetching(s)) = QueryOf(s) /\ Cited(Fetching(s)) = Cited(s)
    BY <1>1 DEF QueryOf, Cited
  <1>4. \A c \in FetchCalls(s) : Active(s) /\ c = SearchCall(QueryOf(s), s.page)
    BY DEF FetchCalls
  <1>5. FetchCalls(s) \subseteq SearchCallType
    <2>1. s.page \in Nat
      BY DEF StateOK
    <2>2. SearchCall(QueryOf(s), s.page) \in SearchCallType
      BY <1>2, <2>1 DEF SearchCall, SearchCallType
    <2> QED
      BY <1>4, <2>2
  <1> QED
    BY <1>1, <1>3, <1>4, <1>5 DEF SearchLive

(* Cleanup leaves no call alive. *)
LEMMA SupersededCalls ==
  /\ \A calls \in SUBSET FeedCallType :
       /\ Superseded(calls) \subseteq FeedCallType
       /\ \A c \in Superseded(calls) : ~c.alive
  /\ \A calls \in SUBSET SearchCallType :
       /\ Superseded(calls) \subseteq SearchCallType
       /\ \A c \in Superseded(calls) : ~c.alive
  <1>1. \A c \in FeedCallType :
          [c EXCEPT !.alive = FALSE] \in FeedCallType /\ ~[c EXCEPT !.alive = FALSE].alive
    BY DEF FeedCallType
  <1>2. \A c \in SearchCallType :
          [c EXCEPT !.alive = FALSE] \in SearchCallType /\ ~[c EXCEPT !.alive = FALSE].alive
    BY DEF SearchCallType
  <1> QED
    BY <1>1, <1>2 DEF Superseded

-----------------------------------------------------------------------------
(* A step of the history leaves it on the page it leads to. *)
LEMMA PushHere ==
  ASSUME HistoryOK, NEW e \in Pages, Push(e)
  PROVE  HistoryOK' /\ Here' = e
  <1> DEFINE kept == SubSeq(entries, 1, at)
  <1>1. kept \in Seq(Pages) /\ Len(kept) = at
    <2>1. \A i \in 1 .. at : entries[i] \in Pages
      BY DEF HistoryOK
    <2> QED
      BY <2>1, SubSeqProperties DEF HistoryOK
  <1>2. entries' = Append(kept, e) /\ at' = at + 1
    BY DEF Push
  <1>3. Len(Append(kept, e)) = at + 1 /\ Append(kept, e)[at + 1] = e
    BY <1>1 DEF HistoryOK
  <1> QED
    BY <1>1, <1>2, <1>3 DEF HistoryOK, Here

LEMMA ReplaceHere ==
  ASSUME HistoryOK, NEW e \in Pages, NEW i \in 1 .. Len(entries),
         entries' = [entries EXCEPT ![i] = e], at' = i
  PROVE  HistoryOK' /\ Here' = e
  BY DEF HistoryOK, Here

(* A step that leaves the history leaves the page. *)
LEMMA HereStays ==
  ASSUME HistoryOK, UNCHANGED historyVars
  PROVE  HistoryOK' /\ Here' = Here
  BY DEF HistoryOK, Here, historyVars

-----------------------------------------------------------------------------
(* The feed's step. *)
LEMMA FeedAskStep ==
  ASSUME IInv, FeedOpen, NEW mode \in Modes, NEW offset \in Nat, NEW over \in SUBSET FeedCallType,
         FeedAsk(mode, offset, over), UNCHANGED historyVars, UNCHANGED searchVars
  PROVE  IInv'
  <1>1. HistoryOK' /\ Here' = Here
    BY HereStays DEF IInv
  <1>2. /\ feed' = [feed EXCEPT !.mode = mode, !.offset = offset, !.loading = TRUE, !.error = FALSE]
        /\ feedCalls' = Superseded(feedCalls \cup over) \cup {FeedCall(mode, offset)}
    BY DEF FeedAsk
  <1>3. /\ FeedOK(feed') /\ feed'.mode = mode /\ feed'.offset = offset /\ feed'.loading
    BY <1>2 DEF IInv, FeedOK
  <1>4. FeedCall(mode, offset) \in FeedCallType
    BY DEF FeedCall, FeedCallType
  <1>5. /\ Superseded(feedCalls \cup over) \subseteq FeedCallType
        /\ \A c \in Superseded(feedCalls \cup over) : ~c.alive
    BY SupersededCalls DEF IInv
  <1>6. feedCalls' \subseteq FeedCallType /\ FeedLive(feedCalls', feed')
    BY <1>2, <1>3, <1>4, <1>5 DEF FeedLive
  <1>7. FeedOpen' /\ ~SearchOpen' /\ ~SearchOpen
    BY <1>1 DEF FeedOpen, SearchOpen
  <1> QED
    BY <1>1, <1>3, <1>6, <1>7 DEF IInv, LiveCalls, searchVars

(* An answer or a failure: the call that counts was the only one. *)
LEMMA FeedEndStep ==
  ASSUME IInv, NEW c \in feedCalls, feedCalls' = feedCalls \ {c},
         UNCHANGED historyVars, UNCHANGED searchVars,
         ~c.alive => feed' = feed,
         FeedOK(feed'), feed'.mode = feed.mode, feed'.offset = feed.offset
  PROVE  IInv'
  <1>1. HistoryOK' /\ Here' = Here /\ SearchOpen' = SearchOpen /\ FeedOpen' = FeedOpen
    BY HereStays DEF IInv, SearchOpen, FeedOpen
  <1>2. FeedLive(feedCalls, feed) /\ feedCalls \subseteq FeedCallType
    BY DEF IInv, LiveCalls
  <1>3. feedCalls' \subseteq FeedCallType /\ FeedLive(feedCalls', feed')
    <2>1. CASE c.alive
      BY <1>2, <2>1 DEF FeedLive
    <2>2. CASE ~c.alive
      BY <1>2, <2>2 DEF FeedLive
    <2> QED
      BY <2>1, <2>2
  <1> QED
    BY <1>1, <1>3 DEF IInv, LiveCalls, searchVars

LEMMA FeedStep ==
  ASSUME IInv, FeedNext, UNCHANGED searchVars
  PROVE  IInv'
  <1>1. feed.mode \in Modes /\ feed.offset \in Nat /\ FeedOK(feed)
    BY DEF IInv, FeedOK
  <1>2. ASSUME NEW mode \in Modes, FeedSwitch(mode)
        PROVE  IInv'
    <2> DEFINE over == IF feed.offset = 0 THEN {} ELSE {FeedCall(mode, feed.offset)}
    <2>1. over \in SUBSET FeedCallType
      BY <1>1 DEF FeedCall, FeedCallType
    <2>2. FeedOpen /\ FeedAsk(mode, 0, over) /\ UNCHANGED historyVars
      BY <1>2 DEF FeedSwitch
    <2> QED
      BY <2>1, <2>2, FeedAskStep
  <1>3. CASE FeedMore
    <2>1. FeedOpen /\ FeedAsk(feed.mode, feed.offset + PAGE, {}) /\ UNCHANGED historyVars
      BY <1>3 DEF FeedMore
    <2>2. feed.offset + PAGE \in Nat
      BY <1>1, ListingAssumption
    <2> QED
      BY <1>1, <2>1, <2>2, FeedAskStep
  <1>4. CASE FeedRetry
    <2>1. FeedOpen /\ FeedAsk(feed.mode, feed.offset, {}) /\ UNCHANGED historyVars
      BY <1>4 DEF FeedRetry
    <2> QED
      BY <1>1, <2>1, FeedAskStep
  <1>5. CASE FeedGroup
    <2>1. HistoryOK' /\ Here' = Here /\ UNCHANGED <<feedCalls, search, searchCalls>>
      BY <1>5, HereStays DEF IInv, FeedGroup, searchVars
    <2>2. feed' = [feed EXCEPT !.group = ~@]
      BY <1>5 DEF FeedGroup
    <2>3. /\ FeedOK(feed') /\ feed'.mode = feed.mode /\ feed'.offset = feed.offset
          /\ feed'.loading = feed.loading
      BY <2>2, <1>1 DEF FeedOK
    <2> QED
      BY <2>1, <2>3 DEF IInv, LiveCalls, FeedLive, FeedOpen, SearchOpen
  <1>6. ASSUME NEW c \in feedCalls, FeedAnswer(c)
        PROVE  IInv'
    <2>1. feedCalls' = feedCalls \ {c} /\ UNCHANGED historyVars
      BY <1>6 DEF FeedAnswer
    <2>2. ASSUME NEW list
          PROVE  /\ FeedOK(FeedTake(c, list)) /\ FeedTake(c, list).mode = feed.mode
                 /\ FeedTake(c, list).offset = feed.offset
      <3> DEFINE r == PageOf(list, c.offset)
                 tiles == (IF c.offset = 0 THEN <<>> ELSE feed.tiles) \o r.entries
      <3>1. FeedTake(c, list) = [feed EXCEPT !.tiles = tiles, !.more = r.has_more, !.loading = FALSE]
        BY DEF FeedTake
      <3> HIDE DEF tiles, r
      <3> QED
        BY <1>1, <3>1 DEF FeedOK
    <2>3. PICK list : feed' = IF c.alive THEN FeedTake(c, list) ELSE feed
      BY <1>6 DEF FeedAnswer
    <2> QED
      BY <1>1, <2>1, <2>2, <2>3, FeedEndStep
  <1>7. ASSUME NEW c \in feedCalls, FeedFail(c)
        PROVE  IInv'
    <2>1. feedCalls' = feedCalls \ {c} /\ UNCHANGED historyVars /\ (~c.alive => feed' = feed)
      BY <1>7 DEF FeedFail
    <2>2. c.alive => feed' = [feed EXCEPT !.error = TRUE, !.loading = FALSE]
      BY <1>7 DEF FeedFail
    <2>3. FeedOK(feed') /\ feed'.mode = feed.mode /\ feed'.offset = feed.offset
      <3>1. CASE c.alive
        <4>1. feed' = [feed EXCEPT !.error = TRUE, !.loading = FALSE]
          BY <2>2, <3>1
        <4> QED
          BY <1>1, <4>1 DEF FeedOK
      <3> QED
        BY <1>1, <2>1, <3>1
    <2> QED
      BY <2>1, <2>3, FeedEndStep
  <1> QED
    BY <1>2, <1>3, <1>4, <1>5, <1>6, <1>7 DEF FeedNext

-----------------------------------------------------------------------------
(* The search page's step: a new state, whose query either is the old one,   *)
(* so that the calls stay, or is asked anew from its first page.             *)
LEMMA BecomeStep ==
  ASSUME IInv, SearchOpen, UNCHANGED feedVars, NEW s, StateOK(s), Become(s),
         s.page = search.page, s.loading = search.loading
  PROVE  IInv'
  <1>1. HistoryOK' /\ Here' = Cited(s)
    <2>1. HistoryOK /\ at \in 1 .. Len(entries)
      BY DEF IInv, HistoryOK
    <2>2. entries' = [entries EXCEPT ![at] = Cited(s)] /\ at' = at
      BY DEF Become, Rewrite
    <2> QED
      BY <2>1, <2>2, CitedPage, ReplaceHere
  <1>2. SearchOpen' /\ ~FeedOpen' /\ ~FeedOpen
    BY <1>1, CitedPage DEF SearchOpen, FeedOpen
  <1>3. /\ StateOK(search') /\ searchCalls' \subseteq SearchCallType
        /\ SearchLive(searchCalls', search') /\ Cited(search') = Cited(s)
    <2>1. CASE QueryOf(s) = QueryOf(search)
      <3>1. search' = s /\ searchCalls' = searchCalls
        BY <2>1 DEF Become
      <3> QED
        BY <2>1, <3>1 DEF IInv, LiveCalls, SearchLive
    <2>2. CASE QueryOf(s) # QueryOf(search)
      <3> DEFINE first == [s EXCEPT !.page = 0]
                 stale == IF search.page = 0 THEN {} ELSE FetchCalls(s)
                 over == Superseded(searchCalls \cup stale)
      <3>1. search' = Fetching(first) /\ searchCalls' = over \cup FetchCalls(first)
        BY <2>2 DEF Become
      <3>2. StateOK(first) /\ first.debounced = s.debounced /\ first.filters = s.filters
        BY DEF StateOK
      <3>3. Cited(first) = Cited(s)
        BY <3>2 DEF Cited
      <3>4. stale \subseteq SearchCallType
        BY FetchingFields
      <3>5. over \subseteq SearchCallType /\ \A c \in over : ~c.alive
        BY <3>4, SupersededCalls DEF IInv
      <3> HIDE DEF first, stale, over
      <3>6. /\ StateOK(Fetching(first)) /\ FetchCalls(first) \subseteq SearchCallType
            /\ Cited(Fetching(first)) = Cited(first)
            /\ SearchLive(FetchCalls(first), Fetching(first))
        BY <3>2, FetchingFields
      <3> QED
        BY <3>1, <3>3, <3>5, <3>6 DEF SearchLive
    <2> QED
      BY <2>1, <2>2
  <1> QED
    BY <1>1, <1>2, <1>3 DEF IInv, LiveCalls, feedVars

LEMMA RefetchStep ==
  ASSUME IInv, SearchOpen, UNCHANGED feedVars, NEW page \in Nat, Refetch(page)
  PROVE  IInv'
  <1> DEFINE s == [search EXCEPT !.page = page]
  <1>1. HistoryOK' /\ Here' = Here
    BY HereStays DEF IInv, Refetch
  <1>2. SearchOpen' /\ ~FeedOpen' /\ ~FeedOpen
    BY <1>1 DEF SearchOpen, FeedOpen
  <1>3. StateOK(s) /\ s.debounced = search.debounced /\ s.filters = search.filters
    BY DEF IInv, StateOK
  <1>4. search' = Fetching(s) /\ searchCalls' = Superseded(searchCalls) \cup FetchCalls(s)
    BY DEF Refetch
  <1>5. Cited(s) = Cited(search)
    BY <1>3 DEF Cited
  <1>6. /\ Superseded(searchCalls) \subseteq SearchCallType
        /\ \A c \in Superseded(searchCalls) : ~c.alive
    BY SupersededCalls DEF IInv
  <1> HIDE DEF s
  <1>7. /\ StateOK(Fetching(s)) /\ FetchCalls(s) \subseteq SearchCallType
        /\ Cited(Fetching(s)) = Cited(s)
        /\ SearchLive(FetchCalls(s), Fetching(s))
    BY <1>3, FetchingFields
  <1>8. StateOK(search') /\ searchCalls' \subseteq SearchCallType /\ SearchLive(searchCalls', search')
    BY <1>4, <1>6, <1>7 DEF SearchLive
  <1>9. SearchOpen' => Here' = Cited(search')
    BY <1>1, <1>4, <1>5, <1>7 DEF IInv
  <1> QED
    BY <1>1, <1>2, <1>8, <1>9 DEF IInv, LiveCalls, feedVars

LEMMA SearchEndStep ==
  ASSUME IInv, NEW c \in searchCalls, searchCalls' = searchCalls \ {c},
         UNCHANGED historyVars, UNCHANGED feedVars,
         ~c.alive => search' = search,
         StateOK(search'), search'.page = search.page,
         search'.debounced = search.debounced, search'.filters = search.filters
  PROVE  IInv'
  <1>1. HistoryOK' /\ Here' = Here /\ SearchOpen' = SearchOpen /\ FeedOpen' = FeedOpen
    BY HereStays DEF IInv, SearchOpen, FeedOpen
  <1>2. SearchLive(searchCalls, search) /\ searchCalls \subseteq SearchCallType
    BY DEF IInv, LiveCalls
  <1>3. searchCalls' \subseteq SearchCallType /\ SearchLive(searchCalls', search')
    <2>1. CASE c.alive
      BY <1>2, <2>1 DEF SearchLive
    <2>2. CASE ~c.alive
      BY <1>2, <2>2 DEF SearchLive
    <2> QED
      BY <2>1, <2>2
  <1>4. Cited(search') = Cited(search)
    BY DEF Cited
  <1> QED
    BY <1>1, <1>3, <1>4 DEF IInv, LiveCalls, feedVars

(* A text or filter that may become the page's. *)
LEMMA ChosenOK ==
  ASSUME StateOK(search)
  PROVE  /\ \A t \in Texts : StateOK([search EXCEPT !.q = t])
         /\ StateOK([search EXCEPT !.debounced = Trim[search.q]])
         /\ \A f \in Fields : \A v \in Offered[f] \cup {Default} :
              StateOK([search EXCEPT !.filters[f] = v])
         /\ \A s : s = [search EXCEPT !.q = "", !.debounced = "", !.filters = None] => StateOK(s)
  <1>1. \A t \in Texts : StateOK([search EXCEPT !.q = t])
    BY DEF StateOK
  <1>2. Trim[search.q] \in Texts /\ Trimmed(Trim[search.q])
    BY SearchAssumption DEF StateOK, Trimmed
  <1>3. StateOK([search EXCEPT !.debounced = Trim[search.q]])
    BY <1>2 DEF StateOK
  <1>4. ASSUME NEW f \in Fields, NEW v \in Offered[f] \cup {Default}
        PROVE  StateOK([search EXCEPT !.filters[f] = v])
    <2>1. v \in FilterValues
      BY DEF FilterValues
    <2>2. v = Default \/ v \in Valid[f]
      BY SearchAssumption
    <2>3. search.filters \in FilterType /\ Kept(search.filters)
      BY DEF StateOK
    <2>4. [search.filters EXCEPT ![f] = v] \in FilterType
      BY <2>1, <2>3 DEF FilterType
    <2>5. Kept([search.filters EXCEPT ![f] = v])
      BY <2>2, <2>3 DEF Kept, FilterType
    <2> QED
      BY <2>4, <2>5 DEF StateOK
  <1>5. ASSUME NEW s, s = [search EXCEPT !.q = "", !.debounced = "", !.filters = None]
        PROVE  StateOK(s)
    <2>1. "" \in Texts /\ Trimmed("")
      BY SearchAssumption DEF Trimmed
    <2>2. None \in FilterType /\ Kept(None)
      BY DEF None, FilterType, FilterValues, Kept
    <2> QED
      BY <1>5, <2>1, <2>2 DEF StateOK
  <1> QED
    BY <1>1, <1>3, <1>4, <1>5

LEMMA SearchStep ==
  ASSUME IInv, SearchNext, UNCHANGED feedVars
  PROVE  IInv'
  <1>1. StateOK(search) /\ search.page \in Nat
    BY DEF IInv, StateOK
  <1>2. ASSUME NEW t \in Typed, Type(t)
        PROVE  IInv'
    <2> DEFINE s == [search EXCEPT !.q = t]
    <2>1. StateOK(s) /\ s.page = search.page /\ s.loading = search.loading
      BY <1>1, ChosenOK, SearchAssumption DEF StateOK
    <2>2. SearchOpen /\ Become(s)
      BY <1>2 DEF Type
    <2> HIDE DEF s
    <2> QED
      BY <2>1, <2>2, BecomeStep
  <1>3. CASE Debounce
    <2> DEFINE s == [search EXCEPT !.debounced = Trim[search.q]]
    <2>1. StateOK(s) /\ s.page = search.page /\ s.loading = search.loading
      BY <1>1, ChosenOK DEF StateOK
    <2>2. SearchOpen /\ Become(s)
      BY <1>3 DEF Debounce
    <2> HIDE DEF s
    <2> QED
      BY <2>1, <2>2, BecomeStep
  <1>4. ASSUME NEW f \in Fields, NEW v \in Offered[f] \cup {Default}, SetFilter(f, v)
        PROVE  IInv'
    <2> DEFINE s == [search EXCEPT !.filters[f] = v]
    <2>1. StateOK(s) /\ s.page = search.page /\ s.loading = search.loading
      BY <1>1, ChosenOK DEF StateOK
    <2>2. SearchOpen /\ Become(s)
      BY <1>4 DEF SetFilter
    <2> HIDE DEF s
    <2> QED
      BY <2>1, <2>2, BecomeStep
  <1>5. CASE ResetAll
    <2>1. PICK s : s = [search EXCEPT !.q = "", !.debounced = "", !.filters = None]
      OBVIOUS
    <2>2. StateOK(s)
      BY <1>1, <2>1, ChosenOK
    <2>3. s.page = search.page /\ s.loading = search.loading
      BY <1>1, <2>1 DEF StateOK
    <2>4. SearchOpen /\ Become(s)
      BY <1>5, <2>1 DEF ResetAll
    <2> QED
      BY <2>2, <2>3, <2>4, BecomeStep
  <1>6. CASE SearchMore
    BY <1>1, <1>6, RefetchStep DEF SearchMore
  <1>7. CASE SearchRetry
    BY <1>1, <1>7, RefetchStep DEF SearchRetry
  <1>8. ASSUME NEW c \in searchCalls, SearchAnswer(c)
        PROVE  IInv'
    <2>1. searchCalls' = searchCalls \ {c} /\ UNCHANGED historyVars /\ (~c.alive => search' = search)
      BY <1>8 DEF SearchAnswer
    <2>2. c.alive => search' = SearchTake(c)
      BY <1>8 DEF SearchAnswer
    <2>3. /\ StateOK(search') /\ search'.page = search.page
          /\ search'.debounced = search.debounced /\ search'.filters = search.filters
      <3>1. CASE c.alive
        <4> DEFINE r == PageOf(Matching(c.query), c.page * PAGE)
                   tiles == (IF c.page = 0 THEN <<>> ELSE search.tiles) \o r.entries
        <4>1. search' = [search EXCEPT !.tiles = tiles, !.more = r.has_more, !.total = r.total,
                                       !.hosts = r.hosts, !.loading = FALSE]
          BY <2>2, <3>1 DEF SearchTake
        <4> HIDE DEF tiles, r
        <4> QED
          BY <1>1, <4>1 DEF StateOK
      <3> QED
        BY <1>1, <2>1, <3>1
    <2> QED
      BY <2>1, <2>3, SearchEndStep
  <1>9. ASSUME NEW c \in searchCalls, SearchFail(c)
        PROVE  IInv'
    <2>1. searchCalls' = searchCalls \ {c} /\ UNCHANGED historyVars /\ (~c.alive => search' = search)
      BY <1>9 DEF SearchFail
    <2>2. c.alive => search' = SearchFailed(c)
      BY <1>9 DEF SearchFail
    <2>3. /\ StateOK(search') /\ search'.page = search.page
          /\ search'.debounced = search.debounced /\ search'.filters = search.filters
      <3>1. CASE c.alive
        <4> DEFINE tiles == IF c.page = 0 THEN <<>> ELSE search.tiles
        <4>1. search' = [search EXCEPT !.error = TRUE, !.loading = FALSE, !.tiles = tiles]
          BY <2>2, <3>1 DEF SearchFailed
        <4> HIDE DEF tiles
        <4> QED
          BY <1>1, <4>1 DEF StateOK
      <3> QED
        BY <1>1, <2>1, <3>1
    <2> QED
      BY <2>1, <2>3, SearchEndStep
  <1> QED
    BY <1>2, <1>3, <1>4, <1>5, <1>6, <1>7, <1>8, <1>9 DEF SearchNext

-----------------------------------------------------------------------------
(* A step of the history: the page there is mounted anew, or stays.          *)
Reachable(e) == \/ e = Entry("feed", <<>>)
                \/ e = Entry("search", e.query) /\ URLOK(e.query)

LEMMA EntryPage ==
  /\ \A e \in Pages : Reachable(e)
  /\ \A e \in Links : Reachable(e)
  /\ Entry("feed", <<>>) \in Pages
  <1>1. \A e \in Pages : Reachable(e)
    BY LinkedURL DEF Pages, Reachable, Entry
  <1>2. \A e \in Links : Reachable(e)
    BY LinkedURL DEF Links, Reachable, Entry
  <1> QED
    BY <1>1, <1>2 DEF Pages

LEMMA MountedPage ==
  ASSUME IInv, NEW e, Reachable(e)
  PROVE  /\ Mounted(e) \in Pages /\ Mounted(e).page = e.page
         /\ e.page \in {"feed", "search"}
         /\ e.page = "search" => URLOK(e.query)
  <1>1. CASE e = Entry("feed", <<>>)
    BY <1>1, EntryPage DEF Mounted, Entry
  <1>2. CASE e = Entry("search", e.query) /\ URLOK(e.query)
    <2>1. e.page = "search"
      BY <1>2 DEF Entry
    <2>2. StateOK(search) /\ StateOK(SearchStart(e.query))
      BY <1>2, StartOK DEF IInv
    <2>3. Mounted(e) = Cited(search) \/ Mounted(e) = Cited(SearchStart(e.query))
      BY <2>1 DEF Mounted
    <2> QED
      BY <1>2, <2>1, <2>2, <2>3, CitedPage
  <1> QED
    BY <1>1, <1>2 DEF Reachable

LEMMA ShowStep ==
  ASSUME IInv, NEW e, Reachable(e), HistoryOK', Here' = Mounted(e), Show(e)
  PROVE  IInv'
  <1>1. /\ Here'.page = e.page /\ e.page \in {"feed", "search"}
        /\ e.page = "search" => URLOK(e.query)
    BY MountedPage
  <1>2. /\ FeedOpen' <=> e.page = "feed"
        /\ SearchOpen' <=> e.page = "search"
    BY <1>1 DEF FeedOpen, SearchOpen
  <1>3. /\ FeedOK(feed') /\ feedCalls' \subseteq FeedCallType /\ FeedLive(feedCalls', feed')
        /\ \A c \in feedCalls' : c.alive => e.page = "feed"
    <2>1. CASE Stays(e)
      BY <2>1, <1>1 DEF Show, IInv, LiveCalls, feedVars, Stays, FeedOpen
    <2>2. CASE ~Stays(e) /\ e.page = "feed"
      <3>1. feed' = FeedStart /\ feedCalls' = {FeedCall("ranked", 0)}
        BY <2>2 DEF Show, MountFeed
      <3> QED
        BY <2>2, <3>1 DEF FeedOK, FeedStart, FeedCall, FeedCallType, FeedLive, Modes
    <2>3. CASE ~Stays(e) /\ e.page # "feed"
      <3>1. feed' = FeedStart /\ feedCalls' = {}
        BY <2>3 DEF Show, UnmountFeed
      <3> QED
        BY <2>3, <3>1 DEF FeedOK, FeedStart, FeedLive, Modes
    <2> QED
      BY <2>1, <2>2, <2>3
  <1>4. /\ StateOK(search') /\ searchCalls' \subseteq SearchCallType
        /\ SearchLive(searchCalls', search')
        /\ \A c \in searchCalls' : c.alive => e.page = "search"
        /\ e.page = "search" => Here' = Cited(search')
    <2>1. CASE Stays(e)
      <3>1. search' = search /\ searchCalls' = searchCalls
        BY <2>1 DEF Show, searchVars
      <3>2. e.page = "search" => Here' = Cited(search)
        BY <2>1 DEF Mounted
      <3> QED
        BY <2>1, <3>1, <3>2 DEF IInv, LiveCalls, Stays, SearchOpen
    <2>2. CASE ~Stays(e) /\ e.page = "search"
      <3> DEFINE s == SearchStart(e.query)
      <3>1. search' = Fetching(s) /\ searchCalls' = FetchCalls(s)
        BY <2>2 DEF Show, MountSearch
      <3>2. StateOK(s)
        BY <1>1, <2>2, StartOK
      <3>3. Here' = Cited(s)
        BY <2>2 DEF Mounted
      <3> HIDE DEF s
      <3> QED
        BY <2>2, <3>1, <3>2, <3>3, FetchingFields
    <2>3. CASE ~Stays(e) /\ e.page # "search"
      <3>1. search' = SearchStart(<<>>) /\ searchCalls' = {}
        BY <2>3 DEF Show, UnmountSearch, SearchClosed
      <3>2. StateOK(SearchStart(<<>>))
        BY LinkedURL, StartOK
      <3> QED
        BY <2>3, <3>1, <3>2 DEF SearchLive
    <2> QED
      BY <2>1, <2>2, <2>3
  <1> QED
    BY <1>2, <1>3, <1>4 DEF IInv, LiveCalls

LEMMA NextStep ==
  ASSUME IInv, [Next]_vars
  PROVE  IInv'
  <1>1. CASE FeedNext /\ UNCHANGED searchVars
    BY <1>1, FeedStep
  <1>2. CASE SearchNext /\ UNCHANGED feedVars
    BY <1>2, SearchStep
  <1>3. ASSUME NEW e \in Links, Follow(e)
        PROVE  IInv'
    <2>1. Reachable(e) /\ Show(e) /\ Push(Mounted(e))
      BY <1>3, EntryPage DEF Follow
    <2>2. HistoryOK' /\ Here' = Mounted(e)
      BY <2>1, MountedPage, PushHere DEF IInv
    <2> QED
      BY <2>1, <2>2, ShowStep
  <1>4. ASSUME NEW i \in 1 .. MaxEntries, GoTo(i)
        PROVE  IInv'
    <2>1. i \in 1 .. Len(entries) /\ entries[i] \in Pages
      BY <1>4 DEF IInv, HistoryOK, GoTo
    <2>2. Reachable(entries[i])
      BY <2>1, EntryPage
    <2>3. HistoryOK' /\ Here' = Mounted(entries[i])
      <3>1. entries' = [entries EXCEPT ![i] = Mounted(entries[i])] /\ at' = i
        BY <1>4 DEF GoTo, Jump
      <3> QED
        BY <2>1, <2>2, <3>1, MountedPage, ReplaceHere DEF IInv
    <2> QED
      BY <1>4, <2>2, <2>3, ShowStep DEF GoTo
  <1>5. ASSUME UNCHANGED <<historyVars, feedVars, searchVars>>
        PROVE  IInv'
    BY <1>5, HereStays DEF IInv, LiveCalls, FeedOpen, SearchOpen, feedVars, searchVars
  <1>6. CASE \E s \in Services : Landing(s)
    BY <1>5, <1>6 DEF Landing
  <1>7. CASE UNCHANGED vars
    BY <1>5, <1>7 DEF vars
  <1> QED
    BY <1>1, <1>2, <1>3, <1>4, <1>6, <1>7 DEF Next

LEMMA InitState ==
  ASSUME Init
  PROVE  IInv
  <1>1. CASE /\ entries = <<Entry("feed", <<>>)>>
             /\ feed = FeedStart /\ feedCalls = {FeedCall("ranked", 0)}
             /\ search = SearchClosed /\ searchCalls = {}
    <2>1. HistoryOK /\ Here = Entry("feed", <<>>)
      BY <1>1, EntryPage DEF Init, HistoryOK, Here
    <2>2. StateOK(search)
      BY <1>1, LinkedURL, StartOK DEF SearchClosed
    <2>3. FeedOK(feed) /\ feedCalls \subseteq FeedCallType /\ FeedLive(feedCalls, feed)
      BY <1>1 DEF FeedOK, FeedStart, FeedCall, FeedCallType, FeedLive, Modes
    <2>4. FeedOpen /\ ~SearchOpen
      BY <2>1 DEF FeedOpen, SearchOpen, Entry
    <2> QED
      BY <1>1, <2>1, <2>2, <2>3, <2>4 DEF IInv, LiveCalls, SearchLive
  <1>2. ASSUME NEW url \in Linked,
               entries = <<Cited(SearchStart(url))>>,
               feed = FeedStart, feedCalls = {},
               search = Fetching(SearchStart(url)), searchCalls = FetchCalls(SearchStart(url))
        PROVE  IInv
    <2> DEFINE s == SearchStart(url)
    <2>1. StateOK(s)
      BY LinkedURL, StartOK
    <2> HIDE DEF s
    <2>2. HistoryOK /\ Here = Cited(s) /\ SearchOpen
      BY <1>2, <2>1, CitedPage DEF s, Init, HistoryOK, Here, SearchOpen
    <2>3. FeedOK(feed) /\ FeedLive(feedCalls, feed)
      BY <1>2 DEF FeedOK, FeedStart, FeedLive, Modes
    <2>4. search = Fetching(s) /\ searchCalls = FetchCalls(s)
      BY <1>2 DEF s
    <2> QED
      BY <1>2, <2>1, <2>2, <2>3, <2>4, FetchingFields DEF IInv, LiveCalls
  <1> QED
    BY <1>1, <1>2 DEF Init

(* The invariant the others follow from. *)
THEOREM Invariance == Spec => []IInv
  <1> QED
    BY InitState, NextStep, PTL DEF Spec

(* Type correctness of the history, the pages and their calls.               *)
THEOREM TypeCorrect == Spec => []TypeOK
  <1>1. ASSUME NEW e \in Pages
        PROVE  e = Entry("feed", <<>>) \/ e = Cited(SearchStart(e.query))
    <2>1. CASE e = Entry("feed", <<>>)
      BY <2>1
    <2>2. CASE e # Entry("feed", <<>>)
      <3>1. PICK t \in Texts, filters \in FilterType :
              Trimmed(t) /\ Kept(filters) /\ e = Entry("search", ToURL(t, filters))
        BY <2>2 DEF Pages
      <3>2. e.query = ToURL(t, filters)
        BY <3>1 DEF Entry
      <3>3. /\ SearchStart(e.query).debounced = t
            /\ SearchStart(e.query).filters = filters
        BY <3>1, <3>2, URLRoundTrip
      <3> QED
        BY <3>1, <3>3 DEF Cited, Entry
    <2> QED
      BY <2>1, <2>2
  <1>2. HistoryOK => /\ at \in 1 .. Len(entries)
                     /\ \A i \in DOMAIN entries : entries[i] \in Pages
    BY DEF HistoryOK
  <1>3. IInv => TypeOK
    BY <1>1, <1>2 DEF IInv, TypeOK, FeedOK, StateOK, FeedCallType, SearchCallType
  <1> QED
    BY <1>3, Invariance, PTL

(* The URL of the current entry is the whole query: whatever was typed,      *)
(* chosen, reset or followed, a page mounted on it asks for the same         *)
(* (Search.tsx:22-63, 70-85).                                                *)
THEOREM URLsRestore == Spec => []URLRestores
  <1>1. IInv => URLRestores
    BY CitedPage DEF IInv, URLRestores
  <1> QED
    BY <1>1, Invariance, PTL

(* A call whose answer counts is for the listing or query and the page that  *)
(* the open page shows as loading, so a switch, a retry, a new query or a    *)
(* return never lets an answer to an earlier request in (Feed.tsx:52-69,     *)
(* Search.tsx:97-142).                                                       *)
THEOREM LiveCallsCurrent == Spec => []LiveCalls
  <1>1. IInv => LiveCalls
    BY DEF IInv
  <1> QED
    BY <1>1, Invariance, PTL

-----------------------------------------------------------------------------
(* Sorting: nothing is lost, repeated or out of order.  A member's place is  *)
(* the number of members before it, which by counting takes every value.     *)
LEMMA ArrangedProperties ==
  ASSUME NEW S, IsFiniteSet(S), NEW order,
         \A i \in S : <<i, i>> \notin order,
         \A i, j \in S : i # j => <<i, j>> \in order \/ <<j, i>> \in order,
         \A h, i, j \in S : <<h, i>> \in order /\ <<i, j>> \in order => <<h, j>> \in order
  PROVE  /\ Arranged(S, order) \in Seq(S) /\ Len(Arranged(S, order)) = Cardinality(S)
         /\ \A i \in S : \E k \in 1 .. Cardinality(S) : Arranged(S, order)[k] = i
         /\ \A k, l \in 1 .. Cardinality(S) :
              k < l => <<Arranged(S, order)[k], Arranged(S, order)[l]>> \in order
  <1> DEFINE n == Cardinality(S)
             Before(i) == {j \in S : <<j, i>> \in order}
             place == [i \in S |-> Cardinality(Before(i))]
  <1>1. n \in Nat
    BY FS_CardinalityType
  <1>2. ASSUME NEW i \in S
        PROVE  IsFiniteSet(Before(i)) /\ Cardinality(Before(i)) \in 0 .. n - 1
    <2> DEFINE before == Before(i)
               others == S \ {i}
    <2>1. before \in SUBSET others
      OBVIOUS
    <2>2. IsFiniteSet(others) /\ Cardinality(others) = n - 1
      BY FS_RemoveElement
    <2> HIDE DEF before, others
    <2>3. IsFiniteSet(before) /\ Cardinality(before) <= n - 1
      BY <2>1, <2>2, FS_Subset
    <2>4. Cardinality(before) \in Nat
      BY <2>3, FS_CardinalityType
    <2>5. before = Before(i)
      BY DEF before
    <2> HIDE DEF Before
    <2> QED
      BY <1>1, <2>3, <2>4, <2>5
  <1>3. ASSUME NEW i \in S, NEW j \in S, <<i, j>> \in order
        PROVE  place[i] < place[j]
    <2>1. Before(i) \cup {i} \in SUBSET Before(j)
      BY <1>3
    <2>2. i \notin Before(i)
      OBVIOUS
    <2> HIDE DEF Before
    <2>3. /\ IsFiniteSet(Before(i)) /\ Cardinality(Before(i)) \in Int
          /\ IsFiniteSet(Before(j)) /\ Cardinality(Before(j)) \in Int
      BY <1>1, <1>2
    <2>4. Cardinality(Before(i) \cup {i}) = Cardinality(Before(i)) + 1
      BY <2>2, <2>3, FS_AddElement
    <2>5. Cardinality(Before(i) \cup {i}) <= Cardinality(Before(j))
      BY <2>1, <2>3, FS_Subset
    <2> QED
      BY <2>3, <2>4, <2>5
  <1>4. place \in [S -> 0 .. n - 1]
    BY <1>1, <1>2
  <1>5. \A i \in S : place[i] \in Int
    <2> HIDE DEF place, n
    <2> QED
      BY <1>1, <1>4
  <1>6. ASSUME NEW i \in S, NEW j \in S, place[i] = place[j]
        PROVE  i = j
    <2> HIDE DEF place
    <2>1. ~(<<i, j>> \in order) /\ ~(<<j, i>> \in order)
      BY <1>3, <1>5, <1>6
    <2> QED
      BY <2>1
  <1>7. \A p \in 0 .. n - 1 : \E i \in S : place[i] = p
    <2> DEFINE all == 0 .. n - 1
    <2> SUFFICES ASSUME NEW p \in all, \A i \in S : place[i] # p
                 PROVE  FALSE
      OBVIOUS
    <2> DEFINE others == all \ {p}
    <2>1. IsFiniteSet(all) /\ Cardinality(all) = n
      BY <1>1, FS_Interval
    <2>2. place \in [S -> others]
      BY <1>4
    <2> HIDE DEF all, place, n
    <2>3. IsFiniteSet(others) /\ Cardinality(others) = n - 1
      BY <2>1, FS_RemoveElement
    <2>4. Cardinality(others) < Cardinality(S)
      BY <1>1, <2>3 DEF n
    <2> HIDE DEF others
    <2>5. \E i, j \in S : i # j /\ place[i] = place[j]
      BY <2>2, <2>3, <2>4, FS_PigeonHole
    <2> QED
      BY <1>6, <2>5
  <1> DEFINE f == Arranged(S, order)
  <1>8. ASSUME NEW k \in 1 .. n
        PROVE  f[k] \in S /\ place[f[k]] = k - 1
    <2>1. f[k] = CHOOSE i \in S : Cardinality(Before(i)) = k - 1
      BY DEF Arranged
    <2>2. k - 1 \in 0 .. n - 1
      BY <1>1
    <2>3. \E i \in S : Cardinality(Before(i)) = k - 1
      BY <1>7, <2>2
    <2> HIDE DEF Before, f
    <2> QED
      BY <2>1, <2>3
  <1>9. f \in [1 .. n -> S]
    BY <1>8 DEF Arranged
  <1>10. \A k \in 1 .. n : k \in Int
    BY <1>1
  <1> HIDE DEF place, f, n
  <1>11. ASSUME NEW k \in 1 .. n, NEW l \in 1 .. n, k < l
         PROVE  <<f[k], f[l]>> \in order
    <2>1. f[k] \in S /\ f[l] \in S /\ place[f[k]] = k - 1 /\ place[f[l]] = l - 1
      BY <1>8
    <2>2. k \in Int /\ l \in Int
      BY <1>10
    <2>3. f[k] # f[l]
      BY <1>11, <2>1, <2>2
    <2>4. <<f[l], f[k]>> \in order => l - 1 < k - 1
      BY <1>3, <2>1
    <2> QED
      BY <1>11, <2>1, <2>2, <2>3, <2>4
  <1>12. ASSUME NEW i \in S
         PROVE  \E k \in 1 .. n : f[k] = i
    <2>1. PICK k : k = place[i] + 1
      OBVIOUS
    <2>2. k \in 1 .. n /\ k - 1 = place[i]
      BY <1>1, <1>4, <1>5, <2>1
    <2>3. f[k] \in S /\ place[f[k]] = k - 1
      BY <1>8, <2>2
    <2> QED
      BY <1>6, <2>2, <2>3
  <1>13. f \in Seq(S) /\ Len(f) = n
    BY <1>1, <1>9
  <1> QED
    BY <1>11, <1>12, <1>13 DEF f, n

LEMMA InOrderProperties ==
  ASSUME NEW S \in SUBSET Int, IsFiniteSet(S)
  PROVE  /\ InOrder(S) \in Seq(S) /\ Len(InOrder(S)) = Cardinality(S)
         /\ \A i \in S : \E k \in 1 .. Cardinality(S) : InOrder(S)[k] = i
         /\ \A k, l \in 1 .. Cardinality(S) : k < l => InOrder(S)[k] < InOrder(S)[l]
  <1> DEFINE order == {p \in S \X S : p[1] < p[2]}
             f == Arranged(S, order)
             n == Cardinality(S)
  <1>1. \A i, j \in S : i \in Int /\ (<<i, j>> \in order <=> i < j)
    OBVIOUS
  <1> HIDE DEF order
  <1>2. /\ \A i \in S : <<i, i>> \notin order
        /\ \A i, j \in S : i # j => <<i, j>> \in order \/ <<j, i>> \in order
        /\ \A h, i, j \in S : <<h, i>> \in order /\ <<i, j>> \in order => <<h, j>> \in order
    BY <1>1
  <1>3. /\ f \in Seq(S) /\ Len(f) = n
        /\ \A i \in S : \E k \in 1 .. n : f[k] = i
        /\ \A k, l \in 1 .. n : k < l => <<f[k], f[l]>> \in order
    BY <1>2, ArrangedProperties
  <1> HIDE DEF f, n
  <1>4. \A k \in 1 .. n : f[k] \in S
    BY <1>3, LenProperties
  <1>5. \A k, l \in 1 .. n : k < l => f[k] < f[l]
    BY <1>1, <1>3, <1>4
  <1> QED
    BY <1>3, <1>5 DEF InOrder, order, f, n

(* Filtering: what is kept, how much of it, and that nothing is repeated.    *)
LEMMA KeepProperties ==
  ASSUME NEW T, NEW list \in Seq(T), NEW S
  PROVE  /\ Keep(list, S) \in Seq(T)
         /\ Len(Keep(list, S)) = Cardinality({i \in DOMAIN list : list[i] \in S})
         /\ \A k \in DOMAIN Keep(list, S) :
              Keep(list, S)[k] \in S /\ \E i \in DOMAIN list : Keep(list, S)[k] = list[i]
         /\ IsInjective(list) => IsInjective(Keep(list, S))
  <1> DEFINE places == {i \in DOMAIN list : list[i] \in S}
             kept == InOrder(places)
             n == Cardinality(places)
  <1>1. Len(list) \in Nat /\ DOMAIN list = 1 .. Len(list) /\ \A i \in DOMAIN list : list[i] \in T
    BY LenProperties
  <1>2. places \in SUBSET Int /\ IsFiniteSet(places)
    <2>1. IsFiniteSet(1 .. Len(list))
      BY <1>1, FS_Interval
    <2>2. places \in SUBSET (1 .. Len(list))
      BY <1>1
    <2>3. \A i \in 1 .. Len(list) : i \in Int
      BY <1>1
    <2> QED
      BY <2>1, <2>2, <2>3, FS_Subset
  <1>3. Keep(list, S) = [k \in DOMAIN kept |-> list[kept[k]]]
    BY DEF Keep
  <1>4. \A i \in places : i \in DOMAIN list /\ list[i] \in S
    OBVIOUS
  <1> HIDE DEF places
  <1>5. /\ n \in Nat /\ DOMAIN kept = 1 .. n /\ \A k \in 1 .. n : kept[k] \in places
        /\ \A k, l \in 1 .. n : k < l => kept[k] < kept[l]
    <2>1. kept \in Seq(places) /\ Len(kept) = n
      BY <1>2, InOrderProperties
    <2>2. n \in Nat
      BY <1>2, FS_CardinalityType
    <2> HIDE DEF kept, n
    <2>3. DOMAIN kept = 1 .. n /\ \A k \in 1 .. n : kept[k] \in places
      BY <2>1, LenProperties
    <2>4. \A k, l \in 1 .. n : k < l => kept[k] < kept[l]
      BY <1>2, InOrderProperties DEF kept, n
    <2> QED
      BY <2>2, <2>3, <2>4
  <1> HIDE DEF kept
  <1>6. \A k \in 1 .. n : list[kept[k]] \in T
    BY <1>1, <1>4, <1>5
  <1>7. Keep(list, S) \in [1 .. n -> T] /\ DOMAIN Keep(list, S) = 1 .. n
    BY <1>3, <1>5, <1>6
  <1>8. Keep(list, S) \in Seq(T) /\ Len(Keep(list, S)) = n
    <2> HIDE DEF n
    <2> QED
      BY <1>5, <1>7
  <1>9. \A k \in 1 .. n : Keep(list, S)[k] = list[kept[k]] /\ kept[k] \in places
    BY <1>3, <1>5
  <1>10. ASSUME IsInjective(list), NEW k \in 1 .. n, NEW l \in 1 .. n,
                Keep(list, S)[k] = Keep(list, S)[l]
         PROVE  k = l
    <2>1. kept[k] = kept[l]
      BY <1>4, <1>9, <1>10 DEF IsInjective
    <2>2. kept[k] \in Int /\ k \in Int /\ l \in Int
      <3>1. n \in Nat /\ kept[k] \in places
        BY <1>5
      <3>2. kept[k] \in Int
        BY <1>2, <3>1
      <3> HIDE DEF n
      <3> QED
        BY <3>1, <3>2
    <2>3. ~(k < l) /\ ~(l < k)
      BY <1>5, <2>1, <2>2
    <2> QED
      BY <2>2, <2>3
  <1> QED
    BY <1>4, <1>7, <1>8, <1>9, <1>10 DEF places, IsInjective

-----------------------------------------------------------------------------
(* Listings that name no service twice. *)
Rows == {list \in Seq(Services) : IsInjective(list)}

(* Ranking keeps every row. *)
LEMMA RankedRows ==
  ASSUME NEW list \in Rows
  PROVE  Ranked(list) \in Rows /\ Len(Ranked(list)) = Len(list)
  <1> DEFINE first == Keep(list, Leading)
             others == Services \ Leading
             rest == Keep(list, others)
             ahead == {i \in DOMAIN list : list[i] \in Leading}
             behind == {i \in DOMAIN list : list[i] \in others}
  <1>1. list \in Seq(Services) /\ IsInjective(list)
    BY DEF Rows
  <1>2. /\ Len(list) \in Nat /\ DOMAIN list = 1 .. Len(list)
        /\ \A i \in DOMAIN list : list[i] \in Services
    BY <1>1, LenProperties
  <1>3. /\ first \in Seq(Services) /\ Len(first) = Cardinality(ahead) /\ IsInjective(first)
        /\ \A k \in DOMAIN first : first[k] \in Leading
    BY <1>1, KeepProperties
  <1>4. /\ rest \in Seq(Services) /\ Len(rest) = Cardinality(behind) /\ IsInjective(rest)
        /\ \A k \in DOMAIN rest : rest[k] \in others
    <2> HIDE DEF others
    <2> QED
      BY <1>1, KeepProperties
  <1>5. Cardinality(ahead) + Cardinality(behind) = Len(list)
    <2>1. IsFiniteSet(1 .. Len(list)) /\ Cardinality(1 .. Len(list)) = Len(list)
      BY <1>2, FS_Interval
    <2>2. ahead \in SUBSET (1 .. Len(list)) /\ behind \in SUBSET (1 .. Len(list))
      BY <1>2
    <2>3. ahead \cap behind = {} /\ ahead \cup behind = 1 .. Len(list)
      BY <1>2
    <2> HIDE DEF ahead, behind
    <2>4. IsFiniteSet(ahead) /\ IsFiniteSet(behind)
      BY <2>1, <2>2, FS_Subset
    <2>5. Cardinality(ahead \cup behind) =
            Cardinality(ahead) + Cardinality(behind) - Cardinality(ahead \cap behind)
      BY <2>4, FS_Union
    <2>6. Cardinality(ahead) \in Nat /\ Cardinality(behind) \in Nat
      BY <2>4, FS_CardinalityType
    <2>7. Cardinality(ahead \cap behind) = 0
      BY <2>3, FS_EmptySet
    <2>8. Cardinality(ahead \cup behind) = Len(list)
      BY <2>1, <2>3
    <2> QED
      BY <2>5, <2>6, <2>7, <2>8
  <1> HIDE DEF first, rest, ahead, behind
  <1>6. Ranked(list) = first \o rest
    BY DEF Ranked, first, rest
  <1>7. /\ first \o rest \in Seq(Services)
        /\ Len(first \o rest) = Len(first) + Len(rest)
        /\ \A i \in 1 .. Len(first) + Len(rest) :
             (first \o rest)[i] = IF i <= Len(first) THEN first[i] ELSE rest[i - Len(first)]
    BY <1>3, <1>4, ConcatProperties
  <1>8. /\ Len(first) \in Nat /\ DOMAIN first = 1 .. Len(first)
        /\ Len(rest) \in Nat /\ DOMAIN rest = 1 .. Len(rest)
    BY <1>3, <1>4, LenProperties
  <1>9. DOMAIN (first \o rest) = 1 .. Len(first) + Len(rest)
    BY <1>7, LenProperties
  <1>10. ASSUME NEW i \in 1 .. Len(first) + Len(rest), NEW j \in 1 .. Len(first) + Len(rest),
                (first \o rest)[i] = (first \o rest)[j]
         PROVE  i = j
    <2>1. CASE i <= Len(first) /\ j <= Len(first)
      <3>1. i \in DOMAIN first /\ j \in DOMAIN first /\ first[i] = first[j]
        BY <1>7, <1>8, <1>10, <2>1
      <3> QED
        BY <1>3, <3>1 DEF IsInjective
    <2>2. CASE i > Len(first) /\ j > Len(first)
      <3>1. /\ i - Len(first) \in DOMAIN rest /\ j - Len(first) \in DOMAIN rest
            /\ rest[i - Len(first)] = rest[j - Len(first)]
        BY <1>7, <1>8, <1>10, <2>2
      <3>2. i - Len(first) = j - Len(first)
        BY <1>4, <3>1 DEF IsInjective
      <3> QED
        BY <1>8, <3>2
    <2>3. ASSUME NEW k \in 1 .. Len(first) + Len(rest), NEW l \in 1 .. Len(first) + Len(rest),
                 k <= Len(first), l > Len(first)
          PROVE  (first \o rest)[k] # (first \o rest)[l]
      <3>1. /\ k \in DOMAIN first /\ l - Len(first) \in DOMAIN rest
            /\ (first \o rest)[k] = first[k] /\ (first \o rest)[l] = rest[l - Len(first)]
        BY <1>7, <1>8, <2>3
      <3> QED
        BY <1>3, <1>4, <3>1
    <2> QED
      BY <1>8, <1>10, <2>1, <2>2, <2>3
  <1> QED
    BY <1>3, <1>4, <1>5, <1>6, <1>7, <1>9, <1>10 DEF Rows, IsInjective

(* The rows above a page and the page are the rows above the next one. *)
LEMMA TopGrows ==
  ASSUME NEW list \in Rows, NEW o \in Nat, o <= Len(list)
  PROVE  /\ Top(list, o) \in Rows
         /\ o > 0 /\ Top(list, o) = <<>> => list = <<>>
         /\ o = 0 => PageOf(list, o).entries = Top(list, o + PAGE)
         /\ Top(list, o) \o PageOf(list, o).entries = Top(list, o + PAGE)
         /\ PageOf(list, o).has_more = (o + PAGE < Len(list))
         /\ PageOf(list, o).has_more => PageOf(list, o).entries # <<>>
  <1> DEFINE m == IF o + PAGE < Len(list) THEN o + PAGE ELSE Len(list)
  <1>1. list \in Seq(Services) /\ IsInjective(list) /\ PAGE \in Nat \ {0}
    BY ListingAssumption DEF Rows
  <1>2. Len(list) \in Nat /\ DOMAIN list = 1 .. Len(list) /\ \A i \in 1 .. Len(list) : list[i] \in Services
    BY <1>1, LenProperties
  <1>0. Len(list) \in Int /\ o \in Int /\ o <= Len(list)
    BY <1>2
  <1>3. /\ m \in o .. Len(list) /\ m \in Nat
        /\ o + PAGE < Len(list) => m = o + PAGE
    BY <1>1, <1>2
  <1>4. /\ Top(list, o) = SubSeq(list, 1, o) /\ Top(list, o + PAGE) = SubSeq(list, 1, m)
        /\ PageOf(list, o).entries = SubSeq(list, o + 1, m)
        /\ PageOf(list, o).has_more = (o + PAGE < Len(list))
    <2>1. Top(list, o) = SubSeq(list, 1, o)
      <3>1. CASE o < Len(list)
        BY <3>1 DEF Top
      <3>2. CASE ~(o < Len(list))
        <4>1. o = Len(list)
          BY <1>0, <3>2
        <4> QED
          BY <3>2, <4>1 DEF Top
      <3> QED
        BY <3>1, <3>2
    <2>2. Top(list, o + PAGE) = SubSeq(list, 1, m)
      BY DEF Top
    <2>3. PageOf(list, o).entries = SubSeq(list, o + 1, m)
      BY DEF PageOf
    <2>4. PageOf(list, o).has_more = (Len(list) > o + PAGE)
      BY DEF PageOf
    <2> QED
      BY <1>1, <1>2, <2>1, <2>2, <2>3, <2>4
  <1> HIDE DEF m
  <1>5. /\ SubSeq(list, 1, o) \in Seq(Services) /\ Len(SubSeq(list, 1, o)) = o
        /\ \A i \in 1 .. o : SubSeq(list, 1, o)[i] = list[i]
    <2>1. \A i \in 1 .. o : list[i] \in Services
      BY <1>2
    <2> QED
      BY <1>2, <2>1, SubSeqProperties
  <1>6. IsInjective(SubSeq(list, 1, o))
    <2>1. DOMAIN SubSeq(list, 1, o) = 1 .. o
      BY <1>5, LenProperties
    <2>2. \A i \in 1 .. o : i \in DOMAIN list
      BY <1>2
    <2> QED
      BY <1>1, <1>5, <2>1, <2>2 DEF IsInjective
  <1>7. SubSeq(list, 1, o) \o SubSeq(list, o + 1, m) = SubSeq(list, 1, m)
    <2>1. 1 \in 1 .. Len(list) + 1 /\ o \in 1 - 1 .. Len(list) /\ m \in o .. Len(list)
      BY <1>2, <1>3
    <2> QED
      BY <1>1, <2>1, ConcatAdjacentSubSeq
  <1>8. o + PAGE < Len(list) => SubSeq(list, o + 1, m) # <<>>
    <2>1. \A i \in o + 1 .. m : list[i] \in Services
      BY <1>2, <1>3
    <2>2. Len(SubSeq(list, o + 1, m)) = IF o + 1 <= m THEN m - (o + 1) + 1 ELSE 0
      BY <1>3, <2>1, SubSeqProperties
    <2> QED
      BY <1>1, <1>3, <2>2, EmptySeq
  <1>9. o > 0 => SubSeq(list, 1, o) # <<>>
    <2>1. Len(SubSeq(list, 1, o)) = o
      BY <1>5
    <2> QED
      BY <2>1, EmptySeq
  <1>10. o = 0 => o + 1 = 1
    BY <1>2
  <1>11. SubSeq(list, 1, o) \in Seq(Services)
    BY <1>5
  <1> QED
    BY <1>4, <1>6, <1>7, <1>8, <1>9, <1>10, <1>11 DEF Rows

(* A page of a listing, wherever it starts. *)
LEMMA PageRows ==
  ASSUME NEW list \in Rows, NEW o \in Nat
  PROVE  /\ PageOf(list, o).entries \in Seq(Services)
         /\ PageOf(list, o).has_more \in BOOLEAN
         /\ PageOf(list, o).has_more => PageOf(list, o).entries # <<>>
         /\ PageOf(list, o).total = Len(list)
         /\ PageOf(list, o).hosts = Cardinality(HostsOf(list))
         /\ o <= Len(list) =>
              /\ PageOf(list, o).has_more = (o + PAGE < Len(list))
              /\ o + Len(PageOf(list, o).entries) =
                   IF o + PAGE < Len(list) THEN o + PAGE ELSE Len(list)
              /\ \A i \in 1 .. Len(PageOf(list, o).entries) :
                   PageOf(list, o).entries[i] = list[o + i]
  <1> DEFINE m == IF o + PAGE < Len(list) THEN o + PAGE ELSE Len(list)
             r == SubSeq(list, o + 1, m)
  <1>1. list \in Seq(Services) /\ PAGE \in Nat \ {0}
    BY ListingAssumption DEF Rows
  <1>2. Len(list) \in Nat /\ \A i \in 1 .. Len(list) : list[i] \in Services
    BY <1>1, LenProperties
  <1>3. m \in Int /\ m <= Len(list) /\ o + 1 \in Int /\ (o + PAGE < Len(list) => o + 1 <= m)
    BY <1>1, <1>2
  <1> HIDE DEF m
  <1>4. \A i \in o + 1 .. m : list[i] \in Services
    BY <1>2, <1>3
  <1>5. r \in Seq(Services) /\ Len(r) = IF o + 1 <= m THEN m - (o + 1) + 1 ELSE 0
    BY <1>3, <1>4, SubSeqProperties
  <1>6. o + 1 <= m => r # <<>>
    <2>1. o + 1 <= m => Len(r) > 0
      BY <1>3, <1>5
    <2> HIDE DEF r
    <2> QED
      BY <2>1, EmptySeq
  <1>7. /\ PageOf(list, o).entries = r
        /\ PageOf(list, o).has_more = (Len(list) > o + PAGE)
        /\ PageOf(list, o).total = Len(list)
        /\ PageOf(list, o).hosts = Cardinality(HostsOf(list))
    BY DEF PageOf, m
  <1>8. /\ Len(list) > o + PAGE => o + PAGE < Len(list)
        /\ (Len(list) > o + PAGE) \in BOOLEAN
    BY <1>1, <1>2
  <1>9. r \in Seq(Services)
    BY <1>5
  <1>10. \A i \in 1 .. Len(r) : r[i] = list[o + i]
    <2>1. CASE o + 1 <= m
      <3>1. Len(r) = m - o
        BY <1>3, <1>5, <2>1
      <3>2. \A i \in 1 .. m - (o + 1) + 1 : SubSeq(list, o + 1, m)[i] = list[(o + 1) + i - 1]
        BY <1>3, <1>4, <2>1, SubSeqProperties
      <3>3. ASSUME NEW i \in 1 .. m - o
            PROVE  i \in 1 .. m - (o + 1) + 1 /\ (o + 1) + i - 1 = o + i
        BY <1>3
      <3> QED
        BY <3>1, <3>2, <3>3
    <2>2. CASE ~(o + 1 <= m)
      <3>1. Len(r) = 0
        BY <1>5, <2>2
      <3>2. \A i \in 1 .. 0 : FALSE
        OBVIOUS
      <3> HIDE DEF r
      <3> QED
        BY <3>1, <3>2
    <2> QED
      BY <2>1, <2>2
  <1>11. o <= Len(list) => o + Len(r) = m
    <2>1. o <= Len(list) => o <= m
      BY <1>1, <1>2 DEF m
    <2> QED
      BY <1>3, <1>5, <2>1
  <1>12. (Len(list) > o + PAGE) = (o + PAGE < Len(list))
    BY <1>1, <1>2
  <1> HIDE DEF r
  <1> QED
    BY <1>3, <1>6, <1>7, <1>8, <1>9, <1>10, <1>11, <1>12 DEF m

-----------------------------------------------------------------------------
(* What the pages have read is the top of a listing of the store, as long as *)
(* no row has moved: the offset asked for is inside the listing, and there   *)
(* is nothing of a page that is not open.  Of the feed's listing, every row  *)
(* is where one of its orders has it.                                        *)
FeedReadOf(f) == IF f.loading \/ f.error THEN f.offset ELSE f.offset + PAGE

Placed(tiles, lists) == \A i \in DOMAIN tiles : \E list \in lists : tiles[i] = list[i]

FeedRows(f, lists, n) ==
  /\ f.offset = 0 \/ f.offset < n
  /\ FeedReadOf(f) > 0 => /\ f.more = (FeedReadOf(f) < n)
                          /\ Len(f.tiles) = IF f.more THEN FeedReadOf(f) ELSE n
                          /\ Placed(f.tiles, lists)

FeedInv ==
  /\ feed.loading => ~feed.error
  /\ feed.tiles \in Seq(Services)
  /\ feed.more => feed.tiles # <<>>
  /\ ~FeedOpen => feed = FeedStart
  /\ ~shifted => FeedRows(feed, FeedLists(feed.mode), FeedLength(feed.mode))

SearchReadOf(s) == IF s.loading \/ s.error THEN s.page * PAGE ELSE (s.page + 1) * PAGE

SearchRows(s, list) ==
  /\ s.page = 0 \/ s.page * PAGE < Len(list)
  /\ s.error /\ s.page = 0 => s.tiles = <<>>
  /\ SearchReadOf(s) > 0 =>
       /\ s.tiles = Top(list, SearchReadOf(s))
       /\ s.more = (SearchReadOf(s) < Len(list))
       /\ s.total = Len(list) /\ s.hosts = Cardinality(HostsOf(list))

SearchInv ==
  /\ \A c \in searchCalls : c.alive => Active(search)
  /\ Active(search) /\ search.loading => ~search.error
  /\ ~SearchOpen => search = SearchClosed
  /\ ~shifted => /\ search.tiles \in Rows
                 /\ Active(search) => SearchRows(search, Matching(QueryOf(search)))

ListInv == store \in Rows /\ FeedInv /\ SearchInv

(* The listings of the store: each order of the feed's has the same rows in  *)
(* number, and none twice.                                                   *)
LEMMA GalleryRows ==
  ASSUME store \in Rows
  PROVE  /\ Cardinality(Nets) \in Nat
         /\ \A list \in Galleries : list \in Rows /\ Len(list) = Cardinality(Nets)
  <1> DEFINE n == Cardinality(Nets)
  <1>1. store \in Seq(Services) /\ Range(store) = {store[i] : i \in DOMAIN store}
    BY DEF Rows, Range
  <1>2. Len(store) \in Nat /\ DOMAIN store = 1 .. Len(store) /\ Range(store) \subseteq Services
    BY <1>1, LenProperties
  <1>3. n \in Nat
    <2> DEFINE places == {i \in 1 .. Len(store) : store[i] \in Captured}
               net == [i \in places |-> store[i].net]
    <2>1. IsFiniteSet(places)
      <3>1. IsFiniteSet(1 .. Len(store)) /\ places \in SUBSET (1 .. Len(store))
        BY <1>2, FS_Interval
      <3> QED
        BY <3>1, FS_Subset
    <2>2. \A x : x \in Nets <=> \E i \in places : x = net[i]
      BY <1>1, <1>2 DEF Nets, Screens
    <2>3. DOMAIN net = places /\ net = [i \in places |-> net[i]]
      OBVIOUS
    <2> HIDE DEF places, net
    <2>4. net \in Surjection(places, Nets)
      BY <2>2, <2>3 DEF Surjection
    <2> QED
      BY <2>1, <2>4, FS_Surjection, FS_CardinalityType
  <1>4. Foremost \subseteq Services
    BY <1>2 DEF Foremost, Screens
  <1> HIDE DEF n
  <1>5. ASSUME NEW list \in Galleries
        PROVE  list \in Rows /\ Len(list) = n
    <2>1. /\ list \in [1 .. n -> Foremost] /\ DOMAIN list = 1 .. n
          /\ \A i, j \in 1 .. n : i < j => list[i].net # list[j].net
      BY DEF Galleries, n
    <2>2. list \in [1 .. n -> Services]
      BY <1>4, <2>1
    <2>3. list \in Seq(Services) /\ Len(list) = n
      BY <1>3, <2>1, <2>2
    <2>4. ASSUME NEW i \in 1 .. n, NEW j \in 1 .. n, list[i] = list[j]
          PROVE  i = j
      <3>1. i \in Int /\ j \in Int
        BY <1>3
      <3>2. ~(i < j) /\ ~(j < i)
        BY <2>1, <2>4
      <3> QED
        BY <3>1, <3>2
    <2> QED
      BY <2>1, <2>3, <2>4 DEF Rows, IsInjective
  <1> QED
    BY <1>3, <1>5 DEF n

LEMMA StoreRows ==
  ASSUME store \in Rows
  PROVE  /\ \A mode : /\ FeedLength(mode) \in Nat
                      /\ \A list \in FeedLists(mode) :
                           list \in Rows /\ Len(list) = FeedLength(mode)
         /\ \A query : Matching(query) \in Rows
  <1>1. Latest \in Rows /\ Len(Latest) \in Nat
    <2>1. Latest \in Rows
      BY KeepProperties DEF Latest, Rows
    <2> QED
      BY <2>1, LenProperties DEF Rows
  <1>2. ASSUME NEW mode
        PROVE  /\ FeedLength(mode) \in Nat
               /\ \A list \in FeedLists(mode) : list \in Rows /\ Len(list) = FeedLength(mode)
    <2>1. CASE mode = "latest"
      BY <1>1, <2>1 DEF FeedLists, FeedLength
    <2>2. CASE mode # "latest"
      BY <2>2, GalleryRows DEF FeedLists, FeedLength
    <2> QED
      BY <2>1, <2>2
  <1>3. ASSUME NEW query
        PROVE  Matching(query) \in Rows
    <2> DEFINE asked == ({query.q} \ {""}) \cup
                        ({query.f[f] : f \in Fields \ {"sort"}} \ {Default})
               kept == Keep(store, {s \in Services : \A v \in asked : s \in Having[v]})
    <2>1. kept \in Rows
      BY KeepProperties DEF Rows
    <2>2. Matching(query) = IF query.f["sort"] = Default THEN kept ELSE Ranked(kept)
      BY DEF Matching
    <2> HIDE DEF kept
    <2> QED
      BY <2>1, <2>2, RankedRows
  <1> QED
    BY <1>2, <1>3

(* A landing keeps the store a listing. *)
LEMMA LandRows ==
  ASSUME store \in Rows, NEW s \in Services, store' = <<s>> \o Keep(store, Services \ {s})
  PROVE  store' \in Rows
  <1> DEFINE others == Services \ {s}
             rest == Keep(store, others)
             one == <<s>>
  <1>1. /\ rest \in Seq(Services) /\ IsInjective(rest)
        /\ \A k \in DOMAIN rest : rest[k] \in others
    <2> HIDE DEF others
    <2> QED
      BY KeepProperties DEF Rows
  <1>2. \A k \in DOMAIN rest : rest[k] # s
    BY <1>1
  <1>3. one \in Seq(Services) /\ Len(one) = 1 /\ one[1] = s
    OBVIOUS
  <1>4. store' = one \o rest
    OBVIOUS
  <1> HIDE DEF rest, one
  <1>5. /\ store' \in Seq(Services) /\ Len(store') = 1 + Len(rest)
        /\ \A i \in 1 .. 1 + Len(rest) : store'[i] = IF i <= 1 THEN one[i] ELSE rest[i - 1]
    <2>0. one \in Seq(Services) /\ rest \in Seq(Services)
      BY <1>1, <1>3
    <2>1. /\ one \o rest \in Seq(Services) /\ Len(one \o rest) = Len(one) + Len(rest)
          /\ \A i \in 1 .. Len(one) + Len(rest) :
               (one \o rest)[i] = IF i <= Len(one) THEN one[i] ELSE rest[i - Len(one)]
      BY <2>0, ConcatProperties
    <2>2. Len(one) = 1
      BY <1>3
    <2>3. store' \in Seq(Services) /\ Len(store') = 1 + Len(rest)
      BY <1>4, <2>1, <2>2
    <2>4. ASSUME NEW i \in 1 .. 1 + Len(rest)
          PROVE  store'[i] = IF i <= 1 THEN one[i] ELSE rest[i - 1]
      <3>1. i \in 1 .. Len(one) + Len(rest)
        BY <2>2
      <3>2. store'[i] = IF i <= Len(one) THEN one[i] ELSE rest[i - Len(one)]
        BY <1>4, <2>1, <3>1
      <3> QED
        BY <2>2, <3>2
    <2> QED
      BY <2>3, <2>4
  <1>6. Len(rest) \in Nat /\ DOMAIN rest = 1 .. Len(rest)
    BY <1>1, LenProperties
  <1>7. DOMAIN store' = 1 .. 1 + Len(rest)
    BY <1>5, LenProperties
  <1>8. /\ store'[1] = s
        /\ \A i \in 1 .. 1 + Len(rest) :
             i # 1 => i - 1 \in DOMAIN rest /\ store'[i] = rest[i - 1]
    <2>1. store'[1] = s
      BY <1>3, <1>5, <1>6
    <2>2. ASSUME NEW i \in 1 .. 1 + Len(rest), i # 1
          PROVE  i - 1 \in DOMAIN rest /\ store'[i] = rest[i - 1]
      <3>1. ~(i <= 1) /\ i - 1 \in 1 .. Len(rest)
        BY <1>6, <2>2
      <3> QED
        BY <1>5, <1>6, <3>1
    <2> QED
      BY <2>1, <2>2
  <1>9. ASSUME NEW i \in 1 .. 1 + Len(rest), NEW j \in 1 .. 1 + Len(rest), store'[i] = store'[j]
        PROVE  i = j
    <2>1. CASE i = 1 /\ j = 1
      BY <2>1
    <2>2. CASE i # 1 /\ j # 1
      <3>1. i - 1 = j - 1
        BY <1>1, <1>8, <1>9, <2>2 DEF IsInjective
      <3>2. i \in Int /\ j \in Int
        BY <1>6
      <3> QED
        BY <3>1, <3>2
    <2>3. \A k \in 1 .. 1 + Len(rest) : k # 1 => store'[k] # s
      BY <1>2, <1>8
    <2> QED
      BY <1>8, <1>9, <2>1, <2>2, <2>3
  <1> QED
    BY <1>5, <1>7, <1>9 DEF Rows, IsInjective

(* The page asked for, when it answers: it is read of one of the orders.     *)
LEMMA FeedTakes ==
  ASSUME NEW f, FeedOK(f), f.loading, ~f.error, f.tiles \in Seq(Services),
         NEW n \in Nat, NEW lists, NEW list \in lists, list \in Rows, Len(list) = n,
         f.offset = 0 \/ FeedRows(f, lists, n),
         NEW g, g = [f EXCEPT !.tiles = (IF f.offset = 0 THEN <<>> ELSE @) \o PageOf(list, f.offset).entries,
                              !.more = PageOf(list, f.offset).has_more, !.loading = FALSE]
  PROVE  FeedRows(g, lists, n)
  <1> DEFINE o == f.offset
             page == PageOf(list, o).entries
             before == IF o = 0 THEN <<>> ELSE f.tiles
             next == IF o + PAGE < n THEN o + PAGE ELSE n
  <1>1. o \in Nat /\ PAGE \in Nat \ {0}
    BY ListingAssumption DEF FeedOK
  <1>2. o # 0 => o < n /\ Len(f.tiles) = o /\ Placed(f.tiles, lists)
    <2>1. o # 0 => FeedReadOf(f) = o /\ o > 0
      BY <1>1 DEF FeedReadOf
    <2> QED
      BY <1>1, <2>1 DEF FeedRows
  <1>3. o <= n
    BY <1>1, <1>2
  <1>4. /\ page \in Seq(Services) /\ PageOf(list, o).has_more = (o + PAGE < n)
        /\ o + Len(page) = next
        /\ \A i \in 1 .. Len(page) : page[i] = list[o + i]
    BY <1>1, <1>3, PageRows
  <1>5. /\ g.tiles = before \o page /\ g.more = (o + PAGE < n)
        /\ ~g.loading /\ ~g.error /\ g.offset = o
    BY <1>4 DEF FeedOK
  <1> HIDE DEF page
  <1>6. /\ before \in Seq(Services) /\ Len(before) = o
        /\ \A i \in 1 .. o : \E l \in lists : before[i] = l[i]
    <2>1. CASE o = 0
      BY <2>1
    <2>2. CASE o # 0
      BY <1>2, <2>2, LenProperties DEF Placed
    <2> QED
      BY <2>1, <2>2
  <1> HIDE DEF before, o
  <1>7. /\ before \o page \in Seq(Services) /\ Len(before \o page) = o + Len(page)
        /\ \A i \in 1 .. o + Len(page) :
             (before \o page)[i] = IF i <= o THEN before[i] ELSE page[i - o]
    <2>1. before \in Seq(Services) /\ page \in Seq(Services)
      BY <1>4, <1>6
    <2>2. /\ before \o page \in Seq(Services) /\ Len(before \o page) = Len(before) + Len(page)
          /\ \A i \in 1 .. Len(before) + Len(page) :
               (before \o page)[i] = IF i <= Len(before) THEN before[i] ELSE page[i - Len(before)]
      BY <2>1, ConcatProperties
    <2>3. Len(before) = o
      BY <1>6
    <2> QED
      BY <2>2, <2>3
  <1>8. Placed(before \o page, lists)
    <2>1. DOMAIN (before \o page) = 1 .. o + Len(page)
      BY <1>7, LenProperties
    <2>2. ASSUME NEW i \in 1 .. o + Len(page)
          PROVE  \E l \in lists : (before \o page)[i] = l[i]
      <3>1. Len(page) \in Nat
        BY <1>4, LenProperties
      <3>2. CASE i <= o
        <4>1. i \in 1 .. o
          BY <1>1, <3>1, <3>2
        <4> QED
          BY <1>6, <1>7, <3>2, <4>1
      <3>3. CASE ~(i <= o)
        <4>1. i - o \in 1 .. Len(page) /\ o + (i - o) = i
          BY <1>1, <3>1, <3>3
        <4>2. page[i - o] = list[o + (i - o)]
          BY <1>4, <4>1
        <4>3. (before \o page)[i] = list[i]
          BY <1>7, <3>3, <4>1, <4>2
        <4> QED
          BY <4>3
      <3> QED
        BY <3>2, <3>3
    <2> QED
      BY <2>1, <2>2 DEF Placed
  <1>9. FeedReadOf(g) = o + PAGE
    BY <1>5 DEF FeedReadOf
  <1> QED
    BY <1>2, <1>4, <1>5, <1>7, <1>8, <1>9 DEF FeedRows

-----------------------------------------------------------------------------
(* What is shown is kept by a step that leaves a page alone: a row that      *)
(* comes back in place does so on the page that is open.                     *)
LEMMA FeedListsStay ==
  ASSUME UNCHANGED <<store, updated>>
  PROVE  /\ \A mode : FeedLists(mode)' = FeedLists(mode) /\ FeedLength(mode)' = FeedLength(mode)
         /\ FeedLists(feed.mode)' = FeedLists(feed'.mode)
         /\ FeedLength(feed.mode)' = FeedLength(feed'.mode)
  BY DEF FeedLists, FeedLength, Latest, Galleries, Nets, Foremost, Screens, Outranks

LEMMA FeedStays ==
  ASSUME FeedInv, UNCHANGED <<feed, store, updated>>, FeedOpen' = FeedOpen,
         (shifted' <=> shifted) \/ ~FeedOpen
  PROVE  FeedInv'
  <1>1. CASE shifted' <=> shifted
    <2>1. /\ FeedLists(feed.mode)' = FeedLists(feed.mode)
          /\ FeedLength(feed.mode)' = FeedLength(feed.mode)
      BY FeedListsStay
    <2> QED
      BY <1>1, <2>1 DEF FeedInv
  <1>2. CASE ~FeedOpen
    <2>1. feed = FeedStart /\ feed' = feed
      BY <1>2 DEF FeedInv
    <2>2. \A lists, n : FeedRows(FeedStart, lists, n)
      BY DEF FeedRows, FeedReadOf, FeedStart
    <2> QED
      BY <2>1, <2>2 DEF FeedInv
  <1> QED
    BY <1>1, <1>2

LEMMA ClosedSearch ==
  SearchClosed.tiles = <<>> /\ ~Active(SearchClosed) /\ <<>> \in Rows
  <1>1. SearchClosed.tiles = <<>>
    BY DEF SearchClosed, SearchStart
  <1>2. DOMAIN <<>> = {} /\ IsInjective(<<>>)
    BY DEF IsInjective
  <1>3. SearchClosed.debounced = ""
    BY <1>2, SearchAssumption DEF SearchClosed, SearchStart, SeededText
  <1>4. \A f \in Narrowing : SearchClosed.filters[f] = Default
    BY <1>2 DEF SearchClosed, SearchStart, Seeded, Narrowing
  <1>5. ~Active(SearchClosed)
    <2> HIDE DEF SearchClosed
    <2> QED
      BY <1>3, <1>4 DEF Active
  <1>6. <<>> \in Seq(Services)
    OBVIOUS
  <1> QED
    BY <1>1, <1>2, <1>5, <1>6 DEF Rows

LEMMA SearchStays ==
  ASSUME SearchInv, UNCHANGED <<search, searchCalls, store>>, SearchOpen' = SearchOpen,
         (shifted' <=> shifted) \/ ~SearchOpen
  PROVE  SearchInv'
  <1>1. CASE shifted' <=> shifted
    <2>1. Matching(QueryOf(search))' = Matching(QueryOf(search))
      BY DEF Matching, Ranked, QueryOf
    <2> QED
      BY <1>1, <2>1 DEF SearchInv, Active
  <1>2. CASE ~SearchOpen
    <2>1. search = SearchClosed /\ search' = search
      BY <1>2 DEF SearchInv
    <2>2. search'.tiles \in Rows /\ ~Active(search')
      BY <2>1, ClosedSearch
    <2>3. ~Active(search)'
      BY <2>2 DEF Active
    <2> QED
      BY <1>2, <2>1, <2>2, <2>3 DEF SearchInv
  <1> QED
    BY <1>1, <1>2

LEMMA FeedShownStep ==
  ASSUME IInv, store \in Rows, FeedInv, FeedNext
  PROVE  FeedInv'
  <1>1. /\ FeedOK(feed) /\ feed.offset \in Nat /\ feed.mode \in Modes
        /\ PAGE \in Nat \ {0} /\ feed.offset + PAGE \in Nat /\ feed.offset + PAGE > 0
    BY ListingAssumption DEF IInv, FeedOK
  <1>2. /\ feed.loading => ~feed.error
        /\ feed.tiles \in Seq(Services)
        /\ feed.more => feed.tiles # <<>>
        /\ ~shifted => FeedRows(feed, FeedLists(feed.mode), FeedLength(feed.mode))
    BY DEF FeedInv
  \* What has to be shown of the page after a step.
  <1>3. ASSUME UNCHANGED <<store, updated>>, FeedOpen',
               feed'.loading => ~feed'.error, feed'.tiles \in Seq(Services),
               feed'.more => feed'.tiles # <<>>,
               ~shifted' => FeedRows(feed', FeedLists(feed'.mode), FeedLength(feed'.mode))
        PROVE  FeedInv'
    <2>1. /\ FeedLists(feed.mode)' = FeedLists(feed'.mode)
          /\ FeedLength(feed.mode)' = FeedLength(feed'.mode)
      BY <1>3, FeedListsStay
    <2> QED
      BY <1>3, <2>1 DEF FeedInv
  <1>4. ASSUME NEW mode \in Modes, NEW offset \in Nat, NEW over,
               FeedOpen, FeedAsk(mode, offset, over), UNCHANGED <<storeVars, historyVars>>,
               ~shifted => \/ offset = 0
                           \/ /\ mode = feed.mode /\ offset = FeedReadOf(feed) /\ feed.more
                           \/ /\ mode = feed.mode /\ offset = feed.offset
                              /\ offset = FeedReadOf(feed)
        PROVE  FeedInv'
    <2>1. feed' = [feed EXCEPT !.mode = mode, !.offset = offset, !.loading = TRUE, !.error = FALSE]
      BY <1>4 DEF FeedAsk
    <2>2. /\ feed'.mode = mode /\ feed'.offset = offset /\ feed'.loading /\ ~feed'.error
          /\ feed'.tiles = feed.tiles /\ feed'.more = feed.more
      BY <1>1, <2>1 DEF FeedOK
    <2>3. UNCHANGED <<store, updated>> /\ shifted' = shifted /\ FeedOpen'
      BY <1>4 DEF storeVars, historyVars, FeedOpen, Here
    <2>4. FeedReadOf(feed') = offset
      BY <2>2 DEF FeedReadOf
    <2>5. ASSUME ~shifted
          PROVE  FeedRows(feed', FeedLists(mode), FeedLength(mode))
      <3>1. CASE offset = 0
        BY <2>2, <2>4, <3>1 DEF FeedRows
      <3>2. CASE offset # 0
        <4>1. /\ mode = feed.mode /\ offset = FeedReadOf(feed) /\ offset > 0
              /\ feed.more \/ offset = feed.offset
          BY <1>4, <2>5, <3>2
        <4>2. /\ FeedRows(feed, FeedLists(mode), FeedLength(mode))
          BY <1>2, <2>5, <4>1
        <4> QED
          BY <2>2, <2>4, <3>2, <4>1, <4>2 DEF FeedRows
      <3> QED
        BY <3>1, <3>2
    <2> QED
      BY <1>2, <1>3, <2>2, <2>3, <2>5
  <1>5. ASSUME NEW mode \in Modes, FeedSwitch(mode)
        PROVE  FeedInv'
    <2>1. /\ FeedOpen /\ UNCHANGED <<storeVars, historyVars>>
          /\ FeedAsk(mode, 0, IF feed.offset = 0 THEN {} ELSE {FeedCall(mode, feed.offset)})
      BY <1>5 DEF FeedSwitch
    <2> QED
      BY <1>4, <2>1
  <1>6. CASE FeedMore
    <2>1. /\ FeedOpen /\ UNCHANGED <<storeVars, historyVars>>
          /\ FeedAsk(feed.mode, feed.offset + PAGE, {}) /\ FeedFoot = "more"
      BY <1>6 DEF FeedMore
    <2>2. ~feed.loading /\ ~feed.error /\ feed.more
      BY <1>2, <2>1 DEF FeedFoot
    <2>3. FeedReadOf(feed) = feed.offset + PAGE
      BY <2>2 DEF FeedReadOf
    <2> QED
      BY <1>1, <1>4, <2>1, <2>2, <2>3
  <1>7. CASE FeedRetry
    <2>1. /\ FeedOpen /\ UNCHANGED <<storeVars, historyVars>>
          /\ FeedAsk(feed.mode, feed.offset, {}) /\ feed.error
      BY <1>7 DEF FeedRetry, FeedView, FeedFoot
    <2>2. FeedReadOf(feed) = feed.offset
      BY <2>1 DEF FeedReadOf
    <2> QED
      BY <1>1, <1>4, <2>1, <2>2
  <1>8. CASE FeedGroup
    <2>1. feed' = [feed EXCEPT !.group = ~@] /\ UNCHANGED <<storeVars, historyVars>> /\ FeedOpen
      BY <1>8 DEF FeedGroup
    <2>2. /\ feed'.mode = feed.mode /\ feed'.offset = feed.offset /\ feed'.loading = feed.loading
          /\ feed'.error = feed.error /\ feed'.tiles = feed.tiles /\ feed'.more = feed.more
      BY <1>1, <2>1 DEF FeedOK
    <2>3. UNCHANGED <<store, updated>> /\ shifted' = shifted /\ FeedOpen'
      BY <2>1 DEF storeVars, historyVars, FeedOpen, Here
    <2>4. \A lists, n : FeedRows(feed, lists, n) => FeedRows(feed', lists, n)
      BY <2>2 DEF FeedRows, FeedReadOf
    <2> QED
      BY <1>2, <1>3, <2>2, <2>3, <2>4
  <1>9. ASSUME NEW c \in feedCalls, c.alive
        PROVE  c = FeedCall(feed.mode, feed.offset) /\ feed.loading /\ ~feed.error /\ FeedOpen
    BY <1>2, <1>9 DEF IInv, LiveCalls, FeedLive
  <1>10. ASSUME NEW c \in feedCalls, FeedAnswer(c)
         PROVE  FeedInv'
    <2>1. CASE ~c.alive
      <3>1. UNCHANGED <<feed, store, updated, historyVars>> /\ (shifted' <=> shifted)
        BY <1>10, <2>1 DEF FeedAnswer
      <3> QED
        BY <3>1, FeedStays DEF historyVars, FeedOpen, Here
    <2>2. CASE c.alive
      <3> DEFINE lists == FeedLists(feed.mode)
                 n == FeedLength(feed.mode)
      <3>1. c.mode = feed.mode /\ c.offset = feed.offset /\ feed.loading /\ ~feed.error /\ FeedOpen
        BY <1>9, <2>2 DEF FeedCall
      <3>0. PICK list \in lists : feed' = FeedTake(c, list)
        BY <1>10, <2>2, <3>1 DEF FeedAnswer
      <3> DEFINE r == PageOf(list, feed.offset)
      <3>2. /\ feed' = [feed EXCEPT !.tiles = (IF feed.offset = 0 THEN <<>> ELSE @) \o r.entries,
                                    !.more = r.has_more, !.loading = FALSE]
            /\ UNCHANGED <<store, updated>> /\ UNCHANGED historyVars
            /\ shifted' = (shifted /\ feed.offset # 0)
        BY <1>10, <2>2, <3>0, <3>1 DEF FeedAnswer, FeedTake
      <3>3. list \in Rows /\ Len(list) = n /\ n \in Nat
        BY <3>0, StoreRows
      <3> HIDE DEF lists, n
      <3>4. ~shifted' => FeedRows(feed', lists, n)
        <4>1. ~shifted' => feed.offset = 0 \/ FeedRows(feed, lists, n)
          BY <1>2, <3>2 DEF lists, n
        <4> QED
          BY <1>1, <1>2, <3>0, <3>1, <3>2, <3>3, <4>1, FeedTakes
      <3>5. /\ r.entries \in Seq(Services) /\ (r.has_more => r.entries # <<>>)
        BY <1>1, <3>3, PageRows
      <3> HIDE DEF r
      <3>6. /\ feed'.mode = feed.mode /\ ~feed'.error /\ feed'.more = r.has_more
            /\ feed'.tiles = (IF feed.offset = 0 THEN <<>> ELSE feed.tiles) \o r.entries
        BY <1>1, <3>1, <3>2 DEF FeedOK
      <3>7. feed'.tiles \in Seq(Services) /\ (r.entries # <<>> => feed'.tiles # <<>>)
        <4> DEFINE before == IF feed.offset = 0 THEN <<>> ELSE feed.tiles
        <4>1. before \in Seq(Services)
          BY <1>2
        <4> HIDE DEF before
        <4>2. feed'.tiles = before \o r.entries
          BY <3>6 DEF before
        <4> QED
          BY <3>5, <4>1, <4>2, ConcatProperties, ConcatEqualIffEmpty
      <3>8. FeedOpen'
        BY <3>1, <3>2 DEF historyVars, FeedOpen, Here
      <3> QED
        BY <1>3, <3>2, <3>4, <3>5, <3>6, <3>7, <3>8 DEF lists, n
    <2> QED
      BY <2>1, <2>2
  <1>11. ASSUME NEW c \in feedCalls, FeedFail(c)
         PROVE  FeedInv'
    <2>1. CASE ~c.alive
      <3>1. UNCHANGED <<feed, store, updated, historyVars>> /\ (shifted' <=> shifted)
        BY <1>11, <2>1 DEF FeedFail, storeVars
      <3> QED
        BY <3>1, FeedStays DEF historyVars, FeedOpen, Here
    <2>2. CASE c.alive
      <3>1. feed.loading /\ FeedOpen
        BY <1>9, <2>2
      <3>2. feed' = [feed EXCEPT !.error = TRUE, !.loading = FALSE] /\ UNCHANGED <<storeVars, historyVars>>
        BY <1>11, <2>2 DEF FeedFail
      <3>3. /\ feed'.mode = feed.mode /\ feed'.offset = feed.offset /\ ~feed'.loading
            /\ feed'.error /\ feed'.tiles = feed.tiles /\ feed'.more = feed.more
        BY <1>1, <3>2 DEF FeedOK
      <3>4. UNCHANGED <<store, updated>> /\ shifted' = shifted /\ FeedOpen'
        BY <3>1, <3>2 DEF storeVars, historyVars, FeedOpen, Here
      <3>5. \A lists, n : FeedRows(feed, lists, n) => FeedRows(feed', lists, n)
        BY <3>1, <3>3 DEF FeedRows, FeedReadOf
      <3> QED
        BY <1>2, <1>3, <3>3, <3>4, <3>5
    <2> QED
      BY <2>1, <2>2
  <1> QED
    BY <1>5, <1>6, <1>7, <1>8, <1>10, <1>11 DEF FeedNext

-----------------------------------------------------------------------------
(* The search page counts its rows by pages. *)
LEMMA Paging ==
  ASSUME NEW p \in Nat
  PROVE  /\ p * PAGE \in Nat /\ (p + 1) * PAGE = p * PAGE + PAGE
         /\ (p = 0) = (p * PAGE = 0)
         /\ (p + 1) * PAGE \in Nat /\ (p + 1) * PAGE > 0
  <1>1. PAGE \in Nat \ {0}
    BY ListingAssumption
  <1>2. p * PAGE \in Nat
    BY <1>1
  <1>3. (p + 1) * PAGE = p * PAGE + PAGE
    BY <1>1
  <1>4. p # 0 => p * PAGE >= PAGE
    BY <1>1
  <1> QED
    BY <1>1, <1>2, <1>3, <1>4

LEMMA TopRows ==
  ASSUME NEW list \in Rows, NEW n \in Nat
  PROVE  Top(list, n) \in Rows /\ (n > 0 /\ Top(list, n) = <<>> => list = <<>>)
  <1>1. list \in Seq(Services) /\ Len(list) \in Nat
    BY LenProperties DEF Rows
  <1>2. CASE n <= Len(list)
    BY <1>2, TopGrows
  <1>3. CASE ~(n <= Len(list))
    <2>1. Top(list, n) = Top(list, Len(list))
      BY <1>1, <1>3 DEF Top
    <2>2. /\ Top(list, Len(list)) \in Rows
          /\ Len(list) > 0 /\ Top(list, Len(list)) = <<>> => list = <<>>
      BY <1>1, TopGrows
    <2>3. Len(list) = 0 => list = <<>>
      BY <1>1, EmptySeq
    <2> QED
      BY <1>1, <2>1, <2>2, <2>3
  <1> QED
    BY <1>2, <1>3

(* Grouping is not asked of the API, and does not make a search.             *)
LEMMA ActiveQuery ==
  ASSUME NEW s, NEW t, StateOK(s), StateOK(t), QueryOf(s) = QueryOf(t)
  PROVE  Active(s) <=> Active(t)
  <1>1. s.debounced = t.debounced
    BY DEF QueryOf
  <1>2. [s.filters EXCEPT !["group"] = Default] = [t.filters EXCEPT !["group"] = Default]
    BY DEF QueryOf
  <1>3. s.filters \in [Fields -> FilterValues] /\ t.filters \in [Fields -> FilterValues]
    BY DEF StateOK, FilterType
  <1>4. \A f \in Narrowing : f \in Fields /\ f # "group"
    BY DEF Narrowing
  <1>5. ASSUME NEW f \in Narrowing
        PROVE  s.filters[f] = t.filters[f]
    <2>1. /\ [s.filters EXCEPT !["group"] = Default][f] = s.filters[f]
          /\ [t.filters EXCEPT !["group"] = Default][f] = t.filters[f]
      BY <1>3, <1>4
    <2> QED
      BY <1>2, <2>1
  <1> QED
    BY <1>1, <1>5 DEF Active

(* What the fetch effect leaves on the page. *)
LEMMA FetchingShown ==
  ASSUME NEW s, StateOK(s)
  PROVE  /\ Active(Fetching(s)) <=> Active(s)
         /\ ~Active(s) => Fetching(s).tiles = <<>>
         /\ Active(s) => /\ Fetching(s).tiles = s.tiles /\ Fetching(s).more = s.more
                         /\ Fetching(s).total = s.total /\ Fetching(s).hosts = s.hosts
                         /\ Fetching(s).page = s.page
                         /\ Fetching(s).loading /\ ~Fetching(s).error
  <1>1. Active(Fetching(s)) <=> Active(s)
    BY FetchingFields, ActiveQuery
  <1>2. CASE Active(s)
    <2>1. Fetching(s) = [s EXCEPT !.loading = TRUE, !.touched = TRUE, !.error = FALSE]
      BY <1>2 DEF Fetching
    <2> QED
      BY <1>1, <1>2, <2>1 DEF StateOK
  <1>3. CASE ~Active(s)
    <2>1. Fetching(s) = [s EXCEPT !.tiles = <<>>, !.more = FALSE, !.total = 0, !.hosts = 0,
                                  !.error = FALSE]
      BY <1>3 DEF Fetching
    <2> QED
      BY <1>1, <1>3, <2>1 DEF StateOK
  <1> QED
    BY <1>2, <1>3

(* The page asked for, when it answers. *)
LEMMA SearchTakes ==
  ASSUME NEW s, StateOK(s), s.loading, ~s.error,
         NEW list \in Rows, s.page = 0 \/ SearchRows(s, list),
         NEW g, g = [s EXCEPT !.tiles = (IF s.page = 0 THEN <<>> ELSE @)
                                        \o PageOf(list, s.page * PAGE).entries,
                              !.more = PageOf(list, s.page * PAGE).has_more,
                              !.total = PageOf(list, s.page * PAGE).total,
                              !.hosts = PageOf(list, s.page * PAGE).hosts,
                              !.loading = FALSE]
  PROVE  SearchRows(g, list) /\ g.tiles \in Rows
  <1> DEFINE o == s.page * PAGE
             r == PageOf(list, o)
             tiles == (IF s.page = 0 THEN <<>> ELSE s.tiles) \o r.entries
  <1>1. /\ g.tiles = tiles /\ g.more = r.has_more /\ g.total = r.total /\ g.hosts = r.hosts
        /\ ~g.loading /\ g.page = s.page /\ ~g.error
    BY DEF StateOK
  <1>2. s.page \in Nat /\ o \in Nat /\ (s.page + 1) * PAGE = o + PAGE /\ (s.page = 0) = (o = 0)
    BY Paging DEF StateOK
  <1>3. PAGE \in Nat \ {0} /\ Len(list) \in Nat
    BY ListingAssumption, LenProperties DEF Rows
  <1>4. s.page # 0 => o < Len(list) /\ s.tiles = Top(list, o)
    <2>1. SearchReadOf(s) = o
      BY DEF SearchReadOf
    <2>2. s.page # 0 => o > 0
      BY <1>2
    <2> QED
      BY <2>1, <2>2 DEF SearchRows
  <1> HIDE DEF o
  <1>5. o <= Len(list)
    BY <1>2, <1>3, <1>4
  <1>6. /\ o = 0 => r.entries = Top(list, o + PAGE)
        /\ Top(list, o) \o r.entries = Top(list, o + PAGE)
        /\ r.has_more = (o + PAGE < Len(list))
    BY <1>2, <1>5, TopGrows
  <1>7. /\ r.entries \in Seq(Services)
        /\ r.total = Len(list) /\ r.hosts = Cardinality(HostsOf(list))
    BY <1>2, PageRows
  <1> HIDE DEF r
  <1>8. <<>> \o r.entries = r.entries
    BY <1>7, ConcatEmptySeq
  <1>9. tiles = Top(list, o + PAGE)
    BY <1>2, <1>4, <1>6, <1>8
  <1>10. o + PAGE \in Nat
    BY <1>2, <1>3
  <1>11. g.tiles \in Rows
    BY <1>1, <1>9, <1>10, TopRows
  <1>12. SearchReadOf(g) = o + PAGE
    BY <1>1, <1>2 DEF SearchReadOf
  <1>13. g.page = 0 \/ g.page * PAGE < Len(list)
    BY <1>1, <1>4 DEF o
  <1> QED
    BY <1>1, <1>6, <1>7, <1>9, <1>11, <1>12, <1>13 DEF SearchRows

(* What has to be shown of the search page after a step. *)
LEMMA SearchShown ==
  ASSUME UNCHANGED store, SearchOpen',
         \A c \in searchCalls' : c.alive => Active(search'),
         Active(search') /\ search'.loading => ~search'.error,
         ~shifted' => /\ search'.tiles \in Rows
                      /\ Active(search') => SearchRows(search', Matching(QueryOf(search')))
  PROVE  SearchInv'
  <1>1. Matching(QueryOf(search))' = Matching(QueryOf(search'))
    BY DEF Matching, Ranked, QueryOf
  <1>2. Active(search)' <=> Active(search')
    BY DEF Active
  <1> QED
    BY <1>1, <1>2 DEF SearchInv

(* The fetch effect, run with a first page, or a next one of the same query. *)
LEMMA FetchShown ==
  ASSUME NEW t, StateOK(t), search' = Fetching(t), UNCHANGED store, shifted' <=> shifted,
         SearchOpen', NEW over, searchCalls' = over \cup FetchCalls(t),
         \A c \in over : ~c.alive,
         ~shifted => t.tiles \in Rows,
         ~shifted /\ Active(t) /\ t.page # 0 =>
            LET list == Matching(QueryOf(t))
            IN  /\ t.page * PAGE < Len(list) /\ t.tiles = Top(list, t.page * PAGE)
                /\ t.more = (t.page * PAGE < Len(list))
                /\ t.total = Len(list) /\ t.hosts = Cardinality(HostsOf(list))
  PROVE  SearchInv'
  <1> DEFINE list == Matching(QueryOf(t))
             g == Fetching(t)
  <1>1. /\ Active(g) <=> Active(t)
        /\ ~Active(t) => g.tiles = <<>>
        /\ Active(t) => /\ g.tiles = t.tiles /\ g.more = t.more
                        /\ g.total = t.total /\ g.hosts = t.hosts
                        /\ g.page = t.page /\ g.loading /\ ~g.error
    BY FetchingShown
  <1>2. QueryOf(g) = QueryOf(t) /\ \A c \in FetchCalls(t) : Active(t)
    BY FetchingFields
  <1>3. t.page \in Nat /\ t.page * PAGE \in Nat /\ (t.page = 0) = (t.page * PAGE = 0)
    BY Paging DEF StateOK
  <1>4. search' = g
    OBVIOUS
  <1>5. ~shifted /\ Active(t) /\ t.page # 0 =>
           /\ t.page * PAGE < Len(list) /\ t.tiles = Top(list, t.page * PAGE)
           /\ t.more = (t.page * PAGE < Len(list))
           /\ t.total = Len(list) /\ t.hosts = Cardinality(HostsOf(list))
    OBVIOUS
  <1> HIDE DEF g, list
  <1>6. ASSUME ~shifted, Active(t)
        PROVE  SearchRows(g, list)
    <2>1. SearchReadOf(g) = t.page * PAGE
      BY <1>1, <1>6 DEF SearchReadOf
    <2>2. CASE t.page = 0
      BY <1>1, <1>3, <1>6, <2>1, <2>2 DEF SearchRows
    <2>3. CASE t.page # 0
      BY <1>1, <1>3, <1>5, <1>6, <2>1, <2>3 DEF SearchRows
    <2> QED
      BY <2>2, <2>3
  <1>7. ~shifted => g.tiles \in Rows
    BY <1>1, ClosedSearch
  <1>8. \A c \in searchCalls' : c.alive => Active(search')
    BY <1>1, <1>2, <1>4
  <1> QED
    BY <1>1, <1>2, <1>4, <1>6, <1>7, <1>8, SearchShown DEF list

(* The page takes a new text or filters: the old query stays, or the new one *)
(* is asked from its first page.                                             *)
LEMMA BecomeShown ==
  ASSUME IInv, store \in Rows, SearchInv, SearchOpen', NEW s, StateOK(s), Become(s),
         s.tiles = search.tiles, s.page = search.page, s.more = search.more,
         s.total = search.total, s.hosts = search.hosts, s.loading = search.loading,
         s.error = search.error
  PROVE  SearchInv'
  <1>1. /\ \A c \in searchCalls : c.alive => Active(search)
        /\ Active(search) /\ search.loading => ~search.error
        /\ ~shifted => /\ search.tiles \in Rows
                       /\ Active(search) => SearchRows(search, Matching(QueryOf(search)))
    BY DEF SearchInv
  <1>2. store' = store /\ shifted' = shifted
    BY DEF Become, storeVars
  <1>3. StateOK(search) /\ searchCalls \subseteq SearchCallType
    BY DEF IInv
  <1>4. CASE QueryOf(s) = QueryOf(search)
    <2>1. search' = s /\ searchCalls' = searchCalls
      BY <1>4 DEF Become
    <2>2. Active(s) <=> Active(search)
      BY <1>3, <1>4, ActiveQuery
    <2>3. \A list : SearchRows(search, list) => SearchRows(s, list)
      BY DEF SearchRows, SearchReadOf
    <2> QED
      BY <1>1, <1>2, <1>4, <2>1, <2>2, <2>3, SearchShown
  <1>5. CASE QueryOf(s) # QueryOf(search)
    <2> DEFINE first == [s EXCEPT !.page = 0]
               stale == IF search.page = 0 THEN {} ELSE FetchCalls(s)
               over == Superseded(searchCalls \cup stale)
    <2>1. search' = Fetching(first) /\ searchCalls' = over \cup FetchCalls(first)
      BY <1>5 DEF Become
    <2>2. StateOK(first) /\ first.page = 0 /\ first.tiles = search.tiles
      BY DEF StateOK
    <2>3. stale \subseteq SearchCallType
      BY FetchingFields
    <2>4. \A c \in over : ~c.alive
      <3>1. searchCalls \cup stale \in SUBSET SearchCallType
        BY <1>3, <2>3
      <3> HIDE DEF stale
      <3> QED
        BY <3>1, SupersededCalls
    <2> HIDE DEF first, stale, over
    <2> QED
      BY <1>1, <1>2, <2>1, <2>2, <2>4, FetchShown
  <1> QED
    BY <1>4, <1>5

(* A later page, or the same page again. *)
LEMMA RefetchShown ==
  ASSUME IInv, store \in Rows, SearchInv, SearchOpen, Active(search), NEW page \in Nat,
         Refetch(page),
         page = 0 \/ page * PAGE = SearchReadOf(search),
         page # 0 /\ ~shifted => page * PAGE < Len(Matching(QueryOf(search)))
  PROVE  SearchInv'
  <1> DEFINE t == [search EXCEPT !.page = page]
             over == Superseded(searchCalls)
             list == Matching(QueryOf(search))
  <1>1. search' = Fetching(t) /\ searchCalls' = over \cup FetchCalls(t)
    BY DEF Refetch
  <1>2. store' = store /\ shifted' = shifted /\ SearchOpen'
    BY DEF Refetch, storeVars, historyVars, SearchOpen, Here
  <1>3. StateOK(search) /\ searchCalls \in SUBSET SearchCallType
    BY DEF IInv
  <1>4. /\ StateOK(t) /\ t.page = page /\ t.tiles = search.tiles /\ t.more = search.more
        /\ t.total = search.total /\ t.hosts = search.hosts
        /\ t.debounced = search.debounced /\ t.filters = search.filters
    BY <1>3 DEF StateOK
  <1>5. QueryOf(t) = QueryOf(search)
    BY <1>4 DEF QueryOf
  <1>6. \A c \in over : ~c.alive
    BY <1>3, SupersededCalls
  <1>7. ~shifted => search.tiles \in Rows /\ SearchRows(search, list)
    BY DEF SearchInv
  <1> HIDE DEF t, over, list
  <1>8. page # 0 => page * PAGE > 0
    BY Paging
  <1>9. ASSUME ~shifted, page # 0
        PROVE  /\ t.page * PAGE < Len(list) /\ t.tiles = Top(list, t.page * PAGE)
               /\ t.more = (t.page * PAGE < Len(list))
               /\ t.total = Len(list) /\ t.hosts = Cardinality(HostsOf(list))
    <2>1. SearchReadOf(search) = page * PAGE /\ SearchReadOf(search) > 0
      BY <1>8, <1>9
    <2>2. page * PAGE < Len(list)
      BY <1>9 DEF list
    <2> QED
      BY <1>4, <1>7, <1>9, <2>1, <2>2 DEF SearchRows
  <1>10. ~shifted /\ Active(t) /\ t.page # 0 =>
           LET rows == Matching(QueryOf(t))
           IN  /\ t.page * PAGE < Len(rows) /\ t.tiles = Top(rows, t.page * PAGE)
               /\ t.more = (t.page * PAGE < Len(rows))
               /\ t.total = Len(rows) /\ t.hosts = Cardinality(HostsOf(rows))
    BY <1>4, <1>5, <1>9 DEF list
  <1>11. ~shifted => t.tiles \in Rows
    BY <1>4, <1>7
  <1> QED
    BY <1>1, <1>2, <1>4, <1>6, <1>10, <1>11, FetchShown

LEMMA SearchShownStep ==
  ASSUME IInv, store \in Rows, SearchInv, SearchNext
  PROVE  SearchInv'
  <1> DEFINE list == Matching(QueryOf(search))
  <1>1. StateOK(search) /\ search.page \in Nat
    BY DEF IInv, StateOK
  <1>2. /\ \A c \in searchCalls : c.alive => Active(search)
        /\ Active(search) /\ search.loading => ~search.error
        /\ ~shifted => search.tiles \in Rows /\ (Active(search) => SearchRows(search, list))
    BY DEF SearchInv
  <1>3. /\ search.page * PAGE \in Nat /\ (search.page = 0) = (search.page * PAGE = 0)
        /\ search.page + 1 \in Nat /\ (search.page + 1) * PAGE > 0
    BY <1>1, Paging
  <1>4. ASSUME NEW s, StateOK(s), SearchOpen, Become(s),
               s.tiles = search.tiles, s.page = search.page, s.more = search.more,
               s.total = search.total, s.hosts = search.hosts, s.loading = search.loading,
               s.error = search.error
        PROVE  SearchInv'
    <2>1. HistoryOK' /\ Here' = Cited(s)
      <3>1. HistoryOK /\ at \in 1 .. Len(entries)
        BY DEF IInv, HistoryOK
      <3>2. entries' = [entries EXCEPT ![at] = Cited(s)] /\ at' = at
        BY <1>4 DEF Become, Rewrite
      <3> QED
        BY <1>4, <3>1, <3>2, CitedPage, ReplaceHere
    <2>2. SearchOpen'
      BY <1>4, <2>1, CitedPage DEF SearchOpen
    <2> QED
      BY <1>4, <2>2, BecomeShown
  <1>5. ASSUME NEW t \in Typed, Type(t)
        PROVE  SearchInv'
    <2> DEFINE s == [search EXCEPT !.q = t]
    <2>1. /\ StateOK(s) /\ s.tiles = search.tiles /\ s.page = search.page
          /\ s.more = search.more /\ s.total = search.total /\ s.hosts = search.hosts
          /\ s.loading = search.loading /\ s.error = search.error
      BY <1>1, ChosenOK, SearchAssumption DEF StateOK
    <2>2. SearchOpen /\ Become(s)
      BY <1>5 DEF Type
    <2> HIDE DEF s
    <2> QED
      BY <1>4, <2>1, <2>2
  <1>6. CASE Debounce
    <2> DEFINE s == [search EXCEPT !.debounced = Trim[search.q]]
    <2>1. /\ StateOK(s) /\ s.tiles = search.tiles /\ s.page = search.page
          /\ s.more = search.more /\ s.total = search.total /\ s.hosts = search.hosts
          /\ s.loading = search.loading /\ s.error = search.error
      BY <1>1, ChosenOK DEF StateOK
    <2>2. SearchOpen /\ Become(s)
      BY <1>6 DEF Debounce
    <2> HIDE DEF s
    <2> QED
      BY <1>4, <2>1, <2>2
  <1>7. ASSUME NEW f \in Fields, NEW v \in Offered[f] \cup {Default}, SetFilter(f, v)
        PROVE  SearchInv'
    <2> DEFINE s == [search EXCEPT !.filters[f] = v]
    <2>1. /\ StateOK(s) /\ s.tiles = search.tiles /\ s.page = search.page
          /\ s.more = search.more /\ s.total = search.total /\ s.hosts = search.hosts
          /\ s.loading = search.loading /\ s.error = search.error
      BY <1>1, ChosenOK DEF StateOK
    <2>2. SearchOpen /\ Become(s)
      BY <1>7 DEF SetFilter
    <2> HIDE DEF s
    <2> QED
      BY <1>4, <2>1, <2>2
  <1>8. CASE ResetAll
    <2>1. PICK s : s = [search EXCEPT !.q = "", !.debounced = "", !.filters = None]
      OBVIOUS
    <2>2. StateOK(s)
      BY <1>1, <2>1, ChosenOK
    <2>3. /\ s.tiles = search.tiles /\ s.page = search.page
          /\ s.more = search.more /\ s.total = search.total /\ s.hosts = search.hosts
          /\ s.loading = search.loading /\ s.error = search.error
      BY <1>1, <2>1 DEF StateOK
    <2>4. SearchOpen /\ Become(s)
      BY <1>8, <2>1 DEF ResetAll
    <2> QED
      BY <1>4, <2>2, <2>3, <2>4
  <1>9. CASE SearchMore
    <2>1. SearchOpen /\ Refetch(search.page + 1) /\ SearchFoot = "more"
      BY <1>9 DEF SearchMore
    <2>2. Active(search) /\ ~search.loading /\ ~search.error /\ search.more
      BY <2>1 DEF SearchFoot, SearchView
    <2>3. SearchReadOf(search) = (search.page + 1) * PAGE
      BY <2>2 DEF SearchReadOf
    <2>4. ~shifted => (search.page + 1) * PAGE < Len(list)
      BY <1>2, <1>3, <2>2, <2>3 DEF SearchRows
    <2> QED
      BY <1>3, <2>1, <2>2, <2>3, <2>4, RefetchShown
  <1>10. CASE SearchRetry
    <2>1. SearchOpen /\ Refetch(search.page) /\ (SearchView = "error" \/ SearchFoot = "retry")
      BY <1>10 DEF SearchRetry
    <2>2. Active(search) /\ search.error
      BY <2>1 DEF SearchFoot, SearchView
    <2>3. SearchReadOf(search) = search.page * PAGE
      BY <2>2 DEF SearchReadOf
    <2>4. search.page # 0 /\ ~shifted => search.page * PAGE < Len(list)
      BY <1>2, <2>2 DEF SearchRows
    <2> QED
      BY <1>1, <2>1, <2>2, <2>3, <2>4, RefetchShown
  <1>11. ASSUME NEW c \in searchCalls, c.alive
         PROVE  /\ c.query = QueryOf(search) /\ c.page = search.page
                /\ search.loading /\ Active(search) /\ ~search.error /\ SearchOpen
    BY <1>2, <1>11 DEF IInv, LiveCalls, SearchLive, SearchCall
  <1>12. ASSUME NEW c \in searchCalls, UNCHANGED <<search, store, historyVars>>,
                searchCalls' = searchCalls \ {c}, shifted' <=> shifted
         PROVE  SearchInv'
    <2>1. SearchOpen' = SearchOpen
      BY <1>12 DEF historyVars, SearchOpen, Here
    <2>2. Matching(QueryOf(search))' = Matching(QueryOf(search))
      BY <1>12 DEF Matching, Ranked, QueryOf
    <2> QED
      BY <1>12, <2>1, <2>2 DEF SearchInv, Active
  <1>13. ASSUME NEW c \in searchCalls, SearchAnswer(c)
         PROVE  SearchInv'
    <2>1. CASE ~c.alive
      BY <1>12, <1>13, <2>1 DEF SearchAnswer
    <2>2. CASE c.alive
      <3> DEFINE r == PageOf(list, search.page * PAGE)
                 tiles == (IF search.page = 0 THEN <<>> ELSE search.tiles) \o r.entries
      <3>1. /\ c.query = QueryOf(search) /\ c.page = search.page
            /\ search.loading /\ Active(search) /\ ~search.error /\ SearchOpen
        BY <1>11, <2>2
      <3>2. /\ search' = [search EXCEPT !.tiles = (IF search.page = 0 THEN <<>> ELSE @) \o r.entries,
                                        !.more = r.has_more, !.total = r.total,
                                        !.hosts = r.hosts, !.loading = FALSE]
            /\ store' = store /\ UNCHANGED historyVars /\ searchCalls' = searchCalls \ {c}
            /\ shifted' = (shifted /\ search.page # 0)
        BY <1>13, <2>2, <3>1 DEF SearchAnswer, SearchTake
      <3>3. list \in Rows
        BY StoreRows
      <3>4. ~shifted' => search.page = 0 \/ SearchRows(search, list)
        BY <1>2, <3>1, <3>2
      <3>5. ~shifted' => SearchRows(search', list) /\ search'.tiles \in Rows
        <4> HIDE DEF list
        <4> QED
          BY <1>1, <3>1, <3>2, <3>3, <3>4, SearchTakes
      <3>6. /\ search'.debounced = search.debounced /\ search'.filters = search.filters
            /\ ~search'.loading
        <4>1. search' = [search EXCEPT !.tiles = tiles, !.more = r.has_more, !.total = r.total,
                                       !.hosts = r.hosts, !.loading = FALSE]
          BY <3>2
        <4> HIDE DEF r, tiles
        <4> QED
          BY <1>1, <4>1 DEF StateOK
      <3>7. QueryOf(search') = QueryOf(search) /\ Active(search')
        BY <3>1, <3>6 DEF QueryOf, Active
      <3>8. SearchOpen'
        BY <3>1, <3>2 DEF historyVars, SearchOpen, Here
      <3> QED
        BY <3>2, <3>5, <3>6, <3>7, <3>8, SearchShown
    <2> QED
      BY <2>1, <2>2
  <1>14. ASSUME NEW c \in searchCalls, SearchFail(c)
         PROVE  SearchInv'
    <2>1. CASE ~c.alive
      BY <1>12, <1>14, <2>1 DEF SearchFail, storeVars
    <2>2. CASE c.alive
      <3> DEFINE tiles == IF search.page = 0 THEN <<>> ELSE search.tiles
      <3>1. /\ c.query = QueryOf(search) /\ c.page = search.page
            /\ search.loading /\ Active(search) /\ ~search.error /\ SearchOpen
        BY <1>11, <2>2
      <3>2. /\ search' = [search EXCEPT !.error = TRUE, !.loading = FALSE, !.tiles = tiles]
            /\ store' = store /\ shifted' = shifted /\ UNCHANGED historyVars
            /\ searchCalls' = searchCalls \ {c}
        BY <1>14, <2>2, <3>1 DEF SearchFail, SearchFailed, storeVars
      <3>3. search.page = 0 => tiles = <<>>
        OBVIOUS
      <3>4. search.page # 0 => tiles = search.tiles
        OBVIOUS
      <3> HIDE DEF tiles, list
      <3>5. /\ search'.debounced = search.debounced /\ search'.filters = search.filters
            /\ ~search'.loading /\ search'.error /\ search'.tiles = tiles
            /\ search'.page = search.page /\ search'.more = search.more
            /\ search'.total = search.total /\ search'.hosts = search.hosts
        BY <1>1, <3>2 DEF StateOK
      <3>6. QueryOf(search') = QueryOf(search) /\ Active(search')
        BY <3>1, <3>5 DEF QueryOf, Active
      <3>7. SearchOpen'
        BY <3>1, <3>2 DEF historyVars, SearchOpen, Here
      <3>8. SearchReadOf(search') = search.page * PAGE /\ SearchReadOf(search) = search.page * PAGE
        BY <3>1, <3>5 DEF SearchReadOf
      <3>9. ~shifted => SearchRows(search', list)
        <4>1. CASE search.page = 0
          BY <1>3, <3>3, <3>5, <3>8, <4>1 DEF SearchRows
        <4>2. CASE search.page # 0
          BY <1>2, <1>3, <3>1, <3>4, <3>5, <3>8, <4>2 DEF SearchRows
        <4> QED
          BY <4>1, <4>2
      <3>10. ~shifted => search'.tiles \in Rows
        BY <1>2, <3>3, <3>4, <3>5, ClosedSearch
      <3> QED
        BY <3>2, <3>5, <3>6, <3>7, <3>9, <3>10, SearchShown DEF list
    <2> QED
      BY <2>1, <2>2
  <1> QED
    BY <1>5, <1>6, <1>7, <1>8, <1>9, <1>10, <1>13, <1>14 DEF SearchNext

-----------------------------------------------------------------------------
(* A page that is mounted has nothing on it yet; one that stays is as it was. *)
LEMMA ShowShown ==
  ASSUME IInv, ListInv, NEW e, Reachable(e), Here' = Mounted(e), Show(e), UNCHANGED storeVars
  PROVE  ListInv'
  <1>1. /\ Here'.page = e.page /\ e.page \in {"feed", "search"}
        /\ e.page = "search" => URLOK(e.query)
    BY MountedPage
  <1>2. FeedOpen' = (e.page = "feed") /\ SearchOpen' = (e.page = "search")
    BY <1>1 DEF FeedOpen, SearchOpen
  <1>3. store' = store /\ updated' = updated /\ shifted' = shifted
    BY DEF storeVars
  <1>4. CASE Stays(e)
    <2>1. FeedOpen' = FeedOpen /\ SearchOpen' = SearchOpen
      BY <1>2, <1>4 DEF Stays, FeedOpen, SearchOpen
    <2>2. UNCHANGED <<feed, search, searchCalls>>
      BY <1>4 DEF Show, feedVars, searchVars
    <2>3. FeedInv'
      BY <1>3, <2>1, <2>2, FeedStays DEF ListInv
    <2>4. SearchInv'
      BY <1>3, <2>1, <2>2, SearchStays DEF ListInv
    <2> QED
      BY <1>3, <2>3, <2>4 DEF ListInv
  <1>5. CASE ~Stays(e)
    <2>1. feed' = FeedStart
      BY <1>5 DEF Show, MountFeed, UnmountFeed
    <2>2. FeedRows(feed, FeedLists(feed.mode), FeedLength(feed.mode))'
      BY <2>1 DEF FeedRows, FeedReadOf, FeedStart
    <2>3. FeedInv'
      BY <2>1, <2>2 DEF FeedInv, FeedStart
    <2>4. CASE e.page = "search"
      <3> DEFINE t == SearchStart(e.query)
                 over == {}
      <3>1. search' = Fetching(t) /\ searchCalls' = over \cup FetchCalls(t)
        BY <1>5, <2>4 DEF Show, MountSearch
      <3>2. StateOK(t) /\ t.page = 0 /\ t.tiles \in Rows
        BY <1>1, <2>4, StartOK, ClosedSearch DEF SearchStart
      <3>3. SearchOpen'
        BY <1>2, <2>4
      <3>4. \A c \in over : ~c.alive
        OBVIOUS
      <3> HIDE DEF t, over
      <3>5. SearchInv'
        <4>1. store' = store /\ (shifted' <=> shifted)
          BY <1>3
        <4> QED
          BY <3>1, <3>2, <3>3, <3>4, <4>1, FetchShown
      <3> QED
        BY <1>3, <2>3, <3>5 DEF ListInv
    <2>5. CASE e.page # "search"
      <3>1. search' = SearchClosed /\ searchCalls' = {} /\ ~SearchOpen'
        BY <1>2, <1>5, <2>5 DEF Show, UnmountSearch
      <3>2. search'.tiles \in Rows /\ ~Active(search')
        BY <3>1, ClosedSearch
      <3>3. ~Active(search)'
        BY <3>2 DEF Active
      <3>4. SearchInv'
        BY <3>1, <3>2, <3>3 DEF SearchInv
      <3> QED
        BY <1>3, <2>3, <3>4 DEF ListInv
    <2> QED
      BY <2>4, <2>5
  <1> QED
    BY <1>4, <1>5

LEMMA NextShown ==
  ASSUME IInv, ListInv, [Next]_vars
  PROVE  ListInv'
  <1>1. store \in Rows /\ FeedInv /\ SearchInv
    BY DEF ListInv
  <1>2. CASE FeedNext /\ UNCHANGED searchVars
    <2>1. FeedInv'
      BY <1>1, <1>2, FeedShownStep
    <2>2. ASSUME UNCHANGED storeVars, UNCHANGED historyVars
          PROVE  UNCHANGED <<store, updated>> /\ SearchOpen' = SearchOpen /\ (shifted' <=> shifted)
      BY <2>2 DEF storeVars, historyVars, SearchOpen, Here
    <2>3. ASSUME NEW c \in feedCalls, FeedAnswer(c)
          PROVE  UNCHANGED <<store, updated>> /\ SearchOpen' = SearchOpen /\ ((shifted' <=> shifted) \/ ~SearchOpen)
      <3>1. c.alive => ~SearchOpen
        BY DEF IInv, LiveCalls, FeedOpen, SearchOpen
      <3>2. /\ UNCHANGED <<store, updated>> /\ UNCHANGED historyVars
            /\ ~c.alive => (shifted' <=> shifted)
        BY <2>3 DEF FeedAnswer
      <3> QED
        BY <3>1, <3>2 DEF historyVars, SearchOpen, Here
    <2>4. UNCHANGED <<store, updated>> /\ SearchOpen' = SearchOpen /\ ((shifted' <=> shifted) \/ ~SearchOpen)
      BY <1>2, <2>2, <2>3 DEF FeedNext, FeedSwitch, FeedMore, FeedRetry, FeedGroup, FeedFail
    <2>5. SearchInv'
      BY <1>1, <1>2, <2>4, SearchStays DEF searchVars
    <2> QED
      BY <1>1, <2>1, <2>4, <2>5 DEF ListInv
  <1>3. CASE SearchNext /\ UNCHANGED feedVars
    <2>1. SearchInv'
      BY <1>1, <1>3, SearchShownStep
    <2>2. ASSUME SearchOpen, NEW s, StateOK(s), Become(s)
          PROVE  UNCHANGED <<store, updated>> /\ FeedOpen' = FeedOpen /\ (shifted' <=> shifted)
      <3>1. HistoryOK /\ at \in 1 .. Len(entries)
        BY DEF IInv, HistoryOK
      <3>2. entries' = [entries EXCEPT ![at] = Cited(s)] /\ at' = at /\ UNCHANGED storeVars
        BY <2>2 DEF Become, Rewrite
      <3>3. Here' = Cited(s)
        BY <2>2, <3>1, <3>2, CitedPage, ReplaceHere
      <3>4. ~FeedOpen /\ ~FeedOpen'
        BY <2>2, <3>3, CitedPage DEF FeedOpen, SearchOpen
      <3>5. FeedOpen \in BOOLEAN /\ FeedOpen' \in BOOLEAN
        BY DEF FeedOpen
      <3> QED
        BY <3>2, <3>4, <3>5 DEF storeVars
    <2>3. ASSUME UNCHANGED storeVars, UNCHANGED historyVars
          PROVE  UNCHANGED <<store, updated>> /\ FeedOpen' = FeedOpen /\ (shifted' <=> shifted)
      BY <2>3 DEF storeVars, historyVars, FeedOpen, Here
    <2>4. ASSUME NEW c \in searchCalls, SearchAnswer(c)
          PROVE  UNCHANGED <<store, updated>> /\ FeedOpen' = FeedOpen /\ ((shifted' <=> shifted) \/ ~FeedOpen)
      <3>1. c.alive => ~FeedOpen
        BY DEF IInv, LiveCalls, FeedOpen, SearchOpen
      <3>2. /\ UNCHANGED <<store, updated>> /\ UNCHANGED historyVars
            /\ ~c.alive => (shifted' <=> shifted)
        BY <2>4 DEF SearchAnswer
      <3> QED
        BY <3>1, <3>2 DEF historyVars, FeedOpen, Here
    <2>5. StateOK(search)
      BY DEF IInv
    <2>6. ASSUME \/ \E t \in Typed : Type(t)
                 \/ Debounce
                 \/ \E f \in Fields : \E v \in Offered[f] \cup {Default} : SetFilter(f, v)
                 \/ ResetAll
          PROVE  UNCHANGED <<store, updated>> /\ FeedOpen' = FeedOpen /\ (shifted' <=> shifted)
      <3>1. \E s : StateOK(s) /\ Become(s) /\ SearchOpen
        <4>1. ASSUME NEW t \in Typed, Type(t)
              PROVE  StateOK([search EXCEPT !.q = t]) /\ Become([search EXCEPT !.q = t]) /\ SearchOpen
          BY <2>5, <4>1, ChosenOK, SearchAssumption DEF Type
        <4>2. ASSUME NEW f \in Fields, NEW v \in Offered[f] \cup {Default}, SetFilter(f, v)
              PROVE  /\ StateOK([search EXCEPT !.filters[f] = v])
                     /\ Become([search EXCEPT !.filters[f] = v]) /\ SearchOpen
          BY <2>5, <4>2, ChosenOK DEF SetFilter
        <4>3. CASE Debounce
          BY <2>5, <4>3, ChosenOK DEF Debounce
        <4>4. CASE ResetAll
          BY <2>5, <4>4, ChosenOK DEF ResetAll
        <4> QED
          BY <2>6, <4>1, <4>2, <4>3, <4>4
      <3> QED
        BY <2>2, <3>1
    <2>7. UNCHANGED <<store, updated>> /\ FeedOpen' = FeedOpen /\ ((shifted' <=> shifted) \/ ~FeedOpen)
      <3>1. CASE SearchMore \/ SearchRetry
        BY <2>3, <3>1 DEF SearchMore, SearchRetry, Refetch
      <3>2. CASE \E c \in searchCalls : SearchAnswer(c) \/ SearchFail(c)
        BY <2>3, <2>4, <3>2 DEF SearchFail
      <3> QED
        BY <1>3, <2>6, <3>1, <3>2 DEF SearchNext
    <2>8. FeedInv'
      BY <1>1, <1>3, <2>7, FeedStays DEF feedVars
    <2> QED
      BY <1>1, <2>1, <2>7, <2>8 DEF ListInv
  <1>4. ASSUME NEW e \in Links, Follow(e)
        PROVE  ListInv'
    <2>1. Reachable(e) /\ Show(e) /\ Push(Mounted(e)) /\ UNCHANGED storeVars
      BY <1>4, EntryPage DEF Follow
    <2>2. Here' = Mounted(e)
      BY <2>1, MountedPage, PushHere DEF IInv
    <2> QED
      BY <2>1, <2>2, ShowShown
  <1>5. ASSUME NEW i \in 1 .. MaxEntries, GoTo(i)
        PROVE  ListInv'
    <2>1. i \in 1 .. Len(entries) /\ entries[i] \in Pages
      BY <1>5 DEF IInv, HistoryOK, GoTo
    <2>2. Reachable(entries[i])
      BY <2>1, EntryPage
    <2>3. Here' = Mounted(entries[i])
      <3>1. entries' = [entries EXCEPT ![i] = Mounted(entries[i])] /\ at' = i
        BY <1>5 DEF GoTo, Jump
      <3> QED
        BY <2>1, <2>2, <3>1, MountedPage, ReplaceHere DEF IInv
    <2> QED
      BY <1>5, <2>2, <2>3, ShowShown DEF GoTo
  <1>6. ASSUME NEW s \in Services, Landing(s)
        PROVE  ListInv'
    <2>1. store' \in Rows /\ shifted'
      BY <1>1, <1>6, LandRows DEF Landing, Land
    <2>2. UNCHANGED <<feed, search, searchCalls>> /\ FeedOpen' = FeedOpen /\ SearchOpen' = SearchOpen
      BY <1>6 DEF Landing, historyVars, feedVars, searchVars, FeedOpen, SearchOpen, Here
    <2>3. FeedInv'
      BY <1>1, <2>1, <2>2 DEF FeedInv
    <2>4. SearchInv'
      BY <1>1, <2>1, <2>2 DEF SearchInv, Active
    <2> QED
      BY <2>1, <2>3, <2>4 DEF ListInv
  <1>7. CASE UNCHANGED vars
    <2>1. /\ UNCHANGED <<feed, search, searchCalls, store, updated>> /\ shifted' = shifted
          /\ FeedOpen' = FeedOpen /\ SearchOpen' = SearchOpen
      BY <1>7 DEF vars, storeVars, historyVars, feedVars, searchVars, FeedOpen, SearchOpen, Here
    <2> QED
      BY <1>1, <2>1, FeedStays, SearchStays DEF ListInv
  <1> QED
    BY <1>2, <1>3, <1>4, <1>5, <1>6, <1>7 DEF Next

LEMMA InitShown ==
  ASSUME Init
  PROVE  ListInv
  <1>1. store \in Rows
    BY ListingAssumption DEF Init, Rows
  <1>2. feed = FeedStart
    BY DEF Init
  <1>3. FeedInv
    BY <1>2 DEF FeedInv, FeedRows, FeedReadOf, FeedStart
  <1>4. CASE search = SearchClosed /\ searchCalls = {}
    <2>1. search.tiles \in Rows /\ ~Active(search)
      BY <1>4, ClosedSearch
    <2>2. SearchInv
      BY <1>4, <2>1 DEF SearchInv
    <2> QED
      BY <1>1, <1>3, <2>2 DEF ListInv
  <1>5. ASSUME NEW url \in Linked,
               entries = <<Cited(SearchStart(url))>>,
               search = Fetching(SearchStart(url)), searchCalls = FetchCalls(SearchStart(url))
        PROVE  ListInv
    <2> DEFINE t == SearchStart(url)
               g == Fetching(t)
               list == Matching(QueryOf(g))
    <2>1. StateOK(t) /\ t.page = 0 /\ t.tiles \in Rows
      BY LinkedURL, StartOK, ClosedSearch DEF SearchStart
    <2>2. search = g /\ searchCalls = FetchCalls(t)
      BY <1>5
    <2>3. SearchOpen
      <3>1. Here = Cited(t)
        BY <1>5 DEF Init, Here
      <3> QED
        BY <2>1, <3>1, CitedPage DEF SearchOpen
    <2> HIDE DEF t
    <2>4. /\ Active(g) <=> Active(t)
          /\ ~Active(t) => g.tiles = <<>>
          /\ Active(t) => /\ g.tiles = t.tiles /\ g.page = t.page /\ g.loading /\ ~g.error
          /\ \A c \in FetchCalls(t) : Active(t)
      BY <2>1, FetchingShown, FetchingFields
    <2> HIDE DEF g, list
    <2>5. Active(g) => SearchRows(g, list)
      <3>1. Active(g) => SearchReadOf(g) = 0
        BY <2>1, <2>4, Paging DEF SearchReadOf
      <3> QED
        BY <2>1, <2>4, <3>1 DEF SearchRows
    <2>6. SearchInv
      BY <2>1, <2>2, <2>3, <2>4, <2>5, ClosedSearch DEF SearchInv, list
    <2> QED
      BY <1>1, <1>3, <2>6 DEF ListInv
  <1> QED
    BY <1>4, <1>5 DEF Init

LEMMA Shown == Spec => [](IInv /\ ListInv)
  <1>1. Init => IInv /\ ListInv
    BY InitState, InitShown
  <1>2. IInv /\ ListInv /\ [Next]_vars => (IInv /\ ListInv)'
    BY NextStep, NextShown
  <1> QED
    BY <1>1, <1>2, PTL DEF Spec

(* The feed shows the listing it names, from the top and without a gap:      *)
(* every row stands where that listing may have it, and more is offered      *)
(* exactly when there is more (Feed.tsx:52-69, query.go:105-187).            *)
THEOREM FeedShows == Spec => []FeedShowsListing
  <1>1. FeedRead = FeedReadOf(feed)
    BY DEF FeedRead, FeedReadOf
  <1>2. IInv /\ ListInv => FeedShowsListing
    BY <1>1 DEF FeedShowsListing, ListInv, FeedInv, FeedRows, Placed
  <1> QED
    BY <1>2, Shown, PTL

(* The results, their totals and the offer of more are those of the query in *)
(* the controls, and "No matching observations" is said only of a query that *)
(* matches nothing (Search.tsx:97-142, 310-371).                             *)
THEOREM SearchShows == Spec => []SearchShowsQuery
  <1> DEFINE list == Matching(QueryOf(search))
  <1>1. ASSUME IInv, ListInv, SearchOpen, ~shifted, SearchView \in {"grid", "none"}
        PROVE  /\ search.tiles = Top(list, SearchRead)
               /\ search.total = Len(list) /\ search.hosts = Cardinality(HostsOf(list))
               /\ search.more = (SearchRead < Len(list))
               /\ search.tiles = <<>> => list = <<>>
    <2>1. /\ Active(search) /\ ~(search.error /\ search.tiles = <<>>)
          /\ ~(search.loading /\ search.page = 0)
      BY <1>1 DEF SearchView
    <2>2. /\ SearchRows(search, list) /\ (search.loading => ~search.error)
      BY <1>1, <2>1 DEF ListInv, SearchInv
    <2>3. search.page \in Nat /\ list \in Rows
      BY <1>1, StoreRows DEF IInv, StateOK, ListInv
    <2> HIDE DEF list
    <2>4. SearchRead = SearchReadOf(search) /\ SearchRead > 0 /\ SearchRead \in Nat
      <3>1. SearchRead = SearchReadOf(search)
        BY DEF SearchRead, SearchReadOf
      <3>2. search.loading \/ search.error => search.page # 0
        BY <2>1, <2>2 DEF SearchRows
      <3>3. /\ search.page * PAGE \in Nat /\ (search.page # 0 => search.page * PAGE > 0)
            /\ (search.page + 1) * PAGE \in Nat /\ (search.page + 1) * PAGE > 0
        BY <2>3, Paging
      <3> QED
        BY <3>1, <3>2, <3>3 DEF SearchRead
    <2>5. search.tiles = Top(list, SearchRead)
      BY <2>2, <2>4 DEF SearchRows
    <2> QED
      BY <2>2, <2>3, <2>4, <2>5, TopRows DEF SearchRows
  <1>2. SearchView = "none" => search.tiles = <<>>
    BY DEF SearchView
  <1>3. IInv /\ ListInv => SearchShowsQuery
    BY <1>1, <1>2 DEF SearchShowsQuery
  <1> QED
    BY <1>3, Shown, PTL

-----------------------------------------------------------------------------
(* Grouping. *)
LEMMA LeastOf ==
  ASSUME NEW S \in SUBSET Int, IsFiniteSet(S), S # {}
  PROVE  \E m \in S : \A i \in S : m <= i
  <1> DEFINE n == Cardinality(S)
             f == InOrder(S)
  <1>1. n \in Nat /\ n > 0
    BY FS_CardinalityType, FS_EmptySet
  <1>2. /\ f \in Seq(S) /\ Len(f) = n
        /\ \A i \in S : \E k \in 1 .. n : f[k] = i
        /\ \A k, l \in 1 .. n : k < l => f[k] < f[l]
    BY InOrderProperties
  <1>3. \A i \in S : i \in Int
    OBVIOUS
  <1> HIDE DEF n, f
  <1>4. \A k \in 1 .. n : f[k] \in S
    BY <1>2, LenProperties
  <1>5. 1 \in 1 .. n /\ \A k \in 1 .. n : k = 1 \/ 1 < k
    BY <1>1
  <1>6. ASSUME NEW i \in S
        PROVE  f[1] <= i
    <2>1. PICK k \in 1 .. n : f[k] = i
      BY <1>2
    <2>2. f[1] \in Int /\ i \in Int
      BY <1>3, <1>4, <1>5
    <2>3. k = 1 \/ f[1] < f[k]
      BY <1>2, <1>5
    <2> QED
      BY <2>1, <2>2, <2>3
  <1> QED
    BY <1>4, <1>5, <1>6

(* A tile's card: the first tile with its key makes it, and no other card    *)
(* has its key.                                                              *)
LEMMA CardOf ==
  ASSUME NEW tiles \in Seq(Services), NEW key, NEW i \in DOMAIN tiles
  PROVE  \E k \in DOMAIN CardsBy(tiles, key) :
           /\ k \in DOMAIN tiles /\ key[tiles[k]] = key[tiles[i]]
           /\ \A l \in DOMAIN CardsBy(tiles, key) : key[tiles[l]] = key[tiles[i]] => l = k
  <1> DEFINE n == Len(tiles)
             like == {j \in 1 .. n : key[tiles[j]] = key[tiles[i]]}
             firsts == {k \in DOMAIN tiles : \A j \in 1 .. k - 1 : key[tiles[j]] # key[tiles[k]]}
  <1>1. n \in Nat /\ DOMAIN tiles = 1 .. n
    BY LenProperties
  <1>2. DOMAIN CardsBy(tiles, key) = firsts
    BY DEF CardsBy
  <1>3. like \in SUBSET Int /\ IsFiniteSet(like) /\ like # {}
    <2>1. IsFiniteSet(1 .. n) /\ like \in SUBSET (1 .. n)
      BY <1>1, FS_Interval
    <2>2. \A j \in 1 .. n : j \in Int
      BY <1>1
    <2>3. i \in like
      BY <1>1
    <2> QED
      BY <2>1, <2>2, <2>3, FS_Subset
  <1> HIDE DEF like
  <1>4. PICK k \in like : \A j \in like : k <= j
    BY <1>3, LeastOf
  <1>5. k \in 1 .. n /\ key[tiles[k]] = key[tiles[i]] /\ k \in Int
    BY <1>1 DEF like
  <1>6. \A j \in 1 .. n : key[tiles[j]] = key[tiles[i]] => k <= j
    BY <1>4 DEF like
  <1> HIDE DEF n
  <1>7. k \in firsts
    <2>1. ASSUME NEW j \in 1 .. k - 1
          PROVE  key[tiles[j]] # key[tiles[k]]
      <3>1. j \in 1 .. n /\ ~(k <= j)
        BY <1>1, <1>5
      <3> QED
        BY <1>5, <1>6, <3>1
    <2> QED
      BY <1>1, <1>5, <2>1
  <1>8. ASSUME NEW l \in firsts, key[tiles[l]] = key[tiles[i]]
        PROVE  l = k
    <2>1. l \in 1 .. n /\ l \in Int /\ k <= l
      BY <1>1, <1>6, <1>8
    <2>2. CASE k < l
      <3>1. k \in 1 .. l - 1
        BY <1>1, <1>5, <2>1, <2>2
      <3> QED
        BY <1>5, <1>8, <3>1
    <2> QED
      BY <1>5, <2>1, <2>2
  <1> QED
    BY <1>1, <1>2, <1>5, <1>7, <1>8

(* Tiles grouped by a key that tells hosts apart: every tile is on one card, *)
(* and unless one is there twice there are as many port chips as tiles.      *)
LEMMA Grouped ==
  ASSUME NEW tiles \in Seq(Services), NEW key,
         \A s, t \in Range(tiles) : key[s] = key[t] => s.host = t.host
  PROVE  LET cards == CardsBy(tiles, key)
         IN  /\ \A s \in Range(tiles) :
                  Cardinality({k \in DOMAIN cards : OnCard(cards[k], s)}) = 1
             /\ IsInjective(tiles) =>
                  Cardinality(UNION {{k} \X cards[k].ports : k \in DOMAIN cards}) = Len(tiles)
  <1> DEFINE cards == CardsBy(tiles, key)
             chips == UNION {{k} \X cards[k].ports : k \in DOMAIN cards}
             n == Len(tiles)
  <1>1. n \in Nat /\ DOMAIN tiles = 1 .. n /\ \A i \in DOMAIN tiles : tiles[i] \in Services
    BY LenProperties
  <1>2. Range(tiles) = {tiles[i] : i \in DOMAIN tiles}
    BY DEF Range
  <1>3. /\ \A k \in DOMAIN cards : k \in DOMAIN tiles
        /\ \A k \in DOMAIN cards : cards[k].tile = tiles[k]
        /\ \A k \in DOMAIN cards :
             cards[k].ports = {t.port : t \in {u \in Range(tiles) : key[u] = key[tiles[k]]}}
    BY DEF CardsBy
  <1>4. \A s, t \in Range(tiles) : s.host = t.host /\ s.port = t.port => s = t
    BY <1>1, <1>2, ListingAssumption
  <1>5. \A i \in DOMAIN tiles : \E k \in DOMAIN cards :
          /\ key[tiles[k]] = key[tiles[i]]
          /\ \A l \in DOMAIN cards : key[tiles[l]] = key[tiles[i]] => l = k
    BY CardOf
  <1> HIDE DEF cards, n
  \* The ports of a card are those of the services with its key.
  <1>6. ASSUME NEW s \in Range(tiles), NEW k \in DOMAIN cards
        PROVE  /\ tiles[k] \in Range(tiles)
               /\ key[tiles[k]] = key[s] => s.port \in cards[k].ports /\ s.host = tiles[k].host
               /\ s.host = tiles[k].host /\ s.port \in cards[k].ports => key[tiles[k]] = key[s]
    <2>1. tiles[k] \in Range(tiles)
      BY <1>2, <1>3
    <2>2. cards[k].ports = {t.port : t \in {u \in Range(tiles) : key[u] = key[tiles[k]]}}
      BY <1>3
    <2>3. ASSUME s.host = tiles[k].host, s.port \in cards[k].ports
          PROVE  key[tiles[k]] = key[s]
      <3>1. PICK t \in Range(tiles) : key[t] = key[tiles[k]] /\ s.port = t.port
        BY <2>2, <2>3
      <3>2. t.host = tiles[k].host
        BY <2>1, <3>1
      <3>3. t = s
        BY <1>4, <2>3, <3>1, <3>2
      <3> QED
        BY <3>1, <3>3
    <2> QED
      BY <2>1, <2>2, <2>3
  <1>7. ASSUME NEW s \in Range(tiles)
        PROVE  Cardinality({k \in DOMAIN cards : OnCard(cards[k], s)}) = 1
    <2>1. PICK i \in DOMAIN tiles : s = tiles[i]
      BY <1>2
    <2>2. PICK k \in DOMAIN cards :
            /\ key[tiles[k]] = key[s]
            /\ \A l \in DOMAIN cards : key[tiles[l]] = key[s] => l = k
      BY <1>5, <2>1
    <2>3. \A l \in DOMAIN cards : OnCard(cards[l], s) <=> key[tiles[l]] = key[s]
      <3>1. ASSUME NEW l \in DOMAIN cards
            PROVE  OnCard(cards[l], s) <=> key[tiles[l]] = key[s]
        <4>1. /\ cards[l].tile = tiles[l]
              /\ key[tiles[l]] = key[s] => s.port \in cards[l].ports /\ s.host = tiles[l].host
              /\ s.host = tiles[l].host /\ s.port \in cards[l].ports => key[tiles[l]] = key[s]
          BY <1>3, <1>6
        <4> QED
          BY <4>1 DEF OnCard
      <3> QED
        BY <3>1
    <2>4. {l \in DOMAIN cards : OnCard(cards[l], s)} = {k}
      BY <2>2, <2>3
    <2> QED
      BY <2>4, FS_Singleton
  \* A chip for each tile, and a tile for each chip.
  <1>8. PICK card \in [1 .. n -> DOMAIN cards] :
          \A i \in 1 .. n : /\ key[tiles[card[i]]] = key[tiles[i]]
                            /\ \A l \in DOMAIN cards : key[tiles[l]] = key[tiles[i]] => l = card[i]
    <2> DEFINE Of(i, k) == /\ key[tiles[k]] = key[tiles[i]]
                           /\ \A l \in DOMAIN cards : key[tiles[l]] = key[tiles[i]] => l = k
               card == [i \in 1 .. n |-> CHOOSE k \in DOMAIN cards : Of(i, k)]
    <2>1. \A i \in 1 .. n : \E k \in DOMAIN cards : Of(i, k)
      BY <1>1, <1>5
    <2> HIDE DEF Of
    <2>2. card \in [1 .. n -> DOMAIN cards] /\ \A i \in 1 .. n : Of(i, card[i])
      BY <2>1
    <2> HIDE DEF card
    <2> QED
      BY <2>2 DEF Of
  <1> DEFINE chip == [i \in 1 .. n |-> <<card[i], tiles[i].port>>]
  <1>9. \A x : x \in chips <=> \E k \in DOMAIN cards : \E p \in cards[k].ports : x = <<k, p>>
    OBVIOUS
  <1> HIDE DEF chips
  <1>10. ASSUME NEW i \in 1 .. n
         PROVE  chip[i] \in chips /\ chip[i] = <<card[i], tiles[i].port>>
    <2>1. card[i] \in DOMAIN cards /\ tiles[i] \in Range(tiles)
      BY <1>1, <1>2, <1>8
    <2>2. tiles[i].port \in cards[card[i]].ports
      BY <1>6, <1>8, <2>1
    <2> QED
      BY <1>9, <2>1, <2>2
  <1>11. ASSUME IsInjective(tiles), NEW i \in 1 .. n, NEW j \in 1 .. n, chip[i] = chip[j]
         PROVE  i = j
    <2>1. card[i] = card[j] /\ tiles[i].port = tiles[j].port
      BY <1>10, <1>11
    <2>2. key[tiles[i]] = key[tiles[j]]
      BY <1>8, <2>1
    <2>3. tiles[i] = tiles[j]
      BY <1>1, <1>2, <1>4, <2>1, <2>2
    <2> QED
      BY <1>1, <1>11, <2>3 DEF IsInjective
  <1>12. ASSUME NEW x \in chips
         PROVE  \E i \in 1 .. n : chip[i] = x
    <2>0. PICK k \in DOMAIN cards : \E p \in cards[k].ports : x = <<k, p>>
      BY <1>9
    <2>1. PICK p \in cards[k].ports : x = <<k, p>>
      BY <2>0
    <2>2. cards[k].ports = {t.port : t \in {u \in Range(tiles) : key[u] = key[tiles[k]]}}
      BY <1>3
    <2>3. PICK t \in Range(tiles) : key[t] = key[tiles[k]] /\ p = t.port
      BY <2>2
    <2>4. PICK i \in 1 .. n : t = tiles[i]
      BY <1>1, <1>2, <2>3
    <2>5. k = card[i]
      BY <1>8, <2>3, <2>4
    <2> QED
      BY <1>10, <2>1, <2>3, <2>4, <2>5
  <1>13. IsInjective(tiles) => chip \in Bijection(1 .. n, chips)
    <2>1. chip \in [1 .. n -> chips]
      BY <1>10
    <2>2. IsInjective(tiles) => \A i, j \in 1 .. n : chip[i] = chip[j] => i = j
      BY <1>11
    <2>3. \A x \in chips : \E i \in 1 .. n : chip[i] = x
      BY <1>12
    <2> HIDE DEF chip
    <2> QED
      BY <2>1, <2>2, <2>3 DEF Bijection, Injection, Surjection, IsInjective
  <1>14. IsFiniteSet(1 .. n) /\ Cardinality(1 .. n) = n
    BY <1>1, FS_Interval
  <1>15. IsInjective(tiles) => Cardinality(chips) = n
    <2>1. IsInjective(tiles) => ExistsBijection(1 .. n, chips)
      BY <1>13 DEF ExistsBijection
    <2> QED
      BY <1>14, <2>1, FS_Bijection
  <1> QED
    BY <1>7, <1>15 DEF cards, chips, n

(* Every service read is on one card and no other, under its own host; the   *)
(* feed's count of grouped services is that of its port chips beyond the     *)
(* first of each card, unless a service was read twice (Feed.tsx:28-45,      *)
(* 100-106, searchGrouping.ts:8-20).                                         *)
THEOREM CardsTrue == Spec => []CardsHonest
  <1>1. ASSUME IInv, ListInv
        PROVE  FeedCardsHonest
    <2> DEFINE key == [t \in Range(feed.tiles) |->
                         <<t.host, IF feed.group THEN "host" ELSE t.capture>>]
    <2>1. feed.tiles \in Seq(Services)
      BY <1>1 DEF ListInv, FeedInv
    <2>2. \A s, t \in Range(feed.tiles) : key[s] = key[t] => s.host = t.host
      OBVIOUS
    <2>3. FeedCards = CardsBy(feed.tiles, key)
      BY DEF FeedCards
    <2> HIDE DEF key
    <2>4. /\ \A s \in Range(feed.tiles) :
               Cardinality({k \in DOMAIN FeedCards : OnCard(FeedCards[k], s)}) = 1
          /\ IsInjective(feed.tiles) =>
               Cardinality(UNION {{k} \X FeedCards[k].ports : k \in DOMAIN FeedCards})
                 = Len(feed.tiles)
      BY <2>1, <2>2, <2>3, Grouped
    <2> QED
      BY <2>4 DEF FeedCardsHonest, FeedCollapsed, FeedChips
  <1>2. ASSUME IInv, ListInv, ~shifted
        PROVE  \A s \in Range(search.tiles) :
                 Cardinality({k \in DOMAIN SearchCards : OnCard(SearchCards[k], s)}) = 1
    <2>1. search.tiles \in Rows
      BY <1>2 DEF ListInv, SearchInv
    <2>2. CASE search.filters["group"] = Default
      <3>1. SearchCards = [k \in DOMAIN search.tiles |-> [tile |-> search.tiles[k], ports |-> {}]]
        BY <2>2 DEF SearchCards
      <3>2. ASSUME NEW s \in Range(search.tiles)
            PROVE  Cardinality({k \in DOMAIN SearchCards : OnCard(SearchCards[k], s)}) = 1
        <4>1. PICK i \in DOMAIN search.tiles : s = search.tiles[i]
          BY <3>2 DEF Range
        <4>2. \A k \in DOMAIN search.tiles : OnCard(SearchCards[k], s) <=> k = i
          BY <2>1, <3>1, <4>1 DEF OnCard, Rows, IsInjective
        <4>3. {k \in DOMAIN SearchCards : OnCard(SearchCards[k], s)} = {i}
          BY <3>1, <4>1, <4>2
        <4> QED
          BY <4>3, FS_Singleton
      <3> QED
        BY <3>2
    <2>3. CASE search.filters["group"] # Default
      <3> DEFINE key == [t \in Range(search.tiles) |-> t.host]
      <3>1. SearchCards = CardsBy(search.tiles, key)
        BY <2>3 DEF SearchCards
      <3>2. \A s, t \in Range(search.tiles) : key[s] = key[t] => s.host = t.host
        OBVIOUS
      <3> HIDE DEF key
      <3> DEFINE cards == CardsBy(search.tiles, key)
      <3>3. \A s \in Range(search.tiles) :
              Cardinality({k \in DOMAIN cards : OnCard(cards[k], s)}) = 1
        BY <2>1, <3>2, Grouped DEF Rows
      <3> HIDE DEF cards
      <3>4. SearchCards = cards
        BY <3>1 DEF cards
      <3> QED
        BY <3>3, <3>4
    <2> QED
      BY <2>2, <2>3
  <1>3. IInv /\ ListInv => CardsHonest
    BY <1>1, <1>2 DEF CardsHonest, SearchCardsHonest
  <1> QED
    BY <1>3, Shown, PTL
=============================================================================
