----------------------------- MODULE SearchPage -----------------------------
(* The search page (pages/Search.tsx): a text typed and debounced, nine      *)
(* filters, the results read page by page, and the query kept in the URL of  *)
(* the history's entry.  A URL is a function from the parameters present to  *)
(* their values; "q" is the text.                                            *)
EXTENDS Listing

CONSTANTS Texts,        \* what the input may hold
          Typed,        \* what the reader types into it
          Trim,         \* Trim[t] is t without surrounding blanks
          Valid,        \* Valid[f]: values of filter f seeded as they are
          Offered,      \* Offered[f]: values the control of filter f can set
          Linked,       \* URLs that links lead to, by hand or from other pages
          Having        \* Having[v]: the services a text or filter value keeps

Fields == {"network", "time_range", "port", "secured", "status", "has_vulns",
           "verdict", "sort", "group"}

(* Parameters a link may set to anything; the others are seeded with their   *)
(* default when the value is not a valid one.                                *)
Unvalidated == {"network", "port", "status", "verdict"}

(* A query is searched only when one of these is set, or the text. *)
Narrowing == Fields \ {"time_range", "sort", "group"}

Default == "default"

None == [f \in Fields |-> Default]

ASSUME SearchAssumption ==
  /\ "" \in Typed /\ Typed \subseteq Texts /\ Trim \in [Texts -> Texts] /\ Trim[""] = ""
  /\ \A t \in Texts : Trim[Trim[t]] = Trim[t]
  /\ \A f \in Fields : Offered[f] \subseteq Valid[f]
  /\ \A u \in Linked : "q" \in DOMAIN u => u["q"] \in Texts

VARIABLES search,       \* the page's React state
          searchCalls   \* its API calls in flight

searchVars == <<search, searchCalls>>

-----------------------------------------------------------------------------
(* Seeding from the URL, and writing the URL. *)
Seeded(url) ==
  [f \in Fields |->
     IF f \in DOMAIN url /\ (f \in Unvalidated \/ url[f] \in Valid[f])
     THEN url[f] ELSE Default]

SeededText(url) == IF "q" \in DOMAIN url THEN url["q"] ELSE ""

\* A fault: the grouping is not in the URL.
ToURL_Ungrouped(text, filters) ==
  LET set == {f \in Fields \ {"group"} : filters[f] # Default}
  IN  [p \in set \cup (IF text = "" THEN {} ELSE {"q"}) |->
         IF p = "q" THEN text ELSE filters[p]]

ToURL(text, filters) ==
  LET set == {f \in Fields : filters[f] # Default}
  IN  [p \in set \cup (IF text = "" THEN {} ELSE {"q"}) |->
         IF p = "q" THEN text ELSE filters[p]]

SearchOpen == Here.page = "search"

(* What is asked of the API: grouping is done here. *)
QueryOf(s) == [q |-> s.debounced, f |-> [s.filters EXCEPT !["group"] = Default]]

Active(s) == s.debounced # "" \/ \E f \in Narrowing : s.filters[f] # Default

(* The API's answer to a query: the services every value keeps, in the order *)
(* asked for.                                                                *)
Matching(query) ==
  LET asked == ({query.q} \ {""}) \cup
               ({query.f[f] : f \in Fields \ {"sort"}} \ {Default})
      kept  == Keep(store, {s \in Services : \A v \in asked : s \in Having[v]})
  IN  IF query.f["sort"] = Default THEN kept ELSE Ranked(kept)

SearchCall(query, page) == [query |-> query, page |-> page, alive |-> TRUE]

-----------------------------------------------------------------------------
(* What is on the screen. *)
SearchView == IF ~Active(search) THEN "intro"
              ELSE IF search.error /\ search.tiles = <<>> THEN "error"
              ELSE IF search.loading /\ search.page = 0 THEN "searching"
              ELSE IF search.tiles = <<>> /\ search.touched THEN "none"
              ELSE "grid"

SearchFoot == IF SearchView # "grid" THEN "none"
              ELSE IF search.loading THEN "scanning"
              ELSE IF search.error THEN "retry"
              ELSE IF search.more THEN "more"
              ELSE "end"

\* A fault: grouped by what the feed groups by.
SearchCards_ByCapture ==
  IF search.filters["group"] = Default
  THEN [k \in DOMAIN search.tiles |-> [tile |-> search.tiles[k], ports |-> {}]]
  ELSE CardsBy(search.tiles, [t \in Range(search.tiles) |-> t.capture])

SearchCards ==
  IF search.filters["group"] = Default
  THEN [k \in DOMAIN search.tiles |-> [tile |-> search.tiles[k], ports |-> {}]]
  ELSE CardsBy(search.tiles, [t \in Range(search.tiles) |-> t.host])

-----------------------------------------------------------------------------
SearchStart(url) ==
  [q |-> SeededText(url), debounced |-> Trim[SeededText(url)], filters |-> Seeded(url),
   tiles |-> <<>>, page |-> 0, more |-> FALSE, total |-> 0, hosts |-> 0,
   loading |-> FALSE, touched |-> FALSE, error |-> FALSE]

(* The fetch effect: nothing is asked without a query, and the flag of the   *)
(* call that was in flight is then left as it was.                           *)
Fetching(s) ==
  IF Active(s) THEN [s EXCEPT !.loading = TRUE, !.touched = TRUE, !.error = FALSE]
  ELSE [s EXCEPT !.tiles = <<>>, !.more = FALSE, !.total = 0, !.hosts = 0, !.error = FALSE]

FetchCalls(s) == IF Active(s) THEN {SearchCall(QueryOf(s), s.page)} ELSE {}

(* The URL effect rewrites the entry the browser is on. *)
Cited(s) == [page |-> "search", query |-> ToURL(s.debounced, s.filters)]

(* The state of the page mounted on an entry. *)
MountSearch(url) ==
  /\ search' = Fetching(SearchStart(url))
  /\ searchCalls' = FetchCalls(SearchStart(url))

SearchClosed == SearchStart(<<>>)

UnmountSearch == search' = SearchClosed /\ searchCalls' = {}

(* The page's state becomes s.  A new query starts again from page 0; the    *)
(* fetch effect of the same render still sees the old page, and its call is  *)
(* superseded at once.                                                       *)
Become(s) ==
  LET first == [s EXCEPT !.page = 0]
      stale == IF search.page = 0 THEN {} ELSE FetchCalls(s)
  IN  /\ Cardinality(searchCalls) < MaxCalls
      /\ IF QueryOf(s) = QueryOf(search)
         THEN search' = s /\ UNCHANGED searchCalls
         ELSE /\ search' = Fetching(first)
              /\ searchCalls' = Superseded(searchCalls \cup stale) \cup FetchCalls(first)
      /\ Rewrite(Cited(s))
      /\ UNCHANGED storeVars

Type(t) == /\ SearchOpen /\ t # search.q
           /\ Become([search EXCEPT !.q = t])

(* The timer armed by the last change of the text.  It is pending whenever   *)
(* the two differ: nothing else separates them.                              *)
Debounce == /\ SearchOpen /\ Trim[search.q] # search.debounced
            /\ Become([search EXCEPT !.debounced = Trim[search.q]])

SetFilter(f, v) == /\ SearchOpen /\ v # search.filters[f]
                   /\ Become([search EXCEPT !.filters[f] = v])

ResetAll == /\ SearchOpen /\ (Active(search) \/ SearchView = "none")
            /\ Become([search EXCEPT !.q = "", !.debounced = "", !.filters = None])

Refetch(page) ==
  LET s == [search EXCEPT !.page = page]
  IN  /\ Cardinality(searchCalls) < MaxCalls
      /\ search' = Fetching(s)
      /\ searchCalls' = Superseded(searchCalls) \cup FetchCalls(s)
      /\ UNCHANGED <<storeVars, historyVars>>

SearchMore == SearchOpen /\ SearchFoot = "more" /\ Refetch(search.page + 1)

SearchRetry == SearchOpen /\ (SearchView = "error" \/ SearchFoot = "retry")
                          /\ Refetch(search.page)

SearchTake(c) ==
  LET r == PageOf(Matching(c.query), c.page * PAGE)
  IN  [search EXCEPT !.tiles = (IF c.page = 0 THEN <<>> ELSE @) \o r.entries,
                     !.more = r.has_more, !.total = r.total, !.hosts = r.hosts,
                     !.loading = FALSE]

SearchAnswer(c) ==
  /\ searchCalls' = searchCalls \ {c}
  /\ search' = IF c.alive THEN SearchTake(c) ELSE search
  /\ shifted' = (shifted /\ ~(c.alive /\ c.page = 0))
  /\ UNCHANGED <<store, updated, landings, historyVars>>

\* A fault: the tiles of the query before stay.
SearchFailed_KeepsTiles(c) ==
  [search EXCEPT !.error = TRUE, !.loading = FALSE]

\* A fault: the loading flag is lowered by an answer only.
SearchFailed_Loading(c) ==
  [search EXCEPT !.error = TRUE, !.tiles = IF c.page = 0 THEN <<>> ELSE @]

(* A failed first page leaves no tiles of the query before it. *)
SearchFailed(c) ==
  [search EXCEPT !.error = TRUE, !.loading = FALSE,
                 !.tiles = IF c.page = 0 THEN <<>> ELSE @]

SearchFail(c) ==
  /\ searchCalls' = searchCalls \ {c}
  /\ search' = IF c.alive THEN SearchFailed(c) ELSE search
  /\ UNCHANGED <<storeVars, historyVars>>

SearchNext ==
  \/ \E t \in Typed : Type(t)
  \/ Debounce
  \/ \E f \in Fields : \E v \in Offered[f] \cup {Default} : SetFilter(f, v)
  \/ ResetAll
  \/ SearchMore
  \/ SearchRetry
  \/ \E c \in searchCalls : SearchAnswer(c) \/ SearchFail(c)

-----------------------------------------------------------------------------
(* Rows the page has read of the current query. *)
SearchRead == IF search.loading \/ search.error THEN search.page * PAGE
              ELSE (search.page + 1) * PAGE

(* The results on the screen, their totals and the offer of more are those   *)
(* of the query in the controls, and "No matching observations" is said only *)
(* of a query that matches nothing: never of one that failed, was overtaken  *)
(* or is still being asked (Search.tsx:97-142, 310-371).  A row that moved   *)
(* since the first page is excepted.                                         *)
SearchShowsQuery ==
  LET list == Matching(QueryOf(search))
  IN  SearchOpen /\ ~shifted =>
        /\ SearchView = "grid" =>
             /\ search.tiles = Top(list, SearchRead)
             /\ search.total = Len(list) /\ search.hosts = Cardinality(HostsOf(list))
             /\ SearchFoot \in {"more", "end"} => search.more = (SearchRead < Len(list))
        /\ SearchView = "none" => list = <<>>

(* The URL of the current entry is the whole query: a page mounted on it, by *)
(* a bookmark, a reload or a return to it, asks for the same                 *)
(* (Search.tsx:22-63, 70-85).                                                *)
URLRestores ==
  SearchOpen => LET again == SearchStart(Here.query)
                IN  /\ again.debounced = search.debounced
                    /\ again.filters = search.filters

(* Grouping drops no result and lists none twice: every service read is on   *)
(* exactly one card, under its own host (searchGrouping.ts:8-20).            *)
SearchCardsHonest ==
  ~shifted => \A s \in Range(search.tiles) :
    Cardinality({k \in DOMAIN SearchCards : OnCard(SearchCards[k], s)}) = 1

(* A search that is still the page's query does not stay unanswered, unless  *)
(* the reader asks something else for ever: a new query gives up the call in *)
(* flight.  When the query is cleared the loading flag may stay set: nothing *)
(* shows it.                                                                 *)
SearchSettles ==
  \/ SearchOpen /\ Active(search) /\ search.loading
       ~> ~SearchOpen \/ ~Active(search) \/ ~search.loading
  \/ []<><<QueryOf(search)' # QueryOf(search)>>_searchVars
=============================================================================
