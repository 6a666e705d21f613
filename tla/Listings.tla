------------------------------ MODULE Listings ------------------------------
(* The feed and the search page under one history: a link, the back button   *)
(* or a jump unmounts the page, whose calls are then ignored, and mounts the *)
(* other on its entry.  A link or a jump between two entries of the search   *)
(* page does not: the route renders the same component, which keeps its      *)
(* state and rewrites the entry it finds itself on.                          *)
EXTENDS FeedPage, SearchPage

vars == <<storeVars, historyVars, feedVars, searchVars>>

Entry(page, query) == [page |-> page, query |-> query]

Links == {Entry("feed", <<>>)} \cup {Entry("search", u) : u \in Linked}

(* The page at an entry, mounted anew, or the search page staying.           *)
Stays(e) == e.page = Here.page

Mounted(e) == IF e.page # "search" THEN e
              ELSE IF Stays(e) THEN Cited(search) ELSE Cited(SearchStart(e.query))

Show(e) == /\ IF Stays(e) THEN UNCHANGED feedVars
              ELSE IF e.page = "feed" THEN MountFeed ELSE UnmountFeed
           /\ IF Stays(e) THEN UNCHANGED searchVars
              ELSE IF e.page = "search" THEN MountSearch(e.query) ELSE UnmountSearch

(* A link to the entry the browser is on replaces it by itself. *)
Follow(e) == /\ e # Here
             /\ Push(Mounted(e))
             /\ Show(e)
             /\ UNCHANGED storeVars

GoTo(i) == /\ i \in DOMAIN entries
           /\ Jump(i, Mounted(entries[i]))
           /\ Show(entries[i])
           /\ UNCHANGED storeVars

Landing(s) == Land(s) /\ UNCHANGED <<historyVars, feedVars, searchVars>>

Init ==
  /\ store = Stored /\ updated = StoredAt /\ landings = 0 /\ shifted = FALSE
  /\ at = 1
  /\ \/ /\ entries = <<Entry("feed", <<>>)>>
        /\ feed = FeedStart /\ feedCalls = {FeedCall("ranked", 0)}
        /\ search = SearchClosed /\ searchCalls = {}
     \/ \E url \in Linked :
        /\ entries = <<Cited(SearchStart(url))>>
        /\ feed = FeedStart /\ feedCalls = {}
        /\ search = Fetching(SearchStart(url)) /\ searchCalls = FetchCalls(SearchStart(url))

Next == \/ FeedNext /\ UNCHANGED searchVars
        \/ SearchNext /\ UNCHANGED feedVars
        \/ \E e \in Links : Follow(e)
        \/ \E i \in 1 .. MaxEntries : GoTo(i)
        \/ \E s \in Services : Landing(s)

FeedResult == \E c \in feedCalls : c.alive /\ (FeedFail(c) \/ FeedAnswer(c)) /\ UNCHANGED searchVars
SearchResult == \E c \in searchCalls : c.alive /\ (SearchFail(c) \/ SearchAnswer(c)) /\ UNCHANGED feedVars

(* The call whose answer counts ends, or a switch, a new query or a link     *)
(* gives it up.                                                              *)
FeedOver ==
  /\ \E c \in feedCalls : c.alive
  /\ \/ FeedResult
     \/ Next /\ \A c \in feedCalls : c.alive => c \notin feedCalls'

SearchOver ==
  /\ \E c \in searchCalls : c.alive
  /\ \/ SearchResult
     \/ Next /\ \A c \in searchCalls : c.alive => c \notin searchCalls'

(* Each fetch ends, with an answer or an error, as long as it is not given   *)
(* up: the browser gives up on a dead connection.  The debt of one call is   *)
(* not passed to the next, and nothing is assumed of a call whose answer is  *)
(* ignored, of the reader, or of landings.                                   *)
Spec == Init /\ [][Next]_vars /\ WF_vars(FeedOver) /\ WF_vars(SearchOver)

-----------------------------------------------------------------------------
FilterValues == {Default} \cup (UNION {Offered[f] : f \in Fields})
                \cup (UNION {{u[f] : f \in Fields \cap DOMAIN u} : u \in Linked})

FilterType == [Fields -> FilterValues]

(* An entry is the feed, or an address as the search page writes it.         *)
TypeOK ==
  /\ at \in 1 .. Len(entries)
  /\ \A i \in DOMAIN entries : \/ entries[i] = Entry("feed", <<>>)
                               \/ entries[i] = Cited(SearchStart(entries[i].query))
  /\ feed.mode \in Modes /\ feed.offset \in Nat
  /\ search.q \in Texts /\ search.debounced \in Texts
  /\ search.filters \in FilterType /\ search.page \in Nat
  /\ feedCalls \subseteq [mode : Modes, offset : Nat, alive : BOOLEAN]
  /\ searchCalls \subseteq [query : [q : Texts, f : FilterType], page : Nat, alive : BOOLEAN]

(* On both pages every service read is on one card, under its own host.      *)
CardsHonest == FeedCardsHonest /\ SearchCardsHonest

(* Neither page loads for ever, unless the reader keeps asking for something *)
(* else.                                                                     *)
ListingsSettle == FeedSettles /\ SearchSettles

(* "Keep the complete query state in the URL so a result set can be cited,   *)
(* bookmarked, and restored with browser back/forward navigation"            *)
(* (Search.tsx:70-71): going back to an entry, the page is left with the     *)
(* query that entry cited.                                                   *)
BackRestores ==
  [][ (at' < at /\ entries[at'].page = "search") =>
        LET cited == SearchStart(entries[at'].query)
        IN  /\ search'.debounced = cited.debounced
            /\ search'.filters = cited.filters ]_vars
=============================================================================
