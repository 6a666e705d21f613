------------------------------ MODULE FeedPage ------------------------------
(* The feed (pages/Feed.tsx): two listings of the captured services, read    *)
(* page by page; a switch of listing supersedes the calls in flight.         *)
EXTENDS Listing

VARIABLES feed,         \* the page's React state
          feedCalls     \* its API calls in flight

feedVars == <<feed, feedCalls>>

Modes == {"ranked", "latest"}

(* The listing a mode names: every order it may be read in, and its rows.    *)
FeedLists(mode) == IF mode = "latest" THEN {Latest} ELSE Galleries

FeedLength(mode) == IF mode = "latest" THEN Len(Latest) ELSE Cardinality(Nets)

FeedStart == [mode |-> "ranked", group |-> FALSE, tiles |-> <<>>, offset |-> 0,
              more |-> FALSE, loading |-> TRUE, error |-> FALSE]

FeedCall(mode, offset) == [mode |-> mode, offset |-> offset, alive |-> TRUE]

-----------------------------------------------------------------------------
(* What is on the screen. *)
FeedView == IF feed.tiles # <<>> THEN "grid"
            ELSE IF feed.error THEN "error"
            ELSE IF feed.loading THEN "grid"
            ELSE "empty"

FeedFoot == IF feed.loading THEN "scanning"
            ELSE IF feed.error /\ feed.tiles # <<>> THEN "retry"
            ELSE IF feed.more THEN "more"
            ELSE IF feed.tiles # <<>> THEN "end"
            ELSE "none"

(* Services of one host share a card when their captures are the same, or    *)
(* all of them when grouping by host is on.                                  *)
FeedCards ==
  CardsBy(feed.tiles, [t \in Range(feed.tiles) |->
                        <<t.host, IF feed.group THEN "host" ELSE t.capture>>])

FeedCollapsed == Len(feed.tiles) - Cardinality(DOMAIN FeedCards)

-----------------------------------------------------------------------------
MountFeed == /\ feed' = FeedStart
             /\ feedCalls' = {FeedCall("ranked", 0)}

UnmountFeed == /\ feed' = FeedStart
               /\ feedCalls' = {}

FeedOpen == Here.page = "feed"

(* Ask for the page at an offset, the calls in flight and the ones in over   *)
(* superseded.                                                               *)
FeedAsk(mode, offset, over) ==
  /\ Cardinality(feedCalls) < MaxCalls
  /\ feed' = [feed EXCEPT !.mode = mode, !.offset = offset,
                          !.loading = TRUE, !.error = FALSE]
  /\ feedCalls' = Superseded(feedCalls \cup over) \cup {FeedCall(mode, offset)}

(* The mode's effect resets the offset, but the fetch effect of the same     *)
(* render still sees the old one: a call for the new mode at the old offset  *)
(* leaves first and is superseded at once.                                   *)
FeedSwitch(mode) ==
  /\ FeedOpen /\ mode # feed.mode
  /\ FeedAsk(mode, 0, IF feed.offset = 0 THEN {} ELSE {FeedCall(mode, feed.offset)})
  /\ UNCHANGED <<storeVars, historyVars>>

FeedMore ==
  /\ FeedOpen /\ FeedFoot = "more"
  /\ FeedAsk(feed.mode, feed.offset + PAGE, {})
  /\ UNCHANGED <<storeVars, historyVars>>

FeedRetry ==
  /\ FeedOpen /\ (FeedView = "error" \/ FeedFoot = "retry")
  /\ FeedAsk(feed.mode, feed.offset, {})
  /\ UNCHANGED <<storeVars, historyVars>>

FeedGroup ==
  /\ FeedOpen
  /\ feed' = [feed EXCEPT !.group = ~@]
  /\ UNCHANGED <<feedCalls, storeVars, historyVars>>

(* The first page replaces the tiles, a later one is appended. *)
FeedTake(c, list) ==
  LET r == PageOf(list, c.offset)
  IN  [feed EXCEPT !.tiles = (IF c.offset = 0 THEN <<>> ELSE @) \o r.entries,
                   !.more = r.has_more, !.loading = FALSE]

\* A fault: an answer counts though its call was superseded.
FeedAnswer_Late(c) ==
  /\ feedCalls' = feedCalls \ {c}
  /\ \E list \in FeedLists(c.mode) : feed' = FeedTake(c, list)
  /\ shifted' = (shifted /\ c.offset # 0)
  /\ UNCHANGED <<store, updated, landings, historyVars>>

FeedAnswer(c) ==
  /\ feedCalls' = feedCalls \ {c}
  /\ \E list \in FeedLists(c.mode) : feed' = IF c.alive THEN FeedTake(c, list) ELSE feed
  /\ shifted' = (shifted /\ ~(c.alive /\ c.offset = 0))
  /\ UNCHANGED <<store, updated, landings, historyVars>>

FeedFail(c) ==
  /\ feedCalls' = feedCalls \ {c}
  /\ feed' = IF c.alive THEN [feed EXCEPT !.error = TRUE, !.loading = FALSE] ELSE feed
  /\ UNCHANGED <<storeVars, historyVars>>

FeedNext == \/ \E mode \in Modes : FeedSwitch(mode)
            \/ FeedMore
            \/ FeedRetry
            \/ FeedGroup
            \/ \E c \in feedCalls : FeedAnswer(c) \/ FeedFail(c)

-----------------------------------------------------------------------------
(* Rows of the listing the page has read: all pages up to the offset's, that *)
(* page itself only once it has answered.                                    *)
FeedRead == IF feed.loading \/ feed.error THEN feed.offset ELSE feed.offset + PAGE

(* The page shows the listing it names, from the top and without a gap:      *)
(* every row stands where that listing may have it, and more is offered      *)
(* exactly when there is more, whatever switches, retries and late answers   *)
(* came before (Feed.tsx:52-69, query.go:105-187).  A listing without ties   *)
(* is so shown row for row; across a tie of the gallery two pages may repeat *)
(* a row and miss another.  A row that moved since the first page is         *)
(* excepted: the API pages by offset.                                        *)
FeedShowsListing ==
  FeedOpen /\ ~shifted /\ FeedRead > 0 =>
    /\ feed.more = (FeedRead < FeedLength(feed.mode))
    /\ Len(feed.tiles) = IF feed.more THEN FeedRead ELSE FeedLength(feed.mode)
    /\ \A i \in DOMAIN feed.tiles :
         \E list \in FeedLists(feed.mode) : feed.tiles[i] = list[i]

(* The port chips: each port of each card. *)
FeedChips == UNION {{k} \X FeedCards[k].ports : k \in DOMAIN FeedCards}

(* Every service read is on one card and no other, under its own host, and   *)
(* unless one was read twice the count of grouped services is the number of  *)
(* port chips beyond the first of each card (Feed.tsx:28-45, 100-106).       *)
FeedCardsHonest ==
  /\ \A s \in Range(feed.tiles) :
       Cardinality({k \in DOMAIN FeedCards : OnCard(FeedCards[k], s)}) = 1
  /\ IsInjective(feed.tiles) =>
       FeedCollapsed = Cardinality(FeedChips) - Cardinality(DOMAIN FeedCards)

(* The feed does not scan for ever, unless the reader switches for ever: a   *)
(* switch gives up the call in flight.                                       *)
FeedSettles == \/ FeedOpen /\ feed.loading ~> ~FeedOpen \/ ~feed.loading
               \/ []<><<feed.mode' # feed.mode>>_feedVars
=============================================================================
