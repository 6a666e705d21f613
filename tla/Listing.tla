------------------------------ MODULE Listing ------------------------------
(* What the listing pages of the user interface read: the stored services,   *)
(* which the read API orders, filters and cuts in pages with an exact        *)
(* has_more (it reads one row more than the page).  An answer is computed    *)
(* from the store in the step that delivers it: a landing between the two    *)
(* commutes with everything the browser does.                                *)
EXTENDS History, Ordered

CONSTANTS Services,     \* records [net, host, port, capture]
          Captured,     \* the services with a capture that is no error
          Stored,       \* the store as the site is opened, newest first
          StoredAt,     \* StoredAt[s]: when s was scanned by then
          Leading,      \* services a ranked order puts first
          PAGE,         \* rows of one page (24 in the code)
          MaxLandings   \* bound: rescans that land while the site is open

(* A host and a port make a service, the key of the store; a host is in one  *)
(* /24.  Services of one batch are stored with the same time (ingest.go:111).*)
ASSUME ListingAssumption ==
  /\ PAGE \in Nat \ {0}
  /\ Stored \in Seq(Services) /\ IsInjective(Stored)
  /\ StoredAt \in [Services -> Nat]
  /\ \A i, j \in DOMAIN Stored : i < j => StoredAt[Stored[i]] >= StoredAt[Stored[j]]
  /\ \A s, t \in Services : /\ s.host = t.host /\ s.port = t.port => s = t
                            /\ s.host = t.host => s.net = t.net

VARIABLES store,        \* the stored services, newest first
          updated,      \* updated[s]: when s was last scanned (updated_at)
          landings,     \* landings so far
          shifted       \* observer: a row moved since the first page was read

storeVars == <<store, updated, landings, shifted>>

-----------------------------------------------------------------------------
(* A search in an order other than the newest first: the leading services    *)
(* (the best matches), then the others.  Every order of a search is total:   *)
(* it ends with the key.                                                     *)
Ranked(list) == Keep(list, Leading) \o Keep(list, Services \ Leading)

(* The newest first, and the same for ties: this order ends with the key.    *)
Latest == Keep(store, Captured)

(* The gallery keeps of each /24 a service that no other outranks, and       *)
(* orders those by rank.  Its two sorts do not end with the key: a tie is    *)
(* broken anew, either way, whenever a page is read.                         *)
Screens == Captured \cap Range(store)

Outranks(s, t) == \/ s \in Leading /\ t \notin Leading
                  \/ (s \in Leading) = (t \in Leading) /\ updated[s] > updated[t]

Foremost == {s \in Screens : \A t \in Screens : t.net = s.net => ~Outranks(t, s)}

Nets == {s.net : s \in Screens}

Galleries ==
  {list \in [1 .. Cardinality(Nets) -> Foremost] :
     \A i, j \in DOMAIN list : i < j => /\ list[i].net # list[j].net
                                      /\ ~Outranks(list[j], list[i])}

(* The first n rows of a listing. *)
Top(list, n) == SubSeq(list, 1, IF n < Len(list) THEN n ELSE Len(list))

HostsOf(list) == {s.host : s \in Range(list)}

(* One page of a listing, as the read API answers it. *)
PageOf(list, offset) ==
  [entries  |-> SubSeq(list, offset + 1,
                       IF offset + PAGE < Len(list) THEN offset + PAGE ELSE Len(list)),
   has_more |-> Len(list) > offset + PAGE,
   total    |-> Len(list),
   hosts    |-> Cardinality(HostsOf(list))]

(* A service is scanned: it becomes the newest, of the batch that landed     *)
(* last or of a later one, and rows move down.                               *)
Land(s) ==
  /\ landings < MaxLandings
  /\ store' = <<s>> \o Keep(store, Services \ {s})
  /\ \E later \in {0, 1} :
       updated' = [updated EXCEPT ![s] = later + IF store = <<>> THEN 0 ELSE updated[store[1]]]
  /\ landings' = landings + 1
  /\ shifted' = TRUE

-----------------------------------------------------------------------------
(* Cards: tiles with the same key, key[tile], share the first one's card,     *)
(* which lists their ports and is known by that tile's place.                *)
CardsBy(tiles, key) ==
  [i \in {i \in DOMAIN tiles : \A j \in 1 .. i - 1 : key[tiles[j]] # key[tiles[i]]} |->
     [tile  |-> tiles[i],
      ports |-> {t.port : t \in {u \in Range(tiles) : key[u] = key[tiles[i]]}}]]

(* The services a card stands for: the one it links to and its host's on the *)
(* ports it lists.                                                           *)
OnCard(card, s) == \/ s = card.tile
                   \/ s.host = card.tile.host /\ s.port \in card.ports
=============================================================================
