------------------------------ MODULE PageHead ------------------------------
(* What the document's head says of the page: its title, its canonical       *)
(* address and whether search engines may index it (lib/meta.ts).  The       *)
(* head outlives the pages; each writes it in an effect that runs when the   *)
(* page mounts and when what it passes to the hook changes.                  *)
EXTENDS Integers

VARIABLES head          \* record [title, canonical, robots]

(* The arguments of a page's call.  No path stands for the address.          *)
Meta(e) == [title   |-> IF e.page = "record" THEN <<e.page, e.query>> ELSE <<e.page>>,
            path    |-> IF e.page = "map" THEN <<"map">> ELSE <<>>,
            noIndex |-> e.page \in {"record", "external"}]

Pathname(e) == IF e.page = "map" THEN <<e.page>> ELSE <<e.page, e.query>>

HeadOf(e) == [title     |-> Meta(e).title,
              canonical |-> IF Meta(e).path = <<>> THEN Pathname(e) ELSE Meta(e).path,
              robots    |-> IF Meta(e).noIndex THEN "noindex" ELSE "index"]

\* A fault: the title is not among what the effect depends on.
UseMeta_NoTitle(old, e) ==
  head' = IF e.page = old.page /\ Meta(e).path = Meta(old).path THEN head ELSE HeadOf(e)

(* The hook after a render of e, when old was on the screen.                 *)
UseMeta(old, e) ==
  head' = IF e.page = old.page /\ Meta(e) = Meta(old) THEN head ELSE HeadOf(e)

=============================================================================
