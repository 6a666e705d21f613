----------------------------- MODULE RecordPage -----------------------------
(* The record page (pages/Signal.tsx) and the cross-reference of its host    *)
(* (components/CrossReference.tsx).  The route's parameters name the         *)
(* service; a jump from one record to another keeps the page mounted, and    *)
(* unmounts the cross-reference and the globe while the other loads.  What   *)
(* is known of a host is a set of facts; what the page tells, a set of rows. *)
EXTENDS History, WorldLand, XrefLists

CONSTANTS Records,        \* services: records [host, port, geo]
          Enrichments,    \* sets of facts the enrichment API may answer
          Pulses,         \* OTX's own answers: <<count, titles>>
          Vulns,          \* lists of CVE records
          MaxTimers       \* bound: copies whose label is still to be cleared

VARIABLES record,       \* the React state of the page and its cross-reference
          recordCalls   \* API calls in flight, records [kind, of, alive]

recordVars == <<record, recordCalls>>

Exposure   == {"ports", "vulns", "products", "cpes", "tags"}
Flags      == {"ipqs_flag", "ipinfo_flag"}
Providers  == {"virustotal", "abuseipdb", "greynoise", "ipqs", "pulsedive"}
Feeds      == {"otx", "threatfox"}
Network    == {"org", "bgp", "ipapi", "ipinfo", "hostnames"}
Facts == Exposure \cup Flags \cup Providers \cup Feeds \cup Network \cup
         {"verdict", "pulsedive_risk", "place", "last_seen"}

(* A provider's flag comes with its answer; OTX counts at least the pulses   *)
(* it lists.                                                                 *)
ASSUME RecordAssumption ==
  /\ \A f \in Enrichments : /\ f \subseteq Facts
                            /\ "ipqs_flag" \in f => "ipqs" \in f
                            /\ "ipinfo_flag" \in f => "ipinfo" \in f
                            /\ "pulsedive_risk" \in f => "pulsedive" \in f
  /\ \A p \in Pulses : p[2] \in Seq(DOMAIN Fold) /\ p[1] \in Nat /\ Len(p[2]) <= p[1]
  /\ Vulns \subseteq Seq(DOMAIN Year)

-----------------------------------------------------------------------------
(* The rows of each section; a section without a fact of its kind is left    *)
(* out with its heading.                                                     *)
Section(kinds, f, rows) == IF f \cap kinds = {} THEN {} ELSE f \cap rows

ExposureRows(f)   == Section(Exposure, f, Exposure)
ReputationRows(f) == Section(Providers \cup Flags, f,
                             (Providers \ {"pulsedive"}) \cup Flags \cup {"pulsedive_risk"})
FeedRows(f)       == Section(Feeds, f, Feeds)
NetworkRows(f)    == Section(Network, f, Network \cup {"last_seen"} \cup
                                         (IF "ipapi" \in f THEN {} ELSE {"place"}))

HasData(f) == f \cap (Exposure \cup Providers \cup Flags \cup Feeds \cup Network
                                                        \cup {"verdict"}) # {}

Rows(f) == IF ~HasData(f) THEN {}
           ELSE (f \cap {"verdict"}) \cup ExposureRows(f) \cup ReputationRows(f)
                \cup FeedRows(f) \cup NetworkRows(f)

(* Coordinates are shown, on a globe, unless the provider gave none, the     *)
(* null island, or the centre of a country.                                  *)
ShowsGlobe(s) == s.geo = "position"

-----------------------------------------------------------------------------
RecordOpen == Here.page = "record"

RecordClosed == [state |-> "loading", shown |-> {}, xref |-> "unmounted", facts |-> {},
                 factsOf |-> {}, copying |-> FALSE, copied |-> FALSE, timers |-> 0]

RecordCall(kind, of) == [kind |-> kind, of |-> of, alive |-> TRUE]

(* What the screen says in the place of the record or the cross-reference.   *)
RecordView == IF record.state = "loading" THEN "loading"
              ELSE IF record.state = "error" \/ record.shown = {} THEN "not found"
              ELSE "record"

XrefView == IF record.xref = "loading" THEN "cross-referencing"
            ELSE IF record.xref = "error" THEN "unreachable"
            ELSE IF ~HasData(record.facts) THEN "no external records"
            ELSE "rows"

MountRecord(s) == /\ record' = RecordClosed
                  /\ recordCalls' = {RecordCall("record", s)}
                  /\ UnmountLand

\* A fault: no cleanup: the calls for the record left stay alive.
ChangeRecord_Racing(s) ==
  /\ Cardinality(recordCalls) < MaxCalls
  /\ record' = [record EXCEPT !.state = "loading", !.xref = "unmounted",
                              !.facts = {}, !.factsOf = {}]
  /\ recordCalls' = recordCalls \cup {RecordCall("record", s)}
  /\ UnmountLand

(* Another record on the mounted page: its state is kept, the screen says    *)
(* loading, and the parts below unmount.                                     *)
ChangeRecord(s) ==
  /\ Cardinality(recordCalls) < MaxCalls
  /\ record' = [record EXCEPT !.state = "loading", !.xref = "unmounted",
                              !.facts = {}, !.factsOf = {}]
  /\ recordCalls' = Superseded(recordCalls) \cup {RecordCall("record", s)}
  /\ UnmountLand

UnmountRecord == record' = RecordClosed /\ recordCalls' = {}

Resolved(c) == recordCalls' = recordCalls \ {c} /\ UNCHANGED historyVars

\* A fault: an answer counts though its call was superseded.
RecordAnswer_Late(c) ==
  /\ c.kind = "record" /\ UNCHANGED historyVars
  /\ record' = [record EXCEPT !.state = "ok", !.shown = {c.of}, !.xref = "loading"]
  /\ recordCalls' = (recordCalls \ {c}) \cup {RecordCall("enrich", c.of.host)}
  /\ IF ShowsGlobe(c.of) THEN LoadLand ELSE UNCHANGED landVars

(* The answer mounts the cross-reference, which asks for its host, and the   *)
(* globe.                                                                    *)
RecordAnswer(c) ==
  /\ c.kind = "record" /\ UNCHANGED historyVars
  /\ IF c.alive
     THEN /\ record' = [record EXCEPT !.state = "ok", !.shown = {c.of}, !.xref = "loading"]
          /\ recordCalls' = (recordCalls \ {c}) \cup {RecordCall("enrich", c.of.host)}
          /\ IF ShowsGlobe(c.of) THEN LoadLand ELSE UNCHANGED landVars
     ELSE recordCalls' = recordCalls \ {c} /\ UNCHANGED <<record, landVars>>

\* A fault: an error leaves the page loading.
RecordFail_Loading(c) ==
  /\ c.kind = "record" /\ Resolved(c)
  /\ UNCHANGED <<record, landVars>>

(* The record is gone, or the API failed. *)
RecordFail(c) ==
  /\ c.kind = "record" /\ Resolved(c)
  /\ record' = IF c.alive THEN [record EXCEPT !.state = "error"] ELSE record
  /\ UNCHANGED landVars

EnrichAnswer(c, facts) ==
  /\ c.kind = "enrich" /\ Resolved(c)
  /\ record' = IF c.alive THEN [record EXCEPT !.xref = "ok", !.facts = facts,
                                              !.factsOf = {c.of}]
               ELSE record
  /\ UNCHANGED landVars

EnrichFail(c) ==
  /\ c.kind = "enrich" /\ Resolved(c)
  /\ record' = IF c.alive THEN [record EXCEPT !.xref = "error"] ELSE record
  /\ UNCHANGED landVars

(* The captured text is copied: the clipboard answers later, and each        *)
(* success arms a timer that clears the label.                               *)
Copy == /\ RecordOpen /\ RecordView = "record"
        /\ ~record.copying /\ record.timers < MaxTimers
        /\ record' = [record EXCEPT !.copying = TRUE]
        /\ UNCHANGED <<recordCalls, historyVars, landVars>>

CopyDone == /\ RecordOpen /\ record.copying
            /\ record' = [record EXCEPT !.copying = FALSE, !.copied = TRUE, !.timers = @ + 1]
            /\ UNCHANGED <<recordCalls, historyVars, landVars>>

CopyFails == /\ RecordOpen /\ record.copying
             /\ record' = [record EXCEPT !.copying = FALSE, !.copied = FALSE]
             /\ UNCHANGED <<recordCalls, historyVars, landVars>>

CopyTimer == /\ RecordOpen /\ record.timers > 0
             /\ record' = [record EXCEPT !.copied = FALSE, !.timers = @ - 1]
             /\ UNCHANGED <<recordCalls, historyVars, landVars>>

RecordResult(c) == \/ RecordAnswer(c)
                   \/ RecordFail(c)
                   \/ \E facts \in Enrichments : EnrichAnswer(c, facts)
                   \/ EnrichFail(c)

RecordNext == \/ \E c \in recordCalls : RecordResult(c)
              \/ Copy \/ CopyDone \/ CopyFails \/ CopyTimer

-----------------------------------------------------------------------------
(* The page implements the promise of a page that fetches: under an address  *)
(* is the record it names or none (Signal.tsx:43-61).                        *)
Latest == INSTANCE LatestAnswer WITH
  Topics <- Records,
  topic  <- IF RecordOpen THEN {Here.query} ELSE {},
  shown  <- IF record.state = "ok" THEN record.shown ELSE {},
  status <- IF ~RecordOpen THEN "closed"
            ELSE IF record.state = "loading" THEN "asking"
            ELSE IF record.state = "ok" THEN "answered" ELSE "failed"

RecordLatest == Latest!Spec

(* The record on the screen is the one the address names, and the            *)
(* cross-reference is of its host: a late answer for the record left does    *)
(* not replace it (Signal.tsx:43-57, CrossReference.tsx:122-136).            *)
RecordIsRequested ==
  RecordOpen /\ RecordView = "record" =>
    /\ record.shown = {Here.query}
    /\ record.factsOf \subseteq {Here.query.host}
    /\ record.xref = "ok" => record.factsOf # {}

(* Everything on file for the host is told, save what the page hides: the    *)
(* place when a provider gives its own, and place and last-seen date of a    *)
(* host with no other network fact.  "No external records on file" is said   *)
(* of no host with more than those (CrossReference.tsx:138-378).             *)
XrefTellsAll ==
  record.xref = "ok" =>
    LET hidden == IF record.facts \cap Network = {} THEN {"place", "last_seen"}
                  ELSE IF "ipapi" \in record.facts THEN {"place"} ELSE {}
    IN  /\ record.facts \ Rows(record.facts) \subseteq {"pulsedive"} \cup hidden
        /\ XrefView = "no external records" => record.facts \subseteq hidden

(* The lists of a cross-reference that shows them add up.                    *)
ListsAddUp ==
  XrefView = "rows" =>
    /\ "otx" \in record.facts => \A p \in Pulses : TitlesAddUp(p[1], p[2])
    /\ "vulns" \in record.facts => \A items \in Vulns : GroupsComplete(items)

(* The cross-reference leaves nothing on file untold, and its counts are of   *)
(* what it does not show.                                                    *)
XrefHonest == XrefTellsAll /\ ListsAddUp

(* The page does not load for ever, unless the reader goes on from one       *)
(* record to the next before any has come; its cross-reference does not, and *)
(* "Copied" does not stay (Signal.tsx:43-57, CrossReference.tsx:122-136).    *)
RecordSettles ==
  /\ \/ RecordOpen /\ record.state = "loading" ~> ~RecordOpen \/ record.state # "loading"
     \/ []<><<Here' # Here>>_historyVars
  /\ record.xref = "loading" ~> record.xref # "loading"
  /\ record.copied ~> ~record.copied
=============================================================================
