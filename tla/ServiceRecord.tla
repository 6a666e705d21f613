---------------------------- MODULE ServiceRecord ----------------------------
(***************************************************************************)
(* What is kept of one observed service, (ip, port): a MongoDB document,   *)
(* a capture object and a thumbnail object.  Several submissions of the    *)
(* service are in progress at once; each builds a document, uploads the    *)
(* capture and its thumbnail over whatever has their keys, and merges the  *)
(* document into the stored one with "$set", at once or later from the     *)
(* spool.  Keys of different services are different, so nothing here is    *)
(* shared between services.                                                *)
(*                                                                         *)
(* The fields buildEntry always sets are kept as the submission they come  *)
(* from; those it sets under a condition are kept field by field.          *)
(***************************************************************************)
EXTENDS Naturals

CONSTANTS
    Requests,     \* submissions that observed this service
    None,         \* an absent field, object or submitter
    Captured,     \* what each submission captured
    Landing,      \* submissions that saw an insecure HTTP 200
    Identified,   \* submissions that carry a certificate name
    Anonymous,    \* submissions with no_report, or of an anon host
    Uploads,      \* ing.r2 # nil
    Fallback,     \* cfg.R2FallbackToMongo
    MaxCrashes    \* bound: crashes of the collector

Exts == {"png", "jpg"}

ASSUME NoneAssumption == None \notin Requests
ASSUME CapturedAssumption == Captured \in [Requests -> Exts \cup {"", "error"}]
ASSUME ScanAssumption == Landing \subseteq Requests /\ Identified \subseteq Requests
ASSUME ConfigAssumption == Uploads \in BOOLEAN /\ Fallback \in BOOLEAN
ASSUME BoundAssumption == MaxCrashes \in Nat

VARIABLES
    pc,        \* where each handler is
    pending,   \* the document each handler builds
    record,    \* the stored document
    spool,     \* documents waiting in spool files
    objects,   \* the capture object of each extension: whose image it holds
    thumb,     \* the thumbnail object: whose image it holds
    crashes

vars == <<pc, pending, record, spool, objects, thumb, crashes>>

\* cert_cn stands for every field that is set only when it has a value: the
\* hashes, the product, geoip.
Conditional == {"landing_image", "thumb", "cert_cn"}

Owner == Requests \cup {None}

Document ==
    [by : Owner,                                   \* the always present fields
     submitted_by : Owner,
     capture : {"", "error", "inline", "r2"},      \* "r2" names ObjectKey(by)
     capture_hash : Owner,
     extra : [Conditional -> Owner]]

NoDocument ==
    [by |-> None, submitted_by |-> None, capture |-> "", capture_hash |-> None,
     extra |-> [f \in Conditional |-> None]]

TypeOK ==
    /\ pc \in [Requests -> {"idle", "upload", "thumb", "persist", "done", "broken"}]
    /\ pending \in [Requests -> Document]
    /\ record \in Document
    /\ spool \in SUBSET Document
    /\ objects \in [Exts -> Owner]
    /\ thumb \in Owner
    /\ crashes \in 0 .. MaxCrashes

Init ==
    /\ pc = [r \in Requests |-> "idle"]
    /\ pending = [r \in Requests |-> NoDocument]
    /\ record = NoDocument
    /\ spool = {}
    /\ objects = [x \in Exts |-> None]
    /\ thumb = None
    /\ crashes = 0

----------------------------------------------------------------------------
\* CaptureHashExt: an empty capture and an error text have no hash.
CapOK(r) == Captured[r] \in Exts

\* The extension is part of the object's key; the thumbnail is always a jpg.
ObjectKey(r) == Captured[r]

\* Mutant: the address is kept.
Submitter_Real(r) == r
Submitter(r) == IF r \in Anonymous THEN None ELSE r

\* An insecure HTTP 200 with a capture is a landing page.
LandingImage(r) == CapOK(r) /\ r \in Landing

\* buildEntry: the document before the capture is uploaded.
Built(r) ==
    [by |-> r,
     submitted_by |-> Submitter(r),
     capture |-> IF CapOK(r) THEN "inline" ELSE Captured[r],
     capture_hash |-> IF CapOK(r) THEN r ELSE None,
     extra |-> [f \in Conditional |->
                  IF \/ f = "landing_image" /\ LandingImage(r)
                     \/ f = "cert_cn" /\ r \in Identified
                  THEN r ELSE None]]

NeedsR2(r) == CapOK(r) /\ Uploads

\* Mutants: the landing image survives a failed upload, the reference is
\* written although the upload failed.
Cleared_KeepsLanding(d) == [d EXCEPT !.capture = "", !.capture_hash = None]
Cleared_Reference(d) == [d EXCEPT !.capture = "r2"]

\* The upload failed and MongoDB is not to hold the image instead.
Cleared(d) ==
    [d EXCEPT !.capture = "", !.capture_hash = None, !.extra["landing_image"] = None]

\* "$set" of document d over the stored one: a field d lacks stays as it was.
Set(old, d) ==
    [d EXCEPT !.extra = [f \in Conditional |->
                           IF d.extra[f] = None THEN old.extra[f] ELSE d.extra[f]]]

----------------------------------------------------------------------------
(* One submission. *)

Ingest(r) ==
    /\ pc[r] = "idle"
    /\ pending' = [pending EXCEPT ![r] = Built(r)]
    /\ pc' = [pc EXCEPT ![r] = IF NeedsR2(r) THEN "upload" ELSE "persist"]
    /\ UNCHANGED <<record, spool, objects, thumb, crashes>>

Upload(r) ==
    /\ pc[r] = "upload"
    /\ objects' = [objects EXCEPT ![ObjectKey(r)] = r]
    /\ pending' = [pending EXCEPT ![r].capture = "r2"]
    /\ pc' = [pc EXCEPT ![r] = "thumb"]
    /\ UNCHANGED <<record, spool, thumb, crashes>>

\* PutObject returns an error; the object may have been written all the same,
\* when only the answer was lost.
UploadFails(r) ==
    /\ pc[r] = "upload"
    /\ \/ objects' = [objects EXCEPT ![ObjectKey(r)] = r]
       \/ UNCHANGED objects
    /\ pending' = [pending EXCEPT ![r] = IF Fallback THEN @ ELSE Cleared(@)]
    /\ pc' = [pc EXCEPT ![r] = "persist"]
    /\ UNCHANGED <<record, spool, thumb, crashes>>

UploadThumb(r) ==
    /\ pc[r] = "thumb"
    /\ thumb' = r
    /\ pending' = [pending EXCEPT ![r].extra["thumb"] = r]
    /\ pc' = [pc EXCEPT ![r] = "persist"]
    /\ UNCHANGED <<record, spool, objects, crashes>>

\* The image does not decode, or PutObject returns an error: swallowed.
UploadThumbFails(r) ==
    /\ pc[r] = "thumb"
    /\ thumb' \in {thumb, r}
    /\ pc' = [pc EXCEPT ![r] = "persist"]
    /\ UNCHANGED <<pending, record, spool, objects, crashes>>

\* persist: written, or spooled because it failed, or both when MongoDB wrote
\* the document and the answer was lost.
Persist(r) ==
    /\ pc[r] = "persist"
    /\ \/ record' = Set(record, pending[r]) /\ UNCHANGED spool
       \/ record' \in {record, Set(record, pending[r])}
          /\ spool' = spool \cup {pending[r]}
    /\ pc' = [pc EXCEPT ![r] = "done"]
    /\ UNCHANGED <<pending, objects, thumb, crashes>>

\* flushOnce applies a spooled document; it stays when the collector dies
\* before it removes the file.
Replay(d) ==
    /\ d \in spool
    /\ record' = Set(record, d)
    /\ spool' \in {spool, spool \ {d}}
    /\ UNCHANGED <<pc, pending, objects, thumb, crashes>>

\* Handlers end where they are; objects, documents and spool files remain.
Crash ==
    /\ crashes < MaxCrashes
    /\ crashes' = crashes + 1
    /\ pc' = [r \in Requests |-> IF pc[r] \in {"upload", "thumb", "persist"}
                                 THEN "broken" ELSE pc[r]]
    /\ UNCHANGED <<pending, record, spool, objects, thumb>>

Handler(r) ==
    \/ Ingest(r) \/ Upload(r) \/ UploadFails(r)
    \/ UploadThumb(r) \/ UploadThumbFails(r) \/ Persist(r)

Next ==
    \/ \E r \in Requests : Handler(r)
    \/ \E d \in spool : Replay(d)
    \/ Crash

Spec == Init /\ [][Next]_vars

----------------------------------------------------------------------------
(* What the read APIs do with the stored document. *)

\* hasCaptureMatch: the gallery, the map, the feed show the service.
HasCapture(d) == d.capture \in {"inline", "r2"}

----------------------------------------------------------------------------
(* Properties. *)

\* Documents that are or will be stored.
Kept == spool \cup {record} \cup {pending[r] : r \in Requests}

\* A document refers to an object only once the object is there: through
\* failed uploads, crashes between the upload and the write, and replays, no
\* reader is sent to a missing image or thumbnail.
NoDanglingReference ==
    \A d \in Kept :
      /\ d.capture = "r2" => CapOK(d.by) /\ objects[ObjectKey(d.by)] # None
      /\ d.extra["thumb"] # None => thumb # None

\* The client address of an anonymous submission is written nowhere: not in
\* the stored document, and not in a spool file.
AnonymityKept ==
    \A d \in Kept : d.by \in Anonymous => d.submitted_by = None

\* With uploads on and the fallback off MongoDB and the spool never receive an
\* image, not even when the upload fails.
NoInlineCapture ==
    Uploads /\ ~Fallback =>
      \A d \in spool \cup {record} : d.capture # "inline"

\* The landing image a submission claims is of its own capture: insecure, 200,
\* stored, and the one capture_hash names.
OwnLandingIsCapture ==
    \A d \in spool \cup {record} :
      d.by # None /\ d.extra["landing_image"] = d.by =>
        HasCapture(d) /\ d.capture_hash = d.by /\ d.by \in Landing

\* A failed upload takes back all that assumed the capture: the inline image
\* and the claim of a landing image.
CaptureHonest == NoInlineCapture /\ OwnLandingIsCapture
=============================================================================
