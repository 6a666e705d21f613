------------------------ MODULE ServiceRecord_proofs ------------------------
(***************************************************************************)
(* Every reachable state of ServiceRecord keeps what its safety properties *)
(* say, for any submissions and any configuration.                         *)
(*                                                                         *)
(* The properties speak of stored and spooled documents; what makes them   *)
(* inductive is where those come from.  A handler's document is final once *)
(* its handler is past persist, a spooled document is such a document, and *)
(* the stored one takes its always present fields from one of them and     *)
(* each conditional field from one that set it.                            *)
(***************************************************************************)
EXTENDS ServiceRecord, TLAPS

\* A handler's own document, as far as its handler has come.
OwnDocument(r) ==
    /\ pc[r] = "idle" => pending[r] = NoDocument
    /\ pc[r] # "idle" => pending[r].by = r
    /\ pc[r] \in {"upload", "thumb"} => NeedsR2(r)
    /\ pc[r] = "thumb" => pending[r].capture = "r2"
    /\ r \in Anonymous => pending[r].submitted_by = None
    /\ pending[r].extra \in [Conditional -> {r, None}]

\* Its capture: what refers to an object refers to one that is there.
OwnCapture(r) ==
    /\ pending[r].capture = "r2" => CapOK(r) /\ objects[ObjectKey(r)] # None
    /\ pending[r].extra["thumb"] # None => thumb # None
    /\ pc[r] \in {"persist", "done"} =>
         (Uploads /\ ~Fallback => pending[r].capture # "inline")

\* Its landing image, if any, is its own.
OwnLanding(r) ==
    pending[r].extra["landing_image"] # None =>
      /\ r \in Landing
      /\ HasCapture(pending[r]) /\ pending[r].capture_hash = r

Delivered(d) == d.by \in Requests /\ pc[d.by] = "done" /\ d = pending[d.by]

SpoolInv == \A d \in spool : Delivered(d)

\* The stored document is made of delivered ones.
RecordInv ==
    record.by # None =>
      /\ pc[record.by] = "done"
      /\ record.submitted_by = pending[record.by].submitted_by
      /\ record.capture = pending[record.by].capture
      /\ record.capture_hash = pending[record.by].capture_hash

\* A field of the stored document was set by the submission it names.
FieldInv ==
    /\ \A f \in Conditional : record.extra[f] # None =>
         /\ pc[record.extra[f]] = "done"
         /\ pending[record.extra[f]].extra[f] # None
    /\ record.by = None => record = NoDocument

Own(r) == OwnDocument(r) /\ OwnCapture(r) /\ OwnLanding(r)

IInv ==
    /\ TypeOK
    /\ \A r \in Requests : Own(r)
    /\ SpoolInv /\ RecordInv /\ FieldInv

----------------------------------------------------------------------------
\* buildEntry returns a document of its submission, without a thumbnail, whose
\* landing image and hash are those of its own capture.
LEMMA BuiltDocument ==
  ASSUME NEW r \in Requests
  PROVE  /\ Built(r) \in Document
         /\ Built(r).by = r
         /\ Built(r).extra \in [Conditional -> {r, None}]
         /\ r \in Anonymous => Built(r).submitted_by = None
         /\ Built(r).capture # "r2"
         /\ Built(r).capture = "inline" => CapOK(r)
         /\ Built(r).extra["thumb"] = None
         /\ Built(r).extra["landing_image"] # None =>
              r \in Landing /\ Built(r).capture = "inline" /\ Built(r).capture_hash = r
  <1>1. Built(r).extra \in [Conditional -> {r, None}]
    BY DEF Built
  <1>2. Built(r).submitted_by \in Owner
    BY DEF Built, Submitter, Owner
  <1>3. Built(r).capture \in {"", "error", "inline", "r2"} \ {"r2"}
    BY CapturedAssumption DEF Built, CapOK, Exts
  <1>4. Built(r).capture = "inline" => CapOK(r)
    BY CapturedAssumption DEF Built, CapOK, Exts
  <1>5. Built(r).capture_hash \in Owner
    BY DEF Built, Owner
  <1>6. Built(r).by = r
    BY DEF Built
  <1>7. Built(r) \in Document
    <2>1. Built(r).extra \in [Conditional -> Owner]
      BY <1>1 DEF Owner
    <2> QED
      BY <2>1, <1>2, <1>3, <1>5, <1>6 DEF Document, Built, Owner
  <1>8. r \in Anonymous => Built(r).submitted_by = None
    BY DEF Built, Submitter
  <1>9. Built(r).extra["thumb"] = None
    BY DEF Built, Conditional
  <1>10. Built(r).extra["landing_image"] # None =>
              r \in Landing /\ Built(r).capture = "inline" /\ Built(r).capture_hash = r
    BY DEF Built, Conditional, LandingImage
  <1> QED
    BY <1>1, <1>3, <1>4, <1>6, <1>7, <1>8, <1>9, <1>10

\* Nothing in the document of a service that was never stored.
LEMMA EmptyDocument ==
  /\ NoDocument.by = None /\ NoDocument.submitted_by = None
  /\ NoDocument.capture = "" /\ NoDocument.capture_hash = None
  /\ \A f \in Conditional : NoDocument.extra[f] = None
  BY DEF NoDocument

\* "$set" takes the always present fields from the new document and each
\* conditional field from the new one, if it has it, or else from the old one.
LEMMA SetDocument ==
  ASSUME NEW old \in Document, NEW d \in Document
  PROVE  /\ Set(old, d) \in Document
         /\ Set(old, d).by = d.by
         /\ Set(old, d).submitted_by = d.submitted_by
         /\ Set(old, d).capture = d.capture
         /\ Set(old, d).capture_hash = d.capture_hash
         /\ \A f \in Conditional :
              Set(old, d).extra[f] = IF d.extra[f] = None THEN old.extra[f] ELSE d.extra[f]
  BY DEF Set, Document

\* What clearing leaves of a document.
LEMMA ClearedDocument ==
  ASSUME NEW d \in Document
  PROVE  /\ Cleared(d) \in Document
         /\ Cleared(d).by = d.by
         /\ Cleared(d).submitted_by = d.submitted_by
         /\ Cleared(d).capture = ""
         /\ Cleared(d).extra["landing_image"] = None
         /\ Cleared(d).extra["thumb"] = d.extra["thumb"]
         /\ \A S : None \in S /\ d.extra \in [Conditional -> S] =>
                Cleared(d).extra \in [Conditional -> S]
  BY DEF Cleared, Document, Owner, Conditional

----------------------------------------------------------------------------
\* Delivering a finished handler's document keeps what is said of the record.
LEMMA Delivery ==
  ASSUME TypeOK, RecordInv, FieldInv,
         NEW r \in Requests, record' = Set(record, pending[r]),
         pc'[r] = "done", pending' = pending,
         \A q \in Requests : pc[q] = "done" => pc'[q] = "done",
         pending[r].by = r, pending[r].extra \in [Conditional -> {r, None}]
  PROVE  RecordInv' /\ FieldInv'
  <1>1. pending[r] \in Document /\ record \in Document
    BY DEF TypeOK
  <1>2. record'.by = r /\ r # None
    BY <1>1, SetDocument, NoneAssumption
  <1>3. RecordInv'
    BY <1>1, <1>2, SetDocument DEF RecordInv
  <1>4. ASSUME NEW f \in Conditional, record'.extra[f] # None
        PROVE  pc'[record'.extra[f]] = "done" /\ pending'[record'.extra[f]].extra[f] # None
    <2>1. CASE pending[r].extra[f] = None
      <3>1. record'.extra[f] = record.extra[f]
        BY <1>1, <2>1, SetDocument
      <3>2. record.extra[f] \in Requests
        BY <1>1, <1>4, <3>1 DEF Document, Owner
      <3> QED
        BY <1>4, <3>1, <3>2 DEF FieldInv
    <2>2. CASE pending[r].extra[f] # None
      <3>1. record'.extra[f] = pending[r].extra[f] /\ pending[r].extra[f] = r
        BY <1>1, <2>2, SetDocument
      <3> QED
        BY <2>2, <3>1
    <2> QED
      BY <2>1, <2>2
  <1> QED
    BY <1>2, <1>3, <1>4 DEF FieldInv

----------------------------------------------------------------------------
\* The step of a handler that has not delivered yet leaves what is delivered.
LEMMA DeliveredUntouched ==
  ASSUME TypeOK, SpoolInv, RecordInv, FieldInv,
         NEW r \in Requests, pc[r] # "done",
         spool' = spool, record' = record,
         \A q \in Requests \ {r} : pc'[q] = pc[q] /\ pending'[q] = pending[q]
  PROVE  SpoolInv' /\ RecordInv' /\ FieldInv'
  <1>1. SpoolInv'
    BY DEF SpoolInv, Delivered
  <1>2. RecordInv'
    <2>1. record.by # None => record.by \in Requests
      BY DEF TypeOK, Document, Owner
    <2> QED
      BY <2>1 DEF RecordInv
  <1>3. FieldInv'
    <2>1. \A f \in Conditional : record.extra[f] # None => record.extra[f] \in Requests
      BY DEF TypeOK, Document, Owner
    <2> QED
      BY <2>1 DEF FieldInv
  <1> QED
    BY <1>1, <1>2, <1>3

\* Objects are replaced and never removed, so a handler's document stays sound
\* while others act.
LEMMA OthersUntouched ==
  ASSUME NEW q \in Requests, Own(q), TypeOK,
         pc'[q] = pc[q], pending'[q] = pending[q],
         \A x \in Exts : objects[x] # None => objects'[x] # None,
         thumb # None => thumb' # None
  PROVE  Own(q)'
  <1>1. OwnDocument(q)' /\ OwnLanding(q)'
    BY DEF Own, OwnDocument, OwnLanding
  <1>2. OwnCapture(q)'
    BY DEF Own, OwnCapture, CapOK, ObjectKey
  <1> QED
    BY <1>1, <1>2 DEF Own

\* Writing the handler's image at its key keeps every key occupied that was.
LEMMA ObjectsGrow ==
  ASSUME TypeOK, NEW r \in Requests, CapOK(r),
         objects' = [objects EXCEPT ![ObjectKey(r)] = r]
  PROVE  /\ objects' \in [Exts -> Owner]
         /\ objects'[ObjectKey(r)] # None
         /\ \A x \in Exts : objects[x] # None => objects'[x] # None
  BY NoneAssumption DEF TypeOK, CapOK, ObjectKey, Owner

----------------------------------------------------------------------------
LEMMA Initially == Init => IInv
  <1> SUFFICES ASSUME Init PROVE IInv
    OBVIOUS
  <1>1. NoDocument \in Document
    BY DEF NoDocument, Document, Owner
  <1>2. TypeOK
    BY <1>1, BoundAssumption DEF Init, TypeOK, Owner
  <1>3. \A r \in Requests : Own(r)
    BY DEF Init, Own, OwnDocument, OwnCapture, OwnLanding, NoDocument, Conditional
  <1>4. SpoolInv /\ RecordInv /\ FieldInv
    BY DEF Init, SpoolInv, RecordInv, FieldInv, NoDocument
  <1> QED
    BY <1>2, <1>3, <1>4 DEF IInv

\* Every step keeps the invariant.
LEMMA Inductive ==
  ASSUME IInv, [Next]_vars
  PROVE  IInv'
  <1> USE DEF IInv
  <1>1. ASSUME NEW r \in Requests, Ingest(r) PROVE IInv'
    <2>1. pc[r] # "done" /\ spool' = spool /\ record' = record
      BY <1>1 DEF Ingest
    <2>2. \A q \in Requests \ {r} : pc'[q] = pc[q] /\ pending'[q] = pending[q]
      BY <1>1 DEF Ingest, TypeOK
    <2>3. /\ \A x \in Exts : objects[x] # None => objects'[x] # None
          /\ thumb # None => thumb' # None
          /\ objects' \in [Exts -> Owner] /\ thumb' \in Owner
      BY <1>1 DEF Ingest, TypeOK
    <2>4. TypeOK'
      BY <1>1, BuiltDocument DEF Ingest, TypeOK
    <2>5. Own(r)'
      <3>1. pending'[r] = Built(r)
        BY <1>1 DEF Ingest, TypeOK
      <3>2. pc'[r] \in {"upload", "persist"} /\ (pc'[r] = "upload" <=> NeedsR2(r))
        BY <1>1 DEF Ingest, TypeOK
      <3>3. OwnDocument(r)'
        BY <3>1, <3>2, BuiltDocument DEF OwnDocument, NeedsR2, CapOK
      <3>4. OwnCapture(r)'
        BY <3>1, <3>2, BuiltDocument DEF OwnCapture, NeedsR2
      <3>5. OwnLanding(r)'
        BY <3>1, BuiltDocument DEF OwnLanding, HasCapture
      <3> QED
        BY <3>3, <3>4, <3>5 DEF Own
    <2> QED
      BY <2>1, <2>2, <2>3, <2>4, <2>5, DeliveredUntouched, OthersUntouched DEF IInv
  <1>2. ASSUME NEW r \in Requests, Upload(r) PROVE IInv'
    <2>1. pc[r] # "done" /\ spool' = spool /\ record' = record
      BY <1>2 DEF Upload
    <2>2. \A q \in Requests \ {r} : pc'[q] = pc[q] /\ pending'[q] = pending[q]
      BY <1>2 DEF Upload, TypeOK
    <2>6. CapOK(r)
      BY <1>2 DEF Upload, IInv, Own, OwnDocument, NeedsR2
    <2>3. /\ \A x \in Exts : objects[x] # None => objects'[x] # None
          /\ thumb # None => thumb' # None
          /\ objects' \in [Exts -> Owner] /\ thumb' \in Owner
      BY <1>2, <2>6, ObjectsGrow DEF Upload, TypeOK, IInv
    <2>4. TypeOK'
      <3>1. [pending[r] EXCEPT !.capture = "r2"] \in Document
        BY <1>2 DEF TypeOK, Document
      <3>2. pending' \in [Requests -> Document]
        BY <1>2, <3>1 DEF Upload, TypeOK
      <3> QED
        BY <1>2, <2>3, <3>2 DEF Upload, TypeOK
    <2>5. Own(r)'
      <3>1. /\ pending'[r] = [pending[r] EXCEPT !.capture = "r2"]
            /\ pending[r] \in Document /\ pc'[r] = "thumb"
        BY <1>2 DEF Upload, TypeOK
      <3>2. /\ pending'[r].capture = "r2" /\ pending'[r].by = pending[r].by
            /\ pending'[r].submitted_by = pending[r].submitted_by
            /\ pending'[r].capture_hash = pending[r].capture_hash
            /\ pending'[r].extra = pending[r].extra
        BY <3>1 DEF Document
      <3>3. NeedsR2(r) /\ objects'[ObjectKey(r)] # None
        BY <1>2, <2>6, ObjectsGrow DEF Upload, IInv, Own, OwnDocument
      <3>4. OwnDocument(r)'
        BY <1>2, <3>1, <3>2, <3>3 DEF Upload, IInv, Own, OwnDocument, NeedsR2, CapOK
      <3>5. OwnCapture(r)'
        BY <1>2, <2>3, <3>1, <3>2, <3>3 DEF Upload, IInv, Own, OwnCapture, NeedsR2, CapOK, ObjectKey
      <3>6. OwnLanding(r)'
        BY <3>2 DEF IInv, Own, OwnLanding, HasCapture
      <3> QED
        BY <3>4, <3>5, <3>6 DEF Own
    <2> QED
      BY <2>1, <2>2, <2>3, <2>4, <2>5, DeliveredUntouched, OthersUntouched DEF IInv
  <1>3. ASSUME NEW r \in Requests, UploadFails(r) PROVE IInv'
    <2>1. pc[r] # "done" /\ spool' = spool /\ record' = record
      BY <1>3 DEF UploadFails
    <2>2. \A q \in Requests \ {r} : pc'[q] = pc[q] /\ pending'[q] = pending[q]
      BY <1>3 DEF UploadFails, TypeOK
    <2>6. CapOK(r)
      BY <1>3 DEF UploadFails, IInv, Own, OwnDocument, NeedsR2
    <2>3. /\ \A x \in Exts : objects[x] # None => objects'[x] # None
          /\ thumb # None => thumb' # None
          /\ objects' \in [Exts -> Owner] /\ thumb' \in Owner
      BY <1>3, <2>6, ObjectsGrow DEF UploadFails, TypeOK, IInv
    <2>4. TypeOK'
      <3>1. pending' \in [Requests -> Document]
        BY <1>3, ClearedDocument DEF UploadFails, TypeOK
      <3> QED
        BY <1>3, <2>3, <3>1 DEF UploadFails, TypeOK
    <2>5. Own(r)'
      <3>1. /\ pending'[r] = IF Fallback THEN pending[r] ELSE Cleared(pending[r])
            /\ pending[r] \in Document /\ pc'[r] = "persist"
        BY <1>3 DEF UploadFails, TypeOK
      <3>2. Own(r)
        BY DEF IInv
      <3>3. OwnDocument(r)'
        <4>1. /\ pending'[r].by = r /\ pc'[r] = "persist"
              /\ r \in Anonymous => pending'[r].submitted_by = None
          <5>1. /\ pending'[r].by = pending[r].by
                /\ pending'[r].submitted_by = pending[r].submitted_by
            BY <3>1, ClearedDocument
          <5>2. pc[r] = "upload"
            BY <1>3 DEF UploadFails
          <5> QED
            BY <3>1, <3>2, <5>1, <5>2 DEF Own, OwnDocument
        <4>2. pending'[r].extra \in [Conditional -> {r, None}]
          <5>1. pending[r].extra \in [Conditional -> {r, None}] /\ None \in {r, None}
            BY <3>2 DEF Own, OwnDocument
          <5> QED
            BY <3>1, <5>1, ClearedDocument
        <4> QED
          BY <4>1, <4>2 DEF OwnDocument
      <3>4. OwnCapture(r)'
        <4>1. OwnCapture(r) /\ pc'[r] = "persist"
          BY <3>1, <3>2 DEF Own
        <4>2. CASE Fallback
          <5>1. pending'[r] = pending[r]
            BY <3>1, <4>2
          <5> QED
            BY <2>3, <4>1, <4>2, <5>1 DEF OwnCapture, CapOK, ObjectKey
        <4>3. CASE ~Fallback
          <5>1. /\ pending'[r].capture = ""
                /\ pending'[r].extra["thumb"] = pending[r].extra["thumb"]
            BY <3>1, <4>3, ClearedDocument
          <5> QED
            BY <2>3, <4>1, <5>1 DEF OwnCapture
        <4> QED
          BY <4>2, <4>3
      <3>5. OwnLanding(r)'
        BY <3>1, <3>2, ClearedDocument DEF Own, OwnLanding
      <3> QED
        BY <3>3, <3>4, <3>5 DEF Own
    <2> QED
      BY <2>1, <2>2, <2>3, <2>4, <2>5, DeliveredUntouched, OthersUntouched DEF IInv
  <1>4. ASSUME NEW r \in Requests, UploadThumb(r) PROVE IInv'
    <2>1. pc[r] # "done" /\ spool' = spool /\ record' = record
      BY <1>4 DEF UploadThumb
    <2>2. \A q \in Requests \ {r} : pc'[q] = pc[q] /\ pending'[q] = pending[q]
      BY <1>4 DEF UploadThumb, TypeOK
    <2>3. /\ \A x \in Exts : objects[x] # None => objects'[x] # None
          /\ thumb # None => thumb' # None
          /\ objects' \in [Exts -> Owner] /\ thumb' \in Owner
      BY <1>4, NoneAssumption DEF UploadThumb, TypeOK, Owner, IInv
    <2>4. TypeOK'
      <3>1. [pending[r] EXCEPT !.extra["thumb"] = r] \in Document
        BY <1>4 DEF TypeOK, Document, Owner
      <3>2. pending' \in [Requests -> Document]
        BY <1>4, <3>1 DEF UploadThumb, TypeOK
      <3> QED
        BY <1>4, <2>3, <3>2 DEF UploadThumb, TypeOK
    <2>5. Own(r)'
      <3>1. /\ pending'[r] = [pending[r] EXCEPT !.extra["thumb"] = r]
            /\ pending[r] \in Document /\ pc'[r] = "persist"
        BY <1>4 DEF UploadThumb, TypeOK
      <3>2. /\ pending'[r].capture = pending[r].capture /\ pending'[r].by = pending[r].by
            /\ pending'[r].submitted_by = pending[r].submitted_by
            /\ pending'[r].capture_hash = pending[r].capture_hash
            /\ pending'[r].extra = [pending[r].extra EXCEPT !["thumb"] = r]
        BY <3>1 DEF Document
      <3>3. Own(r) /\ pending[r].capture = "r2"
        BY <1>4 DEF IInv, Own, OwnDocument, UploadThumb
      <3>4. OwnDocument(r)'
        <4>1. pending'[r].extra \in [Conditional -> {r, None}]
          BY <3>2, <3>3, ZenonT(30) DEF Own, OwnDocument
        <4> QED
          BY <1>4, <3>1, <3>2, <3>3, <4>1 DEF UploadThumb, Own, OwnDocument
      <3>5. OwnCapture(r)'
        BY <1>4, <3>1, <3>2, <3>3, NoneAssumption
        DEF UploadThumb, Own, OwnCapture, CapOK, ObjectKey
      <3>6. pending'[r].extra["landing_image"] = pending[r].extra["landing_image"]
        BY <3>1, <3>2 DEF Document, Conditional
      <3>7. OwnLanding(r)'
        BY <3>2, <3>3, <3>6 DEF Own, OwnLanding, HasCapture
      <3> QED
        BY <3>4, <3>5, <3>7 DEF Own
    <2> QED
      BY <2>1, <2>2, <2>3, <2>4, <2>5, DeliveredUntouched, OthersUntouched DEF IInv
  <1>5. ASSUME NEW r \in Requests, UploadThumbFails(r) PROVE IInv'
    <2>1. pc[r] # "done" /\ spool' = spool /\ record' = record
      BY <1>5 DEF UploadThumbFails
    <2>2. \A q \in Requests \ {r} : pc'[q] = pc[q] /\ pending'[q] = pending[q]
      BY <1>5 DEF UploadThumbFails, TypeOK
    <2>3. /\ \A x \in Exts : objects[x] # None => objects'[x] # None
          /\ thumb # None => thumb' # None
          /\ objects' \in [Exts -> Owner] /\ thumb' \in Owner
      BY <1>5, NoneAssumption DEF UploadThumbFails, TypeOK, Owner, IInv
    <2>4. TypeOK'
      BY <1>5, <2>3 DEF UploadThumbFails, TypeOK
    <2>5. Own(r)'
      <3>1. Own(r) /\ pending[r].capture = "r2" /\ pc'[r] = "persist"
        BY <1>5 DEF IInv, Own, OwnDocument, UploadThumbFails, TypeOK
      <3>2. OwnDocument(r)'
        BY <1>5, <3>1 DEF UploadThumbFails, Own, OwnDocument
      <3>3. OwnCapture(r)'
        BY <1>5, <2>3, <3>1 DEF UploadThumbFails, Own, OwnCapture, CapOK, ObjectKey
      <3>4. OwnLanding(r)'
        BY <1>5, <3>1 DEF UploadThumbFails, Own, OwnLanding
      <3> QED
        BY <3>2, <3>3, <3>4 DEF Own
    <2> QED
      BY <2>1, <2>2, <2>3, <2>4, <2>5, DeliveredUntouched, OthersUntouched DEF IInv
  <1>6. ASSUME NEW r \in Requests, Persist(r) PROVE IInv'
    <2>1. /\ pc[r] = "persist" /\ pc' = [pc EXCEPT ![r] = "done"]
          /\ UNCHANGED <<pending, objects, thumb, crashes>>
      BY <1>6 DEF Persist
    <2>2. /\ pending[r] \in Document /\ record \in Document
          /\ pending[r].by = r /\ pending[r].extra \in [Conditional -> {r, None}]
      BY <2>1 DEF TypeOK, IInv, Own, OwnDocument
    <2>3. record' \in {record, Set(record, pending[r])}
      BY <1>6 DEF Persist
    <2>4. spool' \in {spool, spool \cup {pending[r]}}
      BY <1>6 DEF Persist
    <2>5. TypeOK'
      BY <2>1, <2>2, <2>3, <2>4, SetDocument DEF TypeOK
    <2>6. \A q \in Requests : Own(q)'
      <3> SUFFICES ASSUME NEW q \in Requests PROVE Own(q)'
        OBVIOUS
      <3>1. Own(q)
        BY DEF IInv
      <3>2. pc'[q] = IF q = r THEN "done" ELSE pc[q]
        BY <2>1 DEF TypeOK
      <3>3. OwnDocument(q)'
        BY <2>1, <3>1, <3>2 DEF Own, OwnDocument
      <3>4. OwnCapture(q)'
        BY <2>1, <3>1, <3>2 DEF Own, OwnCapture, CapOK, ObjectKey, TypeOK
      <3>5. OwnLanding(q)'
        BY <2>1, <3>1, <3>2 DEF Own, OwnLanding
      <3> QED
        BY <3>3, <3>4, <3>5 DEF Own
    <2>7. \A q \in Requests : pc[q] = "done" => pc'[q] = "done"
      BY <2>1 DEF TypeOK
    <2>8. SpoolInv'
      BY <2>1, <2>2, <2>4, <2>7 DEF SpoolInv, Delivered, TypeOK
    <2>9. CASE record' = Set(record, pending[r])
      <3>1. pc'[r] = "done" /\ pending' = pending
        BY <2>1 DEF TypeOK
      <3>2. RecordInv' /\ FieldInv'
        BY <2>2, <2>7, <2>9, <3>1, Delivery
      <3> QED
        BY <2>5, <2>6, <2>8, <3>2 DEF IInv
    <2>10. CASE record' = record
      <3>1. RecordInv' /\ FieldInv'
        BY <2>1, <2>2, <2>7, <2>10 DEF RecordInv, FieldInv, Document, Owner, TypeOK
      <3> QED
        BY <2>5, <2>6, <2>8, <3>1 DEF IInv
    <2> QED
      BY <2>3, <2>9, <2>10
  <1>7. ASSUME NEW d \in spool, Replay(d) PROVE IInv'
    <2>1. /\ record' = Set(record, d) /\ spool' \in SUBSET spool
          /\ UNCHANGED <<pc, pending, objects, thumb, crashes>>
      BY <1>7 DEF Replay
    <2>2. /\ d \in Document /\ d.by \in Requests
          /\ pc[d.by] = "done" /\ d = pending[d.by]
      BY DEF SpoolInv, Delivered, TypeOK, IInv
    <2>3. PICK r \in Requests : pc[r] = "done" /\ d = pending[r]
      BY <2>2
    <2>4. pending[r].by = r /\ pending[r].extra \in [Conditional -> {r, None}]
      BY <2>3 DEF IInv, Own, OwnDocument
    <2>5. RecordInv' /\ FieldInv'
      BY <2>1, <2>3, <2>4, Delivery
    <2>6. TypeOK'
      BY <2>1, <2>2, SetDocument DEF TypeOK
    <2>7. \A q \in Requests : Own(q)'
      BY <2>1, OthersUntouched
    <2>8. SpoolInv'
      BY <2>1 DEF SpoolInv, Delivered
    <2> QED
      BY <2>5, <2>6, <2>7, <2>8 DEF IInv
  <1>8. ASSUME Crash PROVE IInv'
    <2>1. /\ UNCHANGED <<pending, record, spool, objects, thumb>>
          /\ pc' = [r \in Requests |-> IF pc[r] \in {"upload", "thumb", "persist"}
                                       THEN "broken" ELSE pc[r]]
      BY <1>8 DEF Crash
    <2>2. TypeOK'
      <3>1. crashes' \in 0 .. MaxCrashes
        BY <1>8, BoundAssumption DEF Crash, TypeOK
      <3> QED
        BY <2>1, <3>1 DEF TypeOK
    <2>3. \A q \in Requests :
            /\ pc[q] = "done" <=> pc'[q] = "done"
            /\ pc[q] = "idle" <=> pc'[q] = "idle"
            /\ pc'[q] \notin {"upload", "thumb", "persist"}
      BY <2>1 DEF TypeOK
    <2>4. ASSUME NEW q \in Requests PROVE Own(q)'
      <3>1. OwnDocument(q)'
        BY <2>1, <2>3 DEF IInv, Own, OwnDocument
      <3>2. OwnCapture(q)' /\ OwnLanding(q)'
        BY <2>1, <2>3 DEF IInv, Own, OwnCapture, OwnLanding, CapOK, ObjectKey
      <3> QED
        BY <3>1, <3>2 DEF Own
    <2>5. SpoolInv'
      BY <2>1, <2>3 DEF SpoolInv, Delivered
    <2>6. RecordInv' /\ FieldInv'
      BY <2>1, <2>3, ZenonT(30) DEF RecordInv, FieldInv, TypeOK, Document, Owner
    <2> QED
      BY <2>2, <2>4, <2>5, <2>6 DEF IInv
  <1>9. ASSUME UNCHANGED vars PROVE IInv'
    <2>1. TypeOK' /\ SpoolInv' /\ RecordInv' /\ FieldInv'
      BY <1>9 DEF vars, TypeOK, SpoolInv, Delivered, RecordInv, FieldInv
    <2>2. \A q \in Requests : Own(q)'
      BY <1>9, OthersUntouched DEF vars
    <2> QED
      BY <2>1, <2>2 DEF IInv
  <1> QED
    BY <1>1, <1>2, <1>3, <1>4, <1>5, <1>6, <1>7, <1>8, <1>9 DEF Next, Handler

\* What the invariant says of documents that are stored or about to be.
LEMMA Consequences ==
  ASSUME IInv
  PROVE  /\ NoDanglingReference /\ AnonymityKept
         /\ NoInlineCapture /\ OwnLandingIsCapture
  <1>1. \A r \in Requests : Own(r) /\ (pending[r].by # None => pending[r].by = r)
    BY EmptyDocument DEF IInv, Own, OwnDocument
  <1>2. \A d \in spool : \E r \in Requests : pc[r] = "done" /\ d = pending[r] /\ d.by = r
    BY DEF IInv, SpoolInv, Delivered
  <1>3. record.by # None =>
          /\ record.by \in Requests /\ pc[record.by] = "done"
          /\ record.submitted_by = pending[record.by].submitted_by
          /\ record.capture = pending[record.by].capture
          /\ record.capture_hash = pending[record.by].capture_hash
    BY DEF IInv, RecordInv, TypeOK, Document, Owner
  <1>4. \A f \in Conditional : record.extra[f] # None =>
          /\ record.extra[f] \in Requests
          /\ pending[record.extra[f]].extra[f] # None
    BY DEF IInv, FieldInv, TypeOK, Document, Owner
  <1>5. record.by = None => record = NoDocument
    BY DEF IInv, FieldInv
  <1>6. NoDanglingReference
    <2>1. ASSUME NEW r \in Requests
          PROVE  /\ pending[r].capture = "r2" =>
                      CapOK(pending[r].by) /\ objects[ObjectKey(pending[r].by)] # None
                 /\ pending[r].extra["thumb"] # None => thumb # None
      <3>1. CASE pc[r] = "idle"
        BY <1>1, <3>1, EmptyDocument DEF Own, OwnDocument, Conditional
      <3>2. CASE pc[r] # "idle"
        BY <1>1, <3>2 DEF Own, OwnDocument, OwnCapture
      <3> QED
        BY <3>1, <3>2
    <2>2. /\ record.capture = "r2" =>
               CapOK(record.by) /\ objects[ObjectKey(record.by)] # None
          /\ record.extra["thumb"] # None => thumb # None
      <3>1. record.capture = "r2" => record.by # None
        BY <1>5, EmptyDocument
      <3>2. record.capture = "r2" =>
               CapOK(record.by) /\ objects[ObjectKey(record.by)] # None
        BY <1>1, <1>3, <3>1 DEF Own, OwnCapture
      <3>3. record.extra["thumb"] # None => thumb # None
        BY <1>1, <1>4 DEF Own, OwnCapture, Conditional
      <3> QED
        BY <3>2, <3>3
    <2> QED
      BY <1>2, <2>1, <2>2 DEF NoDanglingReference, Kept
  <1>7. AnonymityKept
    <2>1. \A r \in Requests : pending[r].by \in Anonymous => pending[r].submitted_by = None
      BY <1>1, EmptyDocument DEF Own, OwnDocument
    <2>2. record.by \in Anonymous => record.submitted_by = None
      BY <1>1, <1>3, <1>5, EmptyDocument DEF Own, OwnDocument
    <2> QED
      BY <1>2, <2>1, <2>2 DEF AnonymityKept, Kept
  <1>8. NoInlineCapture
    <2>1. \A d \in spool : Uploads /\ ~Fallback => d.capture # "inline"
      BY <1>1, <1>2 DEF Own, OwnCapture
    <2>2. Uploads /\ ~Fallback => record.capture # "inline"
      BY <1>1, <1>3, <1>5, EmptyDocument DEF Own, OwnCapture
    <2> QED
      BY <2>1, <2>2 DEF NoInlineCapture
  <1>9. OwnLandingIsCapture
    <2>1. ASSUME NEW d \in spool, d.by # None, d.extra["landing_image"] = d.by
          PROVE  HasCapture(d) /\ d.capture_hash = d.by /\ d.by \in Landing
      BY <1>1, <1>2, <2>1 DEF Own, OwnLanding
    <2>2. ASSUME record.by # None, record.extra["landing_image"] = record.by
          PROVE  HasCapture(record) /\ record.capture_hash = record.by /\ record.by \in Landing
      <3>1. record.by \in Requests /\ pending[record.by].extra["landing_image"] # None
        BY <1>3, <1>4, <2>2 DEF Conditional
      <3> QED
        BY <1>1, <1>3, <2>2, <3>1 DEF Own, OwnLanding, HasCapture
    <2> QED
      BY <2>1, <2>2 DEF OwnLandingIsCapture
  <1> QED
    BY <1>6, <1>7, <1>8, <1>9

LEMMA Invariance == Spec => []IInv
  BY Initially, Inductive, PTL DEF Spec

----------------------------------------------------------------------------
\* The record's state keeps its types: documents, objects and handlers.
THEOREM TypeCorrect == Spec => []TypeOK
  <1>1. IInv => TypeOK
    BY DEF IInv
  <1> QED
    BY <1>1, Invariance, PTL

\* For any submissions, failures and crashes, uploadCaptures and persist leave
\* no stored, spooled or pending document with a reference to a missing object.
THEOREM NothingDangles == Spec => []NoDanglingReference
  BY Invariance, Consequences, PTL

\* buildEntry's sentinel is all that is ever written of an anonymous client.
THEOREM AnonymousStaysAnonymous == Spec => []AnonymityKept
  BY Invariance, Consequences, PTL

\* Without the MongoDB fallback no image reaches MongoDB or the spool, and a
\* landing image that is the record's own is of a capture it has.
THEOREM CapturesHonest == Spec => []CaptureHonest
  <1>1. IInv => CaptureHonest
    BY Consequences DEF CaptureHonest
  <1> QED
    BY <1>1, Invariance, PTL
=============================================================================
