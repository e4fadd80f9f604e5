----------------------------- MODULE Documents -----------------------------
(***************************************************************************)
(* Uploaded documents of the logistics platform (POC): DocumentsService,   *)
(* which stores a document, links it to its shipment and queues its        *)
(* processing, each by a command of its own that may fail.  The            *)
(* invalidation of the shipment's cached copy, whose commands Shipments    *)
(* models, is one step here.                                               *)
(***************************************************************************)
EXTENDS Jobs

CONSTANT
  Doc  \* uploads, each of one file, and the documents they make

ASSUME DocAssumption == Doc \subseteq Job

VARIABLES
  upload,  \* where save is suspended
  stored,  \* the documents in MongoDB
  target,  \* the shipmentId of an upload: none, a shipment's, or nobody's
  listed   \* the documents in Shipment.documents

documentVars == <<upload, stored, target, listed>>

DocumentsTypeOK ==
  /\ upload \in [Doc -> {"new", "storing", "attaching", "invalidating", "queueing",
                         "answering", "answered", "failed"}]
  /\ stored \subseteq Doc
  /\ target \in [Doc -> {"none", "shipment", "nobody"}]
  /\ listed \subseteq Doc

DocumentsInit ==
  /\ upload = [d \in Doc |-> "new"]
  /\ stored = {}
  /\ target \in [Doc -> {"none", "shipment", "nobody"}]
  /\ listed = {}

Go(d, from, to) == upload[d] = from /\ upload' = [upload EXCEPT ![d] = to]

\* The file has been received and passes ParseFilePipe.
Upload(d) == Go(d, "new", "storing") /\ UNCHANGED <<stored, target, listed, jobVars>>

DbStore(d) ==
  /\ Go(d, "storing", IF target[d] = "none" THEN "queueing" ELSE "attaching")
  /\ stored' = stored \cup {d}
  /\ UNCHANGED <<target, listed, jobVars>>

\* Variant: the link to the shipment is not awaited, and fails unnoticed.
DbAttachUnawaited(d) ==
  /\ Go(d, "attaching", "queueing")
  /\ listed' \in {listed, listed \cup {d}}
  /\ UNCHANGED <<stored, target, jobVars>>

\* attachDocument: $push, which finds nothing to update when the id is nobody's.
DbAttach(d) ==
  /\ Go(d, "attaching", "invalidating")
  /\ listed' = IF target[d] = "shipment" THEN listed \cup {d} ELSE listed
  /\ UNCHANGED <<stored, target, jobVars>>

InvalidateCopy(d) ==
  /\ Go(d, "invalidating", "queueing")
  /\ UNCHANGED <<stored, target, listed, jobVars>>

EnqueueProcessing(d) ==
  /\ Go(d, "queueing", "answering")
  /\ Add(d)
  /\ UNCHANGED <<stored, target, listed>>

AnswerUpload(d) == Go(d, "answering", "answered") /\ UNCHANGED <<stored, target, listed, jobVars>>

\* A command fails, or its answer is lost: what was done before stays done.
FailUpload(d) ==
  /\ upload[d] \notin {"new", "answered", "failed"}
  /\ upload' = [upload EXCEPT ![d] = "failed"]
  /\ UNCHANGED <<stored, target, listed, jobVars>>

DocumentsNext ==
  \E d \in Doc :
    \/ Upload(d) \/ DbStore(d) \/ DbAttach(d) \/ InvalidateCopy(d)
    \/ EnqueueProcessing(d) \/ AnswerUpload(d) \/ FailUpload(d)
    \/ JobStep(d) /\ UNCHANGED documentVars

----------------------------------------------------------------------------
(* Properties *)

\* Whoever is told that an upload succeeded finds it done: the document is
\* stored, the shipment it names lists it, and its processing is done, under
\* way, or was given up after more faults than the queue withstands.
UploadIsWhole ==
  \A d \in Doc : upload[d] = "answered" =>
    /\ d \in stored
    /\ target[d] = "shipment" => d \in listed
    /\ done[d] \/ Owed(d) \/ Faults[d] > Tolerated
=============================================================================
