--------------------------- MODULE CorpusIngestion ---------------------------
(***************************************************************************)
(* Writing a document to the corpus (internal/rag/corpus/service.go).       *)
(*                                                                         *)
(* A call ingests one document: a member of a batch, with or without a      *)
(* checkpoint, or an adopted draft taken from an adoption event.  It is     *)
(* authorised, validated and sanitised, its text goes to the object store,  *)
(* and its row, chunk, index event and feedback go to the database in one   *)
(* transaction; when that fails the object is deleted again.  The object    *)
(* store and the database share no transaction, calls run concurrently, a   *)
(* batch may be sent again, and the process may stop between two steps.     *)
(*                                                                         *)
(* The stores are interfaces in the code: they are modelled by what the     *)
(* calls assume of them and by the primary key of corpus_documents.         *)
(***************************************************************************)
EXTENDS Naturals, FiniteSets

CONSTANTS
    Calls,      \* runs of IngestOne, of a batch's loop body, or of Consume
    Docs,       \* document ids
    Keys,       \* object keys
    AdoptionKey,\* the key the consumer derives from an adopted document's id
    NoCall      \* an object that is not there, a document that is not stored

ASSUME AdoptionKeyAssumption == AdoptionKey \in [Docs -> Keys]
ASSUME SomethingAssumption == Docs # {} /\ Keys # {}
ASSUME NoCallAssumption == NoCall \notin Calls

VARIABLES
    pc,         \* how far each call has come
    request,    \* what it was asked: its kind, its document, its object key
    status,     \* what it answers
    wrote,      \* it has written its object
    stranded,   \* it answers a failure and leaves its object behind
    unanswered, \* its row was stored, but the answer to the commit was lost
    objects,    \* the object store: which call wrote the object under a key
    documents,  \* corpus_documents: the key of a document and who stored it
    checkpoint  \* the documents the batch's checkpoint holds as succeeded

vars == <<pc, request, status, wrote, stranded, unanswered, objects, documents,
          checkpoint>>

stores == <<objects, documents, checkpoint>>

Kinds == {"plain", "checkpointed", "adoption"}

Requests == [kind : Kinds, doc : Docs, key : Keys]

Rows == [key : Keys, by : Calls \cup {NoCall}]

Places == {"idle", "checking", "validating", "putting", "saving",
           "compensating", "recording", "done", "crashed"}

(* IngestStatus *)
Results == {"none", "success", "unauthorized", "rejected", "ignored",
            "skipped", "desensitization_failed", "store_failed"}

Stored(d) == documents[d].by # NoCall

TypeOK ==
    /\ pc \in [Calls -> Places]
    /\ request \in [Calls -> Requests]
    /\ status \in [Calls -> Results]
    /\ wrote \in [Calls -> BOOLEAN]
    /\ stranded \in [Calls -> BOOLEAN]
    /\ unanswered \in [Calls -> BOOLEAN]
    /\ objects \in [Keys -> Calls \cup {NoCall}]
    /\ documents \in [Docs -> Rows]
    /\ checkpoint \subseteq Docs

Init ==
    /\ pc = [c \in Calls |-> "idle"]
    /\ request = [c \in Calls |-> CHOOSE r \in Requests : TRUE]
    /\ status = [c \in Calls |-> "none"]
    /\ wrote = [c \in Calls |-> FALSE]
    /\ stranded = [c \in Calls |-> FALSE]
    /\ unanswered = [c \in Calls |-> FALSE]
    /\ objects = [k \in Keys |-> NoCall]
    /\ documents = [d \in Docs |-> CHOOSE r \in Rows : r.by = NoCall]
    /\ checkpoint = {}

Goto(c, place) == pc' = [pc EXCEPT ![c] = place]

Result(c, result) == status' = [status EXCEPT ![c] = result]

(* The result of IngestOne goes to the caller, or first to the checkpoint. *)
Answer(c, result) ==
    /\ Result(c, result)
    /\ Goto(c, IF request[c].kind = "checkpointed" THEN "recording" ELSE "done")

-----------------------------------------------------------------------------
(* BatchIngest and IngestOne: the key of the object is the caller's.  A     *)
(* batch that is sent again makes another call with the same document.      *)
AskPlain(c, d, k) ==
    /\ pc[c] = "idle"
    /\ request' = [request EXCEPT ![c] =
           [kind |-> "plain", doc |-> d, key |-> k]]
    /\ Goto(c, "validating")
    /\ UNCHANGED <<status, wrote, stranded, unanswered, stores>>

AskCheckpointed(c, d, k) ==
    /\ pc[c] = "idle"
    /\ request' = [request EXCEPT ![c] =
           [kind |-> "checkpointed", doc |-> d, key |-> k]]
    /\ Goto(c, "checking")
    /\ UNCHANGED <<status, wrote, stranded, unanswered, stores>>

(* Consume reads the adopted text under the key the event names, then       *)
(* ingests it under a key of its own.  An event of another type or with a   *)
(* decision that does not count as an adoption is ignored, a malformed      *)
(* payload is rejected, a missing source fails, all without touching a      *)
(* store; IngestAdoptionFeedback is not authorised.                         *)
ConsumeAdoption(c, d) ==
    /\ pc[c] = "idle"
    /\ request' = [request EXCEPT ![c] =
           [kind |-> "adoption", doc |-> d, key |-> AdoptionKey[d]]]
    /\ \/ Goto(c, "validating") /\ UNCHANGED status
       \/ /\ Goto(c, "done")
          /\ \E refusal \in {"ignored", "rejected", "store_failed"} :
                 Result(c, refusal)
    /\ UNCHANGED <<wrote, stranded, unanswered, stores>>

(* BatchIngestWithCheckpoint asks whether the document is already in: a     *)
(* failing checkpoint ends this document, not the batch.                    *)
CheckpointLookup(c) ==
    /\ pc[c] = "checking"
    /\ \/ /\ request[c].doc \in checkpoint
          /\ Result(c, "skipped") /\ Goto(c, "done")
       \/ /\ request[c].doc \notin checkpoint
          /\ Goto(c, "validating") /\ UNCHANGED status
       \/ Result(c, "store_failed") /\ Goto(c, "done")
    /\ UNCHANGED <<request, wrote, stranded, unanswered, stores>>

(* Authorisation, the two labels, the sanitiser: any of them ends the call  *)
(* before a store is touched.                                               *)
Validate(c) ==
    /\ pc[c] = "validating"
    /\ \/ Goto(c, "putting") /\ UNCHANGED status
       \/ request[c].kind # "adoption" /\ Answer(c, "unauthorized")
       \/ Answer(c, "rejected")
       \/ Answer(c, "desensitization_failed")
    /\ UNCHANGED <<request, wrote, stranded, unanswered, stores>>

(* PutOriginal overwrites what is under the key.  A failure is answered at  *)
(* once and nothing is undone, even if only the answer was lost and the     *)
(* object is there.                                                         *)
WriteObject(c) ==
    /\ objects' = [objects EXCEPT ![request[c].key] = c]
    /\ wrote' = [wrote EXCEPT ![c] = TRUE]

PutOriginal(c) ==
    /\ pc[c] = "putting"
    /\ \/ WriteObject(c) /\ Goto(c, "saving") /\ UNCHANGED <<status, stranded>>
       \/ Answer(c, "store_failed") /\ UNCHANGED <<objects, wrote, stranded>>
       \/ /\ WriteObject(c)
          /\ Answer(c, "store_failed")
          /\ stranded' = [stranded EXCEPT ![c] = TRUE]
    /\ UNCHANGED <<request, unanswered, documents, checkpoint>>

AddRow(c) ==
    /\ ~Stored(request[c].doc)
    /\ documents' = [documents EXCEPT ![request[c].doc] =
           [key |-> request[c].key, by |-> c]]

Store(c) == AddRow(c) /\ Answer(c, "success")

(* A plausible slip: the row first, the object after it. *)
SaveBeforePut(c) ==
    /\ pc[c] \in {"putting", "saving"}
    /\ Store(c)
    /\ UNCHANGED <<request, wrote, stranded, unanswered, objects, checkpoint>>

(* A plausible slip: a failed transaction is answered and nothing undone. *)
SaveWithoutUndo(c) ==
    /\ pc[c] = "saving"
    /\ Store(c) \/ (Answer(c, "store_failed") /\ UNCHANGED documents)
    /\ UNCHANGED <<request, wrote, stranded, unanswered, objects, checkpoint>>

(* SaveDocument: row, chunk, index event and feedback, all or nothing.  A   *)
(* document id that is already stored is refused by the primary key.  An    *)
(* error does not say that nothing was stored: the commit may have been     *)
(* made and its answer lost.                                                *)
SaveDocument(c) ==
    /\ pc[c] = "saving"
    /\ \/ Store(c) /\ UNCHANGED unanswered
       \/ /\ Goto(c, "compensating")
          /\ UNCHANGED <<status, documents, unanswered>>
       \/ /\ AddRow(c)
          /\ unanswered' = [unanswered EXCEPT ![c] = TRUE]
          /\ Goto(c, "compensating") /\ UNCHANGED status
    /\ UNCHANGED <<request, wrote, stranded, objects, checkpoint>>

(* compensateObjectWrite deletes whatever is under the key by now, or fails *)
(* and says so; the call fails either way.                                  *)
CompensateObjectWrite(c) ==
    /\ pc[c] = "compensating"
    /\ Answer(c, "store_failed")
    /\ \/ /\ objects' = [objects EXCEPT ![request[c].key] = NoCall]
          /\ UNCHANGED stranded
       \/ /\ stranded' = [stranded EXCEPT ![c] = TRUE]
          /\ UNCHANGED objects
    /\ UNCHANGED <<request, wrote, unanswered, documents, checkpoint>>

(* RecordResult: when the checkpoint cannot be written the document is      *)
(* answered as failed, although it may be stored.                           *)
RecordResult(c) ==
    /\ pc[c] = "recording"
    /\ Goto(c, "done")
    /\ \/ /\ checkpoint' = IF status[c] = "success"
                             THEN checkpoint \cup {request[c].doc}
                             ELSE checkpoint
          /\ UNCHANGED status
       \/ Result(c, "store_failed") /\ UNCHANGED checkpoint
    /\ UNCHANGED <<request, wrote, stranded, unanswered, objects, documents>>

(* The process stops between two steps: what the stores hold stays. *)
Crash(c) ==
    /\ pc[c] \notin {"idle", "done", "crashed"}
    /\ Goto(c, "crashed")
    /\ UNCHANGED <<request, status, wrote, stranded, unanswered, stores>>

Step(c) ==
    \/ \E d \in Docs, k \in Keys : AskPlain(c, d, k)
    \/ \E d \in Docs, k \in Keys : AskCheckpointed(c, d, k)
    \/ \E d \in Docs : ConsumeAdoption(c, d)
    \/ CheckpointLookup(c)
    \/ Validate(c)
    \/ PutOriginal(c)
    \/ SaveDocument(c)
    \/ CompensateObjectWrite(c)
    \/ RecordResult(c)
    \/ Crash(c)

Next == \E c \in Calls : Step(c)

Spec == Init /\ [][Next]_vars

-----------------------------------------------------------------------------
(* The original of a stored document is in the object store as its own call *)
(* wrote it, unless another call wrote to the same key (one that uses the   *)
(* key for another document, or the same document sent again because its    *)
(* checkpoint could not be written, or its adoption event delivered again)  *)
(* or the answer to its own commit was lost.  Only then can a compensation  *)
(* take a stored document's original away.                                  *)
SavedHasItsOriginal ==
    \A d \in Docs : Stored(d) =>
        \/ objects[documents[d].key] = documents[d].by
        \/ unanswered[documents[d].by]
        \/ \E c \in Calls \ {documents[d].by} :
               wrote[c] /\ request[c].key = documents[d].key

(* An object that belongs to no stored document is on its way in or out, or *)
(* was left by a crash, by a Put whose answer was lost, or by a             *)
(* compensation that failed; the last two were answered as a failure.       *)
OrphansAreExplained ==
    \A k \in Keys : objects[k] # NoCall =>
        \/ \E d \in Docs : documents[d].by = objects[k]
        \/ pc[objects[k]] \in {"saving", "compensating", "crashed"}
        \/ stranded[objects[k]] /\ status[objects[k]] = "store_failed"

=============================================================================
