------------------------ MODULE CorpusIngestionProofs ------------------------
(* Theorems about CorpusIngestion, for any calls, documents, keys and any    *)
(* assignment of keys to adopted documents.                                  *)
EXTENDS CorpusIngestion, TLAPS

USE SomethingAssumption, NoCallAssumption, AdoptionKeyAssumption

-----------------------------------------------------------------------------
(* Type correctness. *)

(* Moving on and answering keep places and results in their types. *)
LEMMA Typed ==
    ASSUME TypeOK, NEW c \in Calls
    PROVE  /\ \A place \in Places : Goto(c, place) => pc' \in [Calls -> Places]
           /\ \A r \in Results : Result(c, r) => status' \in [Calls -> Results]
           /\ \A r \in Results : Answer(c, r) =>
                  pc' \in [Calls -> Places] /\ status' \in [Calls -> Results]
           /\ {"validating", "checking", "putting", "saving", "compensating",
               "done", "crashed"} \subseteq Places
           /\ {"success", "skipped", "ignored", "rejected", "unauthorized",
               "desensitization_failed", "store_failed"} \subseteq Results
<1>1. \A place \in Places : Goto(c, place) => pc' \in [Calls -> Places]
  BY DEF TypeOK, Goto
<1>2. \A r \in Results : Result(c, r) => status' \in [Calls -> Results]
  BY DEF TypeOK, Result
<1>3. {"recording", "done"} \subseteq Places
  BY DEF Places
<1> QED
  BY <1>1, <1>2, <1>3 DEF Answer, Places, Results

LEMMA TypeInit ==
    ASSUME Init
    PROVE  TypeOK /\ \A d \in Docs : ~Stored(d)
<1>1. (CHOOSE r \in Requests : TRUE) \in Requests
  <2>1. PICK d \in Docs, k \in Keys : TRUE
    OBVIOUS
  <2>2. [kind |-> "plain", doc |-> d, key |-> k] \in Requests
    BY DEF Requests, Kinds
  <2> QED
    BY <2>2
<1>2. /\ (CHOOSE r \in Rows : r.by = NoCall) \in Rows
      /\ (CHOOSE r \in Rows : r.by = NoCall).by = NoCall
  <2>1. PICK k \in Keys : TRUE
    OBVIOUS
  <2>2. /\ [key |-> k, by |-> NoCall] \in Rows
        /\ [key |-> k, by |-> NoCall].by = NoCall
    BY DEF Rows
  <2> QED
    BY <2>2
<1> QED
  BY <1>1, <1>2 DEF Init, TypeOK, Places, Results, Stored

LEMMA TypeStep ==
    ASSUME TypeOK, [Next]_vars
    PROVE  TypeOK'
<1> USE DEF TypeOK, Rows, stores
<1>1. ASSUME NEW c \in Calls, NEW d \in Docs, NEW k \in Keys, AskPlain(c, d, k)
     PROVE  TypeOK'
  BY <1>1, Typed DEF AskPlain, Requests, Kinds
<1>2. ASSUME NEW c \in Calls, NEW d \in Docs, NEW k \in Keys, AskCheckpointed(c, d, k)
     PROVE  TypeOK'
  BY <1>2, Typed DEF AskCheckpointed, Requests, Kinds
<1>3. ASSUME NEW c \in Calls, NEW d \in Docs, ConsumeAdoption(c, d)
     PROVE  TypeOK'
  BY <1>3, Typed DEF ConsumeAdoption, Requests, Kinds
<1>4. ASSUME NEW c \in Calls, CheckpointLookup(c)
     PROVE  TypeOK'
  BY <1>4, Typed DEF CheckpointLookup
<1>5. ASSUME NEW c \in Calls, Validate(c)
     PROVE  TypeOK'
  <2>1. CASE Goto(c, "putting") /\ UNCHANGED status
    BY <1>5, <2>1, Typed DEF Validate
  <2>2. CASE \E r \in Results : Answer(c, r)
    BY <1>5, <2>2, Typed DEF Validate
  <2> QED
    BY <1>5, <2>1, <2>2 DEF Validate, Results
<1>6. ASSUME NEW c \in Calls, PutOriginal(c)
     PROVE  TypeOK'
  <2>1. CASE WriteObject(c) /\ Goto(c, "saving") /\ UNCHANGED <<status, stranded>>
    BY <1>6, <2>1, Typed DEF PutOriginal, WriteObject, Requests
  <2>2. CASE Answer(c, "store_failed") /\ UNCHANGED <<objects, wrote, stranded>>
    BY <1>6, <2>2, Typed DEF PutOriginal
  <2>3. CASE /\ WriteObject(c) /\ Answer(c, "store_failed")
             /\ stranded' = [stranded EXCEPT ![c] = TRUE]
    BY <1>6, <2>3, Typed DEF PutOriginal, WriteObject, Requests
  <2> QED
    BY <1>6, <2>1, <2>2, <2>3 DEF PutOriginal
<1>7. ASSUME NEW c \in Calls, SaveDocument(c)
     PROVE  TypeOK'
  <2>1. CASE Store(c) /\ UNCHANGED unanswered
    BY <1>7, <2>1, Typed DEF SaveDocument, Store, AddRow, Requests
  <2>2. CASE Goto(c, "compensating") /\ UNCHANGED <<status, documents, unanswered>>
    BY <1>7, <2>2, Typed DEF SaveDocument
  <2>3. CASE /\ AddRow(c)
             /\ unanswered' = [unanswered EXCEPT ![c] = TRUE]
             /\ Goto(c, "compensating") /\ UNCHANGED status
    BY <1>7, <2>3, Typed DEF SaveDocument, AddRow, Requests
  <2> QED
    BY <1>7, <2>1, <2>2, <2>3 DEF SaveDocument
<1>8. ASSUME NEW c \in Calls, CompensateObjectWrite(c)
     PROVE  TypeOK'
  BY <1>8, Typed DEF CompensateObjectWrite, Requests
<1>9. ASSUME NEW c \in Calls, RecordResult(c)
     PROVE  TypeOK'
  <2>1. checkpoint' \subseteq Docs
    BY <1>9 DEF RecordResult, Requests
  <2> QED
    BY <1>9, <2>1, Typed DEF RecordResult
<1>10. ASSUME NEW c \in Calls, Crash(c)
     PROVE  TypeOK'
  BY <1>10, Typed DEF Crash
<1>11. CASE UNCHANGED vars
  BY <1>11 DEF vars
<1> QED
  BY <1>1, <1>2, <1>3, <1>4, <1>5, <1>6, <1>7, <1>8, <1>9, <1>10, <1>11 DEF Next, Step

(* Every step of an ingestion keeps the stores and the calls' records in    *)
(* their types: an object and a row always name a call.                     *)
THEOREM TypeCorrect == Spec => []TypeOK
BY TypeInit, TypeStep, PTL DEF Spec

-----------------------------------------------------------------------------
(* What a step cannot undo. *)

(* A call has written its object only after it was asked and validated, and *)
(* has no answer before it was asked.                                       *)
NothingTooEarly ==
    \A c \in Calls :
        /\ pc[c] \in {"idle", "checking", "validating", "putting"} => ~wrote[c]
        /\ pc[c] = "idle" => status[c] = "none"

(* Once a call has written, neither that nor its request changes, and a row *)
(* stays as it was stored.                                                  *)
LEMMA WritesStay ==
    ASSUME TypeOK, NothingTooEarly, [Next]_vars
    PROVE  /\ \A c \in Calls : wrote[c] => wrote'[c] /\ request'[c] = request[c]
           /\ \A d \in Docs : Stored(d) => documents'[d] = documents[d]
<1>1. \A c \in Calls : wrote[c] => wrote'[c] /\ request'[c] = request[c]
  <2> USE DEF TypeOK, NothingTooEarly, stores
<2>1. ASSUME NEW c \in Calls, NEW d \in Docs, NEW k \in Keys, AskPlain(c, d, k)
     PROVE  \A o \in Calls : wrote[o] => wrote'[o] /\ request'[o] = request[o]
  BY <2>1 DEF AskPlain, Goto
<2>2. ASSUME NEW c \in Calls, NEW d \in Docs, NEW k \in Keys, AskCheckpointed(c, d, k)
     PROVE  \A o \in Calls : wrote[o] => wrote'[o] /\ request'[o] = request[o]
  BY <2>2 DEF AskCheckpointed, Goto
<2>3. ASSUME NEW c \in Calls, NEW d \in Docs, ConsumeAdoption(c, d)
     PROVE  \A o \in Calls : wrote[o] => wrote'[o] /\ request'[o] = request[o]
  BY <2>3 DEF ConsumeAdoption, Goto, Result
<2>4. ASSUME NEW c \in Calls, CheckpointLookup(c)
     PROVE  \A o \in Calls : wrote[o] => wrote'[o] /\ request'[o] = request[o]
  BY <2>4 DEF CheckpointLookup, Goto, Result
<2>5. ASSUME NEW c \in Calls, Validate(c)
     PROVE  \A o \in Calls : wrote[o] => wrote'[o] /\ request'[o] = request[o]
  BY <2>5 DEF Validate, Answer, Goto, Result
<2>6. ASSUME NEW c \in Calls, PutOriginal(c)
     PROVE  \A o \in Calls : wrote[o] => wrote'[o] /\ request'[o] = request[o]
  BY <2>6 DEF PutOriginal, WriteObject, Answer, Goto, Result
<2>7. ASSUME NEW c \in Calls, SaveDocument(c)
     PROVE  \A o \in Calls : wrote[o] => wrote'[o] /\ request'[o] = request[o]
  BY <2>7 DEF SaveDocument, Store, AddRow, Answer, Goto, Result
<2>8. ASSUME NEW c \in Calls, CompensateObjectWrite(c)
     PROVE  \A o \in Calls : wrote[o] => wrote'[o] /\ request'[o] = request[o]
  BY <2>8 DEF CompensateObjectWrite, Answer, Goto, Result
<2>9. ASSUME NEW c \in Calls, RecordResult(c)
     PROVE  \A o \in Calls : wrote[o] => wrote'[o] /\ request'[o] = request[o]
  BY <2>9 DEF RecordResult, Goto, Result
<2>10. ASSUME NEW c \in Calls, Crash(c)
     PROVE  \A o \in Calls : wrote[o] => wrote'[o] /\ request'[o] = request[o]
  BY <2>10 DEF Crash, Goto
<2>11. CASE UNCHANGED vars
  BY <2>11 DEF vars
<2> QED
  BY <2>1, <2>2, <2>3, <2>4, <2>5, <2>6, <2>7, <2>8, <2>9, <2>10, <2>11 DEF Next, Step
<1>2. \A d \in Docs : Stored(d) => documents'[d] = documents[d]
  <2> USE DEF TypeOK, Requests, stores, Stored
<2>1. ASSUME NEW c \in Calls, NEW d \in Docs, NEW k \in Keys, AskPlain(c, d, k)
     PROVE  \A e \in Docs : Stored(e) => documents'[e] = documents[e]
  BY <2>1 DEF AskPlain, Goto
<2>2. ASSUME NEW c \in Calls, NEW d \in Docs, NEW k \in Keys, AskCheckpointed(c, d, k)
     PROVE  \A e \in Docs : Stored(e) => documents'[e] = documents[e]
  BY <2>2 DEF AskCheckpointed, Goto
<2>3. ASSUME NEW c \in Calls, NEW d \in Docs, ConsumeAdoption(c, d)
     PROVE  \A e \in Docs : Stored(e) => documents'[e] = documents[e]
  BY <2>3 DEF ConsumeAdoption, Goto, Result
<2>4. ASSUME NEW c \in Calls, CheckpointLookup(c)
     PROVE  \A e \in Docs : Stored(e) => documents'[e] = documents[e]
  BY <2>4 DEF CheckpointLookup, Goto, Result
<2>5. ASSUME NEW c \in Calls, Validate(c)
     PROVE  \A e \in Docs : Stored(e) => documents'[e] = documents[e]
  BY <2>5 DEF Validate, Answer, Goto, Result
<2>6. ASSUME NEW c \in Calls, PutOriginal(c)
     PROVE  \A e \in Docs : Stored(e) => documents'[e] = documents[e]
  BY <2>6 DEF PutOriginal, WriteObject, Answer, Goto, Result
<2>7. ASSUME NEW c \in Calls, SaveDocument(c)
     PROVE  \A e \in Docs : Stored(e) => documents'[e] = documents[e]
  BY <2>7 DEF SaveDocument, Store, AddRow, Answer, Goto, Result
<2>8. ASSUME NEW c \in Calls, CompensateObjectWrite(c)
     PROVE  \A e \in Docs : Stored(e) => documents'[e] = documents[e]
  BY <2>8 DEF CompensateObjectWrite, Answer, Goto, Result
<2>9. ASSUME NEW c \in Calls, RecordResult(c)
     PROVE  \A e \in Docs : Stored(e) => documents'[e] = documents[e]
  BY <2>9 DEF RecordResult, Goto, Result
<2>10. ASSUME NEW c \in Calls, Crash(c)
     PROVE  \A e \in Docs : Stored(e) => documents'[e] = documents[e]
  BY <2>10 DEF Crash, Goto
<2>11. CASE UNCHANGED vars
  BY <2>11 DEF vars
<2> QED
  BY <2>1, <2>2, <2>3, <2>4, <2>5, <2>6, <2>7, <2>8, <2>9, <2>10, <2>11 DEF Next, Step
<1> QED
  BY <1>1, <1>2

LEMMA NothingTooEarlyStep ==
    ASSUME TypeOK, NothingTooEarly, [Next]_vars
    PROVE  NothingTooEarly'
<1> USE DEF TypeOK, NothingTooEarly, stores
<1>1. ASSUME NEW c \in Calls, NEW d \in Docs, NEW k \in Keys, AskPlain(c, d, k)
     PROVE  NothingTooEarly'
  BY <1>1 DEF AskPlain, Goto
<1>2. ASSUME NEW c \in Calls, NEW d \in Docs, NEW k \in Keys, AskCheckpointed(c, d, k)
     PROVE  NothingTooEarly'
  BY <1>2 DEF AskCheckpointed, Goto
<1>3. ASSUME NEW c \in Calls, NEW d \in Docs, ConsumeAdoption(c, d)
     PROVE  NothingTooEarly'
  BY <1>3 DEF ConsumeAdoption, Goto, Result
<1>4. ASSUME NEW c \in Calls, CheckpointLookup(c)
     PROVE  NothingTooEarly'
  BY <1>4 DEF CheckpointLookup, Goto, Result
<1>5. ASSUME NEW c \in Calls, Validate(c)
     PROVE  NothingTooEarly'
  BY <1>5 DEF Validate, Answer, Goto, Result
<1>6. ASSUME NEW c \in Calls, PutOriginal(c)
     PROVE  NothingTooEarly'
  BY <1>6 DEF PutOriginal, WriteObject, Answer, Goto, Result
<1>7. ASSUME NEW c \in Calls, SaveDocument(c)
     PROVE  NothingTooEarly'
  BY <1>7 DEF SaveDocument, Store, AddRow, Answer, Goto, Result
<1>8. ASSUME NEW c \in Calls, CompensateObjectWrite(c)
     PROVE  NothingTooEarly'
  BY <1>8 DEF CompensateObjectWrite, Answer, Goto, Result
<1>9. ASSUME NEW c \in Calls, RecordResult(c)
     PROVE  NothingTooEarly'
  BY <1>9 DEF RecordResult, Goto, Result
<1>10. ASSUME NEW c \in Calls, Crash(c)
     PROVE  NothingTooEarly'
  BY <1>10 DEF Crash, Goto
<1>11. CASE UNCHANGED vars
  BY <1>11 DEF vars
<1> QED
  BY <1>1, <1>2, <1>3, <1>4, <1>5, <1>6, <1>7, <1>8, <1>9, <1>10, <1>11 DEF Next, Step

-----------------------------------------------------------------------------
(* The original of a stored document. *)

(* An object is where the call that wrote it was asked to put it. *)
ObjectsAreWritten ==
    \A k \in Keys : objects[k] # NoCall =>
        wrote[objects[k]] /\ request[objects[k]].key = k

(* Another call than c has written to key k. *)
Disputed(c, k) == \E o \in Calls \ {c} : wrote[o] /\ request[o].key = k

(* The object under key k is what c wrote, unless the key is disputed. *)
Holds(c, k) == objects[k] = c \/ Disputed(c, k)

(* Between its two writes a call has its object. *)
SavingHolds ==
    \A c \in Calls : pc[c] = "saving" => wrote[c] /\ Holds(c, request[c].key)

CompensatingHasWritten ==
    \A c \in Calls : pc[c] = "compensating" => wrote[c]

(* A row has the key its call was given, and that call is past its writes,  *)
(* but for a call that does not know of its row.                            *)
RowsAreWritten ==
    \A d \in Docs : Stored(d) =>
        /\ documents[d].by \in Calls
        /\ wrote[documents[d].by]
        /\ request[documents[d].by].key = documents[d].key
        /\ \/ unanswered[documents[d].by]
           \/ pc[documents[d].by] \in {"recording", "done", "crashed"}

RowsHold ==
    \A d \in Docs : Stored(d) =>
        \/ unanswered[documents[d].by]
        \/ Holds(documents[d].by, documents[d].key)

LEMMA DisputeStays ==
    ASSUME TypeOK, NothingTooEarly, [Next]_vars, NEW c \in Calls, NEW k \in Keys,
           Disputed(c, k)
    PROVE  Disputed(c, k)'
BY WritesStay DEF Disputed

(* The Put of another call to the same key makes a dispute, and another     *)
(* call compensates only after its Put.                                     *)
LEMMA HoldsStays ==
    ASSUME TypeOK, NothingTooEarly, CompensatingHasWritten, [Next]_vars,
           NEW c \in Calls, NEW k \in Keys, Holds(c, k), pc[c] # "compensating"
    PROVE  Holds(c, k)'
<1>1. CASE Disputed(c, k)
  BY <1>1, DisputeStays DEF Holds
<1>2. CASE objects[k] = c
  <2>1. ASSUME NEW o \in Calls, PutOriginal(o)
        PROVE  Holds(c, k)'
    BY <2>1, <1>2
       DEF PutOriginal, WriteObject, Goto, Holds, Disputed, Answer, Result, TypeOK
  <2>2. ASSUME NEW o \in Calls, CompensateObjectWrite(o)
        PROVE  Holds(c, k)'
    <3>1. o # c /\ wrote[o] /\ wrote' = wrote /\ request' = request
      BY <2>2 DEF CompensateObjectWrite, CompensatingHasWritten
    <3>2. CASE request[o].key = k
      BY <3>1, <3>2 DEF Holds, Disputed
    <3>3. CASE request[o].key # k
      BY <2>2, <1>2, <3>3 DEF CompensateObjectWrite, Holds, TypeOK
    <3> QED
      BY <3>2, <3>3
  <2>3. CASE UNCHANGED objects
    BY <2>3, <1>2 DEF Holds
  <2> QED
    BY <2>1, <2>2, <2>3 DEF Next, Step, vars, stores, AskPlain, AskCheckpointed,
       ConsumeAdoption, CheckpointLookup, Validate, SaveDocument, RecordResult,
       Crash
<1> QED
  BY <1>1, <1>2 DEF Holds

LEMMA ObjectsAreWrittenStep ==
    ASSUME TypeOK, NothingTooEarly, ObjectsAreWritten, [Next]_vars
    PROVE  ObjectsAreWritten'
<1> USE DEF TypeOK, NothingTooEarly, ObjectsAreWritten, stores, Requests
<1>1. ASSUME NEW c \in Calls, NEW d \in Docs, NEW k \in Keys, AskPlain(c, d, k)
     PROVE  ObjectsAreWritten'
  BY <1>1 DEF AskPlain, Goto
<1>2. ASSUME NEW c \in Calls, NEW d \in Docs, NEW k \in Keys, AskCheckpointed(c, d, k)
     PROVE  ObjectsAreWritten'
  BY <1>2 DEF AskCheckpointed, Goto
<1>3. ASSUME NEW c \in Calls, NEW d \in Docs, ConsumeAdoption(c, d)
     PROVE  ObjectsAreWritten'
  BY <1>3 DEF ConsumeAdoption, Goto, Result
<1>4. ASSUME NEW c \in Calls, CheckpointLookup(c)
     PROVE  ObjectsAreWritten'
  BY <1>4 DEF CheckpointLookup, Goto, Result
<1>5. ASSUME NEW c \in Calls, Validate(c)
     PROVE  ObjectsAreWritten'
  BY <1>5 DEF Validate, Answer, Goto, Result
<1>6. ASSUME NEW c \in Calls, PutOriginal(c)
     PROVE  ObjectsAreWritten'
  BY <1>6 DEF PutOriginal, WriteObject, Answer, Goto, Result
<1>7. ASSUME NEW c \in Calls, SaveDocument(c)
     PROVE  ObjectsAreWritten'
  BY <1>7 DEF SaveDocument, Store, AddRow, Answer, Goto, Result
<1>8. ASSUME NEW c \in Calls, CompensateObjectWrite(c)
     PROVE  ObjectsAreWritten'
  BY <1>8 DEF CompensateObjectWrite, Answer, Goto, Result
<1>9. ASSUME NEW c \in Calls, RecordResult(c)
     PROVE  ObjectsAreWritten'
  BY <1>9 DEF RecordResult, Goto, Result
<1>10. ASSUME NEW c \in Calls, Crash(c)
     PROVE  ObjectsAreWritten'
  BY <1>10 DEF Crash, Goto
<1>11. CASE UNCHANGED vars
  BY <1>11 DEF vars
<1> QED
  BY <1>1, <1>2, <1>3, <1>4, <1>5, <1>6, <1>7, <1>8, <1>9, <1>10, <1>11 DEF Next, Step

(* How a call gets to its transaction and to its compensation, and that it  *)
(* never leaves its last places for an earlier one.                         *)
LEMMA PlacesStep ==
    ASSUME TypeOK, [Next]_vars
    PROVE  /\ \A s \in Calls : pc'[s] = "saving" =>
                  \/ pc[s] = "saving"
                  \/ /\ PutOriginal(s)
                     /\ objects' = [objects EXCEPT ![request[s].key] = s]
                     /\ wrote' = [wrote EXCEPT ![s] = TRUE]
           /\ \A s \in Calls : pc'[s] = "compensating" =>
                  pc[s] \in {"saving", "compensating"}
           /\ \A s \in Calls : pc[s] \in {"recording", "done", "crashed"} =>
                  pc'[s] \in {"recording", "done", "crashed"}
<1> USE DEF TypeOK, stores
<1> DEFINE Goal ==
      /\ \A s \in Calls : pc'[s] = "saving" =>
             \/ pc[s] = "saving"
             \/ /\ PutOriginal(s)
                /\ objects' = [objects EXCEPT ![request[s].key] = s]
                /\ wrote' = [wrote EXCEPT ![s] = TRUE]
      /\ \A s \in Calls : pc'[s] = "compensating" =>
             pc[s] \in {"saving", "compensating"}
      /\ \A s \in Calls : pc[s] \in {"recording", "done", "crashed"} =>
             pc'[s] \in {"recording", "done", "crashed"}
<1>1. ASSUME NEW c \in Calls, NEW d \in Docs, NEW k \in Keys, AskPlain(c, d, k)
     PROVE  Goal
  BY <1>1 DEF AskPlain, Goto
<1>2. ASSUME NEW c \in Calls, NEW d \in Docs, NEW k \in Keys, AskCheckpointed(c, d, k)
     PROVE  Goal
  BY <1>2 DEF AskCheckpointed, Goto
<1>3. ASSUME NEW c \in Calls, NEW d \in Docs, ConsumeAdoption(c, d)
     PROVE  Goal
  BY <1>3 DEF ConsumeAdoption, Goto, Result
<1>4. ASSUME NEW c \in Calls, CheckpointLookup(c)
     PROVE  Goal
  BY <1>4 DEF CheckpointLookup, Goto, Result
<1>5. ASSUME NEW c \in Calls, Validate(c)
     PROVE  Goal
  BY <1>5 DEF Validate, Answer, Goto, Result
<1>6. ASSUME NEW c \in Calls, PutOriginal(c)
     PROVE  Goal
  BY <1>6 DEF PutOriginal, WriteObject, Answer, Goto, Result
<1>7. ASSUME NEW c \in Calls, SaveDocument(c)
     PROVE  Goal
  BY <1>7 DEF SaveDocument, Store, AddRow, Answer, Goto, Result
<1>8. ASSUME NEW c \in Calls, CompensateObjectWrite(c)
     PROVE  Goal
  BY <1>8 DEF CompensateObjectWrite, Answer, Goto, Result
<1>9. ASSUME NEW c \in Calls, RecordResult(c)
     PROVE  Goal
  BY <1>9 DEF RecordResult, Goto, Result
<1>10. ASSUME NEW c \in Calls, Crash(c)
     PROVE  Goal
  BY <1>10 DEF Crash, Goto
<1>11. CASE UNCHANGED vars
  BY <1>11 DEF vars
<1> QED
  BY <1>1, <1>2, <1>3, <1>4, <1>5, <1>6, <1>7, <1>8, <1>9, <1>10, <1>11 DEF Next, Step

(* A row is added only by a call in its transaction, which then answers or  *)
(* does not know of it.                                                     *)
LEMMA RowsStep ==
    ASSUME TypeOK, [Next]_vars, NEW d \in Docs, Stored(d)', ~Stored(d)
    PROVE  \E c \in Calls :
               /\ pc[c] = "saving"
               /\ unanswered'[c] \/ pc'[c] \in {"recording", "done"}
               /\ documents'[d] = [key |-> request[c].key, by |-> c]
               /\ UNCHANGED <<request, wrote, objects>>
<1>1. PICK c \in Calls : SaveDocument(c) /\ AddRow(c)
  BY DEF Next, Step, vars, stores, AskPlain, AskCheckpointed, ConsumeAdoption,
     CheckpointLookup, Validate, PutOriginal, SaveDocument, CompensateObjectWrite,
     RecordResult, Crash, Stored, Store
<1>2. request[c].doc = d
  BY <1>1 DEF AddRow, Stored, TypeOK
<1>3. request[c].doc \in Docs
  BY DEF TypeOK, Requests
<1>4. documents'[d] = [key |-> request[c].key, by |-> c]
  BY <1>1, <1>2, <1>3 DEF AddRow, TypeOK
<1>5. unanswered'[c] \/ pc'[c] \in {"recording", "done"}
  <2>1. CASE Store(c)
    BY <2>1 DEF Store, Answer, Goto, TypeOK
  <2>2. CASE ~Store(c)
    <3>1. documents' # documents
      BY <1>2, <1>3, <1>4 DEF Stored
    <3> QED
      BY <1>1, <2>2, <3>1 DEF SaveDocument, TypeOK
  <2> QED
    BY <2>1, <2>2
<1> QED
  BY <1>1, <1>4, <1>5 DEF SaveDocument

LEMMA UnansweredStays ==
    ASSUME TypeOK, [Next]_vars
    PROVE  \A c \in Calls : unanswered[c] => unanswered'[c]
BY DEF TypeOK, Next, Step, vars, stores, AskPlain, AskCheckpointed, ConsumeAdoption,
   CheckpointLookup, Validate, PutOriginal, SaveDocument, CompensateObjectWrite,
   RecordResult, Crash

OriginalInv ==
    /\ TypeOK /\ NothingTooEarly /\ ObjectsAreWritten
    /\ SavingHolds /\ CompensatingHasWritten /\ RowsAreWritten /\ RowsHold

LEMMA SavingHoldsStep ==
    ASSUME OriginalInv, [Next]_vars
    PROVE  SavingHolds'
<1> USE DEF OriginalInv
<1> SUFFICES ASSUME NEW s \in Calls, pc'[s] = "saving"
             PROVE  /\ wrote'[s]
                    /\ \/ objects'[request'[s].key] = s
                       \/ \E o \in Calls \ {s} :
                              wrote'[o] /\ request'[o].key = request'[s].key
  BY DEF SavingHolds, Holds, Disputed
<1>1. PICK k \in Keys : k = request[s].key
  BY DEF TypeOK, Requests
<1>2. CASE pc[s] = "saving"
  <2>1. wrote[s] /\ Holds(s, k)
    BY <1>1, <1>2 DEF SavingHolds
  <2>2. Holds(s, k)'
    BY <1>2, <2>1, HoldsStays
  <2>3. wrote'[s] /\ request'[s] = request[s]
    BY <2>1, WritesStay
  <2> QED
    BY <1>1, <2>2, <2>3 DEF Holds, Disputed
<1>3. CASE /\ PutOriginal(s)
           /\ objects' = [objects EXCEPT ![request[s].key] = s]
           /\ wrote' = [wrote EXCEPT ![s] = TRUE]
  BY <1>1, <1>3 DEF Holds, TypeOK, PutOriginal
<1> QED
  BY <1>2, <1>3, PlacesStep

LEMMA CompensatingHasWrittenStep ==
    ASSUME OriginalInv, [Next]_vars
    PROVE  CompensatingHasWritten'
BY PlacesStep, WritesStay DEF OriginalInv, SavingHolds, CompensatingHasWritten

LEMMA RowsAreWrittenStep ==
    ASSUME OriginalInv, [Next]_vars
    PROVE  RowsAreWritten' /\ RowsHold'
<1> USE DEF OriginalInv
<1> SUFFICES ASSUME NEW d \in Docs, Stored(d)'
             PROVE  /\ documents'[d].by \in Calls
                    /\ wrote'[documents'[d].by]
                    /\ request'[documents'[d].by].key = documents'[d].key
                    /\ \/ unanswered'[documents'[d].by]
                       \/ pc'[documents'[d].by] \in {"recording", "done", "crashed"}
                    /\ \/ unanswered'[documents'[d].by]
                       \/ objects'[documents'[d].key] = documents'[d].by
                       \/ \E o \in Calls \ {documents'[d].by} :
                              wrote'[o] /\ request'[o].key = documents'[d].key
  BY DEF RowsAreWritten, RowsHold, Holds, Disputed, Stored
<1>1. CASE Stored(d)
  <2>1. PICK b \in Calls, k \in Keys : b = documents[d].by /\ k = documents[d].key
    BY <1>1 DEF RowsAreWritten, TypeOK, Rows
  <2>2. documents'[d].by = b /\ documents'[d].key = k
    BY <1>1, <2>1, WritesStay
  <2>3. wrote[b] /\ request[b].key = k
    BY <1>1, <2>1 DEF RowsAreWritten
  <2>4. wrote'[b] /\ request'[b].key = k
    BY <2>3, WritesStay
  <2>5. CASE unanswered[b]
    BY <2>2, <2>4, <2>5, UnansweredStays
  <2>6. CASE ~unanswered[b]
    <3>1. pc[b] \in {"recording", "done", "crashed"} /\ Holds(b, k)
      BY <1>1, <2>1, <2>6 DEF RowsAreWritten, RowsHold
    <3>2. pc'[b] \in {"recording", "done", "crashed"}
      BY <3>1, PlacesStep
    <3>3. Holds(b, k)'
      BY <3>1, HoldsStays
    <3> QED
      BY <2>2, <2>4, <3>2, <3>3 DEF Holds, Disputed
  <2> QED
    BY <2>5, <2>6
<1>2. CASE ~Stored(d)
  <2>1. PICK c \in Calls :
            /\ pc[c] = "saving"
            /\ unanswered'[c] \/ pc'[c] \in {"recording", "done"}
            /\ documents'[d] = [key |-> request[c].key, by |-> c]
            /\ UNCHANGED <<request, wrote, objects>>
    BY <1>2, RowsStep
  <2>2. wrote[c] /\ Holds(c, request[c].key)
    BY <2>1 DEF SavingHolds
  <2> QED
    BY <2>1, <2>2 DEF Holds, Disputed
<1> QED
  BY <1>1, <1>2

(* Why SavedHasItsOriginal is not inductive alone: a call must still have   *)
(* its object when its transaction commits, and whoever deletes an object   *)
(* must have written under its key before.                                  *)
THEOREM OriginalInvariant == Spec => []OriginalInv
<1>1. Init => OriginalInv
  BY TypeInit DEF Init, OriginalInv, NothingTooEarly, ObjectsAreWritten, SavingHolds,
     CompensatingHasWritten, RowsAreWritten, RowsHold, Stored
<1>2. OriginalInv /\ [Next]_vars => OriginalInv'
  BY TypeStep, NothingTooEarlyStep, ObjectsAreWrittenStep, SavingHoldsStep,
     CompensatingHasWrittenStep, RowsAreWrittenStep DEF OriginalInv
<1> QED
  BY <1>1, <1>2, PTL DEF Spec

(* The original of a stored document is in the object store as its own call *)
(* wrote it, unless another call wrote under the same key or the answer to  *)
(* its own commit was lost.                                                 *)
THEOREM SavedDocumentHasItsOriginal == Spec => []SavedHasItsOriginal
<1>1. OriginalInv => SavedHasItsOriginal
  BY DEF OriginalInv, RowsHold, SavedHasItsOriginal, Holds, Disputed
<1> QED
  BY <1>1, OriginalInvariant, PTL

-----------------------------------------------------------------------------
(* Objects without a stored document. *)

(* A call that leaves its object behind has answered. *)
StrandedHasAnswered ==
    \A c \in Calls : stranded[c] => pc[c] \in {"recording", "done", "crashed"}

LEMMA StrandedHasAnsweredStep ==
    ASSUME TypeOK, StrandedHasAnswered, [Next]_vars
    PROVE  StrandedHasAnswered'
<1> USE DEF TypeOK, StrandedHasAnswered, stores
<1>1. ASSUME NEW c \in Calls, NEW d \in Docs, NEW k \in Keys, AskPlain(c, d, k)
     PROVE  StrandedHasAnswered'
  BY <1>1 DEF AskPlain, Goto
<1>2. ASSUME NEW c \in Calls, NEW d \in Docs, NEW k \in Keys, AskCheckpointed(c, d, k)
     PROVE  StrandedHasAnswered'
  BY <1>2 DEF AskCheckpointed, Goto
<1>3. ASSUME NEW c \in Calls, NEW d \in Docs, ConsumeAdoption(c, d)
     PROVE  StrandedHasAnswered'
  BY <1>3 DEF ConsumeAdoption, Goto, Result
<1>4. ASSUME NEW c \in Calls, CheckpointLookup(c)
     PROVE  StrandedHasAnswered'
  BY <1>4 DEF CheckpointLookup, Goto, Result
<1>5. ASSUME NEW c \in Calls, Validate(c)
     PROVE  StrandedHasAnswered'
  BY <1>5 DEF Validate, Answer, Goto, Result
<1>6. ASSUME NEW c \in Calls, PutOriginal(c)
     PROVE  StrandedHasAnswered'
  BY <1>6 DEF PutOriginal, WriteObject, Answer, Goto, Result
<1>7. ASSUME NEW c \in Calls, SaveDocument(c)
     PROVE  StrandedHasAnswered'
  BY <1>7 DEF SaveDocument, Store, AddRow, Answer, Goto, Result
<1>8. ASSUME NEW c \in Calls, CompensateObjectWrite(c)
     PROVE  StrandedHasAnswered'
  BY <1>8 DEF CompensateObjectWrite, Answer, Goto, Result
<1>9. ASSUME NEW c \in Calls, RecordResult(c)
     PROVE  StrandedHasAnswered'
  BY <1>9 DEF RecordResult, Goto, Result
<1>10. ASSUME NEW c \in Calls, Crash(c)
     PROVE  StrandedHasAnswered'
  BY <1>10 DEF Crash, Goto
<1>11. CASE UNCHANGED vars
  BY <1>11 DEF vars
<1> QED
  BY <1>1, <1>2, <1>3, <1>4, <1>5, <1>6, <1>7, <1>8, <1>9, <1>10, <1>11 DEF Next, Step

(* What explains the object a call has written under some key. *)
Explained(o) ==
    \/ \E d \in Docs : documents[d].by = o
    \/ pc[o] \in {"saving", "compensating", "crashed"}
    \/ stranded[o] /\ status[o] = "store_failed"

(* As long as its object is there it stays explained. *)
LEMMA ExplainedStays ==
    ASSUME TypeOK, NothingTooEarly, StrandedHasAnswered, [Next]_vars,
           ObjectsAreWritten, NEW o \in Calls, NEW k \in Keys,
           objects[k] = o, objects'[k] = o, Explained(o)
    PROVE  Explained(o)'
<1> USE DEF TypeOK, NothingTooEarly, StrandedHasAnswered, Explained, stores,
           ObjectsAreWritten, Requests
<1>1. CASE \E d \in Docs : documents[d].by = o
  <2>1. PICK d \in Docs : documents[d].by = o
    BY <1>1
  <2>2. documents'[d] = documents[d]
    BY <2>1, WritesStay DEF Stored
  <2> QED
    BY <2>1, <2>2
<1> DEFINE Left == \/ pc[o] \in {"saving", "compensating", "crashed"}
                   \/ stranded[o] /\ status[o] = "store_failed"
<1>2. ASSUME Left
      PROVE  Explained(o)'
  <2> USE <1>2
  <2>1. ASSUME NEW c \in Calls, NEW d \in Docs, NEW key \in Keys, AskPlain(c, d, key)
       PROVE  Explained(o)'
    BY <2>1 DEF AskPlain, Goto
  <2>2. ASSUME NEW c \in Calls, NEW d \in Docs, NEW key \in Keys, AskCheckpointed(c, d, key)
       PROVE  Explained(o)'
    BY <2>2 DEF AskCheckpointed, Goto
  <2>3. ASSUME NEW c \in Calls, NEW d \in Docs, ConsumeAdoption(c, d)
       PROVE  Explained(o)'
    BY <2>3 DEF ConsumeAdoption, Goto, Result
  <2>4. ASSUME NEW c \in Calls, CheckpointLookup(c)
       PROVE  Explained(o)'
    BY <2>4 DEF CheckpointLookup, Goto, Result
  <2>5. ASSUME NEW c \in Calls, Validate(c)
       PROVE  Explained(o)'
    BY <2>5 DEF Validate, Answer, Goto, Result
  <2>6. ASSUME NEW c \in Calls, PutOriginal(c)
       PROVE  Explained(o)'
    BY <2>6 DEF PutOriginal, WriteObject, Answer, Goto, Result
  <2>7. ASSUME NEW c \in Calls, SaveDocument(c)
       PROVE  Explained(o)'
    BY <2>7 DEF SaveDocument, Store, AddRow, Answer, Goto, Result
  <2>8. ASSUME NEW c \in Calls, CompensateObjectWrite(c)
       PROVE  Explained(o)'
    BY <2>8 DEF CompensateObjectWrite, Answer, Goto, Result
  <2>9. ASSUME NEW c \in Calls, RecordResult(c)
       PROVE  Explained(o)'
    BY <2>9 DEF RecordResult, Goto, Result
  <2>10. ASSUME NEW c \in Calls, Crash(c)
       PROVE  Explained(o)'
    BY <2>10 DEF Crash, Goto
  <2>11. CASE UNCHANGED vars
    BY <2>11 DEF vars
  <2> QED
    BY <2>1, <2>2, <2>3, <2>4, <2>5, <2>6, <2>7, <2>8, <2>9, <2>10, <2>11 DEF Next, Step
<1> QED
  BY <1>1, <1>2

LEMMA OrphansStep ==
    ASSUME TypeOK, NothingTooEarly, ObjectsAreWritten, StrandedHasAnswered,
           OrphansAreExplained, [Next]_vars
    PROVE  OrphansAreExplained'
<1> SUFFICES ASSUME NEW k \in Keys, NEW o \in Calls, objects'[k] = o
             PROVE  Explained(o)'
  <2>1. objects' \in [Keys -> Calls \cup {NoCall}]
    BY TypeStep DEF TypeOK
  <2> QED
    BY <2>1 DEF OrphansAreExplained, Explained
<1>1. CASE objects[k] = o
  BY <1>1, ExplainedStays DEF OrphansAreExplained, Explained
<1>2. CASE objects[k] # o
  <2>1. PutOriginal(o) /\ WriteObject(o)
    BY <1>2 DEF Next, Step, vars, stores, AskPlain, AskCheckpointed,
       ConsumeAdoption, CheckpointLookup, Validate, PutOriginal, SaveDocument,
       CompensateObjectWrite, RecordResult, Crash, WriteObject, TypeOK
  <2>2. pc'[o] = "saving" \/ (stranded'[o] /\ status'[o] = "store_failed")
    BY <1>2, <2>1 DEF PutOriginal, Answer, Goto, Result, TypeOK
  <2> QED
    BY <2>2 DEF Explained
<1> QED
  BY <1>1, <1>2

(* An object without a stored document is on its way, or was left by a      *)
(* crash, by a Put whose answer was lost or by a failed compensation; the   *)
(* calls of the last two were answered as failed.                           *)
THEOREM OrphanedObjectsAreExplained == Spec => []OrphansAreExplained
<1> DEFINE OrphanInv ==
      /\ TypeOK /\ NothingTooEarly /\ ObjectsAreWritten
      /\ StrandedHasAnswered /\ OrphansAreExplained
<1>1. Init => OrphanInv
  BY TypeInit DEF Init, NothingTooEarly, ObjectsAreWritten, StrandedHasAnswered,
     OrphansAreExplained
<1>2. OrphanInv /\ [Next]_vars => OrphanInv'
  BY TypeStep, NothingTooEarlyStep, ObjectsAreWrittenStep,
     StrandedHasAnsweredStep, OrphansStep
<1>3. OrphanInv => OrphansAreExplained
  OBVIOUS
<1> QED
  BY <1>1, <1>2, <1>3, PTL DEF Spec

=============================================================================
