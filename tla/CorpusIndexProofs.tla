-------------------------- MODULE CorpusIndexProofs --------------------------
(* Theorems about keeping the search index in step with the database, for   *)
(* any number of chunks and of outbox processors, and any set of            *)
(* classifications.                                                         *)
EXTENDS CorpusIndex, TLAPS

(***************************************************************************)
(* A soft delete in hand deletes: it has read nothing of the row.          *)
(***************************************************************************)
DeletesDelete ==
    \A w \in Workers :
        work[w] # Idle /\ work[w].event.type = "soft_delete" => work[w].copy = Deleted

IInv == TypeOK /\ DeletesDelete

-----------------------------------------------------------------------------
LEMMA EventsAreEvents ==
    ASSUME NEW c \in Chunks, NEW type \in EventTypes
    PROVE  /\ Event(type, c) \in Events
           /\ \A e \in Events : e.type = type /\ e.chunk = c => e = Event(type, c)
  BY DEF Event, Events

LEMMA EventsHaveChunks ==
    ASSUME NEW e \in Events
    PROVE  e.chunk \in Chunks /\ e.type \in {"index", "soft_delete"}
  BY DEF Events, EventTypes

\* What a processor has in hand.
LEMMA HandTyped ==
    ASSUME TypeOK, NEW w \in Workers, work[w] # Idle
    PROVE  /\ work[w].event \in Events /\ work[w].copy \in Rows
           /\ work[w].event.chunk \in Chunks
  BY EventsHaveChunks DEF TypeOK, InHand

LEMMA EntriesOfRows ==
    ASSUME NEW row \in Rows
    PROVE  EntryOf(row) \in Classes \cup {Absent}
  BY DEF EntryOf

LEMMA NothingListed == NotListed \in Listings
  BY DEF NotListed, Listings, Rows

LEMMA RepairsAreEvents == Repairs \subseteq Events
  BY EventsAreEvents DEF Repairs, EventTypes

LEMMA TypeInit == Init => IInv
<1> SUFFICES ASSUME Init PROVE IInv
  OBVIOUS
<1>1. TypeOK
  BY NothingListed, BoundsAssumption
     DEF Init, TypeOK, NoListing, NoRebuild
<1>2. DeletesDelete
  BY DEF Init, DeletesDelete
<1> QED
  BY <1>1, <1>2 DEF IInv

\* The counters of the bounds.
LEMMA FaultCounts ==
    ASSUME TypeOK, Fault PROVE faults' \in 0 .. MaxFaults
  BY BoundsAssumption DEF TypeOK, Fault

\* A change of one row.
LEMMA ChangeType ==
    ASSUME IInv, NEW c \in Chunks, NEW row \in Rows,
           NEW types \in SUBSET EventTypes, Change(c, row, types)
    PROVE  IInv'
<1>1. {Event(t, c) : t \in types} \subseteq Events
  BY EventsAreEvents
<1>2. changes' \in 0 .. MaxChanges
  BY BoundsAssumption DEF Change, IInv, TypeOK
<1>3. authority' \in Listings /\ outbox' \subseteq Events
  BY <1>1 DEF Change, IInv, TypeOK, Listings
<1> QED
  BY <1>2, <1>3 DEF Change, IInv, TypeOK, DeletesDelete

LEMMA InvStep == IInv /\ [Next]_vars => IInv'
<1> SUFFICES ASSUME IInv, [Next]_vars PROVE IInv'
  OBVIOUS
<1>0. TypeOK /\ DeletesDelete
  BY DEF IInv
<1>1. ASSUME NEW c \in Chunks, NEW class \in Classes,
             Ingest(c, class) \/ Reclassify(c, class)
      PROVE  IInv'
  BY <1>1, ChangeType DEF Ingest, Reclassify, Rows, EventTypes
<1>2. ASSUME NEW c \in Chunks, SoftDelete(c)
      PROVE  IInv'
  BY <1>2, ChangeType DEF SoftDelete, Rows, EventTypes
<1>3. ASSUME NEW c \in Chunks, LoseOriginal(c)
      PROVE  IInv'
  BY <1>3, <1>0 DEF LoseOriginal, IInv, TypeOK, DeletesDelete
<1>4. ASSUME NEW w \in Workers, NEW e \in Events, Take(w, e)
      PROVE  IInv'
  <2> DEFINE taken == [event |-> e,
                       copy |-> IF e.type = "index" THEN authority[e.chunk] ELSE Deleted]
  <2>1. e.chunk \in Chunks
    BY EventsHaveChunks
  <2>2. (IF e.type = "index" THEN authority[e.chunk] ELSE Deleted) \in Rows
    BY <1>0, <2>1 DEF TypeOK, Listings, Rows
  <2>3. /\ taken \in InHand
        /\ taken.event.type = "soft_delete" => taken.copy = Deleted
    BY <2>2 DEF InHand
  <2>4. work' = [work EXCEPT ![w] = taken]
    BY <1>4 DEF Take
  <2> HIDE DEF taken
  <2>5. TypeOK'
    BY <1>4, <1>0, <2>3, <2>4 DEF Take, TypeOK
  <2>6. DeletesDelete'
    BY <1>0, <2>3, <2>4 DEF DeletesDelete, TypeOK
  <2> QED
    BY <2>5, <2>6 DEF IInv
<1>5. ASSUME NEW w \in Workers, Apply(w)
      PROVE  IInv'
  <2>1. work[w].event \in Events /\ work[w].event.chunk \in Chunks
        /\ EntryOf(work[w].copy) \in Classes \cup {Absent}
    BY <1>5, <1>0, HandTyped, EntriesOfRows DEF Apply
  <2>2. outbox' \subseteq Events /\ faults' \in 0 .. MaxFaults
    BY <1>5, <1>0, <2>1, FaultCounts DEF Apply, TypeOK
  <2> QED
    BY <1>5, <1>0, <2>1, <2>2 DEF Apply, IInv, TypeOK, DeletesDelete
<1>6. ASSUME NEW w \in Workers, Fail(w)
      PROVE  IInv'
  <2>1. outbox' \subseteq Events /\ faults' \in 0 .. MaxFaults
    BY <1>6, <1>0, HandTyped, FaultCounts DEF Fail, TypeOK
  <2> QED
    BY <1>6, <1>0, <2>1 DEF Fail, IInv, TypeOK, DeletesDelete
<1>7. CASE ListAuthorityChunks
  BY <1>7, <1>0, NothingListed DEF ListAuthorityChunks, NoListing, IInv, TypeOK, DeletesDelete
<1>8. ASSUME NEW e \in Events, EnqueueRepair(e)
      PROVE  IInv'
  BY <1>8, <1>0 DEF EnqueueRepair, IInv, TypeOK, DeletesDelete
<1>9. CASE ListDerivedChunks \/ FinishReconcile
  BY <1>9, <1>0, RepairsAreEvents, NothingListed
     DEF ListDerivedChunks, FinishReconcile, NoListing, IInv, TypeOK, DeletesDelete
<1>15. CASE ReconcileFails
  BY <1>15, <1>0, NothingListed, FaultCounts
     DEF ReconcileFails, NoListing, IInv, TypeOK, DeletesDelete
<1>10. ASSUME NEW mode \in {"chunks", "documents"}, StartRebuild(mode)
       PROVE  IInv'
  BY <1>10, <1>0 DEF StartRebuild, IInv, TypeOK, DeletesDelete
<1>11. ASSUME NEW c \in Chunks, RebuildChunk(c)
       PROVE  IInv'
  <2>1. EntryOf(rebuild.rows[c]) \in Classes \cup {Absent}
    BY <1>0, EntriesOfRows DEF TypeOK, Listings
  <2> QED
    BY <1>11, <1>0, <2>1 DEF RebuildChunk, IInv, TypeOK, DeletesDelete
<1>12. CASE FinishRebuild
  BY <1>12, <1>0, NothingListed
     DEF FinishRebuild, NoRebuild, IInv, TypeOK, DeletesDelete
<1>13. CASE AbortRebuild
  BY <1>13, <1>0, NothingListed, FaultCounts
     DEF AbortRebuild, NoRebuild, IInv, TypeOK, DeletesDelete
<1>14. CASE UNCHANGED vars
  BY <1>14, <1>0 DEF vars, IInv, TypeOK, DeletesDelete
<1> QED
  BY <1>1, <1>2, <1>3, <1>4, <1>5, <1>6, <1>7, <1>8, <1>9, <1>10, <1>11,
     <1>12, <1>13, <1>14, <1>15 DEF Next

LEMMA Invariant == Spec => []IInv
<1> QED
  BY TypeInit, InvStep, PTL DEF Spec

(* Rows, entries, events and what the parties have read keep their types.   *)
THEOREM TypeCorrect == Spec => []TypeOK
<1>1. IInv => TypeOK
  BY DEF IInv
<1> QED
  BY <1>1, Invariant, PTL

-----------------------------------------------------------------------------
(***************************************************************************)
(* A chunk is looked after while its entry agrees with its row or an event *)
(* is outstanding that will make it agree.                                 *)
(***************************************************************************)
LookedAfter(c) == Agrees(c) \/ RepairOutstanding(c)

\* What a step may do without anyone noticing: the row and the entry of c
\* stay, events come, and what a processor has in hand for c stays in hand.
LEMMA StaysLookedAfter ==
    ASSUME NEW c \in Chunks, LookedAfter(c),
           authority'[c] = authority[c], index'[c] = index[c],
           outbox \subseteq outbox',
           \A w \in Workers :
               work[w] # Idle /\ work[w].event.chunk = c => work'[w] = work[w]
    PROVE  LookedAfter(c)'
<1>1. CASE Agrees(c)
  BY <1>1 DEF LookedAfter, Agrees
<1>2. CASE RepairOutstanding(c)
  BY <1>2 DEF LookedAfter, RepairOutstanding, Live
<1> QED
  BY <1>1, <1>2 DEF LookedAfter

\* A live row has an entry, a row that is deleted or missing has none.
LEMMA EntryOfRow ==
    ASSUME TypeOK, NEW c \in Chunks
    PROVE  /\ Live(c) => EntryOf(authority[c]) = authority[c] /\ authority[c] # Absent
           /\ ~Live(c) <=> EntryOf(authority[c]) = Absent
           /\ EntryOf(Deleted) = Absent
  BY ValuesAssumption DEF Live, EntryOf

LEMMA DriftStep ==
    ASSUME IInv, [Next]_vars, NEW c \in Chunks, LookedAfter(c)
    PROVE  LookedAfter(c)' \/ StaleWrite(c)
<1>0. TypeOK /\ DeletesDelete
  BY DEF IInv
<1>1. ASSUME NEW d \in Chunks, NEW row, NEW types, Change(d, row, types),
             "index" \in types \/ (row \notin Classes /\ "soft_delete" \in types)
      PROVE  LookedAfter(c)'
  <2>1. CASE d # c
    BY <1>0, <1>1, <2>1, StaysLookedAfter DEF Change, TypeOK, Listings
  <2>2. CASE d = c
    <3>1. authority'[c] = row
      BY <1>0, <1>1, <2>2 DEF Change, TypeOK, Listings
    <3>2. \A t \in types : Event(t, c) \in outbox'
      BY <1>1, <2>2 DEF Change
    <3> QED
      BY <1>1, <3>1, <3>2 DEF LookedAfter, RepairOutstanding, Live
  <2> QED
    BY <2>1, <2>2
<1>2. ASSUME NEW d \in Chunks, NEW class \in Classes,
             Ingest(d, class) \/ Reclassify(d, class)
      PROVE  LookedAfter(c)'
  BY <1>1, <1>2 DEF Ingest, Reclassify
<1>3. ASSUME NEW d \in Chunks, SoftDelete(d)
      PROVE  LookedAfter(c)'
  BY <1>1, <1>3, ValuesAssumption DEF SoftDelete
<1>4. ASSUME NEW w \in Workers, NEW e \in Events, Take(w, e)
      PROVE  LookedAfter(c)'
  <2>1. /\ e.chunk \in Chunks /\ e.type \in {"index", "soft_delete"}
        /\ work[w] = Idle /\ outbox' = outbox \ {e}
        /\ UNCHANGED <<authority, index>>
        /\ \A v \in Workers \ {w} : work'[v] = work[v]
    BY <1>0, <1>4, EventsHaveChunks DEF Take, TypeOK
  <2>2. /\ work'[w].event = e
        /\ work'[w].copy = IF e.type = "index" THEN authority[e.chunk] ELSE Deleted
    BY <1>0, <1>4 DEF Take, TypeOK
  <2>3. CASE Agrees(c)
    BY <2>1, <2>3 DEF LookedAfter, Agrees
  <2>4. CASE \E v \in Workers : /\ work[v] # Idle /\ work[v].event.chunk = c
                                /\ EntryOf(work[v].copy) = EntryOf(authority[c])
    BY <2>1, <2>4 DEF LookedAfter, RepairOutstanding
  <2>5. CASE /\ e = Event("index", c) \/ (~Live(c) /\ e = Event("soft_delete", c))
    <3>1. e.chunk = c /\ work'[w] # Idle
      <4>1. e.chunk = c
        BY <2>5 DEF Event
      <4>2. work'[w].event # Absent
        BY <2>2, NoEventAssumption
      <4> QED
        BY <4>1, <4>2 DEF Idle
    <3>2. EntryOf(work'[w].copy) = EntryOf(authority[c])
      BY <1>0, <2>2, <2>5, <3>1, EntryOfRow DEF Event
    <3> QED
      BY <2>1, <2>2, <3>1, <3>2 DEF LookedAfter, RepairOutstanding
  <2>6. CASE \/ e # Event("index", c) /\ Event("index", c) \in outbox
             \/ ~Live(c) /\ e # Event("soft_delete", c) /\ Event("soft_delete", c) \in outbox
    BY <2>1, <2>6 DEF LookedAfter, RepairOutstanding, Live
  <2> QED
    BY <2>3, <2>4, <2>5, <2>6 DEF LookedAfter, RepairOutstanding
<1>5. ASSUME NEW w \in Workers, Apply(w)
      PROVE  LookedAfter(c)' \/ StaleWrite(c)
  <2>1. /\ work[w] # Idle /\ work'[w] = Idle /\ outbox \subseteq outbox'
        /\ \A v \in Workers \ {w} : work'[v] = work[v]
        /\ UNCHANGED authority
    BY <1>0, <1>5 DEF Apply, TypeOK
  <2>2. CASE work[w].event.chunk # c
    <3>1. index'[c] = index[c]
      BY <1>0, <1>5, <2>2 DEF Apply, TypeOK
    <3> QED
      BY <2>1, <2>2, <3>1, StaysLookedAfter
  <2>3. CASE work[w].event.chunk = c /\ EntryOf(work[w].copy) = EntryOf(authority[c])
    <3>1. index'[c] = EntryOf(work[w].copy)
      BY <1>0, <1>5, <2>3 DEF Apply, TypeOK
    <3> QED
      BY <2>1, <2>3, <3>1 DEF LookedAfter, Agrees
  <2>4. CASE work[w].event.chunk = c /\ EntryOf(work[w].copy) # EntryOf(authority[c])
    BY <2>1, <2>4 DEF StaleWrite
  <2> QED
    BY <2>2, <2>3, <2>4
<1>6. ASSUME NEW w \in Workers, Fail(w)
      PROVE  LookedAfter(c)'
  <2>1. /\ work[w] # Idle /\ outbox' = outbox \cup {work[w].event}
        /\ \A v \in Workers \ {w} : work'[v] = work[v]
        /\ UNCHANGED <<authority, index>>
    BY <1>0, <1>6 DEF Fail, TypeOK
  <2>2. CASE work[w].event.chunk = c /\ EntryOf(work[w].copy) = EntryOf(authority[c])
    <3>1. work[w].event \in Events
      BY <1>0, <2>1, HandTyped
    <3>2. CASE work[w].event.type = "index"
      <4>1. work[w].event = Event("index", c)
        BY <2>2, <3>1, <3>2, EventsAreEvents DEF EventTypes
      <4> QED
        BY <2>1, <4>1 DEF LookedAfter, RepairOutstanding
    <3>3. CASE work[w].event.type = "soft_delete"
      <4>1. work[w].event = Event("soft_delete", c)
        BY <2>2, <3>1, <3>3, EventsAreEvents DEF EventTypes
      <4>2. ~Live(c)
        BY <1>0, <2>1, <2>2, <3>3, EntryOfRow DEF DeletesDelete
      <4> QED
        BY <2>1, <4>1, <4>2 DEF LookedAfter, RepairOutstanding, Live
    <3> QED
      BY <3>1, <3>2, <3>3, EventsHaveChunks
  <2>3. CASE ~(work[w].event.chunk = c /\ EntryOf(work[w].copy) = EntryOf(authority[c]))
    <3>1. CASE Agrees(c)
      BY <2>1, <3>1 DEF LookedAfter, Agrees
    <3>2. CASE RepairOutstanding(c)
      BY <2>1, <2>3, <3>2 DEF LookedAfter, RepairOutstanding, Live
    <3> QED
      BY <3>1, <3>2 DEF LookedAfter
  <2> QED
    BY <2>2, <2>3
<1>7. ASSUME NEW d \in Chunks, RebuildChunk(d)
      PROVE  LookedAfter(c)' \/ StaleWrite(c)
  <2>1. d \in rebuild.todo /\ rebuild'.todo = rebuild.todo \ {d}
        /\ index' = [index EXCEPT ![d] = EntryOf(rebuild.rows[d])]
        /\ UNCHANGED <<authority, outbox, work>>
    BY <1>0, <1>7 DEF RebuildChunk, TypeOK
  <2>2. CASE d # c
    BY <1>0, <2>1, <2>2, StaysLookedAfter DEF TypeOK
  <2>3. CASE d = c /\ rebuild.rows[c] = authority[c]
    <3>1. index'[c] = EntryOf(authority[c])
      BY <1>0, <2>1, <2>3 DEF TypeOK
    <3> QED
      BY <2>1, <3>1 DEF LookedAfter, Agrees
  <2>4. CASE d = c /\ rebuild.rows[c] # authority[c]
    BY <2>1, <2>4 DEF StaleWrite
  <2> QED
    BY <2>2, <2>3, <2>4
<1>8. CASE \/ ListAuthorityChunks \/ ListDerivedChunks \/ FinishReconcile \/ ReconcileFails
           \/ \E e \in Events : EnqueueRepair(e)
           \/ \E d \in Chunks : LoseOriginal(d)
           \/ \E mode \in {"chunks", "documents"} : StartRebuild(mode)
           \/ FinishRebuild \/ AbortRebuild \/ UNCHANGED vars
  <2>1. UNCHANGED <<authority, index, work>> /\ outbox \subseteq outbox'
    BY <1>8 DEF ListAuthorityChunks, ListDerivedChunks, EnqueueRepair, FinishReconcile,
                ReconcileFails, LoseOriginal,
                StartRebuild, FinishRebuild, AbortRebuild, vars
  <2> QED
    BY <2>1, StaysLookedAfter
<1> QED
  BY <1>2, <1>3, <1>4, <1>5, <1>6, <1>7, <1>8 DEF Next

(* The index drifts from the database, with no event on its way to repair   *)
(* it, by the write of a copy that is older than the row and by nothing     *)
(* else: no failure, redelivery or broken-off run loses a repair.           *)
THEOREM OnlyStaleWritesDrift == Spec => DriftNeedsAStaleWrite
<1>1. IInv /\ [Next]_vars =>
        [\A c \in Chunks :
           (Agrees(c) \/ RepairOutstanding(c))
             => (Agrees(c) \/ RepairOutstanding(c))' \/ StaleWrite(c)]_vars
  BY DriftStep DEF LookedAfter
<1> QED
  BY <1>1, Invariant, PTL DEF Spec, DriftNeedsAStaleWrite
=============================================================================
