----------------------------- MODULE CorpusIndex -----------------------------
(***************************************************************************)
(* Keeping the search index in step with the database                       *)
(* (internal/rag/corpus/outbox.go).                                         *)
(*                                                                         *)
(* The database is the authority for a chunk's classification and whether   *)
(* it is deleted; the index is derived from it.  Four parties write to the  *)
(* index or cause writes: the outbox processors, which turn events into     *)
(* index writes; the reconciler, which compares two listings and enqueues   *)
(* repairs; and the two rebuilders, which write a listing to the index      *)
(* chunk by chunk.  All of them read the authority first and write later,   *)
(* so that a change in between makes them write a stale copy.               *)
(*                                                                         *)
(* Who changes the authority and who delivers events is not in the code:    *)
(* ingesting, reclassifying and deleting change a chunk and enqueue its     *)
(* events in one step, as SaveDocument does, and an event is delivered, in  *)
(* any order, until it is marked as succeeded.                              *)
(***************************************************************************)
EXTENDS Naturals, FiniteSets

CONSTANTS
    Chunks,     \* chunk ids
    Classes,    \* classifications
    Workers,    \* outbox processors at work at the same time
    Absent,     \* no row in the database, no entry in the index
    Deleted,    \* a row with is_deleted set
    MaxChanges, \* bound on changes of the authority
    MaxFaults   \* bound on failing calls to the embedder, index and database

ASSUME ValuesAssumption == {Absent, Deleted} \cap Classes = {} /\ Absent # Deleted
ASSUME BoundsAssumption == MaxChanges \in Nat /\ MaxFaults \in Nat

VARIABLES
    authority,  \* the classification of each chunk's row
    index,      \* the classification of each chunk's entry
    outbox,     \* events that are not marked as succeeded and not in hand
    work,       \* the event each processor has in hand, with what it read
    listed,     \* what the reconciler has listed, then what it is to enqueue
    damaged,    \* chunks whose document has lost its original
    rebuild,    \* a rebuild's mode, its listing and the chunks still to write
    changes,
    faults

vars == <<authority, index, outbox, work, listed, damaged, rebuild, changes, faults>>

(* The events that index a chunk and that rebuild it are processed alike. *)
EventTypes == {"index", "soft_delete"}
Events == [type : EventTypes, chunk : Chunks]
ASSUME NoEventAssumption == Absent \notin Events

Rows == Classes \cup {Absent, Deleted}
Listings == [Chunks -> Rows]
InHand == [event : Events, copy : Rows]

Idle == [event |-> Absent, copy |-> Absent]
NotListed == [c \in Chunks |-> Absent]
NoListing == [of |-> "nothing", rows |-> NotListed, repairs |-> {}]
NoRebuild == [mode |-> "none", rows |-> NotListed, todo |-> {}]

TypeOK ==
    /\ authority \in Listings
    /\ index \in [Chunks -> Classes \cup {Absent}]
    /\ outbox \subseteq Events
    /\ work \in [Workers -> InHand \cup {Idle}]
    /\ listed \in [of : {"nothing", "authority", "both"}, rows : Listings,
                   repairs : SUBSET Events]
    /\ damaged \subseteq Chunks
    /\ rebuild \in [mode : {"none", "chunks", "documents"}, rows : Listings,
                    todo : SUBSET Chunks]
    /\ changes \in 0 .. MaxChanges
    /\ faults \in 0 .. MaxFaults

Init ==
    /\ authority = NotListed
    /\ index = [c \in Chunks |-> Absent]
    /\ outbox = {}
    /\ work = [w \in Workers |-> Idle]
    /\ listed = NoListing
    /\ damaged = {}
    /\ rebuild = NoRebuild
    /\ changes = 0
    /\ faults = 0

Live(c) == authority[c] \in Classes

(* What the index should hold of a row, and holds once the row is written. *)
EntryOf(row) == IF row \in Classes THEN row ELSE Absent

Event(type, c) == [type |-> type, chunk |-> c]

Fault == faults < MaxFaults /\ faults' = faults + 1

-----------------------------------------------------------------------------
(* A row changes together with the events that follow from it. *)
Change(c, row, types) ==
    /\ changes < MaxChanges
    /\ changes' = changes + 1
    /\ authority' = [authority EXCEPT ![c] = row]
    /\ outbox' = outbox \cup {Event(t, c) : t \in types}
    /\ UNCHANGED <<index, work, listed, damaged, rebuild, faults>>

Ingest(c, class) == authority[c] = Absent /\ Change(c, class, {"index"})

(* PlanClassificationDowngrade: delete the entry, then index it again. *)
Reclassify(c, class) ==
    /\ Live(c) /\ class # authority[c]
    /\ Change(c, class, {"soft_delete", "index"})

SoftDelete(c) == Live(c) /\ Change(c, Deleted, {"soft_delete"})

(* Another ingestion's compensation deletes the original (CorpusIngestion). *)
LoseOriginal(c) ==
    /\ authority[c] # Absent
    /\ damaged' = damaged \cup {c}
    /\ UNCHANGED <<authority, index, outbox, work, listed, rebuild, changes,
                   faults>>

-----------------------------------------------------------------------------
(* Process begins: for an index event it reads the chunk from the authority *)
(* and embeds it over the network; for a soft delete it reads nothing.      *)
Take(w, e) ==
    /\ work[w] = Idle /\ e \in outbox
    /\ outbox' = outbox \ {e}
    /\ work' = [work EXCEPT ![w] =
           [event |-> e,
            copy |-> IF e.type = "index" THEN authority[e.chunk] ELSE Deleted]]
    /\ UNCHANGED <<authority, index, listed, damaged, rebuild, changes, faults>>

(* IndexChunk or DeleteChunk, then MarkSucceeded; when the mark cannot be   *)
(* written the event stays.                                                 *)
Apply(w) ==
    /\ work[w] # Idle
    /\ index' = [index EXCEPT ![work[w].event.chunk] = EntryOf(work[w].copy)]
    /\ work' = [work EXCEPT ![w] = Idle]
    /\ \/ UNCHANGED <<outbox, faults>>
       \/ outbox' = outbox \cup {work[w].event} /\ Fault
    /\ UNCHANGED <<authority, listed, damaged, rebuild, changes>>

(* A plausible slip: an event is marked as succeeded whatever happened. *)
FailAndForget(w) ==
    /\ work[w] # Idle
    /\ work' = [work EXCEPT ![w] = Idle]
    /\ Fault
    /\ UNCHANGED <<authority, index, outbox, listed, damaged, rebuild, changes>>

(* Reading, embedding or indexing fails: MarkFailed, to be tried again. *)
Fail(w) ==
    /\ work[w] # Idle
    /\ work' = [work EXCEPT ![w] = Idle]
    /\ outbox' = outbox \cup {work[w].event}
    /\ Fault
    /\ UNCHANGED <<authority, index, listed, damaged, rebuild, changes>>

-----------------------------------------------------------------------------
(* Reconcile lists the authority and then the index. *)
ListAuthorityChunks ==
    /\ listed.of = "nothing"
    /\ listed' = [of |-> "authority", rows |-> authority, repairs |-> {}]
    /\ UNCHANGED <<authority, index, outbox, work, damaged, rebuild, changes, faults>>

(* A plausible slip: entries that differ are repaired, missing ones not. *)
RepairsOfEntries ==
    {Event("soft_delete", c) : c \in {d \in Chunks :
        index[d] # Absent /\ listed.rows[d] \notin Classes}}
    \cup {Event("index", c) : c \in {d \in Chunks :
        /\ listed.rows[d] \in Classes
        /\ index[d] \notin {Absent, listed.rows[d]}}}

(* An entry whose row is deleted, or that has no row in the listing, is to  *)
(* be deleted; a live row whose entry is missing or differs is to be        *)
(* indexed again.                                                           *)
Repairs ==
    {Event("soft_delete", c) : c \in {d \in Chunks :
        index[d] # Absent /\ listed.rows[d] \notin Classes}}
    \cup {Event("index", c) : c \in {d \in Chunks :
        listed.rows[d] \in Classes /\ index[d] # listed.rows[d]}}

ListDerivedChunks ==
    /\ listed.of = "authority"
    /\ listed' = [of |-> "both", rows |-> NotListed, repairs |-> Repairs]
    /\ UNCHANGED <<authority, index, outbox, work, damaged, rebuild, changes, faults>>

(* The repairs are enqueued one after the other, while others write. *)
EnqueueRepair(e) ==
    /\ e \in listed.repairs
    /\ outbox' = outbox \cup {e}
    /\ listed' = [listed EXCEPT !.repairs = @ \ {e}]
    /\ UNCHANGED <<authority, index, work, damaged, rebuild, changes, faults>>

FinishReconcile ==
    /\ listed.of = "both" /\ listed.repairs = {}
    /\ listed' = NoListing
    /\ UNCHANGED <<authority, index, outbox, work, damaged, rebuild, changes, faults>>

(* A listing fails, or an Enqueue: what was enqueued before it stays. *)
ReconcileFails ==
    /\ listed.of = "authority" \/ listed.repairs # {}
    /\ listed' = NoListing
    /\ Fault
    /\ UNCHANGED <<authority, index, outbox, work, damaged, rebuild, changes>>

-----------------------------------------------------------------------------
(* RebuildAll of the Rebuilder lists chunks; that of the FullRebuilder      *)
(* lists documents and reads each one's original again.                     *)
StartRebuild(mode) ==
    /\ rebuild.mode = "none"
    /\ rebuild' = [mode |-> mode, rows |-> authority,
                   todo |-> {c \in Chunks : authority[c] # Absent}]
    /\ UNCHANGED <<authority, index, outbox, work, listed, damaged, changes, faults>>

NeedsOriginal(c) == rebuild.mode = "documents" /\ rebuild.rows[c] \in Classes

RebuildChunk(c) ==
    /\ c \in rebuild.todo
    /\ ~(NeedsOriginal(c) /\ c \in damaged)
    /\ index' = [index EXCEPT ![c] = EntryOf(rebuild.rows[c])]
    /\ rebuild' = [rebuild EXCEPT !.todo = @ \ {c}]
    /\ UNCHANGED <<authority, outbox, work, listed, damaged, changes, faults>>

FinishRebuild ==
    /\ rebuild.mode # "none" /\ rebuild.todo = {}
    /\ rebuild' = NoRebuild
    /\ UNCHANGED <<authority, index, outbox, work, listed, damaged, changes, faults>>

(* The first error ends a rebuild and leaves the rest unwritten: a document *)
(* without its original does so every time.                                 *)
AbortRebuild ==
    /\ rebuild.todo # {}
    /\ \/ \E c \in rebuild.todo \cap damaged : NeedsOriginal(c) /\ UNCHANGED faults
       \/ Fault
    /\ rebuild' = NoRebuild
    /\ UNCHANGED <<authority, index, outbox, work, listed, damaged, changes>>

Next ==
    \/ \E c \in Chunks, class \in Classes : Ingest(c, class)
    \/ \E c \in Chunks, class \in Classes : Reclassify(c, class)
    \/ \E c \in Chunks : SoftDelete(c)
    \/ \E c \in Chunks : LoseOriginal(c)
    \/ \E w \in Workers, e \in Events : Take(w, e)
    \/ \E w \in Workers : Apply(w)
    \/ \E w \in Workers : Fail(w)
    \/ ListAuthorityChunks
    \/ ListDerivedChunks
    \/ \E e \in Events : EnqueueRepair(e)
    \/ FinishReconcile
    \/ ReconcileFails
    \/ \E mode \in {"chunks", "documents"} : StartRebuild(mode)
    \/ \E c \in Chunks : RebuildChunk(c)
    \/ FinishRebuild
    \/ AbortRebuild

Spec == Init /\ [][Next]_vars

(* The outbox is polled, so that no event is passed over for ever, a call   *)
(* to the embedder or the index returns, and reconciliation is periodic.    *)
Fairness ==
    /\ \A e \in Events : SF_vars(\E w \in Workers : Take(w, e))
    /\ \A w \in Workers : WF_vars(Apply(w))
    /\ WF_vars(ListAuthorityChunks)
    /\ WF_vars(ListDerivedChunks)
    /\ WF_vars(\E e \in Events : EnqueueRepair(e))
    /\ WF_vars(FinishReconcile)

LiveSpec == Spec /\ Fairness

-----------------------------------------------------------------------------
Agrees(c) == index[c] = EntryOf(authority[c])

(* An event is outstanding that will make the entry agree. *)
RepairOutstanding(c) ==
    \/ Event("index", c) \in outbox
    \/ ~Live(c) /\ Event("soft_delete", c) \in outbox
    \/ \E w \in Workers : /\ work[w] # Idle /\ work[w].event.chunk = c
                          /\ EntryOf(work[w].copy) = EntryOf(authority[c])

StaleWrite(c) ==
    \/ \E w \in Workers : /\ work[w] # Idle /\ work'[w] = Idle
                          /\ work[w].event.chunk = c
                          /\ EntryOf(work[w].copy) # EntryOf(authority[c])
    \/ /\ c \in rebuild.todo \ rebuild'.todo
       /\ rebuild.rows[c] # authority[c]

(* A chunk's entry stops agreeing with its row, with no event outstanding   *)
(* that would repair it, only when a copy is written that is older than the *)
(* row: a processor's that was embedding meanwhile, a soft delete that is   *)
(* delivered after the index event it was planned with, or a rebuild's      *)
(* listing.  No failure, redelivery or aborted run loses a repair.          *)
DriftNeedsAStaleWrite ==
    [][\A c \in Chunks :
          (Agrees(c) \/ RepairOutstanding(c))
              => (Agrees(c) \/ RepairOutstanding(c))' \/ StaleWrite(c)]_vars

(* Once changes and failures have stopped, reconciliation brings the index  *)
(* in step with the database for good, whatever stale copies were written,  *)
(* although each reconciliation compares two listings of different times    *)
(* and enqueues its repairs later still.                                    *)
IndexConverges == <>[](\A c \in Chunks : Agrees(c))

=============================================================================
