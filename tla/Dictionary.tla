------------------------------ MODULE Dictionary ------------------------------
(***************************************************************************)
(* The dictionary of the customer and the automaton the sanitiser matches  *)
(* with (internal/desensitization/dictionary/service.go, postgres_store.go *)
(* and internal/desensitization/gateway/dictionary.go).                    *)
(*                                                                         *)
(* Every operation writes its entries, then lists the active ones, builds  *)
(* an automaton from the list and swaps it in.  These are queries and an   *)
(* atomic store of their own, with no lock around them, so that operations *)
(* of several administrators interleave between them.                      *)
(*                                                                         *)
(* A term stands for the text and the type of an entry; authorisation      *)
(* refuses before anything is read.                                        *)
(***************************************************************************)
CONSTANTS Ids,     \* identifiers newID can draw
          Terms,   \* (entry_text, entry_type)
          Admins,  \* concurrent callers of the service
          None

ASSUME NoneAssumption == None \notin Terms

VARIABLES entry,       \* desensitization_dictionary_entries
          loaded,      \* the entries in the automaton: id to term
          op,          \* the operation each administrator has running
          lastWriter,  \* history: whose write an entry holds
          missed,      \* history: those whose update read an entry that was
                       \* deleted before they saved it
          clean        \* history: no overlap and no unfinished reload so far

vars == <<entry, loaded, op, lastWriter, missed, clean>>

Entries == [term : Terms, deleted : BOOLEAN]
NoEntry == [term |-> None, deleted |-> TRUE]
Rows == Entries \union {NoEntry}

Exists(id) == entry[id] # NoEntry

\* ListActive, as the term of each active entry.
Active == [id \in Ids |-> IF entry[id].deleted THEN None ELSE entry[id].term]

Kinds == {"import", "update", "delete"}

\* What is still to be written, what was written, and the list to swap in.
Ops == [kind : Kinds, step : {"save", "list", "swap"},
        todo : [Ids -> Rows], written : SUBSET Ids,
        listed : [Ids -> Terms \union {None}]]
Idle == [kind |-> "none"]

IsIdle(a) == op[a] = Idle
At(a, step) == op[a] # Idle /\ op[a].step = step
Nothing == [id \in Ids |-> None]
ToWrite(a) == {id \in Ids : op[a].todo[id] # NoEntry}

Init ==
    /\ entry = [id \in Ids |-> NoEntry]
    /\ loaded = Nothing
    /\ op = [a \in Admins |-> Idle]
    /\ lastWriter = [id \in Ids |-> None]
    /\ missed = {}
    /\ clean = TRUE

-----------------------------------------------------------------------------
(* The operations, up to their first write. *)

Begin(a, kind, todo) ==
    /\ IsIdle(a)
    /\ op' = [op EXCEPT ![a] =
                [kind |-> kind,
                 step |-> IF \A id \in Ids : todo[id] = NoEntry THEN "list" ELSE "save",
                 todo |-> todo, written |-> {}, listed |-> Nothing]]
    /\ clean' = (clean /\ \A b \in Admins : IsIdle(b))
    /\ missed' = missed \ {a}
    /\ UNCHANGED <<entry, loaded, lastWriter>>

Drawn(id) == \E a \in Admins : ~IsIdle(a) /\ op[a].todo[id] # NoEntry

\* CreateEntry is an import of one, and an import of nothing reloads.
\* Identifiers are random: nobody else draws those of an import under way.
Import(a, new) ==
    /\ \A id \in Ids : new[id] # None => ~Exists(id) /\ ~Drawn(id)
    /\ Begin(a, "import",
             [id \in Ids |-> IF new[id] = None THEN NoEntry
                             ELSE [term |-> new[id], deleted |-> FALSE]])

OnlyWrite(id, e) == [j \in Ids |-> IF j = id THEN e ELSE NoEntry]

\* Mutation: an entry that is edited is taken for active.
UpdateReviving(a, id, term) ==
    /\ Exists(id)
    /\ Begin(a, "update", OnlyWrite(id, [term |-> term, deleted |-> FALSE]))

\* UpdateEntry: the deleted flag is written back as it was read.
Update(a, id, term) ==
    /\ Exists(id)
    /\ Begin(a, "update",
             OnlyWrite(id, [term |-> term, deleted |-> entry[id].deleted]))

Delete(a, id) ==
    /\ Exists(id)
    /\ Begin(a, "delete",
             OnlyWrite(id, [term |-> entry[id].term, deleted |-> TRUE]))

-----------------------------------------------------------------------------
(* Save, ListActive and SwapEntries. *)

\* The updates that still hold an entry as it was before it is deleted.
Overtakes(a, id) ==
    {b \in Admins \ {a} : /\ ~IsIdle(b) /\ op[b].kind = "update"
                          /\ op[b].todo[id] # NoEntry
                          /\ ~entry[id].deleted /\ op[a].todo[id].deleted}

Written(a, id, next) ==
    /\ entry' = [entry EXCEPT ![id] = op[a].todo[id]]
    /\ lastWriter' = [lastWriter EXCEPT ![id] = a]
    /\ missed' = missed \union Overtakes(a, id)
    /\ op' = [op EXCEPT ![a] =
                [kind |-> op[a].kind,
                 step |-> IF ToWrite(a) = {id} THEN next ELSE "save",
                 todo |-> [op[a].todo EXCEPT ![id] = NoEntry],
                 written |-> op[a].written \union {id},
                 listed |-> op[a].listed]]

\* Mutation: the dictionary is reloaded when entries come or go, not when
\* one is edited.
SaveWithoutReload(a) ==
    /\ At(a, "save")
    /\ \E id \in ToWrite(a) :
        IF op[a].kind = "update"
        THEN /\ entry' = [entry EXCEPT ![id] = op[a].todo[id]]
             /\ lastWriter' = [lastWriter EXCEPT ![id] = a]
             /\ missed' = missed \union Overtakes(a, id)
             /\ op' = [op EXCEPT ![a] = Idle]
        ELSE Written(a, id, "list")
    /\ UNCHANGED <<loaded, clean>>

Save(a) ==
    /\ At(a, "save")
    /\ \E id \in ToWrite(a) : Written(a, id, "list")
    /\ UNCHANGED <<loaded, clean>>

\* An entry that cannot be written, or an item of an import that is not
\* valid: what was written before it stays, and nothing is reloaded.
SaveFails(a) ==
    /\ At(a, "save")
    /\ op' = [op EXCEPT ![a] = Idle]
    /\ clean' = (clean /\ op[a].written = {})
    /\ UNCHANGED <<entry, loaded, lastWriter, missed>>

List(a) ==
    /\ At(a, "list")
    /\ op' = [op EXCEPT ![a] =
                [kind |-> op[a].kind, step |-> "swap", todo |-> op[a].todo,
                 written |-> op[a].written, listed |-> Active]]
    /\ UNCHANGED <<entry, loaded, lastWriter, missed, clean>>

ListFails(a) ==
    /\ At(a, "list")
    /\ op' = [op EXCEPT ![a] = Idle]
    /\ clean' = FALSE
    /\ UNCHANGED <<entry, loaded, lastWriter, missed>>

\* Mutation: the new list is added to the automaton there is.
SwapAdding(a) ==
    /\ At(a, "swap")
    /\ loaded' = [id \in Ids |-> IF op[a].listed[id] = None THEN loaded[id]
                                 ELSE op[a].listed[id]]
    /\ op' = [op EXCEPT ![a] = Idle]
    /\ UNCHANGED <<entry, lastWriter, missed, clean>>

Swap(a) ==
    /\ At(a, "swap")
    /\ loaded' = op[a].listed
    /\ op' = [op EXCEPT ![a] = Idle]
    /\ UNCHANGED <<entry, lastWriter, missed, clean>>

-----------------------------------------------------------------------------
Operation(a) ==
    \/ \E new \in [Ids -> Terms \union {None}] : Import(a, new)
    \/ \E id \in Ids : \E term \in Terms : Update(a, id, term)
    \/ \E id \in Ids : Delete(a, id)
    \/ Save(a)
    \/ SaveFails(a)
    \/ List(a)
    \/ ListFails(a)
    \/ Swap(a)

Next == \E a \in Admins : Operation(a)

Spec == Init /\ [][Next]_vars

-----------------------------------------------------------------------------
(* The variables keep their types.  No entry is ever removed: the automaton *)
(* and every list on its way to it name entries of the table.               *)
TypeOK ==
    /\ entry \in [Ids -> Rows]
    /\ loaded \in [Ids -> Terms \union {None}]
    /\ op \in [Admins -> Ops \union {Idle}]
    /\ lastWriter \in [Ids -> Admins \union {None}]
    /\ missed \subseteq Admins
    /\ clean \in BOOLEAN
    /\ \A id \in Ids : loaded[id] # None => Exists(id)
    /\ \A a \in Admins : ~IsIdle(a) =>
         \A id \in Ids : op[a].listed[id] # None => Exists(id)

(* One administrator at a time: once an operation is over the sanitiser     *)
(* matches the active entries and nothing else.  Not so once two overlap    *)
(* (the older list may be swapped in last and stays until the next change), *)
(* an import breaks off half way, or the list cannot be read.               *)
UpToDateWhenAlone ==
    clean /\ (\A a \in Admins : IsIdle(a)) => loaded = Active

(* An operation that reports success has put its own entries into force,    *)
(* deletions included, however many others were running: of what it wrote,  *)
(* the automaton it swaps in has all that nobody has written since.         *)
OwnChangeIsInForce ==
    [][\A a \in Admins :
         At(a, "swap") /\ op'[a] = Idle =>
           \A id \in op[a].written :
             lastWriter[id] = a => loaded'[id] = Active[id]]_vars

(* A deleted entry becomes active again only when an update that had read   *)
(* it active, before the deletion was saved, writes it back.  An update     *)
(* begun after the deletion never does, whoever else is at work.            *)
OnlyALostDeletionRevives ==
    [][\A id \in Ids :
         Exists(id) /\ entry[id].deleted /\ ~entry'[id].deleted =>
           \E a \in missed :
              /\ At(a, "save") /\ op[a].kind = "update"
              /\ id \in ToWrite(a) /\ lastWriter'[id] = a]_vars
=============================================================================
