--------------------------- MODULE DictionaryProofs ---------------------------
(* Theorems about the customer's dictionary and the automaton, for any set  *)
(* of identifiers and terms and any number of concurrent administrators.    *)
EXTENDS Dictionary, TLAPS

-----------------------------------------------------------------------------
(* What an operation in hand looks like, before and after each step.        *)

LEMMA RunningIsTyped ==
    ASSUME TypeOK, NEW a \in Admins, NEW step, At(a, step)
    PROVE  op[a] \in Ops
  BY DEF TypeOK, At

LEMMA RowsAreRows ==
    /\ NoEntry \in Rows
    /\ \A t \in Terms, d \in BOOLEAN : [term |-> t, deleted |-> d] \in Rows
    /\ \A r \in Rows : r # NoEntry => r \in Entries
    /\ \A r \in Rows : r.deleted \in BOOLEAN
    /\ \A r \in Rows : ~r.deleted => r \in Entries
<1>1. NoEntry \in Rows /\ NoEntry.deleted = TRUE
  BY DEF Rows, NoEntry
<1>2. \A t \in Terms, d \in BOOLEAN : [term |-> t, deleted |-> d] \in Rows
  BY DEF Rows, Entries
<1>3. \A r \in Rows : r # NoEntry => r \in Entries
  BY DEF Rows
<1>4. \A r \in Entries : r.deleted \in BOOLEAN
  BY DEF Entries
<1> QED
  BY <1>1, <1>2, <1>3, <1>4, Zenon

LEMMA ActiveIsTyped ==
    ASSUME TypeOK
    PROVE  /\ Active \in [Ids -> Terms \union {None}]
           /\ \A id \in Ids : Active[id] # None => Exists(id)
<1>1. ASSUME NEW id \in Ids
      PROVE  /\ Active[id] \in Terms \union {None}
             /\ Active[id] # None => Exists(id)
  <2>1. entry[id] \in Rows
    BY DEF TypeOK
  <2> QED
    BY <2>1, RowsAreRows DEF Active, Exists, Entries, NoEntry
<1> QED
  BY <1>1 DEF Active

LEMMA BeginType ==
    ASSUME TypeOK, NEW a \in Admins, NEW kind \in Kinds,
           NEW todo \in [Ids -> Rows], Begin(a, kind, todo)
    PROVE  TypeOK'
<1> DEFINE step == IF \A id \in Ids : todo[id] = NoEntry THEN "list" ELSE "save"
           new == [kind |-> kind, step |-> step, todo |-> todo,
                   written |-> {}, listed |-> Nothing]
<1>1. new \in Ops /\ \A id \in Ids : new.listed[id] = None
  BY DEF Ops, Nothing
<1>2. op' = [op EXCEPT ![a] = new] /\ clean' \in BOOLEAN /\ missed' \subseteq Admins
      /\ UNCHANGED <<entry, loaded, lastWriter>>
  BY DEF Begin, TypeOK
<1> HIDE DEF new
<1> QED
  BY <1>1, <1>2 DEF TypeOK, IsIdle, Exists

\* The rows an operation sets out to write.
LEMMA ImportRows ==
    ASSUME NEW new \in [Ids -> Terms \union {None}]
    PROVE  [id \in Ids |-> IF new[id] = None THEN NoEntry
                           ELSE [term |-> new[id], deleted |-> FALSE]]
              \in [Ids -> Rows]
  BY RowsAreRows

LEMMA OneRow ==
    ASSUME NEW id \in Ids, NEW e \in Rows
    PROVE  /\ OnlyWrite(id, e) \in [Ids -> Rows]
           /\ OnlyWrite(id, e)[id] = e
           /\ \A j \in Ids : j # id => OnlyWrite(id, e)[j] = NoEntry
  BY RowsAreRows DEF OnlyWrite

LEMMA TypeStep == TypeOK /\ [Next]_vars => TypeOK'
<1> SUFFICES ASSUME TypeOK, [Next]_vars PROVE TypeOK'
  OBVIOUS
<1>1. ASSUME NEW a \in Admins, NEW new \in [Ids -> Terms \union {None}],
             Import(a, new)
      PROVE  TypeOK'
  BY <1>1, ImportRows, BeginType DEF Import, Kinds
<1>2. ASSUME NEW a \in Admins, NEW id \in Ids, NEW term \in Terms,
             Update(a, id, term)
      PROVE  TypeOK'
  <2>1. [term |-> term, deleted |-> entry[id].deleted] \in Rows
    BY RowsAreRows DEF TypeOK
  <2> QED
    BY <1>2, <2>1, OneRow, BeginType DEF Update, Kinds
<1>3. ASSUME NEW a \in Admins, NEW id \in Ids, Delete(a, id)
      PROVE  TypeOK'
  <2>1. entry[id] \in Entries
    BY <1>3, RowsAreRows DEF Delete, Exists, TypeOK
  <2>2. [term |-> entry[id].term, deleted |-> TRUE] \in Rows
    BY <2>1, RowsAreRows DEF Entries
  <2> QED
    BY <1>3, <2>2, OneRow, BeginType DEF Delete, Kinds
<1>4. ASSUME NEW a \in Admins, Save(a)
      PROVE  TypeOK'
  <2>1. PICK id \in ToWrite(a) : Written(a, id, "list")
    BY <1>4 DEF Save
  <2>2. op[a] \in Ops /\ id \in Ids /\ op[a].todo[id] # NoEntry
    BY <1>4, <2>1, RunningIsTyped DEF Save, ToWrite
  <2> DEFINE new == [kind |-> op[a].kind,
                     step |-> IF ToWrite(a) = {id} THEN "list" ELSE "save",
                     todo |-> [op[a].todo EXCEPT ![id] = NoEntry],
                     written |-> op[a].written \union {id},
                     listed |-> op[a].listed]
  <2>3. new \in Ops /\ new.listed = op[a].listed
    BY <2>2, RowsAreRows DEF Ops
  <2>4. op' = [op EXCEPT ![a] = new]
    BY <2>1 DEF Written
  <2>5. op[a].todo[id] \in Rows /\ entry' = [entry EXCEPT ![id] = op[a].todo[id]]
        /\ lastWriter' = [lastWriter EXCEPT ![id] = a]
        /\ missed' \subseteq Admins
    BY <2>1, <2>2 DEF Written, Ops, Overtakes, TypeOK
  <2>6. \A j \in Ids : Exists(j) => Exists(j)'
    BY <2>2, <2>5 DEF Exists, TypeOK
  <2>7. op[a] # Idle /\ UNCHANGED <<loaded, clean>>
    BY <1>4 DEF Save, At
  <2> HIDE DEF new
  <2> QED
    BY <2>2, <2>3, <2>4, <2>5, <2>6, <2>7 DEF TypeOK, IsIdle
<1>5. ASSUME NEW a \in Admins, SaveFails(a)
      PROVE  TypeOK'
  BY <1>5 DEF SaveFails, TypeOK, IsIdle, Exists
<1>6. ASSUME NEW a \in Admins, List(a)
      PROVE  TypeOK'
  <2> DEFINE new == [kind |-> op[a].kind, step |-> "swap", todo |-> op[a].todo,
                     written |-> op[a].written, listed |-> Active]
  <2>1. op[a] \in Ops
    BY <1>6, RunningIsTyped DEF List
  <2>2. new \in Ops /\ new.listed = Active
    BY <2>1, ActiveIsTyped DEF Ops
  <2>3. op' = [op EXCEPT ![a] = new] /\ UNCHANGED <<entry, loaded, lastWriter, missed, clean>>
    BY <1>6 DEF List
  <2> HIDE DEF new
  <2> QED
    BY <2>2, <2>3, ActiveIsTyped DEF TypeOK, IsIdle, Exists
<1>7. ASSUME NEW a \in Admins, ListFails(a)
      PROVE  TypeOK'
  BY <1>7 DEF ListFails, TypeOK, IsIdle, Exists
<1>8. ASSUME NEW a \in Admins, Swap(a)
      PROVE  TypeOK'
  <2>1. op[a] \in Ops /\ op[a] # Idle
    BY <1>8, RunningIsTyped DEF Swap, At
  <2>2. op[a].listed \in [Ids -> Terms \union {None}]
    BY <2>1 DEF Ops
  <2> QED
    BY <1>8, <2>1, <2>2 DEF Swap, TypeOK, IsIdle, Exists
<1>9. CASE UNCHANGED vars
  BY <1>9 DEF vars, TypeOK, IsIdle, Exists
<1> QED
  BY <1>1, <1>2, <1>3, <1>4, <1>5, <1>6, <1>7, <1>8, <1>9 DEF Next, Operation

LEMMA TypeInit == Init => TypeOK
  BY RowsAreRows DEF Init, TypeOK, Nothing, IsIdle

(* The table, the automaton and the operations keep their types, and every  *)
(* list on its way to the automaton names entries of the table only.        *)
THEOREM TypeCorrect == Spec => []TypeOK
<1> QED
  BY TypeInit, TypeStep, PTL DEF Spec

-----------------------------------------------------------------------------
(* What each kind of step does to the operations.                           *)

\* A step of a leaves the operations of the others alone.
OthersKeep(a) == \A b \in Admins \ {a} : op'[b] = op[b]

LEMMA BeginPuts ==
    ASSUME TypeOK, NEW a \in Admins, NEW kind, NEW todo, Begin(a, kind, todo)
    PROVE  /\ op'[a].kind = kind /\ op'[a].step # "swap" /\ op'[a].todo = todo
           /\ missed' = missed \ {a}
           /\ OthersKeep(a)
<1> DEFINE step == IF \A id \in Ids : todo[id] = NoEntry THEN "list" ELSE "save"
<1>1. op'[a] = [kind |-> kind, step |-> step, todo |-> todo,
                written |-> {}, listed |-> Nothing]
      /\ missed' = missed \ {a}
      /\ OthersKeep(a)
  BY DEF Begin, OthersKeep, TypeOK
<1>2. step # "swap"
  OBVIOUS
<1> HIDE DEF step
<1> QED
  BY <1>1, <1>2

LEMMA SavePuts ==
    ASSUME TypeOK, NEW a \in Admins, Save(a)
    PROVE  /\ op[a] \in Ops /\ op'[a] # Idle
           /\ op'[a].kind = op[a].kind /\ op'[a].step \in {"save", "list"}
           /\ OthersKeep(a)
           /\ \E id \in Ids :
                /\ missed' = missed \union Overtakes(a, id)
                /\ op[a].todo[id] # NoEntry /\ entry'[id] = op[a].todo[id]
                /\ lastWriter'[id] = a
                /\ op'[a].todo[id] = NoEntry /\ op'[a].written # {}
                /\ \A j \in Ids \ {id} :
                     /\ entry'[j] = entry[j] /\ lastWriter'[j] = lastWriter[j]
                     /\ op'[a].todo[j] = op[a].todo[j]
<1>1. PICK id \in ToWrite(a) : Written(a, id, "list")
  BY DEF Save
<1>2. op[a] \in Ops /\ id \in Ids /\ op[a].todo[id] # NoEntry
  BY <1>1, RunningIsTyped DEF Save, ToWrite
<1>3. /\ entry'[id] = op[a].todo[id] /\ lastWriter'[id] = a
      /\ missed' = missed \union Overtakes(a, id)
      /\ \A j \in Ids \ {id} : entry'[j] = entry[j] /\ lastWriter'[j] = lastWriter[j]
  BY <1>1, <1>2 DEF Written, TypeOK
<1> DEFINE new == [kind |-> op[a].kind,
                   step |-> IF ToWrite(a) = {id} THEN "list" ELSE "save",
                   todo |-> [op[a].todo EXCEPT ![id] = NoEntry],
                   written |-> op[a].written \union {id},
                   listed |-> op[a].listed]
<1>4. op'[a] = new /\ OthersKeep(a)
  BY <1>1 DEF Written, OthersKeep, TypeOK
<1>5. /\ new # Idle /\ new.kind = op[a].kind /\ new.step \in {"save", "list"}
      /\ new.todo = [op[a].todo EXCEPT ![id] = NoEntry] /\ new.written # {}
  BY DEF Idle
<1>6. op[a].todo \in [Ids -> Rows]
  BY <1>2 DEF Ops
<1> HIDE DEF new
<1>7. op'[a].todo[id] = NoEntry
      /\ \A j \in Ids \ {id} : op'[a].todo[j] = op[a].todo[j]
  BY <1>2, <1>4, <1>5, <1>6
<1> QED
  BY <1>2, <1>3, <1>4, <1>5, <1>7

LEMMA ListPuts ==
    ASSUME TypeOK, NEW a \in Admins, List(a)
    PROVE  /\ op'[a] # Idle /\ op'[a].kind = op[a].kind /\ op'[a].todo = op[a].todo
           /\ op'[a].step = "swap" /\ op'[a].listed = Active
           /\ OthersKeep(a)
<1>1. op'[a] = [kind |-> op[a].kind, step |-> "swap", todo |-> op[a].todo,
                written |-> op[a].written, listed |-> Active]
      /\ OthersKeep(a)
  BY DEF List, OthersKeep, TypeOK
<1> QED
  BY <1>1 DEF Idle

LEMMA EndPuts ==
    ASSUME TypeOK, NEW a \in Admins, SaveFails(a) \/ ListFails(a) \/ Swap(a)
    PROVE  op'[a] = Idle /\ OthersKeep(a)
  BY DEF SaveFails, ListFails, Swap, OthersKeep, TypeOK

\* The list depends on the table only.
LEMMA SameActive == UNCHANGED entry => Active' = Active
  BY DEF Active

\* The three ways to begin.
Begins(a) ==
    \/ \E new \in [Ids -> Terms \union {None}] : Import(a, new)
    \/ \E id \in Ids, term \in Terms : Update(a, id, term)
    \/ \E id \in Ids : Delete(a, id)

LEMMA BeginsBegin ==
    ASSUME NEW a \in Admins, Begins(a)
    PROVE  \E kind, todo : Begin(a, kind, todo)
  BY DEF Begins, Import, Update, Delete

LEMMA Steps ==
    ASSUME [Next]_vars
    PROVE  \/ \E a \in Admins : \/ Begins(a) \/ Save(a) \/ SaveFails(a)
                                \/ List(a) \/ ListFails(a) \/ Swap(a)
           \/ UNCHANGED vars
  BY DEF Next, Operation, Begins

-----------------------------------------------------------------------------
(***************************************************************************)
(* One administrator at a time.  While nothing has overlapped or broken    *)
(* off, one operation runs at most; until it has written something, and    *)
(* when none runs, the automaton is the active entries, and the list that  *)
(* is about to be swapped in is.                                           *)
(***************************************************************************)
Alone ==
    clean =>
      /\ \A a, b \in Admins : ~IsIdle(a) /\ ~IsIdle(b) => a = b
      /\ (\A a \in Admins : IsIdle(a)) => loaded = Active
      /\ \A a \in Admins :
           /\ At(a, "save") /\ op[a].written = {} => loaded = Active
           /\ At(a, "swap") => op[a].listed = Active

LEMMA AloneStep == TypeOK /\ Alone /\ [Next]_vars => Alone'
<1> SUFFICES ASSUME TypeOK, Alone, [Next]_vars, clean' PROVE Alone'
  BY DEF Alone
<1>1. ASSUME NEW a \in Admins, Begins(a)
      PROVE  Alone'
  <2>1. PICK kind, todo : Begin(a, kind, todo)
    BY <1>1, BeginsBegin
  <2>2. clean /\ (\A b \in Admins : IsIdle(b)) /\ UNCHANGED <<entry, loaded>>
    BY <2>1 DEF Begin
  <2>3. loaded = Active /\ loaded' = Active'
    BY <2>2, SameActive DEF Alone
  <2>4. \A b \in Admins : op'[b] # Idle => b = a
    BY <2>1, <2>2, BeginPuts DEF OthersKeep, IsIdle
  <2>5. op'[a].step # "swap"
    BY <2>1, BeginPuts DEF OthersKeep
  <2> QED
    BY <2>3, <2>4, <2>5 DEF Alone, At, IsIdle
<1>2. ASSUME NEW a \in Admins, Save(a)
      PROVE  Alone'
  <2>1. clean /\ ~IsIdle(a) /\ UNCHANGED loaded
    BY <1>2 DEF Save, At, IsIdle
  <2>2. OthersKeep(a)
    BY <1>2, SavePuts
  <2>3. \A b \in Admins : op'[b] # Idle => b = a
    BY <2>1, <2>2 DEF Alone, OthersKeep, IsIdle
  <2>4. op'[a] # Idle /\ op'[a].written # {} /\ op'[a].step # "swap"
    BY <1>2, SavePuts
  <2> QED
    BY <2>3, <2>4 DEF Alone, At, IsIdle
<1>3. ASSUME NEW a \in Admins, SaveFails(a)
      PROVE  Alone'
  <2>1. clean /\ At(a, "save") /\ op[a].written = {} /\ UNCHANGED <<entry, loaded>>
    BY <1>3 DEF SaveFails
  <2>2. loaded' = Active'
    BY <2>1, SameActive DEF Alone
  <2>3. \A b \in Admins : op'[b] = Idle
    BY <1>3, <2>1, EndPuts DEF Alone, OthersKeep, IsIdle, At
  <2> QED
    BY <2>2, <2>3 DEF Alone, At, IsIdle
<1>4. ASSUME NEW a \in Admins, List(a)
      PROVE  Alone'
  <2>1. clean /\ At(a, "list") /\ UNCHANGED <<entry, loaded>>
    BY <1>4 DEF List
  <2>2. OthersKeep(a)
    BY <1>4, ListPuts
  <2>3. op'[a] # Idle /\ op'[a].step = "swap" /\ op'[a].listed = Active'
    BY <1>4, <2>1, ListPuts, SameActive
  <2>4. \A b \in Admins : op'[b] # Idle => b = a
    BY <2>1, <2>2 DEF Alone, OthersKeep, IsIdle, At
  <2> QED
    BY <2>3, <2>4 DEF Alone, At, IsIdle
<1>5. ASSUME NEW a \in Admins, ListFails(a)
      PROVE  FALSE
  BY <1>5 DEF ListFails
<1>6. ASSUME NEW a \in Admins, Swap(a)
      PROVE  Alone'
  <2>1. clean /\ At(a, "swap") /\ loaded' = op[a].listed /\ UNCHANGED entry
    BY <1>6 DEF Swap
  <2>2. loaded' = Active'
    BY <2>1, SameActive DEF Alone
  <2>3. \A b \in Admins : op'[b] = Idle
    BY <1>6, <2>1, EndPuts DEF Alone, OthersKeep, IsIdle, At
  <2> QED
    BY <2>2, <2>3 DEF Alone, At, IsIdle
<1>7. CASE UNCHANGED vars
  BY <1>7, SameActive DEF vars, Alone, At, IsIdle
<1> QED
  BY <1>1, <1>2, <1>3, <1>4, <1>5, <1>6, <1>7, Steps

(* With one administrator at a time, and nothing broken off, the sanitiser  *)
(* matches the active entries and nothing else once an operation is over.   *)
THEOREM MatcherIsUpToDateWhenAlone == Spec => []UpToDateWhenAlone
<1>1. Init => Alone
  <2> SUFFICES ASSUME Init PROVE Alone
    OBVIOUS
  <2>1. loaded = Active
    BY DEF Init, Active, Nothing, NoEntry
  <2>2. \A a \in Admins : op[a] = Idle
    BY DEF Init
  <2> QED
    BY <2>1, <2>2 DEF Alone, At, IsIdle
<1>2. TypeOK /\ Alone => UpToDateWhenAlone
  BY DEF Alone, UpToDateWhenAlone
<1> QED
  BY <1>1, <1>2, AloneStep, TypeCorrect, PTL DEF Spec

-----------------------------------------------------------------------------
(***************************************************************************)
(* Several administrators.  A list that is on its way to the automaton may *)
(* be old, but not in what its own operation wrote and nobody has written  *)
(* since.                                                                  *)
(***************************************************************************)
ListHasOwn ==
    \A a \in Admins : At(a, "swap") =>
        \A id \in Ids : lastWriter[id] = a => op[a].listed[id] = Active[id]

LEMMA ListHasOwnStep == TypeOK /\ ListHasOwn /\ [Next]_vars => ListHasOwn'
<1> SUFFICES ASSUME TypeOK, ListHasOwn, [Next]_vars,
                    NEW b \in Admins, At(b, "swap")', NEW id \in Ids,
                    lastWriter'[id] = b
             PROVE  op'[b].listed[id] = Active'[id]
  BY DEF ListHasOwn
<1>1. ASSUME NEW a \in Admins, Begins(a)
      PROVE  op'[b].listed[id] = Active'[id]
  <2>1. PICK kind, todo : Begin(a, kind, todo)
    BY <1>1, BeginsBegin
  <2>2. UNCHANGED <<entry, lastWriter>> /\ b # a /\ op'[b] = op[b]
    BY <2>1, BeginPuts DEF Begin, OthersKeep, At
  <2> QED
    BY <2>2, SameActive DEF ListHasOwn, At
<1>2. ASSUME NEW a \in Admins, Save(a)
      PROVE  op'[b].listed[id] = Active'[id]
  <2>1. PICK saved \in Ids :
          /\ lastWriter'[saved] = a
          /\ \A j \in Ids \ {saved} :
               entry'[j] = entry[j] /\ lastWriter'[j] = lastWriter[j]
    BY <1>2, SavePuts
  <2>2. b # a /\ op'[b] = op[b]
    BY <1>2, SavePuts DEF OthersKeep, At
  <2>3. id # saved /\ UNCHANGED <<entry[id], lastWriter[id]>>
    BY <2>1, <2>2
  <2>4. Active'[id] = Active[id]
    BY <2>3 DEF Active
  <2> QED
    BY <2>2, <2>3, <2>4 DEF ListHasOwn, At
<1>3. ASSUME NEW a \in Admins, List(a)
      PROVE  op'[b].listed[id] = Active'[id]
  <2>1. UNCHANGED <<entry, lastWriter>>
    BY <1>3 DEF List
  <2>2. CASE b = a
    BY <1>3, <2>1, <2>2, ListPuts, SameActive DEF OthersKeep
  <2>3. CASE b # a
    BY <1>3, <2>1, <2>3, ListPuts, SameActive DEF OthersKeep, ListHasOwn, At
  <2> QED
    BY <2>2, <2>3
<1>4. ASSUME NEW a \in Admins, SaveFails(a) \/ ListFails(a) \/ Swap(a)
      PROVE  op'[b].listed[id] = Active'[id]
  <2>1. UNCHANGED <<entry, lastWriter>>
    BY <1>4 DEF SaveFails, ListFails, Swap
  <2>2. b # a /\ op'[b] = op[b]
    BY <1>4, EndPuts DEF OthersKeep, At
  <2> QED
    BY <2>1, <2>2, SameActive DEF ListHasOwn, At
<1>5. CASE UNCHANGED vars
  BY <1>5, SameActive DEF vars, ListHasOwn, At
<1> QED
  BY <1>1, <1>2, <1>3, <1>4, <1>5, Steps

\* Only its own swap ends an operation that has its list.
LEMMA EndOfSwap ==
    ASSUME TypeOK, [Next]_vars, NEW a \in Admins, At(a, "swap"), op'[a] = Idle
    PROVE  Swap(a)
<1>1. ~IsIdle(a) /\ op'[a] # op[a]
  BY DEF At, IsIdle
<1>2. ASSUME NEW b \in Admins, Begins(b)
      PROVE  FALSE
  <2>1. PICK kind, todo : Begin(b, kind, todo)
    BY <1>2, BeginsBegin
  <2>2. b # a
    BY <1>1, <2>1 DEF Begin
  <2> QED
    BY <1>1, <2>1, <2>2, BeginPuts DEF OthersKeep
<1>3. ASSUME NEW b \in Admins, Save(b)
      PROVE  FALSE
  <2>1. b # a
    BY <1>3 DEF Save, At
  <2> QED
    BY <1>1, <1>3, <2>1, SavePuts DEF OthersKeep
<1>4. ASSUME NEW b \in Admins, List(b)
      PROVE  FALSE
  <2>1. b # a
    BY <1>4 DEF List, At
  <2> QED
    BY <1>1, <1>4, <2>1, ListPuts DEF OthersKeep
<1>5. ASSUME NEW b \in Admins, SaveFails(b) \/ ListFails(b) \/ Swap(b)
      PROVE  Swap(a)
  <2>1. b = a
    BY <1>1, <1>5, EndPuts DEF OthersKeep
  <2> QED
    BY <1>5, <2>1 DEF SaveFails, ListFails, At
<1>6. CASE UNCHANGED vars
  BY <1>1, <1>6 DEF vars
<1> QED
  BY <1>2, <1>3, <1>4, <1>5, <1>6, Steps

\* What an operation has written is the table's.
LEMMA WrittenAreIds ==
    ASSUME TypeOK, NEW a \in Admins, NEW step, At(a, step)
    PROVE  op[a].written \subseteq Ids
  BY RunningIsTyped DEF Ops

(* An operation that reports success has put into force what it wrote and   *)
(* nobody has written since, however many others were running.              *)
THEOREM ReportedChangesAreInForce == Spec => OwnChangeIsInForce
<1>1. Init => ListHasOwn
  BY DEF Init, ListHasOwn, At
<1>2. TypeOK /\ ListHasOwn /\ [Next]_vars =>
        [\A a \in Admins :
           At(a, "swap") /\ op'[a] = Idle =>
             \A id \in op[a].written :
               lastWriter[id] = a => loaded'[id] = Active[id]]_vars
  <2> SUFFICES ASSUME TypeOK, ListHasOwn, [Next]_vars, NEW a \in Admins,
                      At(a, "swap"), op'[a] = Idle,
                      NEW id \in op[a].written, lastWriter[id] = a
               PROVE  loaded'[id] = Active[id]
    OBVIOUS
  <2>1. loaded' = op[a].listed
    BY EndOfSwap DEF Swap
  <2>2. id \in Ids
    BY WrittenAreIds
  <2> QED
    BY <2>1, <2>2 DEF ListHasOwn
<1> QED
  BY <1>1, <1>2, ListHasOwnStep, TypeCorrect, PTL DEF Spec, OwnChangeIsInForce

-----------------------------------------------------------------------------
(***************************************************************************)
(* Deleted entries.  An import writes identifiers that nobody has; what a  *)
(* deletion writes is deleted; and an update that is going to write an     *)
(* active entry over a deleted one has missed the deletion.                *)
(***************************************************************************)
ImportsAreFresh ==
    \A a \in Admins, id \in Ids :
        ~IsIdle(a) /\ op[a].kind = "import" /\ op[a].todo[id] # NoEntry =>
            /\ ~Exists(id)
            /\ \A b \in Admins \ {a} : ~IsIdle(b) => op[b].todo[id] = NoEntry

DeletionsDelete ==
    \A a \in Admins, id \in Ids :
        ~IsIdle(a) /\ op[a].kind = "delete" => op[a].todo[id].deleted

UpdatesReadActive ==
    \A a \in Admins, id \in Ids :
        (/\ ~IsIdle(a) /\ op[a].kind = "update" /\ ~op[a].todo[id].deleted
         /\ entry[id].deleted)
            => a \in missed

Revivals == ImportsAreFresh /\ DeletionsDelete /\ UpdatesReadActive

\* An operation that writes one entry.
LEMMA BeginsOne ==
    ASSUME TypeOK, Revivals, NEW a \in Admins, NEW kind \in {"update", "delete"},
           NEW id \in Ids, NEW e \in Rows, Exists(id),
           kind = "delete" => e.deleted,
           kind = "update" => e.deleted = entry[id].deleted,
           Begin(a, kind, OnlyWrite(id, e))
    PROVE  Revivals'
<1>1. UNCHANGED entry /\ NoEntry.deleted = TRUE
  BY DEF Begin, NoEntry
<1>2. /\ op'[a].kind = kind /\ op'[a].todo = OnlyWrite(id, e)
      /\ missed' = missed \ {a}
      /\ \A b \in Admins \ {a} : op'[b] = op[b]
  BY BeginPuts DEF OthersKeep
<1>3. ImportsAreFresh'
  <2> SUFFICES ASSUME NEW b \in Admins, NEW j \in Ids, op'[b] # Idle,
                      op'[b].kind = "import", op'[b].todo[j] # NoEntry
               PROVE  /\ ~Exists(j)'
                      /\ \A c \in Admins \ {b} :
                           op'[c] # Idle => op'[c].todo[j] = NoEntry
    BY DEF ImportsAreFresh, IsIdle
  <2>1. b # a /\ op'[b] = op[b]
    BY <1>2
  <2>2. /\ ~Exists(j)
        /\ \A c \in Admins \ {b} : op[c] # Idle => op[c].todo[j] = NoEntry
    BY <2>1 DEF Revivals, ImportsAreFresh, IsIdle
  <2>3. op'[a].todo[j] = NoEntry
    BY <1>2, <2>2, OneRow
  <2> QED
    BY <1>1, <1>2, <2>2, <2>3 DEF Exists
<1>4. DeletionsDelete'
  <2> SUFFICES ASSUME NEW b \in Admins, NEW j \in Ids, op'[b] # Idle,
                      op'[b].kind = "delete"
               PROVE  op'[b].todo[j].deleted
    BY DEF DeletionsDelete, IsIdle
  <2>1. CASE b = a
    <3>1. op'[b].todo[j] = e \/ op'[b].todo[j] = NoEntry
      BY <1>2, <2>1, OneRow
    <3>2. kind = "delete"
      BY <1>2, <2>1
    <3> QED
      BY <1>1, <3>1, <3>2, Zenon
  <2>2. CASE b # a
    BY <1>2, <2>2, Zenon DEF Revivals, DeletionsDelete, IsIdle
  <2> QED
    BY <2>1, <2>2
<1>5. UpdatesReadActive'
  <2> SUFFICES ASSUME NEW b \in Admins, NEW j \in Ids, op'[b] # Idle,
                      op'[b].kind = "update", ~op'[b].todo[j].deleted,
                      entry[j].deleted
               PROVE  b \in missed'
    BY <1>1 DEF UpdatesReadActive, IsIdle
  <2>1. CASE b = a
    <3>1. j = id /\ kind = "update" /\ ~e.deleted
      BY <1>1, <1>2, <2>1, OneRow
    <3> QED
      BY <3>1
  <2>2. CASE b # a
    BY <1>2, <2>2 DEF Revivals, UpdatesReadActive, IsIdle
  <2> QED
    BY <2>1, <2>2
<1> QED
  BY <1>3, <1>4, <1>5 DEF Revivals

\* Steps that leave the entries and what is to be written as they are.
LEMMA RevivalsKept ==
    ASSUME Revivals, UNCHANGED <<entry, missed>>,
           \A b \in Admins : op'[b] # Idle =>
               /\ op[b] # Idle
               /\ op'[b].kind = op[b].kind /\ op'[b].todo = op[b].todo
    PROVE  Revivals'
<1>1. ImportsAreFresh'
  BY DEF Revivals, ImportsAreFresh, IsIdle, Exists
<1>2. DeletionsDelete'
  BY DEF Revivals, DeletionsDelete, IsIdle
<1>3. UpdatesReadActive'
  BY DEF Revivals, UpdatesReadActive, IsIdle
<1> QED
  BY <1>1, <1>2, <1>3 DEF Revivals

LEMMA RevivalsStep == TypeOK /\ Revivals /\ [Next]_vars => Revivals'
<1> SUFFICES ASSUME TypeOK, Revivals, [Next]_vars PROVE Revivals'
  OBVIOUS
<1>1. ASSUME NEW a \in Admins, NEW new \in [Ids -> Terms \union {None}],
             Import(a, new)
      PROVE  Revivals'
  <2> DEFINE todo == [id \in Ids |-> IF new[id] = None THEN NoEntry
                                     ELSE [term |-> new[id], deleted |-> FALSE]]
  <2>1. Begin(a, "import", todo) /\ UNCHANGED entry
    BY <1>1 DEF Import, Begin
  <2>2. /\ op'[a].kind = "import" /\ op'[a].todo = todo
        /\ missed' = missed \ {a}
        /\ \A b \in Admins \ {a} : op'[b] = op[b]
    BY <2>1, BeginPuts DEF OthersKeep
  <2>3. \A id \in Ids : todo[id] # NoEntry => ~Exists(id) /\ ~Drawn(id)
    BY <1>1 DEF Import
  <2> HIDE DEF todo
  <2>4. ImportsAreFresh'
    BY <2>1, <2>2, <2>3 DEF Revivals, ImportsAreFresh, IsIdle, Exists, Drawn
  <2>5. DeletionsDelete'
    BY <2>1, <2>2 DEF Revivals, DeletionsDelete, IsIdle
  <2>6. UpdatesReadActive'
    BY <2>1, <2>2 DEF Revivals, UpdatesReadActive, IsIdle
  <2> QED
    BY <2>4, <2>5, <2>6 DEF Revivals
<1>2. ASSUME NEW a \in Admins, NEW id \in Ids, NEW term \in Terms,
             Update(a, id, term)
      PROVE  Revivals'
  <2>1. [term |-> term, deleted |-> entry[id].deleted] \in Rows
    BY RowsAreRows DEF TypeOK
  <2> QED
    BY <1>2, <2>1, BeginsOne DEF Update
<1>3. ASSUME NEW a \in Admins, NEW id \in Ids, Delete(a, id)
      PROVE  Revivals'
  <2>1. entry[id] \in Entries
    BY <1>3, RowsAreRows DEF Delete, Exists, TypeOK
  <2>2. [term |-> entry[id].term, deleted |-> TRUE] \in Rows
    BY <2>1, RowsAreRows DEF Entries
  <2> QED
    BY <1>3, <2>2, BeginsOne DEF Delete
<1>4. ASSUME NEW a \in Admins, Save(a)
      PROVE  Revivals'
  <2>1. PICK saved \in Ids :
          /\ missed' = missed \union Overtakes(a, saved)
          /\ op[a].todo[saved] # NoEntry /\ entry'[saved] = op[a].todo[saved]
          /\ op'[a].todo[saved] = NoEntry
          /\ \A j \in Ids \ {saved} :
               /\ entry'[j] = entry[j]
               /\ op'[a].todo[j] = op[a].todo[j]
    BY <1>4, SavePuts
  <2>2. ~IsIdle(a) /\ NoEntry.deleted = TRUE
    BY <1>4 DEF Save, At, IsIdle, NoEntry
  <2>3. /\ op'[a].kind = op[a].kind
        /\ \A b \in Admins \ {a} : op'[b] = op[b]
    BY <1>4, SavePuts DEF OthersKeep
  <2>4. /\ op'[a].todo[saved] = NoEntry
        /\ \A j \in Ids \ {saved} : op'[a].todo[j] = op[a].todo[j]
    BY <2>1
  <2>5. ImportsAreFresh'
    <3> SUFFICES ASSUME NEW b \in Admins, NEW id \in Ids, op'[b] # Idle,
                        op'[b].kind = "import", op'[b].todo[id] # NoEntry
                 PROVE  /\ ~Exists(id)'
                        /\ \A c \in Admins \ {b} :
                             op'[c] # Idle => op'[c].todo[id] = NoEntry
      BY DEF ImportsAreFresh, IsIdle
    <3>1. op[b] # Idle /\ op[b].kind = "import" /\ op[b].todo[id] # NoEntry
      BY <2>2, <2>3, <2>4 DEF IsIdle
    <3>2. /\ ~Exists(id)
          /\ \A c \in Admins \ {b} : op[c] # Idle => op[c].todo[id] = NoEntry
      BY <3>1 DEF Revivals, ImportsAreFresh, IsIdle
    <3>3. id # saved
      BY <2>1, <2>2, <2>4, <3>2 DEF IsIdle
    <3> QED
      BY <2>1, <2>2, <2>3, <2>4, <3>2, <3>3 DEF Exists, IsIdle
  <2>6. DeletionsDelete'
    <3> SUFFICES ASSUME NEW b \in Admins, NEW id \in Ids, op'[b] # Idle,
                        op'[b].kind = "delete"
                 PROVE  op'[b].todo[id].deleted
      BY DEF DeletionsDelete, IsIdle
    <3>1. op[b] # Idle /\ op[b].kind = "delete"
      BY <2>2, <2>3 DEF IsIdle
    <3>2. op[b].todo[id].deleted
      BY <3>1 DEF Revivals, DeletionsDelete, IsIdle
    <3>3. op'[b].todo[id] = op[b].todo[id] \/ op'[b].todo[id] = NoEntry
      BY <2>3, <2>4
    <3> QED
      BY <2>2, <3>2, <3>3, Zenon
  <2>7. UpdatesReadActive'
    <3> SUFFICES ASSUME NEW b \in Admins, NEW id \in Ids, op'[b] # Idle,
                        op'[b].kind = "update", ~op'[b].todo[id].deleted,
                        entry'[id].deleted
                 PROVE  b \in missed'
      BY DEF UpdatesReadActive, IsIdle
    <3>1. op[b] # Idle /\ op[b].kind = "update"
      BY <2>2, <2>3 DEF IsIdle
    <3>2. CASE id = saved
      <4>1. b # a /\ op'[b] = op[b]
        BY <2>2, <2>3, <2>4, <3>2, Zenon
      <4>2. op[b].todo[id] # NoEntry /\ op[a].todo[id].deleted
        BY <2>1, <2>2, <3>2, <4>1
      <4>3. CASE entry[id].deleted
        BY <2>1, <3>1, <4>1, <4>3, Zenon DEF Revivals, UpdatesReadActive, IsIdle
      <4>4. CASE ~entry[id].deleted
        <5>1. b \in Overtakes(a, id)
          BY <3>1, <4>1, <4>2, <4>4 DEF Overtakes, IsIdle
        <5> QED
          BY <2>1, <3>2, <5>1
      <4> QED
        BY <4>3, <4>4
    <3>3. CASE id # saved
      <4>1. entry'[id] = entry[id] /\ op'[b].todo[id] = op[b].todo[id]
        BY <2>1, <2>3, <2>4, <3>3
      <4>2. b \in missed
        BY <3>1, <4>1, Zenon DEF Revivals, UpdatesReadActive, IsIdle
      <4> QED
        BY <2>1, <4>2
    <3> QED
      BY <3>2, <3>3
  <2> QED
    BY <2>5, <2>6, <2>7 DEF Revivals
<1>5. ASSUME NEW a \in Admins, List(a)
      PROVE  Revivals'
  <2>1. UNCHANGED <<entry, missed>> /\ op[a] # Idle
    BY <1>5 DEF List, At
  <2>3. /\ op'[a].kind = op[a].kind /\ op'[a].todo = op[a].todo
        /\ \A b \in Admins \ {a} : op'[b] = op[b]
    BY <1>5, ListPuts DEF OthersKeep
  <2> QED
    BY <2>1, <2>3, RevivalsKept
<1>6. ASSUME NEW a \in Admins, SaveFails(a) \/ ListFails(a) \/ Swap(a)
      PROVE  Revivals'
  <2>1. UNCHANGED <<entry, missed>>
    BY <1>6 DEF SaveFails, ListFails, Swap
  <2>2. op'[a] = Idle /\ \A b \in Admins \ {a} : op'[b] = op[b]
    BY <1>6, EndPuts DEF OthersKeep
  <2> QED
    BY <2>1, <2>2, RevivalsKept
<1>7. CASE UNCHANGED vars
  BY <1>7, RevivalsKept DEF vars
<1> QED
  BY <1>1, <1>2, <1>3, <1>4, <1>5, <1>6, <1>7, Steps DEF Begins

(* A deleted entry becomes active again only when an update that had read   *)
(* it active before the deletion is saved.                                  *)
THEOREM DeletionsAreLostToUpdatesOnly == Spec => OnlyALostDeletionRevives
<1>1. Init => Revivals
  <2> SUFFICES ASSUME Init PROVE Revivals
    OBVIOUS
  <2>1. \A a \in Admins : IsIdle(a)
    BY DEF Init, IsIdle
  <2> QED
    BY <2>1 DEF Revivals, ImportsAreFresh, DeletionsDelete, UpdatesReadActive
<1>2. TypeOK /\ Revivals /\ [Next]_vars =>
        [\A id \in Ids :
           Exists(id) /\ entry[id].deleted /\ ~entry'[id].deleted =>
             \E a \in missed :
                /\ At(a, "save") /\ op[a].kind = "update"
                /\ id \in ToWrite(a) /\ lastWriter'[id] = a]_vars
  <2> SUFFICES ASSUME TypeOK, Revivals, [Next]_vars, NEW id \in Ids,
                      Exists(id), entry[id].deleted, ~entry'[id].deleted
               PROVE  \E a \in missed :
                        /\ At(a, "save") /\ op[a].kind = "update"
                        /\ id \in ToWrite(a) /\ lastWriter'[id] = a
    OBVIOUS
  <2>1. PICK a \in Admins : Save(a)
    BY Steps, BeginsBegin DEF Begin, SaveFails, List, ListFails, Swap, vars
  <2>2. PICK saved \in Ids :
          /\ op[a].todo[saved] # NoEntry /\ entry'[saved] = op[a].todo[saved]
          /\ lastWriter'[saved] = a
          /\ \A j \in Ids \ {saved} : entry'[j] = entry[j]
    BY <2>1, SavePuts
  <2>3. /\ saved = id /\ ~op[a].todo[id].deleted /\ op[a].todo[id] # NoEntry
        /\ lastWriter'[id] = a
    BY <2>2
  <2>4. At(a, "save") /\ ~IsIdle(a) /\ op[a].kind \in Kinds
    BY <2>1, SavePuts DEF Save, At, IsIdle, Ops
  <2>5. op[a].kind = "update"
    BY <2>3, <2>4 DEF Revivals, ImportsAreFresh, DeletionsDelete, Kinds
  <2>6. a \in missed
    BY <2>3, <2>4, <2>5 DEF Revivals, UpdatesReadActive
  <2> QED
    BY <2>3, <2>4, <2>5, <2>6 DEF ToWrite
<1> QED
  BY <1>1, <1>2, RevivalsStep, TypeCorrect, PTL DEF Spec, OnlyALostDeletionRevives

=============================================================================
