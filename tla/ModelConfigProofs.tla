-------------------------- MODULE ModelConfigProofs --------------------------
(* Theorems about the administration of model configurations, for any set   *)
(* of configurations, of concurrent administrators and of endpoints.        *)
EXTENDS ModelConfig, TLAPS

(***************************************************************************)
(* The marks of a row are written together, from a copy made earlier.  The *)
(* invariants therefore speak of the copies as much as of the rows.        *)
(***************************************************************************)

\* A copy in a running operation.
Running(a) == op[a] # Idle

\* No copy of a current row, and none that a switch will make current, is
\* disabled.
CopiesEnabled ==
    \A a \in Admins :
        Running(a) /\ (op[a].copy.isCurrent \/ op[a].kind = "switch")
            => op[a].copy.enabled

\* LiteLLM knows every configuration that is, was or is about to be current.
CopiesRegistered ==
    \A a \in Admins : Running(a) =>
        /\ op[a].copy.isCurrent => registry[op[a].id] # None
        /\ (op[a].kind = "switch" /\ op[a].step # "sync")
             => registry[op[a].id] # None

\* The unique index: no two rows are current.
OneCurrent == \A i, j \in Current : i = j

\* The row an operation works on is in the table.
RunsOnExisting == \A a \in Admins : Running(a) => op[a].id \in existing

\* What a switch stores has just passed its probe.
SwitchesProbed ==
    \A a \in Admins :
        Running(a) /\ op[a].kind = "switch" /\ op[a].step = "save"
            => op[a].copy.probePassed

\* No operation but the switch's transaction touches is_current in its copy.
CopiesKeepMark ==
    \A a \in Admins :
        Running(a) => op[a].copy.isCurrent = op[a].base.isCurrent

Marks ==
    /\ CurrentIsEnabled /\ CopiesEnabled
    /\ CurrentIsRegistered /\ CopiesRegistered
    /\ OneCurrent
    /\ RunsOnExisting
    /\ SwitchesProbed
    /\ CopiesKeepMark

IInv == TypeOK /\ Marks

-----------------------------------------------------------------------------
LEMMA InitType == Init => TypeOK
<1> SUFFICES ASSUME Init, NEW e \in Endpoints, row = [id \in Configs |-> NewRow(e)]
             PROVE TypeOK
  BY DEF Init
<1>1. row \in [Configs -> Rows]
  BY DEF NewRow, Rows
<1>2. registry \in [Configs -> Endpoints \union {None}]
  BY DEF Init
<1>3. op \in [Admins -> Ops \union {Idle}] /\ \A a \in Admins : op[a] = Idle
  BY DEF Init
<1>4. existing \subseteq Configs /\ clean \in BOOLEAN
  BY DEF Init
<1>5. QED
  BY <1>1, <1>2, <1>3, <1>4 DEF TypeOK, StepFitsKind, At

\* Begin puts an operation in place; its copy has the types of a row.
LEMMA BeginType ==
    ASSUME TypeOK, NEW a \in Admins, NEW id \in Configs,
           NEW kind \in Kinds, NEW step \in Steps, NEW copy \in Rows,
           Begin(a, kind, id, step, copy),
           step = "sync" => \/ kind = "switch"
                            \/ /\ kind = "update"
                               /\ copy.isCurrent
                               /\ copy.endpoint # row[id].endpoint,
           step = "probe" => kind \in {"switch", "probe"},
           step # "restore"
    PROVE  TypeOK'
<1> DEFINE new == [kind |-> kind, step |-> step, id |-> id,
                   copy |-> copy, base |-> row[id]]
<1>1. new \in Ops
  BY DEF TypeOK, Ops
<1>2. op' = [op EXCEPT ![a] = new]
  BY DEF Begin
<1>3. op' \in [Admins -> Ops \union {Idle}]
  BY <1>1, <1>2 DEF TypeOK
<1>4. ASSUME NEW b \in Admins
      PROVE StepFitsKind(b)'
  <2>1. CASE b = a
    <3>1. op'[b] = new
      BY <1>2, <2>1 DEF TypeOK
    <3>2. QED
      BY <3>1 DEF StepFitsKind, At, Resyncs
  <2>2. CASE b # a
    <3>1. op'[b] = op[b]
      BY <1>2, <2>2 DEF TypeOK
    <3>2. QED
      BY <3>1 DEF StepFitsKind, At, Resyncs, TypeOK
  <2>3. QED
    BY <2>1, <2>2
<1>5. clean' \in BOOLEAN
  BY DEF Begin
<1>6. UNCHANGED <<existing, row, registry>>
  BY DEF Begin
<1>7. QED
  BY <1>3, <1>4, <1>5, <1>6 DEF TypeOK

\* An operation that ends, or goes on with a copy of the same row.
LEMMA FinishType ==
    ASSUME TypeOK, NEW a \in Admins, Finish(a)
    PROVE  /\ op' \in [Admins -> Ops \union {Idle}]
           /\ \A b \in Admins : StepFitsKind(b)'
<1>1. op' = [op EXCEPT ![a] = Idle]
  BY DEF Finish
<1>2. op' \in [Admins -> Ops \union {Idle}]
  BY <1>1 DEF TypeOK
<1>3. op'[a] = Idle /\ \A b \in Admins \ {a} : op'[b] = op[b]
  BY <1>1 DEF TypeOK
<1>4. QED
  BY <1>2, <1>3 DEF StepFitsKind, At, Resyncs, TypeOK

LEMMA ContinueType ==
    ASSUME TypeOK, NEW a \in Admins, Running(a),
           NEW step \in {"probe", "save", "restore"}, NEW copy \in Rows,
           Continue(a, step, copy),
           step = "probe" => op[a].kind = "switch"
                             \/ (Resyncs(a) /\ copy = op[a].copy),
           step = "restore" => Resyncs(a) /\ copy = op[a].copy
    PROVE  /\ op' \in [Admins -> Ops \union {Idle}]
           /\ op'[a] = [kind |-> op[a].kind, step |-> step, id |-> op[a].id,
                        copy |-> copy, base |-> op[a].base]
           /\ \A b \in Admins : StepFitsKind(b)'
<1> DEFINE new == [kind |-> op[a].kind, step |-> step, id |-> op[a].id,
                   copy |-> copy, base |-> op[a].base]
<1>1. op[a] \in Ops
  BY DEF TypeOK, Running
<1>2. op' = [op EXCEPT ![a] = new]
  BY DEF Continue, TypeOK
<1>3. new \in Ops
  BY <1>1 DEF Ops, Steps
<1>4. op' \in [Admins -> Ops \union {Idle}]
  BY <1>2, <1>3 DEF TypeOK
<1>5. op'[a] = new /\ \A b \in Admins \ {a} : op'[b] = op[b]
  BY <1>2 DEF TypeOK
<1>6. QED
  BY <1>4, <1>5 DEF StepFitsKind, At, Resyncs, TypeOK

LEMMA RowOfConfig == ASSUME TypeOK, NEW id \in Configs PROVE row[id] \in Rows
  BY DEF TypeOK

LEMMA CopyOfRunning ==
    ASSUME TypeOK, NEW a \in Admins, NEW step, At(a, step)
    PROVE  Running(a) /\ op[a] \in Ops
  BY DEF TypeOK, At, Running

LEMMA TypeStep == TypeOK /\ [Next]_vars => TypeOK'
<1> SUFFICES ASSUME TypeOK, [Next]_vars PROVE TypeOK'
  OBVIOUS
<1>1. ASSUME NEW a \in Admins, NEW id \in Configs, NEW e \in Endpoints,
             Create(a, id, e)
      PROVE  TypeOK'
  <2>1. NewRow(e) \in Rows
    BY DEF NewRow, Rows
  <2>2. row' \in [Configs -> Rows] /\ existing' \subseteq Configs
    BY <1>1, <2>1 DEF Create, TypeOK
  <2>3. QED
    BY <1>1, <2>2 DEF Create, TypeOK, StepFitsKind, At, Resyncs
<1>2. ASSUME NEW a \in Admins, NEW id \in Configs, NEW e \in Endpoints,
             Update(a, id, e)
      PROVE  TypeOK'
  <2> DEFINE changed == e # row[id].endpoint
             copy == [endpoint |-> e,
                      enabled |-> row[id].enabled,
                      probePassed |-> row[id].probePassed /\ ~changed,
                      isCurrent |-> row[id].isCurrent]
             step == IF changed /\ row[id].isCurrent THEN "sync" ELSE "save"
  <2>1. row[id] \in Rows
    BY RowOfConfig
  <2>2. copy \in Rows
    BY <2>1 DEF Rows
  <2>3. Begin(a, "update", id, step, copy)
    BY <1>2 DEF Update
  <2>4. step \in Steps /\ step \notin {"probe", "restore"} /\ "update" \in Kinds
    BY DEF Steps, Kinds
  <2>5. step = "sync" => copy.isCurrent /\ copy.endpoint # row[id].endpoint
    OBVIOUS
  <2> HIDE DEF copy, step
  <2>6. QED
    BY <2>2, <2>3, <2>4, <2>5, BeginType
<1>3. ASSUME NEW a \in Admins, NEW id \in Configs, Enable(a, id)
      PROVE  TypeOK'
  <2>1. [row[id] EXCEPT !.enabled = TRUE] \in Rows
    BY RowOfConfig DEF Rows
  <2>2. QED
    BY <1>3, <2>1, BeginType DEF Enable, Steps, Kinds
<1>4. ASSUME NEW a \in Admins, NEW id \in Configs, Disable(a, id)
      PROVE  TypeOK'
  <2>1. [row[id] EXCEPT !.enabled = FALSE] \in Rows
    BY RowOfConfig DEF Rows
  <2>2. QED
    BY <1>4, <2>1, BeginType DEF Disable, Steps, Kinds
<1>5. ASSUME NEW a \in Admins, NEW id \in Configs, SwitchCurrent(a, id)
      PROVE  TypeOK'
  BY <1>5, RowOfConfig, BeginType DEF SwitchCurrent, Steps, Kinds
<1>6. ASSUME NEW a \in Admins, NEW id \in Configs, Probe(a, id)
      PROVE  TypeOK'
  BY <1>6, RowOfConfig, BeginType DEF Probe, Steps, Kinds
<1>7. ASSUME NEW a \in Admins, SyncDone(a) PROVE TypeOK'
  <2>1. Running(a) /\ op[a] \in Ops
    BY <1>7, CopyOfRunning DEF SyncDone
  <2>2. op[a].copy \in Rows /\ op[a].copy.endpoint \in Endpoints
    BY <2>1 DEF Ops, Rows
  <2>3. registry' \in [Configs -> Endpoints \union {None}]
    BY <1>7, <2>2 DEF SyncDone, Register, TypeOK
  <2>4. Continue(a, "probe", op[a].copy)
    BY <1>7 DEF SyncDone
  <2>5. op[a].kind = "switch" \/ Resyncs(a)
    BY <1>7 DEF SyncDone, TypeOK, StepFitsKind
  <2>6. QED
    BY <1>7, <2>1, <2>2, <2>3, <2>4, <2>5, ContinueType DEF SyncDone, TypeOK
<1>8. ASSUME NEW a \in Admins, SyncFailed(a) PROVE TypeOK'
  <2>1. op[a].copy.endpoint \in Endpoints
    BY <1>8, CopyOfRunning DEF SyncFailed, Ops, Rows
  <2>2. registry' \in [Configs -> Endpoints \union {None}] /\ clean' \in BOOLEAN
    BY <1>8, <2>1 DEF SyncFailed, Register, TypeOK
  <2>3. QED
    BY <1>8, <2>2, FinishType DEF SyncFailed, TypeOK
<1>9. ASSUME NEW a \in Admins, ProbePassed(a) PROVE TypeOK'
  <2>1. Running(a) /\ op[a] \in Ops
    BY <1>9, CopyOfRunning DEF ProbePassed
  <2>2. [op[a].copy EXCEPT !.probePassed = TRUE] \in Rows
    BY <2>1 DEF Ops, Rows
  <2>3. QED
    BY <1>9, <2>1, <2>2, ContinueType DEF ProbePassed, TypeOK
<1>10. ASSUME NEW a \in Admins, ProbeFailed(a) PROVE TypeOK'
  <2>1. Running(a) /\ op[a] \in Ops
    BY <1>10, CopyOfRunning DEF ProbeFailed
  <2>2. op[a].copy \in Rows /\ [op[a].copy EXCEPT !.probePassed = FALSE] \in Rows
    BY <2>1 DEF Ops, Rows
  <2>3. CASE op[a].kind = "probe"
    BY <1>10, <2>1, <2>2, <2>3, ContinueType DEF ProbeFailed, TypeOK
  <2>4. CASE op[a].kind = "update"
    <3>1. Resyncs(a)
      BY <1>10, <2>4 DEF ProbeFailed, TypeOK, StepFitsKind
    <3>2. QED
      BY <1>10, <2>1, <2>2, <2>4, <3>1, ContinueType DEF ProbeFailed, TypeOK
  <2>5. CASE op[a].kind = "switch"
    BY <1>10, <2>5, FinishType DEF ProbeFailed, TypeOK
  <2>6. QED
    BY <1>10, <2>3, <2>4, <2>5 DEF ProbeFailed
<1>11. ASSUME NEW a \in Admins, RestoreDone(a) PROVE TypeOK'
  <2>1. op[a].base.endpoint \in Endpoints
    BY <1>11, CopyOfRunning DEF RestoreDone, Ops, Rows
  <2>2. registry' \in [Configs -> Endpoints \union {None}]
    BY <1>11, <2>1 DEF RestoreDone, Register, TypeOK
  <2>3. QED
    BY <1>11, <2>2, FinishType DEF RestoreDone, TypeOK
<1>12. ASSUME NEW a \in Admins, RestoreFailed(a) PROVE TypeOK'
  BY <1>12, FinishType DEF RestoreFailed, TypeOK
<1>13. ASSUME NEW a \in Admins, Save(a) PROVE TypeOK'
  <2>1. op[a].copy \in Rows
    BY <1>13, CopyOfRunning DEF Save, Ops
  <2>2. row' \in [Configs -> Rows]
    BY <1>13, <2>1 DEF Save, TypeOK
  <2>3. QED
    BY <1>13, <2>2, FinishType DEF Save, TypeOK
<1>14. ASSUME NEW a \in Admins, SaveAndSetCurrent(a) PROVE TypeOK'
  <2>1. op[a].copy \in Rows
    BY <1>14, CopyOfRunning DEF SaveAndSetCurrent, Ops
  <2>2. [op[a].copy EXCEPT !.isCurrent = TRUE] \in Rows
    BY <2>1 DEF Rows
  <2>3. \A j \in Configs : [row[j] EXCEPT !.isCurrent = FALSE] \in Rows
    BY RowOfConfig DEF Rows
  <2>4. row' \in [Configs -> Rows]
    BY <1>14, <2>2, <2>3, RowOfConfig DEF SaveAndSetCurrent
  <2>5. QED
    BY <1>14, <2>4, FinishType DEF SaveAndSetCurrent, TypeOK
<1>15. ASSUME NEW a \in Admins, SaveFailed(a) PROVE TypeOK'
  <2>1. Running(a) /\ op[a].copy \in Rows
    BY <1>15, CopyOfRunning DEF SaveFailed, Ops
  <2>2. CASE Resyncs(a) /\ Continue(a, "restore", op[a].copy)
    BY <1>15, <2>1, <2>2, ContinueType DEF SaveFailed, TypeOK
  <2>3. CASE Finish(a)
    BY <1>15, <2>3, FinishType DEF SaveFailed, TypeOK
  <2>4. QED
    BY <1>15, <2>2, <2>3 DEF SaveFailed, AfterFailedSave
<1>16. CASE UNCHANGED vars
  BY <1>16 DEF vars, TypeOK, StepFitsKind, At, Resyncs
<1>17. QED
  BY <1>1, <1>2, <1>3, <1>4, <1>5, <1>6, <1>7, <1>8, <1>9, <1>10, <1>11,
     <1>12, <1>13, <1>14, <1>15, <1>16 DEF Next, Operation

(* The working copies, the steps and the rows stay within their types, and  *)
(* only an update of the current configuration undoes a sync.               *)
THEOREM TypeCorrect == Spec => []TypeOK
  BY InitType, TypeStep, PTL DEF Spec

-----------------------------------------------------------------------------
(* The marks of rows and copies. *)

\* What an operation may begin with.
LEMMA BeginMarks ==
    ASSUME TypeOK, Marks, NEW a \in Admins, NEW id \in Configs,
           NEW kind \in Kinds, NEW step \in Steps, NEW copy \in Rows,
           Begin(a, kind, id, step, copy),
           copy.isCurrent = row[id].isCurrent,
           copy.isCurrent \/ kind = "switch" => copy.enabled,
           kind = "switch" => step = "sync"
    PROVE  Marks'
<1>1. /\ id \in existing
      /\ op' = [op EXCEPT ![a] = [kind |-> kind, step |-> step, id |-> id,
                                  copy |-> copy, base |-> row[id]]]
      /\ UNCHANGED <<existing, row, registry>>
  BY DEF Begin
<1>2. /\ op'[a] = [kind |-> kind, step |-> step, id |-> id,
                   copy |-> copy, base |-> row[id]]
      /\ \A b \in Admins \ {a} : op'[b] = op[b]
  BY <1>1 DEF TypeOK
<1>3. copy.isCurrent => registry[id] # None
  BY <1>1 DEF Marks, CurrentIsRegistered, Current
<1>4. /\ CopiesEnabled' /\ CopiesRegistered' /\ RunsOnExisting'
      /\ SwitchesProbed' /\ CopiesKeepMark'
  BY <1>1, <1>2, <1>3
     DEF Marks, CopiesEnabled, CopiesRegistered, RunsOnExisting,
         SwitchesProbed, CopiesKeepMark, Running
<1>5. CurrentIsEnabled' /\ CurrentIsRegistered' /\ OneCurrent'
  BY <1>1 DEF Marks, CurrentIsEnabled, CurrentIsRegistered, OneCurrent, Current
<1>6. QED
  BY <1>4, <1>5 DEF Marks

\* A step that ends an operation and leaves the table alone; the registry
\* may gain an entry and loses none.
LEMMA FinishMarks ==
    ASSUME TypeOK, Marks, NEW a \in Admins, Finish(a),
           UNCHANGED <<existing, row>>,
           \A id \in Configs : registry[id] # None => registry'[id] # None
    PROVE  Marks'
<1>1. op'[a] = Idle /\ \A b \in Admins \ {a} : op'[b] = op[b]
  BY DEF Finish, TypeOK
<1>2. \A b \in Admins : Running(b)' => Running(b) /\ op'[b] = op[b]
  BY <1>1 DEF Running
<1>3. \A b \in Admins : Running(b) => op[b].id \in Configs
  BY DEF TypeOK, Running, Ops
<1>4. existing \subseteq Configs
  BY DEF TypeOK
<1>5. QED
  BY <1>2, <1>3, <1>4
     DEF Marks, CurrentIsEnabled, CopiesEnabled, CurrentIsRegistered,
         CopiesRegistered, OneCurrent, RunsOnExisting, SwitchesProbed,
         CopiesKeepMark, Current

\* A step that goes on with a copy that bears the same marks.
LEMMA ContinueMarks ==
    ASSUME TypeOK, Marks, NEW a \in Admins, Running(a),
           NEW step, NEW copy \in Rows, Continue(a, step, copy),
           copy.isCurrent = op[a].copy.isCurrent,
           copy.enabled = op[a].copy.enabled,
           op[a].kind = "switch" => registry'[op[a].id] # None,
           op[a].kind = "switch" /\ step = "save" => copy.probePassed,
           UNCHANGED <<existing, row>>,
           \A id \in Configs : registry[id] # None => registry'[id] # None
    PROVE  Marks'
<1>1. op'[a] = [kind |-> op[a].kind, step |-> step, id |-> op[a].id,
                copy |-> copy, base |-> op[a].base]
  BY DEF Continue, TypeOK
<1>2. \A b \in Admins \ {a} : op'[b] = op[b]
  BY DEF Continue, TypeOK
<1>3. \A b \in Admins : Running(b) => op[b].id \in Configs
  BY DEF TypeOK, Running, Ops
<1>4. existing \subseteq Configs
  BY DEF TypeOK
<1>5. CopiesEnabled'
  BY <1>1, <1>2 DEF Marks, CopiesEnabled, Running
<1>6. CopiesRegistered'
  BY <1>1, <1>2, <1>3 DEF Marks, CopiesRegistered, Running
<1>7. RunsOnExisting' /\ SwitchesProbed' /\ CopiesKeepMark'
  BY <1>1, <1>2 DEF Marks, RunsOnExisting, SwitchesProbed, CopiesKeepMark, Running
<1>8. CurrentIsEnabled' /\ CurrentIsRegistered' /\ OneCurrent'
  BY <1>4 DEF Marks, CurrentIsEnabled, CurrentIsRegistered, OneCurrent, Current
<1>9. QED
  BY <1>5, <1>6, <1>7, <1>8 DEF Marks

LEMMA InitMarks == Init => Marks
  BY DEF Init, Marks, CurrentIsEnabled, CopiesEnabled, CurrentIsRegistered,
         CopiesRegistered, OneCurrent, RunsOnExisting, SwitchesProbed,
         CopiesKeepMark, Current, Running

\* The row a transaction writes: only its own configuration's marks change,
\* unless it is a switch.
LEMMA SaveMarks ==
    ASSUME TypeOK, Marks, NEW a \in Admins, Save(a) \/ SaveAndSetCurrent(a)
    PROVE  Marks'
<1> DEFINE id == op[a].id
<1>1. /\ Running(a) /\ op[a] \in Ops /\ id \in existing
      /\ IndexAdmits(id, op[a].copy)
      /\ Finish(a)
      /\ UNCHANGED <<existing, registry>>
  BY CopyOfRunning DEF Save, SaveAndSetCurrent, Marks, RunsOnExisting
<1>2. op'[a] = Idle /\ \A b \in Admins \ {a} : op'[b] = op[b]
  BY <1>1 DEF Finish, TypeOK
<1>3. /\ CopiesEnabled' /\ CopiesRegistered' /\ RunsOnExisting'
      /\ SwitchesProbed' /\ CopiesKeepMark'
  BY <1>1, <1>2
     DEF Marks, CopiesEnabled, CopiesRegistered, RunsOnExisting,
         SwitchesProbed, CopiesKeepMark, Running
<1>4. existing \subseteq Configs
  BY DEF TypeOK
<1>5. CASE Save(a)
  <2>1. /\ row'[id] = op[a].copy
        /\ \A j \in Configs \ {id} : row'[j] = row[j]
    BY <1>1, <1>5 DEF Save, TypeOK, Ops
  <2>2. op[a].copy.isCurrent => op[a].copy.enabled /\ registry[id] # None
    BY <1>1 DEF Marks, CopiesEnabled, CopiesRegistered
  <2>3. CurrentIsEnabled' /\ CurrentIsRegistered'
    BY <1>1, <1>4, <2>1, <2>2
       DEF Marks, CurrentIsEnabled, CurrentIsRegistered, Current
  <2>4. OneCurrent'
    BY <1>1, <1>4, <2>1 DEF Marks, OneCurrent, Current, IndexAdmits
  <2>5. QED
    BY <1>3, <2>3, <2>4 DEF Marks
<1>6. CASE SaveAndSetCurrent(a)
  <2>1. /\ row'[id] = [op[a].copy EXCEPT !.isCurrent = TRUE]
        /\ \A j \in existing \ {id} : row'[j] = [row[j] EXCEPT !.isCurrent = FALSE]
    BY <1>1, <1>4, <1>6 DEF SaveAndSetCurrent
  <2>2. row'[id].enabled = op[a].copy.enabled
    BY <1>1, <2>1 DEF Ops, Rows
  <2>3. \A j \in existing \ {id} : ~row'[j].isCurrent
    <3> TAKE j \in existing \ {id}
    <3>1. row[j] \in Rows
      BY <1>4, RowOfConfig
    <3>2. QED
      BY <2>1, <3>1 DEF Rows
  <2>4. Current' \subseteq {id}
    BY <1>1, <2>3 DEF Current
  <2>5. op[a].copy.enabled /\ registry[id] # None
    BY <1>1, <1>6
       DEF Marks, CopiesEnabled, CopiesRegistered, SaveAndSetCurrent, At
  <2>6. QED
    BY <1>1, <1>3, <2>2, <2>4, <2>5
       DEF Marks, CurrentIsEnabled, CurrentIsRegistered, OneCurrent
<1>7. QED
  BY <1>5, <1>6

LEMMA MarksStep == TypeOK /\ Marks /\ [Next]_vars => Marks'
<1> SUFFICES ASSUME TypeOK, Marks, [Next]_vars PROVE Marks'
  OBVIOUS
<1>1. ASSUME NEW a \in Admins, NEW id \in Configs, NEW e \in Endpoints,
             Create(a, id, e)
      PROVE  Marks'
  <2>1. /\ existing' = existing \union {id}
        /\ ~row'[id].isCurrent
        /\ \A j \in existing : row'[j] = row[j]
        /\ UNCHANGED <<registry, op>>
    BY <1>1 DEF Create, NewRow, TypeOK
  <2>2. Current' = Current /\ \A j \in Current : row'[j] = row[j]
    BY <2>1 DEF Current
  <2>3. QED
    BY <2>1, <2>2
       DEF Marks, CurrentIsEnabled, CopiesEnabled, CurrentIsRegistered,
           CopiesRegistered, OneCurrent, RunsOnExisting, SwitchesProbed,
           CopiesKeepMark, Running
<1>2. ASSUME NEW a \in Admins, NEW id \in Configs, NEW e \in Endpoints,
             Update(a, id, e)
      PROVE  Marks'
  <2> DEFINE changed == e # row[id].endpoint
             copy == [endpoint |-> e,
                      enabled |-> row[id].enabled,
                      probePassed |-> row[id].probePassed /\ ~changed,
                      isCurrent |-> row[id].isCurrent]
             step == IF changed /\ row[id].isCurrent THEN "sync" ELSE "save"
  <2>1. copy \in Rows /\ step \in Steps /\ "update" \in Kinds
    BY RowOfConfig DEF Rows, Steps, Kinds
  <2>2. Begin(a, "update", id, step, copy)
    BY <1>2 DEF Update
  <2>3. /\ copy.isCurrent = row[id].isCurrent
        /\ copy.isCurrent => copy.enabled
    BY <2>2 DEF Begin, Marks, CurrentIsEnabled, Current
  <2> HIDE DEF copy, step
  <2>4. QED
    BY <2>1, <2>2, <2>3, BeginMarks
<1>3. ASSUME NEW a \in Admins, NEW id \in Configs, Enable(a, id)
      PROVE  Marks'
  <2> DEFINE copy == [row[id] EXCEPT !.enabled = TRUE]
  <2>1. copy \in Rows /\ copy.enabled /\ copy.isCurrent = row[id].isCurrent
    BY RowOfConfig DEF Rows
  <2>2. Begin(a, "enable", id, "save", copy)
    BY <1>3 DEF Enable
  <2> HIDE DEF copy
  <2>3. QED
    BY <2>1, <2>2, BeginMarks DEF Steps, Kinds
<1>4. ASSUME NEW a \in Admins, NEW id \in Configs, Disable(a, id)
      PROVE  Marks'
  <2> DEFINE copy == [row[id] EXCEPT !.enabled = FALSE]
  <2>1. copy \in Rows /\ ~copy.isCurrent /\ copy.isCurrent = row[id].isCurrent
    BY <1>4, RowOfConfig DEF Disable, Rows
  <2>2. Begin(a, "disable", id, "save", copy)
    BY <1>4 DEF Disable
  <2> HIDE DEF copy
  <2>3. QED
    BY <2>1, <2>2, BeginMarks DEF Steps, Kinds
<1>5. ASSUME NEW a \in Admins, NEW id \in Configs, SwitchCurrent(a, id)
      PROVE  Marks'
  <2>1. row[id] \in Rows /\ row[id].enabled
    BY <1>5, RowOfConfig DEF SwitchCurrent
  <2>2. QED
    BY <1>5, <2>1, BeginMarks DEF SwitchCurrent, Steps, Kinds
<1>6. ASSUME NEW a \in Admins, NEW id \in Configs, Probe(a, id)
      PROVE  Marks'
  <2>1. row[id] \in Rows
    BY RowOfConfig
  <2>2. row[id].isCurrent => row[id].enabled
    BY <1>6 DEF Probe, Begin, Marks, CurrentIsEnabled, Current
  <2>3. QED
    BY <1>6, <2>1, <2>2, BeginMarks DEF Probe, Steps, Kinds
<1>7. ASSUME NEW a \in Admins, SyncDone(a) PROVE Marks'
  <2>1. Running(a) /\ op[a].copy \in Rows /\ op[a].id \in Configs
        /\ op[a].copy.endpoint # None
    BY <1>7, CopyOfRunning, NoneAssumption DEF SyncDone, Ops, Rows
  <2>2. /\ registry'[op[a].id] # None
        /\ \A id \in Configs : registry[id] # None => registry'[id] # None
    BY <1>7, <2>1 DEF SyncDone, Register, TypeOK
  <2>3. QED
    BY <1>7, <2>1, <2>2, ContinueMarks DEF SyncDone
<1>8. ASSUME NEW a \in Admins, SyncFailed(a) PROVE Marks'
  <2>1. op[a].copy.endpoint # None
    BY <1>8, CopyOfRunning, NoneAssumption DEF SyncFailed, Ops, Rows
  <2>2. \A id \in Configs : registry[id] # None => registry'[id] # None
    BY <1>8, <2>1 DEF SyncFailed, Register, TypeOK
  <2>3. QED
    BY <1>8, <2>2, FinishMarks DEF SyncFailed
<1>9. ASSUME NEW a \in Admins, ProbePassed(a) PROVE Marks'
  <2> DEFINE copy == [op[a].copy EXCEPT !.probePassed = TRUE]
  <2>1. Running(a) /\ op[a] \in Ops /\ op[a].step = "probe"
    BY <1>9, CopyOfRunning DEF ProbePassed, At
  <2>2. copy \in Rows /\ copy.isCurrent = op[a].copy.isCurrent
        /\ copy.enabled = op[a].copy.enabled /\ copy.probePassed
    BY <2>1 DEF Ops, Rows
  <2>3. op[a].kind = "switch" => registry[op[a].id] # None
    BY <2>1 DEF Marks, CopiesRegistered
  <2>4. Continue(a, "save", copy) /\ UNCHANGED <<existing, row, registry>>
    BY <1>9 DEF ProbePassed
  <2> HIDE DEF copy
  <2>5. QED
    BY <2>1, <2>2, <2>3, <2>4, ContinueMarks
<1>10. ASSUME NEW a \in Admins, ProbeFailed(a) PROVE Marks'
  <2>1. Running(a) /\ op[a] \in Ops
    BY <1>10, CopyOfRunning DEF ProbeFailed
  <2>2. CASE op[a].kind = "probe"
    <3> DEFINE copy == [op[a].copy EXCEPT !.probePassed = FALSE]
    <3>1. copy \in Rows /\ copy.isCurrent = op[a].copy.isCurrent
          /\ copy.enabled = op[a].copy.enabled
      BY <2>1 DEF Ops, Rows
    <3>2. Continue(a, "save", copy) /\ UNCHANGED <<existing, row, registry>>
      BY <1>10, <2>2 DEF ProbeFailed
    <3> HIDE DEF copy
    <3>3. QED
      BY <2>1, <2>2, <3>1, <3>2, ContinueMarks
  <2>3. CASE op[a].kind = "update"
    <3>1. op[a].copy \in Rows
      BY <2>1 DEF Ops
    <3>2. QED
      BY <1>10, <2>1, <2>3, <3>1, ContinueMarks DEF ProbeFailed
  <2>4. CASE op[a].kind = "switch"
    BY <1>10, <2>4, FinishMarks DEF ProbeFailed
  <2>5. QED
    BY <1>10, <2>2, <2>3, <2>4 DEF ProbeFailed
<1>11. ASSUME NEW a \in Admins, RestoreDone(a) PROVE Marks'
  <2>1. op[a].base.endpoint # None
    BY <1>11, CopyOfRunning, NoneAssumption DEF RestoreDone, Ops, Rows
  <2>2. \A id \in Configs : registry[id] # None => registry'[id] # None
    BY <1>11, <2>1 DEF RestoreDone, Register, TypeOK
  <2>3. QED
    BY <1>11, <2>2, FinishMarks DEF RestoreDone
<1>12. ASSUME NEW a \in Admins, RestoreFailed(a) PROVE Marks'
  BY <1>12, FinishMarks DEF RestoreFailed
<1>13. ASSUME NEW a \in Admins, Save(a) \/ SaveAndSetCurrent(a) PROVE Marks'
  BY <1>13, SaveMarks
<1>14. ASSUME NEW a \in Admins, SaveFailed(a) PROVE Marks'
  <2>1. Running(a) /\ op[a].copy \in Rows
    BY <1>14, CopyOfRunning DEF SaveFailed, Ops
  <2>2. CASE Resyncs(a) /\ Continue(a, "restore", op[a].copy)
    BY <1>14, <2>1, <2>2, ContinueMarks DEF SaveFailed, Resyncs
  <2>3. CASE Finish(a)
    BY <1>14, <2>3, FinishMarks DEF SaveFailed
  <2>4. QED
    BY <1>14, <2>2, <2>3 DEF SaveFailed, AfterFailedSave
<1>15. CASE UNCHANGED vars
  BY <1>15
     DEF vars, Marks, CurrentIsEnabled, CopiesEnabled, CurrentIsRegistered,
         CopiesRegistered, OneCurrent, RunsOnExisting, SwitchesProbed,
         CopiesKeepMark, Current, Running
<1>16. QED
  BY <1>1, <1>2, <1>3, <1>4, <1>5, <1>6, <1>7, <1>8, <1>9, <1>10, <1>11,
     <1>12, <1>13, <1>14, <1>15 DEF Next, Operation

LEMMA Invariant == Spec => []IInv
<1>1. Init => IInv
  BY InitType, InitMarks DEF IInv
<1>2. IInv /\ [Next]_vars => IInv'
  BY TypeStep, MarksStep DEF IInv
<1>3. QED
  BY <1>1, <1>2, PTL DEF Spec

(* The enabled mark and the current mark never contradict each other,       *)
(* although every operation checks them on a copy that may be out of date.  *)
THEOREM CurrentStaysEnabled == Spec => []CurrentIsEnabled
  BY Invariant, PTL DEF IInv, Marks

(* Requests are never routed to a configuration LiteLLM was not told about. *)
THEOREM CurrentStaysRegistered == Spec => []CurrentIsRegistered
  BY Invariant, PTL DEF IInv, Marks

-----------------------------------------------------------------------------
(* Which configuration is current. *)

\* Steps that write no row leave the readers' view alone.
LEMMA TableUnchanged ==
    ASSUME UNCHANGED <<existing, row>>
    PROVE  UNCHANGED Table!tableVars /\ Current' = Current
  BY DEF Table!tableVars, Current

\* The steps that write rows.
Writes(a) ==
    \/ \E id \in Configs : \E e \in Endpoints : Create(a, id, e)
    \/ Save(a)
    \/ SaveAndSetCurrent(a)

LEMMA OnlyWritesWrite ==
    ASSUME NEW a \in Admins, Operation(a), ~Writes(a)
    PROVE  UNCHANGED <<existing, row>>
  BY DEF Operation, Writes, Update, Enable, Disable, SwitchCurrent, Probe, Begin,
         SyncDone, SyncFailed, ProbePassed, ProbeFailed, RestoreDone,
         RestoreFailed, SaveFailed

\* The rows after a transaction of a running operation.
LEMMA SavedRows ==
    ASSUME TypeOK, Marks, NEW a \in Admins, Save(a)
    PROVE  /\ Running(a) /\ op[a] \in Ops /\ op[a].id \in existing
           /\ row'[op[a].id] = op[a].copy
           /\ \A j \in existing \ {op[a].id} : row'[j] = row[j]
           /\ existing' = existing
           /\ At(a, "save") /\ op'[a] = Idle
<1>1. Running(a) /\ op[a] \in Ops /\ op[a].id \in existing
  BY CopyOfRunning DEF Save, Marks, RunsOnExisting
<1>2. existing \subseteq Configs
  BY DEF TypeOK
<1>3. QED
  BY <1>1, <1>2 DEF Save, Finish, TypeOK

(* The current configuration changes by a switch or by a row written over a *)
(* newer one; an operation whose copy is still up to date never moves it.   *)
THEOREM CurrentChangesOnlyBySwitchOrStaleWrite ==
    Spec => CurrentChangesBySwitchOrStaleWrite
<1> DEFINE Justified(a) ==
             /\ At(a, "save") /\ op'[a] = Idle
             /\ op[a].kind = "switch" \/ op[a].base # row[op[a].id]
<1>1. ASSUME IInv, [Next]_vars, Current' # Current
      PROVE  \E a \in Admins : Justified(a)
  <2>1. PICK a \in Admins : Operation(a)
    <3>1. ~UNCHANGED vars
      BY <1>1 DEF vars, Current
    <3>2. QED
      BY <1>1, <3>1 DEF Next
  <2>2. TypeOK /\ Marks
    BY <1>1 DEF IInv
  <2>3. ASSUME NEW id \in Configs, NEW e \in Endpoints, Create(a, id, e)
        PROVE  FALSE
    <3>1. /\ existing' = existing \union {id}
          /\ ~row'[id].isCurrent
          /\ \A j \in existing : row'[j] = row[j]
      BY <2>2, <2>3 DEF Create, NewRow, TypeOK
    <3>2. QED
      BY <1>1, <2>3, <3>1 DEF Current, Create
  <2>4. CASE Save(a)
    <3>1. SUFFICES ASSUME op[a].base = row[op[a].id] PROVE FALSE
      BY <2>2, <2>4, SavedRows
    <3>2. row'[op[a].id].isCurrent = row[op[a].id].isCurrent
      BY <2>2, <2>4, <3>1, SavedRows DEF Marks, CopiesKeepMark
    <3>3. QED
      BY <1>1, <2>2, <2>4, <3>2, SavedRows DEF Current
  <2>5. CASE SaveAndSetCurrent(a)
    BY <2>2, <2>5 DEF SaveAndSetCurrent, Finish, TypeOK
  <2>6. CASE ~Writes(a)
    BY <1>1, <2>1, <2>6, OnlyWritesWrite, TableUnchanged
  <2>7. QED
    BY <2>3, <2>4, <2>5, <2>6 DEF Writes
<1>2. IInv /\ [Next]_vars
        => [Current' # Current => \E a \in Admins : Justified(a)]_vars
  BY <1>1
<1>3. QED
  BY <1>2, Invariant, PTL DEF Spec, CurrentChangesBySwitchOrStaleWrite

-----------------------------------------------------------------------------
(* The readers' view of the table. *)

EnabledIds == {id \in existing : row[id].enabled}
ProbedIds == {id \in existing : row[id].probePassed}

\* SaveWithAudit is, for a reader, an edit of one configuration, or the
\* loss or the return of the current mark.
LEMMA SaveIsTableStep ==
    ASSUME IInv, NEW a \in Admins, Save(a)
    PROVE  Table!TableNext
<1>1. TypeOK /\ Marks
  BY DEF IInv
<1> PICK id \in Configs : id = op[a].id
  BY <1>1, SavedRows DEF Ops
<1>2. /\ Running(a) /\ id \in existing
      /\ row'[id] = op[a].copy
      /\ \A j \in existing \ {id} : row'[j] = row[j]
      /\ existing' = existing
  BY <1>1, SavedRows DEF Ops
<1>3. /\ EnabledIds' \in {EnabledIds \union {id}, EnabledIds \ {id}}
      /\ ProbedIds' \in {ProbedIds \union {id}, ProbedIds \ {id}}
      /\ Current' \in {Current \union {id}, Current \ {id}}
  BY <1>2 DEF EnabledIds, ProbedIds, Current
<1>4. id \in Current' => id \in EnabledIds'
  BY <1>1, <1>2 DEF Current, EnabledIds, Marks, CopiesEnabled
<1>5. \A i, j \in Current : i = j
  BY <1>1 DEF Marks, OneCurrent
<1>6. id \in Current' => Current \subseteq {id}
  BY <1>1, <1>2 DEF Save, IndexAdmits, Current
<1>7. CASE Current' = Current
  <2>1. id \in Current => id \in EnabledIds'
    BY <1>4, <1>7
  <2>2. Table!EditConfig(id)
    BY <1>2, <1>3, <1>7, <2>1
       DEF Table!EditConfig, Table!MayToggle, EnabledIds, ProbedIds
  <2>3. QED
    BY <1>2, <2>2 DEF Table!TableNext
<1>8. CASE Current' # Current /\ id \in Current
  <2>1. Current = {id} /\ Current' = {}
    BY <1>3, <1>5, <1>8
  <2>2. Table!LoseCurrent(id)
    BY <1>2, <1>3, <2>1
       DEF Table!LoseCurrent, Table!MayToggle, EnabledIds, ProbedIds
  <2>3. QED
    BY <1>2, <2>2 DEF Table!TableNext
<1>9. CASE Current' # Current /\ id \notin Current
  <2>1. Current = {} /\ Current' = {id}
    BY <1>3, <1>6, <1>9
  <2>2. EnabledIds' = EnabledIds \union {id}
    BY <1>3, <1>4, <2>1
  <2>3. Table!RegainCurrent(id)
    BY <1>2, <1>3, <2>1, <2>2
       DEF Table!RegainCurrent, Table!MayToggle, EnabledIds, ProbedIds
  <2>4. QED
    BY <1>2, <2>3 DEF Table!TableNext
<1>10. QED
  BY <1>7, <1>8, <1>9

LEMMA SwitchIsTableStep ==
    ASSUME IInv, NEW a \in Admins, SaveAndSetCurrent(a)
    PROVE  Table!TableNext
<1>1. TypeOK /\ Marks
  BY DEF IInv
<1> PICK id \in Configs : id = op[a].id
  BY <1>1, CopyOfRunning DEF SaveAndSetCurrent, Ops
<1>2. /\ Running(a) /\ op[a] \in Ops /\ op[a].copy \in Rows
      /\ id \in existing
      /\ op[a].copy.enabled /\ op[a].copy.probePassed
      /\ existing' = existing
  BY <1>1, CopyOfRunning
     DEF SaveAndSetCurrent, Marks, RunsOnExisting, CopiesEnabled,
         SwitchesProbed, At, Ops
<1>3. /\ row'[id].enabled /\ row'[id].probePassed /\ row'[id].isCurrent
  BY <1>2 DEF SaveAndSetCurrent, Rows
<1>4. ASSUME NEW j \in existing \ {id}
      PROVE /\ row'[j].enabled = row[j].enabled
            /\ row'[j].probePassed = row[j].probePassed
            /\ ~row'[j].isCurrent
  <2>1. row[j] \in Rows /\ j \in Configs
    BY <1>1, RowOfConfig DEF TypeOK
  <2>2. row'[j] = [row[j] EXCEPT !.isCurrent = FALSE]
    BY <2>1 DEF SaveAndSetCurrent
  <2>3. QED
    BY <2>1, <2>2 DEF Rows
<1>5. /\ EnabledIds' = EnabledIds \union {id}
      /\ ProbedIds' = ProbedIds \union {id}
      /\ Current' = {id}
  BY <1>2, <1>3, <1>4 DEF EnabledIds, ProbedIds, Current
<1>6. Table!MakeCurrent(id)
  BY <1>2, <1>5 DEF Table!MakeCurrent, EnabledIds, ProbedIds
<1>7. QED
  BY <1>2, <1>6 DEF Table!TableNext

(* Whatever the administrators do at the same time, and whatever fails, the *)
(* router and the gateway read a table in which configurations only appear, *)
(* at most one is current, and a current one is enabled.                    *)
THEOREM ModelConfigImplementsConfigTable == Spec => ImplementsConfigTable
<1>1. Init => Table!TableInit
  BY DEF Init, Table!TableInit, Current
<1>2. IInv /\ [Next]_vars => [Table!TableNext]_(Table!tableVars)
  <2> SUFFICES ASSUME IInv, [Next]_vars
               PROVE  Table!TableNext \/ UNCHANGED Table!tableVars
    OBVIOUS
  <2>1. CASE UNCHANGED vars
    BY <2>1, TableUnchanged DEF vars
  <2>2. CASE \E a \in Admins : Operation(a)
    <3>1. PICK a \in Admins : Operation(a)
      BY <2>2
    <3>2. CASE ~Writes(a)
      BY <3>1, <3>2, OnlyWritesWrite, TableUnchanged
    <3>3. ASSUME NEW id \in Configs, NEW e \in Endpoints, Create(a, id, e)
          PROVE  Table!TableNext
      <4>1. TypeOK
        BY DEF IInv
      <4>2. /\ id \notin existing /\ existing' = existing \union {id}
            /\ row'[id] = NewRow(e)
            /\ \A j \in existing : row'[j] = row[j]
        BY <3>3, <4>1 DEF Create, TypeOK
      <4>3. /\ EnabledIds' = EnabledIds \union {id}
            /\ ProbedIds' = ProbedIds
            /\ Current' = Current
        BY <4>2 DEF EnabledIds, ProbedIds, Current, NewRow
      <4>4. Table!AddConfig(id)
        BY <4>2, <4>3 DEF Table!AddConfig, EnabledIds, ProbedIds
      <4>5. QED
        BY <4>4 DEF Table!TableNext
    <3>4. CASE Save(a)
      BY <3>4, SaveIsTableStep
    <3>5. CASE SaveAndSetCurrent(a)
      BY <3>5, SwitchIsTableStep
    <3>6. QED
      BY <3>2, <3>3, <3>4, <3>5 DEF Writes
  <2>3. QED
    BY <2>1, <2>2 DEF Next
<1>3. QED
  BY <1>1, <1>2, Invariant, PTL DEF Spec, ImplementsConfigTable, Table!TableSpec
-----------------------------------------------------------------------------
(***************************************************************************)
(* What LiteLLM has for the current configuration.  While nothing has      *)
(* overlapped and every sync was answered, one operation runs at most and  *)
(* its base is still the row; LiteLLM differs from the row only while an   *)
(* update is between its sync and its transaction or undoing, and then it  *)
(* has what the update is about to store.                                  *)
(***************************************************************************)

\* The operation has not told LiteLLM anything the store does not have.
NothingAhead(a) == Resyncs(a) => op[a].step = "sync"

Agrees(id) == registry[id] = row[id].endpoint

OneAtATime == \A a, b \in Admins : Running(a) /\ Running(b) => a = b
BasesUpToDate == \A a \in Admins : Running(a) => op[a].base = row[op[a].id]
OnlyUpdatesMoveEndpoint ==
    \A a \in Admins :
        Running(a) /\ op[a].kind # "update" => op[a].copy.endpoint = op[a].base.endpoint
SyncedIsRegistered ==
    \A a \in Admins :
        Running(a) /\ op[a].step # "sync" /\ op[a].step # "restore"
          /\ (Resyncs(a) \/ op[a].kind = "switch")
            => registry[op[a].id] = op[a].copy.endpoint
CurrentAgrees ==
    \A id \in Current :
        (\A a \in Admins : Running(a) /\ op[a].id = id => NothingAhead(a)) => Agrees(id)

Quiet ==
    clean => /\ OneAtATime /\ BasesUpToDate /\ OnlyUpdatesMoveEndpoint
             /\ SyncedIsRegistered /\ CurrentAgrees

\* Nothing is ahead when nothing runs.
LEMMA IdleAgrees ==
    ASSUME Quiet, clean, \A a \in Admins : IsIdle(a)
    PROVE  \A id \in Current : Agrees(id)
  BY DEF Quiet, CurrentAgrees, Running, IsIdle

\* The one operation that runs ends, with LiteLLM and the store in agreement.
LEMMA EndsQuiet ==
    ASSUME TypeOK, Quiet, clean, NEW a \in Admins, Running(a), Finish(a),
           \A id \in Current' : Agrees(id)'
    PROVE  Quiet'
<1>1. \A b \in Admins : op'[b] = Idle
  BY DEF Quiet, OneAtATime, Running, Finish, TypeOK
<1> QED
  BY <1>1 DEF Quiet, OneAtATime, BasesUpToDate, OnlyUpdatesMoveEndpoint,
     SyncedIsRegistered, CurrentAgrees, Running

\* It goes on with a copy of the same endpoint and mark.
LEMMA ContinuesQuiet ==
    ASSUME TypeOK, Quiet, clean, NEW a \in Admins, Running(a), op[a] \in Ops,
           NEW step \in Steps \ {"sync"}, NEW copy \in Rows,
           Continue(a, step, copy), UNCHANGED <<existing, row>>,
           copy.endpoint = op[a].copy.endpoint, copy.isCurrent = op[a].copy.isCurrent,
           step # "restore" /\ (Resyncs(a) \/ op[a].kind = "switch")
             => registry'[op[a].id] = copy.endpoint,
           \A id \in Current : id # op[a].id \/ ~Resyncs(a) => Agrees(id)'
    PROVE  Quiet'
<1>1. /\ op'[a] # Idle /\ op'[a].kind = op[a].kind /\ op'[a].step = step
      /\ op'[a].id = op[a].id /\ op'[a].copy = copy /\ op'[a].base = op[a].base
  <2>1. op'[a] = [kind |-> op[a].kind, step |-> step, id |-> op[a].id,
                  copy |-> copy, base |-> op[a].base]
    BY DEF Continue, TypeOK
  <2> QED
    BY <2>1 DEF Idle
<1>2. \A b \in Admins : op'[b] # Idle => b = a
  BY DEF Quiet, OneAtATime, Running, Continue, TypeOK
<1>3. Resyncs(a)' <=> Resyncs(a)
  BY <1>1 DEF Resyncs
<1>4. OneAtATime' /\ BasesUpToDate' /\ OnlyUpdatesMoveEndpoint'
  BY <1>1, <1>2 DEF Quiet, OneAtATime, BasesUpToDate, OnlyUpdatesMoveEndpoint, Running
<1>5. SyncedIsRegistered'
  BY <1>1, <1>2, <1>3 DEF SyncedIsRegistered, Running
<1>6. CurrentAgrees'
  <2> SUFFICES ASSUME NEW id \in Current,
                      op'[a].id = id => NothingAhead(a)'
               PROVE  Agrees(id)'
    BY <1>1 DEF CurrentAgrees, Current, Running
  <2> QED
    BY <1>1, <1>3 DEF NothingAhead
<1> QED
  BY <1>4, <1>5, <1>6 DEF Quiet

\* An operation begins when none runs.
LEMMA BeginsQuiet ==
    ASSUME TypeOK, Quiet, clean', NEW a \in Admins, NEW id \in Configs,
           NEW kind \in Kinds, NEW step \in Steps, NEW copy \in Rows,
           Begin(a, kind, id, step, copy),
           kind # "update" => copy.endpoint = row[id].endpoint,
           kind = "switch" => step = "sync",
           kind = "update" /\ copy.isCurrent /\ copy.endpoint # row[id].endpoint
             => step = "sync"
    PROVE  Quiet'
<1>1. clean /\ (\A b \in Admins : IsIdle(b)) /\ UNCHANGED <<existing, row, registry>>
  BY DEF Begin
<1>2. /\ op'[a].kind = kind /\ op'[a].step = step
      /\ op'[a].id = id /\ op'[a].copy = copy /\ op'[a].base = row[id]
  <2>1. op'[a] = [kind |-> kind, step |-> step, id |-> id,
                  copy |-> copy, base |-> row[id]]
    BY DEF Begin, TypeOK
  <2> QED
    BY <2>1
<1>3. \A b \in Admins : op'[b] # Idle => b = a
  BY <1>1 DEF Begin, TypeOK, IsIdle
<1>4. OneAtATime' /\ BasesUpToDate' /\ OnlyUpdatesMoveEndpoint'
  BY <1>1, <1>2, <1>3 DEF OneAtATime, BasesUpToDate, OnlyUpdatesMoveEndpoint, Running
<1>5. SyncedIsRegistered'
  BY <1>2, <1>3 DEF SyncedIsRegistered, Running, Resyncs
<1>6. CurrentAgrees'
  BY <1>1, IdleAgrees DEF CurrentAgrees, Current, Agrees
<1> QED
  BY <1>4, <1>5, <1>6 DEF Quiet

\* While nothing is ahead for its configuration, all current ones agree.
LEMMA AgreesSoFar ==
    ASSUME Quiet, clean, NEW a \in Admins, Running(a)
    PROVE  /\ \A id \in Current : id # op[a].id \/ NothingAhead(a) => Agrees(id)
           /\ op[a].base = row[op[a].id]
  BY DEF Quiet, OneAtATime, BasesUpToDate, CurrentAgrees

LEMMA QuietStep == TypeOK /\ Marks /\ Quiet /\ [Next]_vars => Quiet'
<1> SUFFICES ASSUME TypeOK, Marks, Quiet, [Next]_vars, clean' PROVE Quiet'
  BY DEF Quiet
<1>1. ASSUME NEW a \in Admins, NEW id \in Configs, NEW e \in Endpoints,
             Create(a, id, e)
      PROVE  Quiet'
  <2>1. /\ id \notin existing /\ existing' = existing \union {id}
        /\ ~row'[id].isCurrent /\ \A j \in existing : row'[j] = row[j]
        /\ UNCHANGED <<registry, op, clean>>
    BY <1>1 DEF Create, NewRow, TypeOK
  <2>2. Current' = Current /\ \A j \in Current : Agrees(j) => Agrees(j)'
    BY <2>1 DEF Current, Agrees
  <2>3. CurrentAgrees'
    BY <2>1, <2>2 DEF Quiet, CurrentAgrees, Running, NothingAhead, Resyncs
  <2>4. BasesUpToDate'
    BY <2>1 DEF Quiet, BasesUpToDate, Running, Marks, RunsOnExisting
  <2> QED
    BY <2>1, <2>3, <2>4
       DEF Quiet, OneAtATime, OnlyUpdatesMoveEndpoint, SyncedIsRegistered,
           Running, Resyncs
<1>2. ASSUME NEW a \in Admins, NEW id \in Configs, NEW e \in Endpoints,
             Update(a, id, e)
      PROVE  Quiet'
  <2> DEFINE changed == e # row[id].endpoint
             copy == [endpoint |-> e,
                      enabled |-> row[id].enabled,
                      probePassed |-> row[id].probePassed /\ ~changed,
                      isCurrent |-> row[id].isCurrent]
             step == IF changed /\ row[id].isCurrent THEN "sync" ELSE "save"
  <2>1. copy \in Rows /\ step \in Steps /\ "update" \in Kinds
    BY RowOfConfig DEF Rows, Steps, Kinds
  <2>2. Begin(a, "update", id, step, copy)
    BY <1>2 DEF Update
  <2>3. copy.isCurrent /\ copy.endpoint # row[id].endpoint => step = "sync"
    OBVIOUS
  <2> HIDE DEF copy, step
  <2> QED
    BY <2>1, <2>2, <2>3, BeginsQuiet
<1>3. ASSUME NEW a \in Admins, NEW id \in Configs, Enable(a, id)
      PROVE  Quiet'
  <2> DEFINE copy == [row[id] EXCEPT !.enabled = TRUE]
  <2>1. copy \in Rows /\ copy.endpoint = row[id].endpoint
    BY RowOfConfig DEF Rows
  <2>2. Begin(a, "enable", id, "save", copy)
    BY <1>3 DEF Enable
  <2> HIDE DEF copy
  <2> QED
    BY <2>1, <2>2, BeginsQuiet DEF Steps, Kinds
<1>4. ASSUME NEW a \in Admins, NEW id \in Configs, Disable(a, id)
      PROVE  Quiet'
  <2> DEFINE copy == [row[id] EXCEPT !.enabled = FALSE]
  <2>1. copy \in Rows /\ copy.endpoint = row[id].endpoint
    BY RowOfConfig DEF Rows
  <2>2. Begin(a, "disable", id, "save", copy)
    BY <1>4 DEF Disable
  <2> HIDE DEF copy
  <2> QED
    BY <2>1, <2>2, BeginsQuiet DEF Steps, Kinds
<1>5. ASSUME NEW a \in Admins, NEW id \in Configs,
             SwitchCurrent(a, id) \/ Probe(a, id)
      PROVE  Quiet'
  BY <1>5, RowOfConfig, BeginsQuiet DEF SwitchCurrent, Probe, Steps, Kinds
<1>6. ASSUME NEW a \in Admins, SyncDone(a)
      PROVE  Quiet'
  <2>1. Running(a) /\ op[a] \in Ops /\ op[a].copy \in Rows /\ op[a].id \in Configs
    BY <1>6, CopyOfRunning DEF SyncDone, Ops
  <2>2. clean /\ op[a].step = "sync" /\ Continue(a, "probe", op[a].copy)
        /\ UNCHANGED <<existing, row>>
    BY <1>6 DEF SyncDone, At
  <2>3. /\ registry'[op[a].id] = op[a].copy.endpoint
        /\ \A id \in Configs \ {op[a].id} : registry'[id] = registry[id]
    BY <1>6, <2>1 DEF SyncDone, Register, TypeOK
  <2>4. ASSUME NEW id \in Current, id # op[a].id \/ ~Resyncs(a)
        PROVE  Agrees(id)'
    <3>1. CASE id # op[a].id
      BY <2>1, <2>2, <2>3, <3>1, AgreesSoFar DEF Agrees, Current, TypeOK
    <3>2. CASE id = op[a].id /\ ~Resyncs(a)
      <4>1. op[a].kind = "switch"
        BY <1>6, <3>2 DEF SyncDone, TypeOK, StepFitsKind
      <4>2. op[a].copy.endpoint = row[id].endpoint
        BY <2>1, <2>2, <3>2, <4>1, AgreesSoFar DEF Quiet, OnlyUpdatesMoveEndpoint
      <4> QED
        BY <2>2, <2>3, <3>2, <4>2 DEF Agrees
    <3> QED
      BY <2>4, <3>1, <3>2
  <2> QED
    BY <2>1, <2>2, <2>3, <2>4, ContinuesQuiet DEF Steps
<1>7. ASSUME NEW a \in Admins, SyncFailed(a)
      PROVE  Quiet'
  <2>1. /\ clean /\ op[a].step = "sync" /\ Finish(a)
        /\ UNCHANGED <<existing, row, registry>>
    BY <1>7 DEF SyncFailed, At
  <2>2. Running(a)
    BY <1>7, CopyOfRunning DEF SyncFailed
  <2>3. \A id \in Current' : Agrees(id)'
    BY <2>1, <2>2, AgreesSoFar DEF Current, Agrees, NothingAhead
  <2> QED
    BY <2>1, <2>2, <2>3, EndsQuiet
<1>8. ASSUME NEW a \in Admins, ProbePassed(a)
      PROVE  Quiet'
  <2> DEFINE copy == [op[a].copy EXCEPT !.probePassed = TRUE]
  <2>1. Running(a) /\ op[a] \in Ops /\ op[a].step = "probe" /\ clean
        /\ UNCHANGED <<existing, row, registry>>
    BY <1>8, CopyOfRunning DEF ProbePassed, At
  <2>2. copy \in Rows /\ copy.endpoint = op[a].copy.endpoint
        /\ copy.isCurrent = op[a].copy.isCurrent
    BY <2>1 DEF Ops, Rows
  <2>3. Continue(a, "save", copy)
    BY <1>8 DEF ProbePassed
  <2>4. Resyncs(a) \/ op[a].kind = "switch" => registry'[op[a].id] = copy.endpoint
    BY <2>1, <2>2 DEF Quiet, SyncedIsRegistered
  <2>5. \A id \in Current : id # op[a].id \/ ~Resyncs(a) => Agrees(id)'
    BY <2>1, AgreesSoFar DEF Agrees, NothingAhead
  <2> HIDE DEF copy
  <2> QED
    BY <2>1, <2>2, <2>3, <2>4, <2>5, ContinuesQuiet DEF Steps
<1>9. ASSUME NEW a \in Admins, ProbeFailed(a)
      PROVE  Quiet'
  <2>1. Running(a) /\ op[a] \in Ops /\ op[a].step = "probe" /\ clean
        /\ UNCHANGED <<existing, row, registry>>
    BY <1>9, CopyOfRunning DEF ProbeFailed, At
  <2>2. \A id \in Current : id # op[a].id \/ ~Resyncs(a) => Agrees(id)'
    BY <2>1, AgreesSoFar DEF Agrees, NothingAhead
  <2>3. CASE op[a].kind = "probe"
    <3> DEFINE copy == [op[a].copy EXCEPT !.probePassed = FALSE]
    <3>1. copy \in Rows /\ copy.endpoint = op[a].copy.endpoint
          /\ copy.isCurrent = op[a].copy.isCurrent
      BY <2>1 DEF Ops, Rows
    <3>2. Continue(a, "save", copy) /\ ~Resyncs(a)
      BY <1>9, <2>3 DEF ProbeFailed, Resyncs
    <3> HIDE DEF copy
    <3> QED
      BY <2>1, <2>2, <2>3, <3>1, <3>2, ContinuesQuiet DEF Steps
  <2>4. CASE op[a].kind = "update"
    <3>1. Continue(a, "restore", op[a].copy) /\ op[a].copy \in Rows
      BY <1>9, <2>1, <2>4 DEF ProbeFailed, Ops
    <3> QED
      BY <2>1, <2>2, <3>1, ContinuesQuiet DEF Steps
  <2>5. CASE op[a].kind = "switch"
    <3>1. Finish(a) /\ ~Resyncs(a)
      BY <1>9, <2>5 DEF ProbeFailed, Resyncs
    <3>2. \A id \in Current' : Agrees(id)'
      BY <2>1, <2>2, <3>1 DEF Current
    <3> QED
      BY <2>1, <3>1, <3>2, EndsQuiet
  <2> QED
    BY <1>9, <2>3, <2>4, <2>5 DEF ProbeFailed
<1>10. ASSUME NEW a \in Admins, RestoreDone(a)
      PROVE  Quiet'
  <2>1. Running(a) /\ op[a] \in Ops /\ op[a].id \in Configs /\ clean /\ Finish(a)
        /\ UNCHANGED <<existing, row>>
    BY <1>10, CopyOfRunning DEF RestoreDone, Ops
  <2>2. /\ registry'[op[a].id] = op[a].base.endpoint
        /\ \A id \in Configs \ {op[a].id} : registry'[id] = registry[id]
    BY <1>10, <2>1 DEF RestoreDone, Register, TypeOK
  <2>3. \A id \in Current' : Agrees(id)'
    BY <2>1, <2>2, AgreesSoFar DEF Current, Agrees, TypeOK
  <2> QED
    BY <2>1, <2>3, EndsQuiet
<1>11. ASSUME NEW a \in Admins, RestoreFailed(a)
      PROVE  FALSE
  BY <1>11 DEF RestoreFailed
<1>12. ASSUME NEW a \in Admins, Save(a)
      PROVE  Quiet'
  <2>1. /\ Running(a) /\ op[a] \in Ops /\ op[a].id \in existing
        /\ row'[op[a].id] = op[a].copy
        /\ \A j \in existing \ {op[a].id} : row'[j] = row[j]
        /\ existing' = existing /\ op[a].step = "save"
    BY <1>12, SavedRows DEF At
  <2>2. clean /\ Finish(a) /\ UNCHANGED registry
    BY <1>12 DEF Save
  <2>3. ASSUME NEW id \in Current'
        PROVE  Agrees(id)'
    <3>1. CASE id # op[a].id
      BY <2>1, <2>2, <2>3, <3>1, AgreesSoFar DEF Current, Agrees
    <3>2. CASE id = op[a].id /\ Resyncs(a)
      BY <2>1, <2>2, <3>2 DEF Quiet, SyncedIsRegistered, Agrees
    <3>3. CASE id = op[a].id /\ ~Resyncs(a)
      <4>1. op[a].copy.isCurrent /\ op[a].base.isCurrent
        BY <2>1, <2>3, <3>3 DEF Current, Marks, CopiesKeepMark
      <4>2. op[a].copy.endpoint = op[a].base.endpoint
        BY <2>1, <2>2, <3>3, <4>1 DEF Resyncs, Quiet, OnlyUpdatesMoveEndpoint
      <4>3. id \in Current /\ op[a].base = row[id]
        BY <2>1, <2>2, <3>3, <4>1, AgreesSoFar DEF Current
      <4>4. Agrees(id)
        BY <2>1, <2>2, <3>3, <4>3, AgreesSoFar DEF NothingAhead
      <4> QED
        BY <2>1, <2>2, <3>3, <4>2, <4>3, <4>4 DEF Agrees
    <3> QED
      BY <3>1, <3>2, <3>3
  <2> QED
    BY <2>1, <2>2, <2>3, EndsQuiet
<1>13. ASSUME NEW a \in Admins, SaveAndSetCurrent(a)
      PROVE  Quiet'
  <2>1. /\ Running(a) /\ op[a] \in Ops /\ op[a].step = "save"
        /\ op[a].kind = "switch" /\ clean /\ Finish(a) /\ UNCHANGED <<existing, registry>>
    BY <1>13, CopyOfRunning DEF SaveAndSetCurrent, At
  <2>2. op[a].id \in Configs /\ op[a].copy \in Rows
    BY <2>1 DEF Ops
  <2>3. row'[op[a].id].endpoint = op[a].copy.endpoint
    BY <1>13, <2>2 DEF SaveAndSetCurrent, Rows
  <2>4. \A j \in existing \ {op[a].id} : ~row'[j].isCurrent
    <3> SUFFICES ASSUME NEW j \in existing \ {op[a].id} PROVE ~row'[j].isCurrent
      OBVIOUS
    <3>1. row[j] \in Rows /\ j \in Configs
      BY RowOfConfig DEF TypeOK
    <3>2. row'[j] = [row[j] EXCEPT !.isCurrent = FALSE]
      BY <1>13, <3>1 DEF SaveAndSetCurrent
    <3> QED
      BY <3>1, <3>2 DEF Rows
  <2>5. registry[op[a].id] = op[a].copy.endpoint
    BY <2>1 DEF Quiet, SyncedIsRegistered
  <2>6. \A id \in Current' : Agrees(id)'
    BY <2>1, <2>3, <2>4, <2>5 DEF Current, Agrees
  <2> QED
    BY <2>1, <2>6, EndsQuiet
<1>14. ASSUME NEW a \in Admins, SaveFailed(a)
      PROVE  Quiet'
  <2>1. Running(a) /\ op[a] \in Ops /\ op[a].copy \in Rows /\ clean
        /\ UNCHANGED <<existing, row, registry>>
    BY <1>14, CopyOfRunning DEF SaveFailed, Ops
  <2>2. \A id \in Current : id # op[a].id \/ ~Resyncs(a) => Agrees(id)'
    BY <2>1, AgreesSoFar DEF Agrees, NothingAhead
  <2>3. CASE Resyncs(a) /\ Continue(a, "restore", op[a].copy)
    BY <2>1, <2>2, <2>3, ContinuesQuiet DEF Steps
  <2>4. CASE ~Resyncs(a) /\ Finish(a)
    <3>1. \A id \in Current' : Agrees(id)'
      BY <2>1, <2>2, <2>4 DEF Current
    <3> QED
      BY <2>1, <2>4, <3>1, EndsQuiet
  <2> QED
    BY <1>14, <2>3, <2>4 DEF SaveFailed, AfterFailedSave
<1>15. CASE UNCHANGED vars
  BY <1>15
     DEF vars, Quiet, OneAtATime, BasesUpToDate, OnlyUpdatesMoveEndpoint,
         SyncedIsRegistered, CurrentAgrees, Current, Running, Agrees,
         NothingAhead, Resyncs
<1> QED
  BY <1>1, <1>2, <1>3, <1>4, <1>5, <1>6, <1>7, <1>8, <1>9, <1>10, <1>11,
     <1>12, <1>13, <1>14, <1>15 DEF Next, Operation

(* With one operation at a time and every sync answered, LiteLLM ends with  *)
(* the endpoint the store has for the current configuration.                *)
THEOREM RegistryAgrees == Spec => []RegistryAgreesWhenQuiet
<1>1. Init => Quiet
  BY DEF Init, Quiet, OneAtATime, BasesUpToDate, OnlyUpdatesMoveEndpoint,
     SyncedIsRegistered, CurrentAgrees, Current, Running
<1>2. IInv /\ Quiet /\ [Next]_vars => Quiet'
  BY QuietStep DEF IInv
<1>3. Quiet => RegistryAgreesWhenQuiet
  BY IdleAgrees DEF RegistryAgreesWhenQuiet, Agrees
<1> QED
  BY <1>1, <1>2, <1>3, Invariant, PTL DEF Spec

=============================================================================
