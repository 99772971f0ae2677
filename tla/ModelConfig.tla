----------------------------- MODULE ModelConfig -----------------------------
(***************************************************************************)
(* Administration of the model configurations: config.Service over the     *)
(* Postgres store, with the LiteLLM registry as its syncer                 *)
(* (internal/llm/config, internal/llm/litellm/registry.go).                *)
(*                                                                         *)
(* Every operation but Create reads a row with Get, works on that copy,    *)
(* over the network for some, and writes the WHOLE copy back: endpoint,    *)
(* enabled, probe_passed and is_current.  Nothing is locked in between, so *)
(* operations of several administrators interleave at each step.           *)
(*                                                                         *)
(* An endpoint stands for base_url, api_key and model, the three fields    *)
(* Update may change.  Authorisation and audit details are left out: the   *)
(* first refuses before anything is read, the second is part of the        *)
(* transaction that writes the row.                                        *)
(***************************************************************************)
EXTENDS Naturals

CONSTANTS Configs,    \* identifiers that Create can draw
          Admins,     \* concurrent callers of the service
          Endpoints,  \* values of (base_url, api_key, model)
          None        \* no endpoint: never registered with LiteLLM

ASSUME NoneAssumption == None \notin Endpoints
ASSUME SomeEndpoint == Endpoints # {}

VARIABLES existing,  \* ids with a row in model_provider_configs
          row,       \* the rows
          registry,  \* the endpoint LiteLLM has for each configuration
          op,        \* the operation each administrator has running
          clean      \* history: no overlap and no unanswered sync so far

vars == <<existing, row, registry, op, clean>>

Rows == [endpoint : Endpoints, enabled : BOOLEAN,
         probePassed : BOOLEAN, isCurrent : BOOLEAN]

Kinds == {"update", "enable", "disable", "switch", "probe"}
Steps == {"sync", "probe", "save", "restore"}

\* id and kind of the operation, its next step, the copy it works on and the
\* row as Get returned it (previous in Update).
Ops == [kind : Kinds, step : Steps, id : Configs, copy : Rows, base : Rows]
Idle == [kind |-> "none"]

NewRow(e) == [endpoint |-> e, enabled |-> TRUE,
              probePassed |-> FALSE, isCurrent |-> FALSE]

IsIdle(a) == op[a] = Idle
Current == {id \in existing : row[id].isCurrent}

Init ==
    /\ existing = {}
    /\ \E e \in Endpoints : row = [id \in Configs |-> NewRow(e)]
    /\ registry = [id \in Configs |-> None]
    /\ op = [a \in Admins |-> Idle]
    /\ clean = TRUE

Finish(a) == op' = [op EXCEPT ![a] = Idle]
Continue(a, step, copy) ==
    op' = [op EXCEPT ![a] = [kind |-> op[a].kind, step |-> step, id |-> op[a].id,
                             copy |-> copy, base |-> op[a].base]]

-----------------------------------------------------------------------------
(* Create: one transaction, no read before it. *)

Create(a, id, e) ==
    /\ IsIdle(a)
    /\ id \notin existing
    /\ existing' = existing \union {id}
    /\ row' = [row EXCEPT ![id] = NewRow(e)]
    /\ UNCHANGED <<registry, op, clean>>

-----------------------------------------------------------------------------
(* The operations that start with Get. *)

Begin(a, kind, id, step, copy) ==
    /\ IsIdle(a)
    /\ id \in existing
    /\ op' = [op EXCEPT ![a] = [kind |-> kind, step |-> step, id |-> id,
                                copy |-> copy, base |-> row[id]]]
    /\ clean' = (clean /\ \A b \in Admins : IsIdle(b))
    /\ UNCHANGED <<existing, row, registry>>

\* Mutation: a current configuration whose endpoint changes has to be
\* switched to again.
UpdateDroppingCurrent(a, id, e) ==
    LET changed == e # row[id].endpoint
        copy == [row[id] EXCEPT !.endpoint = e,
                                !.isCurrent = @ /\ ~changed,
                                !.probePassed = @ /\ ~changed]
    IN Begin(a, "update", id, "save", copy)

\* A change to the endpoint voids the probe; if the row is current the new
\* endpoint is registered and probed before it is stored.
Update(a, id, e) ==
    LET changed == e # row[id].endpoint
        copy == [endpoint |-> e,
                 enabled |-> row[id].enabled,
                 probePassed |-> row[id].probePassed /\ ~changed,
                 isCurrent |-> row[id].isCurrent]
    IN Begin(a, "update", id,
             IF changed /\ row[id].isCurrent THEN "sync" ELSE "save", copy)

Enable(a, id) ==
    Begin(a, "enable", id, "save", [row[id] EXCEPT !.enabled = TRUE])

\* Mutation: the current configuration may be disabled too.
DisableAny(a, id) ==
    Begin(a, "disable", id, "save", [row[id] EXCEPT !.enabled = FALSE])

Disable(a, id) ==
    /\ ~row[id].isCurrent
    /\ Begin(a, "disable", id, "save", [row[id] EXCEPT !.enabled = FALSE])

\* Mutation: a switch to a configuration LiteLLM may not have.
SwitchCurrentUnsynced(a, id) ==
    /\ row[id].enabled
    /\ Begin(a, "switch", id, "probe", row[id])

SwitchCurrent(a, id) ==
    /\ row[id].enabled
    /\ Begin(a, "switch", id, "sync", row[id])

Probe(a, id) == Begin(a, "probe", id, "probe", row[id])

-----------------------------------------------------------------------------
(* syncModelConfig, probeForCurrent and Prober.Probe: network calls. *)

At(a, step) == op[a] # Idle /\ op[a].step = step

\* An update of the current configuration that changes its endpoint.
Resyncs(a) ==
    /\ op[a].kind = "update"
    /\ op[a].copy.isCurrent
    /\ op[a].copy.endpoint # op[a].base.endpoint

Register(a, e) == registry' = [registry EXCEPT ![op[a].id] = e]

SyncDone(a) ==
    /\ At(a, "sync")
    /\ Register(a, op[a].copy.endpoint)
    /\ Continue(a, "probe", op[a].copy)
    /\ UNCHANGED <<existing, row, clean>>

\* The request is refused, or its answer lost after the proxy took it.
SyncFailed(a) ==
    /\ At(a, "sync")
    /\ Finish(a)
    /\ \/ UNCHANGED <<registry, clean>>
       \/ Register(a, op[a].copy.endpoint) /\ clean' = FALSE
    /\ UNCHANGED <<existing, row>>

ProbePassed(a) ==
    /\ At(a, "probe")
    /\ Continue(a, "save", [op[a].copy EXCEPT !.probePassed = TRUE])
    /\ UNCHANGED <<existing, row, registry, clean>>

\* Mutation: a switch that fails its probe is undone like an update.
ProbeFailedUndoing(a) ==
    /\ At(a, "probe")
    /\ \/ /\ op[a].kind = "probe"
          /\ Continue(a, "save", [op[a].copy EXCEPT !.probePassed = FALSE])
       \/ /\ op[a].kind \in {"update", "switch"}
          /\ Continue(a, "restore", op[a].copy)
    /\ UNCHANGED <<existing, row, registry, clean>>

\* Probe stores the result; Update undoes its sync; a switch gives up.
ProbeFailed(a) ==
    /\ At(a, "probe")
    /\ \/ /\ op[a].kind = "probe"
          /\ Continue(a, "save", [op[a].copy EXCEPT !.probePassed = FALSE])
       \/ /\ op[a].kind = "update"
          /\ Continue(a, "restore", op[a].copy)
       \/ /\ op[a].kind = "switch"
          /\ Finish(a)
    /\ UNCHANGED <<existing, row, registry, clean>>

\* restoreModelConfig: one attempt, and its error is only reported.
RestoreDone(a) ==
    /\ At(a, "restore")
    /\ Register(a, op[a].base.endpoint)
    /\ Finish(a)
    /\ UNCHANGED <<existing, row, clean>>

RestoreFailed(a) ==
    /\ At(a, "restore")
    /\ Finish(a)
    /\ clean' = FALSE
    /\ UNCHANGED <<existing, row, registry>>

-----------------------------------------------------------------------------
(* The transactions that write the copy back. *)

\* model_provider_configs_single_current_idx admits a row.
IndexAdmits(id, r) ==
    r.isCurrent => \A j \in existing \ {id} : ~row[j].isCurrent

\* SaveWithAudit: update, enable, disable, probe.
Save(a) ==
    /\ At(a, "save")
    /\ op[a].kind # "switch"
    /\ IndexAdmits(op[a].id, op[a].copy)
    /\ row' = [row EXCEPT ![op[a].id] = op[a].copy]
    /\ Finish(a)
    /\ UNCHANGED <<existing, registry, clean>>

\* Mutation: the mark is set for this row and not cleared elsewhere.
SaveAndSetCurrentOnly(a) ==
    /\ At(a, "save")
    /\ op[a].kind = "switch"
    /\ IndexAdmits(op[a].id, op[a].copy)
    /\ row' = [row EXCEPT ![op[a].id] = [op[a].copy EXCEPT !.isCurrent = TRUE]]
    /\ Finish(a)
    /\ UNCHANGED <<existing, registry, clean>>

\* SaveAndSetCurrentWithAudit: the row first, as read, then is_current is
\* cleared everywhere and set for this one.
SaveAndSetCurrent(a) ==
    /\ At(a, "save")
    /\ op[a].kind = "switch"
    /\ IndexAdmits(op[a].id, op[a].copy)
    /\ row' = [j \in Configs |->
                 IF j = op[a].id THEN [op[a].copy EXCEPT !.isCurrent = TRUE]
                 ELSE IF j \in existing THEN [row[j] EXCEPT !.isCurrent = FALSE]
                 ELSE row[j]]
    /\ Finish(a)
    /\ UNCHANGED <<existing, registry, clean>>

\* Mutation: Update does not undo its sync when the row cannot be stored.
AfterFailedSaveGivingUp(a) == Finish(a)

AfterFailedSave(a) ==
    \/ Resyncs(a) /\ Continue(a, "restore", op[a].copy)
    \/ ~Resyncs(a) /\ Finish(a)

\* The index refuses the row, two transactions deadlock, or the database
\* is unreachable: nothing is written.
SaveFailed(a) ==
    /\ At(a, "save")
    /\ AfterFailedSave(a)
    /\ UNCHANGED <<existing, row, registry, clean>>

-----------------------------------------------------------------------------
Operation(a) ==
    \/ \E id \in Configs :
        \/ \E e \in Endpoints : Create(a, id, e)
        \/ \E e \in Endpoints : Update(a, id, e)
        \/ Enable(a, id)
        \/ Disable(a, id)
        \/ SwitchCurrent(a, id)
        \/ Probe(a, id)
    \/ SyncDone(a)
    \/ SyncFailed(a)
    \/ ProbePassed(a)
    \/ ProbeFailed(a)
    \/ RestoreDone(a)
    \/ RestoreFailed(a)
    \/ Save(a)
    \/ SaveAndSetCurrent(a)
    \/ SaveFailed(a)

Next == \E a \in Admins : Operation(a)

Spec == Init /\ [][Next]_vars

-----------------------------------------------------------------------------
\* The network steps of an operation are those of its kind.
StepFitsKind(a) ==
    /\ At(a, "sync") => op[a].kind = "switch" \/ Resyncs(a)
    /\ At(a, "probe") => op[a].kind \in {"switch", "probe"} \/ Resyncs(a)
    /\ At(a, "restore") => Resyncs(a)

(* The variables keep their types.  Only a switch, and an update of the     *)
(* current configuration, talk to LiteLLM, and only such an update undoes.  *)
TypeOK ==
    /\ existing \subseteq Configs
    /\ row \in [Configs -> Rows]
    /\ registry \in [Configs -> Endpoints \union {None}]
    /\ op \in [Admins -> Ops \union {Idle}]
    /\ \A a \in Admins : StepFitsKind(a)
    /\ clean \in BOOLEAN

(* The current configuration is enabled.  Enabled and is_current are        *)
(* written together from a copy that may be old, Disable checks is_current  *)
(* and a switch checks enabled on their own copies only: the two marks      *)
(* still never contradict each other, because no copy ever does.            *)
CurrentIsEnabled == \A id \in Current : row[id].enabled

(* The current configuration is one LiteLLM was told about, even when it    *)
(* became current again through a row written from an old copy.             *)
CurrentIsRegistered == \A id \in Current : registry[id] # None

(* One administrator at a time: LiteLLM ends with the endpoint the store    *)
(* has for the current configuration, whether its update was stored or      *)
(* undone after a failed probe or a failed transaction.  Not so once two    *)
(* operations overlap, or a sync or its undoing was not answered.           *)
RegistryAgreesWhenQuiet ==
    clean /\ (\A a \in Admins : IsIdle(a)) =>
        \A id \in Current : registry[id] = row[id].endpoint

(* Which configuration is current changes by a switch, or by a row written  *)
(* back over a newer one (a lost update), and in no other way.              *)
CurrentChangesBySwitchOrStaleWrite ==
    [][Current' # Current =>
         \E a \in Admins :
            /\ At(a, "save") /\ op'[a] = Idle
            /\ op[a].kind = "switch" \/ op[a].base # row[op[a].id]]_vars

(* The readers' view of the table, for every interleaving of the operations *)
(* and of their failures.                                                   *)
Table == INSTANCE ConfigTable WITH
    enabled <- {id \in existing : row[id].enabled},
    probed <- {id \in existing : row[id].probePassed},
    current <- Current
ImplementsConfigTable == Table!TableSpec

(* What model-config-management/spec.md:33 asks for: disabling a            *)
(* configuration never leads to a state without a current one.              *)
DisablingKeepsACurrent ==
    [][\A a \in Admins :
         At(a, "save") /\ op[a].kind = "disable" /\ op'[a] = Idle
           => (Current # {} => Current' # {})]_vars
=============================================================================
