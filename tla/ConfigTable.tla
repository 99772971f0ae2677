----------------------------- MODULE ConfigTable -----------------------------
(***************************************************************************)
(* What the table of model configurations promises its readers: the router *)
(* and the desensitization gateway, which read it with Get, List and       *)
(* Current (internal/llm/config/store.go, Store) and never write it.       *)
(*                                                                         *)
(* A configuration never goes away, at most one is current, and a current  *)
(* one is enabled.  It does not promise that there is a current one, nor   *)
(* that the current one has passed its last probe.                         *)
(***************************************************************************)
CONSTANT Configs

VARIABLES existing,  \* the configurations in the table
          enabled,   \* those with enabled = TRUE
          probed,    \* those with probe_passed = TRUE
          current    \* those with is_current = TRUE

tableVars == <<existing, enabled, probed, current>>

TableInit ==
    /\ existing = {}
    /\ enabled = {}
    /\ probed = {}
    /\ current = {}

\* S may gain or lose id and nothing else.
MayToggle(S, id, T) == T \in {S \union {id}, S \ {id}}

AddConfig(id) ==
    /\ id \notin existing
    /\ existing' = existing \union {id}
    /\ enabled' = enabled \union {id}
    /\ UNCHANGED <<probed, current>>

EditConfig(id) ==
    /\ id \in existing
    /\ MayToggle(enabled, id, enabled')
    /\ MayToggle(probed, id, probed')
    /\ id \in current => id \in enabled'
    /\ UNCHANGED <<existing, current>>

\* A switch: the new current configuration has just passed a probe.
MakeCurrent(id) ==
    /\ id \in existing
    /\ enabled' = enabled \union {id}
    /\ probed' = probed \union {id}
    /\ current' = {id}
    /\ UNCHANGED existing

\* A row written from an old copy takes the mark away from the current
\* configuration ...
LoseCurrent(id) ==
    /\ current = {id}
    /\ MayToggle(enabled, id, enabled')
    /\ MayToggle(probed, id, probed')
    /\ current' = {}
    /\ UNCHANGED existing

\* ... or gives it back to a former one, when nothing is current.
RegainCurrent(id) ==
    /\ id \in existing
    /\ current = {}
    /\ enabled' = enabled \union {id}
    /\ MayToggle(probed, id, probed')
    /\ current' = {id}
    /\ UNCHANGED existing

TableNext ==
    \E id \in Configs :
        \/ AddConfig(id)
        \/ EditConfig(id)
        \/ MakeCurrent(id)
        \/ LoseCurrent(id)
        \/ RegainCurrent(id)

TableSpec == TableInit /\ [][TableNext]_tableVars
=============================================================================
