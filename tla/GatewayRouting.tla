---------------------------- MODULE GatewayRouting ----------------------------
(***************************************************************************)
(* One model call through the desensitization gateway and the router:      *)
(* Decorator.Complete and the first part of Decorator.Stream               *)
(* (internal/desensitization/gateway/decorator.go), the route policies     *)
(* (route_config.go), ConfigStoreRouteResolver (route_resolver.go) and     *)
(* Router.resolveConfig (internal/llm/runtime/runtime.go).                 *)
(*                                                                         *)
(* A call reads the configuration table up to three times (to learn its    *)
(* target, to look for a private way out, to resolve the configuration it  *)
(* is sent to) and the policies once, and each read is a query of its own. *)
(* Administrators change both in between: the table as ConfigTable lets    *)
(* them, the policies with SavePolicy.                                     *)
(*                                                                         *)
(* Text is abstracted to what was done to it: nothing, all three layers of *)
(* recognition, or regex and dictionary only.                              *)
(***************************************************************************)
EXTENDS ConfigTable

CONSTANTS PrivateConfigs,  \* those with network = private, fixed at creation
          Requests,        \* calls made by the layers above
          Levels,          \* content security levels
          Hardened,        \* classified and unknown
          None             \* no configuration id

ASSUME PrivateAssumption == PrivateConfigs \subseteq Configs
ASSUME HardenedAssumption == Hardened \subseteq Levels
ASSUME NoneAssumption == None \notin Configs

VARIABLES policies,      \* security_classification_routes
          hasProcessor,  \* whether this deployment has a text processor
          req,           \* the calls and how far each has come
          audits,        \* desensitization_audit_logs
          resolved,      \* the copy the router has read for each call
          overtaken,     \* history: calls whose copy was disabled afterwards
          sent           \* what the provider backend was given

routerVars == <<resolved, overtaken>>
gatewayVars == <<hasProcessor, req, audits, routerVars, sent>>
vars == <<existing, enabled, probed, current, policies, gatewayVars>>

Networks == {"public", "private"}
NetworkOf(id) == IF id \in PrivateConfigs THEN "private" ELSE "public"

Routes == [requirePrivate : BOOLEAN, config : Configs \union {None}]
Policies == [target : Networks, config : Configs \union {None}, degrade : BOOLEAN]
Contents == {"raw", "sanitized", "degraded"}
Events == {"none", "route_private", "public_sanitized", "degraded_public", "blocked"}
Steps == {"new", "target", "policy", "sanitize", "private_route", "audit",
          "dispatch", "sending", "calling", "failure_audit", "answered", "refused"}

NoRoute == [requirePrivate |-> FALSE, config |-> None]

-----------------------------------------------------------------------------
(* Route policies. *)

\* Mutation: hardening forgets the degradation switch and the target.
HardenNothing(level, p) == p

\* hardenPolicy: applied when a policy is saved and again when it is read.
Harden(level, p) ==
    IF level \in Hardened
    THEN [target |-> "private",
          config |-> IF p.target = "private" THEN p.config ELSE None,
          degrade |-> FALSE]
    ELSE p

DefaultPolicy(level) ==
    [target |-> IF level \in Hardened THEN "private" ELSE "public",
     config |-> None, degrade |-> FALSE]

\* The foreign key admits configurations of the table only.
SavePolicy(level, p) ==
    /\ p.config \in existing \union {None}
    /\ policies' = [policies EXCEPT ![level] = Harden(level, p)]
    /\ UNCHANGED <<tableVars, gatewayVars>>

-----------------------------------------------------------------------------
(* The calls. *)

\* What the caller asked for, what the gateway learnt about the target, and
\* what it decided: the route and the text that go on, and the disposition.
Calls == [step : Steps, level : Levels, route : Routes, target : Networks,
          seen : Configs \union {None}, degrade : BOOLEAN,
          content : Contents, event : Events]

NewCall(level) ==
    [step |-> "new", level |-> level, route |-> NoRoute, target |-> "public",
     seen |-> None, degrade |-> FALSE, content |-> "raw", event |-> "none"]

Init ==
    /\ TableInit
    /\ policies = [level \in Levels |-> DefaultPolicy(level)]
    /\ hasProcessor \in BOOLEAN
    /\ \E level \in Levels : req = [r \in Requests |-> NewCall(level)]
    /\ audits = {}
    /\ resolved = [r \in Requests |-> None]
    /\ overtaken = {}
    /\ sent = {}

At(r, step) == req[r].step = step

Decide(r, step, route, degrade, content, event) ==
    req' = [req EXCEPT ![r] =
              [step |-> step, level |-> req[r].level, route |-> route,
               target |-> req[r].target, seen |-> req[r].seen,
               degrade |-> degrade, content |-> content, event |-> event]]

Goto(r, step) ==
    Decide(r, step, req[r].route, req[r].degrade, req[r].content, req[r].event)

Arrive(r, level, route) ==
    /\ At(r, "new")
    /\ req' = [req EXCEPT ![r] =
                [step |-> "target", level |-> level, route |-> route,
                 target |-> "public", seen |-> None, degrade |-> FALSE,
                 content |-> "raw", event |-> "none"]]
    /\ UNCHANGED <<tableVars, policies, hasProcessor, audits, routerVars, sent>>

\* targetNetwork and NetworkForRoute.  `seen' remembers which configuration
\* was read; the code keeps its network only.
TargetIs(r, network, id) ==
    req' = [req EXCEPT ![r] =
              [step |-> IF network = "private" THEN "dispatch" ELSE "policy",
               level |-> req[r].level, route |-> req[r].route,
               target |-> network, seen |-> id, degrade |-> FALSE,
               content |-> "raw", event |-> "none"]]

ResolveTarget(r) ==
    /\ At(r, "target")
    /\ LET route == req[r].route
       IN \/ route.requirePrivate /\ TargetIs(r, "private", None)
          \/ /\ ~route.requirePrivate
             /\ route.config \in existing
             /\ TargetIs(r, NetworkOf(route.config), route.config)
          \/ /\ route = NoRoute
             /\ \E id \in current : TargetIs(r, NetworkOf(id), id)
          \/ /\ ~route.requirePrivate
             /\ route.config \notin existing
             /\ route.config = None => current = {}
             /\ Goto(r, "refused")
    /\ UNCHANGED <<tableVars, policies, hasProcessor, audits, routerVars, sent>>

\* Mutation: a new route is taken without saying why.
RerouteUnnamed(r, route, event) ==
    Decide(r, "audit", route, req[r].degrade, req[r].content, req[r].event)

Reroute(r, route, event) ==
    Decide(r, "audit", route, req[r].degrade, req[r].content, event)

\* prepareRequest up to the sanitisation.  A policy that keeps the level
\* inside wins over everything, and so does a missing processor.
ReadPolicy(r) ==
    /\ At(r, "policy")
    /\ LET p == Harden(req[r].level, policies[req[r].level])
       IN \/ /\ p.target = "private"
             /\ Reroute(r, [requirePrivate |-> TRUE, config |-> p.config],
                        "route_private")
          \/ /\ p.target = "public"
             /\ ~hasProcessor
             /\ Reroute(r, [requirePrivate |-> TRUE, config |-> None],
                        "route_private")
          \/ /\ p.target = "public"
             /\ hasProcessor
             /\ Decide(r, "sanitize",
                       IF p.config = None THEN req[r].route
                       ELSE [requirePrivate |-> FALSE, config |-> p.config],
                       p.degrade, "raw", "none")
    /\ UNCHANGED <<tableVars, policies, hasProcessor, audits, routerVars, sent>>

\* sanitizeMessages, with the NER call in it.
Sanitize(r) ==
    /\ At(r, "sanitize")
    /\ Decide(r, "audit", req[r].route, req[r].degrade,
              "sanitized", "public_sanitized")
    /\ UNCHANGED <<tableVars, policies, hasProcessor, audits, routerVars, sent>>

NERUnavailable(r) ==
    /\ At(r, "sanitize")
    /\ Goto(r, "private_route")
    /\ UNCHANGED <<tableVars, policies, hasProcessor, audits, routerVars, sent>>

\* prepareNERUnavailable: a private way out, degraded text, or nothing.
PrivateWaysOut == enabled \intersect probed \intersect PrivateConfigs

MayDegrade(r) == req[r].degrade /\ req[r].level \notin Hardened

FallBack(r) ==
    /\ At(r, "private_route")
    /\ \/ \E id \in PrivateWaysOut :
            Reroute(r, [requirePrivate |-> TRUE, config |-> id], "route_private")
       \/ /\ PrivateWaysOut = {}
          /\ MayDegrade(r)
          /\ Decide(r, "audit",
                    [requirePrivate |-> FALSE, config |-> req[r].route.config],
                    req[r].degrade, "degraded", "degraded_public")
       \/ /\ PrivateWaysOut = {}
          /\ ~MayDegrade(r)
          /\ Reroute(r, req[r].route, "blocked")
    /\ UNCHANGED <<tableVars, policies, hasProcessor, audits, routerVars, sent>>

\* Mutation: a call whose audit cannot be written goes on.
AuditFailsOpen(r) ==
    /\ At(r, "audit")
    /\ Goto(r, IF req[r].event = "blocked" THEN "refused" ELSE "dispatch")
    /\ UNCHANGED <<tableVars, policies, hasProcessor, audits, routerVars, sent>>

\* Any query may fail, and so may writing the audit: the call is refused.
AuditFails(r) ==
    /\ At(r, "audit")
    /\ Goto(r, "refused")
    /\ UNCHANGED <<tableVars, policies, hasProcessor, audits, routerVars, sent>>

QueryFails(r) ==
    /\ req[r].step \in {"target", "policy", "sanitize", "private_route"}
    /\ Goto(r, "refused")
    /\ UNCHANGED <<tableVars, policies, hasProcessor, audits, routerVars, sent>>

\* auditDisposition before anything leaves.
Record(r, event) == audits' = audits \union {[request |-> r, event |-> event]}

AppendAudit(r) ==
    /\ At(r, "audit")
    /\ Record(r, req[r].event)
    /\ Goto(r, IF req[r].event = "blocked" THEN "refused" ELSE "dispatch")
    /\ UNCHANGED <<tableVars, policies, hasProcessor, routerVars, sent>>

-----------------------------------------------------------------------------
(* Router: the configuration is resolved anew, then the backend is called. *)

\* Mutation: a route that asks for a private configuration is taken at its
\* word when it names one.
ResolvesTrusting(route) ==
    IF route.config # None
    THEN {route.config} \intersect enabled
    ELSE IF route.requirePrivate THEN enabled \intersect PrivateConfigs
    ELSE current

\* Mutation: a private configuration need not be enabled.
ResolvesDisabled(route) ==
    IF route.config # None
    THEN {id \in existing : /\ id = route.config
                            /\ route.requirePrivate => id \in PrivateConfigs}
    ELSE IF route.requirePrivate THEN existing \intersect PrivateConfigs
    ELSE current

\* resolveConfig: the configurations it may return, none when it fails.
Resolves(route) ==
    IF route.config # None
    THEN {id \in enabled : /\ id = route.config
                           /\ route.requirePrivate => id \in PrivateConfigs}
    ELSE IF route.requirePrivate THEN enabled \intersect PrivateConfigs
    ELSE current

\* auditPrivateRuntimeFailure audits the failure of a rerouted call only.
WasRerouted(r) == req[r].target = "public" /\ req[r].route.requirePrivate

AfterFailure(r) == Goto(r, IF WasRerouted(r) THEN "failure_audit" ELSE "refused")

ResolveConfig(r) ==
    /\ At(r, "dispatch")
    /\ \E id \in Resolves(req[r].route) : resolved' = [resolved EXCEPT ![r] = id]
    /\ Goto(r, "sending")
    /\ UNCHANGED <<tableVars, policies, hasProcessor, audits, overtaken, sent>>

\* No configuration fits, or the store cannot be read.
ResolveFails(r) ==
    /\ At(r, "dispatch")
    /\ AfterFailure(r)
    /\ UNCHANGED <<tableVars, policies, hasProcessor, audits, routerVars, sent>>

\* The backend is given the copy, whatever has become of the row.
Send(r) ==
    /\ At(r, "sending")
    /\ sent' = sent \union {[request |-> r, config |-> resolved[r],
                             content |-> req[r].content]}
    /\ Goto(r, "calling")
    /\ UNCHANGED <<tableVars, policies, hasProcessor, audits, routerVars>>

BackendAnswers(r) ==
    /\ At(r, "calling")
    /\ Goto(r, "answered")
    /\ UNCHANGED <<tableVars, policies, hasProcessor, audits, routerVars, sent>>

BackendFails(r) ==
    /\ At(r, "calling")
    /\ AfterFailure(r)
    /\ UNCHANGED <<tableVars, policies, hasProcessor, audits, routerVars, sent>>

\* The caller gets an error whether the audit is written or not.
AuditFailure(r) ==
    /\ At(r, "failure_audit")
    /\ Goto(r, "refused")
    /\ Record(r, "blocked") \/ UNCHANGED audits
    /\ UNCHANGED <<tableVars, policies, hasProcessor, routerVars, sent>>

-----------------------------------------------------------------------------
Step(r) ==
    \/ ResolveTarget(r)
    \/ ReadPolicy(r)
    \/ Sanitize(r)
    \/ NERUnavailable(r)
    \/ FallBack(r)
    \/ AppendAudit(r)
    \/ AuditFails(r)
    \/ QueryFails(r)
    \/ ResolveConfig(r)
    \/ ResolveFails(r)
    \/ Send(r)
    \/ BackendAnswers(r)
    \/ BackendFails(r)
    \/ AuditFailure(r)

Administer ==
    /\ TableNext
    /\ overtaken' = overtaken \union {r \in Requests : resolved[r] \in enabled \ enabled'}
    /\ UNCHANGED <<policies, hasProcessor, req, audits, resolved, sent>>

Next ==
    \/ Administer
    \/ \E level \in Levels : \E p \in Policies : SavePolicy(level, p)
    \/ \E r \in Requests : \E level \in Levels : \E route \in Routes :
        Arrive(r, level, route)
    \/ \E r \in Requests : Step(r)

Spec == Init /\ [][Next]_vars

-----------------------------------------------------------------------------
(* The variables keep their types, and a call that goes to the audit log    *)
(* has a disposition to record.                                             *)
TypeOK ==
    /\ existing \subseteq Configs
    /\ enabled \subseteq existing
    /\ probed \subseteq existing
    /\ current \subseteq existing
    /\ policies \in [Levels -> Policies]
    /\ hasProcessor \in BOOLEAN
    /\ req \in [Requests -> Calls]
    /\ \A r \in Requests : At(r, "audit") => req[r].event # "none"
    /\ audits \subseteq [request : Requests, event : Events]
    /\ resolved \in [Requests -> Configs \union {None}]
    /\ overtaken \subseteq Requests
    /\ sent \subseteq [request : Requests, config : Configs, content : Contents]

LeavesDomain(s) == s.config \notin PrivateConfigs

(* Original text reaches a public configuration in one way only: the call   *)
(* named no configuration, the current one was private when the gateway     *)
(* looked, and another one had become current when the router looked.  No   *)
(* policy change, no fallback and no failure opens a second way.            *)
RawLeavesOnlyByASwitch ==
    \A s \in sent :
        s.content = "raw" /\ LeavesDomain(s) =>
            /\ req[s.request].route = NoRoute
            /\ req[s.request].seen \in PrivateConfigs
            /\ req[s.request].seen # s.config

(* Text of a level that must stay inside is never sanitised or degraded for *)
(* a public model, whatever policies were saved for it before and during    *)
(* the call.                                                                *)
HardenedIsNeverSanitizedOut ==
    \A s \in sent : req[s.request].level \in Hardened => s.content = "raw"

(* Nothing leaves unaudited: sanitised and degraded text, and a reroute to  *)
(* a private model, are in the audit log before the backend has them.       *)
AuditedBeforeSent ==
    \A s \in sent :
        req[s.request].target = "public" =>
            [request |-> s.request,
             event |-> CASE s.content = "sanitized" -> "public_sanitized"
                         [] s.content = "degraded" -> "degraded_public"
                         [] s.content = "raw" -> "route_private"] \in audits

(* A disabled configuration is given only calls that the router had read it *)
(* for before it was disabled: what a policy, the gateway or the caller     *)
(* chose earlier does not count, and the mark of the current configuration, *)
(* at whose enabled flag the router does not look, never names a disabled   *)
(* one.                                                                     *)
DisabledGetsEarlierCallsOnly ==
    [][\A s \in sent' \ sent : s.config \in enabled \/ s.request \in overtaken]_vars

(* What desensitization-gateway/spec.md:5 asks for: no public model gets    *)
(* text the gateway has not processed.                                      *)
NoRawToPublic == \A s \in sent : LeavesDomain(s) => s.content # "raw"
=============================================================================
