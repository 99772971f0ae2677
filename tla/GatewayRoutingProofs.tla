-------------------------- MODULE GatewayRoutingProofs --------------------------
(***************************************************************************)
(* The safety properties of GatewayRouting for every set of                *)
(* configurations, calls and levels.                                       *)
(*                                                                         *)
(* The inductive invariant says of each call what its step tells about it  *)
(* (CallFits), and of each text sent that its call is past the point where *)
(* anything about it can change (SentFits).                                *)
(***************************************************************************)
EXTENDS GatewayRouting, TLAPS

Done == {"calling", "failure_audit", "answered", "refused"}
Early == {"new", "target", "policy", "sanitize", "private_route"}

\* The target of a call that goes to dispatch untouched: private when asked
\* for, and otherwise because of the configuration that was read.
StaysInside(c) ==
    \/ c.route.requirePrivate
    \/ c.route.config # None /\ c.route.config \in PrivateConfigs
    \/ c.route = NoRoute /\ c.seen \in PrivateConfigs

CallFits(r, c) ==
    /\ c.step \in Early => c.content = "raw"
    /\ c.step \in {"sanitize", "private_route"} => c.level \notin Hardened
    /\ c.content # "raw" => c.level \notin Hardened
    /\ c.step \in {"policy", "sanitize", "private_route", "audit"} => c.target = "public"
    /\ c.step \in {"audit", "dispatch", "sending"} /\ c.target = "public" =>
        /\ c.event # "none"
        /\ c.content = "sanitized" => c.event = "public_sanitized"
        /\ c.content = "degraded" => c.event = "degraded_public"
        /\ c.content = "raw" /\ c.event # "blocked" =>
            c.event = "route_private" /\ c.route.requirePrivate
    /\ c.step \in {"dispatch", "sending"} /\ c.target = "public" =>
        c.event # "blocked" /\ [request |-> r, event |-> c.event] \in audits
    /\ c.step \in {"dispatch", "sending"} /\ c.target = "private" =>
        c.content = "raw" /\ StaysInside(c)
    /\ c.step = "sending" =>
        /\ resolved[r] \in Configs
        /\ resolved[r] \in enabled \/ r \in overtaken
        /\ c.content = "raw" /\ resolved[r] \notin PrivateConfigs =>
            c.route = NoRoute /\ c.seen \in PrivateConfigs

\* The event that stands for a text of this kind in the audit log.
Disposition(content) ==
    CASE content = "sanitized" -> "public_sanitized"
      [] content = "degraded" -> "degraded_public"
      [] content = "raw" -> "route_private"

SentFits(s, c) ==
    /\ c.step \in Done
    /\ s.content = "raw" /\ LeavesDomain(s) =>
        c.route = NoRoute /\ c.seen \in PrivateConfigs /\ c.seen # s.config
    /\ c.level \in Hardened => s.content = "raw"
    /\ c.target = "public" =>
        [request |-> s.request, event |-> Disposition(s.content)] \in audits

TableOK ==
    /\ existing \subseteq Configs
    /\ enabled \subseteq existing
    /\ probed \subseteq existing
    /\ current \subseteq existing
    /\ current \subseteq enabled

StoreOK ==
    /\ policies \in [Levels -> Policies]
    /\ hasProcessor \in BOOLEAN
    /\ audits \subseteq [request : Requests, event : Events]
    /\ resolved \in [Requests -> Configs \union {None}]
    /\ overtaken \subseteq Requests
    /\ sent \subseteq [request : Requests, config : Configs, content : Contents]

IInv ==
    /\ TableOK
    /\ StoreOK
    /\ req \in [Requests -> Calls]
    /\ \A r \in Requests : CallFits(r, req[r])
    /\ \A s \in sent : SentFits(s, req[s.request])

-----------------------------------------------------------------------------
(* What an administrator's change to the table keeps. *)
LEMMA TableKept ==
    ASSUME TableOK, TableNext
    PROVE  TableOK'
<1>1. PICK id \in Configs :
        \/ AddConfig(id)
        \/ EditConfig(id)
        \/ MakeCurrent(id)
        \/ LoseCurrent(id)
        \/ RegainCurrent(id)
  BY DEF TableNext
<1>2. CASE AddConfig(id)
  BY <1>2 DEF TableOK, AddConfig
<1>3. CASE EditConfig(id)
  BY <1>3 DEF TableOK, EditConfig, MayToggle
<1>4. CASE MakeCurrent(id)
  BY <1>4 DEF TableOK, MakeCurrent
<1>5. CASE LoseCurrent(id)
  BY <1>5 DEF TableOK, LoseCurrent, MayToggle
<1>6. CASE RegainCurrent(id)
  BY <1>6 DEF TableOK, RegainCurrent, MayToggle
<1> QED
  BY <1>1, <1>2, <1>3, <1>4, <1>5, <1>6

(* A step of one call that sends nothing keeps the invariant if the call    *)
(* fits its new step, and if a call that was past dispatch stays there and  *)
(* changes its step only.                                                   *)
LEMMA StepResolvingKept ==
    ASSUME IInv,
           NEW r \in Requests, NEW c \in Calls,
           req' = [req EXCEPT ![r] = c],
           UNCHANGED <<tableVars, policies, hasProcessor, overtaken, sent>>,
           resolved' \in [Requests -> Configs \union {None}],
           \A q \in Requests \ {r} : resolved'[q] = resolved[q],
           audits \subseteq audits',
           audits' \subseteq [request : Requests, event : Events],
           CallFits(r, c)',
           req[r].step \in Done =>
               /\ c.step \in Done
               /\ c.level = req[r].level
               /\ c.target = req[r].target
               /\ c.route = req[r].route
               /\ c.seen = req[r].seen
    PROVE  IInv'
<1>1. req' \in [Requests -> Calls] /\ req'[r] = c
      /\ \A q \in Requests : q # r => req'[q] = req[q]
  BY DEF IInv
<1>2. TableOK'
  BY DEF IInv, TableOK, tableVars
<1>3. StoreOK'
  BY DEF IInv, StoreOK
<1>4. ASSUME NEW q \in Requests
      PROVE  CallFits(q, req[q])'
  <2>1. CASE q = r
    BY <2>1, <1>1
  <2>2. CASE q # r
    <3>1. /\ req'[q] = req[q] /\ resolved'[q] = resolved[q]
          /\ enabled' = enabled /\ overtaken' = overtaken
      BY <2>2, <1>1 DEF tableVars
    <3>2. CallFits(q, req[q])
      BY DEF IInv
    <3> QED
      BY <3>1, <3>2 DEF CallFits, StaysInside
  <2> QED
    BY <2>1, <2>2
<1>5. ASSUME NEW s \in sent'
      PROVE  SentFits(s, req[s.request])'
  <2>1. s \in sent /\ s.request \in Requests
    BY DEF IInv, StoreOK
  <2>2. SentFits(s, req[s.request])
    BY <2>1 DEF IInv
  <2>3. CASE s.request = r
    BY <2>1, <2>2, <2>3, <1>1 DEF SentFits, LeavesDomain
  <2>4. CASE s.request # r
    BY <2>1, <2>2, <2>4, <1>1 DEF SentFits, LeavesDomain
  <2> QED
    BY <2>3, <2>4
<1> QED
  BY <1>1, <1>2, <1>3, <1>4, <1>5 DEF IInv

LEMMA StepKept ==
    ASSUME IInv,
           NEW r \in Requests, NEW c \in Calls,
           req' = [req EXCEPT ![r] = c],
           UNCHANGED <<tableVars, policies, hasProcessor, routerVars, sent>>,
           audits \subseteq audits',
           audits' \subseteq [request : Requests, event : Events],
           CallFits(r, c)',
           req[r].step \in Done =>
               /\ c.step \in Done
               /\ c.level = req[r].level
               /\ c.target = req[r].target
               /\ c.route = req[r].route
               /\ c.seen = req[r].seen
    PROVE  IInv'
<1>1. /\ UNCHANGED <<tableVars, policies, hasProcessor, overtaken, sent>>
      /\ resolved' = resolved
  BY DEF routerVars
<1>2. resolved \in [Requests -> Configs \union {None}]
  BY DEF IInv, StoreOK
<1> QED
  BY <1>1, <1>2, StepResolvingKept

-----------------------------------------------------------------------------
LEMMA InitFits == Init => IInv
<1> SUFFICES ASSUME Init PROVE IInv
  OBVIOUS
<1>1. PICK level \in Levels : req = [r \in Requests |-> NewCall(level)]
  BY DEF Init
<1>2. NewCall(level) \in Calls
  BY <1>1 DEF NewCall, Calls, Steps, NoRoute, Routes, Networks, Contents, Events
<1>3. \A r \in Requests : CallFits(r, req[r])
  BY <1>1 DEF CallFits, NewCall
<1>4. \A l \in Levels : DefaultPolicy(l) \in Policies
  BY DEF DefaultPolicy, Policies, Networks
<1> QED
  BY <1>1, <1>2, <1>3, <1>4 DEF IInv, Init, TableInit, TableOK, StoreOK

LEMMA HardenedPolicy ==
    ASSUME NEW level \in Levels, NEW p \in Policies
    PROVE  /\ Harden(level, p) \in Policies
           /\ level \in Hardened => Harden(level, p).target = "private"
BY DEF Harden, Policies, Networks

\* The record Decide gives to a call.
Decided(r, step, route, degrade, content, event) ==
    [step |-> step, level |-> req[r].level, route |-> route,
     target |-> req[r].target, seen |-> req[r].seen,
     degrade |-> degrade, content |-> content, event |-> event]

LEMMA DecidedIsCall ==
    ASSUME req \in [Requests -> Calls], NEW r \in Requests,
           NEW step \in Steps, NEW route \in Routes, NEW degrade \in BOOLEAN,
           NEW content \in Contents, NEW event \in Events
    PROVE  Decided(r, step, route, degrade, content, event) \in Calls
BY DEF Decided, Calls

(* Goto changes the step and nothing else. *)
LEMMA GotoKept ==
    ASSUME IInv, NEW r \in Requests, NEW step \in Steps,
           Goto(r, step),
           UNCHANGED <<tableVars, policies, hasProcessor, routerVars, sent>>,
           audits \subseteq audits',
           audits' \subseteq [request : Requests, event : Events],
           req[r].step \in Done => step \in Done,
           \/ step \in Done
           \/ step = "private_route" /\ req[r].step = "sanitize"
           \/ /\ step = "dispatch"
              /\ req[r].step = "audit"
              /\ req[r].event # "blocked"
              /\ [request |-> r, event |-> req[r].event] \in audits'
    PROVE  IInv'
<1> DEFINE c == Decided(r, step, req[r].route, req[r].degrade,
                        req[r].content, req[r].event)
<1>1. req[r] \in Calls /\ CallFits(r, req[r])
  BY DEF IInv
<1>2. c \in Calls
  BY <1>1 DEF Decided, Calls
<1>3. PICK d \in Calls : d = c
  BY <1>2
<1>4. req' = [req EXCEPT ![r] = d]
  BY <1>3 DEF Goto, Decide, Decided
<1>5. /\ d.step = step /\ d.level = req[r].level /\ d.route = req[r].route
      /\ d.target = req[r].target /\ d.seen = req[r].seen
      /\ d.content = req[r].content /\ d.event = req[r].event
  BY <1>3 DEF Decided
<1> HIDE DEF c
<1>6. CallFits(r, d)'
  BY <1>1, <1>5 DEF CallFits, StaysInside, Done, Early
<1> QED
  BY <1>4, <1>5, <1>6, StepKept

-----------------------------------------------------------------------------
(* The steps of a call before the audit. *)

LEMMA ArriveKept ==
    ASSUME IInv, NEW r \in Requests, NEW level \in Levels, NEW route \in Routes,
           Arrive(r, level, route)
    PROVE  IInv'
<1> DEFINE c == [step |-> "target", level |-> level, route |-> route,
                 target |-> "public", seen |-> None, degrade |-> FALSE,
                 content |-> "raw", event |-> "none"]
<1>1. c \in Calls
  BY DEF Calls, Steps, Networks, Contents, Events
<1>2. req[r].step \notin Done
  BY DEF Arrive, At, Done
<1>3. PICK d \in Calls : d = c
  BY <1>1
<1>4. req' = [req EXCEPT ![r] = d]
  BY <1>3 DEF Arrive
<1>5. CallFits(r, d)'
  BY <1>3 DEF CallFits, Early
<1>6. audits' \subseteq [request : Requests, event : Events] /\ audits \subseteq audits'
      /\ UNCHANGED <<tableVars, policies, hasProcessor, routerVars, sent>>
  BY DEF Arrive, IInv, StoreOK
<1> HIDE DEF c
<1> QED
  BY <1>2, <1>4, <1>5, <1>6, StepKept

LEMMA TargetKept ==
    ASSUME IInv, NEW r \in Requests, NEW network \in Networks,
           NEW id \in Configs \union {None},
           At(r, "target"),
           TargetIs(r, network, id),
           UNCHANGED <<tableVars, policies, hasProcessor, audits, routerVars, sent>>,
           network = "private" =>
               \/ req[r].route.requirePrivate
               \/ req[r].route.config # None /\ req[r].route.config \in PrivateConfigs
               \/ req[r].route = NoRoute /\ id \in PrivateConfigs
    PROVE  IInv'
<1> DEFINE c == [step |-> IF network = "private" THEN "dispatch" ELSE "policy",
                 level |-> req[r].level, route |-> req[r].route,
                 target |-> network, seen |-> id, degrade |-> FALSE,
                 content |-> "raw", event |-> "none"]
<1>1. req[r] \in Calls
  BY DEF IInv
<1>2. c \in Calls
  BY <1>1 DEF Calls, Steps, Contents, Events
<1>3. req[r].step \notin Done
  BY DEF At, Done
<1>4. PICK d \in Calls : d = c
  BY <1>2
<1>5. req' = [req EXCEPT ![r] = d]
  BY <1>4 DEF TargetIs
<1>6. CallFits(r, d)'
  BY <1>4 DEF CallFits, StaysInside, Early, Networks
<1>7. audits' \subseteq [request : Requests, event : Events] /\ audits \subseteq audits'
  BY DEF IInv, StoreOK
<1> HIDE DEF c
<1> QED
  BY <1>3, <1>5, <1>6, <1>7, StepKept

LEMMA ResolveTargetKept ==
    ASSUME IInv, NEW r \in Requests, ResolveTarget(r)
    PROVE  IInv'
<1> DEFINE route == req[r].route
<1>1. /\ At(r, "target")
      /\ UNCHANGED <<tableVars, policies, hasProcessor, audits, routerVars, sent>>
      /\ audits' \subseteq [request : Requests, event : Events]
      /\ audits \subseteq audits'
  BY DEF ResolveTarget, IInv, StoreOK
<1>2. req[r] \in Calls /\ existing \subseteq Configs /\ current \subseteq Configs
  BY DEF IInv, TableOK
<1>3. CASE route.requirePrivate /\ TargetIs(r, "private", None)
  <2>1. "private" \in Networks /\ None \in Configs \union {None}
    BY DEF Networks
  <2> QED
    BY <1>1, <1>3, <2>1, TargetKept
<1>4. CASE /\ ~route.requirePrivate
           /\ route.config \in existing
           /\ TargetIs(r, NetworkOf(route.config), route.config)
  <2>1. NetworkOf(route.config) \in Networks /\ route.config \in Configs \union {None}
    BY <1>2, <1>4 DEF NetworkOf, Networks
  <2>2. NetworkOf(route.config) = "private" => route.config \in PrivateConfigs
    BY DEF NetworkOf
  <2>3. route.config # None
    BY <1>2, <1>4, NoneAssumption
  <2> QED
    BY <1>1, <1>4, <2>1, <2>2, <2>3, TargetKept
<1>5. CASE route = NoRoute /\ \E id \in current : TargetIs(r, NetworkOf(id), id)
  <2>1. PICK id \in current : TargetIs(r, NetworkOf(id), id)
    BY <1>5
  <2>2. NetworkOf(id) \in Networks /\ id \in Configs \union {None}
    BY <1>2 DEF NetworkOf, Networks
  <2>3. NetworkOf(id) = "private" => id \in PrivateConfigs
    BY DEF NetworkOf
  <2> QED
    BY <1>1, <1>5, <2>1, <2>2, <2>3, TargetKept
<1>6. CASE Goto(r, "refused")
  BY <1>1, <1>6, GotoKept DEF Steps, Done
<1> QED
  BY <1>3, <1>4, <1>5, <1>6 DEF ResolveTarget

(* A decision taken before the audit: what it has to satisfy. *)
LEMMA DecideKept ==
    ASSUME IInv, NEW r \in Requests, NEW step \in {"sanitize", "audit"},
           NEW route \in Routes, NEW degrade \in BOOLEAN,
           NEW content \in Contents, NEW event \in Events,
           req[r].step \in {"policy", "sanitize", "private_route"},
           Decide(r, step, route, degrade, content, event),
           UNCHANGED <<tableVars, policies, hasProcessor, audits, routerVars, sent>>,
           step = "sanitize" => content = "raw" /\ req[r].level \notin Hardened,
           content # "raw" => req[r].level \notin Hardened,
           step = "audit" =>
               /\ event # "none"
               /\ content = "sanitized" => event = "public_sanitized"
               /\ content = "degraded" => event = "degraded_public"
               /\ content = "raw" /\ event # "blocked" =>
                   event = "route_private" /\ route.requirePrivate
    PROVE  IInv'
<1> DEFINE c == Decided(r, step, route, degrade, content, event)
<1>1. req[r] \in Calls /\ CallFits(r, req[r])
  BY DEF IInv
<1>2. c \in Calls
  BY DecidedIsCall DEF IInv, Steps
<1>3. PICK d \in Calls : d = c
  BY <1>2
<1>4. req' = [req EXCEPT ![r] = d]
  BY <1>3 DEF Decide, Decided
<1>5. /\ d.step = step /\ d.level = req[r].level /\ d.route = route
      /\ d.target = req[r].target /\ d.content = content /\ d.event = event
  BY <1>3 DEF Decided
<1> HIDE DEF c
<1>6. CallFits(r, d)'
  BY <1>1, <1>5 DEF CallFits, Early
<1>7. /\ audits' \subseteq [request : Requests, event : Events]
      /\ audits \subseteq audits'
      /\ req[r].step \notin Done
  BY DEF IInv, StoreOK, Done
<1> QED
  BY <1>4, <1>6, <1>7, StepKept

LEMMA RerouteKept ==
    ASSUME IInv, NEW r \in Requests, NEW route \in Routes, NEW event \in Events,
           req[r].step \in {"policy", "private_route"},
           Reroute(r, route, event),
           UNCHANGED <<tableVars, policies, hasProcessor, audits, routerVars, sent>>,
           event # "none",
           event # "blocked" => event = "route_private" /\ route.requirePrivate
    PROVE  IInv'
<1>1. req[r] \in Calls /\ req[r].content = "raw"
  BY DEF IInv, CallFits, Early
<1>2. PICK degrade \in BOOLEAN, content \in Contents :
        degrade = req[r].degrade /\ content = req[r].content
  BY <1>1 DEF Calls
<1>3. Decide(r, "audit", route, degrade, content, event)
  BY <1>2 DEF Reroute, Decide
<1> QED
  BY <1>1, <1>2, <1>3, DecideKept

LEMMA ReadPolicyKept ==
    ASSUME IInv, NEW r \in Requests, ReadPolicy(r)
    PROVE  IInv'
<1>1. /\ req[r].step = "policy"
      /\ UNCHANGED <<tableVars, policies, hasProcessor, audits, routerVars, sent>>
      /\ req[r] \in Calls
  BY DEF ReadPolicy, At, IInv
<1>2. PICK p \in Policies : p = Harden(req[r].level, policies[req[r].level])
  BY <1>1, HardenedPolicy DEF IInv, StoreOK, Calls
<1>3. req[r].level \in Hardened => p.target = "private"
  BY <1>1, <1>2, HardenedPolicy DEF IInv, StoreOK, Calls
<1>4. CASE /\ p.target = "private"
           /\ Reroute(r, [requirePrivate |-> TRUE, config |-> p.config], "route_private")
  <2>1. PICK route \in Routes : route = [requirePrivate |-> TRUE, config |-> p.config]
    BY DEF Routes, Policies
  <2>2. Reroute(r, route, "route_private") /\ route.requirePrivate
    BY <1>4, <2>1 DEF Reroute, Decide
  <2> QED
    BY <1>1, <2>2, RerouteKept DEF Events
<1>5. CASE Reroute(r, [requirePrivate |-> TRUE, config |-> None], "route_private")
  <2>1. PICK route \in Routes : route = [requirePrivate |-> TRUE, config |-> None]
    BY DEF Routes
  <2>2. Reroute(r, route, "route_private") /\ route.requirePrivate
    BY <1>5, <2>1 DEF Reroute, Decide
  <2> QED
    BY <1>1, <2>2, RerouteKept DEF Events
<1>6. CASE /\ p.target = "public"
           /\ Decide(r, "sanitize",
                     IF p.config = None THEN req[r].route
                     ELSE [requirePrivate |-> FALSE, config |-> p.config],
                     p.degrade, "raw", "none")
  <2>1. PICK route \in Routes :
          route = IF p.config = None THEN req[r].route
                  ELSE [requirePrivate |-> FALSE, config |-> p.config]
    BY <1>1 DEF Routes, Policies, Calls
  <2>2. PICK degrade \in BOOLEAN : degrade = p.degrade
    BY DEF Policies
  <2>3. Decide(r, "sanitize", route, degrade, "raw", "none")
    BY <1>6, <2>1, <2>2 DEF Decide
  <2>4. req[r].level \notin Hardened
    BY <1>3, <1>6
  <2> QED
    BY <1>1, <2>3, <2>4, DecideKept DEF Contents, Events
<1> QED
  BY <1>2, <1>4, <1>5, <1>6 DEF ReadPolicy

LEMMA SanitizeKept ==
    ASSUME IInv, NEW r \in Requests, Sanitize(r)
    PROVE  IInv'
<1>1. /\ req[r].step = "sanitize"
      /\ UNCHANGED <<tableVars, policies, hasProcessor, audits, routerVars, sent>>
      /\ req[r] \in Calls
      /\ req[r].level \notin Hardened
  BY DEF Sanitize, At, IInv, CallFits
<1>2. PICK route \in Routes, degrade \in BOOLEAN :
        route = req[r].route /\ degrade = req[r].degrade
  BY <1>1 DEF Calls
<1>3. Decide(r, "audit", route, degrade, "sanitized", "public_sanitized")
  BY <1>2 DEF Sanitize, Decide
<1> QED
  BY <1>1, <1>3, DecideKept DEF Contents, Events

LEMMA FallBackKept ==
    ASSUME IInv, NEW r \in Requests, FallBack(r)
    PROVE  IInv'
<1>1. /\ req[r].step = "private_route"
      /\ UNCHANGED <<tableVars, policies, hasProcessor, audits, routerVars, sent>>
      /\ req[r] \in Calls
  BY DEF FallBack, At, IInv
<1>2. ASSUME NEW id \in PrivateWaysOut,
             Reroute(r, [requirePrivate |-> TRUE, config |-> id], "route_private")
      PROVE  IInv'
  <2>1. PICK route \in Routes : route = [requirePrivate |-> TRUE, config |-> id]
    BY DEF Routes, PrivateWaysOut, IInv, TableOK
  <2>2. Reroute(r, route, "route_private") /\ route.requirePrivate
    BY <1>2, <2>1 DEF Reroute, Decide
  <2> QED
    BY <1>1, <2>2, RerouteKept DEF Events
<1>3. CASE /\ MayDegrade(r)
           /\ Decide(r, "audit",
                     [requirePrivate |-> FALSE, config |-> req[r].route.config],
                     req[r].degrade, "degraded", "degraded_public")
  <2>1. PICK route \in Routes, degrade \in BOOLEAN :
          /\ route = [requirePrivate |-> FALSE, config |-> req[r].route.config]
          /\ degrade = req[r].degrade
    BY <1>1 DEF Calls, Routes
  <2>2. Decide(r, "audit", route, degrade, "degraded", "degraded_public")
    BY <1>3, <2>1 DEF Decide
  <2>3. req[r].level \notin Hardened
    BY <1>3 DEF MayDegrade
  <2> QED
    BY <1>1, <2>2, <2>3, DecideKept DEF Contents, Events
<1>4. CASE Reroute(r, req[r].route, "blocked")
  <2>1. PICK route \in Routes : route = req[r].route
    BY <1>1 DEF Calls
  <2>2. Reroute(r, route, "blocked")
    BY <1>4, <2>1 DEF Reroute, Decide
  <2> QED
    BY <1>1, <2>2, RerouteKept DEF Events
<1> QED
  BY <1>2, <1>3, <1>4 DEF FallBack

-----------------------------------------------------------------------------
(* The audit, the dispatch and what follows. *)

LEMMA AppendAuditKept ==
    ASSUME IInv, NEW r \in Requests, AppendAudit(r)
    PROVE  IInv'
<1>1. /\ req[r].step = "audit"
      /\ UNCHANGED <<tableVars, policies, hasProcessor, routerVars, sent>>
      /\ req[r] \in Calls
  BY DEF AppendAudit, At, IInv
<1>2. /\ audits' \subseteq [request : Requests, event : Events]
      /\ audits \subseteq audits'
      /\ [request |-> r, event |-> req[r].event] \in audits'
  BY <1>1 DEF AppendAudit, Record, IInv, StoreOK, Calls
<1>3. CASE req[r].event = "blocked"
  <2>1. Goto(r, "refused")
    BY <1>3 DEF AppendAudit
  <2> QED
    BY <1>1, <1>2, <2>1, GotoKept DEF Steps, Done
<1>4. CASE req[r].event # "blocked"
  <2>1. Goto(r, "dispatch")
    BY <1>4 DEF AppendAudit
  <2> QED
    BY <1>1, <1>2, <1>4, <2>1, GotoKept DEF Steps, Done
<1> QED
  BY <1>3, <1>4

(* A step that ends in Done and may add to the audit log. *)
LEMMA EndKept ==
    ASSUME IInv, NEW r \in Requests, NEW step \in Done,
           Goto(r, step),
           UNCHANGED <<tableVars, policies, hasProcessor, routerVars, sent>>,
           UNCHANGED audits \/ Record(r, "blocked")
    PROVE  IInv'
<1>1. /\ audits' \subseteq [request : Requests, event : Events]
      /\ audits \subseteq audits'
  BY DEF Record, IInv, StoreOK, Events
<1> QED
  BY <1>1, GotoKept DEF Steps, Done

LEMMA AfterFailureKept ==
    ASSUME IInv, NEW r \in Requests, AfterFailure(r),
           UNCHANGED <<tableVars, policies, hasProcessor, audits, routerVars, sent>>
    PROVE  IInv'
<1>1. PICK step \in Done : Goto(r, step)
  BY DEF AfterFailure, Done
<1> QED
  BY <1>1, EndKept

(* What the router finds is enabled, and what it finds for a call that was  *)
(* not sanitised is private, but for a switch that came in between.         *)
LEMMA WhatResolves ==
    ASSUME IInv, NEW r \in Requests, At(r, "dispatch"),
           NEW id \in Resolves(req[r].route)
    PROVE  /\ id \in enabled
           /\ req[r].content = "raw" /\ id \notin PrivateConfigs =>
                /\ req[r].route = NoRoute
                /\ req[r].seen \in PrivateConfigs
<1>1. req[r] \in Calls /\ CallFits(r, req[r])
  BY DEF IInv
<1>2. id \in enabled
  BY DEF Resolves, IInv, TableOK
<1>3. ASSUME req[r].route.requirePrivate PROVE id \in PrivateConfigs
  BY <1>3 DEF Resolves
<1>4. req[r].content = "raw" => StaysInside(req[r])
  BY <1>1 DEF CallFits, At, StaysInside, Calls, Networks
<1>5. req[r].route.config # None => id = req[r].route.config
  BY DEF Resolves
<1> QED
  BY <1>2, <1>3, <1>4, <1>5 DEF StaysInside

LEMMA ResolveConfigKept ==
    ASSUME IInv, NEW r \in Requests, ResolveConfig(r)
    PROVE  IInv'
<1>1. PICK id \in Resolves(req[r].route) : resolved' = [resolved EXCEPT ![r] = id]
  BY DEF ResolveConfig
<1> DEFINE c == Decided(r, "sending", req[r].route, req[r].degrade,
                        req[r].content, req[r].event)
<1>2. /\ At(r, "dispatch")
      /\ UNCHANGED <<tableVars, policies, hasProcessor, audits, overtaken, sent>>
      /\ req[r] \in Calls
      /\ CallFits(r, req[r])
      /\ resolved \in [Requests -> Configs \union {None}]
      /\ audits \subseteq [request : Requests, event : Events]
  BY DEF ResolveConfig, IInv, StoreOK
<1>3. /\ id \in enabled
      /\ id \in Configs
      /\ req[r].content = "raw" /\ id \notin PrivateConfigs =>
           req[r].route = NoRoute /\ req[r].seen \in PrivateConfigs
  BY <1>1, <1>2, WhatResolves DEF IInv, TableOK
<1>4. c \in Calls
  BY <1>2 DEF Decided, Calls, Steps
<1>5. PICK d \in Calls : d = c
  BY <1>4
<1>6. req' = [req EXCEPT ![r] = d]
  BY <1>5 DEF ResolveConfig, Goto, Decide, Decided
<1>7. /\ d.step = "sending" /\ d.level = req[r].level /\ d.route = req[r].route
      /\ d.target = req[r].target /\ d.seen = req[r].seen
      /\ d.content = req[r].content /\ d.event = req[r].event
  BY <1>5 DEF Decided
<1> HIDE DEF c
<1>8. /\ resolved' \in [Requests -> Configs \union {None}]
      /\ resolved'[r] = id
      /\ \A q \in Requests \ {r} : resolved'[q] = resolved[q]
      /\ enabled' = enabled /\ audits' = audits
  BY <1>1, <1>2, <1>3 DEF tableVars
<1>9. CallFits(r, d)'
  <2>1. /\ req[r].target = "public" =>
             /\ req[r].event # "none"
             /\ req[r].content = "sanitized" => req[r].event = "public_sanitized"
             /\ req[r].content = "degraded" => req[r].event = "degraded_public"
             /\ req[r].content = "raw" /\ req[r].event # "blocked" =>
                 req[r].event = "route_private" /\ req[r].route.requirePrivate
             /\ req[r].event # "blocked"
             /\ [request |-> r, event |-> req[r].event] \in audits
        /\ req[r].target = "private" => req[r].content = "raw" /\ StaysInside(req[r])
        /\ req[r].content # "raw" => req[r].level \notin Hardened
    BY <1>2 DEF CallFits, At
  <2>2. StaysInside(req[r]) => StaysInside(d)'
    BY <1>7 DEF StaysInside
  <2> QED
    BY <1>3, <1>7, <1>8, <2>1, <2>2 DEF CallFits, Early
<1>10. req[r].step \notin Done
  BY <1>2 DEF At, Done
<1> QED
  BY <1>2, <1>6, <1>8, <1>9, <1>10, StepResolvingKept

LEMMA SendKept ==
    ASSUME IInv, NEW r \in Requests, Send(r)
    PROVE  /\ IInv'
           /\ \A s \in sent' \ sent : s.config \in enabled \/ s.request \in overtaken
<1> DEFINE id == resolved[r]
<1>1. sent' = sent \union {[request |-> r, config |-> id, content |-> req[r].content]}
  BY DEF Send
<1> DEFINE c == Decided(r, "calling", req[r].route, req[r].degrade,
                        req[r].content, req[r].event)
<1>2. /\ At(r, "sending")
      /\ UNCHANGED <<tableVars, policies, hasProcessor, audits, routerVars>>
      /\ req[r] \in Calls
      /\ CallFits(r, req[r])
  BY DEF Send, IInv
<1>3. /\ id \in enabled \/ r \in overtaken
      /\ id \in Configs
      /\ req[r].content = "raw" /\ id \notin PrivateConfigs =>
           req[r].route = NoRoute /\ req[r].seen \in PrivateConfigs
  BY <1>2 DEF CallFits, At
<1> HIDE DEF id
<1>4. c \in Calls
  BY <1>2 DEF Decided, Calls, Steps
<1>5. req' = [req EXCEPT ![r] = c]
  BY DEF Send, Goto, Decide, Decided
<1>6. /\ req' \in [Requests -> Calls]
      /\ req'[r] = c
      /\ \A q \in Requests : q # r => req'[q] = req[q]
  BY <1>4, <1>5 DEF IInv
<1>7. /\ c.step = "calling" /\ c.level = req[r].level /\ c.route = req[r].route
      /\ c.target = req[r].target /\ c.seen = req[r].seen
      /\ c.content = req[r].content
  BY DEF Decided
<1>8. PICK new \in [request : Requests, config : Configs, content : Contents] :
        new = [request |-> r, config |-> id, content |-> req[r].content]
  BY <1>2, <1>3 DEF Calls
<1>9. sent' = sent \union {new}
  BY <1>1, <1>8
<1>10. TableOK' /\ StoreOK'
  BY <1>2, <1>9 DEF IInv, TableOK, StoreOK, tableVars, routerVars
<1>11. ASSUME NEW q \in Requests
      PROVE  CallFits(q, req[q])'
  <2>1. CASE q = r
    <3>1. req'[q] = c /\ audits' = audits
      BY <2>1, <1>2, <1>6
    <3> HIDE DEF c
    <3> QED
      BY <3>1, <2>1, <1>2, <1>7 DEF CallFits, Early
  <2>2. CASE q # r
    BY <2>2, <1>2, <1>6 DEF CallFits, StaysInside, IInv, tableVars, routerVars
  <2> QED
    BY <2>1, <2>2
<1>12. SentFits(new, req[r])'
  <2>1. new.request = r /\ new.config = id /\ new.content = req[r].content
    BY <1>8
  <2>2. req[r].content \in Contents /\ req[r].target \in Networks
    BY <1>2 DEF Calls
  <2>3. req'[r] = c /\ audits' = audits
    BY <1>2, <1>6
  <2>4. id \notin PrivateConfigs /\ req[r].seen \in PrivateConfigs => req[r].seen # id
    OBVIOUS
  <2> HIDE DEF c
  <2>5. req[r].target = "public" =>
          [request |-> r, event |-> Disposition(req[r].content)] \in audits
    BY <1>2, <2>2 DEF CallFits, At, Disposition, Contents
  <2>6. req[r].level \in Hardened => req[r].content = "raw"
    BY <1>2 DEF CallFits
  <2> QED
    BY <1>3, <1>7, <2>1, <2>3, <2>4, <2>5, <2>6 DEF SentFits, Done, LeavesDomain
<1>13. ASSUME NEW s \in sent
       PROVE  SentFits(s, req[s.request])'
  <2>1. s.request \in Requests /\ SentFits(s, req[s.request])
    BY DEF IInv, StoreOK
  <2>2. s.request # r
    BY <1>2, <2>1 DEF SentFits, Done, At
  <2> QED
    BY <1>2, <1>6, <2>1, <2>2 DEF SentFits, LeavesDomain
<1>14. ASSUME NEW s \in sent'
       PROVE  SentFits(s, req[s.request])'
  BY <1>8, <1>12, <1>13, <1>9
<1>15. IInv'
  BY <1>6, <1>11, <1>10, <1>14 DEF IInv
<1>16. \A s \in sent' \ sent : s.config \in enabled \/ s.request \in overtaken
  BY <1>3, <1>8, <1>9
<1> QED
  BY <1>15, <1>16

-----------------------------------------------------------------------------
(* Steps that are nobody's call. *)

LEMMA SavePolicyKept ==
    ASSUME IInv, NEW level \in Levels, NEW p \in Policies, SavePolicy(level, p)
    PROVE  IInv'
<1>1. policies' \in [Levels -> Policies]
  BY HardenedPolicy DEF SavePolicy, IInv, StoreOK
<1>2. UNCHANGED <<existing, enabled, probed, current, hasProcessor, req, audits,
                  resolved, overtaken, sent>>
  BY DEF SavePolicy, tableVars, gatewayVars, routerVars
<1> QED
  BY <1>1, <1>2 DEF IInv, TableOK, StoreOK, CallFits, StaysInside, SentFits, LeavesDomain

(* A call whose configuration is disabled while the router holds its copy   *)
(* is overtaken.                                                            *)
LEMMA AdministerKept ==
    ASSUME IInv, Administer
    PROVE  IInv'
<1>1. TableOK'
  BY TableKept DEF IInv, Administer
<1>2. UNCHANGED <<policies, hasProcessor, req, audits, resolved, sent>>
  BY DEF Administer
<1>3. /\ overtaken' = overtaken \union {r \in Requests : resolved[r] \in enabled \ enabled'}
      /\ overtaken' \subseteq Requests
  BY DEF Administer, IInv, StoreOK
<1>4. ASSUME NEW r \in Requests
      PROVE  CallFits(r, req[r])'
  <2>1. CallFits(r, req[r])
    BY DEF IInv
  <2>2. resolved[r] \in enabled \/ r \in overtaken =>
          resolved'[r] \in enabled' \/ r \in overtaken'
    BY <1>2, <1>3
  <2>3. StaysInside(req[r]) => StaysInside(req[r])'
    BY <1>2 DEF StaysInside
  <2> QED
    BY <1>2, <2>1, <2>2, <2>3 DEF CallFits
<1>5. ASSUME NEW s \in sent'
      PROVE  SentFits(s, req[s.request])'
  BY <1>2 DEF IInv, SentFits, LeavesDomain
<1>6. StoreOK'
  BY <1>2, <1>3 DEF IInv, StoreOK
<1>7. req' \in [Requests -> Calls]
  BY <1>2 DEF IInv
<1> QED
  BY <1>1, <1>4, <1>5, <1>6, <1>7 DEF IInv

\* What a step sends goes to an enabled configuration, or is overtaken.
SendsRight ==
    \A s \in sent' \ sent : s.config \in enabled \/ s.request \in overtaken

LEMMA StepOfACall ==
    ASSUME IInv, NEW r \in Requests, Step(r)
    PROVE  /\ IInv'
           /\ SendsRight
<1> USE DEF SendsRight
<1>1. CASE ResolveTarget(r)
  BY <1>1, ResolveTargetKept DEF ResolveTarget
<1>2. CASE ReadPolicy(r)
  BY <1>2, ReadPolicyKept DEF ReadPolicy
<1>3. CASE Sanitize(r)
  BY <1>3, SanitizeKept DEF Sanitize
<1>4. CASE NERUnavailable(r)
  <2>1. audits' \subseteq [request : Requests, event : Events]
    BY <1>4 DEF NERUnavailable, IInv, StoreOK
  <2> QED
    BY <1>4, <2>1, GotoKept DEF NERUnavailable, At, Steps, Done
<1>5. CASE FallBack(r)
  BY <1>5, FallBackKept DEF FallBack
<1>6. CASE AppendAudit(r)
  BY <1>6, AppendAuditKept DEF AppendAudit
<1>7. CASE AuditFails(r)
  BY <1>7, EndKept DEF AuditFails, Done
<1>8. CASE QueryFails(r)
  BY <1>8, EndKept DEF QueryFails, Done
<1>9. CASE ResolveConfig(r)
  BY <1>9, ResolveConfigKept DEF ResolveConfig
<1>10. CASE ResolveFails(r)
  BY <1>10, AfterFailureKept DEF ResolveFails
<1>14. CASE Send(r)
  BY <1>14, SendKept
<1>11. CASE BackendAnswers(r)
  BY <1>11, EndKept DEF BackendAnswers, Done
<1>12. CASE BackendFails(r)
  BY <1>12, AfterFailureKept DEF BackendFails
<1>13. CASE AuditFailure(r)
  BY <1>13, EndKept DEF AuditFailure, Done
<1> QED
  BY <1>1, <1>2, <1>3, <1>4, <1>5, <1>6, <1>7, <1>8, <1>9, <1>10, <1>11,
     <1>12, <1>13, <1>14 DEF Step

LEMMA NextKept ==
    ASSUME IInv, [Next]_vars
    PROVE  /\ IInv'
           /\ SendsRight
<1> USE DEF SendsRight
<1>1. CASE Administer
  BY <1>1, AdministerKept DEF Administer
<1>2. ASSUME NEW level \in Levels, NEW p \in Policies, SavePolicy(level, p)
      PROVE  IInv' /\ sent' = sent
  BY <1>2, SavePolicyKept DEF SavePolicy, gatewayVars
<1>3. ASSUME NEW r \in Requests, NEW level \in Levels, NEW route \in Routes,
             Arrive(r, level, route)
      PROVE  IInv' /\ sent' = sent
  BY <1>3, ArriveKept DEF Arrive
<1>4. ASSUME NEW r \in Requests, Step(r)
      PROVE  /\ IInv'
             /\ SendsRight
  BY <1>4, StepOfACall
<1>5. CASE UNCHANGED vars
  <2>1. UNCHANGED <<existing, enabled, probed, current, policies, hasProcessor,
                    req, audits, resolved, overtaken, sent>>
    BY <1>5 DEF vars, gatewayVars, routerVars
  <2> QED
    BY <2>1 DEF IInv, TableOK, StoreOK, CallFits, StaysInside, SentFits, LeavesDomain
<1> QED
  BY <1>1, <1>2, <1>3, <1>4, <1>5 DEF Next

LEMMA Invariant == Spec => []IInv
<1>1. Init => IInv
  BY InitFits
<1>2. IInv /\ [Next]_vars => IInv'
  BY NextKept
<1> QED
  BY <1>1, <1>2, PTL DEF Spec

-----------------------------------------------------------------------------
(* The variables keep their types, and a call at the audit has a            *)
(* disposition to record.                                                   *)
THEOREM TypeCorrect == Spec => []TypeOK
<1>1. IInv => TypeOK
  BY DEF IInv, TableOK, StoreOK, TypeOK, CallFits, At
<1> QED
  BY <1>1, Invariant, PTL

(* Original text reaches a public configuration only if another             *)
(* configuration became current between the gateway's look at the table     *)
(* and the router's, for any number of calls, levels and administrators.    *)
THEOREM OriginalsLeaveOnlyByASwitch == Spec => []RawLeavesOnlyByASwitch
<1>1. IInv => RawLeavesOnlyByASwitch
  BY DEF IInv, SentFits, RawLeavesOnlyByASwitch
<1> QED
  BY <1>1, Invariant, PTL

(* Text of a level that must stay inside is never sanitised or degraded     *)
(* for a public model.                                                      *)
THEOREM HardenedStaysInside == Spec => []HardenedIsNeverSanitizedOut
<1>1. IInv => HardenedIsNeverSanitizedOut
  BY DEF IInv, SentFits, HardenedIsNeverSanitizedOut
<1> QED
  BY <1>1, Invariant, PTL

(* What the gateway has disposed of is in the audit log before the backend  *)
(* has it.                                                                  *)
THEOREM NothingLeavesUnaudited == Spec => []AuditedBeforeSent
<1>1. IInv => AuditedBeforeSent
  BY DEF IInv, SentFits, AuditedBeforeSent, Disposition
<1> QED
  BY <1>1, Invariant, PTL

(* A disabled configuration is given only calls the router had read it for  *)
(* before: whatever was decided earlier about a call, for any number of     *)
(* calls and administrators.                                                *)
THEOREM DisabledGetsNoLaterCall == Spec => DisabledGetsEarlierCallsOnly
<1>1. IInv /\ [Next]_vars =>
        [\A s \in sent' \ sent : s.config \in enabled \/ s.request \in overtaken]_vars
  BY NextKept DEF SendsRight
<1> QED
  BY <1>1, Invariant, PTL DEF Spec, DisabledGetsEarlierCallsOnly
=============================================================================
