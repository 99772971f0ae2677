---------------------------- MODULE Clarification ----------------------------
(***************************************************************************)
(* From a description to the context of a draft: the workbench in the       *)
(* browser (WritingWorkbench, src/frontend/src/App.tsx) and the two         *)
(* handlers it calls (internal/doctype/http.go).  The handlers keep         *)
(* nothing: what was filled in and the round travel with each request, and  *)
(* the required slots and the limit of rounds are read again for each.      *)
(*                                                                         *)
(* The workbench does not wait for itself.  While a request is out its      *)
(* buttons are blocked, but the Enter key in the answer, the description    *)
(* and the two ways to begin anew are not; an answer is shown whenever it   *)
(* comes.  Descriptions are numbered, 0 is the empty one.                   *)
(***************************************************************************)
EXTENDS Naturals, Sequences, SequencesExt

CONSTANTS
    Doctypes,        \* document types and subtypes, as a user picks them
    DeepDoctypes,    \* those the matrix has as deep and not as starred
    Slots,           \* what a document type may require
    MaxRounds,       \* bound: the limit of rounds the thresholds may have
    MaxScenes,       \* bound: descriptions the user writes
    MaxRequests      \* bound: requests out at once

VARIABLES desk,      \* the workbench
          requests   \* sent and not yet answered

desks == <<desk, requests>>

None == "none"

\* Round and filled are those a response gave back.
NoStep == [asking |-> None, filled |-> {}, round |-> 0]
NoContext == [doctype |-> None, scene |-> 0, filled |-> {}, missing |-> {}]

\* answered: the slots whose answer the service has taken, in this dialogue;
\* disturbed: the user went on while a request was out.
Empty == [phase |-> "input", scene |-> 0, described |-> 0, doctype |-> None,
          step |-> NoStep, context |-> NoContext, loading |-> FALSE,
          answered |-> {}, disturbed |-> FALSE]

Pending == requests # <<>>

\* routeCapability
TargetCapability(doctype) == IF doctype \in DeepDoctypes THEN "deep" ELSE "generic"

-----------------------------------------------------------------------------
(* The user and the workbench. *)

Send(request) ==
    /\ Len(requests) < MaxRequests
    /\ requests' = Append(requests, request)

ClarifyRequest(scene, doctype, filled, round, skipped, slot) ==
    [kind |-> "clarify", scene |-> scene, doctype |-> doctype,
     filled |-> filled, round |-> round, skipped |-> skipped, slot |-> slot]

\* The text area can be edited while the classification is out.
Describe ==
    /\ desk.phase = "input"
    /\ desk.described < MaxScenes
    /\ desk' = [desk EXCEPT !.described = @ + 1, !.scene = desk.described + 1,
                            !.disturbed = @ \/ Pending]
    /\ UNCHANGED requests

Classify ==
    /\ desk.phase = "input" /\ desk.scene # 0 /\ ~desk.loading
    /\ Send([ClarifyRequest(desk.scene, None, {}, 0, FALSE, None)
                EXCEPT !.kind = "classify"])
    /\ desk' = [desk EXCEPT !.loading = TRUE, !.disturbed = @ \/ Pending]

Select ==
    /\ desk.phase = "confirm" /\ ~desk.loading
    /\ \E doctype \in Doctypes :
        /\ Send(ClarifyRequest(desk.scene, doctype, {}, 0, FALSE, None))
        /\ desk' = [desk EXCEPT !.doctype = doctype, !.loading = TRUE,
                                !.answered = {}, !.disturbed = @ \/ Pending]

(* A plausible slip: only the new answer is sent. *)
AnswerAlone ==
    /\ desk.phase = "clarify"
    /\ Send(ClarifyRequest(desk.scene, desk.doctype, {desk.step.asking},
                           desk.step.round + 1, FALSE, desk.step.asking))
    /\ desk' = [desk EXCEPT !.loading = TRUE, !.disturbed = @ \/ Pending]

\* With the Enter key, whether or not a request is out.
Answer ==
    /\ desk.phase = "clarify"
    /\ Send(ClarifyRequest(desk.scene, desk.doctype,
                           desk.step.filled \union {desk.step.asking},
                           desk.step.round + 1, FALSE, desk.step.asking))
    /\ desk' = [desk EXCEPT !.loading = TRUE, !.disturbed = @ \/ Pending]

Skip ==
    /\ desk.phase = "clarify" /\ ~desk.loading
    /\ Send(ClarifyRequest(desk.scene, desk.doctype, desk.step.filled,
                           desk.step.round + 1, TRUE, None))
    /\ desk' = [desk EXCEPT !.loading = TRUE, !.disturbed = @ \/ Pending]

\* "Describe again" and "write another": what is out stays out.
Restart ==
    /\ desk.phase \in {"confirm", "done"}
    /\ desk.described < MaxScenes
    /\ desk' = [Empty EXCEPT !.described = desk.described,
                             !.loading = desk.loading,
                             !.disturbed = Pending]
    /\ UNCHANGED requests

-----------------------------------------------------------------------------
(* The handlers, and what the workbench does with their answers. *)

Returns(i) == requests' = RemoveAt(requests, i)

\* One candidate is sure enough: the workbench goes on to clarify it, for
\* the description that was classified.  Otherwise the user has to choose.
Classified(i) ==
    /\ requests[i].kind = "classify"
    /\ \/ \E doctype \in Doctypes :
            /\ requests' = Append(RemoveAt(requests, i),
                    ClarifyRequest(requests[i].scene, doctype, {}, 0, FALSE, None))
            /\ desk' = [desk EXCEPT !.doctype = doctype, !.loading = TRUE, !.answered = {}]
       \/ /\ Returns(i)
          /\ desk' = [desk EXCEPT !.phase = "confirm", !.loading = FALSE]

(* A plausible slip: the buttons stay blocked. *)
ClassifyFailsBlocked(i) ==
    /\ requests[i].kind = "classify"
    /\ Returns(i)
    /\ UNCHANGED desk

\* The gateway blocks the call, or the model fails or answers nonsense.
ClassifyFails(i) ==
    /\ requests[i].kind = "classify"
    /\ Returns(i)
    /\ desk' = [desk EXCEPT !.loading = FALSE]

\* ResolveSelection refuses no document type and no description.
Resolves(request) == request.doctype # None /\ request.scene # 0

\* The first request without anything filled in has the model fill in what
\* the description says.
Seeds(request, required) ==
    IF request.filled = {} /\ request.round = 0 /\ ~request.skipped
    THEN SUBSET required
    ELSE {request.filled}

\* RequiredSlots: what the tables require of the document type by then.
RequiredSlots == SUBSET Slots

\* currentThresholds
Limits == 0..MaxRounds

\* NextClarification
Over(request, missing, limit) ==
    missing = {} \/ request.skipped \/ request.round >= limit

\* BuildScenarioContext
Context(request, filled, missing) ==
    [doctype |-> request.doctype, scene |-> request.scene,
     filled |-> filled, missing |-> missing]

Clarified(i) ==
    LET request == requests[i]
        shown == [desk EXCEPT
                    !.loading = FALSE,
                    !.answered = @ \union ({request.slot} \ {None})]
    IN
    /\ request.kind = "clarify" /\ Resolves(request)
    /\ Returns(i)
    /\ \E required \in RequiredSlots, limit \in Limits :
       \E filled \in Seeds(request, required) :
        LET missing == required \ filled IN
        \/ /\ Over(request, missing, limit)
           /\ desk' = [shown EXCEPT !.phase = "done",
                                    !.context = Context(request, filled, missing)]
        \/ /\ ~Over(request, missing, limit)
           /\ \E slot \in missing :
                desk' = [shown EXCEPT !.phase = "clarify",
                                      !.step = [asking |-> slot, filled |-> filled,
                                                round |-> request.round]]

ClarifyFails(i) ==
    /\ requests[i].kind = "clarify"
    /\ Returns(i)
    /\ desk' = [desk EXCEPT !.loading = FALSE]

-----------------------------------------------------------------------------
UserGoesOn == Classify \/ Select \/ Answer \/ Skip

Out == 1..Len(requests)

Fails == \E i \in Out : ClassifyFails(i) \/ ClarifyFails(i)

ClassifySucceeds == \E i \in Out : Classified(i)

ClarifySucceeds == \E i \in Out : Clarified(i)

Succeeds == ClassifySucceeds \/ ClarifySucceeds

DeskNext == Describe \/ UserGoesOn \/ Restart \/ Succeeds \/ Fails

(***************************************************************************)
(* The user goes on, each request is answered in some way, and a service    *)
(* that is asked again and again does not fail every time.                  *)
(***************************************************************************)
DeskFairness ==
    /\ WF_desks(desk.scene = 0 /\ Describe)
    /\ WF_desks(UserGoesOn)
    /\ WF_desks(Succeeds \/ Fails)
    /\ SF_desks(ClassifySucceeds)
    /\ SF_desks(ClarifySucceeds)

=============================================================================
