-------------------------- MODULE NERCircuitBreaker --------------------------
(***************************************************************************)
(* The circuit breaker around the external NER service                     *)
(* (internal/desensitization/gateway/circuit_breaker.go).                  *)
(*                                                                         *)
(* Recognize holds the mutex twice: once to admit the call and once to     *)
(* book its outcome.  The call to the NER client runs between the two      *)
(* without the mutex, so any number of calls admitted under earlier states *)
(* of the breaker may still be out when a later one is booked.             *)
(*                                                                         *)
(* Time is relative: `remaining' is openUntil - now while that is positive *)
(* and 0 otherwise, and left[c] is what is left of the client's own        *)
(* timeout.  A call the breaker turns away (ErrNERCircuitOpen) changes     *)
(* nothing and is a stuttering step.                                       *)
(***************************************************************************)
EXTENDS Naturals

CONSTANTS Callers,           \* goroutines that sanitise a message
          FailureThreshold,  \* failures in a row that open the breaker
          OpenInterval,      \* how long it stays open, in clock ticks
          CallTimeout        \* the longest a NER call may be out, in ticks

ASSUME ThresholdAssumption == FailureThreshold \in Nat \ {0}
ASSUME IntervalAssumption == OpenInterval \in Nat \ {0}
ASSUME TimeoutAssumption == CallTimeout \in Nat

VARIABLES state,          \* closed, open or half open
          failures,       \* failures counted since the last success
          remaining,      \* time until openUntil
          probeInFlight,  \* the flag that keeps a second probe out
          call,           \* where each caller is; "probing" is halfOpenProbe
          left,           \* time left before the caller's NER call times out
          healthy         \* the NER answers every call and no caller cancels

vars == <<state, failures, remaining, probeInFlight, call, left, healthy>>

Closed == "closed"
Open == "open"
HalfOpen == "half_open"

InFlight == {c \in Callers : call[c] # "idle"}
Probing == {c \in Callers : call[c] = "probing"}

Init ==
    /\ state = Closed
    /\ failures = 0
    /\ remaining = 0
    /\ probeInFlight = FALSE
    /\ call = [c \in Callers |-> "idle"]
    /\ left = [c \in Callers |-> 0]
    /\ healthy = TRUE

-----------------------------------------------------------------------------
(* Recognize, first critical section: admit the call. *)

SendToNER(c, kind) ==
    /\ call' = [call EXCEPT ![c] = kind]
    /\ left' = [left EXCEPT ![c] = CallTimeout]
    /\ UNCHANGED <<failures, remaining, healthy>>

\* Mutation: the flag is set but never looked at.
MayProbeUnguarded == state = HalfOpen \/ (state = Open /\ remaining = 0)

\* Whether a call is admitted as the half-open probe.
MayProbe ==
    \/ state = Open /\ remaining = 0
    \/ state = HalfOpen /\ ~probeInFlight

AdmitCall(c) ==
    /\ call[c] = "idle"
    /\ state = Closed
    /\ SendToNER(c, "calling")
    /\ UNCHANGED <<state, probeInFlight>>

AdmitProbe(c) ==
    /\ call[c] = "idle"
    /\ MayProbe
    /\ state' = HalfOpen
    /\ probeInFlight' = TRUE
    /\ SendToNER(c, "probing")

-----------------------------------------------------------------------------
(* Recognize, second critical section: book the outcome. *)

\* Mutation: the probe returns without giving the flag back.
TakeBackKeepingFlag(c) ==
    /\ call' = [call EXCEPT ![c] = "idle"]
    /\ left' = [left EXCEPT ![c] = 0]
    /\ UNCHANGED <<probeInFlight, healthy>>

TakeBack(c) ==
    /\ call' = [call EXCEPT ![c] = "idle"]
    /\ left' = [left EXCEPT ![c] = 0]
    /\ probeInFlight' = (probeInFlight /\ call[c] # "probing")
    /\ UNCHANGED healthy

OpenBreaker ==
    /\ state' = Open
    /\ failures' = FailureThreshold
    /\ remaining' = OpenInterval

\* Mutation: every failure is counted.
EveryFailureCounts == TRUE

\* Only a closed breaker counts a failure that is not the probe's.
FailureCounts == state = Closed

BookFailure(c) ==
    /\ c \in InFlight
    /\ ~healthy
    /\ TakeBack(c)
    /\ \/ /\ call[c] = "probing"
          /\ OpenBreaker
       \/ /\ call[c] = "calling"
          /\ FailureCounts
          /\ failures + 1 >= FailureThreshold
          /\ OpenBreaker
       \/ /\ call[c] = "calling"
          /\ FailureCounts
          /\ failures + 1 < FailureThreshold
          /\ failures' = failures + 1
          /\ UNCHANGED <<state, remaining>>
       \/ /\ call[c] = "calling"
          /\ ~FailureCounts
          /\ UNCHANGED <<state, failures, remaining>>

\* Mutation: a success clears the count and leaves the breaker as it is.
BookSuccessWithoutClosing(c) ==
    /\ c \in InFlight
    /\ TakeBack(c)
    /\ failures' = 0
    /\ remaining' = 0
    /\ UNCHANGED state

BookSuccess(c) ==
    /\ c \in InFlight
    /\ TakeBack(c)
    /\ state' = Closed
    /\ failures' = 0
    /\ remaining' = 0

-----------------------------------------------------------------------------
(* The environment. *)

\* The clock advances, but never past the timeout of a call that is out.
Tick ==
    /\ remaining > 0 \/ InFlight # {}
    /\ \A c \in InFlight : left[c] > 0
    /\ remaining' = IF remaining > 0 THEN remaining - 1 ELSE 0
    /\ left' = [c \in Callers |-> IF c \in InFlight THEN left[c] - 1 ELSE 0]
    /\ UNCHANGED <<state, failures, probeInFlight, call, healthy>>

\* The NER starts or stops failing, or callers start or stop cancelling.
HealthChanges ==
    /\ healthy' = ~healthy
    /\ UNCHANGED <<state, failures, remaining, probeInFlight, call, left>>

Next ==
    \/ \E c \in Callers : AdmitCall(c)
    \/ \E c \in Callers : AdmitProbe(c)
    \/ \E c \in Callers : BookFailure(c)
    \/ \E c \in Callers : BookSuccess(c)
    \/ Tick
    \/ HealthChanges

Spec == Init /\ [][Next]_vars

(***************************************************************************)
(* A NER call ends, by an answer or by the client's timeout; time passes;  *)
(* and callers keep coming, without which nobody would probe.              *)
(***************************************************************************)
LiveSpec ==
    /\ Spec
    /\ WF_vars(Tick)
    /\ \A c \in Callers :
        /\ WF_vars(BookFailure(c) \/ BookSuccess(c))
        /\ WF_vars(AdmitCall(c) \/ AdmitProbe(c))

-----------------------------------------------------------------------------
(* The variables keep their types. *)
TypeOK ==
    /\ state \in {Closed, Open, HalfOpen}
    /\ failures \in 0..FailureThreshold
    /\ remaining \in 0..OpenInterval
    /\ probeInFlight \in BOOLEAN
    /\ call \in [Callers -> {"idle", "calling", "probing"}]
    /\ left \in [Callers -> 0..CallTimeout]
    /\ healthy \in BOOLEAN

(* The breaker never sticks half open.  Recognize refuses every call while *)
(* it is half open with the flag set, and only a probe that returns clears *)
(* the flag: whenever the flag is set some probe is still out, and a half  *)
(* open breaker always has one, whatever late answers were booked between. *)
NeverStuckHalfOpen ==
    /\ probeInFlight => Probing # {}
    /\ state = HalfOpen => probeInFlight

(* One probe at a time.  Nothing in Recognize keeps a late success from    *)
(* closing a half-open breaker under its probe, after which new failures   *)
(* lead to a second probe: what does is a client timeout shorter than the  *)
(* open interval, by which every earlier call has returned.  The code      *)
(* takes both from its configuration and does not relate them.             *)
SingleProbe ==
    CallTimeout < OpenInterval =>
        \A c, d \in Probing : c = d

(* What circuit_breaker_test.go:98 asks for ("want only one half-open       *)
(* probe"), for every configuration: no two calls are out as probes.       *)
OnlyOneHalfOpenProbe == \A c, d \in Probing : c = d

(* A window in which calls fail fast is never prolonged by a call admitted *)
(* before it opened: only a probe that fails opens the breaker afresh.     *)
LateFailuresDoNotProlong ==
    [][state = Open /\ state' = Open /\ remaining' > remaining
         => \E c \in Probing : call'[c] = "idle"]_vars

(* Once the NER answers again for good, the breaker ends up closed.        *)
Recovers == <>[]healthy => <>[](state = Closed)
=============================================================================
