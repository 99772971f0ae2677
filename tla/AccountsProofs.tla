---------------------------- MODULE AccountsProofs ----------------------------
(* Theorems about accounts, logins and their management, for any set of     *)
(* users, any number of concurrent requests, any threshold and any window.  *)
EXTENDS Accounts, TLAPS, FiniteSetTheorems

-----------------------------------------------------------------------------
(* What the steps do to the request that makes them.                        *)

OthersStay(r) == \A q \in Requests \ {r} : requests'[q] = requests[q]

LEMMA IdleTyped ==
    /\ Idle \in Request
    /\ \A answer \in Places : Answered(answer) \in Request /\ Answered(answer).at = answer
  BY DEF Idle, Answered, Request, Places, Roles

LEMMA GoesPuts ==
    ASSUME TypeOK, NEW r \in Requests, NEW x \in Request, Goes(r, x)
    PROVE  /\ requests' \in [Requests -> Request] /\ requests'[r] = x
           /\ OthersStay(r)
  BY DEF Goes, OthersStay, TypeOK

LEMMA AnswerPuts ==
    ASSUME TypeOK, NEW r \in Requests, NEW answer \in Places, Answer(r, answer)
    PROVE  /\ requests' \in [Requests -> Request] /\ requests'[r].at = answer
           /\ OthersStay(r)
<1>1. Goes(r, Answered(answer))
  BY DEF Answer
<1> QED
  BY <1>1, IdleTyped, GoesPuts

LEMMA MovesPuts ==
    ASSUME TypeOK, NEW r \in Requests, NEW at \in Places, Moves(r, at)
    PROVE  /\ requests' \in [Requests -> Request] /\ requests'[r].at = at
           /\ requests'[r].actor = requests[r].actor
           /\ requests'[r].target = requests[r].target
           /\ requests'[r].wasActive = requests[r].wasActive
           /\ OthersStay(r)
<1> DEFINE x == [requests[r] EXCEPT !.at = at]
<1>1. requests[r] \in Request
  BY DEF TypeOK
<1>2. /\ x \in Request /\ x.at = at /\ x.actor = requests[r].actor
      /\ x.target = requests[r].target /\ x.wasActive = requests[r].wasActive
  BY <1>1 DEF Request
<1>3. Goes(r, x)
  BY <1>1 DEF Moves, Goes, TypeOK
<1> HIDE DEF x
<1> QED
  BY <1>2, <1>3, GoesPuts

\* A write, and the audit entry that is still to come.
LEMMA WrotePuts ==
    ASSUME TypeOK, NEW r \in Requests, NEW event \in Events, NEW target \in Users,
           Wrote(r, event, target)
    PROVE  /\ requests' \in [Requests -> Request] /\ requests'[r].at = "audit"
           /\ requests'[r].actor = requests[r].actor /\ requests'[r].target = target
           /\ requests'[r].event = event
           /\ OthersStay(r)
           /\ changes' = changes \union {Change(event, requests[r].actor, target, r)}
           /\ Change(event, requests[r].actor, target, r) \in Entry(Events)
           /\ UNCHANGED <<limiter, audits>>
<1> DEFINE x == [Idle EXCEPT !.at = "audit", !.actor = requests[r].actor,
                             !.target = target, !.event = event]
<1>0. "audit" \in Places
  BY DEF Places
<1>1. requests[r] \in Request /\ requests[r].actor \in Users \union {Nobody}
  BY DEF TypeOK, Request
<1>2. /\ x \in Request /\ x.at = "audit" /\ x.actor = requests[r].actor
      /\ x.target = target /\ x.event = event
  BY <1>0, <1>1, IdleTyped DEF Request
<1>3. Goes(r, x) /\ UNCHANGED <<limiter, audits>>
      /\ changes' = changes \union {Change(event, requests[r].actor, target, r)}
  BY DEF Wrote
<1>4. Change(event, requests[r].actor, target, r) \in Entry(Events)
  BY <1>1 DEF Change, Entry
<1> HIDE DEF x
<1> QED
  BY <1>2, <1>3, <1>4, GoesPuts

LEMMA AuditedTyped ==
    ASSUME TypeOK, NEW r \in Requests, NEW u \in Users,
           NEW events \in SUBSET {"login_failed", "login_blocked", "authorization_denied"},
           MayAudit(r, events, u)
    PROVE  /\ audits' \subseteq Entry(Events \union
                            {"login_failed", "login_blocked", "authorization_denied"})
           /\ audits \subseteq audits'
           /\ \A entry \in audits' \ audits : entry.event \notin Events
<1> DEFINE new(event) == [event |-> event, actor |-> u, target |-> u, by |-> r]
<1>1. ASSUME NEW event \in events
      PROVE  /\ new(event) \in Entry(Events \union
                            {"login_failed", "login_blocked", "authorization_denied"})
             /\ new(event).event \notin Events
  BY DEF Entry, Events
<1>2. PICK written \in SUBSET events :
        audits' = audits \union {new(event) : event \in written}
  BY DEF MayAudit
<1> HIDE DEF new
<1> QED
  BY <1>1, <1>2 DEF TypeOK

-----------------------------------------------------------------------------
(***************************************************************************)
(* Who acts, and on whom.                                                  *)
(***************************************************************************)
Acting ==
    \A r \in Requests :
        /\ requests[r].at \in {"check", "lookup", "right", "wrong", "user", "roles",
               "mustChangeRoles", "resolved", "mustChange", "allowed", "replacing"}
             => requests[r].actor \in Users
        /\ requests[r].at \in {"replacing", "audit"} => requests[r].target \in Users
        /\ requests[r].at = "audit" => requests[r].event \in Events
        /\ requests[r].at = "replacing" => users[requests[r].target] # "absent"

\* A request moves on without writing to the tables, but for the audit of a
\* login or of a refusal.
Watches(r) ==
    /\ OthersStay(r)
    /\ UNCHANGED <<users, mustChange, userRoles, changes, overlapped>>
    /\ audits \subseteq audits'
    /\ \A entry \in audits' \ audits : entry.event \notin Events

FromTo(r, from, to) == requests[r].at \in from /\ requests'[r].at \in to
SameActor(r) ==
    /\ requests'[r].actor = requests[r].actor
    /\ requests'[r].wasActive = requests[r].wasActive

Finished == {"ok", "refused", "error"}
Ends(r) ==
    /\ requests[r].at \notin Finished /\ requests'[r].at \in Finished
    /\ requests[r].at = "audit" => requests'[r].at = "error"
LogsIn(r) ==
    \/ FromTo(r, {"idle"}, {"check"}) /\ requests'[r].actor \in Users
    \/ FromTo(r, {"check", "lookup"}, {"lookup", "right", "wrong"}) /\ SameActor(r)
Comes(r) ==
    /\ FromTo(r, {"idle"}, {"user"})
    /\ requests'[r].actor \in Users
    /\ requests'[r].wasActive \/ users[requests'[r].actor] = "disabled"
FindsActive(r) ==
    /\ FromTo(r, {"user"}, {"roles", "mustChangeRoles"}) /\ SameActor(r)
    /\ users[requests[r].actor] = "active"
CameAsAdmin(r) == "system_admin" \in requests[r].roles
FindsRoles(r) ==
    /\ FromTo(r, {"roles", "mustChangeRoles"}, {"resolved", "mustChange"}) /\ SameActor(r)
    /\ CameAsAdmin(r)' => IsAdmin(requests[r].actor)
IsAllowed(r) ==
    FromTo(r, {"resolved"}, {"allowed"}) /\ SameActor(r) /\ CameAsAdmin(r)
FindsNoAdmin(r) == FromTo(r, {"exists"}, {"username"}) /\ ~HasAnyUserWithRole

Looks(r) ==
    /\ Watches(r)
    /\ \/ Ends(r) \/ LogsIn(r) \/ Comes(r) \/ FindsActive(r) \/ FindsRoles(r) \/ IsAllowed(r)
       \/ FromTo(r, {"idle"}, {"exists"}) \/ FindsNoAdmin(r)

Looking(r) ==
    \/ Login(r) \/ Principal(r) \/ Fails(r) \/ StartBootstrap(r) \/ AdminExists(r)
    \/ CreateAdmin(r) /\ users[Root] # "absent"

AuditLog == Entry(Events \union {"login_failed", "login_blocked", "authorization_denied"})

LEMMA LookingLooks ==
    ASSUME TypeOK, Acting, NEW r \in Requests, Looking(r)
    PROVE  /\ Looks(r)
           /\ requests' \in [Requests -> Request] /\ audits' \subseteq AuditLog
<1> DEFINE Goal == /\ Looks(r)
                   /\ requests' \in [Requests -> Request] /\ audits' \subseteq AuditLog
<1>0. requests[r] \in Request /\ audits \subseteq AuditLog
  BY DEF TypeOK, AuditLog
<1>1. ASSUME NEW u \in Users, StartLogin(r, u)
      PROVE  Goal
  <2> DEFINE x == [Idle EXCEPT !.at = "check", !.actor = u, !.target = u]
  <2>1. "check" \in Places
    BY DEF Places
  <2>2. x \in Request /\ x.at = "check" /\ x.actor = u
    BY <2>1, IdleTyped DEF Request
  <2>3. Goes(r, x) /\ requests[r].at = "idle" /\ UNCHANGED tables
    BY <1>1 DEF StartLogin
  <2> HIDE DEF x
  <2>4. requests' \in [Requests -> Request] /\ requests'[r] = x /\ OthersStay(r)
    BY <2>2, <2>3, GoesPuts
  <2> QED
    BY <1>0, <2>2, <2>3, <2>4 DEF Looks, Watches, LogsIn, FromTo, tables
<1>2. ASSUME Blocked(r)
      PROVE  Goal
  <2>0. requests[r].at = "check" /\ requests[r].actor \in Users
    BY <1>2 DEF Blocked, Acting
  <2>1. UNCHANGED <<users, mustChange, userRoles, changes, overlapped>>
    BY <1>2 DEF Blocked
  <2>2. CASE MayAudit(r, {"login_blocked"}, requests[r].actor)
             /\ Answer(r, "refused")
    BY <2>0, <2>1, <2>2, AuditedTyped, AnswerPuts
       DEF Looks, Watches, Ends, Finished, AuditLog, Places
  <2>3. CASE Moves(r, "lookup") /\ UNCHANGED audits
    BY <1>0, <2>0, <2>1, <2>3, MovesPuts
       DEF Looks, Watches, LogsIn, FromTo, SameActor, Places
  <2> QED
    BY <1>2, <2>2, <2>3 DEF Blocked
<1>3. ASSUME Verify(r)
      PROVE  Goal
  <2>1. /\ requests[r].at = "lookup" /\ UNCHANGED tables
        /\ Moves(r, "right") \/ Moves(r, "wrong")
    BY <1>3 DEF Verify
  <2> QED
    BY <1>0, <2>1, MovesPuts DEF Looks, Watches, LogsIn, FromTo, SameActor, Places, tables
<1>4. ASSUME RecordFailure(r)
      PROVE  Goal
  <2>1. requests[r].at = "wrong" /\ requests[r].actor \in Users /\ Answer(r, "refused")
        /\ UNCHANGED <<users, mustChange, userRoles, changes, overlapped>>
    BY <1>4 DEF RecordFailure, Acting
  <2>2. PICK events \in SUBSET {"login_failed", "login_blocked"} :
          MayAudit(r, events, requests[r].actor)
    BY <1>4 DEF RecordFailure
  <2> QED
    BY <2>1, <2>2, AuditedTyped, AnswerPuts
       DEF Looks, Watches, Ends, Finished, AuditLog, Places
<1>5. ASSUME RecordSuccess(r)
      PROVE  Goal
  <2>1. /\ requests[r].at = "right" /\ UNCHANGED tables
        /\ Answer(r, "ok") \/ Answer(r, "error")
    BY <1>5 DEF RecordSuccess
  <2> QED
    BY <1>0, <2>1, AnswerPuts DEF Looks, Watches, Ends, Finished, Places, tables
<1>6. ASSUME NEW u \in Users, StartRequest(r, u)
      PROVE  Goal
  <2> DEFINE was == users[u] = "active"
             x == [Idle EXCEPT !.at = "user", !.actor = u, !.wasActive = was]
  <2>0. was \in BOOLEAN /\ "user" \in Places
    BY DEF Places
  <2>1. Goes(r, x) /\ requests[r].at = "idle" /\ UNCHANGED tables
    BY <1>6 DEF StartRequest
  <2>2. was \/ users[u] = "disabled"
    BY <1>6 DEF StartRequest, TypeOK
  <2> HIDE DEF was
  <2>4. x \in Request /\ x.at = "user" /\ x.actor = u /\ x.wasActive = was
    BY <2>0, IdleTyped DEF Request
  <2> HIDE DEF x
  <2>5. requests' \in [Requests -> Request] /\ requests'[r] = x /\ OthersStay(r)
    BY <2>1, <2>4, GoesPuts
  <2>6. Comes(r)
    BY <2>1, <2>2, <2>4, <2>5 DEF Comes, FromTo
  <2> QED
    BY <1>0, <2>1, <2>5, <2>6 DEF Looks, Watches, tables
<1>7. ASSUME UserByID(r)
      PROVE  Goal
  <2>1. /\ requests[r].at = "user" /\ UNCHANGED tables
        /\ \/ /\ users[requests[r].actor] = "active"
              /\ Moves(r, "mustChangeRoles") \/ Moves(r, "roles")
           \/ Answer(r, "refused")
    BY <1>7 DEF UserByID
  <2> QED
    BY <1>0, <2>1, MovesPuts, AnswerPuts
       DEF Looks, Watches, Ends, Finished, FindsActive, FromTo, SameActor, Places, tables
<1>8. ASSUME ResolveRoles(r)
      PROVE  Goal
  <2> DEFINE x == [requests[r] EXCEPT
                     !.at = IF @ = "roles" THEN "resolved" ELSE "mustChange",
                     !.roles = RolesForUser(requests[r].actor)]
  <2>1. requests[r].at \in {"roles", "mustChangeRoles"} /\ Goes(r, x) /\ UNCHANGED tables
    BY <1>8 DEF ResolveRoles
  <2>2. RolesForUser(requests[r].actor) \subseteq Roles
    BY <2>1 DEF Acting, RolesForUser, TypeOK, Rows
  <2>3. /\ x \in Request /\ x.at \in {"resolved", "mustChange"}
        /\ x.actor = requests[r].actor /\ x.wasActive = requests[r].wasActive
        /\ x.roles = RolesForUser(requests[r].actor)
    BY <1>0, <2>2 DEF Request, Places
  <2> HIDE DEF x
  <2> QED
    BY <1>0, <2>1, <2>3, GoesPuts
       DEF Looks, Watches, FindsRoles, FromTo, SameActor, CameAsAdmin, IsAdmin, tables
<1>9. ASSUME Decide(r)
      PROVE  Goal
  <2>0. requests[r].at = "resolved" /\ requests[r].actor \in Users
    BY <1>9 DEF Decide, Acting
  <2>1. UNCHANGED <<users, mustChange, userRoles, changes, overlapped>>
    BY <1>9 DEF Decide
  <2>2. CASE MayAudit(r, {"authorization_denied"}, requests[r].actor)
             /\ Answer(r, "refused")
    BY <2>0, <2>1, <2>2, AuditedTyped, AnswerPuts
       DEF Looks, Watches, Ends, Finished, AuditLog, Places
  <2>3. CASE CameAsAdmin(r) /\ Moves(r, "allowed") /\ UNCHANGED audits
    BY <1>0, <2>0, <2>1, <2>3, MovesPuts
       DEF Looks, Watches, IsAllowed, FromTo, SameActor, Places
  <2> QED
    BY <1>9, <2>2, <2>3 DEF Decide, CameAsAdmin
<1>10. ASSUME Fails(r)
       PROVE  Goal
  <2>1. Answer(r, "error") /\ UNCHANGED tables /\ requests[r].at \notin Finished
    BY <1>10 DEF Fails, Finished
  <2> QED
    BY <1>0, <2>1, AnswerPuts DEF Looks, Watches, Ends, Finished, Places, tables
<1>11. ASSUME StartBootstrap(r)
       PROVE  Goal
  <2> DEFINE x == [Idle EXCEPT !.at = "exists"]
  <2>1. requests[r].at = "idle" /\ Goes(r, x) /\ UNCHANGED tables
    BY <1>11 DEF StartBootstrap
  <2>2. x \in Request /\ x.at = "exists"
    BY IdleTyped DEF Answered, Places
  <2> HIDE DEF x
  <2> QED
    BY <1>0, <2>1, <2>2, GoesPuts DEF Looks, Watches, FromTo, tables
<1>12. ASSUME AdminExists(r)
       PROVE  Goal
  <2>1. /\ requests[r].at = "exists" /\ UNCHANGED tables
        /\ \/ Answer(r, "ok")
           \/ ~HasAnyUserWithRole /\ Moves(r, "username")
    BY <1>12 DEF AdminExists
  <2> QED
    BY <1>0, <2>1, AnswerPuts, MovesPuts
       DEF Looks, Watches, Ends, Finished, FindsNoAdmin, FromTo, Places, tables
<1>13. ASSUME CreateAdmin(r), users[Root] # "absent"
       PROVE  Goal
  <2>1. /\ requests[r].at = "username" /\ Answer(r, "ok")
        /\ UNCHANGED <<users, mustChange, userRoles, audits, changes, overlapped>>
    BY <1>13 DEF CreateAdmin
  <2> QED
    BY <1>0, <2>1, AnswerPuts DEF Looks, Watches, Ends, Finished, Places
<1> QED
  BY <1>1, <1>2, <1>3, <1>4, <1>5, <1>6, <1>7, <1>8, <1>9, <1>10, <1>11, <1>12,
     <1>13 DEF Looking, Login, Principal

-----------------------------------------------------------------------------
(***************************************************************************)
(* The limiter.  What counts against the username when the block ends is   *)
(* what is younger than the window by then, and it is never enough to      *)
(* block: a new block outlives all failures before it, a failure that sets *)
(* none leaves fewer than the threshold, and later each failure ages as    *)
(* the block runs out.                                                     *)
(***************************************************************************)
LimiterRecords ==
    [failures : UNION {[Q -> Ages] : Q \in SUBSET Requests},
     blocked : BOOLEAN, left : 0..Window]

Counting(l) == {q \in DOMAIN l.failures : l.failures[q] + l.left < Window}

LimiterOK(l) ==
    /\ l \in LimiterRecords
    /\ IsFiniteSet(DOMAIN l.failures)
    /\ Cardinality(Counting(l)) < Threshold

Limited == \A u \in Users : LimiterOK(limiter[u])

LEMMA WindowAges ==
    /\ Window \in Nat /\ 0 \in Ages /\ \A age \in Ages : age \in Nat
    /\ \A age \in Ages : age <= Window => age + 1 \in Ages
    /\ Window + 1 \in Ages
    /\ Threshold \in Nat /\ 0 < Threshold
  BY AccountsAssumption DEF Ages

LEMMA FailuresTyped ==
    ASSUME NEW l \in LimiterRecords
    PROVE  /\ DOMAIN l.failures \subseteq Requests
           /\ \A q \in DOMAIN l.failures : l.failures[q] \in Ages
           /\ l.blocked \in BOOLEAN /\ l.left \in 0..Window
<1>1. PICK Q \in SUBSET Requests : l.failures \in [Q -> Ages]
  BY DEF LimiterRecords
<1> QED
  BY <1>1 DEF LimiterRecords

LEMMA LimiterTyped ==
    ASSUME NEW Q \in SUBSET Requests, NEW f \in [Q -> Ages],
           NEW blocked \in BOOLEAN, NEW left \in 0..Window
    PROVE  [failures |-> f, blocked |-> blocked, left |-> left] \in LimiterRecords
  BY DEF LimiterRecords

\* Fewer failures count: fewer than the threshold still.
LEMMA FewerCount ==
    ASSUME NEW S, IsFiniteSet(S), Cardinality(S) < Threshold, NEW T \in SUBSET S
    PROVE  Cardinality(T) < Threshold
<1>1. Cardinality(T) \in Nat /\ Cardinality(S) \in Nat /\ Cardinality(T) <= Cardinality(S)
  BY FS_Subset, FS_CardinalityType
<1> QED
  BY <1>1, WindowAges

LEMMA NoFailuresOK == LimiterOK(NoFailures)
<1>1. NoFailures \in LimiterRecords
  <2> DEFINE none == [q \in {} |-> 0]
  <2>1. none \in [{} -> Ages] /\ {} \in SUBSET Requests /\ 0 \in 0..Window
    BY WindowAges
  <2>2. NoFailures = [failures |-> none, blocked |-> FALSE, left |-> 0]
    BY DEF NoFailures
  <2> HIDE DEF none
  <2> QED
    BY <2>1, <2>2, LimiterTyped
<1>2. DOMAIN NoFailures.failures = {}
  BY DEF NoFailures
<1>3. Counting(NoFailures) = {}
  BY <1>2 DEF Counting
<1> QED
  BY <1>1, <1>2, <1>3, FS_EmptySet, WindowAges DEF LimiterOK

\* RecordFailure: what is remembered of l after one more failure.
LEMMA FailureOK ==
    ASSUME NEW l, LimiterOK(l), NEW r \in Requests, NEW kept, NEW new,
           kept = {q \in DOMAIN l.failures : l.failures[q] <= Window} \union {r},
           new = [failures |-> [q \in kept |-> IF q = r THEN 0 ELSE l.failures[q]],
                  blocked |-> l.blocked \/ Cardinality(kept) >= Threshold,
                  left |-> IF Cardinality(kept) >= Threshold THEN Window ELSE l.left]
    PROVE  LimiterOK(new)
<1> DEFINE full == Cardinality(kept) >= Threshold
<1>1. /\ DOMAIN l.failures \subseteq Requests
      /\ \A q \in DOMAIN l.failures : l.failures[q] \in Ages
      /\ l.blocked \in BOOLEAN /\ l.left \in 0..Window
  BY FailuresTyped DEF LimiterOK
<1>2. kept \subseteq Requests /\ IsFiniteSet(kept) /\ Cardinality(kept) \in Nat
  <2>1. IsFiniteSet({q \in DOMAIN l.failures : l.failures[q] <= Window})
    BY FS_Subset DEF LimiterOK
  <2>2. IsFiniteSet(kept)
    BY <2>1, FS_AddElement
  <2> QED
    BY <1>1, <2>2, FS_CardinalityType
<1>3. /\ new.failures = [q \in kept |-> IF q = r THEN 0 ELSE l.failures[q]]
      /\ DOMAIN new.failures = kept
      /\ new.left = IF full THEN Window ELSE l.left
  OBVIOUS
<1>4. new \in LimiterRecords
  <2>1. new.failures \in [kept -> Ages]
    BY <1>1, <1>3, WindowAges
  <2>2. (l.blocked \/ full) \in BOOLEAN /\ (IF full THEN Window ELSE l.left) \in 0..Window
    BY <1>1, WindowAges
  <2> QED
    BY <1>2, <1>3, <2>1, <2>2, LimiterTyped
<1>5. Cardinality(Counting(new)) < Threshold
  <2>1. CASE full
    <3>1. \A q \in kept : new.failures[q] \in Nat
      BY <1>1, <1>3, WindowAges
    <3>2. Counting(new) = {}
      BY <1>3, <2>1, <3>1, WindowAges DEF Counting
    <3> QED
      BY <3>2, FS_EmptySet, WindowAges
  <2>2. CASE ~full
    <3>1. Cardinality(kept) < Threshold
      BY <1>2, <2>2, WindowAges
    <3>2. Counting(new) \subseteq kept
      BY <1>3 DEF Counting
    <3> QED
      BY <1>2, <3>1, <3>2, FewerCount
  <2> QED
    BY <2>1, <2>2
<1> QED
  BY <1>2, <1>3, <1>4, <1>5 DEF LimiterOK

\* A tick: the failures age as the block runs out.
LEMMA TickOK ==
    ASSUME NEW l, LimiterOK(l), NEW new,
           new = [failures |-> [i \in DOMAIN l.failures |->
                      IF l.failures[i] <= Window THEN l.failures[i] + 1 ELSE Window + 1],
                  blocked |-> l.blocked,
                  left |-> IF l.left > 0 THEN l.left - 1 ELSE 0]
    PROVE  LimiterOK(new)
<1>1. /\ DOMAIN l.failures \subseteq Requests
      /\ \A q \in DOMAIN l.failures : l.failures[q] \in Ages
      /\ l.blocked \in BOOLEAN /\ l.left \in 0..Window
  BY FailuresTyped DEF LimiterOK
<1>2. /\ new.failures = [i \in DOMAIN l.failures |->
             IF l.failures[i] <= Window THEN l.failures[i] + 1 ELSE Window + 1]
      /\ DOMAIN new.failures = DOMAIN l.failures
      /\ new.left = IF l.left > 0 THEN l.left - 1 ELSE 0
  OBVIOUS
<1>3. new \in LimiterRecords
  <2>1. new.failures \in [DOMAIN l.failures -> Ages]
    BY <1>1, <1>2, WindowAges
  <2>2. (IF l.left > 0 THEN l.left - 1 ELSE 0) \in 0..Window
    BY <1>1, WindowAges
  <2> QED
    BY <1>1, <1>2, <2>1, <2>2, LimiterTyped
<1>4. Counting(new) \subseteq Counting(l)
  BY <1>1, <1>2, WindowAges DEF Counting
<1>5. Counting(l) \subseteq DOMAIN l.failures
  BY DEF Counting
<1>6. IsFiniteSet(Counting(l))
  BY <1>5, FS_Subset DEF LimiterOK
<1> QED
  BY <1>2, <1>3, <1>4, <1>6, FewerCount DEF LimiterOK

\* The steps of the limiter, and of everything that is not one.
LEMMA LimitedStep ==
    ASSUME TypeOK, Acting, Limited, [Next]_vars
    PROVE  Limited' /\ limiter' \in [Users -> LimiterRecords]
<1> DEFINE Goal == Limited' /\ limiter' \in [Users -> LimiterRecords]
<1>0. limiter \in [Users -> LimiterRecords]
  BY DEF TypeOK, LimiterRecords
<1>1. ASSUME UNCHANGED limiter
      PROVE  Goal
  BY <1>0, <1>1 DEF Limited
\* What one username's entry becomes.
<1>2. ASSUME NEW u \in Users, NEW l, LimiterOK(l), limiter' = [limiter EXCEPT ![u] = l]
      PROVE  Goal
  <2>1. l \in LimiterRecords
    BY <1>2 DEF LimiterOK
  <2>2. \A v \in Users : limiter'[v] = IF v = u THEN l ELSE limiter[v]
    BY <1>0, <1>2
  <2>3. \A v \in Users : LimiterOK(limiter'[v])
    BY <1>2, <2>2 DEF Limited
  <2> QED
    BY <1>0, <1>2, <2>1, <2>3 DEF Limited
<1>3. ASSUME NEW r \in Requests, Blocked(r)
      PROVE  Goal
  <2> DEFINE u == requests[r].actor
             l == IF limiter[u].blocked THEN NoFailures ELSE limiter[u]
  <2>1. u \in Users
    BY <1>3 DEF Blocked, Acting
  <2>2. LimiterOK(l)
    BY <2>1, NoFailuresOK DEF Limited
  <2>3. UNCHANGED limiter \/ limiter' = [limiter EXCEPT ![u] = l]
    BY <1>0, <1>3, <2>1 DEF Blocked
  <2> HIDE DEF l, u
  <2> QED
    BY <1>1, <1>2, <2>1, <2>2, <2>3
<1>4. ASSUME NEW r \in Requests, RecordFailure(r)
      PROVE  Goal
  <2> DEFINE u == requests[r].actor
             l == limiter[u]
             kept == {q \in DOMAIN l.failures : l.failures[q] <= Window} \union {r}
             full == Cardinality(kept) >= Threshold
             new == [failures |-> [q \in kept |-> IF q = r THEN 0 ELSE l.failures[q]],
                     blocked |-> l.blocked \/ full,
                     left |-> IF full THEN Window ELSE l.left]
  <2>1. u \in Users
    BY <1>4 DEF RecordFailure, Acting
  <2>2. LimiterOK(l)
    BY <2>1 DEF Limited
  <2>3. limiter' = [limiter EXCEPT ![u] = new]
    BY <1>0, <1>4, <2>1 DEF RecordFailure
  <2>4. LimiterOK(new)
    <3> HIDE DEF l
    <3> QED
      BY <2>2, FailureOK
  <2> HIDE DEF new, u
  <2> QED
    BY <1>2, <2>1, <2>3, <2>4
<1>5. ASSUME NEW r \in Requests, RecordSuccess(r)
      PROVE  Goal
  <2>1. requests[r].actor \in Users /\ limiter' = [limiter EXCEPT ![requests[r].actor] = NoFailures]
    BY <1>5 DEF RecordSuccess, Acting
  <2> QED
    BY <1>2, <2>1, NoFailuresOK
<1>6. ASSUME Tick
      PROVE  Goal
  <2> DEFINE New(l) ==
               [failures |-> [i \in DOMAIN l.failures |->
                    IF l.failures[i] <= Window THEN l.failures[i] + 1 ELSE Window + 1],
                blocked |-> l.blocked,
                left |-> IF l.left > 0 THEN l.left - 1 ELSE 0]
  <2>1. limiter' = [u \in Users |-> New(limiter[u])]
    BY <1>6 DEF Tick
  <2>2. \A u \in Users : LimiterOK(New(limiter[u]))
    BY TickOK DEF Limited
  <2> HIDE DEF New
  <2>3. \A u \in Users : New(limiter[u]) \in LimiterRecords
    BY <2>2 DEF LimiterOK
  <2> QED
    BY <2>1, <2>2, <2>3 DEF Limited
<1>7. ASSUME NEW r \in Requests, Principal(r) \/ Manage(r) \/ Bootstrap(r)
      PROVE  UNCHANGED limiter
  BY <1>7 DEF Principal, StartRequest, UserByID, ResolveRoles, Decide, Manage, DisableUser,
       ResetPassword, CreateUser, DeleteRoles, ChangeOwnPassword, InsertRole, AppendAudit,
       Fails, Bootstrap, StartBootstrap, AdminExists, CreateAdmin, Wrote
<1>8. ASSUME NEW r \in Requests, Login(r)
      PROVE  Goal
  <2>1. CASE (\E u \in Users : StartLogin(r, u)) \/ Verify(r)
    BY <1>1, <2>1 DEF StartLogin, Verify
  <2> QED
    BY <1>3, <1>4, <1>5, <1>8, <2>1 DEF Login
<1>9. CASE UNCHANGED vars
  BY <1>1, <1>9 DEF vars
<1> QED
  BY <1>1, <1>6, <1>7, <1>8, <1>9 DEF Next

-----------------------------------------------------------------------------
(***************************************************************************)
(* The writes, and with them every step of a request.                      *)
(***************************************************************************)
Written(r, event, target) ==
    /\ OthersStay(r)
    /\ requests'[r].at = "audit" /\ requests'[r].actor = requests[r].actor
    /\ requests'[r].target = target /\ requests'[r].event = event
    /\ changes' = changes \union {Change(event, requests[r].actor, target, r)}
    /\ UNCHANGED audits

Creates(r, target, role) ==
    /\ Written(r, "user_created", target)
    /\ \/ requests[r].at = "allowed"
       \/ requests[r].at = "username" /\ target = Root /\ role = "system_admin"
    /\ users[target] = "absent"
    /\ users' = [users EXCEPT ![target] = "active"]
    /\ userRoles' = [userRoles EXCEPT ![target] = {[role |-> role, by |-> r]}]
    /\ UNCHANGED overlapped

Disables(r, target) ==
    /\ Written(r, "user_disabled", target)
    /\ requests[r].at = "allowed"
    /\ users[target] # "absent"
    /\ users' = [users EXCEPT ![target] = "disabled"]
    /\ UNCHANGED <<userRoles, overlapped>>

SetsPassword(r, event, target) ==
    /\ Written(r, event, target)
    /\ requests[r].at \in {"allowed", "resolved", "mustChange"}
    /\ UNCHANGED <<users, userRoles, overlapped>>

BeginsToReplace(r, target) ==
    /\ OthersStay(r)
    /\ FromTo(r, {"allowed"}, {"replacing"}) /\ SameActor(r)
    /\ requests'[r].target = target /\ requests'[r].rows = userRoles[target]
    /\ users[target] # "absent"
    /\ overlapped' = IF Replacing(target) = {} THEN overlapped ELSE overlapped \union {target}
    /\ UNCHANGED <<users, userRoles, audits, changes>>

Replaced(r) ==
    LET left == userRoles[requests[r].target] \ requests[r].rows IN
    IF requests[r].role \in {row.role : row \in left} THEN left
    ELSE left \union {[role |-> requests[r].role, by |-> r]}

Replaces(r) ==
    /\ Written(r, "role_assigned", requests[r].target)
    /\ requests[r].at = "replacing"
    /\ userRoles' = [userRoles EXCEPT ![requests[r].target] = Replaced(r)]
    /\ UNCHANGED <<users, overlapped>>

ToBeTold(r) == Change(requests[r].event, requests[r].actor, requests[r].target, r)

Tells(r) ==
    /\ OthersStay(r)
    /\ FromTo(r, {"audit"}, {"ok"})
    /\ audits' = audits \union {ToBeTold(r)}
    /\ UNCHANGED <<users, userRoles, changes, overlapped>>

Steps(r) ==
    \/ Looks(r)
    \/ \E target \in Users :
         \/ \E role \in Roles : Creates(r, target, role)
         \/ Disables(r, target)
         \/ SetsPassword(r, "password_reset", target)
         \/ SetsPassword(r, "password_changed", target)
         \/ BeginsToReplace(r, target)
    \/ Replaces(r)
    \/ Tells(r)

\* The types that a step of r keeps, the limiter's apart.
Typed ==
    /\ users \in [Users -> {"absent", "active", "disabled"}]
    /\ mustChange \in [Users -> BOOLEAN]
    /\ userRoles \in [Users -> SUBSET Rows]
    /\ requests \in [Requests -> Request]
    /\ audits \subseteq AuditLog
    /\ changes \subseteq Entry(Events)
    /\ overlapped \subseteq Users

LEMMA RequestSteps ==
    ASSUME TypeOK, Acting, NEW r \in Requests,
           Login(r) \/ Principal(r) \/ Manage(r) \/ Bootstrap(r)
    PROVE  Steps(r) /\ Typed'
<1> DEFINE Goal == Steps(r) /\ Typed'
<1>0. Typed /\ requests[r] \in Request
  BY DEF TypeOK, Typed, AuditLog
<1>1. ASSUME Looking(r)
      PROVE  Goal
  <2>1. /\ Looks(r) /\ UNCHANGED <<users, userRoles, changes, overlapped>>
        /\ requests' \in [Requests -> Request] /\ audits' \subseteq AuditLog
        /\ UNCHANGED mustChange
    BY <1>1, LookingLooks DEF Looks, Watches
  <2> QED
    BY <1>0, <2>1 DEF Steps, Typed
<1>2. ASSUME NEW event \in Events, NEW target \in Users, Wrote(r, event, target)
      PROVE  /\ Written(r, event, target)
             /\ requests' \in [Requests -> Request] /\ audits' \subseteq AuditLog
             /\ changes' \subseteq Entry(Events)
  BY <1>0, <1>2, WrotePuts DEF Written, Typed
<1>3. ASSUME NEW target \in Users, NEW role \in Roles, CreateUser(r, target, role)
      PROVE  Goal
  <2>1. /\ users[target] = "absent" /\ requests[r].at = "allowed"
        /\ Wrote(r, "user_created", target)
        /\ users' = [users EXCEPT ![target] = "active"]
        /\ mustChange' = [mustChange EXCEPT ![target] = TRUE]
        /\ userRoles' = [userRoles EXCEPT ![target] = {[role |-> role, by |-> r]}]
        /\ UNCHANGED overlapped
    BY <1>3 DEF CreateUser, MayManage
  <2>2. {[role |-> role, by |-> r]} \in SUBSET Rows /\ "user_created" \in Events
    BY DEF Rows, Events
  <2> QED
    BY <1>0, <1>2, <2>1, <2>2 DEF Steps, Creates, Typed
<1>4. ASSUME NEW target \in Users, DisableUser(r, target)
      PROVE  Goal
  <2>1. /\ users[target] # "absent" /\ requests[r].at = "allowed"
        /\ Wrote(r, "user_disabled", target)
        /\ users' = [users EXCEPT ![target] = "disabled"]
        /\ UNCHANGED <<mustChange, userRoles, overlapped>>
        /\ "user_disabled" \in Events
    BY <1>4 DEF DisableUser, MayManage, Events
  <2> QED
    BY <1>0, <1>2, <2>1 DEF Steps, Disables, Typed
<1>5. ASSUME NEW target \in Users, ResetPassword(r, target)
      PROVE  Goal
  <2>1. /\ requests[r].at = "allowed"
        /\ Wrote(r, "password_reset", target)
        /\ mustChange' = [mustChange EXCEPT ![target] = TRUE]
        /\ UNCHANGED <<users, userRoles, overlapped>>
        /\ "password_reset" \in Events
    BY <1>5 DEF ResetPassword, MayManage, Events
  <2> QED
    BY <1>0, <1>2, <2>1 DEF Steps, SetsPassword, Typed
<1>6. ASSUME ChangeOwnPassword(r)
      PROVE  Goal
  <2>1. /\ requests[r].at \in {"resolved", "mustChange"}
        /\ requests[r].actor \in Users
        /\ Wrote(r, "password_changed", requests[r].actor)
        /\ mustChange' = [mustChange EXCEPT ![requests[r].actor] = FALSE]
        /\ UNCHANGED <<users, userRoles, overlapped>>
        /\ "password_changed" \in Events
    BY <1>6 DEF ChangeOwnPassword, MayChangeOwnPassword, Acting, Events
  <2> QED
    BY <1>0, <1>2, <2>1 DEF Steps, SetsPassword, Typed
<1>7. ASSUME NEW target \in Users, NEW role \in Roles, DeleteRoles(r, target, role)
      PROVE  Goal
  <2> DEFINE x == [requests[r] EXCEPT !.at = "replacing", !.target = target, !.role = role,
                                      !.rows = userRoles[target]]
  <2>1. /\ requests[r].at = "allowed" /\ users[target] # "absent" /\ Goes(r, x)
        /\ overlapped' = IF Replacing(target) = {} THEN overlapped
                         ELSE overlapped \union {target}
        /\ UNCHANGED <<users, mustChange, userRoles, audits, changes>>
    BY <1>7 DEF DeleteRoles, MayManage
  <2>2. /\ x \in Request /\ x.at = "replacing" /\ x.target = target
        /\ x.actor = requests[r].actor /\ x.wasActive = requests[r].wasActive
        /\ x.rows = userRoles[target]
    BY <1>0 DEF Typed, Request, Places
  <2> HIDE DEF x
  <2>3. requests' \in [Requests -> Request] /\ requests'[r] = x /\ OthersStay(r)
    BY <2>1, <2>2, GoesPuts
  <2>4. BeginsToReplace(r, target)
    BY <2>1, <2>2, <2>3 DEF BeginsToReplace, FromTo, SameActor
  <2> QED
    BY <1>0, <2>1, <2>3, <2>4 DEF Steps, Typed
<1>8. ASSUME InsertRole(r)
      PROVE  Goal
  <2>1. requests[r].at = "replacing" /\ requests[r].target \in Users
    BY <1>8 DEF InsertRole, Acting
  <2>2. /\ Wrote(r, "role_assigned", requests[r].target)
        /\ userRoles' = [userRoles EXCEPT ![requests[r].target] = Replaced(r)]
        /\ UNCHANGED <<users, mustChange, overlapped>>
    BY <1>0, <1>8, <2>1 DEF InsertRole, Replaced, Typed
  <2>3. Replaced(r) \in SUBSET Rows /\ "role_assigned" \in Events
    <3>1. /\ userRoles[requests[r].target] \in SUBSET Rows
          /\ requests[r].role \in Roles
      BY <1>0, <2>1 DEF Typed, Request
    <3>2. [role |-> requests[r].role, by |-> r] \in Rows
      BY <3>1 DEF Rows
    <3> QED
      BY <3>1, <3>2 DEF Replaced, Events
  <2> QED
    BY <1>0, <1>2, <2>1, <2>2, <2>3 DEF Steps, Replaces, Typed
<1>9. ASSUME AppendAudit(r)
      PROVE  Goal
  <2>1. /\ requests[r].at = "audit" /\ Answer(r, "ok")
        /\ audits' = audits \union {ToBeTold(r)}
        /\ UNCHANGED <<users, mustChange, userRoles, changes, overlapped>>
    BY <1>9 DEF AppendAudit, ToBeTold
  <2>2. requests' \in [Requests -> Request] /\ requests'[r].at = "ok" /\ OthersStay(r)
    BY <2>1, AnswerPuts DEF Places
  <2>3. ToBeTold(r) \in AuditLog
    BY <1>0, <2>1 DEF ToBeTold, Change, AuditLog, Entry, Acting, Request
  <2> QED
    BY <1>0, <2>1, <2>2, <2>3 DEF Steps, Tells, FromTo, Typed
<1>10. ASSUME CreateAdmin(r), users[Root] = "absent"
       PROVE  Goal
  <2>0. PICK role \in Roles : role = "system_admin"
    BY DEF Roles
  <2>1. /\ requests[r].at = "username"
        /\ Wrote(r, "user_created", Root)
        /\ users' = [users EXCEPT ![Root] = "active"]
        /\ mustChange' = [mustChange EXCEPT ![Root] = TRUE]
        /\ userRoles' = [userRoles EXCEPT ![Root] = {[role |-> role, by |-> r]}]
        /\ UNCHANGED overlapped
    BY <1>10, <2>0 DEF CreateAdmin
  <2>2. {[role |-> role, by |-> r]} \in SUBSET Rows /\ "user_created" \in Events
        /\ Root \in Users
    BY AccountsAssumption DEF Rows, Events
  <2>3. Creates(r, Root, role)
    BY <1>2, <1>10, <2>0, <2>1, <2>2 DEF Creates
  <2>4. Typed'
    BY <1>0, <1>2, <2>1, <2>2 DEF Typed
  <2> QED
    BY <2>2, <2>3, <2>4 DEF Steps
<1> QED
  BY <1>1, <1>3, <1>4, <1>5, <1>6, <1>7, <1>8, <1>9, <1>10
     DEF Manage, Bootstrap, Looking

\* An account once made stays, and what was written was written.
LEMMA NothingVanishes ==
    ASSUME Typed, NEW r \in Requests, Steps(r)
    PROVE  /\ \A u \in Users : users[u] # "absent" => users'[u] # "absent"
           /\ changes \subseteq changes'
<1>1. CASE Looks(r)
  BY <1>1 DEF Looks, Watches
<1>2. CASE Replaces(r) \/ Tells(r)
  BY <1>2 DEF Replaces, Tells, Written
<1>3. ASSUME NEW target \in Users, NEW role \in Roles, Creates(r, target, role)
      PROVE  /\ \A u \in Users : users[u] # "absent" => users'[u] # "absent"
             /\ changes \subseteq changes'
  BY <1>3 DEF Creates, Written, Typed
<1>4. ASSUME NEW target \in Users, Disables(r, target)
      PROVE  /\ \A u \in Users : users[u] # "absent" => users'[u] # "absent"
             /\ changes \subseteq changes'
  BY <1>4 DEF Disables, Written, Typed
<1>5. ASSUME NEW target \in Users, SetsPassword(r, "password_reset", target)
                                   \/ SetsPassword(r, "password_changed", target)
                                   \/ BeginsToReplace(r, target)
      PROVE  /\ \A u \in Users : users[u] # "absent" => users'[u] # "absent"
             /\ changes \subseteq changes'
  BY <1>5 DEF SetsPassword, BeginsToReplace, Written
<1> QED
  BY <1>1, <1>2, <1>3, <1>4, <1>5 DEF Steps

LEMMA ActingStep ==
    ASSUME Typed, Acting, NEW r \in Requests, Steps(r)
    PROVE  Acting'
<1> DEFINE Acts(q) ==
        /\ requests[q].at \in {"check", "lookup", "right", "wrong", "user", "roles",
               "mustChangeRoles", "resolved", "mustChange", "allowed", "replacing"}
             => requests[q].actor \in Users
        /\ requests[q].at \in {"replacing", "audit"} => requests[q].target \in Users
        /\ requests[q].at = "audit" => requests[q].event \in Events
        /\ requests[q].at = "replacing" => users[requests[q].target] # "absent"
<1>0. Acts(r)
  BY DEF Acting
<1>1. ASSUME OthersStay(r), NEW q \in Requests, q # r
      PROVE  Acts(q)'
  BY <1>1, NothingVanishes DEF Acting, OthersStay
<1>2. ASSUME NEW event \in Events, NEW target \in Users, Written(r, event, target)
      PROVE  OthersStay(r) /\ Acts(r)'
  BY <1>2 DEF Written
<1>3. OthersStay(r) /\ Acts(r)'
  <2>1. CASE Looks(r)
    BY <1>0, <2>1 DEF Looks, Watches, Ends, Finished, LogsIn, Comes, FindsActive, FindsRoles,
         IsAllowed, FindsNoAdmin, FromTo, SameActor
  <2>2. ASSUME NEW target \in Users, NEW role \in Roles, Creates(r, target, role)
        PROVE  OthersStay(r) /\ Acts(r)'
    BY <1>2, <2>2 DEF Creates, Events
  <2>3. ASSUME NEW target \in Users, \/ Disables(r, target)
                                     \/ SetsPassword(r, "password_reset", target)
                                     \/ SetsPassword(r, "password_changed", target)
        PROVE  OthersStay(r) /\ Acts(r)'
    BY <1>2, <2>3 DEF Disables, SetsPassword, Events
  <2>4. ASSUME NEW target \in Users, BeginsToReplace(r, target)
        PROVE  OthersStay(r) /\ Acts(r)'
    BY <1>0, <2>4 DEF BeginsToReplace, FromTo, SameActor
  <2>5. CASE Replaces(r)
    BY <1>0, <1>2, <2>5 DEF Replaces, Events
  <2>6. CASE Tells(r)
    BY <2>6 DEF Tells, FromTo
  <2> QED
    BY <2>1, <2>2, <2>3, <2>4, <2>5, <2>6 DEF Steps
<1>4. \A q \in Requests : Acts(q)'
  BY <1>1, <1>3
<1> QED
  BY <1>4 DEF Acting

\* Every step is one of a request, of the clock, or none.
LEMMA NextSteps ==
    ASSUME TypeOK, Acting, Limited, [Next]_vars
    PROVE  /\ TypeOK' /\ Typed /\ Acting' /\ Limited'
           /\ (\E r \in Requests : Steps(r)) \/ UNCHANGED <<requests, tables>>
<1>0. Typed
  BY DEF TypeOK, Typed, AuditLog
<1>1. Limited' /\ limiter' \in [Users -> LimiterRecords]
  BY LimitedStep
<1>2. ASSUME NEW r \in Requests, Login(r) \/ Principal(r) \/ Manage(r) \/ Bootstrap(r)
      PROVE  Steps(r) /\ Typed' /\ Acting'
  BY <1>0, <1>2, RequestSteps, ActingStep
<1>3. CASE UNCHANGED <<requests, tables>>
  <2>1. Typed' /\ Acting'
    BY <1>0, <1>3 DEF Typed, Acting, tables
  <2> QED
    BY <1>0, <1>1, <1>3, <2>1 DEF TypeOK, Typed, LimiterRecords, AuditLog
<1>4. CASE Tick \/ UNCHANGED vars
  BY <1>3, <1>4 DEF Tick, vars, tables
<1>5. ASSUME NEW r \in Requests, Login(r) \/ Principal(r) \/ Manage(r) \/ Bootstrap(r)
      PROVE  TypeOK'
  BY <1>1, <1>2, <1>5 DEF TypeOK, Typed, LimiterRecords, AuditLog
<1> QED
  BY <1>0, <1>1, <1>2, <1>3, <1>4, <1>5 DEF Next

-----------------------------------------------------------------------------
(***************************************************************************)
(* The audit: a request writes once, then the entry of what it wrote, and  *)
(* whoever is answered with success has written that one.                  *)
(***************************************************************************)
Answers ==
    \A change \in changes :
        /\ requests[change.by].at \in {"audit", "ok", "error"}
        /\ requests[change.by].at = "ok" => change \in audits

Telling ==
    /\ \A r \in Requests : requests[r].at = "audit" => ToBeTold(r) \in changes
    /\ \A change \in changes : requests[change.by].at = "audit" => change = ToBeTold(change.by)

Truthful == \A entry \in audits : entry.event \in Events => entry \in changes

Audited == Answers /\ Telling /\ Truthful

LEMMA AuditedStep ==
    ASSUME Typed, Acting, Audited, NEW r \in Requests, Steps(r)
    PROVE  Audited'
<1>1. /\ \A change \in changes : change.by \in Requests
      /\ changes \subseteq changes'
  BY NothingVanishes DEF Typed, Entry
<1>2. ASSUME NEW q \in Requests, q # r, OthersStay(r)
      PROVE  requests'[q] = requests[q] /\ ToBeTold(q)' = ToBeTold(q)
  BY <1>2 DEF OthersStay, ToBeTold
\* What r writes is the only change that is its.
<1>3. ASSUME NEW event \in Events, NEW target \in Users, Written(r, event, target),
             requests[r].at \notin {"audit", "ok", "error"}
      PROVE  Audited'
  <2> DEFINE new == Change(event, requests[r].actor, target, r)
  <2>1. /\ OthersStay(r) /\ requests'[r].at = "audit" /\ UNCHANGED audits
        /\ changes' = changes \union {new}
    BY <1>3 DEF Written
  <2>2. new = ToBeTold(r)' /\ new.by = r
    BY <1>3 DEF Written, ToBeTold, Change
  <2>3. \A change \in changes : change.by # r
    BY <1>3 DEF Audited, Answers
  <2> HIDE DEF new
  <2>4. Answers'
    BY <1>1, <1>2, <2>1, <2>2, <2>3 DEF Audited, Answers
  <2>5. Telling'
    BY <1>1, <1>2, <2>1, <2>2, <2>3 DEF Audited, Telling
  <2>6. Truthful'
    BY <2>1 DEF Audited, Truthful
  <2> QED
    BY <2>4, <2>5, <2>6 DEF Audited
\* r moves on without a change or an entry of one.
<1>4. ASSUME OthersStay(r), UNCHANGED changes, audits \subseteq audits',
             \A entry \in audits' \ audits : entry.event \notin Events,
             requests'[r].at # "audit",
             \/ requests[r].at \notin {"audit", "ok", "error"}
             \/ requests[r].at = "audit" /\ requests'[r].at = "error"
      PROVE  Audited'
  <2>1. Answers'
    BY <1>1, <1>2, <1>4 DEF Audited, Answers
  <2>2. Telling'
    BY <1>1, <1>2, <1>4 DEF Audited, Telling
  <2>3. Truthful'
    BY <1>4 DEF Audited, Truthful
  <2> QED
    BY <2>1, <2>2, <2>3 DEF Audited
<1>5. CASE Looks(r)
  <2>1. /\ OthersStay(r) /\ UNCHANGED changes /\ audits \subseteq audits'
        /\ \A entry \in audits' \ audits : entry.event \notin Events
    BY <1>5 DEF Looks, Watches
  <2>2. /\ requests'[r].at # "audit"
        /\ \/ requests[r].at \notin {"audit", "ok", "error"}
           \/ requests[r].at = "audit" /\ requests'[r].at = "error"
    BY <1>5 DEF Looks, Ends, Finished, LogsIn, Comes, FindsActive, FindsRoles,
       IsAllowed, FindsNoAdmin, FromTo
  <2> QED
    BY <1>4, <2>1, <2>2
<1>6. ASSUME NEW target \in Users, NEW role \in Roles, Creates(r, target, role)
      PROVE  Audited'
  BY <1>3, <1>6 DEF Creates, Events
<1>7. ASSUME NEW target \in Users, \/ Disables(r, target)
                                   \/ SetsPassword(r, "password_reset", target)
                                   \/ SetsPassword(r, "password_changed", target)
      PROVE  Audited'
  BY <1>3, <1>7 DEF Disables, SetsPassword, Events
<1>8. ASSUME NEW target \in Users, BeginsToReplace(r, target)
      PROVE  Audited'
  BY <1>4, <1>8 DEF BeginsToReplace, FromTo
<1>9. CASE Replaces(r)
  BY <1>3, <1>9 DEF Replaces, Acting, Events
<1>10. CASE Tells(r)
  <2>1. /\ OthersStay(r) /\ requests[r].at = "audit" /\ requests'[r].at = "ok"
        /\ audits' = audits \union {ToBeTold(r)} /\ UNCHANGED changes
    BY <1>10 DEF Tells, FromTo
  <2>2. ToBeTold(r) \in changes
    BY <2>1 DEF Audited, Telling
  <2>3. \A change \in changes : change.by = r => change = ToBeTold(r)
    BY <2>1 DEF Audited, Telling
  <2>4. Answers'
    BY <1>1, <1>2, <2>1, <2>3 DEF Audited, Answers
  <2>5. Telling'
    BY <1>1, <1>2, <2>1 DEF Audited, Telling
  <2>6. Truthful'
    BY <2>1, <2>2 DEF Audited, Truthful
  <2> QED
    BY <2>4, <2>5, <2>6 DEF Audited
<1> QED
  BY <1>5, <1>6, <1>7, <1>8, <1>9, <1>10 DEF Steps

-----------------------------------------------------------------------------
(***************************************************************************)
(* Who was active: a request that got past UserByID was let in by an       *)
(* account that was active when it came, for an account that is disabled   *)
(* never comes back.                                                       *)
(***************************************************************************)
WasActive ==
    \A r \in Requests :
        /\ requests[r].at \in {"roles", "mustChangeRoles", "resolved", "mustChange",
                               "allowed", "replacing"} => requests[r].wasActive
        /\ requests[r].at = "user" =>
             requests[r].wasActive \/ users[requests[r].actor] = "disabled"

LEMMA WasActiveStep ==
    ASSUME Typed, Acting, WasActive, NEW r \in Requests, Steps(r)
    PROVE  WasActive'
<1> DEFINE In(q) ==
        /\ requests[q].at \in {"roles", "mustChangeRoles", "resolved", "mustChange",
                               "allowed", "replacing"} => requests[q].wasActive
        /\ requests[q].at = "user" =>
             requests[q].wasActive \/ users[requests[q].actor] = "disabled"
<1>0. In(r)
  BY DEF WasActive
<1>1. OthersStay(r)
  BY DEF Steps, Looks, Watches, Creates, Disables, SetsPassword, BeginsToReplace, Replaces,
     Tells, Written
<1>2. \A u \in Users : users[u] = "disabled" => users'[u] = "disabled"
  <2>1. ASSUME UNCHANGED users
        PROVE  \A u \in Users : users[u] = "disabled" => users'[u] = "disabled"
    BY <2>1
  <2>2. ASSUME NEW target \in Users, NEW role \in Roles, Creates(r, target, role)
        PROVE  \A u \in Users : users[u] = "disabled" => users'[u] = "disabled"
    BY <2>2 DEF Creates, Typed
  <2>3. ASSUME NEW target \in Users, Disables(r, target)
        PROVE  \A u \in Users : users[u] = "disabled" => users'[u] = "disabled"
    BY <2>3 DEF Disables, Typed
  <2> QED
    BY <2>1, <2>2, <2>3 DEF Steps, Looks, Watches, SetsPassword, BeginsToReplace, Replaces, Tells
<1>3. \A q \in Requests : q # r => In(q)'
  BY <1>1, <1>2 DEF OthersStay, WasActive, Acting
<1>4. In(r)'
  <2>1. CASE Looks(r)
    <3>1. UNCHANGED users
      BY <2>1 DEF Looks, Watches
    <3> QED
      BY <1>0, <2>1, <3>1 DEF Looks, Ends, Finished, LogsIn, Comes, FindsActive, FindsRoles,
         IsAllowed, FindsNoAdmin, FromTo, SameActor, Acting
  <2>2. CASE \E target \in Users : BeginsToReplace(r, target)
    BY <1>0, <2>2 DEF BeginsToReplace, FromTo, SameActor
  <2>3. CASE requests'[r].at \in {"audit", "ok"}
    BY <2>3
  <2> QED
    BY <2>1, <2>2, <2>3 DEF Steps, Creates, Disables, SetsPassword, Replaces, Tells,
       Written, FromTo
<1>5. \A q \in Requests : In(q)'
  BY <1>3, <1>4
<1> QED
  BY <1>5 DEF WasActive

-----------------------------------------------------------------------------
(***************************************************************************)
(* One role: who replaces the roles of a user alone deletes all there are, *)
(* for no one else has written them since it read.                         *)
(***************************************************************************)
OneRow(u) ==
    /\ \A row1, row2 \in userRoles[u] : row1 = row2
    /\ \A r1, r2 \in Replacing(u) : r1 = r2
    /\ \A r \in Replacing(u) : requests[r].rows = userRoles[u]

OneRole == \A u \in Users \ overlapped : OneRow(u)

LEMMA OneRoleStep ==
    ASSUME Typed, Acting, OneRole, NEW r \in Requests, Steps(r)
    PROVE  OneRole'
<1>0. OthersStay(r) /\ overlapped \subseteq overlapped'
  BY DEF Steps, Looks, Watches, Creates, Disables, SetsPassword, BeginsToReplace, Replaces,
     Tells, Written
<1> SUFFICES ASSUME NEW u \in Users, u \notin overlapped'
             PROVE  OneRow(u)'
  BY DEF OneRole
<1>1. OneRow(u)
  BY <1>0 DEF OneRole
\* Whoever else replaces does so as before.
<1>2. Replacing(u)' \ {r} = Replacing(u) \ {r}
  BY <1>0 DEF Replacing, OthersStay
<1>3. \A q \in Replacing(u)' \ {r} : requests'[q].rows = requests[q].rows
  BY <1>0 DEF Replacing, OthersStay
\* r does not replace now: the others still see the rows that are there.
<1>4. ASSUME r \notin Replacing(u)', userRoles'[u] = userRoles[u]
      PROVE  OneRow(u)'
  BY <1>1, <1>2, <1>3, <1>4 DEF OneRow
<1>5. CASE Looks(r)
  <2>1. UNCHANGED userRoles /\ requests'[r].at # "replacing"
    BY <1>5 DEF Looks, Watches, Ends, Finished, LogsIn, Comes, FindsActive, FindsRoles,
       IsAllowed, FindsNoAdmin, FromTo
  <2> QED
    BY <1>4, <2>1 DEF Replacing
<1>6. ASSUME NEW target \in Users, NEW role \in Roles, Creates(r, target, role)
      PROVE  OneRow(u)'
  <2>1. /\ requests[r].at # "replacing" /\ requests'[r].at = "audit"
        /\ users[target] = "absent"
        /\ userRoles' = [userRoles EXCEPT ![target] = {[role |-> role, by |-> r]}]
    BY <1>6 DEF Creates, Written
  <2>2. r \notin Replacing(u)'
    BY <2>1 DEF Replacing
  <2>3. CASE u = target
    <3>1. Replacing(u) = {}
      BY <2>1, <2>3 DEF Replacing, Acting
    <3>2. Replacing(u)' = {}
      BY <1>2, <2>2, <3>1
    <3>3. userRoles'[u] = {[role |-> role, by |-> r]}
      BY <2>1, <2>3 DEF Typed
    <3> QED
      BY <3>2, <3>3 DEF OneRow
  <2>4. CASE u # target
    BY <1>4, <2>1, <2>2, <2>4 DEF Typed
  <2> QED
    BY <2>3, <2>4
<1>7. ASSUME NEW target \in Users, \/ Disables(r, target)
                                   \/ SetsPassword(r, "password_reset", target)
                                   \/ SetsPassword(r, "password_changed", target)
      PROVE  OneRow(u)'
  <2>1. UNCHANGED userRoles /\ requests'[r].at = "audit"
    BY <1>7 DEF Disables, SetsPassword, Written
  <2> QED
    BY <1>4, <2>1 DEF Replacing
<1>8. ASSUME NEW target \in Users, BeginsToReplace(r, target)
      PROVE  OneRow(u)'
  <2>1. /\ requests[r].at = "allowed" /\ requests'[r].at = "replacing"
        /\ requests'[r].target = target /\ requests'[r].rows = userRoles[target]
        /\ overlapped' = IF Replacing(target) = {} THEN overlapped
                         ELSE overlapped \union {target}
        /\ UNCHANGED userRoles
    BY <1>8 DEF BeginsToReplace, FromTo
  <2>2. CASE u = target
    <3>1. Replacing(u) = {}
      BY <2>1, <2>2
    <3>2. Replacing(u)' = {r}
      BY <1>2, <2>1, <2>2, <3>1 DEF Replacing
    <3> QED
      BY <1>1, <2>1, <2>2, <3>2 DEF OneRow
  <2>3. CASE u # target
    BY <1>4, <2>1, <2>3 DEF Replacing
  <2> QED
    BY <2>2, <2>3
<1>9. CASE Replaces(r)
  <2> DEFINE target == requests[r].target
  <2>1. /\ requests[r].at = "replacing" /\ requests'[r].at = "audit" /\ target \in Users
        /\ userRoles' = [userRoles EXCEPT ![target] = Replaced(r)]
    BY <1>9 DEF Replaces, Written, Acting
  <2>2. r \notin Replacing(u)'
    BY <2>1 DEF Replacing
  <2>3. CASE u = target
    <3>1. r \in Replacing(u)
      BY <2>1, <2>3 DEF Replacing
    <3>2. Replacing(u)' = {}
      BY <1>1, <1>2, <2>2, <3>1 DEF OneRow
    <3>3. userRoles[u] \ requests[r].rows = {}
      BY <1>1, <3>1 DEF OneRow
    <3>4. Replaced(r) = {[role |-> requests[r].role, by |-> r]}
      BY <2>3, <3>3 DEF Replaced
    <3>5. userRoles'[u] = {[role |-> requests[r].role, by |-> r]}
      BY <2>1, <2>3, <3>4 DEF Typed
    <3> QED
      BY <3>2, <3>5 DEF OneRow
  <2>4. CASE u # target
    BY <1>4, <2>1, <2>2, <2>4 DEF Typed
  <2> QED
    BY <2>3, <2>4
<1>10. CASE Tells(r)
  BY <1>4, <1>10 DEF Tells, FromTo, Replacing
<1> QED
  BY <1>5, <1>6, <1>7, <1>8, <1>9, <1>10 DEF Steps

-----------------------------------------------------------------------------
(***************************************************************************)
(* Who administers: an administrator, or one whose roles were assigned     *)
(* since.  There always is one, it takes one to write, and it is never     *)
(* undone.                                                                 *)
(***************************************************************************)
Assigned(u) == \E change \in changes : change.event = "role_assigned" /\ change.target = u
WasAdmin(u) == IsAdmin(u) \/ Assigned(u)

Administering ==
    /\ \A u \in Users : users[u] = "absent" => ~WasAdmin(u)
    /\ (\E u \in Users : WasAdmin(u)) \/ \A u \in Users : users[u] = "absent"
    /\ \A r \in Requests :
         (requests[r].at = "resolved" /\ CameAsAdmin(r)) \/ requests[r].at \in {"allowed", "replacing"}
           => WasAdmin(requests[r].actor)
    /\ \A change \in changes : change.event \in {"user_disabled", "role_assigned"} =>
         change.actor \in Users /\ WasAdmin(change.actor)
    /\ \A u \in Users : users[u] = "disabled" =>
         \E change \in changes : change.event = "user_disabled" /\ change.target = u

\* The bootstrap has found no administrator.
Starting ==
    (\E r \in Requests : requests[r].at = "username") =>
      \/ \A u \in Users : users[u] = "absent"
      \/ users[Root] # "absent"
      \/ \E u \in Users : Assigned(u)

\* Administrators stay what they were, but for one whose role is assigned.
LEMMA AdminsStay ==
    ASSUME Typed, Acting, Administering, NEW r \in Requests, Steps(r)
    PROVE  \A u \in Users : WasAdmin(u) => WasAdmin(u)'
<1>1. \A u \in Users : Assigned(u) => Assigned(u)'
  BY NothingVanishes DEF Assigned
<1>2. ASSUME NEW u \in Users, userRoles'[u] = userRoles[u]
      PROVE  WasAdmin(u) => WasAdmin(u)'
  BY <1>1, <1>2 DEF WasAdmin, IsAdmin, RolesForUser
<1>3. ASSUME NEW target \in Users, NEW role \in Roles, Creates(r, target, role)
      PROVE  \A u \in Users : WasAdmin(u) => WasAdmin(u)'
  BY <1>2, <1>3 DEF Creates, Administering, Typed
<1>4. ASSUME Replaces(r), NEW u \in Users
      PROVE  WasAdmin(u) => WasAdmin(u)'
  <2>1. /\ requests[r].target \in Users
        /\ userRoles' = [userRoles EXCEPT ![requests[r].target] = Replaced(r)]
        /\ changes' = changes \union
              {Change("role_assigned", requests[r].actor, requests[r].target, r)}
    BY <1>4 DEF Replaces, Written, Acting
  <2>2. CASE u = requests[r].target
    <3> DEFINE new == Change("role_assigned", requests[r].actor, requests[r].target, r)
    <3>1. new \in changes' /\ new.event = "role_assigned" /\ new.target = u
      BY <2>1, <2>2 DEF Change
    <3> HIDE DEF new
    <3> QED
      BY <3>1 DEF WasAdmin, Assigned
  <2>3. CASE u # requests[r].target
    BY <1>2, <2>1, <2>3 DEF Typed
  <2> QED
    BY <2>2, <2>3
<1>5. ASSUME UNCHANGED userRoles
      PROVE  \A u \in Users : WasAdmin(u) => WasAdmin(u)'
  BY <1>2, <1>5
<1> QED
  BY <1>3, <1>4, <1>5 DEF Steps, Looks, Watches, Disables, SetsPassword, BeginsToReplace, Tells

LEMMA AdministeringStep ==
    ASSUME Typed, Acting, Administering, NEW r \in Requests, Steps(r)
    PROVE  Administering'
<1>0. /\ OthersStay(r) /\ changes \subseteq changes'
      /\ \A u \in Users : users[u] # "absent" => users'[u] # "absent"
      /\ \A u \in Users : WasAdmin(u) => WasAdmin(u)'
  <2>1. OthersStay(r)
    BY DEF Steps, Looks, Watches, Creates, Disables, SetsPassword, BeginsToReplace, Replaces,
       Tells, Written
  <2> QED
    BY <2>1, NothingVanishes, AdminsStay
<1>1. requests[r].at \in {"allowed", "replacing"} =>
        requests[r].actor \in Users /\ WasAdmin(requests[r].actor)
  BY DEF Administering, Acting
\* One becomes an administrator who has an account by then.
<1>2. \A u \in Users : users'[u] = "absent" => ~WasAdmin(u)'
  <2> SUFFICES ASSUME NEW u \in Users, users'[u] = "absent"
               PROVE  ~WasAdmin(u)'
    OBVIOUS
  <2>1. users[u] = "absent" /\ ~WasAdmin(u)
    BY <1>0 DEF Administering
  <2>2. userRoles'[u] = userRoles[u] /\ ~Assigned(u)'
    <3>1. ASSUME NEW event \in Events, NEW target \in Users, Written(r, event, target),
                 event # "role_assigned" \/ target # u
          PROVE  ~Assigned(u)'
      <4> DEFINE new == Change(event, requests[r].actor, target, r)
      <4>1. changes' = changes \union {new}
        BY <3>1 DEF Written
      <4>2. ~(new.event = "role_assigned" /\ new.target = u)
        BY <3>1 DEF Change
      <4> HIDE DEF new
      <4> QED
        BY <2>1, <4>1, <4>2 DEF WasAdmin, Assigned
    <3>2. ASSUME UNCHANGED <<userRoles, changes>>
          PROVE  userRoles'[u] = userRoles[u] /\ ~Assigned(u)'
      BY <2>1, <3>2 DEF WasAdmin, Assigned
    <3>3. ASSUME NEW target \in Users, NEW role \in Roles, Creates(r, target, role)
          PROVE  userRoles'[u] = userRoles[u] /\ ~Assigned(u)'
      <4>1. u # target
        BY <2>1, <3>3 DEF Creates, Typed
      <4> QED
        BY <3>1, <3>3, <4>1 DEF Creates, Typed, Events
    <3>4. ASSUME NEW target \in Users, \/ Disables(r, target)
                                       \/ SetsPassword(r, "password_reset", target)
                                       \/ SetsPassword(r, "password_changed", target)
          PROVE  userRoles'[u] = userRoles[u] /\ ~Assigned(u)'
      BY <3>1, <3>4 DEF Disables, SetsPassword, Events
    <3>5. CASE Replaces(r)
      <4>1. requests[r].target \in Users /\ requests[r].target # u
        BY <2>1, <3>5 DEF Replaces, Acting
      <4> QED
        BY <3>1, <3>5, <4>1 DEF Replaces, Typed, Events
    <3> QED
      BY <3>2, <3>3, <3>4, <3>5 DEF Steps, Looks, Watches, BeginsToReplace, Tells
  <2> QED
    BY <2>1, <2>2 DEF WasAdmin, IsAdmin, RolesForUser
<1>3. (\E u \in Users : WasAdmin(u)') \/ \A u \in Users : users'[u] = "absent"
  <2>1. CASE \E u \in Users : WasAdmin(u)
    BY <1>0, <2>1
  <2>2. CASE ~\E u \in Users : WasAdmin(u)
    <3>1. requests[r].at \notin {"allowed", "replacing"}
      BY <1>1, <2>2
    <3>2. \A u \in Users : users[u] = "absent"
      BY <2>2 DEF Administering
    <3>3. ASSUME UNCHANGED users
          PROVE  \A u \in Users : users'[u] = "absent"
      BY <3>2, <3>3
    <3>4. ASSUME NEW target \in Users, NEW role \in Roles, Creates(r, target, role)
          PROVE  \E u \in Users : WasAdmin(u)'
      <4>1. role = "system_admin"
            /\ userRoles' = [userRoles EXCEPT ![target] = {[role |-> role, by |-> r]}]
        BY <3>1, <3>4 DEF Creates
      <4>2. userRoles'[target] = {[role |-> role, by |-> r]}
        BY <4>1 DEF Typed
      <4>3. RolesForUser(target)' = {role}
        BY <4>2 DEF RolesForUser
      <4> QED
        BY <4>1, <4>3 DEF WasAdmin, IsAdmin
    <3> QED
      BY <3>1, <3>3, <3>4 DEF Steps, Looks, Watches, Disables, SetsPassword, BeginsToReplace,
         Replaces, Tells
  <2> QED
    BY <2>1, <2>2
<1>4. ASSUME NEW q \in Requests,
             \/ requests'[q].at = "resolved" /\ CameAsAdmin(q)'
             \/ requests'[q].at \in {"allowed", "replacing"}
      PROVE  WasAdmin(requests[q].actor)'
  <2>1. CASE q # r
    BY <1>0, <1>4, <2>1 DEF OthersStay, Administering, Acting, CameAsAdmin
  <2>2. CASE q = r
    <3>1. \/ FindsRoles(r) /\ CameAsAdmin(r)'
          \/ IsAllowed(r)
          \/ \E target \in Users : BeginsToReplace(r, target)
      BY <1>4, <2>2 DEF Steps, Looks, Ends, Finished, LogsIn, Comes, FindsActive, FindsRoles,
         FindsNoAdmin, FromTo, Creates, Disables, SetsPassword, Replaces, Tells, Written
    <3>2. /\ requests'[r].actor = requests[r].actor
          /\ requests[r].actor \in Users /\ WasAdmin(requests[r].actor)
      <4>1. CASE FindsRoles(r) /\ CameAsAdmin(r)'
        BY <4>1 DEF FindsRoles, FromTo, SameActor, Acting, WasAdmin
      <4>2. CASE IsAllowed(r)
        BY <4>2 DEF IsAllowed, FromTo, SameActor, Acting, Administering
      <4>3. CASE \E target \in Users : BeginsToReplace(r, target)
        BY <1>1, <4>3 DEF BeginsToReplace, FromTo, SameActor
      <4> QED
        BY <3>1, <4>1, <4>2, <4>3
    <3>3. \A u \in Users : u = requests'[r].actor /\ WasAdmin(u) => WasAdmin(requests[r].actor)'
      BY <1>0 DEF WasAdmin, IsAdmin, RolesForUser, Assigned
    <3> QED
      BY <2>2, <3>2, <3>3
  <2> QED
    BY <2>1, <2>2
\* What administrators alone write.
<1>5. ASSUME NEW change \in changes', change.event \in {"user_disabled", "role_assigned"}
      PROVE  change.actor \in Users /\ WasAdmin(change.actor)
  <2>1. CASE change \in changes
    BY <1>5, <2>1 DEF Administering
  <2>2. CASE change \notin changes
    <3>1. ASSUME NEW event, NEW target, Written(r, event, target)
          PROVE  change = Change(event, requests[r].actor, target, r)
      BY <1>5, <2>2, <3>1 DEF Written
    <3>2. ASSUME NEW target \in Users, NEW role \in Roles, Creates(r, target, role)
          PROVE  FALSE
      BY <1>5, <3>1, <3>2 DEF Creates, Change
    <3>3. ASSUME NEW target \in Users, \/ SetsPassword(r, "password_reset", target)
                                       \/ SetsPassword(r, "password_changed", target)
          PROVE  FALSE
      BY <1>5, <3>1, <3>3 DEF SetsPassword, Change
    <3>4. /\ requests[r].at \in {"allowed", "replacing"}
          /\ change.actor = requests[r].actor
      <4>1. \/ \E target \in Users : Disables(r, target)
            \/ Replaces(r)
        BY <1>5, <2>2, <3>2, <3>3 DEF Steps, Looks, Watches, BeginsToReplace, Tells
      <4> QED
        BY <3>1, <4>1 DEF Disables, Replaces, Change
    <3> QED
      BY <1>1, <3>4
  <2> QED
    BY <2>1, <2>2
<1>6. \A u \in Users : users'[u] = "disabled" =>
        \E change \in changes' : change.event = "user_disabled" /\ change.target = u
  <2>1. \A u \in Users : users[u] = "disabled" =>
          \E change \in changes' : change.event = "user_disabled" /\ change.target = u
    BY <1>0 DEF Administering
  <2>2. ASSUME NEW target \in Users, Disables(r, target)
        PROVE  \E change \in changes' : change.event = "user_disabled" /\ change.target = target
    <3> DEFINE new == Change("user_disabled", requests[r].actor, target, r)
    <3>1. new \in changes' /\ new.event = "user_disabled" /\ new.target = target
      BY <2>2 DEF Disables, Written, Change
    <3> HIDE DEF new
    <3> QED
      BY <3>1
  <2>3. ASSUME NEW u \in Users, users'[u] = "disabled", users[u] # "disabled"
        PROVE  Disables(r, u)
    BY <2>3 DEF Steps, Looks, Watches, Creates, Disables, SetsPassword, BeginsToReplace,
       Replaces, Tells, Typed
  <2> QED
    BY <2>1, <2>2, <2>3
<1>7. \A q \in Requests :
        (requests'[q].at = "resolved" /\ CameAsAdmin(q)') \/ requests'[q].at \in {"allowed", "replacing"}
          => WasAdmin(requests[q].actor)'
  BY <1>4
<1> QED
  BY <1>0, <1>2, <1>3, <1>5, <1>6, <1>7 DEF Administering

LEMMA StartingStep ==
    ASSUME Typed, Acting, Administering, Starting, NEW r \in Requests, Steps(r)
    PROVE  Starting'
<1>0. /\ OthersStay(r) /\ changes \subseteq changes'
      /\ \A u \in Users : users[u] # "absent" => users'[u] # "absent"
  <2>1. OthersStay(r)
    BY DEF Steps, Looks, Watches, Creates, Disables, SetsPassword, BeginsToReplace, Replaces,
       Tells, Written
  <2> QED
    BY <2>1, NothingVanishes
<1> DEFINE Found == \/ users[Root] # "absent"
                    \/ \E u \in Users : Assigned(u)
<1>1. Found => Found'
  BY <1>0, AccountsAssumption DEF Assigned
<1> SUFFICES ASSUME NEW q \in Requests, requests'[q].at = "username"
             PROVE  (\A u \in Users : users'[u] = "absent") \/ Found'
  BY DEF Starting
\* Where there is no account, the bootstrap makes the first one.
<1>2. ASSUME \A u \in Users : users[u] = "absent"
      PROVE  (\A u \in Users : users'[u] = "absent") \/ Found'
  <2>1. requests[r].at \notin {"allowed", "replacing"}
    BY <1>2 DEF Administering, Acting
  <2>2. ASSUME UNCHANGED users
        PROVE  \A u \in Users : users'[u] = "absent"
    BY <1>2, <2>2
  <2>3. ASSUME NEW target \in Users, NEW role \in Roles, Creates(r, target, role)
        PROVE  users'[Root] # "absent"
    BY <2>1, <2>3 DEF Creates, Typed
  <2> QED
    BY <2>1, <2>2, <2>3 DEF Steps, Looks, Watches, Disables, SetsPassword, BeginsToReplace,
       Replaces, Tells
<1>3. CASE requests[q].at = "username"
  BY <1>1, <1>2, <1>3 DEF Starting
<1>4. CASE requests[q].at # "username"
  <2>1. q = r
    BY <1>0, <1>4 DEF OthersStay
  <2>2. FindsNoAdmin(r) /\ UNCHANGED <<users, changes>>
    BY <1>4, <2>1 DEF Steps, Looks, Watches, Ends, Finished, LogsIn, Comes, FindsActive,
       FindsRoles, IsAllowed, FromTo, Creates, Disables, SetsPassword, BeginsToReplace,
       Replaces, Tells, Written
  <2>3. \A u \in Users : WasAdmin(u) => Assigned(u)
    BY <2>2 DEF FindsNoAdmin, HasAnyUserWithRole, WasAdmin
  <2>4. (\A u \in Users : users[u] = "absent") \/ \E u \in Users : Assigned(u)
    BY <2>3 DEF Administering
  <2> QED
    BY <1>1, <1>2, <2>4
<1> QED
  BY <1>3, <1>4

-----------------------------------------------------------------------------
(***************************************************************************)
(* All of it together.                                                     *)
(***************************************************************************)
IInv ==
    /\ TypeOK
    /\ Acting
    /\ Limited
    /\ Audited
    /\ WasActive
    /\ OneRole
    /\ Administering
    /\ Starting

LEMMA InitIInv == Init => IInv
<1> SUFFICES ASSUME Init
             PROVE  IInv
  OBVIOUS
<1>1. \A r \in Requests : requests[r].at = "idle"
  BY DEF Init, Idle
<1>2. PICK roles \in [Users -> Roles] :
        userRoles = [u \in Users |-> IF users[u] = "absent" THEN {}
                                    ELSE {[role |-> roles[u], by |-> Nobody]}]
  BY DEF Init
<1>3. userRoles \in [Users -> SUBSET Rows]
  BY <1>2 DEF Rows
<1>4. Limited /\ limiter \in [Users -> LimiterRecords]
  BY NoFailuresOK DEF Init, Limited, LimiterOK
<1>5. TypeOK
  BY <1>3, <1>4, IdleTyped DEF Init, TypeOK, LimiterRecords
<1>6. Acting /\ WasActive /\ Starting
  BY <1>1 DEF Acting, WasActive, Starting
<1>7. Audited
  BY <1>1 DEF Init, Audited, Answers, Telling, Truthful
<1>8. OneRole
  <2>1. \A u \in Users : Replacing(u) = {}
    BY <1>1 DEF Replacing
  <2>2. \A u \in Users : \A row1, row2 \in userRoles[u] : row1 = row2
    BY <1>2
  <2> QED
    BY <2>1, <2>2 DEF OneRole, OneRow
<1>9. Administering
  <2>1. \A u \in Users : WasAdmin(u) <=> IsAdmin(u)
    BY DEF Init, WasAdmin, Assigned
  <2>2. \A u \in Users : users[u] = "absent" => ~IsAdmin(u)
    BY <1>2 DEF IsAdmin, RolesForUser
  <2> QED
    BY <1>1, <2>1, <2>2 DEF Init, Administering, HasAnyUserWithRole
<1> QED
  BY <1>4, <1>5, <1>6, <1>7, <1>8, <1>9 DEF IInv

LEMMA StepIInv == IInv /\ [Next]_vars => IInv'
<1> SUFFICES ASSUME IInv, [Next]_vars
             PROVE  IInv'
  OBVIOUS
<1>1. /\ TypeOK' /\ Typed /\ Acting' /\ Limited'
      /\ (\E r \in Requests : Steps(r)) \/ UNCHANGED <<requests, tables>>
  BY NextSteps DEF IInv
<1>2. ASSUME NEW r \in Requests, Steps(r)
      PROVE  Audited' /\ WasActive' /\ OneRole' /\ Administering' /\ Starting'
  BY <1>1, <1>2, AuditedStep, WasActiveStep, OneRoleStep, AdministeringStep, StartingStep
     DEF IInv
<1>3. ASSUME UNCHANGED <<requests, tables>>
      PROVE  Audited' /\ WasActive' /\ OneRole' /\ Administering' /\ Starting'
  <2>1. Audited'
    BY <1>3 DEF IInv, tables, Audited, Answers, Telling, Truthful, ToBeTold
  <2>2. WasActive'
    BY <1>3 DEF IInv, tables, WasActive
  <2>3. OneRole'
    BY <1>3 DEF IInv, tables, OneRole, OneRow, Replacing
  <2>4. Administering' /\ Starting'
    BY <1>3 DEF IInv, tables, Administering, Starting, CameAsAdmin, WasAdmin, Assigned, IsAdmin,
       RolesForUser
  <2> QED
    BY <2>1, <2>2, <2>3, <2>4
<1> QED
  BY <1>1, <1>2, <1>3 DEF IInv

LEMMA InvariantIInv == Spec => []IInv
  BY InitIInv, StepIInv, PTL DEF Spec

-----------------------------------------------------------------------------
(* The variables keep their types. *)
THEOREM TypeCorrect == Spec => []TypeOK
<1>1. IInv => TypeOK
  BY DEF IInv
<1> QED
  BY <1>1, InvariantIInv, PTL

(* A username that is open to another try has fewer than Threshold         *)
(* failures inside the window on it, in whatever order the logins that were *)
(* let in before report their failures, successes and ends of blocks.      *)
THEOREM NoTryAtThreshold == Spec => []NeverOpenAtThreshold
<1>1. IInv => NeverOpenAtThreshold
  <2> SUFFICES ASSUME IInv, NEW u \in Users, limiter[u].left = 0
               PROVE  Cardinality({i \in DOMAIN limiter[u].failures :
                                     limiter[u].failures[i] < Window}) < Threshold
    BY DEF NeverOpenAtThreshold
  <2>1. LimiterOK(limiter[u])
    BY DEF IInv, Limited
  <2>2. \A i \in DOMAIN limiter[u].failures : limiter[u].failures[i] \in Nat
    BY <2>1, FailuresTyped, WindowAges DEF LimiterOK
  <2>3. Counting(limiter[u]) = {i \in DOMAIN limiter[u].failures :
                                  limiter[u].failures[i] < Window}
    BY <2>2 DEF Counting
  <2> QED
    BY <2>1, <2>3 DEF LimiterOK
<1> QED
  BY <1>1, InvariantIInv, PTL

(* Each user whose role changes never overlapped has one role at most.     *)
THEOREM OneRoleEach == Spec => []OneRoleUnlessOverlapped
<1>1. IInv => OneRoleUnlessOverlapped
  <2> SUFFICES ASSUME IInv, NEW u \in Users, u \notin overlapped
               PROVE  Cardinality(RolesForUser(u)) <= 1
    BY DEF OneRoleUnlessOverlapped
  <2>1. \A row1, row2 \in userRoles[u] : row1 = row2
    BY DEF IInv, OneRole, OneRow
  <2>2. CASE userRoles[u] = {}
    <3>1. RolesForUser(u) = {}
      BY <2>2 DEF RolesForUser
    <3> QED
      BY <3>1, FS_EmptySet
  <2>3. ASSUME NEW row \in userRoles[u]
        PROVE  Cardinality(RolesForUser(u)) <= 1
    <3>1. RolesForUser(u) = {row.role}
      BY <2>1 DEF RolesForUser
    <3>2. \A role : Cardinality({role}) = 1
      BY FS_Singleton
    <3> QED
      BY <3>1, <3>2
  <2> QED
    BY <2>2, <2>3
<1> QED
  BY <1>1, InvariantIInv, PTL

(* The audit invents no change, and lacks none that was answered with      *)
(* success.                                                                *)
THEOREM AuditIsTrue == Spec => []AuditTellsTheTruth
<1>1. IInv => AuditTellsTheTruth
  BY DEF IInv, Audited, Answers, Truthful, AuditTellsTheTruth
<1> QED
  BY <1>1, InvariantIInv, PTL

(* No request of an account that was disabled before it came writes        *)
(* anything to an account.                                                 *)
THEOREM DisabledAreRefused == Spec => DisabledMeansRefused
<1> DEFINE Refused == \A r \in Requests : changes' # changes /\ requests[r] # requests'[r] =>
                        requests[r].at = "username" \/ requests[r].wasActive
<1>1. IInv /\ [Next]_vars => [Refused]_vars
  <2> SUFFICES ASSUME IInv, [Next]_vars, NEW r \in Requests,
                      changes' # changes, requests[r] # requests'[r]
               PROVE  requests[r].at = "username" \/ requests[r].wasActive
    OBVIOUS
  <2>1. PICK q \in Requests : Steps(q)
    BY NextSteps DEF IInv, tables
  <2>2. OthersStay(q)
    BY <2>1 DEF Steps, Looks, Watches, Creates, Disables, SetsPassword, BeginsToReplace,
       Replaces, Tells, Written
  <2>3. q = r
    BY <2>2 DEF OthersStay
  <2>4. requests[r].at \in {"username", "allowed", "resolved", "mustChange", "replacing"}
    BY <2>1, <2>3 DEF Steps, Looks, Watches, Creates, Disables, SetsPassword,
       BeginsToReplace, Replaces, Tells
  <2> QED
    BY <2>4 DEF IInv, WasActive
<1> QED
  BY <1>1, InvariantIInv, PTL DEF Spec, DisabledMeansRefused

(* The bootstrap adds its administrator to a system without accounts, or    *)
(* to one where roles were assigned.                                       *)
THEOREM BootstrapComesFirst == Spec => BootstrapIsTheFirst
<1> DEFINE First == (\E r \in Requests : requests[r].at = "username" /\ requests'[r].at = "audit") =>
                      \/ \A u \in Users : users[u] = "absent"
                      \/ \E change \in changes : change.event = "role_assigned"
<1>1. IInv /\ [Next]_vars => [First]_vars
  <2> SUFFICES ASSUME IInv, [Next]_vars,
                      NEW r \in Requests, requests[r].at = "username", requests'[r].at = "audit"
               PROVE  \/ \A u \in Users : users[u] = "absent"
                      \/ \E change \in changes : change.event = "role_assigned"
    OBVIOUS
  <2>1. PICK q \in Requests : Steps(q)
    BY NextSteps DEF IInv
  <2>2. OthersStay(q)
    BY <2>1 DEF Steps, Looks, Watches, Creates, Disables, SetsPassword, BeginsToReplace,
       Replaces, Tells, Written
  <2>3. q = r
    BY <2>2 DEF OthersStay
  <2>4. users[Root] = "absent"
    BY <2>1, <2>3 DEF Steps, Looks, Ends, Finished, LogsIn, Comes, FindsActive, FindsRoles,
       IsAllowed, FindsNoAdmin, FromTo, Creates, Disables, SetsPassword, BeginsToReplace,
       Replaces, Tells
  <2> QED
    BY <2>4 DEF IInv, Starting, Assigned
<1> QED
  BY <1>1, InvariantIInv, PTL DEF Spec, BootstrapIsTheFirst

(* Where accounts are left without an active administrator, those who were *)
(* administrators did it to one another: of every one of them there is a   *)
(* change that took it away, and that was another's of them, or its own.   *)
THEOREM OnlyAdministratorsLockOut == Spec => []LockoutIsMutual
<1>1. IInv => LockoutIsMutual
  <2> SUFFICES ASSUME IInv,
                      \E u \in Users : users[u] # "absent",
                      \A u \in Users : ~(users[u] = "active" /\ IsAdmin(u))
               PROVE  \E S \in (SUBSET Users) \ {{}} :
                        \A u \in S : \E change \in changes :
                          /\ change.event \in {"user_disabled", "role_assigned"}
                          /\ change.target = u /\ change.actor \in S
    BY DEF LockoutIsMutual
  <2> DEFINE S == {u \in Users : WasAdmin(u)}
  <2>1. S \in (SUBSET Users) \ {{}}
    BY DEF IInv, Administering
  <2>2. ASSUME NEW u \in S
        PROVE  \E change \in changes :
                 change.event \in {"user_disabled", "role_assigned"} /\ change.target = u
    <3>1. CASE Assigned(u)
      BY <3>1 DEF Assigned
    <3>2. CASE IsAdmin(u)
      <4>1. users[u] # "absent" /\ users[u] # "active"
        BY <3>2 DEF IInv, Administering
      <4>2. users[u] = "disabled"
        BY <4>1 DEF IInv, TypeOK
      <4> QED
        BY <4>2 DEF IInv, Administering
    <3> QED
      BY <3>1, <3>2 DEF WasAdmin
  <2>3. \A change \in changes :
          change.event \in {"user_disabled", "role_assigned"} => change.actor \in S
    BY DEF IInv, Administering
  <2> HIDE DEF S
  <2>4. \A u \in S : \E change \in changes :
          /\ change.event \in {"user_disabled", "role_assigned"}
          /\ change.target = u /\ change.actor \in S
    BY <2>2, <2>3
  <2> WITNESS S \in (SUBSET Users) \ {{}}
  <2> QED
    BY <2>4
<1> QED
  BY <1>1, InvariantIInv, PTL

=============================================================================
