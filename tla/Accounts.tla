-------------------------------- MODULE Accounts --------------------------------
(***************************************************************************)
(* Accounts, logins and their management (internal/auth): the limiter of   *)
(* failed logins (limiter.go, authenticator.go), the principal of a        *)
(* request (session.go, middleware.go, http.go), the access decision       *)
(* (access.go, rbac.go), what an administrator does to an account          *)
(* (management.go, postgres_store.go) and the first administrator          *)
(* (bootstrap.go).                                                         *)
(*                                                                         *)
(* Requests run concurrently.  Each call of the store is a step of its own *)
(* and may fail; the limiter is under its mutex.  A request's parameters   *)
(* are chosen where they are first looked at.                              *)
(*                                                                         *)
(* Tokens: a token only names its user, everything else is read again.  An *)
(* account has one from its last login; that it may have expired is one of *)
(* the ways a request is refused.                                          *)
(***************************************************************************)
EXTENDS Naturals, FiniteSets

CONSTANTS Users,      \* the usernames, an account has one for life
          Root,       \* the one in the bootstrap configuration
          Requests,   \* bound: each of them runs once
          Threshold,  \* failures that block a username
          Window,     \* and for how long they count and it stays blocked
          Granted,    \* external: whom data_security_acl_grants lets manage
          Nobody      \* no user and no request: the bootstrap, earlier rows

ASSUME AccountsAssumption ==
    /\ Root \in Users /\ Granted \subseteq Users
    /\ Nobody \notin Requests \union Users
    /\ Threshold \in Nat \ {0} /\ Window \in Nat \ {0}

VARIABLES users,       \* absent, active or disabled
          mustChange,  \* must_change_password
          userRoles,   \* the rows of user_roles
          limiter,     \* WindowLoginFailureLimiter
          requests,    \* where each request is, and what it has read
          audits,      \* account_security_audit_logs
          changes,     \* history: what was written to accounts
          overlapped   \* history: users with two role changes at a time

vars == <<users, mustChange, userRoles, limiter, requests, audits, changes, overlapped>>
tables == <<users, mustChange, userRoles, audits, changes, overlapped>>

Roles == {"system_admin", "secretary"}
Rows == [role : Roles, by : Requests \union {Nobody}]
RolesForUser(u) == {row.role : row \in userRoles[u]}
IsAdmin(u) == "system_admin" \in RolesForUser(u)
HasAnyUserWithRole == \E u \in Users : IsAdmin(u)

Idle == [at |-> "idle", actor |-> Nobody, target |-> Nobody, roles |-> {}, rows |-> {},
         role |-> "secretary", event |-> "", wasActive |-> FALSE]
Answered(answer) == [Idle EXCEPT !.at = answer]

Goes(r, request) == requests' = [requests EXCEPT ![r] = request]
Moves(r, at) == requests' = [requests EXCEPT ![r].at = at]
Answer(r, answer) == Goes(r, Answered(answer))

\* The age of each failure that is remembered, by the login it was of.
NoFailures == [failures |-> [q \in {} |-> 0], blocked |-> FALSE, left |-> 0]

Init ==
    /\ users \in [Users -> {"absent", "active"}]
    /\ mustChange = [u \in Users |-> FALSE]
    /\ \E roles \in [Users -> Roles] :
         userRoles = [u \in Users |-> IF users[u] = "absent" THEN {}
                                     ELSE {[role |-> roles[u], by |-> Nobody]}]
    /\ HasAnyUserWithRole \/ \A u \in Users : users[u] = "absent"
    /\ limiter = [u \in Users |-> NoFailures]
    /\ requests = [r \in Requests |-> Idle]
    /\ audits = {}
    /\ changes = {}
    /\ overlapped = {}

-----------------------------------------------------------------------------
(* Login: Authenticator.Authenticate. *)

StartLogin(r, u) ==
    /\ requests[r].at = "idle"
    /\ Goes(r, [Idle EXCEPT !.at = "check", !.actor = u, !.target = u])
    /\ UNCHANGED <<limiter, tables>>

\* Audits of one's own doing; each may fail and nobody hears of it.
MayAudit(r, events, u) ==
    \E written \in SUBSET events :
      audits' = audits \union {[event |-> event, actor |-> u, target |-> u, by |-> r] : event \in written}

\* Blocked: a block that is over is removed with its failures.
Blocked(r) ==
    /\ requests[r].at = "check"
    /\ LET u == requests[r].actor IN
       IF limiter[u].blocked /\ limiter[u].left > 0
       THEN /\ MayAudit(r, {"login_blocked"}, u)
            /\ Answer(r, "refused")
            /\ UNCHANGED limiter
       ELSE /\ Moves(r, "lookup")
            /\ limiter' = [limiter EXCEPT ![u] = IF @.blocked THEN NoFailures ELSE @]
            /\ UNCHANGED audits
    /\ UNCHANGED <<users, mustChange, userRoles, changes, overlapped>>

\* UserByUsername and Verify: the password is right or not.
Verify(r) ==
    /\ requests[r].at = "lookup"
    /\ \E right \in BOOLEAN :
         Moves(r, IF users[requests[r].actor] = "active" /\ right THEN "right" ELSE "wrong")
    /\ UNCHANGED <<limiter, tables>>

\* Mutation: one failure more is let through.
RecordFailureLate(r) ==
    /\ requests[r].at = "wrong"
    /\ LET u == requests[r].actor
           failures == limiter[u].failures
           kept == {q \in DOMAIN failures : failures[q] <= Window} \union {r}
           full == Cardinality(kept) > Threshold
       IN
       /\ limiter' = [limiter EXCEPT ![u] =
             [failures |-> [q \in kept |-> IF q = r THEN 0 ELSE failures[q]],
              blocked |-> @.blocked \/ full, left |-> IF full THEN Window ELSE @.left]]
       /\ MayAudit(r, {"login_failed"} \union (IF full THEN {"login_blocked"} ELSE {}), u)
    /\ Answer(r, "refused")
    /\ UNCHANGED <<users, mustChange, userRoles, changes, overlapped>>

RecordFailure(r) ==
    /\ requests[r].at = "wrong"
    /\ LET u == requests[r].actor
           failures == limiter[u].failures
           kept == {q \in DOMAIN failures : failures[q] <= Window} \union {r}
           full == Cardinality(kept) >= Threshold
       IN
       /\ limiter' = [limiter EXCEPT ![u] =
             [failures |-> [q \in kept |-> IF q = r THEN 0 ELSE failures[q]],
              blocked |-> @.blocked \/ full, left |-> IF full THEN Window ELSE @.left]]
       /\ MayAudit(r, {"login_failed"} \union (IF full THEN {"login_blocked"} ELSE {}), u)
    /\ Answer(r, "refused")
    /\ UNCHANGED <<users, mustChange, userRoles, changes, overlapped>>

\* RecordSuccess, before the roles are read: that may fail.
RecordSuccess(r) ==
    /\ requests[r].at = "right"
    /\ limiter' = [limiter EXCEPT ![requests[r].actor] = NoFailures]
    /\ \E answer \in {"ok", "error"} : Answer(r, answer)
    /\ UNCHANGED tables

Ages == 0..(Window + 1)

Tick ==
    /\ \E u \in Users : limiter[u].left > 0 \/ \E i \in DOMAIN limiter[u].failures : limiter[u].failures[i] <= Window
    /\ limiter' = [u \in Users |->
          [failures |-> [i \in DOMAIN limiter[u].failures |->
               IF limiter[u].failures[i] <= Window THEN limiter[u].failures[i] + 1 ELSE Window + 1],
           blocked |-> limiter[u].blocked,
           left |-> IF limiter[u].left > 0 THEN limiter[u].left - 1 ELSE 0]]
    /\ UNCHANGED <<requests, tables>>

-----------------------------------------------------------------------------
(* The principal of a request and the access decision. *)

StartRequest(r, u) ==
    /\ requests[r].at = "idle"
    /\ users[u] # "absent"
    /\ Goes(r, [Idle EXCEPT !.at = "user", !.actor = u, !.wasActive = users[u] = "active"])
    /\ UNCHANGED <<limiter, tables>>

\* Mutation: the token says that its user is active.
UserByIDFromToken(r) ==
    /\ requests[r].at = "user"
    /\ IF users[requests[r].actor] # "absent"
       THEN Moves(r, IF mustChange[requests[r].actor] THEN "mustChangeRoles" ELSE "roles")
       ELSE Answer(r, "refused")
    /\ UNCHANGED <<limiter, tables>>

\* UserByID, whose must_change_password is part of the principal.
UserByID(r) ==
    /\ requests[r].at = "user"
    /\ IF users[requests[r].actor] = "active"
       THEN Moves(r, IF mustChange[requests[r].actor] THEN "mustChangeRoles" ELSE "roles")
       ELSE Answer(r, "refused")
    /\ UNCHANGED <<limiter, tables>>

\* RolesForUser, a query of its own.
ResolveRoles(r) ==
    /\ requests[r].at \in {"roles", "mustChangeRoles"}
    /\ Goes(r, [requests[r] EXCEPT
          !.at = IF @ = "roles" THEN "resolved" ELSE "mustChange",
          !.roles = RolesForUser(requests[r].actor)])
    /\ UNCHANGED <<limiter, tables>>

\* Mutation: who may manage is left to the caller.
DecideNothing(r) ==
    /\ requests[r].at = "resolved"
    /\ Moves(r, "allowed")
    /\ UNCHANGED <<limiter, tables>>

\* PostgresDataACL: a grant of the user's own, or one of a role that the user
\* has by now.  It does not look at is_active.
AllowedByACL(u) == u \in Granted \/ IsAdmin(u)

\* Decide for user.manage: the roles the principal came with, then the ACL.
Decide(r) ==
    /\ requests[r].at = "resolved"
    /\ IF "system_admin" \in requests[r].roles /\ AllowedByACL(requests[r].actor)
       THEN /\ Moves(r, "allowed")
            /\ UNCHANGED audits
       ELSE /\ Answer(r, "refused")
            /\ MayAudit(r, {"authorization_denied"}, requests[r].actor)
    /\ UNCHANGED <<limiter, users, mustChange, userRoles, changes, overlapped>>

-----------------------------------------------------------------------------
(* What a request does to an account. *)

Change(event, actor, target, r) == [event |-> event, actor |-> actor, target |-> target, by |-> r]

\* The write is done, the audit is not.
Wrote(r, event, target) ==
    /\ Goes(r, [Idle EXCEPT !.at = "audit", !.actor = requests[r].actor,
                            !.target = target, !.event = event])
    /\ changes' = changes \union {Change(event, requests[r].actor, target, r)}
    /\ UNCHANGED <<limiter, audits>>

\* requireUserManage has passed.
MayManage(r) == requests[r].at = "allowed"

\* No permission is asked for, and a user who must change it may.
MayChangeOwnPassword(r) == requests[r].at \in {"resolved", "mustChange"}

\* The username is UNIQUE.  The new user has to change the password.
CreateUser(r, target, role) ==
    /\ MayManage(r)
    /\ users[target] = "absent"
    /\ users' = [users EXCEPT ![target] = "active"]
    /\ mustChange' = [mustChange EXCEPT ![target] = TRUE]
    /\ userRoles' = [userRoles EXCEPT ![target] = {[role |-> role, by |-> r]}]
    /\ Wrote(r, "user_created", target)
    /\ UNCHANGED overlapped

DisableUser(r, target) ==
    /\ MayManage(r)
    /\ users[target] # "absent"
    /\ users' = [users EXCEPT ![target] = "disabled"]
    /\ Wrote(r, "user_disabled", target)
    /\ UNCHANGED <<mustChange, userRoles, overlapped>>

ResetPassword(r, target) ==
    /\ MayManage(r)
    /\ users[target] # "absent"
    /\ mustChange' = [mustChange EXCEPT ![target] = TRUE]
    /\ Wrote(r, "password_reset", target)
    /\ UNCHANGED <<users, userRoles, overlapped>>

ChangeOwnPassword(r) ==
    /\ MayChangeOwnPassword(r)
    /\ mustChange' = [mustChange EXCEPT ![requests[r].actor] = FALSE]
    /\ Wrote(r, "password_changed", requests[r].actor)
    /\ UNCHANGED <<users, userRoles, overlapped>>

Replacing(target) == {r \in Requests : requests[r].at = "replacing" /\ requests[r].target = target}

\* AssignRole up to the DELETE of SetUserRoles: it takes the rows that are
\* committed then.  A row that another transaction is deleting makes it
\* wait, and is left to that one.
DeleteRoles(r, target, role) ==
    /\ MayManage(r)
    /\ users[target] # "absent"
    /\ Goes(r, [requests[r] EXCEPT !.at = "replacing", !.target = target, !.role = role,
                                   !.rows = userRoles[target]])
    /\ overlapped' = IF Replacing(target) = {} THEN overlapped ELSE overlapped \union {target}
    /\ UNCHANGED <<limiter, users, mustChange, userRoles, audits, changes>>

\* Mutation: the new role comes beside the old ones.
InsertRoleOnly(r) ==
    /\ requests[r].at = "replacing"
    /\ LET target == requests[r].target IN
       /\ userRoles' = [userRoles EXCEPT ![target] =
             IF requests[r].role \in {row.role : row \in @} THEN @
             ELSE @ \union {[role |-> requests[r].role, by |-> r]}]
       /\ Wrote(r, "role_assigned", target)
    /\ UNCHANGED <<users, mustChange, overlapped>>

\* INSERT ... ON CONFLICT DO NOTHING, and COMMIT.
InsertRole(r) ==
    /\ requests[r].at = "replacing"
    /\ LET target == requests[r].target
           left == userRoles[target] \ requests[r].rows
       IN
       /\ userRoles' = [userRoles EXCEPT ![target] =
             IF requests[r].role \in {row.role : row \in left} THEN left
             ELSE left \union {[role |-> requests[r].role, by |-> r]}]
       /\ Wrote(r, "role_assigned", target)
    /\ UNCHANGED <<users, mustChange, overlapped>>

\* Mutation: the failure of an audit stays unsaid.
AppendAuditQuietly(r) ==
    /\ requests[r].at = "audit"
    /\ audits' \in {audits, audits \union
         {Change(requests[r].event, requests[r].actor, requests[r].target, r)}}
    /\ Answer(r, "ok")
    /\ UNCHANGED <<limiter, users, mustChange, userRoles, changes, overlapped>>

AppendAudit(r) ==
    /\ requests[r].at = "audit"
    /\ audits' = audits \union
         {Change(requests[r].event, requests[r].actor, requests[r].target, r)}
    /\ Answer(r, "ok")
    /\ UNCHANGED <<limiter, users, mustChange, userRoles, changes, overlapped>>

\* A call of the store fails, the token or the body is no good, the user is
\* not found or exists, the policy refuses the password; a transaction is
\* rolled back.
Fails(r) ==
    /\ requests[r].at \in {"user", "roles", "mustChangeRoles", "resolved", "mustChange",
                           "allowed", "replacing", "audit", "exists", "username"}
    /\ Answer(r, "error")
    /\ UNCHANGED <<limiter, tables>>

-----------------------------------------------------------------------------
(* BootstrapInitialAdmin, at the start of a process. *)

StartBootstrap(r) ==
    /\ requests[r].at = "idle"
    /\ Goes(r, [Idle EXCEPT !.at = "exists"])
    /\ UNCHANGED <<limiter, tables>>

\* Mutation: an administrator is created wherever the username is free.
AdminExistsSkipped(r) ==
    /\ requests[r].at = "exists"
    /\ IF users[Root] # "absent" THEN Answer(r, "ok") ELSE Moves(r, "username")
    /\ UNCHANGED <<limiter, tables>>

AdminExists(r) ==
    /\ requests[r].at = "exists"
    /\ IF HasAnyUserWithRole THEN Answer(r, "ok") ELSE Moves(r, "username")
    /\ UNCHANGED <<limiter, tables>>

\* UserByUsername, and CreateUser in one: Fails is the one of them that
\* finds the username taken after all.
CreateAdmin(r) ==
    /\ requests[r].at = "username"
    /\ IF users[Root] # "absent"
       THEN /\ Answer(r, "ok")
            /\ UNCHANGED <<users, mustChange, userRoles, limiter, audits, changes>>
       ELSE /\ users' = [users EXCEPT ![Root] = "active"]
            /\ mustChange' = [mustChange EXCEPT ![Root] = TRUE]
            /\ userRoles' = [userRoles EXCEPT ![Root] = {[role |-> "system_admin", by |-> r]}]
            /\ Wrote(r, "user_created", Root)
    /\ UNCHANGED overlapped

-----------------------------------------------------------------------------
Login(r) ==
    \/ \E u \in Users : StartLogin(r, u)
    \/ Blocked(r) \/ Verify(r) \/ RecordFailure(r) \/ RecordSuccess(r)

Principal(r) ==
    \/ \E u \in Users : StartRequest(r, u)
    \/ UserByID(r) \/ ResolveRoles(r) \/ Decide(r)

Manage(r) ==
    \/ \E target \in Users :
         \/ DisableUser(r, target)
         \/ ResetPassword(r, target)
         \/ \E role \in Roles : CreateUser(r, target, role) \/ DeleteRoles(r, target, role)
    \/ ChangeOwnPassword(r) \/ InsertRole(r) \/ AppendAudit(r) \/ Fails(r)

Bootstrap(r) == StartBootstrap(r) \/ AdminExists(r) \/ CreateAdmin(r)

Next ==
    \/ \E r \in Requests : Login(r) \/ Principal(r) \/ Manage(r) \/ Bootstrap(r)
    \/ Tick

Spec == Init /\ [][Next]_vars

-----------------------------------------------------------------------------
Events == {"user_created", "user_disabled", "role_assigned", "password_reset", "password_changed"}
Entry(events) == [event : events, actor : Users \union {Nobody}, target : Users, by : Requests]

Places == {"idle", "check", "lookup", "right", "wrong", "user", "roles", "mustChangeRoles",
           "resolved", "mustChange", "allowed", "replacing", "audit", "exists", "username",
           "ok", "refused", "error"}
Request == [at : Places, actor : Users \union {Nobody}, target : Users \union {Nobody},
            roles : SUBSET Roles, rows : SUBSET Rows, role : Roles,
            event : Events \union {""}, wasActive : BOOLEAN]

(* The variables keep their types. *)
TypeOK ==
    /\ users \in [Users -> {"absent", "active", "disabled"}]
    /\ mustChange \in [Users -> BOOLEAN]
    /\ userRoles \in [Users -> SUBSET Rows]
    /\ limiter \in [Users -> [failures : UNION {[Q -> Ages] : Q \in SUBSET Requests},
                             blocked : BOOLEAN, left : 0..Window]]
    /\ requests \in [Requests -> Request]
    /\ audits \subseteq Entry(Events \union {"login_failed", "login_blocked", "authorization_denied"})
    /\ changes \subseteq Entry(Events)
    /\ overlapped \subseteq Users

(* A username is never open to another try with Threshold failures inside  *)
(* the window on it, however the logins that were let in before overlap:   *)
(* a success and the end of a block take the failures along, a failure     *)
(* that comes late sets a new block.                                       *)
NeverOpenAtThreshold ==
    \A u \in Users :
      limiter[u].left = 0 =>
        Cardinality({i \in DOMAIN limiter[u].failures : limiter[u].failures[i] < Window}) < Threshold

(* A request of an account that was disabled before it came changes        *)
(* nothing, be its token still good; one that was under way may.           *)
DisabledMeansRefused ==
    [][\A r \in Requests : changes' # changes /\ requests[r] # requests'[r] =>
         requests[r].at = "username" \/ requests[r].wasActive]_vars

(* A user has one role at most, the one assigned last, unless two role     *)
(* changes of that user overlapped: then both may stay, for neither        *)
(* transaction deletes the row that the other inserts.                     *)
OneRoleUnlessOverlapped ==
    \A u \in Users \ overlapped : Cardinality(RolesForUser(u)) <= 1

(* The audit tells of no change that did not happen, and the administrator  *)
(* hears of each change that it lacks: that one's request was answered with *)
(* an error, after the change was made, or is not answered yet.  The        *)
(* specification wants more, that no change be lacking                      *)
(* (openspec/specs/rbac-authorization/spec.md:53); where the audit cannot   *)
(* be written, the change is kept all the same.                             *)
AuditTellsTheTruth ==
    /\ \A entry \in audits : entry.event \in Events => entry \in changes
    /\ \A change \in changes \ audits : requests[change.by].at \in {"audit", "error"}

(* The bootstrap looks for an administrator long before it writes, and      *)
(* other processes may be starting.  Still it adds one to a system that     *)
(* has accounts only when some role was assigned before, for only that can  *)
(* have taken the role from the last administrator; of whom it was assigned *)
(* is not asked.  An administrator that is only disabled counts as one.     *)
BootstrapIsTheFirst ==
    [][(\E r \in Requests : requests[r].at = "username" /\ requests'[r].at = "audit") =>
         \/ \A u \in Users : users[u] = "absent"
         \/ \E change \in changes : change.event = "role_assigned"]_vars

(* Nothing in the code keeps the last administrator.  Where none is left   *)
(* that is active, there are users of whom each was disabled or assigned a *)
(* role by one of them, itself perhaps: a lockout needs such a circle and   *)
(* no one outside of it.  That only administrators get to make these        *)
(* changes is Decide's doing; the formula does not say it again.            *)
LockoutIsMutual ==
    (\E u \in Users : users[u] # "absent") /\ (\A u \in Users : ~(users[u] = "active" /\ IsAdmin(u))) =>
      \E S \in (SUBSET Users) \ {{}} :
        \A u \in S : \E change \in changes :
          change.event \in {"user_disabled", "role_assigned"} /\ change.target = u /\ change.actor \in S
=============================================================================
