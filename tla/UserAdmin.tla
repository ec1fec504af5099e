------------------------------- MODULE UserAdmin -------------------------------
(***************************************************************************)
(* User administration: the write endpoints of src/features/users/routes.rs *)
(* and the service behind them (service.rs), with concurrent requests.       *)
(*                                                                         *)
(* The users, roles and sessions are tables of the idm crate, each call of    *)
(* it one transaction.  A handler awaits between the calls, so other requests *)
(* run in between, and it may be dropped at any of them (a database error, a  *)
(* client that goes away).  What an actor may do is decided by the roles in   *)
(* the access token, a copy made when the token was signed.                  *)
(*                                                                         *)
(* A token that runs out only stops its owner, and a request is judged by the *)
(* claims it came with: expiry is left out.                                  *)
(***************************************************************************)
EXTENDS Naturals, FiniteSets

CONSTANTS
    Users,
    Roles,          \* the role table of idm, the unknown ones included
    Closed,         \* the roles of RoleName, all the read models show
    Perms,
    Grants,         \* the policy, implications expanded
    RolesAtStart,   \* seeded accounts; a user outside its domain is created later
    Assignable,     \* bound: role sets that requests ask for
    Requests,
    Clients,        \* bound: users who sign in
    MaxAccepted     \* bound: requests that pass their first guards

UsersAdmin == "users:admin"

ASSUME AdminAssumption ==
    /\ Closed \subseteq Roles
    /\ UsersAdmin \in Perms
    /\ Grants \in [Roles -> SUBSET Perms]
    /\ DOMAIN RolesAtStart \subseteq Users
    /\ \A u \in DOMAIN RolesAtStart : RolesAtStart[u] \subseteq Roles
    /\ Clients \subseteq Users
    /\ Assignable \subseteq SUBSET Roles
    /\ MaxAccepted \in Nat

Ops == {"create", "update", "delete", "set_roles", "reset_password"}

VARIABLES
    account,    \* "absent", "live" or soft-"deleted"
    roles,
    password,   \* how often it was changed
    identity,   \* how often username or email were changed
    sessions,   \* refresh sessions, with the password they were opened with
    claims,     \* the roles in each user's newest access token
    req,        \* the handlers
    accepted,   \* how many there were
    reset       \* history: the newest password a successful answer announced

idm == <<account, roles, password, identity, sessions>>
vars == <<idm, claims, req, accepted, reset>>

PermsFor(R) == UNION {Grants[x] : x \in R}

Idle == [phase |-> "idle"]

\* A handler between two awaits; found and checked are history: the target's
\* roles when they were guarded and when they were checked.
Handler ==
    [phase : {"guard", "find", "check", "write", "revoke"}, op : Ops,
     actor : Users, claims : SUBSET Roles, target : Users, new : SUBSET Roles,
     gen : Nat, found : SUBSET Roles, checked : SUBSET Roles]

Init ==
    /\ account = [u \in Users |-> IF u \in DOMAIN RolesAtStart THEN "live" ELSE "absent"]
    /\ roles = [u \in Users |-> IF u \in DOMAIN RolesAtStart THEN RolesAtStart[u] ELSE {}]
    /\ password = [u \in Users |-> 0]
    /\ identity = [u \in Users |-> 0]
    /\ sessions = {}
    /\ claims = [u \in Users |-> {}]
    /\ req = [r \in Requests |-> Idle]
    /\ accepted = 0
    /\ reset = [u \in Users |-> 0]

-------------------------------------------------------------------------------
(* Tokens.                                                                   *)

Login(u) ==
    /\ account[u] = "live"
    /\ sessions' = sessions \cup {[user |-> u, pw |-> password[u]]}
    /\ claims' = [claims EXCEPT ![u] = roles[u]]
    /\ UNCHANGED <<account, roles, password, identity, req, accepted, reset>>

\* The new session inherits the old one's standing: no password is asked for.
Refresh(u) ==
    /\ account[u] = "live"
    /\ \E s \in sessions : s.user = u
    /\ claims' = [claims EXCEPT ![u] = roles[u]]
    /\ UNCHANGED <<idm, req, accepted, reset>>

\* DELETE /auth/me of anybody who is signed in, administrators included.
DeleteMe(u) ==
    /\ account[u] = "live"
    /\ claims[u] # {}
    /\ account' = [account EXCEPT ![u] = "deleted"]
    /\ UNCHANGED <<roles, password, identity, sessions, claims, req, accepted, reset>>

-------------------------------------------------------------------------------
(* The guards of routes.rs.                                                  *)

\* assert_no_escalation: every permission of these roles is in the token.
NoEscalation(granter, granted) == PermsFor(granted) \subseteq PermsFor(granter)

NotSelf(actor, target) == actor # target

\* Mutant: the actor's own roles are like any others.
SelfKeepsAdminForgotten(actor, target, new) == TRUE

SelfKeepsAdmin(actor, target, new) ==
    actor = target => UsersAdmin \in PermsFor(new)

\* Mutant: the target's roles as the read model shows them.
TargetRolesLossy(t) == roles[t] \cap Closed

\* raw_role_names: the target's roles, not cut down to the closed set.
TargetRoles(t) == roles[t]

\* Mutant: set_roles judges the roles it grants only.
TargetGuardForgotten(h) ==
    h.op # "set_roles" => NoEscalation(h.claims, TargetRoles(h.target))

TargetGuard(h) == NoEscalation(h.claims, TargetRoles(h.target))

Goto(r, phase) == req' = [req EXCEPT ![r].phase = phase]

Done(r) == req' = [req EXCEPT ![r] = Idle]

\* The gate of the admin group (require_admin_login) and that of the endpoints.
Administers(granter) == {"admin:login", UsersAdmin} \subseteq PermsFor(granter)

\* The gates, and what can be judged without the target.
Accept(r, op, actor, target, new) ==
    /\ req[r] = Idle
    /\ accepted < MaxAccepted
    /\ accepted' = accepted + 1
    /\ Administers(claims[actor])
    /\ op = "delete" => NotSelf(actor, target)
    /\ op \in {"create", "set_roles"} => NoEscalation(claims[actor], new)
    /\ req' = [req EXCEPT ![r] =
        [phase |-> IF op = "create" THEN "write" ELSE "guard", op |-> op,
         actor |-> actor, claims |-> claims[actor], target |-> target,
         new |-> new, gen |-> 0, found |-> {}, checked |-> {}]]
    /\ UNCHANGED <<idm, claims, reset>>

\* The id of a new account is drawn by the insert; any absent one will do.
CreateUser(r) ==
    \E a \in Users, t \in Users, new \in Assignable :
        account[t] = "absent" /\ Accept(r, "create", a, t, new)

SetUserRoles(r) ==
    \E a \in Users, t \in Users, new \in Assignable : Accept(r, "set_roles", a, t, new)

OtherRequest(r) ==
    \E op \in {"update", "delete", "reset_password"}, a \in Users, t \in Users :
        Accept(r, op, a, t, {})

AfterGuard(op) == IF op \in {"set_roles", "reset_password"} THEN "find" ELSE "write"

\* target_role_names finds the account and then reads its roles.  One step: a
\* deletion between the two reads is seen again by every call that follows.
Guard(r) ==
    LET h == req[r]
    IN  /\ h.phase = "guard"
        /\ IF /\ account[h.target] = "live"
              /\ TargetGuard(h)
              /\ h.op = "set_roles" => SelfKeepsAdmin(h.actor, h.target, h.new)
           THEN req' = [req EXCEPT ![r].phase = AfterGuard(h.op),
                                   ![r].found = roles[h.target]]
           ELSE Done(r)
        /\ UNCHANGED <<idm, claims, accepted, reset>>

\* find_by_id at the start of UserAdminService::set_roles and reset_password.
Find(r) ==
    LET h == req[r]
    IN  /\ h.phase = "find"
        /\ IF account[h.target] = "live"
           THEN Goto(r, IF h.op = "set_roles" THEN "check" ELSE "write")
           ELSE Done(r)
        /\ UNCHANGED <<idm, claims, accepted, reset>>

\* Mutant: the replacement is not compared with what is there.
StrippedNothing(t, new) == {}

\* The roles that the read models do not show and the request does not name
\* would be lost: 409.
Stripped(t, new) == (roles[t] \ Closed) \ new

Check(r) ==
    LET h == req[r]
    IN  /\ h.phase = "check"
        /\ IF Stripped(h.target, h.new) = {}
           THEN req' = [req EXCEPT ![r].phase = "write", ![r].checked = roles[h.target]]
           ELSE Done(r)
        /\ UNCHANGED <<idm, claims, accepted, reset>>

-------------------------------------------------------------------------------
(* The writes.                                                               *)

Writing(r, op) == req[r].phase = "write" /\ req[r].op = op

\* create_with_roles; the user name may be taken by now.
WriteCreate(r) ==
    LET h == req[r]
    IN  /\ Writing(r, "create")
        /\ IF account[h.target] = "absent"
           THEN /\ account' = [account EXCEPT ![h.target] = "live"]
                /\ roles' = [roles EXCEPT ![h.target] = h.new]
           ELSE UNCHANGED <<account, roles>>
        /\ Done(r)
        /\ UNCHANGED <<password, identity, sessions, claims, accepted, reset>>

WriteUpdate(r) ==
    LET t == req[r].target
    IN  /\ Writing(r, "update")
        /\ identity' = IF account[t] = "live" THEN [identity EXCEPT ![t] = @ + 1] ELSE identity
        /\ Done(r)
        /\ UNCHANGED <<account, roles, password, sessions, claims, accepted, reset>>

WriteDelete(r) ==
    LET t == req[r].target
    IN  /\ Writing(r, "delete")
        /\ IF account[t] = "live"
           THEN account' = [account EXCEPT ![t] = "deleted"] /\ Goto(r, "revoke")
           ELSE account' = account /\ Done(r)
        /\ UNCHANGED <<roles, password, identity, sessions, claims, accepted, reset>>

\* RoleRepo::set_roles replaces the rows whether or not the account is live.
WriteRoles(r) ==
    LET h == req[r]
    IN  /\ Writing(r, "set_roles")
        /\ roles' = [roles EXCEPT ![h.target] = h.new]
        /\ Done(r)
        /\ UNCHANGED <<account, password, identity, sessions, claims, accepted, reset>>

\* update_password does not look at deleted_at.
WritePassword(r) ==
    LET t == req[r].target
    IN  /\ Writing(r, "reset_password")
        /\ password' = [password EXCEPT ![t] = @ + 1]
        /\ req' = [req EXCEPT ![r].phase = "revoke", ![r].gen = password[t] + 1]
        /\ UNCHANGED <<account, roles, identity, sessions, claims, accepted, reset>>

\* Mutant: a failed revoke_all is only logged.
RevokeBestEffort(r) ==
    LET h == req[r]
    IN  /\ h.phase = "revoke"
        /\ sessions' \in {sessions, {s \in sessions : s.user # h.target}}
        /\ reset' = IF h.op = "reset_password" /\ h.gen > reset[h.target]
                    THEN [reset EXCEPT ![h.target] = h.gen]
                    ELSE reset
        /\ Done(r)
        /\ UNCHANGED <<account, roles, password, identity, claims, accepted>>

\* SessionRepo::revoke_all, then the answer: of a reset only now.
Revoke(r) ==
    LET h == req[r]
    IN  /\ h.phase = "revoke"
        /\ sessions' = {s \in sessions : s.user # h.target}
        /\ reset' = IF h.op = "reset_password" /\ h.gen > reset[h.target]
                    THEN [reset EXCEPT ![h.target] = h.gen]
                    ELSE reset
        /\ Done(r)
        /\ UNCHANGED <<account, roles, password, identity, claims, accepted>>

\* A call fails, or the handler is dropped at an await.  A failed revoke_all is
\* an error of a reset and no more than a warning of a delete: both end here.
Abandon(r) ==
    /\ req[r] # Idle
    /\ Done(r)
    /\ UNCHANGED <<idm, claims, accepted, reset>>

Next ==
    \/ \E u \in Clients : Login(u) \/ Refresh(u) \/ DeleteMe(u)
    \/ \E r \in Requests :
        \/ CreateUser(r) \/ SetUserRoles(r) \/ OtherRequest(r)
        \/ Guard(r) \/ Find(r) \/ Check(r)
        \/ WriteCreate(r) \/ WriteUpdate(r) \/ WriteDelete(r) \/ WriteRoles(r)
        \/ WritePassword(r)
        \/ Revoke(r) \/ Abandon(r)

Spec == Init /\ [][Next]_vars

-------------------------------------------------------------------------------
TypeOK ==
    /\ account \in [Users -> {"absent", "live", "deleted"}]
    /\ roles \in [Users -> SUBSET Roles]
    /\ password \in [Users -> Nat]
    /\ identity \in [Users -> Nat]
    /\ sessions \subseteq [user : Users, pw : Nat]
    /\ claims \in [Users -> SUBSET Roles]
    /\ req \in [Requests -> {Idle} \cup Handler]
    /\ accepted \in 0..MaxAccepted
    /\ reset \in [Users -> Nat]
    /\ \A r \in Requests :
        /\ req[r].phase = "check" => req[r].op = "set_roles"
        /\ (req[r].phase = "revoke" /\ req[r].op = "delete") => account[req[r].target] = "deleted"

\* Which handler makes this step a write to user t.
WritesTo(r, t) == req[r].phase = "write" /\ req[r].target = t /\ req'[r] # req[r]

Untouched(t) == UNCHANGED <<account[t], roles[t], password[t], identity[t]>>

\* DELETE /auth/me is no request of this API.
Leaves(t) == account'[t] = "deleted" /\ UNCHANGED <<roles[t], password[t], identity[t], req>>

\* Whoever changes an account reaches all of it: the change is made by a handler
\* whose token held every permission of the roles the target had when it was
\* judged and still has, and the target gains nothing the token did not hold.
\* (A role the target gains in between is not seen: the guards read first and
\* write later.)
WithinReach ==
    [][\A t \in Users : Untouched(t) \/ Leaves(t) \/
        \E r \in Requests :
            /\ WritesTo(r, t)
            /\ PermsFor(roles[t] \cap req[r].found) \subseteq PermsFor(req[r].claims)
            /\ PermsFor(roles'[t]) \ PermsFor(roles[t]) \subseteq PermsFor(req[r].claims)
      ]_vars

Admins == {u \in Users : account[u] = "live" /\ UsersAdmin \in PermsFor(roles[u])}

\* The administrators do not lock the back office by administering: the last one
\* leaves by DELETE /auth/me, or is removed on behalf of an actor who is none any
\* more, with a token or a handler that outlived his rights.
LastAdminStays ==
    [][(Admins # {} /\ Admins' = {}) =>
        \E t \in Users : Leaves(t) \/
            \E r \in Requests : WritesTo(r, t) /\ req[r].actor \notin Admins]_vars

\* A reset that was answered with success has ended every session opened with
\* an older password; whoever knows only that one cannot refresh any more.
ResetEndsSessions == \A s \in sessions : s.pw >= reset[s.user]

\* A role outside the closed set is only lost to a replacement that was checked
\* before the user had it.
HiddenRolesKept ==
    [][\A t \in Users : \A x \in roles[t] \ Closed :
        x \in roles'[t] \/ \E r \in Requests : WritesTo(r, t) /\ x \notin req[r].checked
      ]_vars

\* "fail closed" (service.rs on set_roles): a replacement never strips a role
\* outside the closed set silently.
NoSilentStrip == [][\A t \in Users : roles[t] \ Closed \subseteq roles'[t]]_vars
===============================================================================
