------------------------------- MODULE Bootstrap -------------------------------
(***************************************************************************)
(* What a process does to the database before it serves: seed_authz and       *)
(* load_policy of src/app/policy_repo.rs, apply and apply_profiles of          *)
(* src/app/seed.rs, in the order of AppState::new (src/app/state.rs) or of the *)
(* command line tool src/bin/seed.rs.                                          *)
(*                                                                         *)
(* Several processes do it at the same time, statement by statement, with     *)
(* crashes in between, while operators edit role_permissions, administrators   *)
(* set roles and users write their profiles.  Binaries may differ in the       *)
(* permissions they know (a rolling deployment).                             *)
(*                                                                         *)
(* Accounts are not deleted here; roles always exist (they are upserted first).*)
(***************************************************************************)
EXTENDS Naturals, Sequences, FiniteSets, Authz

CONSTANTS
    Processes,
    Plan,           \* Plan[i]: what process i does, one of Plans
    Known,          \* Known[i]: the permissions in the binary of i
    DefaultRows,    \* default_permissions of all roles, of the newest binary
    RoleNames,
    Accounts,       \* seed.toml
    Declared,       \* Declared[a]: the roles account a is declared with
    Assignable,     \* bound: role sets an administrator sets
    MaxEdits,       \* bound: edits of role_permissions, of roles, of profiles
    MaxRestarts     \* bound: restarts of a process that has come up or crashed

\* AppState::new of a process with the app's tables, with and without
\* seed_on_start; main of bin/seed.rs; either of them without the app's tables.
Plans ==
    {<<"catalog", "grants", "load", "accounts", "profiles">>,
     <<"catalog", "grants", "load">>,
     <<"accounts", "catalog", "grants", "profiles">>,
     <<"accounts">>}

Row == [role : RoleNames, perm : Perms]

ASSUME BootstrapAssumption ==
    /\ Plan \in [Processes -> Plans]
    /\ Known \in [Processes -> SUBSET Perms]
    /\ DefaultRows \subseteq Row
    /\ Declared \in [Accounts -> SUBSET RoleNames]
    /\ Assignable \subseteq SUBSET RoleNames
    /\ MaxEdits \in Nat
    /\ MaxRestarts \in Nat

VARIABLES
    catalog,    \* permissions
    grants,     \* role_permissions
    users,      \* the accounts that exist, and
    roles,      \* their roles
    profile,    \* profile[a]: "none", "seed" or "own"
    at,         \* at[i]: 0 down, n in the nth phase of its plan, then up
    left,       \* left[i]: what this phase still has to write
    job,        \* job[i]: the account in hand
    policy,     \* policy[i]: as loaded
    edits, restarts,
    since,      \* history: edits[...] of role_permissions when i started,
    revoked,    \* the rows an operator has deleted, and none put back,
    assigned,   \* accounts whose roles an administrator has set,
    raced       \* and processes a user's profile write overtook

accounts == <<users, roles>>
tables == <<catalog, grants, accounts, profile>>
process == <<at, left, job, policy>>
history == <<since, revoked, assigned, raced>>
vars == <<tables, process, edits, restarts, history>>

NoJob == [step |-> "none"]

PhaseAt(i, n) == IF n \in 1..Len(Plan[i]) THEN Plan[i][n] ELSE "rest"

Phase(i) == PhaseAt(i, at[i])

Up(i) == at[i] > Len(Plan[i])

Serving(i) == Up(i) /\ \E n \in 1..Len(Plan[i]) : Plan[i][n] = "load"

Defaults(i) == {w \in DefaultRows : w.perm \in Known[i]}

\* Mutant: a table that has rows is seeded already.
WorkOnce(i, n) ==
    CASE PhaseAt(i, n) = "catalog" -> Known[i]
      [] PhaseAt(i, n) = "grants" /\ grants = {} -> Defaults(i)
      [] PhaseAt(i, n) \in {"accounts", "profiles"} -> Accounts
      [] OTHER -> {}

\* What phase n of the plan of i has to write.
Work(i, n) ==
    CASE PhaseAt(i, n) = "catalog" -> Known[i]
      [] PhaseAt(i, n) = "grants" -> Defaults(i)
      [] PhaseAt(i, n) \in {"accounts", "profiles"} -> Accounts
      [] OTHER -> {}

Init ==
    /\ catalog = {}
    /\ grants = {}
    /\ users \in SUBSET Accounts
    /\ roles = [a \in Accounts |-> {}]
    /\ profile = [a \in Accounts |-> "none"]
    /\ at = [i \in Processes |-> 0]
    /\ left = [i \in Processes |-> {}]
    /\ job = [i \in Processes |-> NoJob]
    /\ policy = [i \in Processes |-> << >>]
    /\ edits = [grants |-> 0, roles |-> 0, profiles |-> 0]
    /\ restarts = 0
    /\ since = [i \in Processes |-> 0]
    /\ revoked = {}
    /\ assigned = {}
    /\ raced = {}

-------------------------------------------------------------------------------
(* The life of a process.                                                    *)

Enter(i, n) ==
    /\ at' = [at EXCEPT ![i] = n]
    /\ left' = [left EXCEPT ![i] = Work(i, n)]

Start(i) ==
    /\ at[i] = 0
    /\ Enter(i, 1)
    /\ since' = [since EXCEPT ![i] = edits.grants]
    /\ UNCHANGED <<tables, job, policy, edits, restarts, revoked, assigned, raced>>

\* The last statement of a phase has run.
NextPhase(i) ==
    /\ Phase(i) \in {"catalog", "grants", "accounts", "profiles"}
    /\ left[i] = {}
    /\ job[i] = NoJob
    /\ Enter(i, at[i] + 1)
    /\ UNCHANGED <<tables, job, policy, edits, restarts, history>>

\* Deployed again, killed, or an error of any statement.
Restart(i) ==
    /\ at[i] # 0
    /\ restarts < MaxRestarts
    /\ restarts' = restarts + 1
    /\ at' = [at EXCEPT ![i] = 0]
    /\ left' = [left EXCEPT ![i] = {}]
    /\ job' = [job EXCEPT ![i] = NoJob]
    /\ policy' = [policy EXCEPT ![i] = << >>]
    /\ raced' = raced \ {i}
    /\ UNCHANGED <<tables, edits, since, revoked, assigned>>

-------------------------------------------------------------------------------
(* seed_authz and load_policy.                                               *)

SeedPerm(i) ==
    /\ Phase(i) = "catalog"
    /\ \E p \in left[i] :
        /\ catalog' = catalog \cup {p}
        /\ left' = [left EXCEPT ![i] = @ \ {p}]
    /\ UNCHANGED <<grants, accounts, profile, at, job, policy, edits, restarts, history>>

\* Mutant: without ON CONFLICT, an existing row is an error.
GrantRowStrict(w) ==
    /\ w \notin grants
    /\ grants' = grants \cup {w}

\* ON CONFLICT DO NOTHING
GrantRow(w) == grants' = grants \cup {w}

SeedRow(i) ==
    /\ Phase(i) = "grants"
    /\ \E w \in left[i] :
        /\ w.perm \in catalog
        /\ GrantRow(w)
        /\ left' = [left EXCEPT ![i] = @ \ {w}]
    /\ UNCHANGED <<catalog, accounts, profile, at, job, policy, edits, restarts, history>>

\* perm_from_wire fails on what this binary does not know.
Readable(i) == \A w \in grants : w.perm \in Known[i]

Covered(table) == \A a \in Accounts : RolesCovered(table, Declared[a])

Load(i) ==
    /\ Phase(i) = "load"
    /\ Readable(i) /\ Covered(FromRoles(grants))
    /\ policy' = [policy EXCEPT ![i] = FromRoles(grants)]
    /\ Enter(i, at[i] + 1)
    /\ UNCHANGED <<tables, job, edits, restarts, history>>

\* The process ends with an error, and its supervisor starts it again.
LoadFails(i) ==
    /\ Phase(i) = "load"
    /\ ~(Readable(i) /\ Covered(FromRoles(grants)))
    /\ at' = [at EXCEPT ![i] = 0]
    /\ UNCHANGED <<tables, left, job, policy, edits, restarts, history>>

-------------------------------------------------------------------------------
(* seed::apply, account by account.                                          *)

Take(i, a, step, seen) ==
    /\ job' = [job EXCEPT ![i] = [step |-> step, acc |-> a, seen |-> seen]]
    /\ left' = [left EXCEPT ![i] = @ \ {a}]

Finish(i) == job' = [job EXCEPT ![i] = NoJob]

FindAccount(i) ==
    /\ Phase(i) = "accounts"
    /\ job[i] = NoJob
    /\ \E a \in left[i] : Take(i, a, IF a \in users THEN "ensure" ELSE "create", {})
    /\ UNCHANGED <<tables, at, policy, edits, restarts, history>>

\* create_with_roles; a conflict means that somebody else has created it by now.
CreateAccount(i) ==
    LET a == job[i].acc
    IN  /\ job[i].step = "create"
        /\ IF a \in users
           THEN job' = [job EXCEPT ![i].step = "ensure"] /\ UNCHANGED accounts
           ELSE /\ users' = users \cup {a}
                /\ roles' = [roles EXCEPT ![a] = Declared[a]]
                /\ Finish(i)
        /\ UNCHANGED <<catalog, grants, profile, at, left, policy, edits, restarts, history>>

\* Mutant: an account that exists is left alone.
CompleteAlways(a) == TRUE

\* Nothing declared is missing: no write, no event.
Complete(a) == Declared[a] \subseteq roles[a]

\* ensure_roles_with_event reads the roles of the account ...
ReadRoles(i) ==
    LET a == job[i].acc
    IN  /\ job[i].step = "ensure"
        /\ IF Complete(a)
           THEN Finish(i)
           ELSE job' = [job EXCEPT ![i].step = "set", ![i].seen = roles[a]]
        /\ UNCHANGED <<tables, at, left, policy, edits, restarts, history>>

\* Mutant: the declared roles alone.
UnionDeclared(i) == Declared[job[i].acc]

Union(i) == job[i].seen \cup Declared[job[i].acc]

\* ... and replaces them by the union.
SetUnion(i) ==
    /\ job[i].step = "set"
    /\ roles' = [roles EXCEPT ![job[i].acc] = Union(i)]
    /\ Finish(i)
    /\ UNCHANGED <<catalog, grants, users, profile, at, left, policy, edits, restarts, history>>

-------------------------------------------------------------------------------
(* seed::apply_profiles.                                                     *)

\* Mutant: the profile is written whether it exists or not.
MissingAlways(a) == TRUE

Missing(a) == profile[a] = "none"

\* An account that is not there is an error; it is never the case here.
ReadProfile(i) ==
    /\ Phase(i) = "profiles"
    /\ job[i] = NoJob
    /\ \E a \in left[i] :
        /\ a \in users
        /\ IF Missing(a)
           THEN Take(i, a, "put", {})
           ELSE left' = [left EXCEPT ![i] = @ \ {a}] /\ job' = job
    /\ UNCHANGED <<tables, at, policy, edits, restarts, history>>

WriteProfile(i) ==
    /\ job[i].step = "put"
    /\ profile' = [profile EXCEPT ![job[i].acc] = "seed"]
    /\ raced' = raced \ {i}
    /\ Finish(i)
    /\ UNCHANGED <<catalog, grants, accounts, at, left, policy, edits, restarts,
                   since, revoked, assigned>>

-------------------------------------------------------------------------------
(* The others.                                                               *)

Edit(what) ==
    /\ edits[what] < MaxEdits
    /\ edits' = [edits EXCEPT ![what] = @ + 1]

\* "revoking is deleting the row" (migrations/app/0002)
Revoke(w) ==
    /\ w \in grants
    /\ Edit("grants")
    /\ grants' = grants \ {w}
    /\ revoked' = revoked \cup {w}
    /\ UNCHANGED <<catalog, accounts, profile, process, restarts, since, assigned, raced>>

Grant(w) ==
    /\ w \notin grants
    /\ w.perm \in catalog
    /\ Edit("grants")
    /\ grants' = grants \cup {w}
    /\ revoked' = revoked \ {w}
    /\ UNCHANGED <<catalog, accounts, profile, process, restarts, since, assigned, raced>>

\* PUT /users/{id}/roles
Assign(a, R) ==
    /\ a \in users
    /\ Edit("roles")
    /\ roles' = [roles EXCEPT ![a] = R]
    /\ assigned' = assigned \cup {a}
    /\ UNCHANGED <<catalog, grants, users, profile, process, restarts, since, revoked, raced>>

\* PUT /profiles/me
PutProfile(a) ==
    /\ a \in users
    /\ Edit("profiles")
    /\ profile' = [profile EXCEPT ![a] = "own"]
    /\ raced' = raced \cup {i \in Processes : job[i].step = "put" /\ job[i].acc = a}
    /\ UNCHANGED <<catalog, grants, accounts, process, restarts, since, revoked, assigned>>

Step(i) ==
    \/ Start(i) \/ NextPhase(i)
    \/ SeedPerm(i) \/ SeedRow(i) \/ Load(i) \/ LoadFails(i)
    \/ FindAccount(i) \/ CreateAccount(i) \/ ReadRoles(i) \/ SetUnion(i)
    \/ ReadProfile(i) \/ WriteProfile(i)

Next ==
    \/ \E i \in Processes : Step(i) \/ Restart(i)
    \/ \E w \in Row : Revoke(w) \/ Grant(w)
    \/ \E a \in Accounts :
        \/ \E R \in Assignable : Assign(a, R)
        \/ PutProfile(a)

Spec == Init /\ [][Next]_vars

\* A process runs on, and its supervisor restarts it after an error.
FairSpec == Spec /\ \A i \in Processes : WF_vars(Step(i))

-------------------------------------------------------------------------------
Job == [step : {"create", "ensure", "set", "put"}, acc : Accounts, seen : SUBSET RoleNames]

TypeOK ==
    /\ catalog \subseteq Perms
    /\ grants \subseteq Row
    /\ users \subseteq Accounts
    /\ roles \in [Accounts -> SUBSET RoleNames]
    /\ profile \in [Accounts -> {"none", "seed", "own"}]
    /\ \A i \in Processes :
        /\ at[i] \in 0..(Len(Plan[i]) + 1)
        /\ left[i] \subseteq Work(i, at[i])
        /\ job[i] \in {NoJob} \cup Job
        /\ job[i].step \in {"create", "ensure", "set"} => Phase(i) = "accounts"
        /\ job[i].step = "put" => Phase(i) = "profiles"
    /\ edits \in [{"grants", "roles", "profiles"} -> 0..MaxEdits]
    /\ restarts \in 0..MaxRestarts
    /\ since \in [Processes -> 0..edits.grants]
    /\ revoked \subseteq Row
    /\ assigned \subseteq users
    /\ raced \subseteq {i \in Processes : job[i].step = "put"}

Past(i, phase) == \E n \in 1..Len(Plan[i]) : n < at[i] /\ Plan[i][n] = phase

\* While a process serves, every default of its binary is in the table unless an
\* operator has deleted it (the seed "never touches existing edits"; of a deleted
\* row nothing is asked, neither that it returns nor that it stays away).  And the
\* process enforces the table as it is, as far as its binary knows it, unless an
\* operator has edited it since the process started: what other processes seed
\* meanwhile makes no difference.
PolicyCurrent ==
    \A i \in Processes : Serving(i) =>
        /\ Defaults(i) \ revoked \subseteq grants
        /\ since[i] = edits.grants => policy[i] = FromRoles({w \in grants : w.perm \in Known[i]})

\* Whoever passes the gate of a permission passes the gates of all it implies,
\* in every process, for every combination of roles and scope, whatever
\* operators have put into the table ("read:all" without "read").
AllImpliesOwn ==
    \A i \in Processes : \A R \in SUBSET RoleNames, scope \in SUBSET Perms :
        \A p \in MyPermissions(policy[i], R, scope) :
            RequireAll(policy[i], R, scope, Implies[p])

\* Once a process has seeded the accounts, they are all there, and each has its
\* declared roles unless an administrator has set them: whatever other seeders
\* were in the middle of.
AccountsComplete ==
    \A i \in Processes : Past(i, "accounts") =>
        \A a \in Accounts :
            a \in users /\ (a \in assigned \/ Declared[a] \subseteq roles[a])

\* Seeding adds roles ("additive"): it takes one only if it was granted between
\* the read and the write of ensure_roles_with_event.
SeedingTakesNoRole ==
    [][\A a \in Accounts : \A x \in roles[a] \ roles'[a] :
        \/ edits'.roles # edits.roles
        \/ \E i \in Processes :
            job[i].step = "set" /\ job[i].acc = a /\ job'[i] = NoJob /\ x \notin job[i].seen
      ]_vars

\* A profile its user wrote is overwritten only by a seeder that had looked for
\* it before the user wrote it.
ProfilesKept ==
    [][\A a \in Accounts : (profile[a] = "own" /\ profile'[a] # "own") =>
        \E i \in raced : job[i].acc = a /\ job'[i] = NoJob
      ]_vars

\* Neither crashes nor other seeders nor edits keep a process with the newest
\* binary from serving in the end.
EventuallyServes ==
    \A i \in Processes :
        (Known[i] = Perms /\ \E n \in 1..Len(Plan[i]) : Plan[i][n] = "load")
            => <>[]Serving(i)
===============================================================================
