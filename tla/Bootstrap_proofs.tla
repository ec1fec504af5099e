---------------------------- MODULE Bootstrap_proofs ----------------------------
(***************************************************************************)
(* Proofs about Authz and Bootstrap, for every closed set of permissions with *)
(* implications of one level, every table, and any number of processes,         *)
(* binaries, edits and crashes.                                                *)
(***************************************************************************)
EXTENDS Bootstrap, TLAPS

-------------------------------------------------------------------------------
(* Authz: the gate.                                                          *)

LEMMA RoleOfTable ==
    ASSUME NEW rows \in SUBSET Row, NEW x \in DOMAIN FromRoles(rows)
    PROVE  /\ FromRoles(rows)[x] = Expand({w.perm : w \in {v \in rows : v.role = x}})
           /\ {w.perm : w \in {v \in rows : v.role = x}} \subseteq Perms
BY DEF FromRoles, Row

LEMMA ExpandIsClosed ==
    ASSUME NEW S \in SUBSET Perms, NEW p \in Expand(S), NEW q \in Implies[p]
    PROVE  q \in Expand(S)
<1>1. CASE p \in S
  BY <1>1 DEF Expand
<1>2. CASE \E s \in S : p \in Implies[s]
  BY <1>2, ImpliesAssumption
<1>3. p \in S \/ \E s \in S : p \in Implies[s]
  BY DEF Expand
<1> QED
  BY <1>1, <1>2, <1>3

LEMMA ImpliedIsGranted ==
    ASSUME NEW rows \in SUBSET Row, NEW R, NEW p \in PermsFor(FromRoles(rows), R),
           NEW q \in Implies[p]
    PROVE  q \in PermsFor(FromRoles(rows), R)
<1>1. PICK x \in R \cap DOMAIN FromRoles(rows) : p \in FromRoles(rows)[x]
  BY DEF PermsFor
<1> DEFINE S == {w.perm : w \in {v \in rows : v.role = x}}
<1>2. FromRoles(rows)[x] = Expand(S) /\ S \in SUBSET Perms
  BY <1>1, RoleOfTable
<1> HIDE DEF S
<1>3. q \in FromRoles(rows)[x]
  BY <1>1, <1>2, ExpandIsClosed
<1> QED
  BY <1>1, <1>3 DEF PermsFor

LEMMA ImpliedIsInScope ==
    ASSUME NEW scope \in SUBSET Perms, NEW p \in Perms, InScope(scope, p), NEW q \in Implies[p]
    PROVE  InScope(scope, q)
<1>1. CASE \E s \in scope : p \in Implies[s]
  BY <1>1, ImpliesAssumption
<1> QED
  BY <1>1 DEF InScope

LEMMA GrantedIsPerm ==
    ASSUME NEW rows \in SUBSET Row, NEW R, NEW p \in PermsFor(FromRoles(rows), R)
    PROVE  p \in Perms
<1>1. PICK x \in R \cap DOMAIN FromRoles(rows) : p \in FromRoles(rows)[x]
  BY DEF PermsFor
<1>2. p \in Expand({w.perm : w \in {v \in rows : v.role = x}})
  BY <1>1, RoleOfTable
<1> QED
  BY <1>1, <1>2, RoleOfTable, ImpliesAssumption DEF Expand

\* What the gate of a permission lets through, the gates of what it implies let
\* through: for every table, whether or not it has the implied rows.
LEMMA GateIsMonotone ==
    ASSUME NEW rows \in SUBSET Row, NEW R, NEW scope \in SUBSET Perms,
           NEW p \in MyPermissions(FromRoles(rows), R, scope), NEW q \in Implies[p]
    PROVE  RequireScoped(FromRoles(rows), R, scope, q)
BY ImpliedIsGranted, ImpliedIsInScope, GrantedIsPerm DEF MyPermissions, RequireScoped

-------------------------------------------------------------------------------
(* The inductive invariant.                                                  *)

Types ==
    /\ catalog \subseteq Perms
    /\ grants \subseteq Row
    /\ users \subseteq Accounts
    /\ roles \in [Accounts -> SUBSET RoleNames]
    /\ profile \in [Accounts -> {"none", "seed", "own"}]
    /\ at \in [Processes -> Nat]
    /\ left \in [Processes -> SUBSET (Perms \cup Row \cup Accounts)]
    /\ job \in [Processes -> {NoJob} \cup Job]
    /\ policy = [i \in Processes |-> policy[i]]
    /\ edits \in [{"grants", "roles", "profiles"} -> 0..MaxEdits]
    /\ restarts \in 0..MaxRestarts
    /\ since \in [Processes -> Nat]
    /\ revoked \subseteq Row
    /\ assigned \subseteq users
    /\ raced \subseteq Processes

\* Where a process is, and what it can have in hand there.
Placed(i) ==
    /\ at[i] <= Len(Plan[i]) + 1
    /\ left[i] \subseteq Work(i, at[i])
    /\ since[i] <= edits.grants
    /\ job[i].step \in {"create", "ensure", "set"} => Phase(i) = "accounts"
    /\ job[i].step = "put" => Phase(i) = "profiles"
    /\ i \in raced => job[i].step = "put"

PolicyOfATable(i) == policy[i] = << >> \/ \E rows \in SUBSET Row : policy[i] = FromRoles(rows)

KnownRows(i) == {w \in grants : w.perm \in Known[i]}

\* The defaults are in the table before it is loaded, and nobody but an operator
\* changes what a process knows of it afterwards.
Seeded(i) == since[i] = edits.grants =>
    /\ Phase(i) = "grants" => Defaults(i) \ left[i] \subseteq grants
    /\ Past(i, "grants") => Defaults(i) \subseteq grants
    /\ Past(i, "load") => policy[i] = FromRoles(KnownRows(i))

\* Whatever operators edit, a default a process has written is in the table or was
\* deleted by one of them.
NothingLost(i) ==
    /\ Phase(i) = "grants" => Defaults(i) \ left[i] \subseteq grants \cup revoked
    /\ Past(i, "grants") => Defaults(i) \subseteq grants \cup revoked

Done(a) == a \in users /\ (a \in assigned \/ Declared[a] \subseteq roles[a])

Accounted(i) ==
    /\ Past(i, "accounts") => \A a \in Accounts : Done(a)
    /\ Phase(i) = "accounts" =>
        \A a \in Accounts \ left[i] : Done(a) \/ (job[i] # NoJob /\ job[i].acc = a)
    /\ job[i].step \in {"ensure", "set"} => job[i].acc \in users

Profiled(i) == (job[i].step = "put" /\ i \notin raced) => profile[job[i].acc] # "own"

NobodyHasNoRole == \A a \in Accounts \ users : roles[a] = {}

BInv ==
    /\ Types
    /\ NobodyHasNoRole
    /\ \A i \in Processes :
        /\ Placed(i) /\ PolicyOfATable(i) /\ Seeded(i) /\ NothingLost(i)
        /\ Accounted(i) /\ Profiled(i)

-------------------------------------------------------------------------------
(* Plans and phases.                                                         *)

LEMMA PlanShape ==
    ASSUME NEW i \in Processes
    PROVE  /\ Len(Plan[i]) \in Nat
           /\ \A m, n \in 1..Len(Plan[i]) : Plan[i][m] = Plan[i][n] => m = n
           /\ \A n \in 1..Len(Plan[i]) : Plan[i][n] # "rest"
           /\ \A n \in 1..Len(Plan[i]) : Plan[i][n] = "load" =>
                \E m \in 1..Len(Plan[i]) : m < n /\ Plan[i][m] = "grants"
<1>1. CASE Plan[i] = <<"catalog", "grants", "load", "accounts", "profiles">>
  BY <1>1
<1>2. CASE Plan[i] = <<"catalog", "grants", "load">>
  BY <1>2
<1>3. CASE Plan[i] = <<"accounts", "catalog", "grants", "profiles">>
  BY <1>3
<1>4. CASE Plan[i] = <<"accounts">>
  BY <1>4
<1> QED
  BY <1>1, <1>2, <1>3, <1>4, BootstrapAssumption DEF Plans

LEMMA PhaseIsPlanned ==
    ASSUME NEW i \in Processes, NEW p, Phase(i) = p, p # "rest"
    PROVE  at[i] \in 1..Len(Plan[i]) /\ Plan[i][at[i]] = p /\ ~Past(i, p)
BY PlanShape DEF Phase, PhaseAt, Past

LEMMA WorkTypes ==
    ASSUME NEW i \in Processes, NEW n
    PROVE  /\ Work(i, n) \subseteq Perms \cup Row \cup Accounts
           /\ PhaseAt(i, n) = "catalog" => Work(i, n) = Known[i] /\ Known[i] \subseteq Perms
           /\ PhaseAt(i, n) = "grants" => Work(i, n) = Defaults(i) /\ Defaults(i) \subseteq Row
           /\ PhaseAt(i, n) \in {"accounts", "profiles"} => Work(i, n) = Accounts
BY BootstrapAssumption DEF Work, Defaults

LEMMA Advance ==
    ASSUME NEW i \in Processes, at \in [Processes -> Nat], at[i] \in 1..Len(Plan[i]),
           at' = [at EXCEPT ![i] = at[i] + 1]
    PROVE  /\ at'[i] = at[i] + 1
           /\ \A p : Past(i, p)' <=> Past(i, p) \/ Phase(i) = p
<1>1. at'[i] = at[i] + 1 /\ at[i] \in Nat /\ Len(Plan[i]) \in Nat
  BY PlanShape
<1>2. Phase(i) = Plan[i][at[i]]
  BY DEF Phase, PhaseAt
<1>3. ASSUME NEW p
      PROVE  Past(i, p)' <=> Past(i, p) \/ Phase(i) = p
  <2>1. \A n \in 1..Len(Plan[i]) : n < at'[i] <=> n < at[i] \/ n = at[i]
    BY <1>1
  <2> QED
    BY <1>2, <2>1 DEF Past
<1> QED
  BY <1>1, <1>3

LEMMA JobFields ==
    ASSUME NEW x \in {NoJob} \cup Job
    PROVE  /\ x.step \in {"none", "create", "ensure", "set", "put"}
           /\ x = NoJob <=> x.step = "none"
           /\ x # NoJob => x \in Job /\ x.acc \in Accounts /\ x.seen \subseteq RoleNames
BY DEF NoJob, Job

-------------------------------------------------------------------------------
(* Every step keeps the types.                                               *)

LEMMA TypesStep ==
    ASSUME BInv, [Next]_vars
    PROVE  Types'
<1> USE DEF tables, accounts, process, history
<1>0. Types
  BY DEF BInv
<1>1. ASSUME NEW i \in Processes, Start(i) PROVE Types'
  BY <1>0, <1>1, WorkTypes DEF Types, Start, Enter
<1>2. ASSUME NEW i \in Processes, NextPhase(i) PROVE Types'
  BY <1>0, <1>2, WorkTypes DEF Types, NextPhase, Enter
<1>3. ASSUME NEW i \in Processes, Restart(i) PROVE Types'
  <2>1. at' \in [Processes -> Nat]
    BY <1>0, <1>3 DEF Types, Restart
  <2>2. restarts' \in 0..MaxRestarts
    BY <1>0, <1>3, BootstrapAssumption DEF Types, Restart
  <2> QED
    BY <1>0, <1>3, <2>1, <2>2 DEF Types, Restart
<1>4. ASSUME NEW i \in Processes, SeedPerm(i) PROVE Types'
  <2>1. left[i] \subseteq Perms
    BY <1>4, WorkTypes DEF SeedPerm, BInv, Placed, Phase
  <2> QED
    BY <1>0, <1>4, <2>1 DEF Types, SeedPerm
<1>5. ASSUME NEW i \in Processes, SeedRow(i) PROVE Types'
  <2>1. left[i] \subseteq Row
    BY <1>5, WorkTypes DEF SeedRow, BInv, Placed, Phase
  <2> QED
    BY <1>0, <1>5, <2>1 DEF Types, SeedRow, GrantRow
<1>6. ASSUME NEW i \in Processes, Load(i) PROVE Types'
  <2>1. at' \in [Processes -> Nat]
    BY <1>0, <1>6 DEF Types, Load, Enter
  <2>2. left' \in [Processes -> SUBSET (Perms \cup Row \cup Accounts)]
    BY <1>0, <1>6, WorkTypes DEF Types, Load, Enter
  <2>3. policy' = [policy EXCEPT ![i] = FromRoles(grants)]
    BY <1>6 DEF Load
  <2>4. policy' = [j \in Processes |-> policy'[j]]
    BY <1>0, <2>3 DEF Types
  <2>5. UNCHANGED <<tables, job, edits, restarts, history>>
    BY <1>6 DEF Load
  <2> QED
    BY <1>0, <2>1, <2>2, <2>4, <2>5 DEF Types
<1>7. ASSUME NEW i \in Processes, LoadFails(i) PROVE Types'
  <2>1. at' \in [Processes -> Nat]
    BY <1>0, <1>7 DEF Types, LoadFails
  <2>2. policy' = policy
    BY <1>7 DEF LoadFails
  <2>3. UNCHANGED <<tables, left, job, edits, restarts, history>>
    BY <1>7 DEF LoadFails
  <2> QED
    BY <1>0, <2>1, <2>2, <2>3 DEF Types
<1>8. ASSUME NEW i \in Processes, FindAccount(i) PROVE Types'
  <2>1. left[i] \subseteq Accounts
    BY <1>8, WorkTypes DEF FindAccount, BInv, Placed, Phase
  <2> QED
    BY <1>0, <1>8, <2>1 DEF Types, FindAccount, Take, Job
<1>9. ASSUME NEW i \in Processes, CreateAccount(i) PROVE Types'
  <2>1. job[i] \in Job /\ job[i].acc \in Accounts
    BY <1>0, <1>9, JobFields DEF Types, CreateAccount, NoJob
  <2>2. [job[i] EXCEPT !.step = "ensure"] \in Job
    BY <2>1 DEF Job
  <2> QED
    BY <1>0, <1>9, <2>1, <2>2, BootstrapAssumption DEF Types, CreateAccount, Finish
<1>10. ASSUME NEW i \in Processes, ReadRoles(i) PROVE Types'
  <2>1. job[i] \in Job /\ job[i].acc \in Accounts
    BY <1>0, <1>10, JobFields DEF Types, ReadRoles, NoJob
  <2>2. [job[i] EXCEPT !.step = "set", !.seen = roles[job[i].acc]] \in Job
    BY <1>0, <2>1 DEF Types, Job
  <2> QED
    BY <1>0, <1>10, <2>1, <2>2 DEF Types, ReadRoles, Finish
<1>11. ASSUME NEW i \in Processes, SetUnion(i) PROVE Types'
  <2>1. job[i].acc \in Accounts /\ job[i].seen \subseteq RoleNames
    BY <1>0, <1>11, JobFields DEF Types, SetUnion, NoJob
  <2>2. Union(i) \subseteq RoleNames
    BY <2>1, BootstrapAssumption DEF Union
  <2> QED
    BY <1>0, <1>11, <2>1, <2>2 DEF Types, SetUnion, Finish
<1>12. ASSUME NEW i \in Processes, ReadProfile(i) PROVE Types'
  <2>1. left[i] \subseteq Accounts
    BY <1>12, WorkTypes DEF ReadProfile, BInv, Placed, Phase
  <2> QED
    BY <1>0, <1>12, <2>1 DEF Types, ReadProfile, Take, Job
<1>13. ASSUME NEW i \in Processes, WriteProfile(i) PROVE Types'
  <2>1. job[i].acc \in Accounts
    BY <1>0, <1>13, JobFields DEF Types, WriteProfile, NoJob
  <2> QED
    BY <1>0, <1>13, <2>1 DEF Types, WriteProfile, Finish
<1>14. ASSUME NEW w \in Row, Revoke(w) \/ Grant(w) PROVE Types'
  BY <1>0, <1>14, BootstrapAssumption DEF Types, Revoke, Grant, Edit
<1>15. ASSUME NEW a \in Accounts, NEW R \in Assignable, Assign(a, R) PROVE Types'
  BY <1>0, <1>15, BootstrapAssumption DEF Types, Assign, Edit
<1>16. ASSUME NEW a \in Accounts, PutProfile(a) PROVE Types'
  BY <1>0, <1>16, BootstrapAssumption DEF Types, PutProfile, Edit
<1>17. CASE UNCHANGED vars
  BY <1>0, <1>17 DEF Types, vars
<1> QED
  BY <1>1, <1>2, <1>3, <1>4, <1>5, <1>6, <1>7, <1>8, <1>9, <1>10, <1>11, <1>12, <1>13,
     <1>14, <1>15, <1>16, <1>17 DEF Next, Step

-------------------------------------------------------------------------------
(* What a step leaves alone.                                                 *)

\* A process changes nothing of another process.
LEMMA Others ==
    ASSUME Types, NEW i \in Processes, Step(i) \/ Restart(i), NEW j \in Processes, j # i
    PROVE  /\ at'[j] = at[j] /\ left'[j] = left[j] /\ job'[j] = job[j]
           /\ policy'[j] = policy[j] /\ since'[j] = since[j] /\ edits' = edits
           /\ j \in raced' <=> j \in raced
           /\ Phase(j)' = Phase(j)
           /\ \A p : Past(j, p)' <=> Past(j, p)
<1> USE DEF tables, accounts, process, history
<1>1. at'[j] = at[j]
  BY DEF Types, Step, Restart, Start, NextPhase, SeedPerm, SeedRow, Load, LoadFails,
         FindAccount, CreateAccount, ReadRoles, SetUnion, ReadProfile, WriteProfile, Enter
<1>2. left'[j] = left[j]
  BY DEF Types, Step, Restart, Start, NextPhase, SeedPerm, SeedRow, Load, LoadFails,
         FindAccount, CreateAccount, ReadRoles, SetUnion, ReadProfile, WriteProfile, Enter, Take
<1>3. job'[j] = job[j]
  BY DEF Types, Step, Restart, Start, NextPhase, SeedPerm, SeedRow, Load, LoadFails,
         FindAccount, CreateAccount, ReadRoles, SetUnion, ReadProfile, WriteProfile, Take, Finish
<1>4. policy'[j] = policy[j]
  BY DEF Types, Step, Restart, Start, NextPhase, SeedPerm, SeedRow, Load, LoadFails,
         FindAccount, CreateAccount, ReadRoles, SetUnion, ReadProfile, WriteProfile
<1>5. since'[j] = since[j] /\ edits' = edits
  BY DEF Types, Step, Restart, Start, NextPhase, SeedPerm, SeedRow, Load, LoadFails,
         FindAccount, CreateAccount, ReadRoles, SetUnion, ReadProfile, WriteProfile
<1>6. j \in raced' <=> j \in raced
  BY DEF Step, Restart, Start, NextPhase, SeedPerm, SeedRow, Load, LoadFails,
         FindAccount, CreateAccount, ReadRoles, SetUnion, ReadProfile, WriteProfile
<1> QED
  BY <1>1, <1>2, <1>3, <1>4, <1>5, <1>6 DEF Phase, PhaseAt, Past

\* Nor do operators, administrators and users.
Outside == \/ \E w \in Row : Revoke(w) \/ Grant(w)
           \/ \E a \in Accounts : (\E R \in Assignable : Assign(a, R)) \/ PutProfile(a)
           \/ UNCHANGED vars

LEMMA OutsideLeaves ==
    ASSUME Outside
    PROVE  UNCHANGED process /\ since' = since
BY DEF Outside, Revoke, Grant, Assign, PutProfile, vars, tables, accounts, process, history

LEMMA Cases ==
    ASSUME [Next]_vars
    PROVE  Outside \/ \E i \in Processes : Step(i) \/ Restart(i)
BY DEF Next, Outside


-------------------------------------------------------------------------------
(* Every step keeps a process where its plan has it.                         *)

LEMMA PlacedStep ==
    ASSUME BInv, [Next]_vars, NEW j \in Processes
    PROVE  Placed(j)'
<1> USE DEF tables, accounts, process, history
<1>0. Types /\ Placed(j) /\ job[j] \in {NoJob} \cup Job /\ NoJob.step = "none"
  BY DEF BInv, Types, NoJob
<1>1. ASSUME Outside PROVE Placed(j)'
  <2>1. UNCHANGED process /\ since' = since /\ Phase(j)' = Phase(j)
    BY <1>1, OutsideLeaves DEF Phase, PhaseAt
  <2>2. Work(j, at[j])' = Work(j, at[j])
    BY <2>1 DEF Work, PhaseAt
  <2>3. edits'.grants >= edits.grants /\ edits'.grants \in Nat /\ edits.grants \in Nat
    BY <1>0, <1>1, BootstrapAssumption
    DEF Types, Outside, Revoke, Grant, Assign, PutProfile, Edit, vars
  <2>4. j \in raced' => job[j].step = "put"
    BY <1>0, <1>1 DEF Placed, Outside, Revoke, Grant, Assign, PutProfile, vars
  <2>5. since[j] \in Nat /\ since[j] <= edits'.grants
    BY <1>0, <2>3 DEF Types, Placed
  <2> QED
    BY <1>0, <2>1, <2>2, <2>4, <2>5 DEF Placed
<1>2. ASSUME NEW i \in Processes, Step(i) \/ Restart(i), i # j PROVE Placed(j)'
  <2>1. Work(j, at[j])' = Work(j, at[j])
    BY <1>0, <1>2, Others DEF Work, PhaseAt
  <2> QED
    BY <1>0, <1>2, <2>1, Others DEF Placed
<1>3. ASSUME Start(j) PROVE Placed(j)'
  <2>1. at'[j] = 1 /\ left'[j] = Work(j, 1) /\ since'[j] = edits.grants
    BY <1>0, <1>3 DEF Types, Start, Enter
  <2>2. job' = job /\ raced' = raced /\ edits' = edits /\ edits.grants \in Nat
    BY <1>0, <1>3, BootstrapAssumption DEF Types, Start
  <2>3. Phase(j) = "rest"
    BY <1>3, PlanShape DEF Phase, PhaseAt, Start
  <2>4. Work(j, 1)' = Work(j, 1)
    BY DEF Work, PhaseAt
  <2> QED
    BY <1>0, <2>1, <2>2, <2>3, <2>4, PlanShape DEF Placed, Work
<1>4. ASSUME NextPhase(j) PROVE Placed(j)'
  <2>1. at'[j] = at[j] + 1 /\ left'[j] = Work(j, at[j] + 1)
    BY <1>0, <1>4 DEF Types, NextPhase, Enter
  <2>2. UNCHANGED <<job, raced, since, edits>> /\ job[j] = NoJob
    BY <1>4 DEF NextPhase
  <2>3. at[j] \in 1..Len(Plan[j])
    BY <1>4, PhaseIsPlanned DEF NextPhase
  <2>4. at'[j] <= Len(Plan[j]) + 1
    BY <2>1, <2>3, PlanShape
  <2>5. Work(j, at[j])' = Work(j, at'[j])
    BY DEF Work, PhaseAt
  <2>6. j \notin raced' /\ job'[j] = NoJob /\ since'[j] <= edits'.grants
    BY <1>0, <2>2 DEF Placed
  <2> QED
    BY <1>0, <2>1, <2>4, <2>5, <2>6 DEF Placed
<1>5. ASSUME Restart(j) PROVE Placed(j)'
  <2>1. at'[j] = 0 /\ left'[j] = {} /\ job'[j] = NoJob /\ j \notin raced'
    BY <1>0, <1>5 DEF Types, Restart
  <2>2. since' = since /\ edits' = edits
    BY <1>5 DEF Restart
  <2> QED
    BY <1>0, <2>1, <2>2, PlanShape DEF Placed
<1>6. ASSUME SeedPerm(j) \/ SeedRow(j) PROVE Placed(j)'
  <2>1. left'[j] \subseteq left[j]
    BY <1>0, <1>6 DEF Types, SeedPerm, SeedRow
  <2>2. UNCHANGED <<at, job, raced, since, edits>>
    BY <1>6 DEF SeedPerm, SeedRow
  <2>3. Work(j, at[j])' = Work(j, at[j]) /\ Phase(j)' = Phase(j)
    BY <2>2 DEF Work, PhaseAt, Phase
  <2> QED
    BY <1>0, <2>1, <2>2, <2>3 DEF Placed
<1>7. ASSUME Load(j) \/ LoadFails(j) PROVE Placed(j)'
  <2>1. Phase(j) = "load" /\ at[j] \in 1..Len(Plan[j])
    BY <1>7, PhaseIsPlanned DEF Load, LoadFails
  <2>2. UNCHANGED <<job, raced, since, edits>>
    BY <1>7 DEF Load, LoadFails
  <2>3. job[j].step \notin {"create", "ensure", "set", "put"} /\ j \notin raced
    BY <1>0, <2>1 DEF Placed
  <2>4. left[j] = {}
    BY <1>0, <2>1 DEF Placed, Work, Phase
  <2>5. \/ at'[j] = at[j] + 1 /\ left'[j] = Work(j, at[j] + 1)
        \/ at'[j] = 0 /\ left' = left
    BY <1>0, <1>7 DEF Types, Load, LoadFails, Enter
  <2>6. at'[j] <= Len(Plan[j]) + 1
    BY <2>1, <2>5, PlanShape
  <2>7. left'[j] \subseteq Work(j, at'[j])
    BY <2>4, <2>5
  <2>8. Work(j, at[j])' = Work(j, at'[j])
    BY DEF Work, PhaseAt
  <2> QED
    BY <1>0, <2>2, <2>3, <2>6, <2>7, <2>8 DEF Placed
<1>8. ASSUME FindAccount(j) \/ ReadProfile(j) PROVE Placed(j)'
  <2>1. left'[j] \subseteq left[j]
    BY <1>0, <1>8 DEF Types, FindAccount, ReadProfile, Take
  <2>2. UNCHANGED <<at, raced, since, edits>> /\ job[j] = NoJob /\ j \notin raced
    BY <1>0, <1>8 DEF FindAccount, ReadProfile, Placed
  <2>3. \/ Phase(j) = "accounts" /\ job'[j].step \in {"ensure", "create"}
        \/ Phase(j) = "profiles" /\ (job'[j].step = "put" \/ job'[j] = NoJob)
    BY <1>0, <1>8 DEF Types, FindAccount, ReadProfile, Take
  <2>4. Work(j, at[j])' = Work(j, at[j]) /\ Phase(j)' = Phase(j)
    BY <2>2 DEF Work, PhaseAt, Phase
  <2> QED
    BY <1>0, <2>1, <2>2, <2>3, <2>4 DEF Placed
<1>9. ASSUME CreateAccount(j) \/ ReadRoles(j) \/ SetUnion(j) PROVE Placed(j)'
  <2>1. UNCHANGED <<at, left, raced, since, edits>>
    BY <1>9 DEF CreateAccount, ReadRoles, SetUnion
  <2>2. job[j].step \in {"create", "ensure", "set"}
    BY <1>9 DEF CreateAccount, ReadRoles, SetUnion
  <2>3. Phase(j) = "accounts" /\ j \notin raced
    BY <1>0, <2>2 DEF Placed
  <2>4. job'[j].step \in {"ensure", "set", "none"}
    <3>1. \/ job' = [job EXCEPT ![j].step = "ensure"]
          \/ job' = [job EXCEPT ![j] = NoJob]
          \/ job' = [job EXCEPT ![j].step = "set", ![j].seen = roles[job[j].acc]]
      BY <1>9 DEF CreateAccount, ReadRoles, SetUnion, Finish
    <3>2. job[j] \in Job
      BY <1>0, <2>2
    <3> QED
      BY <1>0, <3>1, <3>2 DEF Types, Job
  <2>5. Work(j, at[j])' = Work(j, at[j]) /\ Phase(j)' = Phase(j)
    BY <2>1 DEF Work, PhaseAt, Phase
  <2> QED
    BY <1>0, <2>1, <2>3, <2>4, <2>5 DEF Placed
<1>10. ASSUME WriteProfile(j) PROVE Placed(j)'
  <2>1. UNCHANGED <<at, left, since, edits>> /\ job'[j] = NoJob /\ j \notin raced'
    BY <1>0, <1>10 DEF Types, WriteProfile, Finish
  <2>2. Work(j, at[j])' = Work(j, at[j]) /\ Phase(j)' = Phase(j)
    BY <2>1 DEF Work, PhaseAt, Phase
  <2> QED
    BY <1>0, <2>1, <2>2 DEF Placed
<1> QED
  BY <1>1, <1>2, <1>3, <1>4, <1>5, <1>6, <1>7, <1>8, <1>9, <1>10, Cases DEF Step

-------------------------------------------------------------------------------
(* A policy in memory was built from a table.                                *)

LEMMA PolicyStep ==
    ASSUME BInv, [Next]_vars, NEW j \in Processes
    PROVE  PolicyOfATable(j)'
<1>0. Types /\ PolicyOfATable(j)
  BY DEF BInv
<1>1. ASSUME policy'[j] = policy[j] PROVE PolicyOfATable(j)'
  BY <1>0, <1>1 DEF PolicyOfATable
<1>2. ASSUME Load(j) PROVE PolicyOfATable(j)'
  <2>1. policy'[j] = FromRoles(grants) /\ grants \in SUBSET Row
    BY <1>0, <1>2 DEF Types, Load
  <2> QED
    BY <2>1 DEF PolicyOfATable
<1>3. ASSUME Restart(j) PROVE PolicyOfATable(j)'
  <2>1. policy'[j] = << >>
    BY <1>0, <1>3 DEF Types, Restart
  <2> QED
    BY <2>1 DEF PolicyOfATable
<1>4. CASE Outside
  BY <1>1, <1>4, OutsideLeaves DEF process
<1>5. ASSUME NEW i \in Processes, Step(i) \/ Restart(i), i # j PROVE PolicyOfATable(j)'
  BY <1>0, <1>1, <1>5, Others
<1>6. ASSUME Step(j) PROVE Load(j) \/ policy' = policy
  BY <1>6 DEF Step, Start, NextPhase, SeedPerm, SeedRow, LoadFails, FindAccount, CreateAccount,
              ReadRoles, SetUnion, ReadProfile, WriteProfile
<1> QED
  BY <1>1, <1>2, <1>3, <1>4, <1>5, <1>6, Cases

-------------------------------------------------------------------------------
(* Accounts.                                                                 *)

\* A step of a process concerns the accounts only if it creates one or sets roles.
LEMMA AccountsChange ==
    ASSUME NEW i \in Processes, Step(i) \/ Restart(i)
    PROVE  CreateAccount(i) \/ SetUnion(i) \/ UNCHANGED accounts
BY DEF Step, Restart, Start, NextPhase, SeedPerm, SeedRow, Load, LoadFails, FindAccount,
       ReadRoles, ReadProfile, WriteProfile, tables

LEMMA DoneStays ==
    ASSUME BInv, [Next]_vars
    PROVE  /\ users \subseteq users'
           /\ \A a \in Accounts : Done(a) => Done(a)'
           /\ NobodyHasNoRole'
<1>0. Types /\ NobodyHasNoRole
  BY DEF BInv
<1> DEFINE Goal == /\ users \subseteq users'
                   /\ \A a \in Accounts : Done(a) => Done(a)'
                   /\ NobodyHasNoRole'
<1>1. ASSUME UNCHANGED <<users, roles, assigned>> PROVE Goal
  BY <1>0, <1>1 DEF Done, NobodyHasNoRole
<1>2. ASSUME NEW a \in Accounts, NEW R, Assign(a, R) PROVE Goal
  <2>1. a \in users /\ users' = users /\ assigned' = assigned \cup {a}
    BY <1>2 DEF Assign
  <2>2. \A b \in Accounts : b # a => roles'[b] = roles[b]
    BY <1>0, <1>2 DEF Types, Assign
  <2> QED
    BY <1>0, <2>1, <2>2 DEF Done, NobodyHasNoRole
<1>3. ASSUME NEW i \in Processes, CreateAccount(i), job[i].acc \notin users PROVE Goal
  <2> DEFINE a == job[i].acc
  <2>1. users' = users \cup {a} /\ assigned' = assigned
    BY <1>3 DEF CreateAccount, history
  <2>2. roles' = [roles EXCEPT ![a] = Declared[a]]
    BY <1>3 DEF CreateAccount
  <2>3. \A b \in Accounts : b # a => roles'[b] = roles[b]
    BY <1>0, <2>2 DEF Types
  <2> QED
    BY <1>0, <1>3, <2>1, <2>3 DEF Done, NobodyHasNoRole
<1>4. ASSUME NEW i \in Processes, CreateAccount(i), job[i].acc \in users PROVE Goal
  BY <1>1, <1>4 DEF CreateAccount, accounts, history
<1>5. ASSUME NEW i \in Processes, SetUnion(i) PROVE Goal
  <2> DEFINE a == job[i].acc
  <2>1. users' = users /\ assigned' = assigned /\ job[i].step = "set"
    BY <1>5 DEF SetUnion, history
  <2>2. a \in users
    BY <2>1 DEF BInv, Accounted
  <2>3. \A b \in Accounts : b # a => roles'[b] = roles[b]
    BY <1>0, <1>5 DEF Types, SetUnion
  <2>4. a \in Accounts => roles'[a] = job[i].seen \cup Declared[a]
    BY <1>0, <1>5 DEF Types, SetUnion, Union
  <2>5. a \in Accounts => Declared[a] \subseteq roles'[a]
    BY <2>4
  <2> QED
    BY <1>0, <2>1, <2>2, <2>3, <2>5 DEF Done, NobodyHasNoRole
<1>6. ASSUME NEW i \in Processes, Step(i) \/ Restart(i)
      PROVE  assigned' = assigned
  BY <1>6 DEF Step, Restart, Start, NextPhase, SeedPerm, SeedRow, Load, LoadFails, FindAccount,
          CreateAccount, SetUnion, ReadRoles, ReadProfile, WriteProfile, history
<1>7. ASSUME NEW i \in Processes, Step(i) \/ Restart(i) PROVE Goal
  BY <1>1, <1>3, <1>4, <1>5, <1>6, <1>7, AccountsChange DEF accounts
<1>8. CASE Outside
  <2>1. (\E a \in Accounts, R \in Assignable : Assign(a, R)) \/ UNCHANGED <<users, roles, assigned>>
    BY <1>8 DEF Outside, Revoke, Grant, PutProfile, vars, tables, accounts, history
  <2> QED
    BY <1>1, <1>2, <2>1
<1> QED
  BY <1>7, <1>8, Cases

LEMMA AccountedStep ==
    ASSUME BInv, [Next]_vars, NEW j \in Processes
    PROVE  Accounted(j)'
<1> USE DEF tables, accounts, process, history
<1>0. /\ Types /\ Placed(j) /\ Accounted(j)
      /\ job[j] \in {NoJob} \cup Job /\ NoJob.step = "none" /\ at[j] \in Nat
  BY DEF BInv, Types, NoJob
<1>1. users \subseteq users' /\ \A a \in Accounts : Done(a) => Done(a)'
  BY DoneStays
\* A process whose phase, work and account in hand stay.
<1>2. ASSUME at'[j] = at[j], left'[j] = left[j], job'[j] = job[j] PROVE Accounted(j)'
  <2>1. Phase(j)' = Phase(j) /\ (Past(j, "accounts")' <=> Past(j, "accounts"))
    BY <1>2 DEF Phase, PhaseAt, Past
  <2> QED
    BY <1>0, <1>1, <1>2, <2>1 DEF Accounted
<1>3. ASSUME Outside PROVE Accounted(j)'
  BY <1>2, <1>3, OutsideLeaves
<1>4. ASSUME NEW i \in Processes, Step(i) \/ Restart(i), i # j PROVE Accounted(j)'
  BY <1>0, <1>2, <1>4, Others
\* A process that starts, stops or goes on to another phase.
<1>5. ASSUME at'[j] \in {0, 1}, PhaseAt(j, at'[j]) = "accounts" => left'[j] = Accounts,
             job'[j].step \notin {"ensure", "set"}
      PROVE  Accounted(j)'
  <2>1. ~Past(j, "accounts")'
    BY <1>5 DEF Past
  <2>2. Phase(j)' = PhaseAt(j, at'[j])
    BY DEF Phase, PhaseAt
  <2> QED
    BY <1>5, <2>1, <2>2 DEF Accounted
<1>6. CASE Start(j)
  <2>1. at'[j] = 1 /\ left'[j] = Work(j, 1) /\ job' = job
    BY <1>0, <1>6 DEF Types, Start, Enter
  <2>2. Phase(j) = "rest"
    BY <1>6, PlanShape DEF Phase, PhaseAt, Start
  <2>3. job[j].step \notin {"ensure", "set"}
    BY <1>0, <2>2 DEF Placed
  <2> QED
    BY <1>5, <2>1, <2>3, WorkTypes
<1>7. CASE Restart(j) \/ LoadFails(j)
  <2>1. at'[j] = 0
    BY <1>0, <1>7 DEF Types, Restart, LoadFails
  <2>2. job'[j] = NoJob \/ (Phase(j) = "load" /\ job' = job)
    BY <1>0, <1>7 DEF Types, Restart, LoadFails
  <2>3. job'[j].step \notin {"ensure", "set"}
    BY <1>0, <2>2 DEF Placed
  <2> QED
    BY <1>5, <2>1, <2>3 DEF PhaseAt
<1>8. CASE NextPhase(j) \/ Load(j)
  <2>1. /\ at' = [at EXCEPT ![j] = at[j] + 1] /\ job' = job
        /\ left'[j] = Work(j, at[j] + 1)
    BY <1>0, <1>8 DEF Types, NextPhase, Load, Enter
  <2>2. at[j] \in 1..Len(Plan[j])
    BY <1>8, PhaseIsPlanned DEF NextPhase, Load
  <2>3. at'[j] = at[j] + 1 /\ (Past(j, "accounts")' <=> Past(j, "accounts") \/ Phase(j) = "accounts")
    BY <1>0, <2>1, <2>2, Advance DEF Types
  <2>4. Phase(j) = "accounts" => left[j] = {} /\ job[j] = NoJob
    BY <1>8 DEF NextPhase, Load
  <2>5. Past(j, "accounts")' => \A a \in Accounts : Done(a)
    BY <1>0, <2>3, <2>4 DEF Accounted
  <2>6. Phase(j)' = "accounts" => left'[j] = Accounts
    BY <2>1, <2>3, WorkTypes DEF Phase, PhaseAt
  <2>7. job'[j].step \notin {"ensure", "set"}
    BY <1>0, <1>8, <2>1 DEF Placed, NextPhase, Load
  <2> QED
    BY <1>1, <2>5, <2>6, <2>7 DEF Accounted
\* A process that stays in its phase.
<1>9. ASSUME at' = at PROVE Phase(j)' = Phase(j) /\ (Past(j, "accounts")' <=> Past(j, "accounts"))
  BY <1>9 DEF Phase, PhaseAt, Past
<1>10. CASE SeedPerm(j) \/ SeedRow(j) \/ ReadProfile(j) \/ WriteProfile(j)
  <2>1. at' = at /\ Phase(j) # "accounts" /\ job'[j].step \notin {"ensure", "set"}
    BY <1>0, <1>10 DEF Types, Placed, SeedPerm, SeedRow, ReadProfile, WriteProfile, Take, Finish
  <2> QED
    BY <1>0, <1>1, <1>9, <2>1 DEF Accounted
<1>11. CASE FindAccount(j)
  <2>1. PICK a \in left[j] : Take(j, a, IF a \in users THEN "ensure" ELSE "create", {})
    BY <1>11 DEF FindAccount
  <2>2. at' = at /\ job[j] = NoJob /\ Phase(j) = "accounts" /\ users' = users
    BY <1>11 DEF FindAccount
  <2>3. /\ left'[j] = left[j] \ {a}
        /\ job'[j] = [step |-> IF a \in users THEN "ensure" ELSE "create", acc |-> a, seen |-> {}]
    BY <1>0, <2>1 DEF Types, Take
  <2>4. job'[j].acc = a /\ job'[j] # NoJob /\ (job'[j].step \in {"ensure", "set"} => a \in users)
    BY <2>3 DEF NoJob
  <2>5. \A b \in Accounts \ left'[j] : Done(b) \/ b = a
    BY <1>0, <2>2, <2>3 DEF Accounted
  <2> QED
    BY <1>0, <1>1, <1>9, <2>2, <2>4, <2>5 DEF Accounted
<1>12. CASE CreateAccount(j) \/ ReadRoles(j) \/ SetUnion(j)
  <2>0. PICK a : a = job[j].acc
    OBVIOUS
  <2>1. at' = at /\ left' = left /\ job[j].step \in {"create", "ensure", "set"}
    BY <1>12 DEF CreateAccount, ReadRoles, SetUnion
  <2>2. Phase(j) = "accounts" /\ job[j] \in Job /\ a \in Accounts
    BY <1>0, <2>1, <2>0, JobFields DEF Placed
  <2>3. \A b \in Accounts \ left[j] : b # a => Done(b)
    BY <1>0, <2>0, <2>2 DEF Accounted
  <2>4. ASSUME job'[j] # NoJob, job'[j].acc = a, a \in users' PROVE Accounted(j)'
    BY <1>0, <1>1, <1>9, <2>1, <2>3, <2>4 DEF Accounted
  <2>5. ASSUME job'[j] = NoJob, Done(a)' PROVE Accounted(j)'
    <3>1. \A b \in Accounts \ left[j] : Done(b)'
      BY <1>1, <2>3, <2>5
    <3> QED
      BY <1>0, <1>1, <1>9, <2>1, <2>5, <3>1 DEF Accounted
  <2>6. CASE CreateAccount(j)
    <3>1. CASE a \in users
      <4>1. job' = [job EXCEPT ![j].step = "ensure"]
        BY <2>0, <2>6, <3>1 DEF CreateAccount
      <4>2. job'[j].step = "ensure" /\ job'[j].acc = a
        BY <1>0, <2>0, <2>2, <4>1 DEF Types, Job
      <4> QED
        BY <1>0, <1>1, <2>4, <3>1, <4>2
    <3>2. CASE a \notin users
      <4>1. users' = users \cup {a} /\ roles' = [roles EXCEPT ![a] = Declared[a]] /\ Finish(j)
        BY <2>0, <2>6, <3>2 DEF CreateAccount
      <4>2. job'[j] = NoJob /\ roles'[a] = Declared[a] /\ a \in users'
        BY <1>0, <2>2, <4>1 DEF Types, Finish
      <4> QED
        BY <2>5, <4>2 DEF Done
    <3> QED
      BY <3>1, <3>2
  <2>7. CASE ReadRoles(j)
    <3>1. a \in users
      BY <1>0, <2>0, <2>7 DEF Accounted, ReadRoles
    <3>2. CASE Complete(a)
      <4>1. job'[j] = NoJob
        BY <1>0, <2>0, <2>7, <3>2 DEF Types, ReadRoles, Finish
      <4> QED
        BY <1>1, <2>2, <2>5, <3>1, <3>2, <4>1 DEF Done, Complete
    <3>3. CASE ~Complete(a)
      <4>1. job' = [job EXCEPT ![j].step = "set", ![j].seen = roles[a]]
        BY <2>0, <2>7, <3>3 DEF ReadRoles
      <4>2. job'[j].step = "set" /\ job'[j].acc = a
        BY <1>0, <2>0, <2>2, <4>1 DEF Types, Job
      <4> QED
        BY <1>0, <1>1, <2>4, <3>1, <4>2
    <3> QED
      BY <3>2, <3>3
  <2>8. CASE SetUnion(j)
    <3>1. a \in users /\ users' = users
      BY <1>0, <2>0, <2>8 DEF Accounted, SetUnion
    <3>2. job'[j] = NoJob /\ roles'[a] = job[j].seen \cup Declared[a]
      BY <1>0, <2>0, <2>2, <2>8 DEF Types, SetUnion, Finish, Union
    <3>3. Declared[a] \subseteq roles'[a]
      BY <3>2
    <3> QED
      BY <2>5, <3>1, <3>2, <3>3 DEF Done
  <2> QED
    BY <1>12, <2>6, <2>7, <2>8
<1> QED
  BY <1>3, <1>4, <1>6, <1>7, <1>8, <1>10, <1>11, <1>12, Cases DEF Step

-------------------------------------------------------------------------------
(* Profiles.                                                                 *)

LEMMA ProfiledStep ==
    ASSUME BInv, [Next]_vars, NEW j \in Processes
    PROVE  Profiled(j)'
<1> USE DEF tables, accounts, process, history
<1>0. /\ Types /\ Profiled(j) /\ job[j] \in {NoJob} \cup Job /\ NoJob.step = "none"
      /\ job[j].step = "put" => job[j] \in Job /\ job[j].acc \in Accounts
  BY JobFields DEF BInv, Types, NoJob
<1>1. ASSUME job'[j] = job[j], j \in raced => j \in raced',
             \A a \in Accounts : profile[a] # "own" => profile'[a] # "own"
      PROVE  Profiled(j)'
  BY <1>0, <1>1 DEF Profiled
<1>2. ASSUME NEW a \in Accounts, PutProfile(a) PROVE Profiled(j)'
  <2>1. job' = job /\ profile' = [profile EXCEPT ![a] = "own"]
    BY <1>2 DEF PutProfile
  <2>2. raced' = raced \cup {i \in Processes : job[i].step = "put" /\ job[i].acc = a}
    BY <1>2 DEF PutProfile
  <2>3. \A b \in Accounts : b # a => profile'[b] = profile[b]
    BY <1>0, <2>1 DEF Types
  <2> QED
    BY <1>0, <2>1, <2>2, <2>3 DEF Profiled
<1>3. CASE Outside
  <2>1. (\E a \in Accounts : PutProfile(a)) \/ UNCHANGED <<job, raced, profile>>
    BY <1>3 DEF Outside, Revoke, Grant, Assign, vars
  <2> QED
    BY <1>1, <1>2, <2>1
<1>4. ASSUME NEW i \in Processes, Step(i) \/ Restart(i)
      PROVE  \A a \in Accounts : profile[a] # "own" => profile'[a] # "own"
  <2>1. WriteProfile(i) \/ profile' = profile
    BY <1>4 DEF Step, Restart, Start, NextPhase, SeedPerm, SeedRow, Load, LoadFails, FindAccount,
            CreateAccount, SetUnion, ReadRoles, ReadProfile
  <2>2. CASE WriteProfile(i)
    BY <1>0, <2>2 DEF Types, WriteProfile
  <2> QED
    BY <2>1, <2>2
<1>5. ASSUME NEW i \in Processes, Step(i) \/ Restart(i), i # j PROVE Profiled(j)'
  BY <1>0, <1>1, <1>4, <1>5, Others
<1>6. ASSUME job'[j].step # "put" PROVE Profiled(j)'
  BY <1>6 DEF Profiled
<1>7. CASE ReadProfile(j)
  <2>1. PICK a \in left[j] :
            IF Missing(a)
            THEN Take(j, a, "put", {})
            ELSE left' = [left EXCEPT ![j] = @ \ {a}] /\ job' = job
    BY <1>7 DEF ReadProfile
  <2>2. profile' = profile /\ job[j] = NoJob
    BY <1>7 DEF ReadProfile
  <2>3. CASE Missing(a)
    <3>1. job'[j].acc = a
      BY <1>0, <2>1, <2>3 DEF Types, Take
    <3> QED
      BY <2>2, <2>3, <3>1 DEF Profiled, Missing
  <2>4. CASE ~Missing(a)
    BY <1>0, <1>6, <2>1, <2>2, <2>4
  <2> QED
    BY <2>3, <2>4
<1>8. CASE WriteProfile(j) \/ Restart(j) \/ SetUnion(j)
  <2>1. job'[j] = NoJob
    BY <1>0, <1>8 DEF Types, WriteProfile, Restart, SetUnion, Finish
  <2> QED
    BY <1>0, <1>6, <2>1
<1>9. CASE FindAccount(j)
  <2>1. PICK a \in left[j] : Take(j, a, IF a \in users THEN "ensure" ELSE "create", {})
    BY <1>9 DEF FindAccount
  <2>2. job'[j].step \in {"ensure", "create"}
    BY <1>0, <2>1 DEF Types, Take
  <2> QED
    BY <1>6, <2>2
<1>10. CASE CreateAccount(j) \/ ReadRoles(j)
  <2>1. job[j].step \in {"create", "ensure"} /\ job[j] \in Job
    BY <1>0, <1>10 DEF CreateAccount, ReadRoles
  <2>2. \/ job' = [job EXCEPT ![j].step = "ensure"]
        \/ job' = [job EXCEPT ![j] = NoJob]
        \/ job' = [job EXCEPT ![j].step = "set", ![j].seen = roles[job[j].acc]]
    BY <1>10 DEF CreateAccount, ReadRoles, Finish
  <2>3. job'[j].step # "put"
    BY <1>0, <2>1, <2>2 DEF Types, Job
  <2> QED
    BY <1>6, <2>3
<1>11. CASE Start(j) \/ NextPhase(j) \/ SeedPerm(j) \/ SeedRow(j) \/ Load(j) \/ LoadFails(j)
  <2>1. UNCHANGED <<job, profile, raced>>
    BY <1>11 DEF Start, NextPhase, SeedPerm, SeedRow, Load, LoadFails
  <2> QED
    BY <1>1, <2>1
<1> QED
  BY <1>3, <1>5, <1>7, <1>8, <1>9, <1>10, <1>11, Cases DEF Step

-------------------------------------------------------------------------------
(* The table between two edits.                                              *)

\* A process only adds rows, and only its defaults.
LEMMA TableGrows ==
    ASSUME BInv, NEW i \in Processes, Step(i) \/ Restart(i)
    PROVE  grants \subseteq grants' /\ grants' \subseteq grants \cup Defaults(i)
<1>1. CASE SeedRow(i)
  <2>1. left[i] \subseteq Defaults(i)
    BY <1>1, WorkTypes DEF SeedRow, BInv, Placed, Phase
  <2> QED
    BY <1>1, <2>1 DEF SeedRow, GrantRow
<1>2. SeedRow(i) \/ grants' = grants
  BY DEF Step, Restart, Start, NextPhase, SeedPerm, Load, LoadFails, FindAccount, CreateAccount,
         SetUnion, ReadRoles, ReadProfile, WriteProfile, tables
<1> QED
  BY <1>1, <1>2

\* What others seed is either in the table already or unknown to this process.
LEMMA KnownRowsStay ==
    ASSUME BInv, NEW i \in Processes, Step(i) \/ Restart(i),
           NEW j \in Processes, Defaults(j) \subseteq grants
    PROVE  KnownRows(j)' = KnownRows(j)
<1>1. \A w \in Defaults(i) : w.perm \in Known[j] => w \in grants
  BY DEF Defaults
<1> QED
  BY <1>1, TableGrows DEF KnownRows

LEMMA LoadedAfterGrants ==
    ASSUME BInv, NEW j \in Processes, Past(j, "load") \/ Phase(j) = "load"
    PROVE  Past(j, "grants")
<1>0. at[j] \in Nat
  BY DEF BInv, Types
<1>1. PICK n \in 1..Len(Plan[j]) : n <= at[j] /\ Plan[j][n] = "load"
  BY <1>0, PhaseIsPlanned, PlanShape DEF Past
<1>2. PICK m \in 1..Len(Plan[j]) : m < n /\ Plan[j][m] = "grants"
  BY <1>1, PlanShape
<1>3. m < at[j]
  BY <1>0, <1>1, <1>2, PlanShape
<1> QED
  BY <1>2, <1>3 DEF Past

LEMMA SeededStep ==
    ASSUME BInv, [Next]_vars, NEW j \in Processes
    PROVE  Seeded(j)'
<1> USE DEF tables, accounts, process, history
<1>0. Types /\ Placed(j) /\ Seeded(j) /\ at[j] \in Nat
  BY DEF BInv, Types
<1>1. Defaults(j)' = Defaults(j)
  BY DEF Defaults
\* A process whose phase, work and policy stay, while the table is not edited.
<1>2. ASSUME at'[j] = at[j], left'[j] \subseteq left[j], policy'[j] = policy[j],
             since'[j] = since[j], edits' = edits, grants \subseteq grants',
             Defaults(j) \subseteq grants => KnownRows(j)' = KnownRows(j),
             Phase(j) = "grants" => left[j] \ left'[j] \subseteq grants'
      PROVE  Seeded(j)'
  <2>1. Phase(j)' = Phase(j) /\ \A p : Past(j, p)' <=> Past(j, p)
    BY <1>2 DEF Phase, PhaseAt, Past
  <2>2. Past(j, "load") => Past(j, "grants")
    BY LoadedAfterGrants
  <2>3. Phase(j) = "grants" /\ Defaults(j) \ left[j] \subseteq grants =>
            Defaults(j) \ left'[j] \subseteq grants'
    BY <1>2
  <2> QED
    BY <1>0, <1>1, <1>2, <2>1, <2>2, <2>3 DEF Seeded
<1>3. ASSUME Outside PROVE Seeded(j)'
  <2>1. UNCHANGED process /\ since' = since
    BY <1>3, OutsideLeaves
  <2>2. (\E w \in Row : Revoke(w) \/ Grant(w)) \/ (grants' = grants /\ edits'.grants = edits.grants)
    BY <1>0, <1>3 DEF Types, Outside, Assign, PutProfile, Edit, vars
  <2>3. ASSUME NEW w \in Row, Revoke(w) \/ Grant(w) PROVE Seeded(j)'
    <3>1. edits'.grants = edits.grants + 1 /\ edits.grants \in Nat
      BY <1>0, <2>3, BootstrapAssumption DEF Types, Revoke, Grant, Edit
    <3>2. since'[j] # edits'.grants
      BY <1>0, <2>1, <3>1 DEF Types, Placed
    <3> QED
      BY <3>2 DEF Seeded
  <2>4. ASSUME grants' = grants, edits'.grants = edits.grants PROVE Seeded(j)'
    <3>1. Phase(j)' = Phase(j) /\ \A p : Past(j, p)' <=> Past(j, p)
      BY <2>1 DEF Phase, PhaseAt, Past
    <3>2. KnownRows(j)' = KnownRows(j)
      BY <2>4 DEF KnownRows
    <3> QED
      BY <1>0, <1>1, <2>1, <2>4, <3>1, <3>2 DEF Seeded
  <2> QED
    BY <2>2, <2>3, <2>4
<1>4. ASSUME NEW i \in Processes, Step(i) \/ Restart(i), i # j PROVE Seeded(j)'
  BY <1>0, <1>2, <1>4, Others, TableGrows, KnownRowsStay
\* A process that starts or stops.
<1>5. ASSUME at'[j] \in {0, 1}, PhaseAt(j, at'[j]) = "grants" => left'[j] = Defaults(j)
      PROVE  Seeded(j)'
  <2>1. \A p : ~Past(j, p)'
    BY <1>5 DEF Past
  <2>2. Phase(j)' = PhaseAt(j, at'[j])
    BY DEF Phase, PhaseAt
  <2> QED
    BY <1>1, <1>5, <2>1, <2>2 DEF Seeded
<1>6. CASE Start(j)
  <2>1. at'[j] = 1 /\ left'[j] = Work(j, 1)
    BY <1>0, <1>6 DEF Types, Start, Enter
  <2> QED
    BY <1>5, <2>1, WorkTypes
<1>7. CASE Restart(j) \/ LoadFails(j)
  <2>1. at'[j] = 0
    BY <1>0, <1>7 DEF Types, Restart, LoadFails
  <2> QED
    BY <1>5, <2>1 DEF PhaseAt
<1>8. CASE NextPhase(j) \/ Load(j)
  <2>1. /\ at' = [at EXCEPT ![j] = at[j] + 1] /\ grants' = grants
        /\ left'[j] = Work(j, at[j] + 1) /\ since' = since /\ edits' = edits
    BY <1>0, <1>8 DEF Types, NextPhase, Load, Enter
  <2>2. at[j] \in 1..Len(Plan[j])
    BY <1>8, PhaseIsPlanned DEF NextPhase, Load
  <2>3. at'[j] = at[j] + 1 /\ \A p : Past(j, p)' <=> Past(j, p) \/ Phase(j) = p
    BY <1>0, <2>1, <2>2, Advance DEF Types
  <2>4. Phase(j)' = "grants" => left'[j] = Defaults(j)
    BY <2>1, <2>3, WorkTypes DEF Phase, PhaseAt
  <2>5. Phase(j) = "grants" => left[j] = {}
    BY <1>8 DEF NextPhase, Load
  <2>6. ASSUME since[j] = edits.grants, Past(j, "grants")' PROVE Defaults(j) \subseteq grants
    BY <1>0, <2>3, <2>5, <2>6 DEF Seeded
  <2>7. ASSUME since[j] = edits.grants, Past(j, "load")' PROVE policy'[j] = FromRoles(KnownRows(j))
    <3>1. CASE Load(j)
      <4>1. policy'[j] = FromRoles(grants) /\ Readable(j)
        BY <1>0, <3>1 DEF Types, Load
      <4>2. KnownRows(j) = grants
        BY <4>1 DEF KnownRows, Readable
      <4> QED
        BY <4>1, <4>2
    <3>2. CASE NextPhase(j)
      <4>1. policy' = policy /\ Phase(j) # "load"
        BY <3>2 DEF NextPhase
      <4> QED
        BY <1>0, <2>3, <2>7, <4>1 DEF Seeded
    <3> QED
      BY <1>8, <3>1, <3>2
  <2>8. KnownRows(j)' = KnownRows(j)
    BY <2>1 DEF KnownRows
  <2> QED
    BY <1>1, <2>1, <2>4, <2>6, <2>7, <2>8 DEF Seeded
<1>9. CASE SeedRow(j)
  <2>1. PICK w \in left[j] : grants' = grants \cup {w} /\ left' = [left EXCEPT ![j] = @ \ {w}]
    BY <1>9 DEF SeedRow, GrantRow
  <2>2. left'[j] = left[j] \ {w}
    BY <1>0, <2>1 DEF Types
  <2>3. UNCHANGED <<at, policy, since, edits>>
    BY <1>9 DEF SeedRow
  <2> QED
    BY <1>2, <1>9, <2>1, <2>2, <2>3, KnownRowsStay DEF Step
\* A process that does something else in its phase.
<1>10. ASSUME at' = at, left'[j] \subseteq left[j], UNCHANGED <<grants, policy, since, edits>>,
              Phase(j) # "grants"
       PROVE  Seeded(j)'
  BY <1>2, <1>10 DEF KnownRows
<1>11. CASE \/ SeedPerm(j) \/ FindAccount(j) \/ CreateAccount(j) \/ ReadRoles(j) \/ SetUnion(j)
            \/ ReadProfile(j) \/ WriteProfile(j)
  <2>1. at' = at /\ UNCHANGED <<grants, policy, since, edits>>
    BY <1>11 DEF SeedPerm, FindAccount, CreateAccount, ReadRoles, SetUnion, ReadProfile, WriteProfile
  <2>2. left'[j] \subseteq left[j]
    BY <1>0, <1>11 DEF Types, SeedPerm, FindAccount, CreateAccount, ReadRoles, SetUnion, ReadProfile,
           WriteProfile, Take
  <2>3. \/ Phase(j) \in {"catalog", "accounts", "profiles"}
        \/ job[j].step \in {"create", "ensure", "set", "put"}
    BY <1>11 DEF SeedPerm, FindAccount, CreateAccount, ReadRoles, SetUnion, ReadProfile, WriteProfile
  <2>4. Phase(j) # "grants"
    BY <1>0, <2>3 DEF Placed
  <2> QED
    BY <1>10, <2>1, <2>2, <2>4
<1> QED
  BY <1>3, <1>4, <1>6, <1>7, <1>8, <1>9, <1>11, Cases DEF Step

-------------------------------------------------------------------------------
(* What a process has written is there, or an operator has deleted it.       *)

\* Only an operator takes a row, and that is on record.
LEMMA LossIsOnRecord ==
    ASSUME BInv, [Next]_vars
    PROVE  grants \cup revoked \subseteq (grants \cup revoked)'
<1> USE DEF tables, accounts, process, history
<1>1. ASSUME NEW w \in Row, Revoke(w) \/ Grant(w)
      PROVE  grants \cup revoked \subseteq (grants \cup revoked)'
  BY <1>1 DEF Revoke, Grant
<1>2. ASSUME NEW i \in Processes, Step(i) \/ Restart(i)
      PROVE  grants \cup revoked \subseteq (grants \cup revoked)'
  <2>1. grants \subseteq grants'
    BY <1>2, TableGrows
  <2>2. revoked' = revoked
    BY <1>2 DEF Step, Restart, Start, NextPhase, SeedPerm, SeedRow, Load, LoadFails, FindAccount,
           CreateAccount, SetUnion, ReadRoles, ReadProfile, WriteProfile
  <2> QED
    BY <2>1, <2>2
<1>3. CASE Outside
  <2>1. (\E w \in Row : Revoke(w) \/ Grant(w)) \/ UNCHANGED <<grants, revoked>>
    BY <1>3 DEF Outside, Assign, PutProfile, vars
  <2> QED
    BY <1>1, <2>1
<1> QED
  BY <1>2, <1>3, Cases

LEMMA NothingLostStep ==
    ASSUME BInv, [Next]_vars, NEW j \in Processes
    PROVE  NothingLost(j)'
<1> USE DEF tables, accounts, process, history
<1> DEFINE Safe == grants \cup revoked
<1>0. Types /\ Placed(j) /\ NothingLost(j) /\ at[j] \in Nat
  BY DEF BInv, Types
<1>1. Safe \subseteq Safe' /\ Defaults(j)' = Defaults(j)
  BY LossIsOnRecord DEF Defaults
\* A process that stays in its phase.
<1>2. ASSUME at'[j] = at[j], left'[j] \subseteq left[j],
             Phase(j) = "grants" => left[j] \ left'[j] \subseteq grants'
      PROVE  NothingLost(j)'
  <2>1. Phase(j)' = Phase(j) /\ \A p : Past(j, p)' <=> Past(j, p)
    BY <1>2 DEF Phase, PhaseAt, Past
  <2> QED
    BY <1>0, <1>1, <1>2, <2>1 DEF NothingLost
<1>3. CASE Outside
  BY <1>2, <1>3, OutsideLeaves
<1>4. ASSUME NEW i \in Processes, Step(i) \/ Restart(i), i # j PROVE NothingLost(j)'
  BY <1>0, <1>2, <1>4, Others
\* A process that starts or stops.
<1>5. ASSUME at'[j] \in {0, 1}, PhaseAt(j, at'[j]) = "grants" => left'[j] = Defaults(j)
      PROVE  NothingLost(j)'
  <2>1. \A p : ~Past(j, p)'
    BY <1>5 DEF Past
  <2>2. Phase(j)' = PhaseAt(j, at'[j])
    BY DEF Phase, PhaseAt
  <2> QED
    BY <1>1, <1>5, <2>1, <2>2 DEF NothingLost
<1>6. CASE Start(j)
  <2>1. at'[j] = 1 /\ left'[j] = Work(j, 1)
    BY <1>0, <1>6 DEF Types, Start, Enter
  <2> QED
    BY <1>5, <2>1, WorkTypes
<1>7. CASE Restart(j) \/ LoadFails(j)
  <2>1. at'[j] = 0
    BY <1>0, <1>7 DEF Types, Restart, LoadFails
  <2> QED
    BY <1>5, <2>1 DEF PhaseAt
<1>8. CASE NextPhase(j) \/ Load(j)
  <2>1. at' = [at EXCEPT ![j] = at[j] + 1] /\ left'[j] = Work(j, at[j] + 1)
    BY <1>0, <1>8 DEF Types, NextPhase, Load, Enter
  <2>2. at[j] \in 1..Len(Plan[j])
    BY <1>8, PhaseIsPlanned DEF NextPhase, Load
  <2>3. at'[j] = at[j] + 1 /\ \A p : Past(j, p)' <=> Past(j, p) \/ Phase(j) = p
    BY <1>0, <2>1, <2>2, Advance DEF Types
  <2>4. Phase(j)' = "grants" => left'[j] = Defaults(j)
    BY <2>1, <2>3, WorkTypes DEF Phase, PhaseAt
  <2>5. Phase(j) = "grants" => left[j] = {}
    BY <1>8 DEF NextPhase, Load
  <2> QED
    BY <1>0, <1>1, <2>3, <2>4, <2>5 DEF NothingLost
<1>9. CASE SeedRow(j)
  <2>1. PICK w \in left[j] : grants' = grants \cup {w} /\ left' = [left EXCEPT ![j] = @ \ {w}]
    BY <1>9 DEF SeedRow, GrantRow
  <2>2. left'[j] = left[j] \ {w} /\ at' = at
    BY <1>0, <1>9, <2>1 DEF Types, SeedRow
  <2> QED
    BY <1>2, <2>1, <2>2
\* A process that does something else in its phase.
<1>10. CASE \/ SeedPerm(j) \/ FindAccount(j) \/ CreateAccount(j) \/ ReadRoles(j) \/ SetUnion(j)
            \/ ReadProfile(j) \/ WriteProfile(j)
  <2>1. at' = at
    BY <1>10 DEF SeedPerm, FindAccount, CreateAccount, ReadRoles, SetUnion, ReadProfile, WriteProfile
  <2>2. left'[j] \subseteq left[j]
    BY <1>0, <1>10 DEF Types, SeedPerm, FindAccount, CreateAccount, ReadRoles, SetUnion, ReadProfile,
           WriteProfile, Take
  <2>3. \/ Phase(j) \in {"catalog", "accounts", "profiles"}
        \/ job[j].step \in {"create", "ensure", "set", "put"}
    BY <1>10 DEF SeedPerm, FindAccount, CreateAccount, ReadRoles, SetUnion, ReadProfile, WriteProfile
  <2>4. Phase(j) # "grants"
    BY <1>0, <2>3 DEF Placed
  <2> QED
    BY <1>2, <2>1, <2>2, <2>4
<1> QED
  BY <1>3, <1>4, <1>6, <1>7, <1>8, <1>9, <1>10, Cases DEF Step

-------------------------------------------------------------------------------
(* The invariant holds in every state.                                       *)

LEMMA InitBInv ==
    ASSUME Init
    PROVE  BInv
<1> USE DEF Init
<1>1. Types
  BY BootstrapAssumption DEF Types
<1>2. ASSUME NEW i \in Processes
      PROVE  /\ at[i] = 0 /\ left[i] = {} /\ job[i] = NoJob /\ NoJob.step = "none"
             /\ Phase(i) = "rest" /\ \A p : ~Past(i, p)
  BY DEF NoJob, Phase, PhaseAt, Past
<1>3. ASSUME NEW i \in Processes PROVE Placed(i)
  BY <1>2, PlanShape DEF Placed
<1>4. ASSUME NEW i \in Processes PROVE PolicyOfATable(i) /\ Seeded(i) /\ NothingLost(i)
  BY <1>2 DEF PolicyOfATable, Seeded, NothingLost
<1>5. ASSUME NEW i \in Processes PROVE Accounted(i) /\ Profiled(i)
  BY <1>2 DEF Accounted, Profiled
<1>6. NobodyHasNoRole
  BY DEF NobodyHasNoRole
<1> QED
  BY <1>1, <1>3, <1>4, <1>5, <1>6 DEF BInv

LEMMA StepBInv ==
    ASSUME BInv, [Next]_vars
    PROVE  BInv'
<1>1. Types' /\ NobodyHasNoRole'
  BY TypesStep, DoneStays
<1>2. ASSUME NEW j \in Processes
      PROVE  /\ Placed(j)' /\ PolicyOfATable(j)' /\ Seeded(j)' /\ NothingLost(j)'
             /\ Accounted(j)' /\ Profiled(j)'
  BY PlacedStep, PolicyStep, SeededStep, NothingLostStep, AccountedStep, ProfiledStep
<1> QED
  BY <1>1, <1>2 DEF BInv

THEOREM Invariance == Spec => []BInv
<1>1. Init => BInv
  BY InitBInv
<1>2. BInv /\ [Next]_vars => BInv'
  BY StepBInv
<1> QED
  BY <1>1, <1>2, PTL DEF Spec

-------------------------------------------------------------------------------
(* The properties the runs check.                                            *)

\* Every variable has its type, and no process has work or an account in hand that
\* does not belong to its phase.
THEOREM TypeCorrect == Spec => []TypeOK
<1>1. ASSUME BInv PROVE TypeOK
  <2>0. Types
    BY <1>1 DEF BInv
  <2>1. ASSUME NEW i \in Processes
        PROVE  /\ at[i] \in 0..(Len(Plan[i]) + 1)
               /\ left[i] \subseteq Work(i, at[i])
               /\ job[i] \in {NoJob} \cup Job
               /\ job[i].step \in {"create", "ensure", "set"} => Phase(i) = "accounts"
               /\ job[i].step = "put" => Phase(i) = "profiles"
               /\ since[i] \in 0..edits.grants
               /\ i \in raced => job[i].step = "put"
    BY <1>1, <2>0, PlanShape, BootstrapAssumption DEF BInv, Types, Placed
  <2> QED
    BY <2>0, <2>1 DEF Types, TypeOK
<1> QED
  BY <1>1, Invariance, PTL

\* A serving process has every default of its binary in the table that no operator
\* has deleted, and it enforces the table, as far as its binary knows it, until an
\* operator edits it.
THEOREM PolicyIsCurrent == Spec => []PolicyCurrent
<1>1. ASSUME BInv PROVE PolicyCurrent
  <2>1. ASSUME NEW i \in Processes, Serving(i)
        PROVE  /\ Defaults(i) \ revoked \subseteq grants
               /\ since[i] = edits.grants => policy[i] = FromRoles(KnownRows(i))
    <3>1. Past(i, "load")
      BY <1>1, <2>1, PlanShape DEF Serving, Up, Past, BInv, Types
    <3>2. Past(i, "grants")
      BY <1>1, <3>1, LoadedAfterGrants
    <3> QED
      BY <1>1, <3>1, <3>2 DEF BInv, Seeded, NothingLost
  <2> QED
    BY <2>1 DEF PolicyCurrent, KnownRows
<1> QED
  BY <1>1, Invariance, PTL

\* Whoever passes the gate of a permission passes the gates of all it implies.
THEOREM GatesAreMonotone == Spec => []AllImpliesOwn
<1>1. ASSUME BInv PROVE AllImpliesOwn
  <2>1. ASSUME NEW i \in Processes, NEW R \in SUBSET RoleNames, NEW scope \in SUBSET Perms,
               NEW p \in MyPermissions(policy[i], R, scope), NEW q \in Implies[p]
        PROVE  RequireScoped(policy[i], R, scope, q)
    <3>1. CASE policy[i] = << >>
      BY <2>1, <3>1 DEF MyPermissions, PermsFor
    <3>2. CASE \E rows \in SUBSET Row : policy[i] = FromRoles(rows)
      BY <2>1, <3>2, GateIsMonotone
    <3> QED
      BY <1>1, <3>1, <3>2 DEF BInv, PolicyOfATable
  <2> QED
    BY <2>1 DEF AllImpliesOwn, RequireAll
<1> QED
  BY <1>1, Invariance, PTL

\* Once a process has seeded the accounts they are there, with their declared roles
\* unless an administrator has set them.
THEOREM AccountsAreComplete == Spec => []AccountsComplete
<1>1. ASSUME BInv PROVE AccountsComplete
  BY <1>1 DEF BInv, Accounted, Done, AccountsComplete
<1> QED
  BY <1>1, Invariance, PTL

\* Seeding takes a role from an account only if it was granted between the read and
\* the write.
THEOREM SeedingIsAdditive == Spec => SeedingTakesNoRole
<1> DEFINE Kept == \A a \in Accounts : \A x \in roles[a] \ roles'[a] :
                      \/ edits'.roles # edits.roles
                      \/ \E i \in Processes :
                          job[i].step = "set" /\ job[i].acc = a /\ job'[i] = NoJob /\ x \notin job[i].seen
<1>1. ASSUME BInv, [Next]_vars PROVE Kept
  <2>0. Types /\ NobodyHasNoRole
    BY <1>1 DEF BInv
  <2>1. CASE roles' = roles
    BY <2>1
  <2>2. ASSUME NEW a \in Accounts, NEW R, Assign(a, R) PROVE edits'.roles # edits.roles
    <3>1. edits.roles \in Nat /\ edits'.roles = edits.roles + 1
      BY <2>0, <2>2, BootstrapAssumption DEF Types, Assign, Edit
    <3> QED
      BY <3>1
  <2>3. ASSUME NEW i \in Processes, CreateAccount(i) PROVE Kept
    <3>1. CASE roles' = roles
      BY <3>1
    <3>2. CASE job[i].acc \notin users /\ roles' = [roles EXCEPT ![job[i].acc] = Declared[job[i].acc]]
      <4>1. ASSUME NEW a \in Accounts PROVE roles[a] \subseteq roles'[a]
        BY <2>0, <3>2 DEF Types, NobodyHasNoRole
      <4> QED
        BY <4>1
    <3> QED
      BY <2>3, <3>1, <3>2 DEF CreateAccount, accounts
  <2>4. ASSUME NEW i \in Processes, SetUnion(i) PROVE Kept
    <3>1. ASSUME NEW a \in Accounts, NEW x \in roles[a] \ roles'[a]
          PROVE  /\ job[i].step = "set" /\ job[i].acc = a
                 /\ job'[i] = NoJob /\ x \notin job[i].seen
      <4>1. roles' = [roles EXCEPT ![job[i].acc] = Union(i)] /\ job[i].step = "set" /\ Finish(i)
        BY <2>4 DEF SetUnion
      <4>2. job[i].acc = a
        BY <2>0, <3>1, <4>1 DEF Types
      <4>3. x \notin job[i].seen
        BY <2>0, <3>1, <4>1, <4>2 DEF Types, Union
      <4>4. job'[i] = NoJob
        BY <2>0, <4>1 DEF Types, Finish
      <4> QED
        BY <4>1, <4>2, <4>3, <4>4
    <3> QED
      BY <3>1
  <2>5. CASE Outside
    <3>1. (\E a \in Accounts, R \in Assignable : Assign(a, R)) \/ roles' = roles
      BY <2>5 DEF Outside, Revoke, Grant, PutProfile, vars, tables, accounts
    <3> QED
      BY <2>1, <2>2, <3>1
  <2>6. ASSUME NEW i \in Processes, Step(i) \/ Restart(i) PROVE Kept
    BY <2>1, <2>3, <2>4, <2>6, AccountsChange DEF accounts
  <2> QED
    BY <1>1, <2>5, <2>6, Cases
<1>2. BInv /\ [Next]_vars => [Kept]_vars
  BY <1>1
<1> QED
  BY <1>2, Invariance, PTL DEF Spec, SeedingTakesNoRole

\* A profile its user wrote is overwritten only by a seeder that had looked for it
\* before.
THEOREM ProfilesAreKept == Spec => ProfilesKept
<1> DEFINE Kept == \A a \in Accounts : (profile[a] = "own" /\ profile'[a] # "own") =>
                      \E i \in raced : job[i].acc = a /\ job'[i] = NoJob
<1>1. ASSUME BInv, [Next]_vars PROVE Kept
  <2>0. Types
    BY <1>1 DEF BInv
  <2>1. CASE profile' = profile
    BY <2>1
  <2>2. ASSUME NEW b \in Accounts, PutProfile(b) PROVE Kept
    BY <2>0, <2>2 DEF Types, PutProfile
  <2>3. ASSUME NEW i \in Processes, WriteProfile(i) PROVE Kept
    <3>1. job[i].step = "put" /\ profile' = [profile EXCEPT ![job[i].acc] = "seed"] /\ Finish(i)
      BY <2>3 DEF WriteProfile
    <3>2. profile[job[i].acc] # "own" \/ i \in raced
      BY <1>1, <3>1 DEF BInv, Profiled
    <3>3. job'[i] = NoJob
      BY <2>0, <3>1 DEF Types, Finish
    <3>4. \A a \in Accounts : a # job[i].acc => profile'[a] = profile[a]
      BY <2>0, <3>1 DEF Types
    <3> QED
      BY <3>2, <3>3, <3>4
  <2>4. ASSUME NEW i \in Processes, Step(i) \/ Restart(i)
        PROVE  WriteProfile(i) \/ profile' = profile
    BY <2>4 DEF Step, Restart, Start, NextPhase, SeedPerm, SeedRow, Load, LoadFails, FindAccount,
            CreateAccount, SetUnion, ReadRoles, ReadProfile, tables
  <2>5. CASE Outside
    <3>1. (\E a \in Accounts : PutProfile(a)) \/ profile' = profile
      BY <2>5 DEF Outside, Revoke, Grant, Assign, vars, tables
    <3> QED
      BY <2>1, <2>2, <3>1
  <2> QED
    BY <1>1, <2>1, <2>3, <2>4, <2>5, Cases
<1>2. BInv /\ [Next]_vars => [Kept]_vars
  BY <1>1
<1> QED
  BY <1>2, Invariance, PTL DEF Spec, ProfilesKept

===============================================================================
