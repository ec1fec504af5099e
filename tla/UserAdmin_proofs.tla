--------------------------- MODULE UserAdmin_proofs ---------------------------
(***************************************************************************)
(* Proofs about UserAdmin for every set of users, roles and handlers, every  *)
(* policy and every bound.                                                   *)
(***************************************************************************)
EXTENDS UserAdmin, TLAPS

-------------------------------------------------------------------------------
(* The inductive invariant.                                                  *)

\* What a handler that is under way has been judged by.
Judged(h) == h # Idle =>
    /\ h.op \in {"create", "set_roles"} => NoEscalation(h.claims, h.new)
    /\ h.op = "delete" => h.actor # h.target
    /\ h.op = "create" => h.phase = "write" /\ h.checked = {}
    /\ NoEscalation(h.claims, h.found)
    /\ (h.op = "set_roles" /\ h.phase # "guard") => SelfKeepsAdmin(h.actor, h.target, h.new)
    /\ h.phase = "check" => h.op = "set_roles"
    /\ (h.op = "set_roles" /\ h.phase = "write") => h.checked \ Closed \subseteq h.new

Types ==
    /\ account \in [Users -> {"absent", "live", "deleted"}]
    /\ roles \in [Users -> SUBSET Roles]
    /\ password \in [Users -> Nat]
    /\ identity \in [Users -> Nat]
    /\ sessions \subseteq [user : Users, pw : Nat]
    /\ claims \in [Users -> SUBSET Roles]
    /\ req \in [Requests -> {Idle} \cup Handler]
    /\ accepted \in 0..MaxAccepted
    /\ reset \in [Users -> Nat]

Revoking(r, op) == req[r].phase = "revoke" /\ req[r].op = op

\* A deletion has happened before its sessions are revoked; a reset announces no
\* password that was not set.
Ordered ==
    /\ \A r \in Requests : Revoking(r, "delete") => account[req[r].target] = "deleted"
    /\ \A r \in Requests : Revoking(r, "reset_password") => req[r].gen <= password[req[r].target]
    /\ \A u \in Users : reset[u] <= password[u]

AInv == Types /\ (\A r \in Requests : Judged(req[r])) /\ Ordered /\ ResetEndsSessions

-------------------------------------------------------------------------------
(* Operators.                                                                *)

LEMMA NothingGranted == ASSUME NEW C PROVE NoEscalation(C, {})
BY DEF NoEscalation, PermsFor

LEMMA PermsMonotone ==
    ASSUME NEW R, NEW S, R \subseteq S
    PROVE  PermsFor(R) \subseteq PermsFor(S)
BY DEF PermsFor

LEMMA HandlerFields ==
    ASSUME NEW h \in {Idle} \cup Handler, h.phase # "idle"
    PROVE  /\ h \in Handler
           /\ h # Idle
           /\ h.op \in Ops /\ h.actor \in Users /\ h.claims \subseteq Roles
           /\ h.target \in Users /\ h.new \subseteq Roles /\ h.gen \in Nat
           /\ h.found \subseteq Roles /\ h.checked \subseteq Roles
BY DEF Idle, Handler

LEMMA HandlersAreNotIdle ==
    ASSUME NEW h \in {Idle} \cup Handler
    PROVE  h # Idle <=> h.phase # "idle"
BY DEF Idle, Handler

\* One handler moves on.
LEMMA Moved ==
    ASSUME Types, \A q \in Requests : Judged(req[q]),
           NEW r \in Requests, NEW x \in {Idle} \cup Handler, Judged(x),
           req' = [req EXCEPT ![r] = x]
    PROVE  /\ req' \in [Requests -> {Idle} \cup Handler]
           /\ req'[r] = x
           /\ \A q \in Requests : q # r => req'[q] = req[q]
           /\ \A q \in Requests : Judged(req'[q])
<1>1. /\ req' \in [Requests -> {Idle} \cup Handler]
      /\ req'[r] = x
      /\ \A q \in Requests : q # r => req'[q] = req[q]
  BY DEF Types
<1>2. \A q \in Requests : Judged(req'[q])
  <2> TAKE q \in Requests
  <2>1. CASE q = r
    BY <1>1, <2>1
  <2>2. CASE q # r
    BY <1>1, <2>2
  <2> QED
    BY <2>1, <2>2
<1> QED
  BY <1>1, <1>2

LEMMA IdleIsJudged == Idle \in {Idle} \cup Handler /\ Judged(Idle)
BY DEF Judged

-------------------------------------------------------------------------------
(* What each step makes of its handler.                                      *)

LEMMA AcceptMoves ==
    ASSUME Types, NEW r \in Requests, NEW op \in Ops, NEW a \in Users, NEW t \in Users,
           NEW new \in SUBSET Roles, Accept(r, op, a, t, new)
    PROVE  \E x \in Handler :
             /\ req' = [req EXCEPT ![r] = x] /\ Judged(x)
             /\ x.phase \in {"guard", "write"}
<1> DEFINE x == [phase |-> IF op = "create" THEN "write" ELSE "guard", op |-> op,
                 actor |-> a, claims |-> claims[a], target |-> t,
                 new |-> new, gen |-> 0, found |-> {}, checked |-> {}]
<1>1. claims[a] \in SUBSET Roles
  BY DEF Types
<1>2. x \in Handler
  BY <1>1 DEF Handler, Ops
<1>3. req' = [req EXCEPT ![r] = x]
  BY DEF Accept
<1>4. /\ op = "delete" => a # t
      /\ op \in {"create", "set_roles"} => NoEscalation(claims[a], new)
  BY DEF Accept, NotSelf
<1>5. Judged(x)
  BY <1>4, NothingGranted DEF Judged
<1> QED
  BY <1>2, <1>3, <1>5

LEMMA GuardMoves ==
    ASSUME Types, NEW r \in Requests, Judged(req[r]), Guard(r)
    PROVE  \E x \in {Idle} \cup Handler :
             req' = [req EXCEPT ![r] = x] /\ Judged(x) /\ x.phase \in {"idle", "find", "write"}
<1> DEFINE h == req[r]
           x == [h EXCEPT !.phase = AfterGuard(h.op), !.found = roles[h.target]]
<1>1. h \in {Idle} \cup Handler /\ h.phase = "guard"
  BY DEF Types, Guard
<1>2. h \in Handler /\ h # Idle /\ h.target \in Users /\ h.op \in Ops
  BY <1>1, HandlerFields
<1>3. CASE account[h.target] = "live" /\ TargetGuard(h)
           /\ (h.op = "set_roles" => SelfKeepsAdmin(h.actor, h.target, h.new))
  <2>1. req' = [req EXCEPT ![r] = x]
    BY <1>2, <1>3 DEF Guard, Types
  <2>2. roles[h.target] \in SUBSET Roles
    BY <1>2 DEF Types
  <2>3. AfterGuard(h.op) \in {"find", "write"}
    BY DEF AfterGuard
  <2>4. x \in Handler
    BY <1>2, <2>2, <2>3 DEF Handler
  <2>5. /\ x.phase = AfterGuard(h.op) /\ x.found = roles[h.target]
        /\ x.op = h.op /\ x.claims = h.claims /\ x.new = h.new
        /\ x.actor = h.actor /\ x.target = h.target
    BY <1>2 DEF Handler
  <2>6. NoEscalation(h.claims, roles[h.target])
    BY <1>3 DEF TargetGuard, TargetRoles
  <2>7. h.op # "create"
    BY <1>1, <1>2 DEF Judged
  <2>8. x.op = "set_roles" => x.phase = "find"
    BY <2>5 DEF AfterGuard
  <2>9. Judged(x)
    BY <1>2, <1>3, <2>3, <2>5, <2>6, <2>7, <2>8 DEF Judged
  <2> QED
    BY <2>1, <2>3, <2>4, <2>5, <2>9
<1>4. CASE ~(account[h.target] = "live" /\ TargetGuard(h)
           /\ (h.op = "set_roles" => SelfKeepsAdmin(h.actor, h.target, h.new)))
  <2>1. req' = [req EXCEPT ![r] = Idle]
    BY <1>4 DEF Guard, Done
  <2> QED
    BY <2>1, IdleIsJudged DEF Idle
<1> QED
  BY <1>3, <1>4

LEMMA FindMoves ==
    ASSUME Types, NEW r \in Requests, Judged(req[r]), Find(r)
    PROVE  \E x \in {Idle} \cup Handler :
             req' = [req EXCEPT ![r] = x] /\ Judged(x) /\ x.phase \in {"idle", "check", "write"}
<1> DEFINE h == req[r]
           x == [h EXCEPT !.phase = IF h.op = "set_roles" THEN "check" ELSE "write"]
<1>1. h \in {Idle} \cup Handler /\ h.phase = "find"
  BY DEF Types, Find
<1>2. h \in Handler /\ h # Idle
  BY <1>1, HandlerFields
<1>3. CASE account[h.target] = "live"
  <2>1. req' = [req EXCEPT ![r] = x]
    BY <1>2, <1>3 DEF Find, Goto, Types
  <2>2. x \in Handler
    BY <1>2 DEF Handler
  <2>3. /\ x.phase = IF h.op = "set_roles" THEN "check" ELSE "write"
        /\ x.op = h.op /\ x.claims = h.claims /\ x.new = h.new
        /\ x.actor = h.actor /\ x.target = h.target /\ x.found = h.found
    BY <1>2 DEF Handler
  <2>4. Judged(x)
    BY <1>1, <1>2, <2>3 DEF Judged
  <2> QED
    BY <2>1, <2>2, <2>3, <2>4
<1>4. CASE account[h.target] # "live"
  <2>1. req' = [req EXCEPT ![r] = Idle]
    BY <1>4 DEF Find, Done
  <2> QED
    BY <2>1, IdleIsJudged DEF Idle
<1> QED
  BY <1>3, <1>4

LEMMA CheckMoves ==
    ASSUME Types, NEW r \in Requests, Judged(req[r]), Check(r)
    PROVE  \E x \in {Idle} \cup Handler :
             req' = [req EXCEPT ![r] = x] /\ Judged(x) /\ x.phase \in {"idle", "write"}
<1> DEFINE h == req[r]
           x == [h EXCEPT !.phase = "write", !.checked = roles[h.target]]
<1>1. h \in {Idle} \cup Handler /\ h.phase = "check"
  BY DEF Types, Check
<1>2. h \in Handler /\ h # Idle /\ h.target \in Users
  BY <1>1, HandlerFields
<1>3. CASE Stripped(h.target, h.new) = {}
  <2>1. req' = [req EXCEPT ![r] = x]
    BY <1>2, <1>3 DEF Check, Types
  <2>2. roles[h.target] \in SUBSET Roles
    BY <1>2 DEF Types
  <2>3. x \in Handler
    BY <1>2, <2>2 DEF Handler
  <2>4. /\ x.phase = "write" /\ x.checked = roles[h.target]
        /\ x.op = h.op /\ x.claims = h.claims /\ x.new = h.new
        /\ x.actor = h.actor /\ x.target = h.target /\ x.found = h.found
    BY <1>2 DEF Handler
  <2>5. roles[h.target] \ Closed \subseteq h.new
    BY <1>3 DEF Stripped
  <2>6. Judged(x)
    BY <1>1, <1>2, <2>4, <2>5 DEF Judged
  <2> QED
    BY <2>1, <2>3, <2>4, <2>6
<1>4. CASE Stripped(h.target, h.new) # {}
  <2>1. req' = [req EXCEPT ![r] = Idle]
    BY <1>4 DEF Check, Done
  <2> QED
    BY <2>1, IdleIsJudged DEF Idle
<1> QED
  BY <1>3, <1>4

\* After its write a deletion or a reset goes on to the sessions.
LEMMA GoesOn ==
    ASSUME Types, NEW r \in Requests, Judged(req[r]), NEW g \in Nat,
           req[r].phase = "write", req[r].op \in {"delete", "reset_password"}
    PROVE  LET x == [req[r] EXCEPT !.phase = "revoke", !.gen = g]
           IN  /\ x \in Handler /\ Judged(x) /\ x.phase = "revoke" /\ x.gen = g
               /\ x.op = req[r].op /\ x.target = req[r].target
<1> DEFINE h == req[r]
           x == [h EXCEPT !.phase = "revoke", !.gen = g]
<1>1. h \in {Idle} \cup Handler
  BY DEF Types
<1>2. h \in Handler /\ h # Idle
  BY <1>1, HandlerFields
<1>3. x \in Handler
  BY <1>2 DEF Handler
<1>4. /\ x.phase = "revoke" /\ x.gen = g /\ x.op = h.op /\ x.target = h.target
      /\ x.actor = h.actor /\ x.claims = h.claims /\ x.new = h.new /\ x.found = h.found
  BY <1>2 DEF Handler
<1>5. Judged(x)
  BY <1>2, <1>4 DEF Judged
<1> QED
  BY <1>3, <1>4, <1>5

-------------------------------------------------------------------------------
(* The steps.                                                                *)

\* A step that only moves handler r, and not to its sessions.
LEMMA QuietStep ==
    ASSUME AInv, NEW r \in Requests, NEW x \in {Idle} \cup Handler, Judged(x),
           x.phase # "revoke", req' = [req EXCEPT ![r] = x],
           accepted' \in 0..MaxAccepted,
           UNCHANGED <<idm, claims, reset>>
    PROVE  AInv'
<1>1. /\ req' \in [Requests -> {Idle} \cup Handler] /\ req'[r] = x
      /\ \A q \in Requests : q # r => req'[q] = req[q]
      /\ \A q \in Requests : Judged(req'[q])
  BY Moved DEF AInv
<1>2. UNCHANGED <<account, roles, password, identity, sessions, claims, reset>>
  BY DEF idm
<1>3. Types'
  BY <1>1, <1>2 DEF AInv, Types
<1>4. Ordered'
  BY <1>1, <1>2 DEF AInv, Ordered, Revoking
<1>5. ResetEndsSessions'
  BY <1>2 DEF AInv, ResetEndsSessions
<1> QED
  BY <1>1, <1>3, <1>4, <1>5 DEF AInv

\* A write to the account t that ends handler r.
LEMMA WriteStep ==
    ASSUME AInv, NEW r \in Requests, Done(r),
           account' \in [Users -> {"absent", "live", "deleted"}],
           \A u \in Users : account[u] = "deleted" => account'[u] = "deleted",
           roles' \in [Users -> SUBSET Roles],
           identity' \in [Users -> Nat],
           UNCHANGED <<password, sessions, claims, accepted, reset>>
    PROVE  AInv'
<1>1. /\ req' \in [Requests -> {Idle} \cup Handler] /\ req'[r] = Idle
      /\ \A q \in Requests : q # r => req'[q] = req[q]
      /\ \A q \in Requests : Judged(req'[q])
  BY Moved, IdleIsJudged DEF AInv, Done
<1>2. Types'
  BY <1>1 DEF AInv, Types
<1>3. \A q \in Requests : \A op \in Ops : Revoking(q, op)' => Revoking(q, op) /\ req'[q] = req[q]
  BY <1>1 DEF Revoking, Idle
<1>4. \A q \in Requests : Revoking(q, "delete") => req[q].target \in Users
  BY HandlerFields DEF Revoking, AInv, Types
<1>5. Ordered'
  BY <1>1, <1>3, <1>4 DEF AInv, Ordered, Ops
<1>6. ResetEndsSessions'
  BY DEF AInv, ResetEndsSessions
<1> QED
  BY <1>1, <1>2, <1>5, <1>6 DEF AInv

LEMMA InitInv == ASSUME Init PROVE AInv
<1>1. Types
  BY AdminAssumption DEF Init, Types
<1>2. \A r \in Requests : req[r] = Idle
  BY DEF Init
<1>3. \A r \in Requests : Judged(req[r])
  BY <1>2, IdleIsJudged
<1>4. Ordered
  BY <1>2 DEF Init, Ordered, Revoking, Idle
<1>5. ResetEndsSessions
  BY DEF Init, ResetEndsSessions
<1> QED
  BY <1>1, <1>3, <1>4, <1>5 DEF AInv

LEMMA LoginStep == ASSUME AInv, NEW u \in Users, Login(u) PROVE AInv'
<1>1. Types'
  <2>1. [user |-> u, pw |-> password[u]] \in [user : Users, pw : Nat]
    BY DEF AInv, Types
  <2>2. sessions' \subseteq [user : Users, pw : Nat]
    BY <2>1 DEF AInv, Types, Login
  <2>3. claims' \in [Users -> SUBSET Roles]
    BY DEF AInv, Types, Login
  <2> QED
    BY <2>2, <2>3 DEF AInv, Types, Login
<1>2. Ordered'
  BY DEF AInv, Ordered, Revoking, Login
<1>3. ResetEndsSessions'
  <2>1. reset[u] <= password[u]
    BY DEF AInv, Ordered
  <2> QED
    BY <2>1 DEF AInv, ResetEndsSessions, Login
<1> QED
  BY <1>1, <1>2, <1>3 DEF AInv, Login

LEMMA RefreshStep == ASSUME AInv, NEW u \in Users, Refresh(u) PROVE AInv'
<1>1. UNCHANGED <<account, roles, password, identity, sessions, req, accepted, reset>>
  BY DEF Refresh, idm
<1>2. claims' \in [Users -> SUBSET Roles]
  BY DEF AInv, Types, Refresh
<1> QED
  BY <1>1, <1>2 DEF AInv, Types, Ordered, Revoking, ResetEndsSessions

LEMMA DeleteMeStep == ASSUME AInv, NEW u \in Users, DeleteMe(u) PROVE AInv'
<1>1. UNCHANGED <<roles, password, identity, sessions, claims, req, accepted, reset>>
  BY DEF DeleteMe
<1>2. account' \in [Users -> {"absent", "live", "deleted"}]
  BY DEF AInv, Types, DeleteMe
<1>3. \A t \in Users : account[t] = "deleted" => account'[t] = "deleted"
  BY DEF AInv, Types, DeleteMe
<1>4. \A r \in Requests : Revoking(r, "delete") => req[r].target \in Users
  BY HandlerFields DEF Revoking, AInv, Types
<1>5. Ordered'
  BY <1>1, <1>3, <1>4 DEF AInv, Ordered, Revoking
<1> QED
  BY <1>1, <1>2, <1>5 DEF AInv, Types, ResetEndsSessions

LEMMA AcceptStep ==
    ASSUME AInv, NEW r \in Requests, NEW op \in Ops, NEW a \in Users, NEW t \in Users,
           NEW new \in SUBSET Roles, Accept(r, op, a, t, new)
    PROVE  AInv'
<1>1. PICK x \in Handler :
        req' = [req EXCEPT ![r] = x] /\ Judged(x) /\ x.phase \in {"guard", "write"}
  BY AcceptMoves DEF AInv
<1>2. accepted' \in 0..MaxAccepted
  BY AdminAssumption DEF Accept, AInv, Types
<1>3. UNCHANGED <<idm, claims, reset>>
  BY DEF Accept
<1> QED
  BY <1>1, <1>2, <1>3, QuietStep

LEMMA WritesFinish ==
    ASSUME AInv, NEW r \in Requests,
           WriteCreate(r) \/ WriteUpdate(r) \/ WriteRoles(r)
    PROVE  AInv'
<1> DEFINE h == req[r]
<1>1. h.phase = "write"
  BY DEF WriteCreate, WriteUpdate, WriteRoles, Writing
<1>2. h.target \in Users /\ h.new \in SUBSET Roles
  BY <1>1, HandlerFields DEF AInv, Types
<1>3. CASE WriteCreate(r)
  <2>1. account' \in [Users -> {"absent", "live", "deleted"}] /\ roles' \in [Users -> SUBSET Roles]
    BY <1>2, <1>3 DEF WriteCreate, AInv, Types
  <2>2. \A u \in Users : account[u] = "deleted" => account'[u] = "deleted"
    BY <1>2, <1>3 DEF WriteCreate, AInv, Types
  <2> QED
    BY <1>3, <2>1, <2>2, WriteStep DEF WriteCreate, AInv, Types
<1>4. CASE WriteUpdate(r)
  <2>1. identity' \in [Users -> Nat]
    BY <1>2, <1>4 DEF WriteUpdate, AInv, Types
  <2> QED
    BY <1>4, <2>1, WriteStep DEF WriteUpdate, AInv, Types
<1>5. CASE WriteRoles(r)
  <2>1. roles' \in [Users -> SUBSET Roles]
    BY <1>2, <1>5 DEF WriteRoles, AInv, Types
  <2> QED
    BY <1>5, <2>1, WriteStep DEF WriteRoles, AInv, Types
<1> QED
  BY <1>3, <1>4, <1>5

LEMMA WriteDeleteStep == ASSUME AInv, NEW r \in Requests, WriteDelete(r) PROVE AInv'
<1> DEFINE h == req[r]
           t == h.target
           x == [h EXCEPT !.phase = "revoke", !.gen = h.gen]
<1>1. h \in {Idle} \cup Handler /\ h.phase = "write" /\ h.op = "delete"
  BY DEF WriteDelete, Writing, AInv, Types
<1>2. h \in Handler /\ t \in Users /\ h.gen \in Nat
  BY <1>1, HandlerFields
<1>3. CASE account[t] = "live"
  <2>1. account' = [account EXCEPT ![t] = "deleted"]
    BY <1>3 DEF WriteDelete
  <2>2. req' = [req EXCEPT ![r] = x]
    <3>1. x = [h EXCEPT !.phase = "revoke"]
      BY <1>2 DEF Handler
    <3>2. req' = [req EXCEPT ![r].phase = "revoke"]
      BY <1>3 DEF WriteDelete, Goto
    <3> QED
      BY <3>1, <3>2 DEF AInv, Types
  <2>3. /\ x \in Handler /\ Judged(x) /\ x.phase = "revoke"
        /\ x.op = "delete" /\ x.target = t
    BY <1>1, <1>2, GoesOn DEF AInv
  <2> HIDE DEF x
  <2>4. /\ req' \in [Requests -> {Idle} \cup Handler] /\ req'[r] = x
        /\ \A q \in Requests : q # r => req'[q] = req[q]
        /\ \A q \in Requests : Judged(req'[q])
    BY <2>2, <2>3, Moved DEF AInv
  <2>5. /\ account' \in [Users -> {"absent", "live", "deleted"}]
        /\ account'[t] = "deleted"
        /\ \A u \in Users : account[u] = "deleted" => account'[u] = "deleted"
    BY <1>2, <2>1 DEF AInv, Types
  <2>6. UNCHANGED <<roles, password, identity, sessions, claims, accepted, reset>>
    BY DEF WriteDelete
  <2>7. Types'
    BY <2>4, <2>5, <2>6 DEF AInv, Types
  <2>8. \A q \in Requests : Revoking(q, "delete") => req[q].target \in Users
    BY HandlerFields DEF Revoking, AInv, Types
  <2>9. \A q \in Requests : Revoking(q, "delete")' => account'[req'[q].target] = "deleted"
    <3> TAKE q \in Requests
    <3>1. CASE q = r
      BY <3>1, <2>3, <2>4, <2>5
    <3>2. CASE q # r
      BY <3>2, <2>4, <2>5, <2>8 DEF Revoking, AInv, Ordered
    <3> QED
      BY <3>1, <3>2
  <2>10. \A q \in Requests : Revoking(q, "reset_password")' => req'[q].gen <= password'[req'[q].target]
    BY <2>3, <2>4, <2>6 DEF Revoking, AInv, Ordered
  <2>11. Ordered' /\ ResetEndsSessions'
    BY <2>6, <2>9, <2>10 DEF AInv, Ordered, ResetEndsSessions
  <2> QED
    BY <2>4, <2>7, <2>11 DEF AInv
<1>4. CASE account[t] # "live"
  BY <1>4, WriteStep DEF WriteDelete, AInv, Types
<1> QED
  BY <1>3, <1>4

LEMMA WritePasswordStep == ASSUME AInv, NEW r \in Requests, WritePassword(r) PROVE AInv'
<1> DEFINE h == req[r]
           t == h.target
           x == [h EXCEPT !.phase = "revoke", !.gen = password[t] + 1]
<1>1. h \in {Idle} \cup Handler /\ h.phase = "write" /\ h.op = "reset_password"
  BY DEF WritePassword, Writing, AInv, Types
<1>2. h \in Handler /\ t \in Users
  BY <1>1, HandlerFields
<1>3. password[t] \in Nat /\ password[t] + 1 \in Nat
  BY <1>2 DEF AInv, Types
<1>4. req' = [req EXCEPT ![r] = x]
  BY <1>2 DEF WritePassword, AInv, Types
<1>5. /\ x \in Handler /\ Judged(x) /\ x.phase = "revoke" /\ x.gen = password[t] + 1
      /\ x.op = "reset_password" /\ x.target = t
  BY <1>1, <1>2, <1>3, GoesOn DEF AInv
<1> HIDE DEF x
<1>6. /\ req' \in [Requests -> {Idle} \cup Handler] /\ req'[r] = x
      /\ \A q \in Requests : q # r => req'[q] = req[q]
      /\ \A q \in Requests : Judged(req'[q])
  BY <1>4, <1>5, Moved DEF AInv
<1>7. /\ password' \in [Users -> Nat]
      /\ password'[t] = password[t] + 1
      /\ \A u \in Users : password[u] <= password'[u]
  BY <1>2 DEF WritePassword, AInv, Types
<1>8. UNCHANGED <<account, roles, identity, sessions, claims, accepted, reset>>
  BY DEF WritePassword
<1>9. Types'
  BY <1>6, <1>7, <1>8 DEF AInv, Types
<1>10. \A q \in Requests : Revoking(q, "delete")' => account'[req'[q].target] = "deleted"
  BY <1>5, <1>6, <1>8 DEF Revoking, AInv, Ordered
<1>11. \A q \in Requests : Revoking(q, "reset_password")' => req'[q].gen <= password'[req'[q].target]
  <2> TAKE q \in Requests
  <2>1. CASE q = r
    <3>1. req'[q].gen = password[t] + 1 /\ req'[q].target = t
      BY <2>1, <1>5, <1>6
    <3>2. password'[req'[q].target] = password[t] + 1
      BY <3>1, <1>7
    <3> QED
      BY <3>1, <3>2, <1>3
  <2>2. CASE q # r
    <3>1. Revoking(q, "reset_password") =>
            /\ req[q].target \in Users /\ req[q].gen \in Nat
            /\ req[q].gen <= password[req[q].target]
      BY HandlerFields DEF Revoking, AInv, Types, Ordered
    <3> QED
      BY <2>2, <3>1, <1>6, <1>7 DEF Revoking, AInv, Types
  <2> QED
    BY <2>1, <2>2
<1>12. \A u \in Users : reset'[u] <= password'[u]
  BY <1>7, <1>8 DEF AInv, Types, Ordered
<1>13. Ordered' /\ ResetEndsSessions'
  BY <1>8, <1>10, <1>11, <1>12 DEF AInv, Ordered, ResetEndsSessions
<1> QED
  BY <1>6, <1>9, <1>13 DEF AInv

LEMMA RevokeStep == ASSUME AInv, NEW r \in Requests, Revoke(r) PROVE AInv'
<1> DEFINE h == req[r]
           t == h.target
<1>1. h \in {Idle} \cup Handler /\ h.phase = "revoke"
  BY DEF Revoke, AInv, Types
<1>2. t \in Users /\ h.gen \in Nat /\ h.op \in Ops
  BY <1>1, HandlerFields
<1>3. /\ req' \in [Requests -> {Idle} \cup Handler] /\ req'[r] = Idle
      /\ \A q \in Requests : q # r => req'[q] = req[q]
      /\ \A q \in Requests : Judged(req'[q])
  BY Moved, IdleIsJudged DEF AInv, Revoke, Done
<1>4. UNCHANGED <<account, roles, password, identity, claims, accepted>>
  BY DEF Revoke
<1>5. sessions' = {s \in sessions : s.user # t}
  BY DEF Revoke
<1>6. /\ reset' \in [Users -> Nat]
      /\ \A u \in Users : u # t => reset'[u] = reset[u]
      /\ \A u \in Users : reset'[u] <= password[u]
  <2>1. CASE h.op = "reset_password" /\ h.gen > reset[t]
    <3>1. reset' = [reset EXCEPT ![t] = h.gen]
      BY <2>1 DEF Revoke
    <3>2. h.gen <= password[t]
      BY <1>1, <2>1 DEF Revoking, AInv, Ordered
    <3> QED
      BY <1>2, <3>1, <3>2 DEF AInv, Types, Ordered
  <2>2. CASE ~(h.op = "reset_password" /\ h.gen > reset[t])
    <3>1. reset' = reset
      BY <2>2 DEF Revoke
    <3> QED
      BY <3>1 DEF AInv, Types, Ordered
  <2> QED
    BY <2>1, <2>2
<1>7. Types'
  BY <1>3, <1>4, <1>5, <1>6 DEF AInv, Types
<1>8. Ordered'
  BY <1>3, <1>4, <1>6 DEF AInv, Ordered, Revoking, Idle
<1>9. ResetEndsSessions'
  BY <1>5, <1>6 DEF AInv, Types, ResetEndsSessions
<1> QED
  BY <1>3, <1>7, <1>8, <1>9 DEF AInv

LEMMA AbandonStep == ASSUME AInv, NEW r \in Requests, Abandon(r) PROVE AInv'
<1>1. Idle.phase # "revoke"
  BY DEF Idle
<1> QED
  BY <1>1, IdleIsJudged, QuietStep DEF Abandon, Done, AInv, Types

LEMMA JudgingSteps ==
    ASSUME AInv, NEW r \in Requests, Guard(r) \/ Find(r) \/ Check(r)
    PROVE  AInv'
<1>1. Types /\ Judged(req[r])
  BY DEF AInv
<1>2. PICK x \in {Idle} \cup Handler :
        req' = [req EXCEPT ![r] = x] /\ Judged(x) /\ x.phase # "revoke"
  <2>1. CASE Guard(r)
    BY <1>1, <2>1, GuardMoves
  <2>2. CASE Find(r)
    BY <1>1, <2>2, FindMoves
  <2>3. CASE Check(r)
    BY <1>1, <2>3, CheckMoves
  <2> QED
    BY <2>1, <2>2, <2>3
<1>3. UNCHANGED <<idm, claims, accepted, reset>>
  BY DEF Guard, Find, Check
<1>4. accepted' \in 0..MaxAccepted
  BY <1>1, <1>3 DEF Types
<1> QED
  BY <1>2, <1>3, <1>4, QuietStep

LEMMA StutterStep == ASSUME AInv, UNCHANGED vars PROVE AInv'
BY DEF AInv, Types, Ordered, Revoking, ResetEndsSessions, vars, idm

LEMMA StepInv == ASSUME AInv, [Next]_vars PROVE AInv'
<1>1. ASSUME NEW u \in Clients, Login(u) \/ Refresh(u) \/ DeleteMe(u) PROVE AInv'
  <2>1. u \in Users
    BY AdminAssumption
  <2> QED
    BY <1>1, <2>1, LoginStep, RefreshStep, DeleteMeStep
<1>2. ASSUME NEW r \in Requests, CreateUser(r) \/ SetUserRoles(r) \/ OtherRequest(r) PROVE AInv'
  <2>1. \A new \in Assignable : new \in SUBSET Roles
    BY AdminAssumption
  <2>2. CASE CreateUser(r)
    BY <2>1, <2>2, AcceptStep DEF CreateUser, Ops
  <2>3. CASE SetUserRoles(r)
    BY <2>1, <2>3, AcceptStep DEF SetUserRoles, Ops
  <2>4. CASE OtherRequest(r)
    <3>1. PICK op \in {"update", "delete", "reset_password"}, a \in Users, t \in Users :
            Accept(r, op, a, t, {})
      BY <2>4 DEF OtherRequest
    <3>2. op \in Ops /\ {} \in SUBSET Roles
      BY DEF Ops
    <3> QED
      BY <3>1, <3>2, AcceptStep
  <2> QED
    BY <1>2, <2>2, <2>3, <2>4
<1>3. ASSUME NEW r \in Requests, Guard(r) \/ Find(r) \/ Check(r) PROVE AInv'
  BY <1>3, JudgingSteps
<1>4. ASSUME NEW r \in Requests,
             \/ WriteCreate(r) \/ WriteUpdate(r) \/ WriteDelete(r) \/ WriteRoles(r)
             \/ WritePassword(r)
      PROVE  AInv'
  BY <1>4, WritesFinish, WriteDeleteStep, WritePasswordStep
<1>5. ASSUME NEW r \in Requests, Revoke(r) \/ Abandon(r) PROVE AInv'
  BY <1>5, RevokeStep, AbandonStep
<1>6. CASE UNCHANGED vars
  BY <1>6, StutterStep
<1> QED
  BY <1>1, <1>2, <1>3, <1>4, <1>5, <1>6 DEF Next

LEMMA Invariance == Spec => []AInv
<1>1. Init => AInv
  BY InitInv
<1>2. AInv /\ [Next]_vars => AInv'
  BY StepInv
<1> QED
  BY <1>1, <1>2, PTL DEF Spec

-------------------------------------------------------------------------------
(* Invariants.                                                               *)

\* The type invariant of the tables, tokens and handlers.
THEOREM TypeCorrect == Spec => []TypeOK
<1>1. AInv => TypeOK
  <2> SUFFICES ASSUME AInv PROVE TypeOK
    OBVIOUS
  <2>1. \A r \in Requests : req[r].phase = "check" => req[r].op = "set_roles"
    BY HandlersAreNotIdle DEF AInv, Types, Judged
  <2> QED
    BY <2>1 DEF AInv, Types, Ordered, Revoking, TypeOK
<1> QED
  BY <1>1, Invariance, PTL

\* A reset that was answered with success has ended every older session, for any
\* number of handlers and however many of them are dropped half-way.
THEOREM ResetIsEffective == Spec => []ResetEndsSessions
<1>1. AInv => ResetEndsSessions
  BY DEF AInv
<1> QED
  BY <1>1, Invariance, PTL

-------------------------------------------------------------------------------
(* What a step may do.                                                       *)

\* The effect of the write of handler r: on its target alone, and on the roles
\* and the account only in the ways its operation stands for.
Effect(r) ==
    LET h == req[r]
        t == h.target
    IN  /\ h \in Handler /\ h.phase = "write" /\ t \in Users /\ req'[r] # h
        /\ \A u \in Users \ {t} : Untouched(u)
        /\ \/ roles'[t] = roles[t]
           \/ h.op = "create" /\ account[t] = "absent" /\ roles'[t] = h.new
           \/ h.op = "set_roles" /\ roles'[t] = h.new
        /\ \/ account'[t] = account[t]
           \/ h.op = "create" /\ account[t] = "absent"
           \/ h.op = "delete"

LEMMA WriteEffect ==
    ASSUME AInv, NEW r \in Requests,
           \/ WriteCreate(r) \/ WriteUpdate(r) \/ WriteDelete(r) \/ WriteRoles(r)
           \/ WritePassword(r)
    PROVE  Effect(r)
<1> DEFINE h == req[r]
           t == h.target
<1>1. h \in {Idle} \cup Handler /\ h.phase = "write"
  BY DEF WriteCreate, WriteUpdate, WriteDelete, WriteRoles, WritePassword, Writing, AInv, Types
<1>2. h \in Handler /\ h # Idle /\ t \in Users
  BY <1>1, HandlerFields
<1>3. req'[r].phase # "write"
  <2>1. CASE Done(r)
    BY <2>1 DEF Done, Idle, AInv, Types
  <2>2. CASE Goto(r, "revoke")
    BY <1>2, <2>2 DEF Goto, AInv, Types, Handler
  <2>3. CASE WritePassword(r)
    BY <1>2, <2>3 DEF WritePassword, AInv, Types, Handler
  <2> QED
    BY <2>1, <2>2, <2>3 DEF WriteCreate, WriteUpdate, WriteDelete, WriteRoles
<1>4. CASE WriteCreate(r)
  BY <1>1, <1>2, <1>3, <1>4 DEF WriteCreate, Writing, Effect, Untouched, AInv, Types
<1>5. CASE WriteUpdate(r)
  BY <1>1, <1>2, <1>3, <1>5 DEF WriteUpdate, Writing, Effect, Untouched, AInv, Types
<1>6. CASE WriteDelete(r)
  BY <1>1, <1>2, <1>3, <1>6 DEF WriteDelete, Writing, Effect, Untouched, AInv, Types
<1>7. CASE WriteRoles(r)
  BY <1>1, <1>2, <1>3, <1>7 DEF WriteRoles, Writing, Effect, Untouched, AInv, Types
<1>8. CASE WritePassword(r)
  BY <1>1, <1>2, <1>3, <1>8 DEF WritePassword, Writing, Effect, Untouched, AInv, Types
<1> QED
  BY <1>4, <1>5, <1>6, <1>7, <1>8

LEMMA Changes ==
    ASSUME AInv, [Next]_vars
    PROVE  \/ \A t \in Users : Untouched(t) \/ Leaves(t)
           \/ \E r \in Requests : Effect(r)
<1>1. ASSUME NEW u \in Clients, Login(u) \/ Refresh(u)
      PROVE  \A t \in Users : Untouched(t)
  BY <1>1 DEF Login, Refresh, idm, Untouched
<1>2. ASSUME NEW u \in Clients, DeleteMe(u)
      PROVE  \A t \in Users : Untouched(t) \/ Leaves(t)
  <2> SUFFICES ASSUME NEW t \in Users PROVE Untouched(t) \/ Leaves(t)
    OBVIOUS
  <2>1. account'[t] = account[t] \/ account'[t] = "deleted"
    BY <1>2 DEF DeleteMe, AInv, Types
  <2> QED
    BY <1>2, <2>1 DEF DeleteMe, Untouched, Leaves
<1>3. ASSUME NEW r \in Requests,
             \/ CreateUser(r) \/ SetUserRoles(r) \/ OtherRequest(r)
             \/ Guard(r) \/ Find(r) \/ Check(r) \/ Revoke(r) \/ Abandon(r)
      PROVE  \A t \in Users : Untouched(t)
  <2>1. UNCHANGED <<account, roles, password, identity>>
    BY <1>3 DEF CreateUser, SetUserRoles, OtherRequest, Accept, Guard, Find, Check,
                Revoke, Abandon, idm
  <2> QED
    BY <2>1 DEF Untouched
<1>4. CASE UNCHANGED vars
  BY <1>4 DEF vars, idm, Untouched
<1> QED
  BY <1>1, <1>2, <1>3, <1>4, WriteEffect DEF Next

LEMMA StepWithinReach ==
    ASSUME AInv, [Next]_vars, NEW t \in Users, ~Untouched(t), ~Leaves(t)
    PROVE  \E r \in Requests :
             /\ WritesTo(r, t)
             /\ PermsFor(roles[t] \cap req[r].found) \subseteq PermsFor(req[r].claims)
             /\ PermsFor(roles'[t]) \ PermsFor(roles[t]) \subseteq PermsFor(req[r].claims)
<1>1. PICK r \in Requests : Effect(r)
  BY Changes
<1>2. req[r].target = t /\ WritesTo(r, t)
  BY <1>1 DEF Effect, WritesTo
<1>3. Judged(req[r]) /\ req[r] # Idle
  BY <1>1 DEF AInv, Effect, Idle
<1>4. PermsFor(roles[t] \cap req[r].found) \subseteq PermsFor(req[r].found)
  BY PermsMonotone
<1>5. PermsFor(req[r].found) \subseteq PermsFor(req[r].claims)
  BY <1>3 DEF Judged, NoEscalation
<1>6. \/ roles'[t] = roles[t]
      \/ roles'[t] = req[r].new /\ req[r].op \in {"create", "set_roles"}
  <2>1. \/ roles'[req[r].target] = roles[req[r].target]
        \/ roles'[req[r].target] = req[r].new /\ req[r].op \in {"create", "set_roles"}
    BY <1>1 DEF Effect
  <2> QED
    BY <1>2, <2>1
<1>7. req[r].op \in {"create", "set_roles"} => PermsFor(req[r].new) \subseteq PermsFor(req[r].claims)
  BY <1>3 DEF Judged, NoEscalation
<1>8. PermsFor(roles'[t]) \ PermsFor(roles[t]) \subseteq PermsFor(req[r].claims)
  BY <1>6, <1>7
<1> QED
  BY <1>2, <1>4, <1>5, <1>8

\* Nobody changes an account beyond the reach of the token he acts with, and
\* nobody gains a permission from somebody who lacks it.
THEOREM ChangesStayWithinReach == Spec => WithinReach
<1> DEFINE Step == \A t \in Users : Untouched(t) \/ Leaves(t) \/
        \E r \in Requests :
            /\ WritesTo(r, t)
            /\ PermsFor(roles[t] \cap req[r].found) \subseteq PermsFor(req[r].claims)
            /\ PermsFor(roles'[t]) \ PermsFor(roles[t]) \subseteq PermsFor(req[r].claims)
<1>1. AInv /\ [Next]_vars => Step
  BY StepWithinReach
<1> QED
  BY <1>1, Invariance, PTL DEF Spec, WithinReach

LEMMA StepLastAdmin ==
    ASSUME AInv, [Next]_vars, Admins # {}, Admins' = {}
    PROVE  \E t \in Users : Leaves(t) \/
             \E r \in Requests : WritesTo(r, t) /\ req[r].actor \notin Admins
<1>1. \A u \in Users : Untouched(u) /\ u \in Admins => u \in Admins'
  BY DEF Untouched, Admins, PermsFor
<1>2. PICK a \in Users : a \in Admins
  BY DEF Admins
<1>3. CASE \A t \in Users : Untouched(t) \/ Leaves(t)
  BY <1>1, <1>2, <1>3
<1>4. ASSUME NEW r \in Requests, Effect(r)
      PROVE  \E t \in Users : WritesTo(r, t) /\ req[r].actor \notin Admins
  <2> DEFINE h == req[r]
             t == h.target
  <2>1. t \in Users /\ WritesTo(r, t) /\ \A u \in Users \ {t} : Untouched(u)
    BY <1>4 DEF Effect, WritesTo
  <2>2. a = t /\ account[t] = "live" /\ UsersAdmin \in PermsFor(roles[t])
    BY <1>1, <1>2, <2>1 DEF Admins
  <2>3. \/ h.op = "delete"
        \/ h.op = "set_roles" /\ roles'[t] = h.new /\ account'[t] = account[t]
    <3>1. ~(roles'[t] = roles[t] /\ account'[t] = account[t])
      BY <1>2, <2>1, <2>2 DEF Admins, PermsFor
    <3> QED
      BY <1>4, <2>2, <3>1 DEF Effect
  <2>4. Judged(h) /\ h # Idle /\ h.actor \in Users /\ h.phase = "write"
    BY <1>4 DEF AInv, Effect, Idle, Handler
  <2>5. h.actor # t
    <3>1. CASE h.op = "delete"
      BY <2>4, <3>1 DEF Judged
    <3>2. CASE h.op = "set_roles" /\ roles'[t] = h.new /\ account'[t] = account[t]
      <4>1. h.actor = t => UsersAdmin \in PermsFor(h.new)
        BY <2>4, <3>2 DEF Judged, SelfKeepsAdmin
      <4>2. UsersAdmin \notin PermsFor(h.new)
        BY <2>1, <2>2, <3>2 DEF Admins, PermsFor
      <4> QED
        BY <4>1, <4>2
    <3> QED
      BY <2>3, <3>1, <3>2
  <2>6. h.actor \notin Admins
    BY <1>1, <2>1, <2>4, <2>5
  <2> QED
    BY <2>1, <2>6
<1> QED
  BY <1>3, <1>4, Changes

\* Administrators cannot lock the back office by administering.
THEOREM LastAdminIsNotRemoved == Spec => LastAdminStays
<1> DEFINE Step == (Admins # {} /\ Admins' = {}) =>
        \E t \in Users : Leaves(t) \/
            \E r \in Requests : WritesTo(r, t) /\ req[r].actor \notin Admins
<1>1. AInv /\ [Next]_vars => Step
  BY StepLastAdmin
<1> QED
  BY <1>1, Invariance, PTL DEF Spec, LastAdminStays

LEMMA StepHiddenRoles ==
    ASSUME AInv, [Next]_vars, NEW t \in Users, NEW x \in roles[t] \ Closed, x \notin roles'[t]
    PROVE  \E r \in Requests : WritesTo(r, t) /\ x \notin req[r].checked
<1>1. ~Untouched(t) /\ ~Leaves(t)
  BY DEF Untouched, Leaves
<1>2. PICK r \in Requests : Effect(r)
  BY <1>1, Changes
<1>3. req[r].target = t /\ WritesTo(r, t)
  BY <1>1, <1>2 DEF Effect, WritesTo
<1>4. Judged(req[r]) /\ req[r] # Idle /\ req[r].phase = "write"
  BY <1>2 DEF AInv, Effect, Idle
<1>5. CASE req[r].op = "create"
  BY <1>3, <1>4, <1>5 DEF Judged
<1>6. CASE req[r].op = "set_roles" /\ roles'[t] = req[r].new
  BY <1>3, <1>4, <1>6 DEF Judged
<1> QED
  BY <1>2, <1>3, <1>5, <1>6 DEF Effect

\* A role outside the closed set is lost to a race only.
THEOREM HiddenRolesAreKept == Spec => HiddenRolesKept
<1> DEFINE Step == \A t \in Users : \A x \in roles[t] \ Closed :
        x \in roles'[t] \/ \E r \in Requests : WritesTo(r, t) /\ x \notin req[r].checked
<1>1. AInv /\ [Next]_vars => Step
  BY StepHiddenRoles
<1> QED
  BY <1>1, Invariance, PTL DEF Spec, HiddenRolesKept
===============================================================================
