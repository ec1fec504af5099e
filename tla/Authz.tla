--------------------------------- MODULE Authz ---------------------------------
(***************************************************************************)
(* The authorization rules of src/infra/authz.rs: implication, the policy    *)
(* built from the role table, and the gate role /\ scope.                    *)
(*                                                                         *)
(* A request carries role names and a scope, a set of permissions; the empty  *)
(* scope means no restriction.  A policy is a function from the roles that     *)
(* have an entry to permissions.                                             *)
(***************************************************************************)
CONSTANTS
    Perms,      \* the closed set Perm
    Implies     \* Perm::implies

\* One level only, as the comment on implies() says of the closed set.
ASSUME ImpliesAssumption ==
    /\ Implies \in [Perms -> SUBSET Perms]
    /\ \A p \in Perms : \A q \in Implies[p] : Implies[q] = {}

Expand(S) == S \cup UNION {Implies[p] : p \in S}

\* Policy::from_roles of rows [role, perm].
FromRoles(rows) ==
    [x \in {w.role : w \in rows} |-> Expand({w.perm : w \in {v \in rows : v.role = x}})]

\* A role without an entry grants nothing.
PermsFor(policy, roles) == UNION {policy[x] : x \in roles \cap DOMAIN policy}

\* Mutant: the scope is taken literally.
InScopeLiteral(scope, p) == scope = {} \/ p \in scope

InScope(scope, p) == scope = {} \/ p \in scope \/ \E s \in scope : p \in Implies[s]

RequireScoped(policy, roles, scope, p) ==
    p \in PermsFor(policy, roles) /\ InScope(scope, p)

RequireAll(policy, roles, scope, S) == \A p \in S : RequireScoped(policy, roles, scope, p)

\* GET /permissions/me
MyPermissions(policy, roles, scope) ==
    {p \in PermsFor(policy, roles) : RequireScoped(policy, roles, scope, p)}

RequireAny(policy, roles, scope, S) == \E p \in S : RequireScoped(policy, roles, scope, p)

\* require_admin_login, before every endpoint of /api/v1/admin but the login.
EntersAdmin(policy, roles, scope) == RequireScoped(policy, roles, scope, "admin:login")

\* data_access: everybody's rows with permission p, else only the user's
\* own.  The owner of a row may be nobody's id ("system", NULL, dirty).
DataAccess(policy, user, roles, scope, p) ==
    IF RequireScoped(policy, roles, scope, p) THEN [all |-> TRUE] ELSE [all |-> FALSE, me |-> user]

\* Access::allows, allows_created_by, and owner_filter in a query.
Allows(access, owner) == ~access.all => access.me = owner

RolesCovered(policy, roles) == roles \subseteq DOMAIN policy
===============================================================================
