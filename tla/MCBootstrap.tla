----------------------------- MODULE MCBootstrap -----------------------------
(* Instances of Bootstrap for TLC: a process of the newest binary, and one of an *)
(* older binary that does not know a permission, both seeding all they can.     *)
EXTENDS Bootstrap, TLC

CONSTANTS new, old, admin

MCPerms == {"read", "read:all"}
MCImplies == [p \in MCPerms |-> IF p = "read:all" THEN {"read"} ELSE {}]
MCRoleNames == {"superadmin", "user"}
MCDefaultRows == {[role |-> "superadmin", perm |-> p] : p \in MCPerms}
MCDeclared == admin :> {"superadmin"}
MCAssignable == {{"user"}}
MCKnown == (new :> MCPerms) @@ (old :> {"read"})
MCPlan == [i \in {new, old} |-> <<"catalog", "grants", "load", "accounts", "profiles">>]
==============================================================================
