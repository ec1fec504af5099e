------------------------------ MODULE MCUserAdmin ------------------------------
(* Instances of UserAdmin for TLC: a superadmin; a manager, who administers      *)
(* users but lacks a permission; an editor, a role outside the closed set that   *)
(* grants it; and an account that is created later.                             *)
EXTENDS UserAdmin, TLC

CONSTANTS root, mid, joe

MCUsers == {root, mid, joe}
MCRoles == {"superadmin", "manager", "user", "editor"}
MCClosed == {"superadmin", "manager", "user"}
MCPerms == {"admin:login", "users:admin", "contents:read", "contents:delete"}
MCGrants == [x \in MCRoles |->
    CASE x = "superadmin" -> MCPerms
      [] x = "manager"    -> {"admin:login", "users:admin", "contents:read"}
      [] x = "user"       -> {"contents:read"}
      [] x = "editor"     -> {"contents:delete"}]
MCRolesAtStart == (root :> {"superadmin"}) @@ (mid :> {"manager"})
MCAssignable == {{"manager"}, {"user"}, {"user", "editor"}}

HandlerSymmetry == Permutations(Requests)
===============================================================================
