------------------------------- MODULE MCWidget -------------------------------
(* Instances of Widget for TLC: a user, an administrator and a token of the      *)
(* administrator that was narrowed to reading and deleting.                      *)
EXTENDS Widget, TLC

MCPerms == {"widgets:read", "widgets:read:all", "widgets:write", "widgets:write:all",
            "widgets:delete", "users:admin", "admin:login"}
MCImplies == [p \in MCPerms |-> CASE p = "widgets:read:all"  -> {"widgets:read"}
                                  [] p = "widgets:write:all" -> {"widgets:write"}
                                  [] OTHER                   -> {}]
MCGrants == [role : {"superadmin"}, perm : MCPerms]
            \cup [role : {"user"}, perm : {"widgets:read", "widgets:write", "widgets:delete"}]
MCTokens == {[user |-> "u", roles |-> {"user"}, scope |-> {}],
             [user |-> "a", roles |-> {"superadmin"}, scope |-> {}],
             [user |-> "a", roles |-> {"superadmin"}, scope |-> {"widgets:read", "widgets:delete"}]}
MCSeeded == 1 :> [name |-> 2, owner |-> "u", born |-> 1, deleted |-> FALSE]
            @@ 2 :> [name |-> 3, owner |-> "system", born |-> 2, deleted |-> FALSE]
            @@ 3 :> [name |-> 1, owner |-> "u", born |-> 3, deleted |-> FALSE]

HandlerSymmetry == Permutations(Handlers)
===============================================================================
