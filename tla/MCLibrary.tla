------------------------------ MODULE MCLibrary ------------------------------
(* Instances of Library for TLC: two users, one of them an administrator, and at  *)
(* the start a picture of the administrator's, or an upload of the other's whose  *)
(* type was not declared, with its bytes and not confirmed.                      *)
EXTENDS Library, TLC

MCPerms == {"contents:read", "contents:read:all", "contents:write", "contents:write:all",
            "contents:delete", "profiles:write", "profiles:write:all", "users:admin", "admin:login"}
MCImplies == [p \in MCPerms |-> CASE p = "contents:read:all"  -> {"contents:read"}
                                  [] p = "contents:write:all" -> {"contents:write"}
                                  [] p = "profiles:write:all" -> {"profiles:write"}
                                  [] OTHER                    -> {}]
MCGrants == [role : {"superadmin"}, perm : MCPerms]
            \cup [role : {"user"}, perm : {"contents:read", "contents:write",
                                           "contents:delete", "profiles:write"}]
MCTokens == {[user |-> "u", roles |-> {"user"}, scope |-> {}],
             [user |-> "a", roles |-> {"superadmin"}, scope |-> {}]}

Row(owner, mime, ready, put, object) ==
    [owner |-> owner, mime |-> mime, ready |-> ready, deleted |-> FALSE,
     put |-> put, object |-> object, picture |-> FALSE]

MCSeeded == {<<Row("a", "png", TRUE, {}, "png")>>,
             <<Row("u", "none", FALSE, {}, "html")>>}

HandlerSymmetry == Permutations(Handlers)
===============================================================================
