-------------------------- MODULE MCAccessControl --------------------------
(* TLC instances of AccessControl. *)
EXTENDS AccessControl, TLC

Admin(x, y) == <<"api", "admin", x, y>>

(* A rule for all administration, and one for some of it.                  *)
MCScopes == {[pattern |-> <<"api", "admin">>, method |-> ALL],
             [pattern |-> <<"api", "admin", "api_rule">>, method |-> "POST"]}
MCRouteOf ==
  [op \in Ops |->
     CASE op = "grant"  -> [path |-> Admin("api_rule", "grant"), method |-> "POST"]
       [] op = "revoke" -> [path |-> Admin("api_rule", "revoke"), method |-> "DELETE"]
       [] op = "create" -> [path |-> Admin("user", "create"), method |-> "POST"]
       [] op = "delete" -> [path |-> Admin("user", "delete"), method |-> "DELETE"]
       [] OTHER         -> [path |-> Admin("user", "modify_status"), method |-> "PATCH"]]
MCRoutes == {MCRouteOf[op] : op \in Ops}

AccessSymmetry == Permutations(Requests) \cup Permutations(Founders)
=============================================================================
