--------------------------- MODULE AccessControl ---------------------------
(***************************************************************************)
(* Who may call what: the accounts of sys_user, the rules of               *)
(* sys_access_rule, and the requests that pass mw_authentication and then  *)
(* change either (middleware/auth.rs, modules/admin/api_rule,              *)
(* modules/admin/user).                                                    *)
(*                                                                         *)
(* Four queries interpret a rule: the check of the middleware, the         *)
(* conflict check of a grant, the list of a user's routes and the list of  *)
(* the routes a user lacks.  A path or pattern is the sequence of its      *)
(* segments: patterns end in '/' (API_PATTERN_REGEX), so a prefix of the   *)
(* text is a prefix of the segments.  ('_' in a pattern is a wildcard to   *)
(* LIKE; no two registered routes differ only in such a character.)        *)
(* A request carries a valid token, whose role is that of the account:     *)
(* nothing changes a role.  One step is one SQL statement.                 *)
(***************************************************************************)
EXTENDS Naturals, Sequences

CONSTANTS
  Admins,    \* accounts with role ADMIN, by user_id
  Founders,  \* those among them that the bootstrap creates
  Users,     \* accounts with role USER
  Requests,  \* requests in flight at the same time
  Scopes,    \* patterns and methods that grants ask for
  Methods,   \* HTTP methods, without ALL
  Routes,    \* registered routes, those of active templates too
  RouteOf,   \* the route of each operation
  MaxTime,   \* bound: the clock
  MaxRules   \* bound: rules in the table or named by a request

ALL   == "ALL"
Never == MaxTime + 1                         \* expires_at IS NULL

Path == Seq(STRING)
Ops  == {"create", "enable", "disable", "delete", "grant", "revoke"}

ASSUME AccessAssumption ==
  /\ Founders \subseteq Admins
  /\ Admins \cap Users = {}
  /\ ALL \notin Methods
  /\ Scopes \subseteq [pattern : Path, method : Methods \cup {ALL}]
  /\ Routes \subseteq [path : Path, method : Methods]
  /\ RouteOf \in [Ops -> Routes]
  /\ MaxTime \in Nat /\ MaxRules \in Nat

VARIABLES
  account,  \* sys_user
  rules,    \* sys_access_rule
  now,
  request

vars == <<account, rules, now, request>>

Accounts == Admins \cup Users
Ids      == 1 .. MaxRules
(* Rules of administrators are left out: the middleware never reads them.  *)
Grant    == [user : Users, scope : Scopes, expires : 1 .. Never]
Rule     == [id : Ids, user : Users, scope : Scopes, expires : 1 .. Never]
Unseen   == 0

Idle     == [pc |-> "idle"]
ArgOf(op)   == CASE op = "grant" -> Grant [] op = "revoke" -> [id : Ids] [] OTHER -> Accounts
Pending(op) == [pc : {"role", "handle"} \cup (IF op = "grant" THEN {"upsert"} ELSE {}),
                who : Accounts, op : {op}, arg : ArgOf(op), seen : Unseen .. Never]

SameKey(p, q) == p.user = q.user /\ p.scope = q.scope

(* Every variable stays within its type, and the table within its keys:    *)
(* rule_id and UNIQUE (user_id, api_pattern, http_method).                 *)
TypeOK ==
  /\ account \in [Accounts -> {"none", "active", "disabled", "deleted"}]
  /\ rules \in SUBSET Rule
  /\ \A p, q \in rules : p.id = q.id \/ SameKey(p, q) => p = q
  /\ now \in 0 .. MaxTime
  /\ request \in [Requests -> {Idle} \cup UNION {Pending(op) : op \in Ops}]

(* The first servers to start found no account and created theirs.         *)
Init ==
  /\ \E F \in SUBSET Founders :
       F # {} /\ account = [a \in Accounts |-> IF a \in F THEN "active" ELSE "none"]
  /\ rules = {}
  /\ now = 0
  /\ request = [r \in Requests |-> Idle]

Exists(a) == account[a] \in {"active", "disabled"}

-----------------------------------------------------------------------------
(***************************************************************************)
(* What a rule covers                                                      *)
(***************************************************************************)
Covers(pattern, path) ==
  Len(pattern) <= Len(path) /\ \A i \in 1 .. Len(pattern) : pattern[i] = path[i]

ForMethod(q, m) == q.scope.method \in {ALL, m}

(* The condition of check_user_role.                                       *)
(* Mutant: a rule for all methods is taken for a method of its own.        *)
RuleAllowsExact(q, route, t) ==
  /\ q.scope.method = route.method
  /\ q.expires = Never \/ q.expires > t
  /\ Covers(q.scope.pattern, route.path)
RuleAllows(q, route, t) ==
  /\ ForMethod(q, route.method)
  /\ q.expires = Never \/ q.expires > t
  /\ Covers(q.scope.pattern, route.path)

Allowed(u, route, t) == \E q \in rules : q.user = u /\ RuleAllows(q, route, t)

(* The condition of check_api_rule_conflict: q is at least as broad as p.  *)
(* Mutant: whenever it expires.                                            *)
ConflictsAnyExpiry(q, p) ==
  /\ q.user = p.user
  /\ Covers(q.scope.pattern, p.scope.pattern)
  /\ ForMethod(q, p.scope.method)
Conflicts(q, p) ==
  /\ q.user = p.user
  /\ Covers(q.scope.pattern, p.scope.pattern)
  /\ ForMethod(q, p.scope.method)
  /\ q.expires = Never \/ (p.expires # Never /\ q.expires >= p.expires)

(* get_effective_rules_for_user                                            *)
Effective(u) == {q \in rules : q.user = u /\ (q.expires = Never \/ q.expires >= now)}

(* get_user_effective_routes: the routes a user has ...                    *)
Listed(u) == {route \in Routes : \E q \in Effective(u) :
                Covers(q.scope.pattern, route.path) /\ ForMethod(q, route.method)}

(* ... do_filter_with_user_exists_rules: and the ones it lacks.            *)
(* Mutant: a rule for all methods hides no route.                          *)
LackingExact(u) == {route \in Routes : \A q \in Effective(u) :
                      \/ ~Covers(q.scope.pattern, route.path)
                      \/ route.method # q.scope.method}
Lacking(u) == {route \in Routes : \A q \in Effective(u) :
                 \/ ~Covers(q.scope.pattern, route.path)
                 \/ route.method # q.scope.method /\ q.scope.method # ALL}

(* check_api_rule_validity: some registered route is covered.              *)
Valid(p) == \E route \in Routes :
  Covers(p.scope.pattern, route.path) /\ ForMethod(p, route.method)

-----------------------------------------------------------------------------
(***************************************************************************)
(* mw_authentication                                                       *)
(***************************************************************************)
Goto(r, pc) == request' = [request EXCEPT ![r].pc = pc]
Done(r)     == request' = [request EXCEPT ![r] = Idle]

(* check_user_enabled, the first statement of a request: any other account *)
(* is answered UserDisabled or, if it is gone, with an error.              *)
CheckUserEnabled(r, a, op, arg) ==
  /\ request[r] = Idle
  /\ account[a] = "active"
  /\ request' = [request EXCEPT ![r] = [pc |-> IF a \in Users THEN "role" ELSE "handle",
                                       who |-> a, op |-> op, arg |-> arg,
                                       seen |-> Unseen]]
  /\ UNCHANGED <<account, rules, now>>

(* BASIC_PERMISSIONS                                                       *)
Basic(route) == Covers(<<"api", "user">>, route.path)

CheckUserRole(r) ==
  LET route == RouteOf[request[r].op] IN
  /\ request[r].pc = "role"
  /\ IF Basic(route) \/ Allowed(request[r].who, route, now)
       THEN Goto(r, "handle") ELSE Done(r)
  /\ UNCHANGED <<account, rules, now>>

-----------------------------------------------------------------------------
(***************************************************************************)
(* The handlers of accounts                                                *)
(***************************************************************************)
Handling(r, op) == request[r].pc = "handle" /\ request[r].op = op

(* A name in use answers UserAlreadyExists; one used before belongs to     *)
(* another account now.                                                    *)
StoreUser(r) ==
  LET a == request[r].arg IN
  /\ Handling(r, "create")
  /\ account' = IF account[a] = "none" THEN [account EXCEPT ![a] = "active"]
                                       ELSE account
  /\ Done(r)
  /\ UNCHANGED <<rules, now>>

ModifyUserStatus(r) ==
  LET a == request[r].arg IN
  /\ Handling(r, "enable") \/ Handling(r, "disable")
  /\ account' = IF a # request[r].who /\ Exists(a)
                  THEN [account EXCEPT ![a] = IF request[r].op = "enable"
                                                THEN "active" ELSE "disabled"]
                  ELSE account
  /\ Done(r)
  /\ UNCHANGED <<rules, now>>

(* The rules of the account follow by ON DELETE CASCADE.                   *)
(* Mutants: they do not; an account may delete itself.                     *)
CascadeNone(a) == rules
Cascade(a) == {q \in rules : q.user # a}

DeleteUserSelfToo(r) ==
  LET a == request[r].arg IN
  /\ Handling(r, "delete")
  /\ IF Exists(a)
       THEN account' = [account EXCEPT ![a] = "deleted"] /\ rules' = Cascade(a)
       ELSE UNCHANGED <<account, rules>>
  /\ Done(r)
  /\ UNCHANGED now

DeleteUser(r) ==
  LET a == request[r].arg IN
  /\ Handling(r, "delete")
  /\ IF a # request[r].who /\ Exists(a)
       THEN account' = [account EXCEPT ![a] = "deleted"] /\ rules' = Cascade(a)
       ELSE UNCHANGED <<account, rules>>
  /\ Done(r)
  /\ UNCHANGED now

-----------------------------------------------------------------------------
(***************************************************************************)
(* The handlers of rules                                                   *)
(***************************************************************************)
(* History, for NarrowsUnseenOnly: the expiry of the row at the check.     *)
ExpiryOf(p) == IF \E q \in rules : SameKey(p, q)
                 THEN (CHOOSE q \in rules : SameKey(p, q)).expires ELSE Unseen

(* validate_expires_at, check_api_rule_validity (the routes do not change  *)
(* here) and check_api_rule_conflict.  Mutant: no conflict check.          *)
CheckApiRuleConflictNone(r) ==
  LET p == request[r].arg IN
  /\ Handling(r, "grant")
  /\ IF p.expires <= now \/ ~Valid(p)
       THEN Done(r)
       ELSE request' = [request EXCEPT ![r].pc = "upsert", ![r].seen = ExpiryOf(p)]
  /\ UNCHANGED <<account, rules, now>>

CheckApiRuleConflict(r) ==
  LET p == request[r].arg IN
  /\ Handling(r, "grant")
  /\ IF p.expires <= now \/ ~Valid(p) \/ (\E q \in rules : Conflicts(q, p))
       THEN Done(r)
       ELSE request' = [request EXCEPT ![r].pc = "upsert", ![r].seen = ExpiryOf(p)]
  /\ UNCHANGED <<account, rules, now>>

(* gen_random_uuid(): an id that no rule and no request names.             *)
FreeIds == Ids \ ({q.id : q \in rules} \cup
                  {request[r].arg.id : r \in {s \in Requests : request[s] # Idle
                                                /\ request[s].op = "revoke"}})
NewId == CHOOSE i \in FreeIds : TRUE

Row(i, p) == [id |-> i, user |-> p.user, scope |-> p.scope, expires |-> p.expires]

(* INSERT ... ON CONFLICT DO UPDATE SET expires_at: the row keeps its id.  *)
(* Mutant: a plain INSERT without the key.                                 *)
UpsertedTwice(p) == rules \cup {Row(NewId, p)}
Upserted(p) ==
  IF \E q \in rules : SameKey(p, q)
    THEN {IF SameKey(p, q) THEN Row(q.id, p) ELSE q : q \in rules}
    ELSE rules \cup {Row(NewId, p)}

(* The user and the granting account must still exist (foreign keys).      *)
GrantRule(r) ==
  LET p == request[r].arg IN
  /\ request[r].pc = "upsert"
  /\ FreeIds # {} \/ \E q \in rules : SameKey(p, q)
  /\ rules' = IF Exists(p.user) /\ Exists(request[r].who) THEN Upserted(p) ELSE rules
  /\ Done(r)
  /\ UNCHANGED <<account, now>>

RevokeRule(r) ==
  /\ Handling(r, "revoke")
  /\ rules' = {q \in rules : q.id # request[r].arg.id}
  /\ Done(r)
  /\ UNCHANGED <<account, now>>

-----------------------------------------------------------------------------
(* Servers restart: their requests are cut off where they are, and each    *)
(* runs ensure_bootstrap_admin_if_empty.  On an empty table the INSERTs of *)
(* servers that start together do not see each other, and any of them may  *)
(* create an account of its own.                                           *)
Bootstrap(F) ==
  account' = [a \in Accounts |-> IF a \in F THEN "active" ELSE account[a]]

Restart ==
  /\ \E S \in SUBSET Requests :
       request' = [r \in Requests |-> IF r \in S THEN Idle ELSE request[r]]
  /\ \/ (\E a \in Accounts : Exists(a)) /\ UNCHANGED account
     \/ /\ ~\E a \in Accounts : Exists(a)
        /\ \E F \in SUBSET {a \in Founders : account[a] = "none"} :
             F # {} /\ Bootstrap(F)
  /\ UNCHANGED <<rules, now>>

Tick ==
  /\ now < MaxTime
  /\ now' = now + 1
  /\ UNCHANGED <<account, rules, request>>

Start(r) ==
  \E a \in Accounts :
    \/ \E b \in Accounts \ Founders : CheckUserEnabled(r, a, "create", b)
    \/ \E b \in Accounts, op \in {"enable", "disable", "delete"} :
         CheckUserEnabled(r, a, op, b)
    \/ \E p \in Grant : CheckUserEnabled(r, a, "grant", p)
    \/ \E q \in rules : CheckUserEnabled(r, a, "revoke", [id |-> q.id])

RequestStep(r) ==
  /\ request[r] # Idle
  /\ \/ CheckUserRole(r)
     \/ StoreUser(r) \/ ModifyUserStatus(r) \/ DeleteUser(r)
     \/ CheckApiRuleConflict(r) \/ GrantRule(r) \/ RevokeRule(r)

Next ==
  \/ \E r \in Requests : Start(r) \/ RequestStep(r)
  \/ Tick
  \/ Restart

Spec == Init /\ [][Next]_vars

-----------------------------------------------------------------------------
(***************************************************************************)
(* Properties                                                              *)
(***************************************************************************)
(* A grant refused with 409 would have added nothing: whatever the rule    *)
(* asked for would allow, now or later, the user may do already.  The      *)
(* conflict check and the middleware agree on what a rule covers.          *)
RefusedAddsNothing ==
  \A p \in Grant, q \in rules : Conflicts(q, p) =>
    \A route \in Routes, t \in now .. MaxTime :
      RuleAllows(p, route, t) => Allowed(p.user, route, t)

(* A route shown to the administrator as lacking can be granted: no rule   *)
(* of the user, expired or not, makes the conflict check refuse a grant    *)
(* that covers the route.                                                  *)
LackingIsGrantable ==
  \A p \in Grant : \A route \in Lacking(p.user), q \in rules :
    p.expires > now /\ RuleAllows(p, route, now) => ~Conflicts(q, p)

(* A route listed to a user can be called, except in the very instant in   *)
(* which the rule behind it expires (>= in the list, > in the middleware). *)
ListedIsAllowed ==
  \A u \in Users : \A route \in Listed(u) :
    Allowed(u, route, now) \/ \E q \in rules : q.user = u /\ q.expires = now

(* Rules belong to accounts that exist, although a grant checks before it  *)
(* inserts and the account may be deleted in between.                      *)
RulesHaveUsers == \A q \in rules : Exists(q.user)

(* A grant shortens a rule only if it never saw it: the row was written    *)
(* between the grant's conflict check and its upsert.                      *)
NarrowsUnseenOnly ==
  [][\A q \in rules, p \in rules' :
       q.id = p.id /\ p.expires < q.expires =>
         \E r \in Requests : /\ request[r] # Idle /\ request[r].pc = "upsert"
                             /\ request[r].seen # q.expires]_vars

(* The account table is emptied only by a request whose own account was    *)
(* deleted after the middleware let it pass: the guard against deleting    *)
(* oneself holds for every other request.                                  *)
EmptiedByDeletedOnly ==
  [][(\E a \in Accounts : Exists(a)) /\ ~(\E a \in Accounts : Exists(a)') =>
       \E r \in Requests : /\ request[r] # Idle /\ request[r].op = "delete"
                           /\ ~Exists(request[r].who)]_vars
=============================================================================
