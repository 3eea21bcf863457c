---------------------------- MODULE AccessProofs ----------------------------
(***************************************************************************)
(* For any accounts, routes, scopes and number of requests: the types and  *)
(* keys of AccessControl, and the agreement of the four queries that       *)
(* interpret a rule.                                                       *)
(***************************************************************************)
EXTENDS AccessControl, TLAPS

USE AccessAssumption

-----------------------------------------------------------------------------
(* A pattern that covers a pattern covers every path the latter covers.    *)
LEMMA CoversTransitive ==
  ASSUME NEW s \in Path, NEW t \in Path, NEW u \in Path,
         Covers(s, t), Covers(t, u)
  PROVE  Covers(s, u)
  <1>1. Len(s) \in Nat /\ Len(t) \in Nat /\ Len(u) \in Nat
    BY DEF Path
  <1> QED BY <1>1 DEF Covers

(* A rule at least as broad as what a grant asks for allows all of it.     *)
LEMMA BroaderAllows ==
  ASSUME NEW q \in Rule, NEW p \in Grant, NEW route \in Routes, NEW t \in Nat,
         Conflicts(q, p), RuleAllows(p, route, t)
  PROVE  RuleAllows(q, route, t)
  <1>1. q.scope \in Scopes /\ p.scope \in Scopes /\ q.expires \in Nat /\ p.expires \in Nat
    BY DEF Rule, Grant, Never
  <1>2. q.scope.pattern \in Path /\ p.scope.pattern \in Path /\ route.path \in Path
        /\ route.method \in Methods
    BY <1>1
  <1>3. Covers(q.scope.pattern, route.path)
    BY <1>2, CoversTransitive DEF Conflicts, RuleAllows
  <1>4. ForMethod(q, route.method)
    BY <1>2 DEF Conflicts, RuleAllows, ForMethod
  <1>5. q.expires = Never \/ q.expires > t
    BY <1>1 DEF Conflicts, RuleAllows
  <1> QED BY <1>3, <1>4, <1>5 DEF RuleAllows

-----------------------------------------------------------------------------
LEMMA PendingAny ==
  ASSUME NEW op \in Ops, NEW x \in Pending(op)
  PROVE  x \in {Idle} \cup UNION {Pending(o) : o \in Ops}
  OBVIOUS

(* What a request in flight is.                                            *)
LEMMA PendingTyped ==
  ASSUME TypeOK, NEW r \in Requests, request[r] # Idle
  PROVE  /\ request[r].op \in Ops
         /\ request[r] \in Pending(request[r].op)
  <1>1. PICK op \in Ops : request[r] \in Pending(op)
    BY DEF TypeOK
  <1>2. request[r].op = op
    BY <1>1 DEF Pending
  <1> QED BY <1>1, <1>2

(* A step that moves one request within its type keeps the type.           *)
LEMMA MovedTyped ==
  ASSUME TypeOK, NEW r \in Requests,
         NEW x \in {Idle} \cup UNION {Pending(op) : op \in Ops},
         request' = [request EXCEPT ![r] = x]
  PROVE  request' \in [Requests -> {Idle} \cup UNION {Pending(op) : op \in Ops}]
  BY DEF TypeOK

LEMMA DoneTyped ==
  ASSUME TypeOK, NEW r \in Requests, Done(r)
  PROVE  request' \in [Requests -> {Idle} \cup UNION {Pending(op) : op \in Ops}]
  BY MovedTyped DEF Done

(* A set of fewer rules is still within its type and keys.                 *)
LEMMA FewerRules ==
  ASSUME TypeOK, rules' \subseteq rules
  PROVE  /\ rules' \in SUBSET Rule
         /\ \A p, q \in rules' : p.id = q.id \/ SameKey(p, q) => p = q
  BY DEF TypeOK

(* So is the table after an upsert.                                        *)
LEMMA UpsertTyped ==
  ASSUME TypeOK, NEW p \in Grant, rules' = Upserted(p),
         FreeIds # {} \/ \E q \in rules : SameKey(p, q)
  PROVE  /\ rules' \in SUBSET Rule
         /\ \A x, y \in rules' : x.id = y.id \/ SameKey(x, y) => x = y
  <1>1. rules \subseteq Rule /\ \A x, y \in rules : x.id = y.id \/ SameKey(x, y) => x = y
    BY DEF TypeOK
  <1>2. ASSUME NEW i \in Ids
        PROVE  /\ Row(i, p) \in Rule
               /\ Row(i, p).id = i /\ Row(i, p).user = p.user /\ Row(i, p).scope = p.scope
    BY DEF Row, Rule, Grant
  <1>3. CASE \E q \in rules : SameKey(p, q)
    <2> DEFINE New(q) == IF SameKey(p, q) THEN Row(q.id, p) ELSE q
    <2>1. rules' = {New(q) : q \in rules}
      BY <1>3 DEF Upserted
    <2>2. ASSUME NEW q \in rules
          PROVE  /\ New(q) \in Rule /\ New(q).id = q.id
                 /\ New(q).user = q.user /\ New(q).scope = q.scope
      <3>1. q \in Rule /\ q.id \in Ids
        BY <1>1 DEF Rule
      <3>2. CASE SameKey(p, q)
        BY <3>1, <3>2, <1>2 DEF SameKey
      <3>3. CASE ~SameKey(p, q)
        BY <3>1, <3>3
      <3> QED BY <3>2, <3>3
    <2>3. ASSUME NEW x \in rules', NEW y \in rules', x.id = y.id \/ SameKey(x, y)
          PROVE  x = y
      <3>1. PICK a \in rules : x = New(a)
        BY <2>1
      <3>2. PICK b \in rules : y = New(b)
        BY <2>1
      <3>3. a.id = b.id \/ SameKey(a, b)
        BY <2>2, <2>3, <3>1, <3>2 DEF SameKey
      <3> QED BY <1>1, <3>1, <3>2, <3>3
    <2>4. rules' \in SUBSET Rule
      BY <2>1, <2>2
    <2> QED BY <2>3, <2>4
  <1>4. CASE ~ \E q \in rules : SameKey(p, q)
    <2>1. rules' = rules \cup {Row(NewId, p)}
      BY <1>4 DEF Upserted
    <2>2. FreeIds # {}
      BY <1>4
    <2>3. NewId \in FreeIds
      BY <2>2 DEF NewId
    <2>4. NewId \in Ids /\ \A q \in rules : q.id # NewId
      BY <2>3 DEF FreeIds
    <2>5. \A q \in rules : ~SameKey(Row(NewId, p), q) /\ ~SameKey(q, Row(NewId, p))
      BY <1>2, <1>4, <2>4 DEF SameKey
    <2> QED BY <1>1, <1>2, <2>1, <2>4, <2>5
  <1> QED BY <1>3, <1>4

-----------------------------------------------------------------------------
(* Types and keys hold initially ...                                       *)
LEMMA InitTyped == Init => TypeOK
  <1> SUFFICES ASSUME Init PROVE TypeOK
    OBVIOUS
  <1>1. account \in [Accounts -> {"none", "active", "disabled", "deleted"}]
    BY DEF Init
  <1>2. request \in [Requests -> {Idle} \cup UNION {Pending(op) : op \in Ops}]
    BY DEF Init
  <1>3. rules = {} /\ now = 0 /\ 0 \in 0 .. MaxTime
    BY DEF Init
  <1> QED BY <1>1, <1>2, <1>3 DEF TypeOK

(* ... and every step keeps them.                                          *)
LEMMA StepTyped == TypeOK /\ [Next]_vars => TypeOK'
  <1> SUFFICES ASSUME TypeOK, [Next]_vars PROVE TypeOK'
    OBVIOUS
  <1> DEFINE Reqs == [Requests -> {Idle} \cup UNION {Pending(op) : op \in Ops}]
             Keyed == /\ rules \in SUBSET Rule
                      /\ \A p, q \in rules : p.id = q.id \/ SameKey(p, q) => p = q
             Accs == [Accounts -> {"none", "active", "disabled", "deleted"}]
  <1>0. account \in Accs /\ Keyed /\ now \in 0 .. MaxTime /\ request \in Reqs
    BY DEF TypeOK
  <1>t. account' \in Accs /\ Keyed' /\ now' \in 0 .. MaxTime /\ request' \in Reqs => TypeOK'
    BY DEF TypeOK
  <1>k. rules' \subseteq rules => Keyed'
    BY FewerRules
  <1> HIDE DEF Reqs, Keyed, Accs
  <1>1. ASSUME NEW r \in Requests, NEW a \in Accounts, NEW op \in Ops, NEW arg \in ArgOf(op),
               CheckUserEnabled(r, a, op, arg)
        PROVE  TypeOK'
    <2> DEFINE x == [pc |-> IF a \in Users THEN "role" ELSE "handle",
                     who |-> a, op |-> op, arg |-> arg, seen |-> Unseen]
    <2>1. x \in Pending(op)
      BY DEF Pending, Unseen, Never
    <2>2. request' = [request EXCEPT ![r] = x]
      BY <1>1 DEF CheckUserEnabled
    <2>3. x \in {Idle} \cup UNION {Pending(o) : o \in Ops}
      BY <2>1, PendingAny
    <2> HIDE DEF x
    <2>4. request' \in Reqs
      BY <2>2, <2>3, MovedTyped DEF Reqs
    <2>5. UNCHANGED <<account, rules, now>>
      BY <1>1 DEF CheckUserEnabled
    <2> QED BY <1>0, <1>t, <1>k, <2>4, <2>5
  <1>2. ASSUME NEW r \in Requests, Start(r)
        PROVE  TypeOK'
    <2>1. CASE \E a \in Accounts, b \in Accounts, op \in {"create", "enable", "disable", "delete"} :
                 CheckUserEnabled(r, a, op, b)
      <3>1. \A op \in {"create", "enable", "disable", "delete"} : op \in Ops /\ ArgOf(op) = Accounts
        BY DEF Ops, ArgOf
      <3> QED BY <2>1, <3>1, <1>1
    <2>2. CASE \E a \in Accounts, p \in Grant : CheckUserEnabled(r, a, "grant", p)
      <3>1. "grant" \in Ops /\ ArgOf("grant") = Grant
        BY DEF Ops, ArgOf
      <3> QED BY <2>2, <3>1, <1>1
    <2>3. CASE \E a \in Accounts, q \in rules : CheckUserEnabled(r, a, "revoke", [id |-> q.id])
      <3>1. "revoke" \in Ops /\ ArgOf("revoke") = [id : Ids]
        BY DEF Ops, ArgOf
      <3>2. \A q \in rules : [id |-> q.id] \in [id : Ids]
        BY <1>0 DEF Keyed, Rule
      <3> QED BY <2>3, <3>1, <3>2, <1>1
    <2> QED BY <1>2, <2>1, <2>2, <2>3 DEF Start
  <1>3. ASSUME NEW r \in Requests, RequestStep(r)
        PROVE  TypeOK'
    <2>0. /\ request[r] # Idle /\ request[r].op \in Ops
          /\ request[r] \in Pending(request[r].op)
      BY <1>3, PendingTyped DEF RequestStep
    <2>d. Done(r) => request' \in Reqs
      BY DoneTyped DEF Reqs
    <2>g. ASSUME NEW pc \in {"role", "handle"}, Goto(r, pc)
          PROVE  request' \in Reqs
      <3> DEFINE x == [request[r] EXCEPT !.pc = pc]
      <3>1. x \in Pending(request[r].op)
        BY <2>0 DEF Pending
      <3>2. request' = [request EXCEPT ![r] = x]
        BY <2>g DEF Goto
      <3>3. x \in {Idle} \cup UNION {Pending(o) : o \in Ops}
        BY <2>0, <3>1, PendingAny
      <3> HIDE DEF x
      <3> QED BY <3>2, <3>3, MovedTyped DEF Reqs
    <2>1. CASE CheckUserRole(r)
      BY <2>1, <2>d, <2>g, <1>0, <1>t, <1>k DEF CheckUserRole
    <2>2. CASE StoreUser(r)
      <3>1. request[r].op = "create" /\ Done(r) /\ UNCHANGED <<rules, now>>
        BY <2>2 DEF StoreUser, Handling
      <3>2. account' \in Accs
        BY <2>2, <1>0 DEF StoreUser, Accs
      <3> QED BY <3>1, <3>2, <2>d, <1>0, <1>t, <1>k
    <2>3. CASE ModifyUserStatus(r)
      <3>1. Done(r) /\ UNCHANGED <<rules, now>>
        BY <2>3 DEF ModifyUserStatus
      <3>2. account' \in Accs
        BY <2>3, <1>0 DEF ModifyUserStatus, Accs
      <3> QED BY <3>1, <3>2, <2>d, <1>0, <1>t, <1>k
    <2>4. CASE DeleteUser(r)
      <3>1. Done(r) /\ UNCHANGED now /\ rules' \subseteq rules
        BY <2>4 DEF DeleteUser, Cascade
      <3>2. account' \in Accs
        BY <2>4, <1>0 DEF DeleteUser, Accs
      <3> QED BY <3>1, <3>2, <2>d, <1>0, <1>t, <1>k
    <2>5. CASE CheckApiRuleConflict(r)
      <3>1. request[r].op = "grant" /\ UNCHANGED <<account, rules, now>>
        BY <2>5 DEF CheckApiRuleConflict, Handling
      <3>2. CASE Done(r)
        BY <3>1, <3>2, <2>d, <1>0, <1>t, <1>k
      <3>3. CASE ~Done(r)
        <4> DEFINE e == ExpiryOf(request[r].arg)
                   x == [[request[r] EXCEPT !.pc = "upsert"] EXCEPT !.seen = e]
        <4>1. e \in Unseen .. Never
          <5>1. \A q \in rules : q.expires \in 1 .. Never
            BY <1>0 DEF Keyed, Rule
          <5>2. Unseen \in Unseen .. Never /\ 1 .. Never \subseteq Unseen .. Never
            BY DEF Unseen, Never
          <5> QED BY <5>1, <5>2 DEF ExpiryOf
        <4> HIDE DEF e
        <4>2. x \in Pending("grant")
          BY <2>0, <3>1, <4>1 DEF Pending
        <4>3. request' = [request EXCEPT ![r] = x]
          BY <2>5, <3>3 DEF CheckApiRuleConflict, e
        <4>4. x \in {Idle} \cup UNION {Pending(o) : o \in Ops}
          BY <2>0, <3>1, <4>2, PendingAny
        <4> HIDE DEF x
        <4>5. request' \in Reqs
          BY <4>3, <4>4, MovedTyped DEF Reqs
        <4> QED BY <3>1, <4>5, <1>0, <1>t, <1>k
      <3> QED BY <3>2, <3>3
    <2>6. CASE GrantRule(r)
      <3>1. Done(r) /\ UNCHANGED <<account, now>>
        BY <2>6 DEF GrantRule
      <3>2. request[r].arg \in Grant
        <4>1. request[r].pc = "upsert"
          BY <2>6 DEF GrantRule
        <4>2. request[r].op = "grant"
          BY <2>0, <4>1 DEF Pending
        <4>3. request[r].arg \in ArgOf(request[r].op)
          BY <2>0 DEF Pending
        <4> QED BY <4>2, <4>3 DEF ArgOf
      <3>3. CASE rules' = rules
        BY <3>1, <3>3, <2>d, <1>0, <1>t, <1>k
      <3>4. CASE rules' = Upserted(request[r].arg)
        <4>1. FreeIds # {} \/ \E q \in rules : SameKey(request[r].arg, q)
          BY <2>6 DEF GrantRule
        <4>2. Keyed'
          BY <3>2, <3>4, <4>1, UpsertTyped DEF Keyed
        <4> QED BY <3>1, <4>2, <2>d, <1>0, <1>t
      <3> QED BY <2>6, <3>3, <3>4 DEF GrantRule
    <2>7. CASE RevokeRule(r)
      BY <2>7, <2>d, <1>0, <1>t, <1>k DEF RevokeRule
    <2> QED BY <1>3, <2>1, <2>2, <2>3, <2>4, <2>5, <2>6, <2>7 DEF RequestStep
  <1>4. CASE Tick
    <2>1. now' \in 0 .. MaxTime
      BY <1>0, <1>4 DEF Tick
    <2> QED BY <1>4, <2>1, <1>0, <1>t, <1>k DEF Tick
  <1>5. CASE Restart
    <2>1. account' \in Accs
      BY <1>0, <1>5 DEF Restart, Bootstrap, Accs
    <2>2. request' \in Reqs
      <3>1. PICK S \in SUBSET Requests :
              request' = [r \in Requests |-> IF r \in S THEN Idle ELSE request[r]]
        BY <1>5 DEF Restart
      <3> QED BY <1>0, <3>1 DEF Reqs
    <2> QED BY <1>5, <2>1, <2>2, <1>0, <1>t, <1>k DEF Restart
  <1>6. CASE UNCHANGED vars
    BY <1>6, <1>0, <1>t, <1>k DEF vars
  <1> QED BY <1>2, <1>3, <1>4, <1>5, <1>6 DEF Next

(* The tables stay within their types and keys, whatever requests overlap: *)
(* in particular the check and the upsert of a grant never leave two rows  *)
(* for one user, pattern and method.                                       *)
THEOREM AccessTyped == Spec => []TypeOK
  BY InitTyped, StepTyped, PTL DEF Spec

-----------------------------------------------------------------------------
(* A grant answered 409 by check_api_rule_conflict would have added        *)
(* nothing to what check_user_role allows, now or later.                   *)
THEOREM RefusedRedundant == Spec => []RefusedAddsNothing
  <1>1. TypeOK => RefusedAddsNothing
    <2> SUFFICES ASSUME TypeOK, NEW p \in Grant, NEW q \in rules, Conflicts(q, p),
                        NEW route \in Routes, NEW t \in now .. MaxTime,
                        RuleAllows(p, route, t)
                 PROVE  Allowed(p.user, route, t)
      BY DEF RefusedAddsNothing
    <2>1. q \in Rule /\ t \in Nat
      BY DEF TypeOK
    <2>2. RuleAllows(q, route, t)
      BY <2>1, BroaderAllows
    <2>3. q.user = p.user
      BY DEF Conflicts
    <2> QED BY <2>2, <2>3 DEF Allowed
  <1> QED BY <1>1, AccessTyped, PTL

(* A route that get_registry_routes_handler shows as lacking is never      *)
(* refused by check_api_rule_conflict.                                     *)
THEOREM LackingGrantable == Spec => []LackingIsGrantable
  <1>1. TypeOK => LackingIsGrantable
    <2> SUFFICES ASSUME TypeOK, NEW p \in Grant, NEW route \in Lacking(p.user),
                        NEW q \in rules, p.expires > now, RuleAllows(p, route, now),
                        Conflicts(q, p)
                 PROVE  FALSE
      BY DEF LackingIsGrantable
    <2>1. q \in Rule /\ now \in Nat /\ route \in Routes
      BY DEF TypeOK, Lacking
    <2>2. RuleAllows(q, route, now)
      BY <2>1, BroaderAllows
    <2>3. q.expires \in Nat
      BY <2>1 DEF Rule, Never
    <2>4. q \in Effective(p.user)
      BY <2>1, <2>2, <2>3 DEF Effective, Conflicts, RuleAllows
    <2> QED BY <2>2, <2>4 DEF Lacking, RuleAllows, ForMethod
  <1> QED BY <1>1, AccessTyped, PTL

(* A route get_user_effective_routes lists passes check_user_role, but for *)
(* the instant of expiry.                                                  *)
THEOREM ListedAllowed == Spec => []ListedIsAllowed
  <1>1. TypeOK => ListedIsAllowed
    <2> SUFFICES ASSUME TypeOK, NEW u \in Users, NEW route \in Listed(u)
                 PROVE  Allowed(u, route, now) \/ \E q \in rules : q.user = u /\ q.expires = now
      BY DEF ListedIsAllowed
    <2>1. PICK q \in Effective(u) :
                 Covers(q.scope.pattern, route.path) /\ ForMethod(q, route.method)
      BY DEF Listed
    <2>2. q \in rules /\ q.user = u /\ (q.expires = Never \/ q.expires >= now)
      BY <2>1 DEF Effective
    <2>3. q.expires \in Nat /\ now \in Nat
      BY <2>2 DEF TypeOK, Rule, Never
    <2>4. CASE q.expires = now
      BY <2>2, <2>4
    <2>5. CASE q.expires # now
      <3>1. q.expires = Never \/ q.expires > now
        BY <2>2, <2>3, <2>5
      <3> QED BY <2>1, <2>2, <3>1 DEF Allowed, RuleAllows
    <2> QED BY <2>4, <2>5
  <1> QED BY <1>1, AccessTyped, PTL

-----------------------------------------------------------------------------
(* An account that exists goes on existing unless a delete removes it; and *)
(* a delete removes no account but its argument, which is not its own.     *)
LEMMA AccountsKept ==
  ASSUME TypeOK, [Next]_vars, NEW a \in Accounts, Exists(a), ~Exists(a)'
  PROVE  \E r \in Requests : /\ request[r] # Idle /\ DeleteUser(r)
                             /\ request[r].arg = a /\ request[r].who # a
                             /\ rules' = Cascade(a)
  <1>0. account \in [Accounts -> {"none", "active", "disabled", "deleted"}]
    BY DEF TypeOK
  <1>1. account'[a] # account[a]
    BY DEF Exists
  <1>2. ASSUME NEW r \in Requests, Start(r) PROVE FALSE
    BY <1>1, <1>2 DEF Start, CheckUserEnabled
  <1>3. ASSUME NEW r \in Requests, RequestStep(r) PROVE request[r] # Idle /\ DeleteUser(r)
    <2>1. ASSUME StoreUser(r) PROVE FALSE
      BY <1>0, <2>1 DEF StoreUser, Exists
    <2>2. ASSUME ModifyUserStatus(r) PROVE FALSE
      BY <1>0, <2>2 DEF ModifyUserStatus, Exists
    <2>3. ASSUME CheckUserRole(r) \/ CheckApiRuleConflict(r) \/ GrantRule(r) \/ RevokeRule(r)
          PROVE  FALSE
      BY <1>1, <2>3 DEF CheckUserRole, CheckApiRuleConflict, GrantRule, RevokeRule
    <2> QED BY <1>3, <2>1, <2>2, <2>3 DEF RequestStep
  <1>4. ~Tick /\ ~UNCHANGED vars
    BY <1>1 DEF Tick, vars
  <1>5. ASSUME Restart PROVE FALSE
    <2>1. PICK F \in SUBSET Accounts : Bootstrap(F)
      BY <1>1, <1>5 DEF Restart, Accounts
    <2> QED BY <1>0, <2>1 DEF Bootstrap, Exists
  <1>6. PICK r \in Requests : request[r] # Idle /\ DeleteUser(r)
    BY <1>2, <1>3, <1>4, <1>5 DEF Next
  <1>7. request[r].arg = a /\ request[r].who # a /\ rules' = Cascade(a)
    BY <1>0, <1>1, <1>6 DEF DeleteUser
  <1> QED BY <1>6, <1>7

(* A rule that is new in the table belongs to an account that exists.      *)
LEMMA NewRulesHaveUsers ==
  ASSUME TypeOK, [Next]_vars, RulesHaveUsers, NEW q \in rules', ~Exists(q.user)
  PROVE  FALSE
  <1>1. q \notin rules
    BY DEF RulesHaveUsers
  <1>2. ASSUME NEW r \in Requests, Start(r) \/ RequestStep(r) PROVE GrantRule(r)
    BY <1>1, <1>2 DEF Start, CheckUserEnabled, RequestStep, CheckUserRole, StoreUser,
         ModifyUserStatus, DeleteUser, Cascade, CheckApiRuleConflict, RevokeRule
  <1>3. PICK r \in Requests : GrantRule(r)
    BY <1>1, <1>2 DEF Next, Tick, Restart, vars
  <1> DEFINE p == request[r].arg
  <1>4. Exists(p.user) /\ rules' = Upserted(p)
    BY <1>1, <1>3 DEF GrantRule
  <1>5. q.user = p.user
    <2> HIDE DEF p
    <2>1. CASE q = Row(NewId, p)
      BY <2>1 DEF Row
    <2>2. CASE \E o \in rules : q = Row(o.id, p)
      BY <2>2 DEF Row
    <2> QED BY <1>1, <1>4, <2>1, <2>2 DEF Upserted
  <1> QED BY <1>4, <1>5

(* Every rule belongs to an account that exists, though a grant reads the  *)
(* tables in one statement and writes in another: the foreign keys are     *)
(* checked by the upsert itself, and ON DELETE CASCADE takes the rules of  *)
(* an account in the statement that deletes it.                            *)
THEOREM RulesKeepUsers == Spec => []RulesHaveUsers
  <1>1. Init => RulesHaveUsers
    BY DEF Init, RulesHaveUsers
  <1>2. TypeOK /\ TypeOK' /\ RulesHaveUsers /\ [Next]_vars => RulesHaveUsers'
    <2> SUFFICES ASSUME TypeOK, TypeOK', RulesHaveUsers, [Next]_vars, NEW q \in rules',
                        ~Exists(q.user)'
                 PROVE  FALSE
      BY DEF RulesHaveUsers
    <2>1. q \in Rule
      BY DEF TypeOK
    <2>2. PICK a \in Accounts : a = q.user
      BY <2>1 DEF Rule, Accounts
    <2>3. Exists(a)
      BY <2>2, NewRulesHaveUsers
    <2>4. ~Exists(a)'
      BY <2>2 DEF Exists
    <2>5. rules' = Cascade(a)
      BY <2>3, <2>4, AccountsKept
    <2> QED BY <2>2, <2>5 DEF Cascade
  <1> QED BY <1>1, <1>2, AccessTyped, PTL DEF Spec

(* The guard against deleting oneself keeps the table of accounts from     *)
(* running empty, except when the request's own account was deleted after  *)
(* check_user_enabled let it pass.                                         *)
THEOREM EmptiedOnlyByDeleted == Spec => EmptiedByDeletedOnly
  <1> DEFINE A == (\E a \in Accounts : Exists(a)) /\ ~(\E a \in Accounts : Exists(a)') =>
                    \E r \in Requests : /\ request[r] # Idle /\ request[r].op = "delete"
                                        /\ ~Exists(request[r].who)
  <1>1. TypeOK /\ [Next]_vars => A
    <2> SUFFICES ASSUME TypeOK, [Next]_vars, NEW a \in Accounts, Exists(a),
                        \A b \in Accounts : ~Exists(b)'
                 PROVE  \E r \in Requests : /\ request[r] # Idle /\ request[r].op = "delete"
                                            /\ ~Exists(request[r].who)
      OBVIOUS
    <2>1. PICK r \in Requests : /\ request[r] # Idle /\ DeleteUser(r)
                                /\ request[r].arg = a /\ request[r].who # a
      BY AccountsKept
    <2>2. request[r].op = "delete"
      BY <2>1 DEF DeleteUser, Handling
    <2>3. PICK w \in Accounts : w = request[r].who
      BY <2>1, PendingTyped DEF Pending
    <2>4. account'[w] = account[w]
      BY <2>1, <2>3 DEF DeleteUser, TypeOK
    <2>5. ~Exists(w)
      BY <2>4 DEF Exists
    <2> QED BY <2>1, <2>2, <2>3, <2>5
  <1>2. TypeOK /\ [Next]_vars => [A]_vars
    BY <1>1
  <1>3. EmptiedByDeletedOnly <=> [][A]_vars
    BY DEF EmptiedByDeletedOnly
  <1> HIDE DEF A
  <1> QED BY <1>2, <1>3, AccessTyped, PTL DEF Spec

-----------------------------------------------------------------------------
(* A grant that passed the conflict check asks for more than the row of its*)
(* key gave at that moment.  NarrowsUnseenOnly needs it: the row is written*)
(* in a later statement than the check.                                    *)
AsksForMore == \A r \in Requests :
  request[r] # Idle /\ request[r].pc = "upsert" => request[r].seen < request[r].arg.expires

(* What the conflict check lets pass outlasts the row of its key.          *)
LEMMA PassedAsksForMore ==
  ASSUME TypeOK, NEW p \in Grant, \A q \in rules : ~Conflicts(q, p)
  PROVE  ExpiryOf(p) < p.expires
  <1>1. p.expires \in 1 .. Never /\ Never \in Nat /\ p.scope \in Scopes
    BY DEF Grant, Never
  <1>2. CASE ~ \E q \in rules : SameKey(p, q)
    BY <1>1, <1>2 DEF ExpiryOf, Unseen
  <1>3. CASE \E q \in rules : SameKey(p, q)
    <2>1. PICK q \in rules : SameKey(p, q) /\ ExpiryOf(p) = q.expires
      BY <1>3 DEF ExpiryOf
    <2>2. q.expires \in 1 .. Never
      BY DEF TypeOK, Rule
    <2>3. p.scope.pattern \in Path
      BY <1>1
    <2>4. Covers(q.scope.pattern, p.scope.pattern) /\ ForMethod(q, p.scope.method)
      BY <2>1, <2>3 DEF Covers, ForMethod, SameKey, Path
    <2>5. ~(q.expires = Never \/ (p.expires # Never /\ q.expires >= p.expires))
      BY <2>1, <2>4 DEF Conflicts, SameKey
    <2> QED BY <1>1, <2>1, <2>2, <2>5
  <1> QED BY <1>2, <1>3

LEMMA MoreStep == TypeOK /\ AsksForMore /\ [Next]_vars => AsksForMore'
  <1> SUFFICES ASSUME TypeOK, AsksForMore, [Next]_vars, NEW r \in Requests,
                      request'[r] # Idle, request'[r].pc = "upsert"
               PROVE  request'[r].seen < request'[r].arg.expires
    BY DEF AsksForMore
  <1>0. request = [s \in Requests |-> request[s]]
    BY DEF TypeOK
  <1>1. CASE request'[r] = request[r]
    BY <1>1 DEF AsksForMore
  <1>2. CASE request'[r] # request[r]
    <2>1. ASSUME NEW s \in Requests, Start(s) PROVE FALSE
      <3>1. PICK a, op, arg : CheckUserEnabled(s, a, op, arg)
        BY <2>1 DEF Start
      <3> QED BY <1>0, <1>2, <3>1 DEF CheckUserEnabled
    <2>2. ~Tick /\ ~UNCHANGED vars
      BY <1>2 DEF Tick, vars
    <2>3. ~Restart
      BY <1>2 DEF Restart, Idle
    <2>4. PICK s \in Requests : RequestStep(s)
      BY <2>1, <2>2, <2>3 DEF Next
    <2>5. ~Done(s)
      BY <1>0, <1>2 DEF Done
    <2>6. ~CheckUserRole(s)
      <3>1. request[s] \in Pending(request[s].op)
        BY <2>4, PendingTyped DEF RequestStep
      <3>2. ASSUME Goto(s, "handle") PROVE FALSE
        BY <1>0, <1>2, <3>1, <3>2 DEF Goto, Pending
      <3> QED BY <2>5, <3>2 DEF CheckUserRole
    <2>7. CheckApiRuleConflict(s)
      BY <2>4, <2>5, <2>6 DEF RequestStep, StoreUser, ModifyUserStatus, DeleteUser, GrantRule,
           RevokeRule
    <2> DEFINE p == request[s].arg
    <2>8. /\ request[s].op = "grant" /\ \A q \in rules : ~Conflicts(q, p)
          /\ request' = [request EXCEPT ![s].pc = "upsert", ![s].seen = ExpiryOf(p)]
      BY <2>5, <2>7 DEF CheckApiRuleConflict, Handling
    <2>9. request[s] \in Pending("grant") /\ p \in Grant
      BY <2>4, <2>8, PendingTyped DEF RequestStep, Pending, ArgOf
    <2>10. ExpiryOf(p) < p.expires
      BY <2>8, <2>9, PassedAsksForMore
    <2>11. s = r /\ request'[r].seen = ExpiryOf(p) /\ request'[r].arg = p
      BY <1>0, <1>2, <2>8, <2>9 DEF Pending
    <2> QED BY <2>10, <2>11
  <1> QED BY <1>1, <1>2

(* The only step that changes a row is the upsert of a grant.              *)
LEMMA RowChanged ==
  ASSUME TypeOK, [Next]_vars, NEW q \in rules, NEW n \in rules', q.id = n.id, q # n
  PROVE  \E r \in Requests : /\ request[r] # Idle /\ request[r].pc = "upsert"
                             /\ n.expires = request[r].arg.expires
  <1>1. n \notin rules
    BY DEF TypeOK
  <1>2. ASSUME NEW r \in Requests, Start(r) \/ RequestStep(r)
        PROVE  request[r] # Idle /\ GrantRule(r)
    BY <1>1, <1>2 DEF Start, CheckUserEnabled, RequestStep, CheckUserRole, StoreUser,
         ModifyUserStatus, DeleteUser, Cascade, CheckApiRuleConflict, RevokeRule
  <1>3. PICK r \in Requests : request[r] # Idle /\ GrantRule(r)
    BY <1>1, <1>2 DEF Next, Tick, Restart, vars
  <1> DEFINE p == request[r].arg
  <1>4. request[r].pc = "upsert" /\ rules' = Upserted(p)
    BY <1>1, <1>3 DEF GrantRule
  <1>5. n.expires = p.expires
    <2> HIDE DEF p
    <2>1. CASE n = Row(NewId, p)
      BY <2>1 DEF Row
    <2>2. CASE \E o \in rules : n = Row(o.id, p)
      BY <2>2 DEF Row
    <2> QED BY <1>1, <1>4, <2>1, <2>2 DEF Upserted
  <1> QED BY <1>3, <1>4, <1>5

(* A grant shortens a rule only if the rule was written between its own    *)
(* conflict check and its upsert, whatever grants overlap: one that saw the*)
(* row would have been refused.                                            *)
THEOREM NarrowsOnlyUnseen == Spec => NarrowsUnseenOnly
  <1> DEFINE A == \A q \in rules, p \in rules' :
                    q.id = p.id /\ p.expires < q.expires =>
                      \E r \in Requests : /\ request[r] # Idle /\ request[r].pc = "upsert"
                                          /\ request[r].seen # q.expires
  <1>1. Init => AsksForMore
    BY DEF Init, AsksForMore
  <1>2. TypeOK /\ TypeOK' /\ AsksForMore /\ [Next]_vars => A
    <2> SUFFICES ASSUME TypeOK, TypeOK', AsksForMore, [Next]_vars,
                        NEW q \in rules, NEW p \in rules', q.id = p.id, p.expires < q.expires
                 PROVE  \E r \in Requests : /\ request[r] # Idle /\ request[r].pc = "upsert"
                                            /\ request[r].seen # q.expires
      OBVIOUS
    <2>1. q.expires \in Nat /\ p.expires \in Nat
      BY DEF TypeOK, Rule, Never
    <2>2. PICK r \in Requests : /\ request[r] # Idle /\ request[r].pc = "upsert"
                                /\ p.expires = request[r].arg.expires
      BY <2>1, RowChanged
    <2>3. request[r].seen < p.expires /\ request[r].seen \in Nat
      BY <2>2, PendingTyped DEF AsksForMore, Pending, Unseen, Never
    <2> QED BY <2>1, <2>2, <2>3
  <1>3. TypeOK /\ TypeOK' /\ AsksForMore /\ [Next]_vars => [A]_vars
    BY <1>2
  <1>4. NarrowsUnseenOnly <=> [][A]_vars
    BY DEF NarrowsUnseenOnly
  <1> HIDE DEF A
  <1> QED BY <1>1, <1>3, <1>4, MoreStep, AccessTyped, PTL DEF Spec
=============================================================================
