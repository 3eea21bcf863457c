SPECIFICATION Spec
CONSTANTS
  Admins = {a1, a2}
  Founders = {a1, a2}
  Users = {u1}
  Requests = {q1, q2}
  Scopes <- MCScopes
  Methods = {"POST", "DELETE", "PATCH"}
  Routes <- MCRoutes
  RouteOf <- MCRouteOf
  MaxTime = 1
  MaxRules = 2
SYMMETRY AccessSymmetry
INVARIANTS TypeOK RefusedAddsNothing LackingIsGrantable ListedIsAllowed RulesHaveUsers
PROPERTIES NarrowsUnseenOnly EmptiedByDeletedOnly
CHECK_DEADLOCK FALSE
