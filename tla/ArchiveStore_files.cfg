SPECIFICATION Spec
CONSTANTS
  Records = {r1, r2}
  Files = {f1, f2}
  Users = {}
  Deleters = {d1}
  Cleaners = {n1, n2}
  MaxFaults = 1
  AllowSlow = FALSE
  Nobody = Nobody
SYMMETRY StoreSymmetry
INVARIANTS TypeOK NoDanglingFile CondemnedAreDead WaitsResolve
PROPERTY ImplementsArchive
