SPECIFICATION QuerySpec
CONSTANTS
  Nodes = {n1}
  Creators = {c1, c2, c3}
  Admins = {a1}
  MaxVersion = 1
  PageSizes = {1, 2}
SYMMETRY QuerySymmetry
INVARIANTS QueryTypeOK RecordHasTemplate WalkComplete
