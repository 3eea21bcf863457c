SPECIFICATION Spec
CONSTANTS
  Nodes = {n1}
  Creators = {c1}
  Admins = {a1}
  MaxVersion = 2
SYMMETRY TemplateSymmetry
INVARIANT CacheCoherent
