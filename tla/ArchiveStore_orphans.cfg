SPECIFICATION FairSpec
CONSTANTS
  Records = {r1}
  Files = {f1}
  Users = {u1}
  Deleters = {d1}
  Cleaners = {n1}
  MaxFaults = 2
  AllowSlow = FALSE
  Nobody = Nobody
PROPERTY OrphansVanish
