SPECIFICATION Spec
CONSTANTS
  Records = {}
  Files = {}
  Users = {u1}
  Deleters = {}
  Cleaners = {n1}
  MaxFaults = 1
  AllowSlow = FALSE
  Nobody = Nobody
INVARIANT AvatarNotCleaned
