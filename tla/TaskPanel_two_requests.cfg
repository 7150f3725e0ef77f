SPECIFICATION Spec
CONSTANTS
  Users = {u1, u2}
  Me = u2
  Managers = {u1}
  Slots = {s1, s2}
  Names = {l1}
  MaxRequests = 2
  Faults = TRUE
INVARIANTS
  PanelSettles
  DiskMatches
CHECK_DEADLOCK FALSE
