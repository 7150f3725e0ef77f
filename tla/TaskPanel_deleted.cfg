\* One request at a time, none of which fails.
SPECIFICATION Spec
CONSTANTS
  Users = {u1, u2}
  Me = u2
  Managers = {u1}
  Slots = {s1}
  Names = {l1}
  MaxRequests = 2
  Faults = FALSE
INVARIANT ImagesUnlinked
CHECK_DEADLOCK FALSE
