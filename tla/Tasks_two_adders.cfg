\* Two requests that add dependencies at the same time.
SPECIFICATION Spec
CONSTANTS
  u1 = u1  u2 = u2  s1 = s1  s2 = s2  d1 = d1
  t1 = t1  t2 = t2  t3 = t3
  None = None
  Tasks = {t1, t2}
  Seeded = {t1, t2}
  Users = {u1}
  Slots = {s1, s2}
  Role <- OneAdmin
  Details = {d1}
  Patches = {}
  Kinds <- TwoAdders
  Tolerance = 1
  MaxClock = 0
  MaxRequests = 2
  Faults = FALSE
INVARIANT Acyclic
CHECK_DEADLOCK FALSE
