\* The board of a member, and the requests of all, one at a time.
SPECIFICATION BoardSpec
CONSTANTS
  u1 = u1  u2 = u2  s1 = s1  d1 = d1  t1 = t1  t2 = t2
  None = None
  Me = u2
  Columns = {"IN_PROGRESS"}
  MaxDrops = 1
  Tasks = {t1, t2}
  Seeded = {t1}
  Users = {u1, u2}
  Slots = {s1}
  Role <- AdminAndMember
  Details = {d1}
  Patches <- Bodies
  Kinds <- OneAtATime
  Tolerance = 0
  MaxClock = 1
  MaxRequests = 2
  Faults = FALSE
INVARIANTS AuditTrail BoardSettles
PROPERTIES NoBlindOverwrite AssigneeTold
CHECK_DEADLOCK FALSE
