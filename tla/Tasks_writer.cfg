\* One writer of statuses and dependencies next to requests that create and
\* delete tasks and drop dependencies; every request may die at every await.
SPECIFICATION WriterSpec
CONSTANTS
  u1 = u1  u2 = u2  s1 = s1  s2 = s2  d1 = d1
  t1 = t1  t2 = t2  t3 = t3
  None = None
  Tasks = {t1, t2, t3}
  Seeded = {t1, t2, t3}
  Users = {u1, u2}
  Slots = {s1, s2}
  Role <- AdminAndGone
  Details = {d1}
  Patches <- Sent
  Kinds <- OneWriter
  Tolerance = 1
  MaxClock = 1
  MaxRequests = 3
  Faults = TRUE
INVARIANTS TypeOK Acyclic
PROPERTIES StartsUnblocked RequestsFinish KeepsWorkflow
CHECK_DEADLOCK FALSE
