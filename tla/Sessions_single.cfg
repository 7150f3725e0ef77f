\* Two sessions, the requests about one of them one at a time; any request
\* may die.
SPECIFICATION Spec
CONSTANTS
  None = None
  Tokens = {t1, t2, t3, t4}
  Families = {f1, f2}
  Slots = {s1, s2}
  Overlap = FALSE
  MaxRequests = 6
  Faults = TRUE
INVARIANTS OneLive EndedStaysEnded
PROPERTY KeepsPromise
SYMMETRY Symmetry
CHECK_DEADLOCK FALSE
