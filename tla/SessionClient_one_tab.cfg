\* One tab, and lines enough for a refresh that goes adrift beside the next.
SPECIFICATION ClientSpec
CONSTANTS
  tab1 = tab1  tab2 = tab2  c1 = c1  c2 = c2
  None = None
  Tokens = {t1, t2, t3}
  Families = {f1, f2}
  Slots = {l1, l2, in, out}
  Tabs = {tab1}
  SigningIn = in
  SigningOut = out
  Calls = {c1, c2}
  TabOf <- OneTab
  Boots = {c1}
  Calm = TRUE
  Overlap = TRUE
  MaxRequests = 4
  Faults = FALSE
INVARIANTS NeverRefused StoreLive UncutSessions NoOrphans LeftStaysOut
SYMMETRY Symmetry
CHECK_DEADLOCK FALSE
