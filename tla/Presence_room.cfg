\* Two tabs; the first may reconnect before the server notices.
SPECIFICATION FairSpec
CONSTANTS
  c1 = c1  c2 = c2  u1 = u1  u2 = u2  k1 = k1  k2 = k2  k3 = k3
  None = None
  Tabs = {c1, c2}
  Users = {u1, u2}
  UserOf <- TwoUsers
  Sockets = {k1, k2, k3}
  TabOf <- ThreeSockets
  Emissions = {e1}
  Stale = 3
  KeyLife = 3
  MaxMissed = 1
  MaxQueue = 2
  MaxMoves = 5
INVARIANTS PresentListed NobodyMissing
PROPERTIES GhostsFade OpenJoins
CHECK_DEADLOCK FALSE
