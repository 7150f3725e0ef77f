\* One tab and a peer.
SPECIFICATION Spec
CONSTANTS
  c1 = c1  p1 = p1
  Tabs = {c1}
  Peers = {p1}
  Page = 1
  MaxMessages = 2
  MaxMoves = 3
INVARIANTS NoRepeats SettledSee ShownRead BadgeFresh
CHECK_DEADLOCK FALSE
