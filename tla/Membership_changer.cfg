\* One slot changes and removes members while the other adds them; any
\* request may die.
SPECIFICATION MixedSpec
CONSTANTS
  s1 = s1  s2 = s2
  None = None
  Users = {u1, u2, u3}
  Slots = {s1, s2}
  Kinds <- OneChanger
  MaxRequests = 5
  Faults = TRUE
INVARIANT NewsCurrent
PROPERTIES RemovalKeepsAdmin ManagersSpareAdmins
SYMMETRY Symmetry
CHECK_DEADLOCK FALSE
