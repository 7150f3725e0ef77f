\* An admin and a member.
SPECIFICATION Spec
CONSTANTS
  admin = admin  member = member
  Users = {admin, member}
  Staff = {admin}
  MaxChannels = 3
  MaxMoves = 3
INVARIANTS OneOfEach
PROPERTIES AddedSees RemovedLeaves
CHECK_DEADLOCK FALSE
