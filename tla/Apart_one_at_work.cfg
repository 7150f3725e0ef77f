\* The bell of one user, who is told of two things; or a room with one typist;
\* or the profile page of one user; or the cache with one fill at a time and two
\* writers; or two pages that ask for codes at the same time.
SPECIFICATION ApartSpec
CONSTANTS
  u1 = u1  u2 = u2  r1 = r1  r2 = r2  w1 = w1  w2 = w2  page1 = page1  page2 = page2
  MaxNotes = 2
  MaxMoves = 2
  Attempts = 2
  MaxLetters = 2
  MaxCrashes = 1
  Typists = {u1}
  MaxTyping = 5
  Asks = {r1, r2}
  MaxAsks = 4
  Users = {u1, u2}
  Admin = u1
  Stats = Stats
  Readers = {r1}
  Writers = {w1, w2}
  MaxWrites = 2
  Askers = {page1, page2}
  MaxCodes = 2
INVARIANTS ProfileStands StaleIsRaced NewestOpens OneOpenCode
PROPERTIES BadgeSettles IndicatorClears CodeArrives
CHECK_DEADLOCK FALSE
