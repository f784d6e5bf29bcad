SPECIFICATION FairSpec
CONSTANTS
  wall = wall
  desk = desk
  spring = spring
  autumn = autumn
  Tabs = {wall, desk}
  Tokens = {spring, autumn}
  SESSION_TTL = 1
  MaxNow = 2
  MaxMoves = 3
INVARIANTS
  TypeOK
  SessionIsItsToken
PROPERTIES
  RightTokenGetsIn
