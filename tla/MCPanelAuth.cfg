SPECIFICATION FairSpec
CONSTANTS
  Threads = {"r1", "r2"}
  Clients = {"phone"}
  Tokens = {"s", "t"}
  WindowSec = 1
  LockoutAfter = 2
  LockoutSec = 2
  Levels = {0, 1}
  MaxMishaps = 1
INVARIANTS ChangeSignsOut
PROPERTIES WeakeningAsks LockoutEnds
