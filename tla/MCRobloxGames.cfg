SPECIFICATION FairSpec
INVARIANT LedgerMissesNone
PROPERTIES BannedEnds
CONSTANTS
  tycoon = tycoon
  obby = obby
  lobby = lobby
  level = level
  map = map
  Universe = {tycoon, obby}
  Place = {lobby, level, map}
  UniverseOf <- MCUniverseOf
  Lists <- MCLists
  SeenMax = 2
  MaxLines = 5
  MaxLogs = 2
  MaxEvents = 4
