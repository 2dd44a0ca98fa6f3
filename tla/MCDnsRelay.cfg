SPECIFICATION FairSpec
INVARIANTS SlotsReturned OneDiscovery WaitersWake
PROPERTIES OneFlight FilterRegained
CONSTANTS
  Names = {n1, n2}
  Calls = {c}
  Lookups = {l1, l2}
  Address = {a, b}
  None = none
  Workers = 1
  MaxEvents = 2
