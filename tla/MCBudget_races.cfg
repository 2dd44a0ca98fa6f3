SPECIFICATION FairSpec
INVARIANTS TypeOK
PROPERTIES OnlyToggleOpensHold ResetSparesToday LedgerKept Settles HoldIsRestored
CONSTANTS
  IP = {ip1}
  MaxDay = 2
  MaxLimit = 1
  Grants <- MCGrants
  MaxBonus = 1
  MaxUsed = 1
  MaxEvents = 2
  Interleaved = TRUE
  Mishaps = TRUE
  DriftTo <- BothWays
