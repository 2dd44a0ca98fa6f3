SPECIFICATION FairSpec
INVARIANTS SessionBounded ChargeIsToday StormIsReported
PROPERTIES ForbiddenEnds
CONSTANTS
  Image = {a, b}
  Limits <- MCLimits
  DefaultLimit = 0
  Grants <- MCGrants
  Leaves <- MCLeaves
  Gap = 2
  StormKills = 2
  StormWindow = 2
  DayLength = 5
  Nap = 3
  MaxTime = 7
  MaxEvents = 4
