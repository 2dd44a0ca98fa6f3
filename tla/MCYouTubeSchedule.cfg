SPECIFICATION FairSpec
INVARIANTS ManualStands HoldEndsAtBoundary HandTypedSurvives
PROPERTIES ActsAreWhole ScheduleSettles
CONSTANTS
  Parent = {p, q}
  Tick = tick
  Own = {r1, r2}
  Foreign = {x}
  Schedules <- MCSchedules
  DayLength = 3
  Days = 2
  MaxTime = 3
  MaxEvents = 3
