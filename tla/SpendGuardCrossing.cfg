\* A request that crosses the limit before its metric is in D1.
CONSTANTS
  r1 = r1
  r2 = r2
  admin = admin
  theKey = theKey
  DayLength = 1
  Metrics <- MCMetrics
  Admins = {}
  Keys <- MCKeys
  KeyOf <- MCKeyOf
  DailyLimits = {1}
  MonthlyLimits = {2}
  Caps = {0}
  MaxTime = 3
  EndOfDay <- MCEndOfDay
  EndOfMonth <- MCEndOfMonth
  KeyCapSlack = 9
  MaxFaults = 0
SPECIFICATION Spec
INVARIANT CrossingBlocks
CHECK_DEADLOCK FALSE
