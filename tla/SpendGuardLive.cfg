\* One guard against one dashboard call of each kind, with failures.
CONSTANTS
  r1 = r1
  r2 = r2
  admin = admin
  theKey = theKey
  DayLength = 2
  Metrics = {r1}
  Admins <- MCAdmins
  Keys <- MCKeys
  KeyOf <- MCKeyOf
  DailyLimits = {0, 1}
  MonthlyLimits = {2}
  Caps = {0, 1}
  MaxTime = 4
  EndOfDay <- MCEndOfDay
  EndOfMonth <- MCEndOfMonth
  KeyCapSlack = 9
  MaxFaults = 1
SPECIFICATION FairSpec
PROPERTY SeenCrossingBlocks
CHECK_DEADLOCK FALSE
