\* Two requests with one key and one with another, whose cap is 2.
CONSTANTS
  r1 = r1
  r2 = r2
  admin = admin
  theKey = theKey
  DayLength = 1
  Metrics = {r1, r2, r3}
  Admins = {}
  Keys <- MCTwoKeys
  KeyOf <- MCTwoKeyOf
  DailyLimits = {0}
  MonthlyLimits = {0}
  Caps = {2}
  MaxTime = 2
  EndOfDay <- MCEndOfDay
  EndOfMonth <- MCEndOfMonth
  KeyCapSlack = 9
  MaxFaults = 0
SPECIFICATION Spec
INVARIANT KeyBlockedForItself
CHECK_DEADLOCK FALSE
