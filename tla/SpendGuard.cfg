\* Two guards and one save of limits, alerts or a cap, in every order.
CONSTANTS
  r1 = r1
  r2 = r2
  admin = admin
  theKey = theKey
  DayLength = 1
  Metrics <- MCMetrics
  Admins <- MCAdmins
  Keys <- MCKeys
  KeyOf <- MCKeyOf
  DailyLimits = {0, 1}
  MonthlyLimits = {2}
  Caps = {0, 1}
  MaxTime = 3
  EndOfDay <- MCEndOfDay
  EndOfMonth <- MCEndOfMonth
  KeyCapSlack = 9
  MaxFaults = 0
SPECIFICATION Spec
SYMMETRY MCSymmetry
INVARIANTS TypeOK BlockJustified KeyBlockJustified
CHECK_DEADLOCK FALSE
