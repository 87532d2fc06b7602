\* A failed flush of a push and the direct insert that follows it.
CONSTANTS
  m1 = m1
  m2 = m2
  m3 = m3
  alarmHandler = alarmHandler
  flushCall = flushCall
  Metrics <- MCMetrics
  Stamp <- MCStamp
  AlarmHandler <- alarmHandler
  FlushCall <- flushCall
  Threshold = 2
  BatchLimit = 2
  MaxRetries = 1
  MaxFaults = 1
SPECIFICATION Spec
INVARIANT OneRowPerMetric
CHECK_DEADLOCK FALSE
