\* A D1 outage that outlasts the retries of the alarm.
CONSTANTS
  m1 = m1
  m2 = m2
  m3 = m3
  alarmHandler = alarmHandler
  flushCall = flushCall
  Metrics <- MCMetrics
  Stamp <- MCStamp
  AlarmHandler <- alarmHandler
  FlushCall <- flushCall
  Threshold = 2
  BatchLimit = 2
  MaxRetries = 1
  MaxFaults = 2
SPECIFICATION Spec
INVARIANT RearmsWhileDataRemains
CHECK_DEADLOCK FALSE
