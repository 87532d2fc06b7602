\* The pipeline with fewer failures than the alarm has retries.
CONSTANTS
  m1 = m1
  m2 = m2
  m3 = m3
  alarmHandler = alarmHandler
  flushCall = flushCall
  Metrics <- MCMetrics
  Stamp <- MCStamp
  AlarmHandler <- alarmHandler
  FlushCall <- flushCall
  Threshold = 2
  BatchLimit = 2
  MaxRetries = 1
  MaxFaults = 1
SPECIFICATION FairSpec
INVARIANTS TypeOK AcceptedNotLost StrandedOnlyByFailure
PROPERTIES ImplementsLedger AcceptedReachesD1
\* Every metric has been recorded and every row flushed.
CHECK_DEADLOCK FALSE
