---------------------------- MODULE MCMetricsBuffer ----------------------------
(***************************************************************************)
(* Three metrics; two of them with the same second in their timestamp, the *)
(* third older, so that a flush of the oldest rows may pass over the row   *)
(* that started it.                                                        *)
(***************************************************************************)
EXTENDS MetricsBuffer

CONSTANTS m1, m2, m3, alarmHandler, flushCall

MCMetrics == {m1, m2, m3}
MCStamp == [m \in MCMetrics |-> IF m = m3 THEN 0 ELSE 1]

=============================================================================
