----------------------------- MODULE MCSpendGuard -----------------------------
(***************************************************************************)
(* Up to two requests with one key, or more with two keys, which are named *)
(* for the first two requests; and one dashboard call.  A day lasts        *)
(* DayLength seconds and a month two days.                                 *)
(***************************************************************************)
EXTENDS SpendGuard, TLC

CONSTANTS r1, r2, admin, theKey, DayLength

MCMetrics == {r1, r2}
MCAdmins == {admin}
MCKeys == {theKey}
MCKeyOf == [r \in Metrics |-> theKey]
MCTwoKeys == {r1, r2}
MCTwoKeyOf == [r \in Metrics |-> IF r = r2 THEN r2 ELSE r1]
MCSymmetry == Permutations(MCMetrics)
MCEndOfDay == [t \in Time |-> t - (t % DayLength) + DayLength]
MCEndOfMonth == [t \in Time |-> t - (t % (2 * DayLength)) + 2 * DayLength]

=============================================================================
