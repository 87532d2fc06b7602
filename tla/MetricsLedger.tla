----------------------------- MODULE MetricsLedger -----------------------------
(***************************************************************************)
(* What the metrics pipeline promises to its readers (spend guard, usage   *)
(* pages, alert evaluator), whatever happens between a request and D1.     *)
(*                                                                         *)
(* A metric accepted by the tenant's buffer is pending until it is         *)
(* delivered to the request_metrics table; it never disappears in between. *)
(* A caller whose push failed writes a row of its own, the direct copy, so *)
(* the table may hold two rows of one metric.                              *)
(*                                                                         *)
(* MetricsBuffer implements this specification.                            *)
(***************************************************************************)
EXTENDS Naturals

CONSTANT Metrics    \* the metric rows of one tenant, one per recorded request

VARIABLES
  pending,          \* accepted, not yet visible in D1
  delivered,        \* rows that reached D1 through the buffer
  direct            \* rows a caller inserted into D1 itself

ledgerVars == <<pending, delivered, direct>>

LedgerTypeOK ==
  /\ pending \subseteq Metrics
  /\ delivered \subseteq Metrics
  /\ direct \subseteq Metrics

LedgerInit ==
  /\ pending = {}
  /\ delivered = {}
  /\ direct = {}

(* The buffer takes responsibility for m, once. *)
Accept(m) ==
  /\ m \notin pending \cup delivered
  /\ pending' = pending \cup {m}
  /\ UNCHANGED <<delivered, direct>>

(* A batch of pending rows becomes visible. *)
Deliver(rows) ==
  /\ rows # {}
  /\ rows \subseteq pending
  /\ pending' = pending \ rows
  /\ delivered' = delivered \cup rows
  /\ UNCHANGED direct

(* The caller of a failed push writes the row itself. *)
WriteDirect(m) ==
  /\ m \notin direct
  /\ direct' = direct \cup {m}
  /\ UNCHANGED <<pending, delivered>>

LedgerNext ==
  \/ \E m \in Metrics : Accept(m) \/ WriteDirect(m)
  \/ \E rows \in SUBSET Metrics : Deliver(rows)

LedgerSpec == LedgerInit /\ [][LedgerNext]_ledgerVars

(* Rows of m that an aggregate over request_metrics counts. *)
Copies(m) ==
  (IF m \in delivered THEN 1 ELSE 0) + (IF m \in direct THEN 1 ELSE 0)

=============================================================================
