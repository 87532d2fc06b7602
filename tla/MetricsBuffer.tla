----------------------------- MODULE MetricsBuffer -----------------------------
(***************************************************************************)
(* The metrics pipeline of one tenant: pushMetric (metrics/collector.ts),  *)
(* the MetricsBuffer Durable Object (durable/metrics-buffer.ts) with its   *)
(* SQLite rows and its alarm, and the request_metrics table in D1.         *)
(*                                                                         *)
(* The object runs one event at a time but lets others in while a handler  *)
(* awaits D1, so a flush is three steps: the rows are read (in the step of *)
(* the handler that starts it), D1 commits the batch, the handler deletes  *)
(* the rows it read.  Storage calls of the object (getAlarm, setAlarm) do  *)
(* not let another event in and are part of the step that makes them.      *)
(***************************************************************************)
EXTENDS Naturals, FiniteSets

CONSTANTS
  Metrics,       \* the rows pushMetric is called with, one call each
  AlarmHandler,  \* the object's alarm() handler
  FlushCall,     \* a POST /flush request to the object
  Stamp,         \* Stamp[m]: the row's timestamp column
  Threshold,     \* FLUSH_THRESHOLD, 200 in the code
  BatchLimit,    \* LIMIT of the flush's SELECT, 1000 in the code
  MaxRetries,    \* how often the platform retries a failed alarm (6)
  MaxFaults      \* bound: failures and evictions in one behaviour

ASSUME MetricsBufferAssumption ==
  /\ AlarmHandler \notin Metrics
  /\ FlushCall \notin Metrics
  /\ AlarmHandler # FlushCall
  /\ Stamp \in [Metrics -> Nat]
  /\ IsFiniteSet(Metrics)
  /\ Threshold \in Nat \ {0}
  /\ BatchLimit \in Nat \ {0}
  /\ MaxRetries \in Nat
  /\ MaxFaults \in Nat

VARIABLES
  call,      \* call[m]: where pushMetric(m) stands ("new": not handled yet)
  buffer,    \* rows of the object's metrics_buffer table
  alarm,     \* TRUE when the object's alarm is set
  retries,   \* failed runs of the alarm since its last success
  flusher,   \* flusher[h]: the flush handler h is in, if any
  inflight,  \* batches D1 may still execute for handlers that were evicted
  flushed,   \* request_metrics rows written by a flush, by buffer row
  direct,    \* request_metrics rows written by insertDirect
  faults     \* failures and evictions so far

vars ==
  <<call, buffer, alarm, retries, flusher, inflight, flushed, direct, faults>>

Handlers == Metrics \cup {AlarmHandler, FlushCall}

CallState ==
  {"new", "flushing", "ok", "fallback", "recorded", "lost"}

FlushState == [pc : {"idle", "batch", "delete"}, rows : SUBSET Metrics]

Idle == [pc |-> "idle", rows |-> {}]

TypeOK ==
  /\ call \in [Metrics -> CallState]
  /\ buffer \in SUBSET Metrics
  /\ alarm \in BOOLEAN
  /\ retries \in 0..MaxRetries
  /\ flusher \in [Handlers -> FlushState]
  /\ inflight \in SUBSET SUBSET Metrics
  /\ flushed \in SUBSET Metrics
  /\ direct \in SUBSET Metrics
  /\ faults \in 0..MaxFaults

Init ==
  /\ call = [m \in Metrics |-> "new"]
  /\ buffer = {}
  /\ alarm = FALSE
  /\ retries = 0
  /\ flusher = [h \in Handlers |-> Idle]
  /\ inflight = {}
  /\ flushed = {}
  /\ direct = {}
  /\ faults = 0

-----------------------------------------------------------------------------
(* Parts of the handlers *)

(* flush's SELECT: the BatchLimit oldest rows, ties in any order. *)
Oldest(rows) ==
  {b \in SUBSET rows :
     /\ Cardinality(b) <= BatchLimit
     /\ b # rows => Cardinality(b) = BatchLimit
     /\ \A m \in b, n \in rows \ b : Stamp[m] <= Stamp[n]}

StartFlush(h, rows) ==
  \E b \in Oldest(rows) :
     flusher' = [flusher EXCEPT ![h] = [pc |-> "batch", rows |-> b]]

(* The handler h leaves its flush; a push goes on to outcome. *)
EndFlush(h, outcome) ==
  /\ flusher' = [flusher EXCEPT ![h] = Idle]
  /\ call' = IF h \in Metrics THEN [call EXCEPT ![h] = outcome] ELSE call

Fault ==
  /\ faults < MaxFaults
  /\ faults' = faults + 1

-----------------------------------------------------------------------------
(* pushMetric and the push route *)

(* pushMetric(m) finds the object unbound or cannot reach it. *)
PushUnreachable(m) ==
  /\ call[m] = "new"
  /\ Fault
  /\ call' = [call EXCEPT ![m] = "fallback"]
  /\ UNCHANGED <<buffer, alarm, retries, flusher, inflight, flushed, direct>>

(* The push route: insert the row, see that an alarm is set, and flush     *)
(* before answering when the table has reached the threshold.              *)
HandlePush(m) ==
  /\ call[m] = "new"
  /\ buffer' = buffer \cup {m}
  /\ alarm' = TRUE
  /\ \/ /\ Cardinality(buffer') >= Threshold
        /\ StartFlush(m, buffer')
        /\ call' = [call EXCEPT ![m] = "flushing"]
     \/ /\ Cardinality(buffer') < Threshold
        /\ call' = [call EXCEPT ![m] = "ok"]
        /\ UNCHANGED flusher
  /\ UNCHANGED <<retries, inflight, flushed, direct, faults>>

(* The push failed: pushMetric writes the row to D1 under a new id. *)
InsertDirect(m) ==
  /\ call[m] = "fallback"
  /\ call' = [call EXCEPT ![m] = "recorded"]
  /\ direct' = direct \cup {m}
  /\ UNCHANGED <<buffer, alarm, retries, flusher, inflight, flushed, faults>>

(* That insert fails too; pushMetric rejects inside waitUntil and nobody   *)
(* tries again.  (One that is executed and throws is InsertDirect: nobody  *)
(* looks at its answer.  Once per metric, so it needs no bound.)           *)
InsertDirectFails(m) ==
  /\ call[m] = "fallback"
  /\ call' = [call EXCEPT ![m] = "lost"]
  /\ UNCHANGED <<buffer, alarm, retries, flusher, inflight, flushed, direct, faults>>

-----------------------------------------------------------------------------
(* The flush *)

(* The flush route and the alarm start a flush of their own. *)
FlushRequest ==
  /\ flusher[FlushCall] = Idle
  /\ buffer # {}
  /\ StartFlush(FlushCall, buffer)
  /\ UNCHANGED <<call, buffer, alarm, retries, inflight, flushed, direct, faults>>

(* Faulty variant of AlarmFires: every run counts as a retry, not only the *)
(* failed ones.                                                            *)
AlarmFires_CountsRuns ==
  /\ alarm
  /\ flusher[AlarmHandler] = Idle
  /\ buffer # {}
  /\ alarm' = FALSE
  /\ retries' = retries + 1
  /\ StartFlush(AlarmHandler, buffer)
  /\ UNCHANGED <<call, buffer, inflight, flushed, direct, faults>>

(* The alarm goes off and is no longer set.  An empty table ends the       *)
(* handler at once, without setting it again.                              *)
AlarmFires ==
  /\ alarm
  /\ flusher[AlarmHandler] = Idle
  /\ alarm' = FALSE
  /\ \/ /\ buffer = {}
        /\ retries' = 0
        /\ UNCHANGED flusher
     \/ /\ buffer # {}
        /\ StartFlush(AlarmHandler, buffer)
        /\ UNCHANGED retries
  /\ UNCHANGED <<call, buffer, inflight, flushed, direct, faults>>

(* Faulty variant of FlushDeletes: DELETE without the WHERE clause. *)
FlushDeletes_WholeTable(h) ==
  /\ flusher[h].pc = "delete"
  /\ buffer' = {}
  /\ EndFlush(h, "ok")
  /\ alarm' = (alarm \/ h = AlarmHandler)
  /\ retries' = IF h = AlarmHandler THEN 0 ELSE retries
  /\ UNCHANGED <<inflight, flushed, direct, faults>>

(* Faulty variant of FlushDeletes: the alarm does not set itself again. *)
FlushDeletes_NoRearm(h) ==
  /\ flusher[h].pc = "delete"
  /\ buffer' = buffer \ flusher[h].rows
  /\ EndFlush(h, "ok")
  /\ retries' = IF h = AlarmHandler THEN 0 ELSE retries
  /\ UNCHANGED <<alarm, inflight, flushed, direct, faults>>

(* Faulty variant of FlushFails: the rows are deleted in a finally block. *)
FlushFails_Deletes(h) ==
  /\ flusher[h].pc = "batch"
  /\ Fault
  /\ EndFlush(h, "fallback")
  /\ buffer' = buffer \ flusher[h].rows
  /\ UNCHANGED <<alarm, retries, inflight, flushed, direct>>

(* Faulty variant of FlushFails: alarm() catches the error and returns. *)
FlushFails_Swallowed(h) ==
  /\ flusher[h].pc = "batch"
  /\ Fault
  /\ EndFlush(h, "fallback")
  /\ UNCHANGED <<buffer, alarm, retries, inflight, flushed, direct>>

(* D1 executes the batch: INSERT OR IGNORE, by the row's id. *)
FlushCommits(h) ==
  /\ flusher[h].pc = "batch"
  /\ flushed' = flushed \cup flusher[h].rows
  /\ flusher' = [flusher EXCEPT ![h].pc = "delete"]
  /\ UNCHANGED <<call, buffer, alarm, retries, inflight, direct, faults>>

(* The handler resumes: it deletes the rows it read, and the alarm, having *)
(* flushed some, sets itself again.                                        *)
FlushDeletes(h) ==
  /\ flusher[h].pc = "delete"
  /\ buffer' = buffer \ flusher[h].rows
  /\ EndFlush(h, "ok")
  /\ alarm' = (alarm \/ h = AlarmHandler)
  /\ retries' = IF h = AlarmHandler THEN 0 ELSE retries
  /\ UNCHANGED <<inflight, flushed, direct, faults>>

(* The batch call throws, with the batch executed or not, and the handler  *)
(* with it: the push answers an error, a failed alarm is left to the       *)
(* platform, which retries it until it has done so MaxRetries times.       *)
FlushFails(h) ==
  /\ flusher[h].pc = "batch"
  /\ Fault
  /\ flushed' \in {flushed, flushed \cup flusher[h].rows}
  /\ EndFlush(h, "fallback")
  /\ \/ /\ h # AlarmHandler \/ alarm
        /\ UNCHANGED <<alarm, retries>>
     \/ /\ h = AlarmHandler /\ ~alarm /\ retries < MaxRetries
        /\ alarm' = TRUE
        /\ retries' = retries + 1
     \/ /\ h = AlarmHandler /\ ~alarm /\ retries = MaxRetries
        /\ retries' = 0
        /\ UNCHANGED alarm
  /\ UNCHANGED <<buffer, inflight, direct>>

-----------------------------------------------------------------------------
(* The platform *)

(* The object is evicted.  Its handlers end, their callers see an error,   *)
(* their batches may still be executed, and an alarm that was running is   *)
(* run again.  A push may be cut between its INSERT and its setAlarm.      *)
Evict ==
  /\ Fault
  /\ \E cut \in {{}} \cup {{m} : m \in {n \in Metrics : call[n] = "new"}} :
       /\ buffer' = buffer \cup cut
       /\ call' = [m \in Metrics |->
                     IF m \in cut \/ call[m] = "flushing" THEN "fallback" ELSE call[m]]
  /\ flusher' = [h \in Handlers |-> Idle]
  /\ inflight' = inflight \cup
       {flusher[h].rows : h \in {g \in Handlers : flusher[g].pc = "batch"}}
  /\ alarm' = (alarm \/ flusher[AlarmHandler] # Idle)
  /\ UNCHANGED <<retries, flushed, direct>>

(* D1 executes, or never sees, the batch of an evicted handler. *)
OrphanSettles(b) ==
  /\ b \in inflight
  /\ inflight' = inflight \ {b}
  /\ flushed' \in {flushed, flushed \cup b}
  /\ UNCHANGED <<call, buffer, alarm, retries, flusher, direct, faults>>

-----------------------------------------------------------------------------
Next ==
  \/ \E m \in Metrics :
       \/ HandlePush(m) \/ PushUnreachable(m)
       \/ InsertDirect(m) \/ InsertDirectFails(m)
  \/ FlushRequest
  \/ AlarmFires
  \/ \E h \in Handlers : FlushCommits(h) \/ FlushDeletes(h) \/ FlushFails(h)
  \/ Evict
  \/ \E b \in inflight : OrphanSettles(b)

(* D1 answers, a resumed handler finishes and an alarm that is set goes    *)
(* off.  Nobody has to record another metric.                              *)
Fairness ==
  /\ \A h \in Handlers : WF_vars(FlushCommits(h) \/ FlushDeletes(h))
  /\ WF_vars(AlarmFires)

Spec == Init /\ [][Next]_vars

FairSpec == Spec /\ Fairness

-----------------------------------------------------------------------------
(* Properties *)

(* A push that was answered with success, or is still flushing, has its    *)
(* row in the object or in D1: the DELETE of a flush never removes a row   *)
(* that arrived, or that another flush read, while D1 was awaited.         *)
AcceptedNotLost ==
  \A m \in Metrics :
     call[m] \in {"flushing", "ok"} => m \in buffer \cup flushed

(* No alarm is set and none is running, so nothing will flush the rows in  *)
(* the table until another push comes.                                     *)
Stranded ==
  /\ buffer # {}
  /\ ~alarm
  /\ flusher[AlarmHandler] = Idle

(* alarm() keeps itself going while rows remain and push makes sure of an  *)
(* alarm, in every interleaving of the two: rows are stranded only when    *)
(* the retries of a failing alarm ran out, or when each of them is of a    *)
(* push that was cut short after its INSERT and whose caller was told so.  *)
StrandedOnlyByFailure ==
  Stranded =>
    \/ faults > MaxRetries
    \/ \A m \in buffer : call[m] \in {"fallback", "recorded", "lost"}

(* "Re-arms itself as long as data remains" (durable/metrics-buffer.ts,    *)
(* the comment on alarm), taken at its word.                               *)
RearmsWhileDataRemains ==
  (\A m \in Metrics : call[m] \in {"new", "ok"}) => ~Stranded

(* "Persist one metric row" (metrics/collector.ts, the comment on          *)
(* pushMetric): D1 holds at most one row of a metric.                      *)
OneRowPerMetric == flushed \cap direct = {}

(* A row the object accepted reaches D1 as long as the failures of the     *)
(* alarm are fewer than its retries: flushes of pushes, of the flush route *)
(* and of the alarm may overlap and fail without hindering one another.    *)
AcceptedReachesD1 ==
  \A m \in Metrics : call[m] = "ok" ~> m \in flushed

(* The pipeline is a ledger: rows in the object and not in D1 are pending, *)
(* and leave it by becoming visible in D1 only.                            *)
Ledger == INSTANCE MetricsLedger
            WITH pending <- buffer \ flushed, delivered <- flushed

ImplementsLedger == Ledger!LedgerSpec

=============================================================================
