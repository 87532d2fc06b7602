-------------------------- MODULE MetricsBufferProofs --------------------------
(***************************************************************************)
(* Proofs about MetricsBuffer for every set of metrics, every threshold,   *)
(* batch limit and number of retries, and any number of failures.          *)
(***************************************************************************)
EXTENDS MetricsBuffer, TLAPS

(* A row read by a flush stays in the object or is in D1 until the flush,  *)
(* or the batch it left behind, is done with it.                           *)
RowsAccountedFor ==
  /\ \A h \in Handlers : flusher[h].rows \subseteq buffer \cup flushed
  /\ \A h \in Handlers : flusher[h].pc = "delete" => flusher[h].rows \subseteq flushed
  /\ \A b \in inflight : b \subseteq buffer \cup flushed

(* A push that was not handled has left no row. *)
NewLeavesNoRow ==
  \A m \in Metrics : call[m] = "new" => m \notin buffer \cup flushed

(* A push in a flush has not been answered. *)
FlushingIsUnanswered ==
  \A m \in Metrics : flusher[m].pc # "idle" => call[m] = "flushing"

(* The inductive invariant of the safety theorems. *)
RowInv ==
  /\ RowsAccountedFor
  /\ NewLeavesNoRow
  /\ FlushingIsUnanswered
  /\ AcceptedNotLost

LedgerInv == TypeOK /\ RowInv

(***************************************************************************)
(* Types                                                                   *)
(***************************************************************************)

LEMMA HandlersFacts ==
  /\ Metrics \subseteq Handlers
  /\ AlarmHandler \in Handlers \ Metrics
  /\ FlushCall \in Handlers \ Metrics
BY MetricsBufferAssumption DEF Handlers

(* A flush starts with rows of the table only. *)
LEMMA StartFlushRows ==
  ASSUME NEW h \in Handlers, NEW rows, rows \subseteq Metrics,
         flusher \in [Handlers -> FlushState],
         StartFlush(h, rows)
  PROVE  /\ flusher' \in [Handlers -> FlushState]
         /\ flusher'[h].pc = "batch"
         /\ flusher'[h].rows \subseteq rows
         /\ \A g \in Handlers \ {h} : flusher'[g] = flusher[g]
<1>1. PICK b \in Oldest(rows) :
        flusher' = [flusher EXCEPT ![h] = [pc |-> "batch", rows |-> b]]
  BY DEF StartFlush
<1>2. b \subseteq rows
  BY DEF Oldest
<1>3. [pc |-> "batch", rows |-> b] \in FlushState
  BY <1>2 DEF FlushState
<1> QED
  BY <1>1, <1>2, <1>3

(* A handler that leaves its flush changes its own entry and call only. *)
LEMMA EndFlushFacts ==
  ASSUME NEW h \in Handlers, NEW outcome \in CallState, TypeOK,
         EndFlush(h, outcome)
  PROVE  /\ flusher' \in [Handlers -> FlushState]
         /\ flusher'[h] = Idle
         /\ \A g \in Handlers \ {h} : flusher'[g] = flusher[g]
         /\ call' \in [Metrics -> CallState]
         /\ h \in Metrics => call'[h] = outcome
         /\ \A m \in Metrics \ {h} : call'[m] = call[m]
<1>1. Idle \in FlushState
  BY DEF Idle, FlushState
<1>2. flusher' \in [Handlers -> FlushState]
  BY <1>1 DEF EndFlush, TypeOK
<1>3. call' \in [Metrics -> CallState]
  BY DEF EndFlush, TypeOK
<1> QED
  BY <1>2, <1>3 DEF EndFlush, TypeOK

LEMMA InitTypeOK == Init => TypeOK
<1> SUFFICES ASSUME Init
             PROVE  TypeOK
  OBVIOUS
<1>1. call \in [Metrics -> CallState]
  BY DEF Init, CallState
<1>2. flusher \in [Handlers -> FlushState]
  BY DEF Init, FlushState, Idle
<1>3. retries \in 0..MaxRetries /\ faults \in 0..MaxFaults
  BY MetricsBufferAssumption DEF Init
<1> QED
  BY <1>1, <1>2, <1>3 DEF Init, TypeOK

(* Every step keeps the types. *)
LEMMA NextTypeOK == TypeOK /\ [Next]_vars => TypeOK'
<1> SUFFICES ASSUME TypeOK, [Next]_vars
             PROVE  TypeOK'
  OBVIOUS
<1>t. /\ call \in [Metrics -> CallState]
      /\ buffer \subseteq Metrics
      /\ alarm \in BOOLEAN
      /\ retries \in 0..MaxRetries
      /\ flusher \in [Handlers -> FlushState]
      /\ inflight \in SUBSET SUBSET Metrics
      /\ flushed \subseteq Metrics
      /\ direct \subseteq Metrics
      /\ faults \in 0..MaxFaults
  BY DEF TypeOK
<1>r. \A h \in Handlers : flusher[h].rows \subseteq Metrics
  BY <1>t DEF FlushState
<1>f. Fault => faults' \in 0..MaxFaults
  BY <1>t, MetricsBufferAssumption DEF Fault
<1>1. ASSUME NEW m \in Metrics, HandlePush(m)
      PROVE  TypeOK'
  <2>1. buffer' \subseteq Metrics
    BY <1>1, <1>t DEF HandlePush
  <2>2. m \in Handlers
    BY HandlersFacts
  <2>3. flusher' \in [Handlers -> FlushState]
    BY <1>1, <1>t, <2>1, <2>2, StartFlushRows DEF HandlePush
  <2>4. call' \in [Metrics -> CallState]
    BY <1>1, <1>t DEF HandlePush, CallState
  <2> QED
    BY <1>1, <1>t, <2>1, <2>3, <2>4 DEF HandlePush, TypeOK
<1>2. ASSUME NEW m \in Metrics, PushUnreachable(m)
      PROVE  TypeOK'
  <2>1. call' \in [Metrics -> CallState]
    BY <1>2, <1>t DEF PushUnreachable, CallState
  <2> QED
    BY <1>2, <1>t, <1>f, <2>1 DEF PushUnreachable, TypeOK
<1>3. ASSUME NEW m \in Metrics, InsertDirect(m)
      PROVE  TypeOK'
  <2>1. call' \in [Metrics -> CallState]
    BY <1>3, <1>t DEF InsertDirect, CallState
  <2> QED
    BY <1>3, <1>t, <2>1 DEF InsertDirect, TypeOK
<1>4. ASSUME NEW m \in Metrics, InsertDirectFails(m)
      PROVE  TypeOK'
  <2>1. call' \in [Metrics -> CallState]
    BY <1>4, <1>t DEF InsertDirectFails, CallState
  <2> QED
    BY <1>4, <1>t, <2>1 DEF InsertDirectFails, TypeOK
<1>5. CASE FlushRequest
  <2>1. flusher' \in [Handlers -> FlushState]
    BY <1>5, <1>t, HandlersFacts, StartFlushRows DEF FlushRequest
  <2> QED
    BY <1>5, <1>t, <2>1 DEF FlushRequest, TypeOK
<1>6. CASE AlarmFires
  <2>1. flusher' \in [Handlers -> FlushState]
    BY <1>6, <1>t, HandlersFacts, StartFlushRows DEF AlarmFires
  <2>2. retries' \in 0..MaxRetries
    BY <1>6, <1>t, MetricsBufferAssumption DEF AlarmFires
  <2> QED
    BY <1>6, <1>t, <2>1, <2>2 DEF AlarmFires, TypeOK
<1>7. ASSUME NEW h \in Handlers, FlushCommits(h)
      PROVE  TypeOK'
  <2>1. flusher' \in [Handlers -> FlushState]
    BY <1>7, <1>t DEF FlushCommits, FlushState
  <2> QED
    BY <1>7, <1>t, <1>r, <2>1 DEF FlushCommits, TypeOK
<1>8. ASSUME NEW h \in Handlers, FlushDeletes(h)
      PROVE  TypeOK'
  <2>1. /\ flusher' \in [Handlers -> FlushState]
        /\ call' \in [Metrics -> CallState]
    BY <1>8, EndFlushFacts DEF FlushDeletes, CallState
  <2>2. retries' \in 0..MaxRetries /\ alarm' \in BOOLEAN
    BY <1>8, <1>t, MetricsBufferAssumption DEF FlushDeletes
  <2> QED
    BY <1>8, <1>t, <2>1, <2>2 DEF FlushDeletes, TypeOK
<1>9. ASSUME NEW h \in Handlers, FlushFails(h)
      PROVE  TypeOK'
  <2>1. /\ flusher' \in [Handlers -> FlushState]
        /\ call' \in [Metrics -> CallState]
    BY <1>9, EndFlushFacts DEF FlushFails, CallState
  <2>2. retries' \in 0..MaxRetries
    BY <1>9, <1>t, MetricsBufferAssumption DEF FlushFails
  <2>3. alarm' \in BOOLEAN
    BY <1>9, <1>t DEF FlushFails
  <2>4. flushed' \subseteq Metrics
    BY <1>9, <1>t, <1>r DEF FlushFails
  <2>5. faults' \in 0..MaxFaults
    BY <1>9, <1>f DEF FlushFails
  <2> QED
    BY <1>9, <1>t, <2>1, <2>2, <2>3, <2>4, <2>5 DEF FlushFails, TypeOK
<1>10. CASE Evict
  <2>1. buffer' \subseteq Metrics /\ call' \in [Metrics -> CallState]
    BY <1>10, <1>t DEF Evict, CallState
  <2>2. flusher' \in [Handlers -> FlushState]
    BY <1>10 DEF Evict, FlushState, Idle
  <2>3. inflight' \in SUBSET SUBSET Metrics
    BY <1>10, <1>t, <1>r DEF Evict
  <2>4. alarm' \in BOOLEAN /\ faults' \in 0..MaxFaults
    BY <1>10, <1>t, <1>f DEF Evict
  <2> QED
    BY <1>10, <1>t, <2>1, <2>2, <2>3, <2>4 DEF Evict, TypeOK
<1>11. ASSUME NEW b \in inflight, OrphanSettles(b)
       PROVE  TypeOK'
  BY <1>11, <1>t DEF OrphanSettles, TypeOK
<1>12. CASE UNCHANGED vars
  BY <1>12, <1>t DEF vars, TypeOK
<1> QED
  BY <1>1, <1>2, <1>3, <1>4, <1>5, <1>6, <1>7, <1>8, <1>9, <1>10, <1>11, <1>12
     DEF Next

(* The variables keep their types in every behaviour of the pipeline. *)
THEOREM TypeCorrect == Spec => []TypeOK
BY InitTypeOK, NextTypeOK, PTL DEF Spec

(***************************************************************************)
(* No accepted row is lost                                                 *)
(***************************************************************************)

LEMMA InitLedgerInv == Init => LedgerInv
<1> SUFFICES ASSUME Init
             PROVE  LedgerInv
  OBVIOUS
<1>1. TypeOK
  BY InitTypeOK
<1>2. RowsAccountedFor
  BY DEF Init, RowsAccountedFor, Idle
<1>3. NewLeavesNoRow /\ AcceptedNotLost /\ FlushingIsUnanswered
  BY HandlersFacts DEF Init, NewLeavesNoRow, AcceptedNotLost, FlushingIsUnanswered, Idle
<1> QED
  BY <1>1, <1>2, <1>3 DEF LedgerInv, RowInv

(* Starting a flush of rows of the table keeps the rows accounted for.     *)
LEMMA StartFlushAccounted ==
  ASSUME NEW h \in Handlers, LedgerInv, buffer \subseteq buffer',
         buffer' \subseteq Metrics, UNCHANGED <<inflight, flushed>>,
         StartFlush(h, buffer')
  PROVE  RowsAccountedFor'
<1>1. /\ flusher'[h].pc = "batch"
      /\ flusher'[h].rows \subseteq buffer'
      /\ \A g \in Handlers \ {h} : flusher'[g] = flusher[g]
  BY StartFlushRows DEF LedgerInv, TypeOK
<1>2. \A g \in Handlers : flusher'[g].rows \subseteq buffer' \cup flushed'
  BY <1>1 DEF LedgerInv, RowInv, RowsAccountedFor
<1>3. \A g \in Handlers : flusher'[g].pc = "delete" => flusher'[g].rows \subseteq flushed'
  BY <1>1 DEF LedgerInv, RowInv, RowsAccountedFor
<1>4. \A b \in inflight' : b \subseteq buffer' \cup flushed'
  BY DEF LedgerInv, RowInv, RowsAccountedFor
<1> QED
  BY <1>2, <1>3, <1>4 DEF RowsAccountedFor

(* Every step keeps the rows accounted for and the accepted rows.          *)
LEMMA NextLedgerInv == LedgerInv /\ [Next]_vars => LedgerInv'
<1> SUFFICES ASSUME LedgerInv, [Next]_vars
             PROVE  RowInv'
  BY NextTypeOK DEF LedgerInv
<1>t. TypeOK /\ TypeOK'
  BY NextTypeOK DEF LedgerInv
<1>i. /\ RowsAccountedFor
      /\ NewLeavesNoRow
      /\ FlushingIsUnanswered
      /\ AcceptedNotLost
  BY DEF LedgerInv, RowInv
<1>1. ASSUME NEW m \in Metrics, HandlePush(m)
      PROVE  RowInv'
  <2>1. /\ buffer' = buffer \cup {m}
        /\ UNCHANGED <<inflight, flushed>>
        /\ m \in Handlers
    BY <1>1, HandlersFacts DEF HandlePush
  <2>2. buffer' \subseteq Metrics
    BY <2>1, <1>t DEF TypeOK
  <2>3. ASSUME StartFlush(m, buffer')
        PROVE  RowsAccountedFor'
    BY <2>1, <2>2, <2>3, StartFlushAccounted
  <2>4. ASSUME UNCHANGED flusher
        PROVE  RowsAccountedFor'
    BY <2>1, <2>4, <1>i DEF RowsAccountedFor
  <2>5. RowsAccountedFor'
    BY <1>1, <2>3, <2>4 DEF HandlePush
  <2>6. /\ call'[m] # "new"
        /\ \A n \in Metrics \ {m} : call'[n] = call[n]
    BY <1>1, <1>t DEF HandlePush, TypeOK
  <2>7. NewLeavesNoRow'
    BY <2>1, <2>6, <1>i DEF NewLeavesNoRow
  <2>8. AcceptedNotLost'
    BY <2>1, <2>6, <1>i DEF AcceptedNotLost
  <2>9. ASSUME NEW n \in Metrics, flusher'[n].pc # "idle"
        PROVE  call'[n] = "flushing"
    <3>1. CASE n = m /\ UNCHANGED flusher
      BY <3>1, <2>9, <1>1, <1>i DEF HandlePush, FlushingIsUnanswered
    <3>2. CASE n = m /\ StartFlush(m, buffer')
      BY <3>2, <2>9, <1>1, <1>t, <1>i DEF HandlePush, TypeOK, FlushingIsUnanswered
    <3>3. CASE n # m
      <4>1. flusher'[n] = flusher[n]
        BY <3>3, <1>1, <1>t, <2>1, <2>2, HandlersFacts, StartFlushRows
           DEF HandlePush, TypeOK
      <4> QED
        BY <3>3, <4>1, <2>6, <2>9, <1>i DEF FlushingIsUnanswered
    <3> QED
      BY <3>1, <3>2, <3>3, <1>1 DEF HandlePush
  <2> QED
    BY <2>5, <2>7, <2>8, <2>9 DEF RowInv, FlushingIsUnanswered
<1>2. ASSUME NEW m \in Metrics,
             PushUnreachable(m) \/ InsertDirect(m) \/ InsertDirectFails(m)
      PROVE  RowInv'
  <2>1. UNCHANGED <<buffer, flusher, inflight, flushed>>
    BY <1>2 DEF PushUnreachable, InsertDirect, InsertDirectFails
  <2>2. /\ call'[m] \in {"fallback", "recorded", "lost"}
        /\ \A n \in Metrics \ {m} : call'[n] = call[n]
    BY <1>2, <1>t DEF PushUnreachable, InsertDirect, InsertDirectFails, TypeOK
  <2>3. call[m] # "flushing"
    BY <1>2 DEF PushUnreachable, InsertDirect, InsertDirectFails
  <2>4. RowsAccountedFor' /\ NewLeavesNoRow' /\ AcceptedNotLost'
    BY <2>1, <2>2, <1>i DEF RowsAccountedFor, NewLeavesNoRow, AcceptedNotLost
  <2>5. FlushingIsUnanswered'
    BY <2>1, <2>2, <2>3, <1>i DEF FlushingIsUnanswered
  <2> QED
    BY <2>4, <2>5 DEF RowInv
<1>3. ASSUME NEW h \in {FlushCall, AlarmHandler}, StartFlush(h, buffer),
             UNCHANGED <<call, buffer, inflight, flushed>>
      PROVE  RowInv'
  <2>1. /\ h \in Handlers
        /\ buffer' \subseteq Metrics
        /\ StartFlush(h, buffer')
    BY <1>3, <1>t, HandlersFacts DEF TypeOK
  <2>2. RowsAccountedFor'
    BY <1>3, <2>1, StartFlushAccounted
  <2>3. \A m \in Metrics : flusher'[m] = flusher[m]
    BY <1>3, <1>t, <2>1, HandlersFacts, StartFlushRows DEF TypeOK
  <2> QED
    BY <1>3, <2>2, <2>3, <1>i
       DEF RowInv, NewLeavesNoRow, AcceptedNotLost, FlushingIsUnanswered
<1>4. CASE FlushRequest
  BY <1>3, <1>4 DEF FlushRequest
<1>5. CASE AlarmFires
  <2>1. CASE UNCHANGED flusher
    BY <1>5, <2>1, <1>i
       DEF AlarmFires, RowInv, RowsAccountedFor, NewLeavesNoRow, AcceptedNotLost,
           FlushingIsUnanswered
  <2>2. CASE StartFlush(AlarmHandler, buffer)
    BY <1>3, <1>5, <2>2 DEF AlarmFires
  <2> QED
    BY <1>5, <2>1, <2>2 DEF AlarmFires
<1>6. ASSUME NEW h \in Handlers, FlushCommits(h)
      PROVE  RowInv'
  <2>1. /\ flushed' = flushed \cup flusher[h].rows
        /\ flusher'[h].rows = flusher[h].rows
        /\ \A g \in Handlers \ {h} : flusher'[g] = flusher[g]
        /\ UNCHANGED <<call, buffer, inflight>>
    BY <1>6, <1>t DEF FlushCommits, TypeOK, FlushState
  <2>2. flusher[h].rows \subseteq buffer \cup flushed
    BY <1>i DEF RowsAccountedFor
  <2>3. RowsAccountedFor'
    BY <2>1, <1>i DEF RowsAccountedFor
  <2>4. NewLeavesNoRow' /\ AcceptedNotLost'
    BY <2>1, <2>2, <1>i DEF NewLeavesNoRow, AcceptedNotLost
  <2>5. FlushingIsUnanswered'
    BY <1>6, <2>1, <1>i, HandlersFacts DEF FlushCommits, FlushingIsUnanswered
  <2> QED
    BY <2>3, <2>4, <2>5 DEF RowInv
<1>7. ASSUME NEW h \in Handlers, FlushDeletes(h)
      PROVE  RowInv'
  <2>1. /\ flusher'[h] = Idle
        /\ \A g \in Handlers \ {h} : flusher'[g] = flusher[g]
        /\ h \in Metrics => call'[h] = "ok"
        /\ \A m \in Metrics \ {h} : call'[m] = call[m]
    BY <1>7, <1>t, EndFlushFacts DEF FlushDeletes, CallState
  <2>2. /\ buffer' = buffer \ flusher[h].rows
        /\ flusher[h].rows \subseteq flushed
        /\ UNCHANGED <<inflight, flushed>>
    BY <1>7, <1>i DEF FlushDeletes, RowsAccountedFor
  <2>3. buffer' \cup flushed' = buffer \cup flushed
    BY <2>2
  <2>4. RowsAccountedFor'
    BY <2>1, <2>2, <2>3, <1>i DEF RowsAccountedFor, Idle
  <2>5. NewLeavesNoRow'
    BY <2>1, <2>3, <1>i DEF NewLeavesNoRow
  <2>6. ASSUME h \in Metrics
        PROVE  h \in buffer \cup flushed
    BY <2>6, <1>i, <1>7 DEF FlushDeletes, AcceptedNotLost, FlushingIsUnanswered
  <2>7. AcceptedNotLost'
    BY <2>1, <2>3, <2>6, <1>i DEF AcceptedNotLost
  <2>8. FlushingIsUnanswered'
    BY <2>1, <1>i, HandlersFacts DEF FlushingIsUnanswered, Idle
  <2> QED
    BY <2>4, <2>5, <2>7, <2>8 DEF RowInv
<1>8. ASSUME NEW h \in Handlers, FlushFails(h)
      PROVE  RowInv'
  <2>1. /\ flusher'[h] = Idle
        /\ \A g \in Handlers \ {h} : flusher'[g] = flusher[g]
        /\ h \in Metrics => call'[h] = "fallback"
        /\ \A m \in Metrics \ {h} : call'[m] = call[m]
    BY <1>8, <1>t, EndFlushFacts DEF FlushFails, CallState
  <2>2. /\ flushed' \in {flushed, flushed \cup flusher[h].rows}
        /\ flusher[h].rows \subseteq buffer \cup flushed
        /\ UNCHANGED <<buffer, inflight>>
    BY <1>8, <1>i DEF FlushFails, RowsAccountedFor
  <2>3. flushed \subseteq flushed' /\ buffer' \cup flushed' = buffer \cup flushed
    BY <2>2
  <2>4. RowsAccountedFor'
    BY <2>1, <2>2, <2>3, <1>i DEF RowsAccountedFor, Idle
  <2>5. NewLeavesNoRow' /\ AcceptedNotLost'
    BY <2>1, <2>3, <1>i DEF NewLeavesNoRow, AcceptedNotLost
  <2>6. FlushingIsUnanswered'
    BY <2>1, <1>i, HandlersFacts DEF FlushingIsUnanswered, Idle
  <2> QED
    BY <2>4, <2>5, <2>6 DEF RowInv
<1>9. CASE Evict
  <2>1. PICK cut \in {{}} \cup {{m} : m \in {n \in Metrics : call[n] = "new"}} :
          /\ buffer' = buffer \cup cut
          /\ call' = [m \in Metrics |->
                        IF m \in cut \/ call[m] = "flushing" THEN "fallback" ELSE call[m]]
    BY <1>9 DEF Evict
  <2>2. /\ flusher' = [h \in Handlers |-> Idle]
        /\ inflight' = inflight \cup
             {flusher[h].rows : h \in {g \in Handlers : flusher[g].pc = "batch"}}
        /\ UNCHANGED flushed
    BY <1>9 DEF Evict
  <2>3. \A b \in inflight' : b \subseteq buffer \cup flushed
    BY <2>2, <1>i DEF RowsAccountedFor
  <2>4. RowsAccountedFor'
    BY <2>1, <2>2, <2>3 DEF RowsAccountedFor, Idle
  <2>5. \A m \in Metrics : call'[m] = "new" => call[m] = "new" /\ m \notin cut
    BY <2>1
  <2>6. NewLeavesNoRow'
    BY <2>1, <2>2, <2>5, <1>i DEF NewLeavesNoRow
  <2>7. AcceptedNotLost'
    BY <2>1, <2>2, <1>i DEF AcceptedNotLost
  <2>8. FlushingIsUnanswered'
    BY <2>2, HandlersFacts DEF FlushingIsUnanswered, Idle
  <2> QED
    BY <2>4, <2>6, <2>7, <2>8 DEF RowInv
<1>10. ASSUME NEW b \in inflight, OrphanSettles(b)
       PROVE  RowInv'
  <2>1. /\ inflight' \subseteq inflight
        /\ flushed' \in {flushed, flushed \cup b}
        /\ b \subseteq buffer \cup flushed
        /\ UNCHANGED <<call, buffer, flusher>>
    BY <1>10, <1>i DEF OrphanSettles, RowsAccountedFor
  <2>2. flushed \subseteq flushed' /\ buffer' \cup flushed' = buffer \cup flushed
    BY <2>1
  <2> QED
    BY <2>1, <2>2, <1>i
       DEF RowInv, RowsAccountedFor, NewLeavesNoRow, AcceptedNotLost, FlushingIsUnanswered
<1>11. CASE UNCHANGED vars
  BY <1>11, <1>i
     DEF vars, RowInv, RowsAccountedFor, NewLeavesNoRow, AcceptedNotLost,
         FlushingIsUnanswered
<1> QED
  BY <1>1, <1>2, <1>4, <1>5, <1>6, <1>7, <1>8, <1>9, <1>10, <1>11 DEF Next

(* Whatever fails, and however flushes overlap, a push that was answered   *)
(* with success has its row in the object or in D1.                        *)
THEOREM AcceptedNeverLost == Spec => []AcceptedNotLost
<1>1. LedgerInv => AcceptedNotLost
  BY DEF LedgerInv, RowInv
<1> QED
  BY <1>1, InitLedgerInv, NextLedgerInv, PTL DEF Spec

(***************************************************************************)
(* The pipeline implements the ledger                                      *)
(***************************************************************************)

(* Making flushed a set of rows visible is a delivery, or nothing at all   *)
(* when they all were already.                                             *)
LEMMA MoreFlushedDelivers ==
  ASSUME LedgerInv, NEW rows, rows \subseteq buffer \cup flushed,
         flushed' \in {flushed, flushed \cup rows}, UNCHANGED <<buffer, direct>>
  PROVE  [Ledger!LedgerNext]_Ledger!ledgerVars
<1>0. buffer \subseteq Metrics /\ flushed \subseteq Metrics
  BY DEF LedgerInv, TypeOK
<1>1. CASE flushed' = flushed
  BY <1>1 DEF Ledger!ledgerVars
<1>2. CASE flushed' # flushed
  <2> DEFINE new == rows \ flushed
  <2>1. /\ new # {}
        /\ new \subseteq buffer \ flushed
        /\ flushed' = flushed \cup new
        /\ buffer' \ flushed' = (buffer \ flushed) \ new
    BY <1>2
  <2>2. new \in SUBSET Metrics
    BY <1>0, <2>1
  <2>3. Ledger!Deliver(new)
    BY <2>1 DEF Ledger!Deliver
  <2> QED
    BY <2>2, <2>3 DEF Ledger!LedgerNext
<1> QED
  BY <1>1, <1>2

(* A row that becomes known to the object is accepted. *)
LEMMA NewRowAccepted ==
  ASSUME LedgerInv, NEW m \in Metrics, call[m] = "new",
         buffer' = buffer \cup {m}, UNCHANGED <<flushed, direct>>
  PROVE  [Ledger!LedgerNext]_Ledger!ledgerVars
<1>1. m \notin buffer \cup flushed
  BY DEF LedgerInv, RowInv, NewLeavesNoRow
<1>2. buffer' \ flushed' = (buffer \ flushed) \cup {m}
  BY <1>1
<1>3. Ledger!Accept(m)
  BY <1>1, <1>2 DEF Ledger!Accept
<1> QED
  BY <1>3 DEF Ledger!LedgerNext

(* Every step of the pipeline is a step of the ledger or leaves it alone. *)
LEMMA StepRefines ==
  LedgerInv /\ [Next]_vars => [Ledger!LedgerNext]_Ledger!ledgerVars
<1> SUFFICES ASSUME LedgerInv, [Next]_vars
             PROVE  [Ledger!LedgerNext]_Ledger!ledgerVars
  OBVIOUS
<1>i. RowsAccountedFor
  BY DEF LedgerInv, RowInv
<1>1. ASSUME NEW m \in Metrics, HandlePush(m)
      PROVE  [Ledger!LedgerNext]_Ledger!ledgerVars
  BY <1>1, NewRowAccepted DEF HandlePush
<1>2. ASSUME NEW m \in Metrics, InsertDirect(m)
      PROVE  [Ledger!LedgerNext]_Ledger!ledgerVars
  <2>1. CASE m \in direct
    BY <1>2, <2>1 DEF InsertDirect, Ledger!ledgerVars
  <2>2. CASE m \notin direct
    <3>1. Ledger!WriteDirect(m)
      BY <1>2, <2>2 DEF InsertDirect, Ledger!WriteDirect
    <3> QED
      BY <3>1 DEF Ledger!LedgerNext
  <2> QED
    BY <2>1, <2>2
<1>3. ASSUME UNCHANGED <<buffer, flushed, direct>>
      PROVE  [Ledger!LedgerNext]_Ledger!ledgerVars
  BY <1>3 DEF Ledger!ledgerVars
<1>4. ASSUME NEW h \in Handlers, FlushCommits(h) \/ FlushFails(h)
      PROVE  [Ledger!LedgerNext]_Ledger!ledgerVars
  <2>1. /\ flusher[h].rows \subseteq buffer \cup flushed
        /\ flushed' \in {flushed, flushed \cup flusher[h].rows}
        /\ UNCHANGED <<buffer, direct>>
    BY <1>4, <1>i DEF FlushCommits, FlushFails, RowsAccountedFor
  <2> QED
    BY <2>1, MoreFlushedDelivers
<1>5. ASSUME NEW h \in Handlers, FlushDeletes(h)
      PROVE  [Ledger!LedgerNext]_Ledger!ledgerVars
  <2>1. /\ buffer' = buffer \ flusher[h].rows
        /\ flusher[h].rows \subseteq flushed
        /\ UNCHANGED <<flushed, direct>>
    BY <1>5, <1>i DEF FlushDeletes, RowsAccountedFor
  <2>2. buffer' \ flushed' = buffer \ flushed
    BY <2>1
  <2> QED
    BY <2>1, <2>2 DEF Ledger!ledgerVars
<1>6. CASE Evict
  <2>1. PICK cut \in {{}} \cup {{m} : m \in {n \in Metrics : call[n] = "new"}} :
          buffer' = buffer \cup cut
    BY <1>6 DEF Evict
  <2>2. UNCHANGED <<flushed, direct>>
    BY <1>6 DEF Evict
  <2>3. CASE cut = {}
    BY <2>1, <2>2, <2>3, <1>3
  <2>4. CASE cut # {}
    <3>1. PICK m \in Metrics : call[m] = "new" /\ cut = {m}
      BY <2>4
    <3> QED
      BY <2>1, <2>2, <3>1, NewRowAccepted
  <2> QED
    BY <2>3, <2>4
<1>7. ASSUME NEW b \in inflight, OrphanSettles(b)
      PROVE  [Ledger!LedgerNext]_Ledger!ledgerVars
  <2>1. /\ b \subseteq buffer \cup flushed
        /\ flushed' \in {flushed, flushed \cup b}
        /\ UNCHANGED <<buffer, direct>>
    BY <1>7, <1>i DEF OrphanSettles, RowsAccountedFor
  <2> QED
    BY <2>1, MoreFlushedDelivers
<1>8. ASSUME NEW m \in Metrics, PushUnreachable(m) \/ InsertDirectFails(m)
      PROVE  [Ledger!LedgerNext]_Ledger!ledgerVars
  BY <1>3, <1>8 DEF PushUnreachable, InsertDirectFails
<1>9. CASE FlushRequest \/ AlarmFires \/ UNCHANGED vars
  BY <1>3, <1>9 DEF FlushRequest, AlarmFires, vars
<1> QED
  BY <1>1, <1>2, <1>4, <1>5, <1>6, <1>7, <1>8, <1>9 DEF Next

(* The pipeline implements the ledger: a row leaves the object by becoming *)
(* visible in D1 and in no other way.                                      *)
THEOREM PipelineImplementsLedger == Spec => ImplementsLedger
<1>1. Init => Ledger!LedgerInit
  BY DEF Init, Ledger!LedgerInit
<1> QED
  BY <1>1, InitLedgerInv, NextLedgerInv, StepRefines, PTL
     DEF Spec, ImplementsLedger, Ledger!LedgerSpec

(***************************************************************************)
(* Rows are never forgotten by the alarm                                   *)
(***************************************************************************)

(* The platform's retry count never exceeds the failures there were; a     *)
(* push in its flush has not been answered (RowInv, part of LedgerInv).    *)
StrandInv ==
  /\ LedgerInv
  /\ retries <= faults
  /\ StrandedOnlyByFailure

LEMMA NextStrandInv == StrandInv /\ [Next]_vars => StrandInv'
<1> SUFFICES ASSUME StrandInv, [Next]_vars
             PROVE  retries' <= faults' /\ StrandedOnlyByFailure'
  BY NextLedgerInv DEF StrandInv
<1>t. /\ TypeOK
      /\ TypeOK'
      /\ retries <= faults
      /\ retries \in Nat /\ faults \in Nat /\ MaxRetries \in Nat
      /\ StrandedOnlyByFailure
  BY NextTypeOK, MetricsBufferAssumption DEF StrandInv, LedgerInv, TypeOK
<1>f. FlushingIsUnanswered
  BY DEF StrandInv, LedgerInv, RowInv
<1>1. ASSUME NEW m \in Metrics, HandlePush(m)
      PROVE  retries' <= faults' /\ StrandedOnlyByFailure'
  BY <1>1, <1>t DEF HandlePush, StrandedOnlyByFailure, Stranded
<1>2. ASSUME NEW m \in Metrics,
             PushUnreachable(m) \/ InsertDirect(m) \/ InsertDirectFails(m)
      PROVE  retries' <= faults' /\ StrandedOnlyByFailure'
  <2>1. /\ UNCHANGED <<buffer, alarm, retries, flusher>>
        /\ faults' \in {faults, faults + 1}
        /\ call'[m] \in {"fallback", "recorded", "lost"}
        /\ \A n \in Metrics \ {m} : call'[n] = call[n]
    BY <1>2, <1>t
       DEF PushUnreachable, InsertDirect, InsertDirectFails, Fault, TypeOK
  <2>2. retries' <= faults' /\ (faults > MaxRetries => faults' > MaxRetries)
    BY <2>1, <1>t
  <2>3. buffer \subseteq Metrics
    BY <1>t DEF TypeOK
  <2> QED
    BY <2>1, <2>2, <2>3, <1>t DEF StrandedOnlyByFailure, Stranded
<1>3. CASE FlushRequest
  <2>1. flusher'[AlarmHandler] = flusher[AlarmHandler]
    BY <1>3, <1>t, HandlersFacts, StartFlushRows, MetricsBufferAssumption
       DEF FlushRequest, TypeOK
  <2> QED
    BY <1>3, <2>1, <1>t DEF FlushRequest, StrandedOnlyByFailure, Stranded
<1>4. CASE AlarmFires
  <2>1. CASE buffer = {}
    BY <1>4, <2>1, <1>t DEF AlarmFires, StrandedOnlyByFailure, Stranded
  <2>2. CASE buffer # {}
    <3>1. flusher'[AlarmHandler].pc = "batch"
      BY <1>4, <2>2, <1>t, HandlersFacts, StartFlushRows DEF AlarmFires, TypeOK
    <3>2. UNCHANGED <<retries, faults>>
      BY <1>4, <2>2 DEF AlarmFires
    <3> QED
      BY <3>1, <3>2, <1>t DEF StrandedOnlyByFailure, Stranded, Idle
  <2> QED
    BY <2>1, <2>2
<1>5. ASSUME NEW h \in Handlers, FlushCommits(h)
      PROVE  retries' <= faults' /\ StrandedOnlyByFailure'
  <2>1. flusher'[AlarmHandler] = Idle => flusher[AlarmHandler] = Idle
    BY <1>5, <1>t, HandlersFacts DEF FlushCommits, TypeOK, FlushState, Idle
  <2> QED
    BY <1>5, <2>1, <1>t DEF FlushCommits, StrandedOnlyByFailure, Stranded
<1>6. ASSUME NEW h \in Handlers, FlushDeletes(h)
      PROVE  retries' <= faults' /\ StrandedOnlyByFailure'
  <2>1. /\ \A g \in Handlers \ {h} : flusher'[g] = flusher[g]
        /\ \A m \in Metrics \ {h} : call'[m] = call[m]
    BY <1>6, <1>t, EndFlushFacts DEF FlushDeletes, CallState
  <2>2. retries' <= faults'
    BY <1>6, <1>t DEF FlushDeletes
  <2>3. CASE h = AlarmHandler
    BY <1>6, <2>2, <2>3 DEF FlushDeletes, StrandedOnlyByFailure, Stranded
  <2>4. CASE h # AlarmHandler
    <3>1. flusher'[AlarmHandler] = flusher[AlarmHandler]
      BY <2>1, <2>4, HandlersFacts
    <3>2. buffer' \subseteq buffer /\ buffer \subseteq Metrics
      BY <1>6, <1>t DEF FlushDeletes, TypeOK
    <3>3. Stranded' => Stranded
      BY <1>6, <2>4, <3>1, <3>2 DEF FlushDeletes, Stranded
    <3>4. h \in Metrics => call[h] = "flushing"
      BY <1>6, <1>f DEF FlushDeletes, FlushingIsUnanswered, Idle
    <3>5. ASSUME Stranded', ~(faults > MaxRetries), NEW m \in buffer'
          PROVE  call'[m] \in {"fallback", "recorded", "lost"}
      <4>1. \/ \A n \in buffer : call[n] \in {"fallback", "recorded", "lost"}
            \/ faults > MaxRetries
        BY <1>t, <3>3, <3>5 DEF StrandedOnlyByFailure
      <4>2. call[m] \in {"fallback", "recorded", "lost"}
        BY <4>1, <3>2, <3>5
      <4>3. m # h
        BY <3>4, <4>2, <3>2, <3>5
      <4> QED
        BY <4>2, <4>3, <2>1, <3>2, <3>5
    <3>6. faults' = faults
      BY <1>6 DEF FlushDeletes
    <3> QED
      BY <2>2, <3>5, <3>6 DEF StrandedOnlyByFailure
  <2> QED
    BY <2>3, <2>4
<1>7. ASSUME NEW h \in Handlers, FlushFails(h)
      PROVE  retries' <= faults' /\ StrandedOnlyByFailure'
  <2>1. /\ \A g \in Handlers \ {h} : flusher'[g] = flusher[g]
        /\ h \in Metrics => call'[h] = "fallback"
        /\ \A m \in Metrics \ {h} : call'[m] = call[m]
        /\ faults' = faults + 1
        /\ buffer' = buffer /\ buffer \subseteq Metrics
    BY <1>7, <1>t, EndFlushFacts DEF FlushFails, CallState, Fault, TypeOK
  <2>2. retries' <= faults'
    BY <1>7, <1>t, <2>1 DEF FlushFails
  <2>3. CASE h = AlarmHandler
    BY <1>7, <1>t, <2>1, <2>2, <2>3 DEF FlushFails, StrandedOnlyByFailure, Stranded
  <2>4. CASE h # AlarmHandler
    <3>1. Stranded' => Stranded
      BY <1>7, <2>1, <2>4, HandlersFacts DEF FlushFails, Stranded
    <3>2. faults > MaxRetries => faults' > MaxRetries
      BY <2>1, <1>t
    <3> QED
      BY <1>t, <2>1, <2>2, <3>1, <3>2 DEF StrandedOnlyByFailure
  <2> QED
    BY <2>3, <2>4
<1>8. CASE Evict
  <2>1. PICK cut \in {{}} \cup {{m} : m \in {n \in Metrics : call[n] = "new"}} :
          /\ buffer' = buffer \cup cut
          /\ call' = [m \in Metrics |->
                        IF m \in cut \/ call[m] = "flushing" THEN "fallback" ELSE call[m]]
    BY <1>8 DEF Evict
  <2>2. /\ alarm' = (alarm \/ flusher[AlarmHandler] # Idle)
        /\ retries' = retries /\ faults' = faults + 1
    BY <1>8 DEF Evict, Fault
  <2>3. retries' <= faults' /\ (faults > MaxRetries => faults' > MaxRetries)
    BY <2>2, <1>t
  <2>4. ASSUME Stranded', ~(faults > MaxRetries), NEW m \in buffer'
        PROVE  call'[m] \in {"fallback", "recorded", "lost"}
    <3>0. m \in Metrics
      BY <2>4, <1>t DEF TypeOK
    <3>1. CASE m \in cut
      BY <3>0, <3>1, <2>1
    <3>2. CASE m \in buffer
      <4>1. Stranded
        BY <2>2, <2>4, <3>2 DEF Stranded
      <4>2. call[m] \in {"fallback", "recorded", "lost"}
        BY <4>1, <2>4, <3>2, <1>t DEF StrandedOnlyByFailure
      <4> QED
        BY <3>0, <4>2, <2>1
    <3> QED
      BY <2>1, <2>4, <3>1, <3>2
  <2> QED
    BY <2>3, <2>4 DEF StrandedOnlyByFailure
<1>9. ASSUME NEW b \in inflight, OrphanSettles(b)
      PROVE  retries' <= faults' /\ StrandedOnlyByFailure'
  BY <1>9, <1>t DEF OrphanSettles, StrandedOnlyByFailure, Stranded
<1>10. CASE UNCHANGED vars
  BY <1>10, <1>t DEF vars, StrandedOnlyByFailure, Stranded
<1> QED
  BY <1>1, <1>2, <1>3, <1>4, <1>5, <1>6, <1>7, <1>8, <1>9, <1>10 DEF Next

(* Rows are left without an alarm only by a D1 outage that outlasts the    *)
(* retries, or by a push that was cut short and told so.                   *)
THEOREM NeverForgotten == Spec => []StrandedOnlyByFailure
<1>1. Init => StrandInv
  <2> SUFFICES ASSUME Init
               PROVE  StrandInv
    OBVIOUS
  <2>1. retries <= faults /\ StrandedOnlyByFailure
    BY DEF Init, StrandedOnlyByFailure, Stranded
  <2> QED
    BY <2>1, InitLedgerInv DEF StrandInv
<1>2. StrandInv => StrandedOnlyByFailure
  BY DEF StrandInv
<1> QED
  BY <1>1, <1>2, NextStrandInv, PTL DEF Spec

=============================================================================
