--------------------------- MODULE SpendGuardProofs ---------------------------
(***************************************************************************)
(* Proofs about SpendGuard, for any number of requests and dashboard       *)
(* calls, any limits and caps, and days and months of any length.          *)
(***************************************************************************)
EXTENDS SpendGuard, FiniteSetTheorems, TLAPS

Evaluating == {"settings", "day", "month"}
Storing == {"flag.write", "limits.write", "alerts.write"}
Unrecorded == {"new", "authenticated", "upstream"}
SavingLimits == {"limits.read", "limits.write"}

(* Tasks whose locals have been set by the time they are used. *)
TypedTasks ==
  {x \in TaskState :
     /\ x.pc \in Evaluating => x.at \in Time
     /\ x.pc \in SavingLimits => x.limits \in Limits
     /\ x.pc \in Storing => x.snap \in Settings}

TypeInv ==
  /\ TypeOK
  /\ task \in [Tasks -> TypedTasks]

(***************************************************************************)
(* Types                                                                   *)
(***************************************************************************)

LEMMA ForgetFacts ==
  ASSUME NEW x \in TaskState, NEW pc \in Labels
  PROVE  /\ Forget(x, pc) \in TaskState
         /\ Forget(x, pc).pc = pc
         /\ Forget(x, pc).at = x.at
         /\ Forget(x, pc).until = 0
BY DEF Forget, TaskState

LEMMA EndFacts ==
  ASSUME NEW x \in TaskState, NEW pc \in Labels
  PROVE  /\ End(x, pc) \in TaskState
         /\ End(x, pc).pc = pc
         /\ End(x, pc).at = x.at
         /\ End(x, pc).until = 0
BY ForgetFacts DEF End, TaskState

LEMMA WindowFacts ==
  ASSUME NEW end, IsWindow(end)
  PROVE  /\ \A t \in Time : end[t] \in Nat /\ t < end[t]
         /\ \A s, t \in Time : s <= t /\ t < end[s] => end[t] = end[s]
BY DEF IsWindow

LEMMA BecomeFacts ==
  ASSUME NEW S, task \in [Tasks -> S], NEW t \in Tasks, NEW x \in S, Become(t, x)
  PROVE  /\ task' \in [Tasks -> S]
         /\ task'[t] = x
         /\ \A s \in Tasks \ {t} : task'[s] = task[s]
BY DEF Become

LEMMA InitTypeInv == Init => TypeInv
<1> SUFFICES ASSUME Init
             PROVE  TypeInv
  OBVIOUS
<1>1. (CHOOSE k \in Keys : TRUE) \in Keys
  BY SpendGuardAssumption
<1>2. settings \in Settings /\ limitsSeen \subseteq Limits
  <2>1. [limits : Limits, until : {0}, flagRow : {FALSE}] \subseteq Settings
    <3>1. {0} \subseteq Nat /\ {FALSE} \subseteq BOOLEAN
      OBVIOUS
    <3> QED
      BY <3>1, Zenon DEF Settings
  <2>2. settings \in Settings
    BY <2>1 DEF Init
  <2>3. settings.limits \in Limits
    BY <2>2 DEF Settings
  <2> QED
    BY <2>2, <2>3 DEF Init
<1>3. task \in [Tasks -> TypedTasks]
  BY <1>1, SpendGuardAssumption
     DEF Init, Tasks, TaskState, Labels, TypedTasks, Evaluating, SavingLimits, Storing
<1>4. now \in Time /\ faults \in 0..MaxFaults
  BY SpendGuardAssumption DEF Init, Time
<1>5. LedgerTypeOK
  BY DEF Init, LedgerInit, LedgerTypeOK
<1> QED
  BY <1>2, <1>3, <1>4, <1>5 DEF Init, TypeOK, TypeInv, TypedTasks

(* A step that moves one task to a state with the right locals and leaves  *)
(* the other variables their types keeps the types.                        *)
LEMMA TypeStep ==
  ASSUME TypeInv, NEW t \in Tasks, NEW x \in TypedTasks, Become(t, x),
         LedgerTypeOK', now' \in Time, settings' \in Settings,
         caps' \in [Keys -> Caps], keyUntil' \in [Keys -> Nat],
         limitsSeen' \subseteq Limits, capsSeen' \in [Keys -> SUBSET Caps],
         faults' \in 0..MaxFaults
  PROVE  TypeInv'
<1>1. task' \in [Tasks -> TypedTasks]
  BY BecomeFacts DEF TypeInv
<1> QED
  BY <1>1 DEF TypeInv, TypeOK, TypedTasks

(* Most steps change nothing but the task that makes them. *)
LEMMA TaskOnly ==
  ASSUME TypeInv, NEW t \in Tasks, NEW x \in TypedTasks, Become(t, x),
         UNCHANGED <<ledger, now, settings, caps, keyUntil, history, faults>>
  PROVE  TypeInv'
BY TypeStep DEF TypeInv, TypeOK, LedgerTypeOK, ledger, history

LEMMA NextTypeInv == TypeInv /\ [Next]_vars => TypeInv'
<1> SUFFICES ASSUME TypeInv, [Next]_vars
             PROVE  TypeInv'
  OBVIOUS
<1>t. /\ LedgerTypeOK
      /\ now \in Time
      /\ settings \in Settings
      /\ caps \in [Keys -> Caps]
      /\ keyUntil \in [Keys -> Nat]
      /\ task \in [Tasks -> TypedTasks]
      /\ limitsSeen \subseteq Limits
      /\ capsSeen \in [Keys -> SUBSET Caps]
      /\ faults \in 0..MaxFaults
  BY DEF TypeInv, TypeOK
<1>m. Metrics \subseteq Tasks /\ Admins \subseteq Tasks
  BY DEF Tasks
<1>x. \A t \in Tasks : task[t] \in TaskState /\ task[t] \in TypedTasks
  BY <1>t DEF TypedTasks
<1>w. \A s \in Time : EndOfDay[s] \in Nat /\ EndOfMonth[s] \in Nat
  BY SpendGuardAssumption DEF IsWindow
<1>s. settings.limits \in Limits /\ settings.until \in Nat
  BY <1>t DEF Settings
<1> USE DEF Labels, Ended, TypedTasks, Evaluating, SavingLimits, Storing
<1>1. ASSUME NEW r \in Metrics, Authenticate(r)
      PROVE  TypeInv'
  <2> DEFINE x == [task[r] EXCEPT !.pc = "authenticated",
                                  !.cap = caps[task[r].key],
                                  !.until = keyUntil[task[r].key]]
  <2>1. caps[task[r].key] \in Caps /\ keyUntil[task[r].key] \in Nat
    BY <1>t, <1>m, <1>x DEF TaskState
  <2>2. x \in TypedTasks /\ Become(r, x)
    <3>1. Become(r, x)
      BY <1>1 DEF Authenticate
    <3>2. x \in TaskState
      BY <1>m, <1>x, <2>1 DEF TaskState
    <3> QED
      BY <1>m, <1>x, <3>1, <3>2 DEF TaskState
  <2> HIDE DEF x
  <2> QED
    BY <1>1, <1>m, <2>2, TaskOnly DEF Authenticate
<1>2. ASSUME NEW r \in Metrics, CheckBlocks(r)
      PROVE  TypeInv'
  <2>1. End(task[r], "refused") \in TypedTasks /\ Forget(task[r], "upstream") \in TypedTasks
    BY <1>m, <1>x, EndFacts, ForgetFacts
  <2>2. PICK x \in TypedTasks : Become(r, x)
    BY <1>2, <2>1 DEF CheckBlocks
  <2> QED
    BY <1>2, <1>m, <2>2, TaskOnly DEF CheckBlocks
<1>3. ASSUME NEW r \in Metrics, Record(r)
      PROVE  TypeInv'
  <2>1. PICK next \in {"settings", "unpriced"} :
          Become(r, [Forget(task[r], next) EXCEPT !.at = now])
    BY <1>3 DEF Record
  <2>2. [Forget(task[r], next) EXCEPT !.at = now] \in TypedTasks
    <3>1. Forget(task[r], next) \in TaskState /\ Forget(task[r], next).pc = next
      BY <1>m, <1>x, ForgetFacts
    <3> QED
      BY <1>t, <3>1 DEF TaskState
  <2>3. LedgerTypeOK'
    BY <1>3, <1>t DEF Record, Accept, LedgerTypeOK
  <2> QED
    BY <1>3, <1>t, <1>m, <2>1, <2>2, <2>3, TypeStep DEF Record, history
<1>4. CASE MetricMoves
  <2>1. LedgerTypeOK'
    BY <1>4, <1>t DEF MetricMoves, WriteDirect, Deliver, LedgerTypeOK, Recorded
  <2> QED
    BY <1>4, <1>t, <2>1 DEF MetricMoves, TypeInv, TypeOK, history
<1>5. ASSUME NEW t \in Tasks, ReadSettings(t)
      PROVE  TypeInv'
  <2> DEFINE x == [task[t] EXCEPT !.pc = "day",
                                  !.limits = settings.limits,
                                  !.until = IF Guarding(t) THEN settings.until ELSE 0]
  <2>1. x \in TypedTasks
    BY <1>5, <1>s, <1>x DEF ReadSettings, TaskState
  <2>2. Become(t, x)
    BY <1>5 DEF ReadSettings
  <2> HIDE DEF x
  <2> QED
    BY <1>5, <2>1, <2>2, TaskOnly DEF ReadSettings
<1>6. ASSUME NEW t \in Tasks, ReadDaySpend(t)
      PROVE  TypeInv'
  <2> DEFINE crossed == Reached(task[t].limits.daily, Spend(DayRows(task[t].at)))
             until == IF crossed THEN Later(task[t].until, EndOfDay[task[t].at])
                                 ELSE task[t].until
             x == [task[t] EXCEPT !.pc = "month", !.until = until]
  <2>1. task[t].until \in Nat /\ task[t].at \in Time
    BY <1>6, <1>x DEF ReadDaySpend, TaskState
  <2>2. until \in Nat
    BY <1>w, <2>1 DEF Later
  <2>3. Become(t, x)
    BY <1>6, <1>x DEF ReadDaySpend, TaskState
  <2> HIDE DEF until
  <2>4. x \in TypedTasks
    BY <1>x, <2>1, <2>2 DEF TaskState
  <2> HIDE DEF x
  <2> QED
    BY <1>6, <2>3, <2>4, TaskOnly DEF ReadDaySpend
<1>7. ASSUME NEW t \in Tasks, ReadMonthSpend(t)
      PROVE  TypeInv'
  <2> DEFINE at == task[t].at
             crossed == Reached(task[t].limits.monthly, Spend(MonthRows(at)))
             until == IF crossed THEN Later(task[t].until, EndOfMonth[at]) ELSE task[t].until
             y == Forget(task[t], "flag.read")
             x == [y EXCEPT !.until = until]
  <2>1. task[t].until \in Nat /\ task[t].at \in Time
    BY <1>7, <1>x DEF ReadMonthSpend, TaskState
  <2>2. until \in Nat
    BY <1>w, <2>1 DEF Later
  <2>3. Become(t, Forget(task[t], "cap")) \/ Become(t, x)
    BY <1>7 DEF ReadMonthSpend
  <2>4. y \in TaskState /\ y.pc = "flag.read"
    BY <1>x, ForgetFacts
  <2> HIDE DEF until, y
  <2>5. x \in TypedTasks
    BY <2>2, <2>4 DEF TaskState
  <2>6. Forget(task[t], "cap") \in TypedTasks
    BY <1>x, ForgetFacts
  <2> HIDE DEF x
  <2> QED
    BY <1>7, <2>3, <2>5, <2>6, TaskOnly DEF ReadMonthSpend
<1>8. ASSUME NEW t \in Tasks, ReadLifetimeSpend(t) \/ ReconcileReadsLifetimeSpend(t)
      PROVE  TypeInv'
  <2>1. /\ Forget(task[t], "key.disable") \in TypedTasks
        /\ \A pc \in {"done", "key.clear"} : End(task[t], pc) \in TypedTasks
    BY <1>x, ForgetFacts, EndFacts
  <2>2. PICK x \in TypedTasks : Become(t, x)
    BY <1>8, <2>1 DEF ReadLifetimeSpend, ReconcileReadsLifetimeSpend
  <2> QED
    BY <1>8, <2>2, TaskOnly DEF ReadLifetimeSpend, ReconcileReadsLifetimeSpend
<1>9. ASSUME NEW t \in Tasks, DisableKey(t) \/ ClearKey(t)
      PROVE  TypeInv'
  <2>1. task[t].key \in Keys /\ task[t].at + KeyCapSlack \in Nat
    BY <1>x, SpendGuardAssumption DEF TaskState, Time
  <2>2. keyUntil' \in [Keys -> Nat]
    BY <1>9, <1>t, <2>1 DEF DisableKey, ClearKey
  <2>3. End(task[t], "done") \in TypedTasks /\ Become(t, End(task[t], "done"))
    BY <1>9, <1>x, EndFacts DEF DisableKey, ClearKey
  <2> QED
    BY <1>9, <1>t, <2>2, <2>3, TypeStep DEF DisableKey, ClearKey, ledger, history, LedgerTypeOK
<1>10. ASSUME NEW t \in Tasks, UpdateReads(t)
       PROVE  TypeInv'
  <2> DEFINE x == [task[t] EXCEPT !.snap = settings, !.pc = WriteOf[task[t].pc]]
  <2>1. /\ task[t].pc \in {"flag.read", "limits.read", "alerts.read"}
        /\ WriteOf[task[t].pc] \in {"flag.write", "limits.write", "alerts.write"}
        /\ WriteOf[task[t].pc] = "limits.write" => task[t].pc = "limits.read"
    BY <1>10 DEF UpdateReads, WriteOf
  <2>2. x \in TypedTasks
    BY <1>t, <1>x, <2>1 DEF TaskState
  <2>3. Become(t, x)
    BY <1>10, <1>x DEF UpdateReads, TaskState
  <2> HIDE DEF x
  <2> QED
    BY <1>10, <2>2, <2>3, TaskOnly DEF UpdateReads
<1>u. ASSUME NEW t \in Tasks, task[t].pc \in Storing
      PROVE  /\ task[t].snap.limits \in Limits
             /\ FlagWrittenBack(task[t].snap) \in Nat
  BY <1>s, <1>u, <1>x DEF FlagWrittenBack, Settings
<1>11. ASSUME NEW t \in Tasks, WriteFlag(t)
       PROVE  TypeInv'
  <2>1. settings' \in Settings
    BY <1>11, <1>u, <1>x DEF WriteFlag, Settings, TaskState
  <2>2. Forget(task[t], "cap") \in TypedTasks /\ End(task[t], "done") \in TypedTasks
    BY <1>x, ForgetFacts, EndFacts
  <2>3. PICK x \in TypedTasks : Become(t, x)
    BY <1>11, <2>2 DEF WriteFlag
  <2> QED
    BY <1>11, <1>t, <2>1, <2>3, TypeStep DEF WriteFlag, ledger, history, LedgerTypeOK
<1>12. ASSUME NEW t \in Tasks, WriteLimits(t)
       PROVE  TypeInv'
  <2> DEFINE y == Forget(task[t], "settings")
             x == [y EXCEPT !.at = now]
  <2>1. settings' \in Settings /\ task[t].limits \in Limits
    BY <1>12, <1>t, <1>u, <1>x DEF WriteLimits, Settings
  <2>2. Become(t, x) /\ y \in TaskState /\ y.pc = "settings"
    BY <1>12, <1>x, ForgetFacts DEF WriteLimits
  <2> HIDE DEF y
  <2>3. x \in TypedTasks
    BY <1>t, <2>2 DEF TaskState
  <2> HIDE DEF x
  <2> QED
    BY <1>12, <1>t, <2>1, <2>2, <2>3, TypeStep DEF WriteLimits, ledger, LedgerTypeOK
<1>13. ASSUME NEW t \in Tasks, WriteAlerts(t)
       PROVE  TypeInv'
  <2>1. settings' \in Settings
    BY <1>13, <1>t, <1>u DEF WriteAlerts, Settings
  <2>2. Become(t, End(task[t], "done")) /\ End(task[t], "done") \in TypedTasks
    BY <1>13, <1>x, EndFacts DEF WriteAlerts
  <2> QED
    BY <1>13, <1>t, <2>1, <2>2, TypeStep DEF WriteAlerts, ledger, history, LedgerTypeOK
<1>14. ASSUME NEW a \in Admins, PutLimits(a)
       PROVE  TypeInv'
  <2>1. PICK limits \in Limits :
          Become(a, [task[a] EXCEPT !.pc = "limits.read", !.limits = limits])
    BY <1>14 DEF PutLimits
  <2>2. [task[a] EXCEPT !.pc = "limits.read", !.limits = limits] \in TypedTasks
    BY <1>m, <1>x DEF TaskState
  <2> QED
    BY <1>14, <1>m, <2>1, <2>2, TaskOnly DEF PutLimits
<1>15. ASSUME NEW a \in Admins, PutAlerts(a)
       PROVE  TypeInv'
  <2>1. [task[a] EXCEPT !.pc = "alerts.read"] \in TypedTasks
    BY <1>m, <1>x DEF TaskState
  <2> QED
    BY <1>15, <1>m, <2>1, TaskOnly DEF PutAlerts
<1>16. ASSUME NEW a \in Admins, PatchKey(a)
       PROVE  TypeInv'
  <2>1. PICK k \in Keys, cap \in Caps :
          /\ caps' = [caps EXCEPT ![k] = cap]
          /\ capsSeen' = [capsSeen EXCEPT ![k] = @ \cup {cap}]
          /\ Become(a, [task[a] EXCEPT !.pc = IF cap = 0 THEN "key.clear" ELSE "key.spend",
                                       !.key = k, !.cap = cap])
    BY <1>16 DEF PatchKey
  <2> DEFINE x(pc) == [task[a] EXCEPT !.pc = pc, !.key = k, !.cap = cap]
  <2>2. x("key.clear") \in TypedTasks /\ x("key.spend") \in TypedTasks
    <3>1. task[a] \in TaskState /\ k \in Keys /\ cap \in Caps
      BY <1>m, <1>x, <2>1
    <3>2. x("key.clear") \in TaskState
      BY <3>1 DEF TaskState
    <3>3. x("key.spend") \in TaskState
      BY <3>1 DEF TaskState
    <3>4. x("key.clear").pc = "key.clear" /\ x("key.spend").pc = "key.spend"
      BY <3>1 DEF TaskState
    <3> QED
      BY <3>2, <3>3, <3>4
  <2>3. Become(a, x("key.clear")) \/ Become(a, x("key.spend"))
    BY <2>1
  <2> HIDE DEF x
  <2>4. caps' \in [Keys -> Caps] /\ capsSeen' \in [Keys -> SUBSET Caps]
    BY <1>t, <2>1
  <2> QED
    BY <1>16, <1>t, <1>m, <2>2, <2>4, <2>3, TypeStep DEF PatchKey, ledger, LedgerTypeOK
<1>17. ASSUME NEW t \in Tasks, TaskFails(t)
       PROVE  TypeInv'
  <2>1. End(task[t], "failed") \in TypedTasks
    BY <1>x, EndFacts
  <2>2. faults' \in 0..MaxFaults
    BY <1>17, <1>t, SpendGuardAssumption DEF TaskFails
  <2> QED
    BY <1>17, <1>t, <2>1, <2>2, TypeStep DEF TaskFails, ledger, history, LedgerTypeOK
<1>18. CASE Tick
  <2>1. now' \in Time
    BY <1>18, <1>t, SpendGuardAssumption DEF Tick, Time
  <2> QED
    BY <1>18, <1>t, <2>1 DEF Tick, TypeInv, TypeOK, LedgerTypeOK, ledger, history
<1>19. CASE UNCHANGED vars
  BY <1>19, <1>t DEF vars, TypeInv, TypeOK, LedgerTypeOK
<1> QED
  BY <1>1, <1>2, <1>3, <1>4, <1>5, <1>6, <1>7, <1>8, <1>9, <1>10, <1>11, <1>12, <1>13,
     <1>14, <1>15, <1>16, <1>17, <1>18, <1>19
     DEF Next, Continue

(* Every variable keeps its type; above all, what updateSettings stores    *)
(* was read or validated before, never a local that is not set yet.        *)
THEOREM TypeCorrect == Spec => []TypeOK
<1>1. TypeInv => TypeOK
  BY DEF TypeInv
<1> QED
  BY <1>1, InitTypeInv, NextTypeInv, PTL DEF Spec

(***************************************************************************)
(* The pipeline                                                            *)
(***************************************************************************)

(* A step moves rows as the ledger allows, or none.                        *)
LEMMA LedgerStep ==
  ASSUME TypeInv, [Next]_vars
  PROVE  [LedgerNext]_ledgerVars
<1>1. ASSUME NEW r \in Metrics, Authenticate(r) \/ CheckBlocks(r) \/ Record(r)
      PROVE  [LedgerNext]_ledgerVars
  BY <1>1 DEF Authenticate, CheckBlocks, Record, LedgerNext, ledgerVars, ledger
<1>2. ASSUME NEW a \in Admins, PutLimits(a) \/ PutAlerts(a) \/ PatchKey(a)
      PROVE  UNCHANGED ledgerVars
  BY <1>2 DEF PutLimits, PutAlerts, PatchKey, ledgerVars, ledger
<1>3. ASSUME NEW t \in Tasks, Continue(t) PROVE UNCHANGED ledgerVars
  BY <1>3, Zenon
     DEF Continue, ReadSettings, ReadDaySpend, ReadMonthSpend, UpdateReads, WriteFlag, WriteLimits,
         WriteAlerts, ReadLifetimeSpend, DisableKey, ReconcileReadsLifetimeSpend, ClearKey,
         ledgerVars, ledger
<1>4. ASSUME NEW t \in Tasks, TaskFails(t) PROVE UNCHANGED ledgerVars
  BY <1>4 DEF TaskFails, ledgerVars, ledger
<1>5. CASE MetricMoves
  <2>1. ASSUME NEW r \in Recorded, WriteDirect(r) PROVE LedgerNext
    BY <2>1 DEF Recorded, LedgerNext
  <2>2. ASSUME NEW rows \in SUBSET pending, Deliver(rows) PROVE LedgerNext
    <3>1. rows \in SUBSET Metrics
      BY DEF TypeInv, TypeOK, LedgerTypeOK
    <3> QED
      BY <2>2, <3>1 DEF LedgerNext
  <2> QED
    BY <1>5, <2>1, <2>2 DEF MetricMoves
<1>6. CASE Tick \/ UNCHANGED vars
  BY <1>6 DEF Tick, vars, ledgerVars, ledger
<1> QED
  BY <1>1, <1>2, <1>3, <1>4, <1>5, <1>6 DEF Next

(* Theorem: whatever requests, guards, saves and failures there are, the   *)
(* rows of request_metrics change as the ledger allows, so that any        *)
(* pipeline that implements the ledger, as MetricsBuffer does, may feed    *)
(* the guards.                                                             *)
THEOREM GuardsOverLedger == Spec => LedgerSpec
<1>1. Init => LedgerInit
  BY Zenon DEF Init
<1>2. TypeInv /\ [Next]_vars => [LedgerNext]_ledgerVars
  BY LedgerStep, Zenon
<1> QED
  BY <1>1, <1>2, InitTypeInv, NextTypeInv, PTL DEF Spec, LedgerSpec

(***************************************************************************)
(* Blocks are justified                                                    *)
(***************************************************************************)

(* The flags that are justified now: those that have run out, and the ends *)
(* of the windows whose spend has reached a limit the tenant has had.      *)
JustifiedFlags ==
  {u \in Nat :
     now < u =>
       \E l \in limitsSeen :
         \/ u = EndOfDay[now] /\ Reached(l.daily, Spend(DayRows(now)))
         \/ u = EndOfMonth[now] /\ Reached(l.monthly, Spend(MonthRows(now)))}

(* What a task holds on to stays true while others interleave: its clock   *)
(* is not ahead, its flag is justified, and the limits it evaluates or     *)
(* writes back have been the tenant's.                                     *)
SoundTasks ==
  {x \in TypedTasks :
     /\ x.at <= now
     /\ x.pc \in Unrecorded => x.at = 0
     /\ x.pc \in {"day", "month"} => x.limits \in limitsSeen
     /\ x.pc \in {"day", "month", "flag.read", "flag.write"}
          => x.until \in JustifiedFlags
     /\ x.pc \in Storing
          => x.snap.limits \in limitsSeen /\ x.snap.until \in JustifiedFlags}

BlockInv ==
  /\ TypeInv
  /\ task \in [Tasks -> SoundTasks]
  /\ \A t \in Tasks : task[t].pc \in SavingLimits => t \notin Metrics
  /\ settings.limits \in limitsSeen
  /\ settings.until \in JustifiedFlags

(* What every step does to the state the flags are justified by: rows and  *)
(* limits are added, time moves on by a second, records keep their time.   *)
Grows ==
  /\ delivered \subseteq delivered'
  /\ direct \subseteq direct'
  /\ limitsSeen \subseteq limitsSeen'
  /\ now' \in {now, now + 1}
  /\ \A r \in Metrics : task[r].at # 0 => task'[r].at = task[r].at

(* The same limit is reached by more rows. *)
LEMMA ReachedGrows ==
  ASSUME NEW rows \in SUBSET Metrics, NEW more \in SUBSET Metrics, rows \subseteq more,
         LedgerTypeOK, LedgerTypeOK', Grows, NEW limit \in Nat,
         Reached(limit, Spend(rows))
  PROVE  Reached(limit, Spend(more)')
<1>1. /\ IsFiniteSet(more \cap delivered')
      /\ IsFiniteSet(more \cap direct')
  BY FS_Subset, SpendGuardAssumption
<1>2. /\ rows \cap delivered \subseteq more \cap delivered'
      /\ rows \cap direct \subseteq more \cap direct'
  BY DEF Grows
<1>3. /\ Cardinality(rows \cap delivered) <= Cardinality(more \cap delivered')
      /\ Cardinality(rows \cap direct) <= Cardinality(more \cap direct')
  BY <1>1, <1>2, FS_Subset
<1>4. /\ Cardinality(rows \cap delivered) \in Nat
      /\ Cardinality(rows \cap direct) \in Nat
      /\ Cardinality(more \cap delivered') \in Nat
      /\ Cardinality(more \cap direct') \in Nat
  BY <1>1, <1>2, FS_Subset, FS_CardinalityType
<1> QED
  BY <1>3, <1>4 DEF Reached, Spend

(* A justified flag stays justified. *)
LEMMA JustifiedGrows ==
  ASSUME TypeInv, TypeInv', Grows
  PROVE  JustifiedFlags \subseteq JustifiedFlags'
<1> SUFFICES ASSUME NEW u \in JustifiedFlags, now' < u
             PROVE  \E l \in limitsSeen' :
                      \/ /\ u = EndOfDay[now']
                         /\ Reached(l.daily, Spend(DayRows(now))')
                      \/ /\ u = EndOfMonth[now']
                         /\ Reached(l.monthly, Spend(MonthRows(now))')
  BY DEF JustifiedFlags
<1>1. /\ now \in Time /\ now' \in Time
      /\ u \in Nat /\ now <= now' /\ now < u
      /\ LedgerTypeOK /\ LedgerTypeOK'
  BY DEF TypeInv, TypeOK, Grows, Time, JustifiedFlags
<1>2. PICK l \in limitsSeen :
        \/ u = EndOfDay[now] /\ Reached(l.daily, Spend(DayRows(now)))
        \/ u = EndOfMonth[now] /\ Reached(l.monthly, Spend(MonthRows(now)))
  BY <1>1 DEF JustifiedFlags
<1>3. /\ l \in limitsSeen'
      /\ l.daily \in Nat /\ l.monthly \in Nat
  BY <1>2, SpendGuardAssumption DEF Grows, TypeInv, TypeOK, Limits
<1>4. Recorded \subseteq Recorded'
  BY DEF Recorded, Grows
<1>5. CASE u = EndOfDay[now] /\ Reached(l.daily, Spend(DayRows(now)))
  <2>1. EndOfDay[now'] = EndOfDay[now]
    BY <1>1, <1>5, WindowFacts, SpendGuardAssumption
  <2>2. /\ DayRows(now) \subseteq DayRows(now)'
        /\ DayRows(now) \in SUBSET Metrics
        /\ DayRows(now)' \in SUBSET Metrics
    BY <1>4, <2>1 DEF DayRows, Recorded, Grows
  <2>3. Reached(l.daily, Spend(DayRows(now))')
    BY <1>1, <1>3, <1>5, <2>2, ReachedGrows
  <2> QED
    BY <1>3, <1>5, <2>1, <2>3
<1>6. CASE u = EndOfMonth[now] /\ Reached(l.monthly, Spend(MonthRows(now)))
  <2>1. EndOfMonth[now'] = EndOfMonth[now]
    BY <1>1, <1>6, WindowFacts, SpendGuardAssumption
  <2>2. /\ MonthRows(now) \subseteq MonthRows(now)'
        /\ MonthRows(now) \in SUBSET Metrics
        /\ MonthRows(now)' \in SUBSET Metrics
    BY <1>4, <2>1 DEF MonthRows, Recorded, Grows
  <2>3. Reached(l.monthly, Spend(MonthRows(now))')
    BY <1>1, <1>3, <1>6, <2>2, ReachedGrows
  <2> QED
    BY <1>3, <1>6, <2>1, <2>3
<1> QED
  BY <1>2, <1>5, <1>6

(* A sound task stays sound while it does nothing. *)
LEMMA SoundGrows ==
  ASSUME TypeInv, TypeInv', Grows
  PROVE  SoundTasks \subseteq SoundTasks'
<1>1. JustifiedFlags \subseteq JustifiedFlags' /\ limitsSeen \subseteq limitsSeen'
  BY JustifiedGrows DEF Grows
<1>2. \A x \in TypedTasks : x.at <= now => x.at <= now'
  <2>1. now \in Nat /\ now' \in Nat /\ now <= now'
    BY DEF TypeInv, TypeOK, Time, Grows
  <2>2. \A x \in TypedTasks : x.at \in Nat
    BY DEF TypedTasks, TaskState, Time
  <2> QED
    BY <2>1, <2>2
<1> QED
  BY <1>1, <1>2 DEF SoundTasks

LEMMA InitBlockInv == Init => BlockInv
<1> SUFFICES ASSUME Init
             PROVE  BlockInv
  OBVIOUS
<1>1. TypeInv
  BY InitTypeInv
<1>2. \A t \in Tasks : task[t] \in TypedTasks /\ task[t].pc = "new" /\ task[t].at = 0
  BY <1>1 DEF Init, TypeInv
<1>3. ASSUME NEW t \in Tasks
      PROVE  task[t] \in SoundTasks
  <2>1. now = 1
    BY DEF Init
  <2>2. task[t].at <= now
    BY <1>2, <1>3, <2>1
  <2> QED
    BY <1>2, <1>3, <2>2 DEF SoundTasks, Storing
<1>4. /\ task \in [Tasks -> SoundTasks]
      /\ \A t \in Tasks : task[t].pc \in SavingLimits => t \notin Metrics
  BY <1>1, <1>2, <1>3 DEF TypeInv, SavingLimits
<1>5. settings.limits \in limitsSeen /\ settings.until \in JustifiedFlags
  BY DEF Init, JustifiedFlags
<1> QED
  BY <1>1, <1>4, <1>5 DEF BlockInv

(* A task that goes on to a sound state, keeping the time of its record,   *)
(* and stores a justified flag and known limits, keeps the invariant.      *)
LEMMA BlockStep ==
  ASSUME BlockInv, TypeInv', NEW t \in Tasks, NEW x \in TypedTasks, Become(t, x),
         x \in SoundTasks \/ x \in SoundTasks',
         t \in Metrics => task[t].at = 0 \/ x.at = task[t].at,
         x.pc \in SavingLimits => t \notin Metrics,
         delivered' = delivered, direct' = direct, now' = now,
         limitsSeen \subseteq limitsSeen',
         settings'.limits \in limitsSeen',
         settings'.until \in JustifiedFlags
  PROVE  BlockInv'
<1>1. /\ task'[t] = x
      /\ \A s \in Tasks \ {t} : task'[s] = task[s]
  BY BecomeFacts DEF BlockInv, TypeInv
<1>2. Grows
  BY <1>1 DEF Grows, Tasks
<1>3. SoundTasks \subseteq SoundTasks' /\ JustifiedFlags \subseteq JustifiedFlags'
  BY <1>2, SoundGrows, JustifiedGrows DEF BlockInv
<1>4. \A s \in Tasks : task'[s] \in SoundTasks'
  BY <1>1, <1>3 DEF BlockInv
<1>5. task' \in [Tasks -> SoundTasks']
  BY <1>4 DEF TypeInv
<1>6. \A s \in Tasks : task'[s].pc \in SavingLimits => s \notin Metrics
  BY <1>1 DEF BlockInv
<1> QED
  BY <1>3, <1>5, <1>6 DEF BlockInv

(* Most steps store nothing. *)
LEMMA BlockTaskOnly ==
  ASSUME BlockInv, TypeInv', NEW t \in Tasks, NEW x \in SoundTasks, Become(t, x),
         t \in Metrics => task[t].at = 0 \/ x.at = task[t].at,
         x.pc \in SavingLimits => t \notin Metrics,
         UNCHANGED <<ledger, now, settings, history>>
  PROVE  BlockInv'
<1>1. x \in TypedTasks
  BY DEF SoundTasks
<1> QED
  BY <1>1, BlockStep DEF BlockInv, ledger, history

(* A flag computed for a window of the task's clock is justified now.      *)
LEMMA WindowJustified ==
  ASSUME TypeInv, NEW at \in Time, at <= now, NEW l \in limitsSeen
  PROVE  /\ Reached(l.daily, Spend(DayRows(at))) => EndOfDay[at] \in JustifiedFlags
         /\ Reached(l.monthly, Spend(MonthRows(at))) => EndOfMonth[at] \in JustifiedFlags
<1>t. now \in Time
  BY DEF TypeInv, TypeOK
<1>w. EndOfDay[at] \in Nat /\ EndOfMonth[at] \in Nat
  BY WindowFacts, SpendGuardAssumption
<1>1. ASSUME Reached(l.daily, Spend(DayRows(at))), now < EndOfDay[at]
      PROVE  EndOfDay[at] = EndOfDay[now] /\ Reached(l.daily, Spend(DayRows(now)))
  <2>1. EndOfDay[now] = EndOfDay[at]
    BY <1>t, <1>1, WindowFacts, SpendGuardAssumption
  <2>2. DayRows(now) = DayRows(at)
    BY <2>1 DEF DayRows
  <2> QED
    BY <1>1, <2>1, <2>2
<1>2. ASSUME Reached(l.monthly, Spend(MonthRows(at))), now < EndOfMonth[at]
      PROVE  EndOfMonth[at] = EndOfMonth[now] /\ Reached(l.monthly, Spend(MonthRows(now)))
  <2>1. EndOfMonth[now] = EndOfMonth[at]
    BY <1>t, <1>2, WindowFacts, SpendGuardAssumption
  <2>2. MonthRows(now) = MonthRows(at)
    BY <2>1 DEF MonthRows
  <2> QED
    BY <1>2, <2>1, <2>2
<1> QED
  BY <1>w, <1>1, <1>2 DEF JustifiedFlags

(* A task that leaves its evaluation holds nothing that could be wrong.    *)
LEMMA LeavingIsSound ==
  ASSUME BlockInv, NEW t \in Tasks,
         NEW pc \in Ended \cup {"cap", "key.disable", "key.clear"}
  PROVE  Forget(task[t], pc) \in SoundTasks /\ End(task[t], pc) \in SoundTasks
<1>1. task[t] \in TaskState /\ task[t].at <= now /\ pc \in Labels
  BY DEF BlockInv, TypeInv, SoundTasks, TypedTasks, Labels
<1> QED
  BY <1>1, ForgetFacts, EndFacts
     DEF SoundTasks, TypedTasks, Evaluating, SavingLimits, Storing, Unrecorded, Ended

LEMMA NextBlockInv == BlockInv /\ [Next]_vars => BlockInv'
<1> SUFFICES ASSUME BlockInv, [Next]_vars
             PROVE  BlockInv'
  OBVIOUS
<1>t. /\ TypeInv
      /\ TypeInv'
      /\ now \in Time /\ now \in Nat
      /\ LedgerTypeOK
      /\ settings \in Settings
  BY NextTypeInv DEF BlockInv, TypeInv, TypeOK, Time
<1>m. Metrics \subseteq Tasks /\ Admins \subseteq Tasks /\ \A a \in Admins : a \notin Metrics
  BY SpendGuardAssumption DEF Tasks
<1>x. \A t \in Tasks :
        task[t] \in TaskState /\ task[t] \in TypedTasks /\ task[t] \in SoundTasks
  BY DEF BlockInv, SoundTasks, TypedTasks
<1>s. settings.limits \in limitsSeen /\ settings.until \in JustifiedFlags
  BY DEF BlockInv
<1>0. 0 \in JustifiedFlags
  BY <1>t DEF JustifiedFlags
<1> USE DEF Evaluating, SavingLimits, Storing, Unrecorded
<1>1. ASSUME NEW r \in Metrics, Authenticate(r)
      PROVE  BlockInv'
  <2> DEFINE x == [task[r] EXCEPT !.pc = "authenticated",
                                  !.cap = caps[task[r].key],
                                  !.until = keyUntil[task[r].key]]
  <2>1. Become(r, x)
    BY <1>1 DEF Authenticate
  <2>2. x \in TypedTasks
    BY <1>t, <1>m, <2>1, BecomeFacts DEF Become, TypeInv
  <2>3. x.pc = "authenticated" /\ x.at = task[r].at
    BY <1>m, <1>x DEF TaskState
  <2>4. task[r].at <= now /\ task[r].at = 0
    BY <1>1, <1>m, <1>x DEF Authenticate, SoundTasks
  <2> HIDE DEF x
  <2>5. x \in SoundTasks
    BY <2>2, <2>3, <2>4 DEF SoundTasks
  <2> QED
    BY <1>1, <1>t, <1>m, <2>1, <2>3, <2>5, BlockTaskOnly DEF Authenticate
<1>2. ASSUME NEW r \in Metrics, CheckBlocks(r)
      PROVE  BlockInv'
  <2>1. End(task[r], "refused") \in SoundTasks
    BY <1>m, LeavingIsSound DEF Ended
  <2>2. task[r].at = 0
    BY <1>2, <1>m, <1>x DEF CheckBlocks, SoundTasks
  <2>3. Forget(task[r], "upstream") \in SoundTasks
    <3> DEFINE x == Forget(task[r], "upstream")
    <3>1. x \in TaskState /\ x.pc = "upstream" /\ x.at = task[r].at
      BY <1>m, <1>x, ForgetFacts DEF Labels
    <3>2. task[r].at <= now
      BY <1>m, <1>x DEF SoundTasks
    <3> HIDE DEF x
    <3>3. x \in TypedTasks
      BY <3>1 DEF TypedTasks
    <3>4. x \in SoundTasks
      BY <2>2, <3>1, <3>2, <3>3 DEF SoundTasks
    <3> QED
      BY <3>4 DEF x
  <2>4. PICK x \in SoundTasks : Become(r, x) /\ x.pc \in {"refused", "upstream"}
    BY <1>2, <1>m, <1>x, <2>1, <2>3, EndFacts, ForgetFacts DEF CheckBlocks, Labels, Ended
  <2> QED
    BY <1>2, <1>t, <1>m, <2>2, <2>4, BlockTaskOnly DEF CheckBlocks
<1>3. ASSUME NEW r \in Metrics, Record(r)
      PROVE  BlockInv'
  <2>1. PICK next \in {"settings", "unpriced"} :
          Become(r, [Forget(task[r], next) EXCEPT !.at = now])
    BY <1>3 DEF Record
  <2> DEFINE y == Forget(task[r], next)
             x == [y EXCEPT !.at = now]
  <2>2. y \in TaskState /\ y.pc = next
    BY <1>m, <1>x, <2>1, ForgetFacts DEF Labels, Ended
  <2> HIDE DEF y
  <2>3. x \in TaskState /\ x.pc = next /\ x.at = now
    BY <1>t, <2>2 DEF TaskState
  <2>4. Become(r, x) /\ next \in {"settings", "unpriced"}
    BY <2>1 DEF y
  <2> HIDE DEF x
  <2>5. x \in SoundTasks
    BY <1>t, <2>3, <2>4 DEF SoundTasks, TypedTasks
  <2>6. task[r].at = 0
    BY <1>3, <1>m, <1>x DEF Record, SoundTasks
  <2>7. x \in TypedTasks
    BY <2>5 DEF SoundTasks
  <2> QED
    BY <1>3, <1>t, <1>m, <1>s, <2>3, <2>4, <2>5, <2>6, <2>7, BlockStep
       DEF Record, Accept, history
<1>4. ASSUME Grows, UNCHANGED <<task, settings>>
      PROVE  BlockInv'
  <2>1. SoundTasks \subseteq SoundTasks' /\ JustifiedFlags \subseteq JustifiedFlags'
    BY <1>4, <1>t, SoundGrows, JustifiedGrows
  <2>2. task' \in [Tasks -> SoundTasks']
    <3>1. task \in [Tasks -> SoundTasks]
      BY DEF BlockInv
    <3> QED
      BY <1>4, <2>1, <3>1
  <2> QED
    BY <1>4, <1>t, <1>s, <2>1, <2>2 DEF BlockInv, Grows
<1>5. CASE MetricMoves \/ Tick \/ UNCHANGED vars
  <2>1. Grows /\ UNCHANGED <<task, settings>>
    BY <1>5
       DEF MetricMoves, WriteDirect, Deliver, Tick, vars, Grows, ledger, history
  <2> QED
    BY <1>4, <2>1
<1>6. ASSUME NEW t \in Tasks, ReadSettings(t)
      PROVE  BlockInv'
  <2> DEFINE x == [task[t] EXCEPT !.pc = "day",
                                  !.limits = settings.limits,
                                  !.until = IF Guarding(t) THEN settings.until ELSE 0]
  <2>1. Become(t, x)
    BY <1>6 DEF ReadSettings
  <2>2. x \in TypedTasks
    BY <1>t, <2>1, BecomeFacts DEF Become, TypeInv
  <2>3. /\ x.pc = "day" /\ x.at = task[t].at
        /\ x.limits = settings.limits
        /\ x.until \in {settings.until, 0}
    BY <1>x DEF TaskState
  <2> HIDE DEF x
  <2>4. x \in SoundTasks
    BY <1>x, <1>s, <1>0, <2>2, <2>3 DEF SoundTasks
  <2> QED
    BY <1>6, <1>t, <2>1, <2>3, <2>4, BlockTaskOnly DEF ReadSettings
<1>7. ASSUME NEW t \in Tasks, ReadDaySpend(t)
      PROVE  BlockInv'
  <2> DEFINE at == task[t].at
             crossed == Reached(task[t].limits.daily, Spend(DayRows(at)))
             until == IF crossed THEN Later(task[t].until, EndOfDay[at]) ELSE task[t].until
             x == [task[t] EXCEPT !.pc = "month", !.until = until]
  <2>1. /\ at \in Time /\ at <= now
        /\ task[t].limits \in limitsSeen
        /\ task[t].until \in JustifiedFlags
    BY <1>7, <1>x DEF ReadDaySpend, SoundTasks, TypedTasks
  <2>2. until \in JustifiedFlags
    BY <1>t, <2>1, WindowJustified DEF Later
  <2>3. Become(t, x)
    BY <1>7, <1>x DEF ReadDaySpend, TaskState
  <2> HIDE DEF until
  <2>4. x \in TypedTasks
    BY <1>t, <2>3, BecomeFacts DEF Become, TypeInv
  <2>5. /\ x.pc = "month" /\ x.at = task[t].at
        /\ x.limits = task[t].limits /\ x.until = until
    BY <1>x DEF TaskState
  <2> HIDE DEF x
  <2>6. x \in SoundTasks
    BY <2>1, <2>2, <2>4, <2>5 DEF SoundTasks
  <2> QED
    BY <1>7, <1>t, <2>3, <2>5, <2>6, BlockTaskOnly DEF ReadDaySpend
<1>8. ASSUME NEW t \in Tasks, ReadMonthSpend(t)
      PROVE  BlockInv'
  <2> DEFINE at == task[t].at
             crossed == Reached(task[t].limits.monthly, Spend(MonthRows(at)))
             until == IF crossed THEN Later(task[t].until, EndOfMonth[at]) ELSE task[t].until
             y == Forget(task[t], "flag.read")
             x == [y EXCEPT !.until = until]
  <2>1. /\ at \in Time /\ at <= now
        /\ task[t].limits \in limitsSeen
        /\ task[t].until \in JustifiedFlags
    BY <1>8, <1>x DEF ReadMonthSpend, SoundTasks, TypedTasks
  <2>2. until \in JustifiedFlags
    BY <1>t, <2>1, WindowJustified DEF Later
  <2>3. Become(t, Forget(task[t], "cap")) \/ Become(t, x)
    BY <1>8 DEF ReadMonthSpend
  <2>4. y \in TaskState /\ y.pc = "flag.read" /\ y.at = at
    BY <1>x, ForgetFacts DEF Labels
  <2>5. until \in Nat
    BY <2>2 DEF JustifiedFlags
  <2> HIDE DEF until, y
  <2>6. x \in TaskState /\ x.pc = "flag.read" /\ x.at = at /\ x.until = until
    BY <2>4, <2>5 DEF TaskState
  <2> HIDE DEF x
  <2>7. x \in SoundTasks
    BY <2>1, <2>2, <2>6 DEF SoundTasks, TypedTasks
  <2>8. /\ Forget(task[t], "cap") \in SoundTasks
        /\ Forget(task[t], "cap").pc = "cap"
        /\ Forget(task[t], "cap").at = at
    BY <1>x, LeavingIsSound, ForgetFacts DEF Labels
  <2> QED
    BY <1>8, <1>t, <2>3, <2>6, <2>7, <2>8, BlockTaskOnly DEF ReadMonthSpend
<1>9. ASSUME NEW t \in Tasks, NEW x \in SoundTasks, Become(t, x),
             x.at = task[t].at, x.pc \notin SavingLimits,
             UNCHANGED <<ledger, now, settings, history>>
      PROVE  BlockInv'
  BY <1>9, <1>t, BlockTaskOnly
<1>e. ASSUME NEW t \in Tasks, NEW pc \in Ended \cup {"cap", "key.disable", "key.clear"}
      PROVE  /\ Forget(task[t], pc) \in SoundTasks /\ End(task[t], pc) \in SoundTasks
             /\ Forget(task[t], pc).at = task[t].at /\ End(task[t], pc).at = task[t].at
             /\ Forget(task[t], pc).pc \notin SavingLimits
             /\ End(task[t], pc).pc \notin SavingLimits
  <2>1. pc \in Labels /\ pc \notin SavingLimits
    BY <1>e DEF Labels, Ended
  <2> QED
    BY <1>x, <2>1, LeavingIsSound, ForgetFacts, EndFacts
<1>10. ASSUME NEW t \in Tasks, ReadLifetimeSpend(t) \/ ReconcileReadsLifetimeSpend(t)
       PROVE  BlockInv'
  <2>1. \/ Become(t, Forget(task[t], "key.disable"))
        \/ Become(t, End(task[t], "done"))
        \/ Become(t, End(task[t], "key.clear"))
    BY <1>10 DEF ReadLifetimeSpend, ReconcileReadsLifetimeSpend
  <2>2. UNCHANGED <<ledger, now, settings, history>>
    BY <1>10 DEF ReadLifetimeSpend, ReconcileReadsLifetimeSpend
  <2> QED
    BY <1>9, <1>e, <2>1, <2>2 DEF Ended
<1>11. ASSUME NEW t \in Tasks, DisableKey(t) \/ ClearKey(t) \/ TaskFails(t)
       PROVE  BlockInv'
  <2>1. Become(t, End(task[t], "done")) \/ Become(t, End(task[t], "failed"))
    BY <1>11 DEF DisableKey, ClearKey, TaskFails
  <2>2. UNCHANGED <<ledger, now, settings, history>>
    BY <1>11 DEF DisableKey, ClearKey, TaskFails
  <2> QED
    BY <1>9, <1>e, <2>1, <2>2 DEF Ended
<1>12. ASSUME NEW t \in Tasks, UpdateReads(t)
       PROVE  BlockInv'
  <2> DEFINE x == [task[t] EXCEPT !.snap = settings, !.pc = WriteOf[task[t].pc]]
  <2>1. /\ task[t].pc \in {"flag.read", "limits.read", "alerts.read"}
        /\ WriteOf[task[t].pc] \in Storing
        /\ WriteOf[task[t].pc] = "limits.write" => task[t].pc = "limits.read"
        /\ WriteOf[task[t].pc] = "flag.write" => task[t].pc = "flag.read"
    BY <1>12 DEF UpdateReads, WriteOf
  <2>2. Become(t, x)
    BY <1>12, <1>x DEF UpdateReads, TaskState
  <2>3. x \in TypedTasks
    BY <1>t, <2>2, BecomeFacts DEF Become, TypeInv
  <2>4. /\ x.pc = WriteOf[task[t].pc] /\ x.at = task[t].at
        /\ x.until = task[t].until /\ x.snap = settings
    BY <1>x DEF TaskState
  <2> HIDE DEF x
  <2>5. x \in SoundTasks
    BY <1>x, <1>s, <2>1, <2>3, <2>4 DEF SoundTasks
  <2>6. x.pc \in SavingLimits => t \notin Metrics
    BY <2>1, <2>4 DEF BlockInv
  <2> QED
    BY <1>12, <1>t, <2>2, <2>4, <2>5, <2>6, BlockTaskOnly DEF UpdateReads
<1>u. ASSUME NEW t \in Tasks, task[t].pc \in Storing
      PROVE  /\ task[t].snap.limits \in limitsSeen
             /\ FlagWrittenBack(task[t].snap) \in JustifiedFlags
  BY <1>s, <1>u, <1>x DEF FlagWrittenBack, SoundTasks
<1>13. ASSUME NEW t \in Tasks, WriteFlag(t)
       PROVE  BlockInv'
  <2>1. settings'.limits \in limitsSeen /\ settings'.until \in JustifiedFlags
    BY <1>13, <1>u, <1>x DEF WriteFlag, SoundTasks
  <2>2. Become(t, Forget(task[t], "cap")) \/ Become(t, End(task[t], "done"))
    BY <1>13 DEF WriteFlag
  <2>3. PICK x \in SoundTasks :
          Become(t, x) /\ x.at = task[t].at /\ x.pc \notin SavingLimits
    BY <1>e, <2>2 DEF Ended
  <2>4. x \in TypedTasks
    BY <2>3 DEF SoundTasks
  <2> QED
    BY <1>13, <1>t, <2>1, <2>3, <2>4, BlockStep DEF WriteFlag, ledger, history
<1>14. ASSUME NEW t \in Tasks, WriteAlerts(t)
       PROVE  BlockInv'
  <2>1. settings'.limits \in limitsSeen /\ settings'.until \in JustifiedFlags
    BY <1>14, <1>t, <1>u DEF WriteAlerts, Settings
  <2>2. PICK x \in SoundTasks :
          Become(t, x) /\ x.at = task[t].at /\ x.pc \notin SavingLimits
    BY <1>14, <1>e DEF WriteAlerts, Ended
  <2>3. x \in TypedTasks
    BY <2>2 DEF SoundTasks
  <2> QED
    BY <1>14, <1>t, <2>1, <2>2, <2>3, BlockStep DEF WriteAlerts, ledger, history
<1>15. ASSUME NEW t \in Tasks, WriteLimits(t)
       PROVE  BlockInv'
  <2> DEFINE y == Forget(task[t], "settings")
             x == [y EXCEPT !.at = now]
  <2>1. /\ settings'.limits = task[t].limits
        /\ settings'.until = FlagWrittenBack(task[t].snap)
        /\ limitsSeen' = limitsSeen \cup {task[t].limits}
        /\ t \notin Metrics
    BY <1>15, <1>t DEF WriteLimits, Settings, BlockInv
  <2>2. settings'.until \in JustifiedFlags
    BY <1>15, <1>u, <2>1 DEF WriteLimits
  <2>3. Become(t, x) /\ y \in TaskState /\ y.pc = "settings"
    BY <1>15, <1>x, ForgetFacts DEF WriteLimits, Labels
  <2> HIDE DEF y
  <2>4. x \in TaskState /\ x.pc = "settings" /\ x.at = now
    BY <1>t, <2>3 DEF TaskState
  <2> HIDE DEF x
  <2>5. x \in SoundTasks /\ x \in TypedTasks
    BY <1>t, <2>4 DEF SoundTasks, TypedTasks
  <2> QED
    BY <1>15, <1>t, <2>1, <2>2, <2>3, <2>4, <2>5, BlockStep DEF WriteLimits, ledger
<1>16. ASSUME NEW a \in Admins, PutLimits(a) \/ PutAlerts(a) \/ PatchKey(a)
       PROVE  BlockInv'
  <2> DEFINE NextPcs == {"limits.read", "alerts.read", "key.clear", "key.spend"}
  <2>1. \E x : Become(a, x) /\ x.pc \in NextPcs /\ x.at = task[a].at
    <3>1. task[a] \in TaskState
      BY <1>m, <1>x
    <3>2. CASE PutLimits(a)
      <4>1. PICK limits \in Limits :
              Become(a, [task[a] EXCEPT !.pc = "limits.read", !.limits = limits])
        BY <3>2 DEF PutLimits
      <4> DEFINE x == [task[a] EXCEPT !.pc = "limits.read", !.limits = limits]
      <4>2. x.pc = "limits.read" /\ x.at = task[a].at
        BY <3>1 DEF TaskState
      <4>3. Become(a, x)
        BY <4>1
      <4> HIDE DEF x
      <4> QED
        BY <4>2, <4>3
    <3>3. CASE PutAlerts(a)
      BY <3>1, <3>3 DEF PutAlerts, TaskState
    <3>4. CASE PatchKey(a)
      <4>1. PICK k \in Keys, cap \in Caps :
              Become(a, [task[a] EXCEPT !.pc = IF cap = 0 THEN "key.clear" ELSE "key.spend",
                                        !.key = k, !.cap = cap])
        BY <3>4 DEF PatchKey
      <4> DEFINE x == [task[a] EXCEPT !.pc = IF cap = 0 THEN "key.clear" ELSE "key.spend",
                                      !.key = k, !.cap = cap]
      <4>2. x.pc \in NextPcs /\ x.at = task[a].at
        BY <3>1 DEF TaskState
      <4>3. Become(a, x)
        BY <4>1
      <4> HIDE DEF x
      <4> QED
        BY <4>2, <4>3
    <3> QED
      BY <1>16, <3>2, <3>3, <3>4
  <2>2. PICK x : Become(a, x) /\ x.pc \in NextPcs /\ x.at = task[a].at
    BY <2>1
  <2>3. x \in TypedTasks
    BY <1>t, <1>m, <2>2 DEF Become, TypeInv
  <2>4. x \in SoundTasks
    BY <1>m, <1>x, <2>2, <2>3 DEF SoundTasks
  <2>5. UNCHANGED <<ledger, now, settings>> /\ limitsSeen' = limitsSeen
    BY <1>16 DEF PutLimits, PutAlerts, PatchKey, history
  <2> QED
    BY <1>t, <1>m, <1>s, <2>2, <2>5, <2>3, <2>4, BlockStep DEF ledger
<1> QED
  BY <1>1, <1>2, <1>3, <1>5, <1>6, <1>7, <1>8, <1>10, <1>11, <1>12, <1>13, <1>14, <1>15,
     <1>16
     DEF Next, Continue

(* The tenant is blocked only for spend that D1 holds against limits the   *)
(* tenant has had, and to the end of the window it was spent in.           *)
THEOREM BlocksJustified == Spec => []BlockJustified
<1>1. BlockInv => BlockJustified
  BY DEF BlockInv, BlockJustified, JustifiedFlags
<1> QED
  BY <1>1, InitBlockInv, NextBlockInv, PTL DEF Spec

(***************************************************************************)
(* Keys are blocked with cause                                             *)
(***************************************************************************)

(* The tenant's spend has reached a cap the key has had.                   *)
Capped(k) == \E cap \in capsSeen[k] : Reached(cap, Spend(RowsBefore(now)))

(* The cap a task works with has been its key's, and a task that is about  *)
(* to disable a key has cause.                                             *)
KeyTasks ==
  {x \in TaskState :
     /\ x.cap # 0 => x.cap \in capsSeen[x.key]
     /\ x.pc = "key.disable" => Capped(x.key)}

KeyInv ==
  /\ BlockInv
  /\ \A k \in Keys : caps[k] \in capsSeen[k]
  /\ \A t \in Tasks : task[t] \in KeyTasks
  /\ \A k \in Keys : keyUntil[k] > 0 => Capped(k)

CapsGrow == \A k \in Keys : capsSeen[k] \subseteq capsSeen'[k]

(* A key that has reached a cap stays one that has: spend only grows.      *)
LEMMA CappedGrows ==
  ASSUME TypeInv, TypeInv', Grows, CapsGrow, NEW k \in Keys, Capped(k)
  PROVE  Capped(k)'
<1>1. PICK cap \in capsSeen[k] : Reached(cap, Spend(RowsBefore(now)))
  BY DEF Capped
<1>2. cap \in Nat /\ cap \in capsSeen'[k] /\ LedgerTypeOK /\ LedgerTypeOK'
  BY SpendGuardAssumption DEF TypeInv, TypeOK, CapsGrow
<1>3. now \in Nat /\ now' \in Nat /\ now <= now'
  BY DEF TypeInv, TypeOK, Time, Grows
<1>4. \A r \in Metrics : task[r].at \in Nat
  BY DEF TypeInv, TypedTasks, TaskState, Tasks, Time
<1>5. /\ RowsBefore(now) \subseteq RowsBefore(now)'
      /\ RowsBefore(now) \in SUBSET Metrics
      /\ RowsBefore(now)' \in SUBSET Metrics
  BY <1>3, <1>4 DEF RowsBefore, Recorded, Grows
<1>6. Reached(cap, Spend(RowsBefore(now))')
  BY <1>1, <1>2, <1>5, ReachedGrows
<1> QED
  BY <1>2, <1>6 DEF Capped

(* What a task knows of its key stays true while it does nothing.          *)
LEMMA KeyTasksGrow ==
  ASSUME TypeInv, TypeInv', Grows, CapsGrow
  PROVE  KeyTasks \subseteq KeyTasks'
<1> SUFFICES ASSUME NEW x \in KeyTasks
             PROVE  x \in KeyTasks'
  OBVIOUS
<1>1. x \in TaskState /\ x.key \in Keys
  BY DEF KeyTasks, TaskState
<1>2. x.pc = "key.disable" => Capped(x.key)'
  BY <1>1, CappedGrows DEF KeyTasks
<1>3. x.cap # 0 => x.cap \in capsSeen'[x.key]
  BY <1>1 DEF KeyTasks, CapsGrow
<1> QED
  BY <1>1, <1>2, <1>3 DEF KeyTasks

(* Forget and End keep the key, and the cap or none.                       *)
LEMMA LocalsKept ==
  ASSUME NEW x \in TaskState, NEW pc \in Labels
  PROVE  /\ Forget(x, pc).key = x.key /\ Forget(x, pc).cap = x.cap
         /\ End(x, pc).key = x.key /\ End(x, pc).cap = 0
<1>1. Forget(x, pc) \in TaskState /\ Forget(x, pc).key = x.key /\ Forget(x, pc).cap = x.cap
  BY DEF Forget, TaskState
<1>2. End(x, pc).key = Forget(x, pc).key /\ End(x, pc).cap = 0
  <2> DEFINE y == Forget(x, pc)
  <2>1. y \in TaskState
    BY <1>1
  <2> HIDE DEF y
  <2>2. [y EXCEPT !.cap = 0].key = y.key /\ [y EXCEPT !.cap = 0].cap = 0
    BY <2>1 DEF TaskState
  <2> QED
    BY <2>2 DEF End, y
<1> QED
  BY <1>1, <1>2

(* The task still works for the same key, and is not about to disable it.  *)
SameKey(x, y) == y.key = x.key /\ y.cap \in {0, x.cap} /\ y.pc # "key.disable"

(* So it keeps what it knew of the key, at whatever step.                  *)
LEMMA SameKeySound ==
  ASSUME TypeInv, TypeInv', Grows, CapsGrow, NEW x \in KeyTasks, NEW y \in TaskState,
         SameKey(x, y)
  PROVE  y \in KeyTasks'
<1>1. x \in KeyTasks'
  BY KeyTasksGrow
<1> QED
  BY <1>1 DEF KeyTasks, SameKey

(* A task takes a step of its own: its record keeps its time.              *)
LEMMA OwnStepGrows ==
  ASSUME BlockInv, NEW t \in Tasks, NEW x, Become(t, x),
         t \in Metrics => task[t].at = 0 \/ x.at = task[t].at,
         delivered' = delivered, direct' = direct, now' = now,
         limitsSeen \subseteq limitsSeen'
  PROVE  Grows
<1>1. task \in [Tasks -> TypedTasks]
  BY DEF BlockInv, TypeInv
<1>2. task'[t] = x /\ \A s \in Tasks \ {t} : task'[s] = task[s]
  BY <1>1 DEF Become
<1> QED
  BY <1>2 DEF Grows, Tasks

(* A task that goes on to a state with a cap of its key's, and blocks only *)
(* a key with cause, keeps the invariant.                                  *)
LEMMA KeyStep ==
  ASSUME KeyInv, BlockInv', Grows, CapsGrow, NEW t \in Tasks, NEW x \in KeyTasks',
         Become(t, x),
         \A k \in Keys : caps'[k] \in capsSeen'[k],
         \A k \in Keys : keyUntil'[k] > 0 => keyUntil[k] > 0 \/ Capped(k)'
  PROVE  KeyInv'
<1>1. TypeInv /\ TypeInv' /\ task \in [Tasks -> TypedTasks]
  BY DEF KeyInv, BlockInv, TypeInv
<1>2. task'[t] = x /\ \A s \in Tasks \ {t} : task'[s] = task[s]
  BY <1>1 DEF Become
<1>3. \A s \in Tasks : task'[s] \in KeyTasks'
  BY <1>1, <1>2, KeyTasksGrow DEF KeyInv
<1>4. \A k \in Keys : keyUntil'[k] > 0 => Capped(k)'
  BY <1>1, CappedGrows DEF KeyInv
<1> QED
  BY <1>3, <1>4 DEF KeyInv

(* Most steps leave caps and blocked keys alone, and go on for their key.  *)
LEMMA KeyKept ==
  ASSUME KeyInv, BlockInv', NEW t \in Tasks, NEW x \in TaskState, Become(t, x),
         SameKey(task[t], x),
         t \in Metrics => task[t].at = 0 \/ x.at = task[t].at,
         delivered' = delivered, direct' = direct, now' = now,
         limitsSeen \subseteq limitsSeen',
         UNCHANGED <<caps, capsSeen, keyUntil>>
  PROVE  KeyInv'
<1>1. Grows /\ CapsGrow
  BY OwnStepGrows DEF KeyInv, CapsGrow
<1>2. x \in KeyTasks'
  BY <1>1, SameKeySound DEF KeyInv, BlockInv
<1> QED
  BY <1>1, <1>2, KeyStep DEF KeyInv

(* Nobody has read a cap yet, and no key is blocked.                       *)
LEMMA InitKeyInv == Init => KeyInv
<1> SUFFICES ASSUME Init
             PROVE  KeyInv
  OBVIOUS
<1>1. BlockInv
  BY InitBlockInv
<1>2. \A t \in Tasks : task[t] \in TaskState /\ task[t].pc = "new" /\ task[t].cap = 0
  BY <1>1 DEF Init, BlockInv, TypeInv, TypedTasks
<1>3. \A k \in Keys : caps[k] \in capsSeen[k] /\ keyUntil[k] = 0
  BY DEF Init
<1> QED
  BY <1>1, <1>2, <1>3 DEF KeyInv, KeyTasks

(* Caps are read from the key's row, and a key is blocked only by a guard  *)
(* that has found its cap reached.                                         *)
LEMMA NextKeyInv == KeyInv /\ [Next]_vars => KeyInv'
<1> SUFFICES ASSUME KeyInv, [Next]_vars
             PROVE  KeyInv'
  OBVIOUS
<1>b. BlockInv /\ BlockInv'
  BY NextBlockInv DEF KeyInv
<1>t. /\ TypeInv /\ TypeInv' /\ now \in Time /\ settings \in Settings
      /\ caps \in [Keys -> Caps] /\ keyUntil \in [Keys -> Nat]
      /\ capsSeen \in [Keys -> SUBSET Caps]
      /\ task \in [Tasks -> TypedTasks]
  BY <1>b DEF BlockInv, TypeInv, TypeOK
<1>m. Metrics \subseteq Tasks /\ Admins \subseteq Tasks /\ \A a \in Admins : a \notin Metrics
  BY SpendGuardAssumption DEF Tasks
<1>x. \A t \in Tasks :
        /\ task[t] \in TaskState /\ task[t] \in SoundTasks /\ task[t] \in KeyTasks
        /\ task[t].key \in Keys
  BY <1>b DEF BlockInv, SoundTasks, TypedTasks, KeyInv, TaskState
<1>f. \A t \in Tasks, pc \in Labels \ {"key.disable"} :
        /\ Forget(task[t], pc) \in TaskState /\ End(task[t], pc) \in TaskState
        /\ Forget(task[t], pc).at = task[t].at /\ End(task[t], pc).at = task[t].at
        /\ SameKey(task[t], Forget(task[t], pc)) /\ SameKey(task[t], End(task[t], pc))
  BY <1>x, ForgetFacts, EndFacts, LocalsKept DEF SameKey
<1>k. ASSUME NEW t \in Tasks, NEW pc \in Labels \ {"key.disable"}, NEW x,
             x \in {Forget(task[t], pc), End(task[t], pc)}, Become(t, x),
             UNCHANGED <<ledger, now, limitsSeen, caps, capsSeen, keyUntil>>
      PROVE  KeyInv'
  BY <1>b, <1>f, <1>k, KeyKept DEF ledger
<1>1. ASSUME NEW r \in Metrics, Authenticate(r)
      PROVE  KeyInv'
  <2> DEFINE x == [task[r] EXCEPT !.pc = "authenticated",
                                  !.cap = caps[task[r].key],
                                  !.until = keyUntil[task[r].key]]
  <2>1. Become(r, x) /\ UNCHANGED <<ledger, now, caps, keyUntil, limitsSeen, capsSeen>>
    BY <1>1 DEF Authenticate, history
  <2>2. /\ caps[task[r].key] \in Caps /\ keyUntil[task[r].key] \in Nat
        /\ caps[task[r].key] \in capsSeen[task[r].key]
    BY <1>t, <1>m, <1>x DEF KeyInv
  <2>3. /\ x \in TaskState
        /\ x.pc = "authenticated" /\ x.at = task[r].at
        /\ x.key = task[r].key /\ x.cap = caps[task[r].key]
    BY <1>m, <1>x, <2>2 DEF TaskState, Labels
  <2> HIDE DEF x
  <2>4. Grows /\ CapsGrow
    BY <1>b, <1>m, <2>1, <2>3, OwnStepGrows DEF CapsGrow, ledger
  <2>5. x \in KeyTasks'
    BY <2>1, <2>2, <2>3 DEF KeyTasks
  <2> QED
    BY <1>b, <1>m, <2>1, <2>4, <2>5, KeyStep DEF KeyInv
<1>2. ASSUME NEW r \in Metrics, CheckBlocks(r)
      PROVE  KeyInv'
  <2>1. Become(r, End(task[r], "refused")) \/ Become(r, Forget(task[r], "upstream"))
    BY <1>2 DEF CheckBlocks
  <2>2. UNCHANGED <<ledger, now, limitsSeen, caps, capsSeen, keyUntil>>
    BY <1>2 DEF CheckBlocks, history
  <2> QED
    BY <1>k, <1>m, <2>1, <2>2 DEF Labels, Ended
<1>3. ASSUME NEW r \in Metrics, Record(r)
      PROVE  KeyInv'
  <2>1. PICK next \in {"settings", "unpriced"} :
          Become(r, [Forget(task[r], next) EXCEPT !.at = now])
    BY <1>3 DEF Record
  <2> DEFINE y == Forget(task[r], next)
             x == [y EXCEPT !.at = now]
  <2>2. y \in TaskState /\ SameKey(task[r], y)
    BY <1>f, <1>m, <2>1 DEF Labels, Ended
  <2>3. Become(r, x)
    BY <2>1
  <2> HIDE DEF y
  <2>4. x \in TaskState /\ SameKey(task[r], x)
    BY <1>t, <2>2 DEF TaskState, SameKey
  <2> HIDE DEF x
  <2>5. task[r].at = 0
    BY <1>3, <1>m, <1>x DEF Record, SoundTasks, Unrecorded
  <2>6. /\ delivered' = delivered /\ direct' = direct
        /\ UNCHANGED <<now, limitsSeen, caps, capsSeen, keyUntil>>
    BY <1>3 DEF Record, Accept, history
  <2> QED
    BY <1>b, <1>m, <2>3, <2>4, <2>5, <2>6, KeyKept
<1>4. CASE MetricMoves \/ Tick \/ UNCHANGED vars
  <2>1. Grows /\ CapsGrow /\ UNCHANGED <<task, caps, capsSeen, keyUntil>>
    BY <1>4
       DEF MetricMoves, WriteDirect, Deliver, Tick, vars, Grows, CapsGrow, ledger, history
  <2>2. \A t \in Tasks : task'[t] \in KeyTasks'
    BY <1>t, <1>x, <2>1, KeyTasksGrow
  <2>3. \A k \in Keys : keyUntil'[k] > 0 => Capped(k)'
    BY <1>t, <2>1, CappedGrows DEF KeyInv
  <2> QED
    BY <1>b, <2>1, <2>2, <2>3 DEF KeyInv
<1>5. ASSUME NEW t \in Tasks, ReadSettings(t)
      PROVE  KeyInv'
  <2> DEFINE x == [task[t] EXCEPT !.pc = "day",
                                  !.limits = settings.limits,
                                  !.until = IF Guarding(t) THEN settings.until ELSE 0]
  <2>1. Become(t, x) /\ UNCHANGED <<ledger, now, limitsSeen, caps, capsSeen, keyUntil>>
    BY <1>5 DEF ReadSettings, history
  <2>2. x \in TaskState /\ x.at = task[t].at /\ SameKey(task[t], x)
    BY <1>t, <1>x DEF TaskState, SameKey, Labels, Settings
  <2> HIDE DEF x
  <2> QED
    BY <1>b, <2>1, <2>2, KeyKept DEF ledger
<1>6. ASSUME NEW t \in Tasks, ReadDaySpend(t)
      PROVE  KeyInv'
  <2> DEFINE at == task[t].at
             crossed == Reached(task[t].limits.daily, Spend(DayRows(at)))
             until == IF crossed THEN Later(task[t].until, EndOfDay[at]) ELSE task[t].until
             x == [task[t] EXCEPT !.pc = "month", !.until = until]
  <2>1. at \in Time /\ task[t].until \in Nat
    BY <1>6, <1>x DEF ReadDaySpend, SoundTasks, TypedTasks, Evaluating, TaskState
  <2>2. until \in Nat
    BY <2>1, WindowFacts, SpendGuardAssumption DEF Later
  <2>3. Become(t, x) /\ UNCHANGED <<ledger, now, limitsSeen, caps, capsSeen, keyUntil>>
    BY <1>6, <1>x DEF ReadDaySpend, TaskState, history
  <2> HIDE DEF until
  <2>4. x \in TaskState /\ x.at = task[t].at /\ SameKey(task[t], x)
    BY <1>x, <2>2 DEF TaskState, SameKey, Labels
  <2> HIDE DEF x
  <2> QED
    BY <1>b, <2>3, <2>4, KeyKept DEF ledger
<1>7. ASSUME NEW t \in Tasks, ReadMonthSpend(t)
      PROVE  KeyInv'
  <2> DEFINE at == task[t].at
             crossed == Reached(task[t].limits.monthly, Spend(MonthRows(at)))
             until == IF crossed THEN Later(task[t].until, EndOfMonth[at]) ELSE task[t].until
             y == Forget(task[t], "flag.read")
             x == [y EXCEPT !.until = until]
  <2>1. at \in Time /\ task[t].until \in Nat
    BY <1>7, <1>x DEF ReadMonthSpend, SoundTasks, TypedTasks, Evaluating, TaskState
  <2>2. until \in Nat
    BY <2>1, WindowFacts, SpendGuardAssumption DEF Later
  <2>3. /\ Become(t, Forget(task[t], "cap")) \/ Become(t, x)
        /\ UNCHANGED <<ledger, now, limitsSeen, caps, capsSeen, keyUntil>>
    BY <1>7 DEF ReadMonthSpend, history
  <2>4. y \in TaskState /\ y.at = at /\ SameKey(task[t], y)
    BY <1>f DEF Labels
  <2> HIDE DEF until, y
  <2>5. x \in TaskState /\ x.at = at /\ SameKey(task[t], x)
    BY <2>2, <2>4 DEF TaskState, SameKey
  <2> HIDE DEF x
  <2>6. CASE Become(t, x)
    BY <1>b, <2>3, <2>5, <2>6, KeyKept DEF ledger
  <2>7. CASE Become(t, Forget(task[t], "cap"))
    BY <1>k, <2>3, <2>7 DEF Labels
  <2> QED
    BY <2>3, <2>6, <2>7
<1>8. ASSUME NEW t \in Tasks, ReadLifetimeSpend(t)
      PROVE  KeyInv'
  <2>1. UNCHANGED <<ledger, now, limitsSeen, caps, capsSeen, keyUntil>>
    BY <1>8 DEF ReadLifetimeSpend, history
  <2>2. CASE Become(t, End(task[t], "done"))
    BY <1>k, <2>1, <2>2 DEF Labels, Ended
  <2>3. CASE /\ Reached(task[t].cap, Spend(RowsBefore(task[t].at)))
             /\ Become(t, Forget(task[t], "key.disable"))
    <3> DEFINE x == Forget(task[t], "key.disable")
    <3>1. /\ x \in TaskState /\ x.pc = "key.disable" /\ x.at = task[t].at
          /\ x.key = task[t].key /\ x.cap = task[t].cap /\ x.key \in Keys
      BY <1>x, ForgetFacts, LocalsKept DEF Labels
    <3>2. Become(t, x)
      BY <2>3
    <3> HIDE DEF x
    <3>3. Grows /\ CapsGrow
      BY <1>b, <2>1, <3>1, <3>2, OwnStepGrows DEF CapsGrow, ledger
    <3>4. PICK k \in Keys : k = x.key
      BY <3>1
    <3>k. /\ task[t].cap \in capsSeen[k] /\ task[t].cap \in Nat /\ task[t].at <= now
      <4>1. task[t].cap > 0
        BY <2>3 DEF Reached
      <4>2. task[t].cap \in Nat
        <5>1. task[t].cap \in Caps \cup {0}
          BY <1>x DEF TaskState
        <5>2. Caps \cup {0} \subseteq Nat
          BY SpendGuardAssumption
        <5> QED
          BY <5>1, <5>2, Zenon
      <4>3. task[t].cap \in capsSeen[k]
        BY <1>x, <3>1, <3>4, <4>1, <4>2 DEF KeyTasks
      <4> QED
        BY <1>x, <4>2, <4>3 DEF SoundTasks
    <3>5. /\ RowsBefore(task[t].at) \subseteq RowsBefore(now)'
          /\ RowsBefore(task[t].at) \in SUBSET Metrics
          /\ RowsBefore(now)' \in SUBSET Metrics
      <4>1. \A r \in Metrics : task[r].at \in Nat
        BY <1>m, <1>x DEF TaskState, Time
      <4>2. task[t].at \in Nat /\ now \in Nat /\ now' = now
        BY <1>t, <1>x, <2>1 DEF TaskState, Time
      <4> QED
        BY <3>3, <3>k, <4>1, <4>2 DEF RowsBefore, Recorded, Grows
    <3>6. Reached(task[t].cap, Spend(RowsBefore(now))')
      <4>1. LedgerTypeOK /\ LedgerTypeOK'
        BY <1>t DEF TypeInv, TypeOK
      <4> QED
        BY <2>3, <3>3, <3>k, <3>5, <4>1, ReachedGrows
    <3>7. task[t].cap \in capsSeen'[k] /\ Capped(k)'
      BY <3>3, <3>k, <3>6 DEF Capped, CapsGrow
    <3>8. x \in KeyTasks'
      BY <3>1, <3>4, <3>7 DEF KeyTasks
    <3> QED
      BY <1>b, <2>1, <3>2, <3>3, <3>8, KeyStep DEF KeyInv
  <2> QED
    BY <1>8, <2>2, <2>3 DEF ReadLifetimeSpend
<1>9. ASSUME NEW t \in Tasks, DisableKey(t) \/ ClearKey(t)
      PROVE  KeyInv'
  <2> DEFINE x == End(task[t], "done")
  <2>1. /\ Become(t, x)
        /\ UNCHANGED <<ledger, now, limitsSeen, caps, capsSeen>>
    BY <1>9 DEF DisableKey, ClearKey, history
  <2>2. x \in TaskState /\ x.at = task[t].at /\ SameKey(task[t], x)
    BY <1>f DEF Labels, Ended
  <2> HIDE DEF x
  <2>3. Grows /\ CapsGrow
    BY <1>b, <2>1, <2>2, OwnStepGrows DEF CapsGrow, ledger
  <2>4. x \in KeyTasks'
    BY <1>t, <1>x, <2>2, <2>3, SameKeySound
  <2>5. ASSUME NEW k \in Keys, keyUntil'[k] > 0
        PROVE  keyUntil[k] > 0 \/ Capped(k)'
    <3>1. CASE k # task[t].key
      BY <1>9, <1>t, <2>5, <3>1 DEF DisableKey, ClearKey
    <3>2. CASE k = task[t].key /\ DisableKey(t)
      <4>1. Capped(k)
        BY <1>x, <3>2 DEF DisableKey, KeyTasks
      <4> QED
        BY <1>t, <2>3, <4>1, CappedGrows
    <3>3. CASE k = task[t].key /\ ClearKey(t)
      BY <1>t, <2>5, <3>3 DEF ClearKey
    <3> QED
      BY <1>9, <3>1, <3>2, <3>3
  <2> QED
    BY <1>b, <2>1, <2>3, <2>4, <2>5, KeyStep DEF KeyInv
<1>10. ASSUME NEW t \in Tasks, UpdateReads(t)
       PROVE  KeyInv'
  <2> DEFINE x == [task[t] EXCEPT !.snap = settings, !.pc = WriteOf[task[t].pc]]
  <2>1. WriteOf[task[t].pc] \in {"flag.write", "limits.write", "alerts.write"}
    BY <1>10 DEF UpdateReads, WriteOf
  <2>2. Become(t, x) /\ UNCHANGED <<ledger, now, limitsSeen, caps, capsSeen, keyUntil>>
    BY <1>10, <1>x DEF UpdateReads, TaskState, history
  <2>3. x \in TaskState /\ x.at = task[t].at /\ SameKey(task[t], x)
    BY <1>t, <1>x, <2>1 DEF TaskState, SameKey, Labels
  <2> HIDE DEF x
  <2> QED
    BY <1>b, <2>2, <2>3, KeyKept DEF ledger
<1>11. ASSUME NEW t \in Tasks, WriteFlag(t) \/ WriteAlerts(t)
       PROVE  KeyInv'
  <2>1. Become(t, Forget(task[t], "cap")) \/ Become(t, End(task[t], "done"))
    BY <1>11 DEF WriteFlag, WriteAlerts
  <2>2. UNCHANGED <<ledger, now, limitsSeen, caps, capsSeen, keyUntil>>
    BY <1>11 DEF WriteFlag, WriteAlerts, history
  <2> QED
    BY <1>k, <2>1, <2>2 DEF Labels, Ended
<1>12. ASSUME NEW t \in Tasks, WriteLimits(t)
       PROVE  KeyInv'
  <2> DEFINE y == Forget(task[t], "settings")
             x == [y EXCEPT !.at = now]
  <2>1. /\ Become(t, x)
        /\ UNCHANGED <<ledger, now, caps, capsSeen, keyUntil>>
        /\ limitsSeen \subseteq limitsSeen'
        /\ t \notin Metrics
    BY <1>12, <1>b DEF WriteLimits, BlockInv, SavingLimits
  <2>2. y \in TaskState /\ SameKey(task[t], y)
    BY <1>f DEF Labels
  <2> HIDE DEF y
  <2>3. x \in TaskState /\ SameKey(task[t], x)
    BY <1>t, <2>2 DEF TaskState, SameKey
  <2> HIDE DEF x
  <2> QED
    BY <1>b, <2>1, <2>3, KeyKept DEF ledger
<1>13. ASSUME NEW t \in Tasks, ReconcileReadsLifetimeSpend(t)
       PROVE  KeyInv'
  <2>1. Become(t, End(task[t], "done")) \/ Become(t, End(task[t], "key.clear"))
    BY <1>13 DEF ReconcileReadsLifetimeSpend
  <2>2. UNCHANGED <<ledger, now, limitsSeen, caps, capsSeen, keyUntil>>
    BY <1>13 DEF ReconcileReadsLifetimeSpend, history
  <2> QED
    BY <1>k, <2>1, <2>2 DEF Labels, Ended
<1>14. ASSUME NEW a \in Admins, PutLimits(a)
       PROVE  KeyInv'
  <2>1. PICK limits \in Limits :
          Become(a, [task[a] EXCEPT !.pc = "limits.read", !.limits = limits])
    BY <1>14 DEF PutLimits
  <2> DEFINE x == [task[a] EXCEPT !.pc = "limits.read", !.limits = limits]
  <2>2. x \in TaskState /\ x.at = task[a].at /\ SameKey(task[a], x)
    BY <1>m, <1>x, <2>1 DEF TaskState, SameKey, Labels
  <2>3. Become(a, x) /\ UNCHANGED <<ledger, now, limitsSeen, caps, capsSeen, keyUntil>>
    BY <1>14, <2>1 DEF PutLimits, history
  <2> HIDE DEF x
  <2> QED
    BY <1>b, <1>m, <2>2, <2>3, KeyKept DEF ledger
<1>15. ASSUME NEW a \in Admins, PutAlerts(a)
       PROVE  KeyInv'
  <2> DEFINE x == [task[a] EXCEPT !.pc = "alerts.read"]
  <2>1. x \in TaskState /\ x.at = task[a].at /\ SameKey(task[a], x)
    BY <1>m, <1>x DEF TaskState, SameKey, Labels
  <2>2. Become(a, x) /\ UNCHANGED <<ledger, now, limitsSeen, caps, capsSeen, keyUntil>>
    BY <1>15 DEF PutAlerts, history
  <2> HIDE DEF x
  <2> QED
    BY <1>b, <1>m, <2>1, <2>2, KeyKept DEF ledger
<1>16. ASSUME NEW a \in Admins, PatchKey(a)
       PROVE  KeyInv'
  <2>1. PICK k \in Keys, cap \in Caps :
          /\ caps' = [caps EXCEPT ![k] = cap]
          /\ capsSeen' = [capsSeen EXCEPT ![k] = @ \cup {cap}]
          /\ Become(a, [task[a] EXCEPT !.pc = IF cap = 0 THEN "key.clear" ELSE "key.spend",
                                       !.key = k, !.cap = cap])
    BY <1>16 DEF PatchKey
  <2> DEFINE pc == IF cap = 0 THEN "key.clear" ELSE "key.spend"
             x == [task[a] EXCEPT !.pc = pc, !.key = k, !.cap = cap]
  <2>2. pc \in {"key.clear", "key.spend"} /\ Become(a, x)
    BY <2>1
  <2> HIDE DEF pc
  <2>3. x \in TaskState /\ x.at = task[a].at /\ x.pc = pc /\ x.key = k /\ x.cap = cap
    BY <1>m, <1>x, <2>1, <2>2 DEF TaskState, Labels
  <2> HIDE DEF x
  <2>4. UNCHANGED <<ledger, now, keyUntil, limitsSeen>>
    BY <1>16 DEF PatchKey
  <2>5. /\ CapsGrow /\ \A j \in Keys : caps'[j] \in capsSeen'[j]
        /\ cap \in capsSeen'[k]
    BY <1>t, <2>1 DEF CapsGrow, KeyInv
  <2>6. Grows
    BY <1>b, <1>m, <2>2, <2>3, <2>4, OwnStepGrows DEF ledger
  <2>7. x \in KeyTasks'
    BY <2>2, <2>3, <2>5 DEF KeyTasks
  <2> QED
    BY <1>b, <1>m, <2>2, <2>4, <2>5, <2>6, <2>7, KeyStep
<1>17. ASSUME NEW t \in Tasks, TaskFails(t)
       PROVE  KeyInv'
  <2>1. Become(t, End(task[t], "failed"))
    BY <1>17 DEF TaskFails
  <2>2. UNCHANGED <<ledger, now, limitsSeen, caps, capsSeen, keyUntil>>
    BY <1>17 DEF TaskFails, history
  <2> QED
    BY <1>k, <2>1, <2>2 DEF Labels, Ended
<1> QED
  BY <1>1, <1>2, <1>3, <1>4, <1>5, <1>6, <1>7, <1>8, <1>9, <1>10, <1>11, <1>12, <1>13,
     <1>14, <1>15, <1>16, <1>17
     DEF Next, Continue

(* A key is blocked only when D1 holds spend, of the whole tenant, that    *)
(* has reached a cap the key has had: guards and reconciliations work with *)
(* caps they read earlier, but never with another key's cap, and spend     *)
(* only grows.                                                             *)
THEOREM KeyBlocksJustified == Spec => []KeyBlockJustified
<1>1. KeyInv => KeyBlockJustified
  <2> SUFFICES ASSUME KeyInv, NEW k \in Keys, now < keyUntil[k]
               PROVE  Capped(k)
    BY DEF KeyBlockJustified, Capped
  <2>1. now \in Nat /\ keyUntil[k] \in Nat
    BY DEF KeyInv, BlockInv, TypeInv, TypeOK, Time
  <2> QED
    BY <2>1 DEF KeyInv
<1> QED
  BY <1>1, InitKeyInv, NextKeyInv, PTL DEF Spec

=============================================================================
