------------------------------ MODULE SpendGuard ------------------------------
(***************************************************************************)
(* The spend limits of one tenant (metrics/spend-guard.ts): the check that *)
(* refuses a request, the guard that runs in the background after a paid   *)
(* one, and the dashboard calls that store limits, caps and other settings *)
(* (api/usage.ts, api/keys.ts, alerts/config.ts) through the               *)
(* read-modify-write of TenantService.updateSettings (db/tenant.ts).       *)
(*                                                                         *)
(* The guard reads spend from D1, which a request's metric reaches later   *)
(* and on its own: the metrics pipeline is the MetricsLedger this module   *)
(* extends, one metric per request.  Every await is a step boundary.       *)
(* A paid request costs 1; limits and caps are counted in requests.        *)
(***************************************************************************)
EXTENDS MetricsLedger, FiniteSets

CONSTANTS
  Admins,         \* dashboard calls, one PUT or PATCH each
  Keys,           \* API keys of the tenant
  KeyOf,          \* KeyOf[r]: the key request r is made with
  DailyLimits,    \* values of spendLimits.dailyUsd; 0: no limit
  MonthlyLimits,  \* values of spendLimits.monthlyUsd; 0: no limit
  Caps,           \* values of scopes.spendCapUsd; 0: no cap
  MaxTime,        \* bound: the last second
  EndOfDay,       \* EndOfDay[t]: the midnight (UTC) after t
  EndOfMonth,     \* EndOfMonth[t]: the first of the month after t
  KeyCapSlack,    \* KEY_CAP_DISABLE_SLACK, a year
  MaxFaults       \* bound: tasks that fail in one behaviour

Time == 1..MaxTime
Tasks == Metrics \cup Admins
Limits == [daily : DailyLimits, monthly : MonthlyLimits]

NoLimits == [daily |-> 0, monthly |-> 0]
NoSettings == [limits |-> NoLimits, until |-> 0, flagRow |-> FALSE]

IsWindow(end) ==
  /\ end \in [Time -> Nat]
  /\ \A s \in Time :
       /\ s < end[s]
       /\ \A t \in Time : s <= t /\ t < end[s] => end[t] = end[s]

ASSUME SpendGuardAssumption ==
  /\ IsFiniteSet(Metrics)
  /\ Metrics \cap Admins = {}
  /\ Keys # {}
  /\ KeyOf \in [Metrics -> Keys]
  /\ DailyLimits \subseteq Nat
  /\ MonthlyLimits \subseteq Nat
  /\ Caps \subseteq Nat
  /\ MaxTime \in Nat \ {0}
  /\ IsWindow(EndOfDay)
  /\ IsWindow(EndOfMonth)
  /\ KeyCapSlack \in Nat
  /\ MaxFaults \in Nat

VARIABLES
  now,         \* the clock, in seconds
  settings,    \* the spend rows of tenant_settings
  caps,        \* caps[k]: spendCapUsd in the scopes of key k
  keyUntil,    \* keyUntil[k]: api_keys.spend_disabled_until; 0: NULL
  task,        \* task[t]: where request or call t stands, with its locals
  limitsSeen,  \* history: the limits the tenant has had
  capsSeen,    \* history: the caps each key has had
  faults       \* tasks that failed so far

vars == <<pending, delivered, direct, now, settings, caps, keyUntil, task,
          limitsSeen, capsSeen, faults>>

(* limits and until are the rows spendLimits and spendDisabledUntil; the   *)
(* second exists (flagRow) once somebody has stored it.  until = 0: none.  *)
Settings == [limits : Limits, until : Nat, flagRow : BOOLEAN]

Ended == {"done", "refused", "unpriced", "failed"}

Labels ==
  {"new", "authenticated", "upstream", "settings", "day", "month", "flag.read",
   "flag.write", "cap", "key.disable", "limits.read", "limits.write",
   "alerts.read", "alerts.write", "key.spend", "key.clear"} \cup Ended

TaskState ==
  [pc : Labels,
   at : {0} \cup Time,               \* the handler's `now`; 0: not there yet
   limits : Limits \cup {NoLimits},  \* limits it works with
   until : Nat,                      \* its disabledUntil
   key : Keys, cap : Caps \cup {0},  \* the key it concerns, and the cap
   snap : Settings \cup {NoSettings}]  \* what updateSettings read

TypeOK ==
  /\ LedgerTypeOK
  /\ now \in Time
  /\ settings \in Settings
  /\ caps \in [Keys -> Caps]
  /\ keyUntil \in [Keys -> Nat]
  /\ task \in [Tasks -> TaskState]
  /\ limitsSeen \subseteq Limits
  /\ capsSeen \in [Keys -> SUBSET Caps]
  /\ faults \in 0..MaxFaults

Init ==
  /\ LedgerInit
  /\ now = 1
  /\ settings \in [limits : Limits, until : {0}, flagRow : {FALSE}]
  /\ caps \in [Keys -> Caps]
  /\ keyUntil = [k \in Keys |-> 0]
  /\ task = [t \in Tasks |->
               LET k == IF t \in Metrics THEN KeyOf[t] ELSE CHOOSE k \in Keys : TRUE
               IN  [pc |-> "new", at |-> 0, limits |-> NoLimits, until |-> 0,
                    key |-> k, cap |-> 0, snap |-> NoSettings]]
  /\ limitsSeen = {settings.limits}
  /\ capsSeen = [k \in Keys |-> {caps[k]}]
  /\ faults = 0

-----------------------------------------------------------------------------
(* Spend, as SUM(cost_usd) over the rows that are in D1 *)

Spend(rows) == Cardinality(rows \cap delivered) + Cardinality(rows \cap direct)

Recorded == {r \in Metrics : task[r].at # 0}

DayRows(t) == {r \in Recorded : EndOfDay[task[r].at] = EndOfDay[t]}
MonthRows(t) == {r \in Recorded : EndOfMonth[task[r].at] = EndOfMonth[t]}
RowsBefore(t) == {r \in Recorded : task[r].at < t}

(* limit is set, and has been reached. *)
Reached(limit, spend) == limit > 0 /\ spend >= limit

Later(a, b) == IF a < b THEN b ELSE a

(* Task t is in state x now. *)
Become(t, x) == task' = [task EXCEPT ![t] = x]

(* x goes on to pc, without the locals it needs no more. *)
Forget(x, pc) ==
  [x EXCEPT !.pc = pc, !.limits = NoLimits, !.until = 0, !.snap = NoSettings]

End(x, pc) == [Forget(x, pc) EXCEPT !.cap = 0]

ledger == <<pending, delivered, direct>>
history == <<limitsSeen, capsSeen>>

-----------------------------------------------------------------------------
(* A request *)

(* apiKeyAuthMiddleware reads the key's row. *)
Authenticate(r) ==
  /\ task[r].pc = "new"
  /\ Become(r, [task[r] EXCEPT !.pc = "authenticated",
                               !.cap = caps[task[r].key],
                               !.until = keyUntil[task[r].key]])
  /\ UNCHANGED <<ledger, now, settings, caps, keyUntil, history, faults>>

(* The handler reads the settings and answers 402 or goes to the provider. *)
CheckBlocks(r) ==
  /\ task[r].pc = "authenticated"
  /\ LET blocked == now < task[r].until \/ now < settings.until
     IN  Become(r, IF blocked THEN End(task[r], "refused")
                              ELSE Forget(task[r], "upstream"))
  /\ UNCHANGED <<ledger, now, settings, caps, keyUntil, history, faults>>

(* The paid answer is complete and record() is called.  The guard runs     *)
(* only when the provider's library priced the answer: a raw OpenAI-style  *)
(* upstream does not, and the cost is estimated for the metric alone.  The *)
(* metric is pending from now on (a push that never gets to the buffer     *)
(* leaves it so; no reader can tell).                                      *)
Record(r) ==
  /\ task[r].pc = "upstream"
  /\ Accept(r)
  /\ \E next \in {"settings", "unpriced"} :
       Become(r, [Forget(task[r], next) EXCEPT !.at = now])
  /\ UNCHANGED <<now, settings, caps, keyUntil, history, faults>>

(* Its metric, on its way through the pipeline. *)
MetricMoves ==
  /\ \/ \E r \in Recorded : WriteDirect(r)
     \/ \E rows \in SUBSET pending : Deliver(rows)
  /\ UNCHANGED <<now, settings, caps, keyUntil, task, history, faults>>

-----------------------------------------------------------------------------
(* maybeDisableAfterSpend (a request's guard) and reconcileTenantDisable   *)

Guarding(t) == t \in Metrics

(* The guard starts from the stored flag, the reconciliation from none. *)
ReadSettings(t) ==
  /\ task[t].pc = "settings"
  /\ Become(t, [task[t] EXCEPT !.pc = "day",
                               !.limits = settings.limits,
                               !.until = IF Guarding(t) THEN settings.until ELSE 0])
  /\ UNCHANGED <<ledger, now, settings, caps, keyUntil, history, faults>>

(* Faulty variant of ReadDaySpend: the flag's end is computed after the    *)
(* await, from a fresh clock.                                              *)
ReadDaySpend_FreshClock(t) ==
  /\ task[t].pc = "day"
  /\ LET crossed == Reached(task[t].limits.daily, Spend(DayRows(task[t].at)))
     IN  Become(t, [task[t] EXCEPT
                      !.pc = "month",
                      !.until = IF crossed THEN Later(@, EndOfDay[now]) ELSE @])
  /\ UNCHANGED <<ledger, now, settings, caps, keyUntil, history, faults>>

ReadDaySpend(t) ==
  /\ task[t].pc = "day"
  /\ LET at == task[t].at
         crossed == Reached(task[t].limits.daily, Spend(DayRows(at)))
     IN  Become(t, [task[t] EXCEPT
                      !.pc = "month",
                      !.until = IF crossed THEN Later(@, EndOfDay[at]) ELSE @])
  /\ UNCHANGED <<ledger, now, settings, caps, keyUntil, history, faults>>

(* Faulty variant of ReadMonthSpend: the month's result replaces the day's. *)
ReadMonthSpend_Replaces(t) ==
  /\ task[t].pc = "month"
  /\ LET at == task[t].at
         crossed == Reached(task[t].limits.monthly, Spend(MonthRows(at)))
     IN  Become(t, IF Guarding(t) /\ ~crossed
                   THEN Forget(task[t], "cap")
                   ELSE [Forget(task[t], "flag.read") EXCEPT
                           !.until = IF crossed THEN EndOfMonth[at] ELSE 0])
  /\ UNCHANGED <<ledger, now, settings, caps, keyUntil, history, faults>>

(* The guard stores only a flag that lies ahead, the reconciliation always *)
(* (null, modelled as 0, when no limit is crossed).                        *)
ReadMonthSpend(t) ==
  /\ task[t].pc = "month"
  /\ LET at == task[t].at
         crossed == Reached(task[t].limits.monthly, Spend(MonthRows(at)))
         until == IF crossed THEN Later(task[t].until, EndOfMonth[at]) ELSE task[t].until
     IN  Become(t, IF Guarding(t) /\ until <= at
                   THEN Forget(task[t], "cap")
                   ELSE [Forget(task[t], "flag.read") EXCEPT !.until = until])
  /\ UNCHANGED <<ledger, now, settings, caps, keyUntil, history, faults>>

(* Faulty variant of ReadLifetimeSpend: a cap of 0 is taken for a cap. *)
ReadLifetimeSpend_ZeroCap(r) ==
  /\ task[r].pc = "cap"
  /\ LET capped == Spend(RowsBefore(task[r].at)) >= task[r].cap
     IN  Become(r, IF capped THEN Forget(task[r], "key.disable")
                             ELSE End(task[r], "done"))
  /\ UNCHANGED <<ledger, now, settings, caps, keyUntil, history, faults>>

(* The guard's key check: the lifetime spend before `now`, of the tenant,  *)
(* against the cap in the scopes the request was authenticated with.       *)
ReadLifetimeSpend(r) ==
  /\ task[r].pc = "cap"
  /\ LET capped == Reached(task[r].cap, Spend(RowsBefore(task[r].at)))
     IN  Become(r, IF capped THEN Forget(task[r], "key.disable")
                             ELSE End(task[r], "done"))
  /\ UNCHANGED <<ledger, now, settings, caps, keyUntil, history, faults>>

DisableKey(r) ==
  /\ task[r].pc = "key.disable"
  /\ keyUntil' = [keyUntil EXCEPT ![task[r].key] = task[r].at + KeyCapSlack]
  /\ Become(r, End(task[r], "done"))
  /\ UNCHANGED <<ledger, now, settings, caps, history, faults>>

-----------------------------------------------------------------------------
(* updateSettings reads every row and writes every row back, with the      *)
(* patch in place of what it read; a row nobody had stored when it read is *)
(* left alone.  (spendLimits is among the defaults, so always written.)    *)

WriteOf ==
  [pc \in {"flag.read", "limits.read", "alerts.read"} |->
     CASE pc = "flag.read" -> "flag.write"
       [] pc = "limits.read" -> "limits.write"
       [] pc = "alerts.read" -> "alerts.write"]

UpdateReads(t) ==
  /\ task[t].pc \in DOMAIN WriteOf
  /\ Become(t, [task[t] EXCEPT !.snap = settings, !.pc = WriteOf[@]])
  /\ UNCHANGED <<ledger, now, settings, caps, keyUntil, history, faults>>

FlagWrittenBack(snap) == IF snap.flagRow THEN snap.until ELSE settings.until

(* updateSettings({spendDisabledUntil}). *)
WriteFlag(t) ==
  /\ task[t].pc = "flag.write"
  /\ settings' = [limits |-> task[t].snap.limits, until |-> task[t].until, flagRow |-> TRUE]
  /\ Become(t, IF Guarding(t) THEN Forget(task[t], "cap") ELSE End(task[t], "done"))
  /\ UNCHANGED <<ledger, now, caps, keyUntil, history, faults>>

(* updateSettings({spendLimits}); the call goes on to reconcile the flag. *)
WriteLimits(a) ==
  /\ task[a].pc = "limits.write"
  /\ settings' = [settings EXCEPT !.limits = task[a].limits,
                                  !.until = FlagWrittenBack(task[a].snap)]
  /\ Become(a, [Forget(task[a], "settings") EXCEPT !.at = now])
  /\ limitsSeen' = limitsSeen \cup {task[a].limits}
  /\ UNCHANGED <<ledger, now, caps, keyUntil, capsSeen, faults>>

(* updateSettings({alerts}). *)
WriteAlerts(a) ==
  /\ task[a].pc = "alerts.write"
  /\ settings' = [settings EXCEPT !.limits = task[a].snap.limits,
                                  !.until = FlagWrittenBack(task[a].snap)]
  /\ Become(a, End(task[a], "done"))
  /\ UNCHANGED <<ledger, now, caps, keyUntil, history, faults>>

-----------------------------------------------------------------------------
(* Dashboard calls *)

(* Faulty variant of PutLimits: a negative limit is let through. *)
PutLimits_Unvalidated(a) ==
  /\ task[a].pc = "new"
  /\ \E limits \in [daily : DailyLimits \cup {0 - 1}, monthly : MonthlyLimits] :
       Become(a, [task[a] EXCEPT !.pc = "limits.read", !.limits = limits])
  /\ UNCHANGED <<ledger, now, settings, caps, keyUntil, history, faults>>

(* PUT /api/usage/limits: the stored limits with one or both replaced. *)
PutLimits(a) ==
  /\ task[a].pc = "new"
  /\ \E limits \in Limits :
       Become(a, [task[a] EXCEPT !.pc = "limits.read", !.limits = limits])
  /\ UNCHANGED <<ledger, now, settings, caps, keyUntil, history, faults>>

(* PUT /api/alerts/config. *)
PutAlerts(a) ==
  /\ task[a].pc = "new"
  /\ Become(a, [task[a] EXCEPT !.pc = "alerts.read"])
  /\ UNCHANGED <<ledger, now, settings, caps, keyUntil, history, faults>>

(* PATCH /api/keys/:id with scopes, then reconcileKeyDisable. *)
PatchKey(a) ==
  /\ task[a].pc = "new"
  /\ \E k \in Keys, cap \in Caps :
       /\ caps' = [caps EXCEPT ![k] = cap]
       /\ capsSeen' = [capsSeen EXCEPT ![k] = @ \cup {cap}]
       /\ Become(a, [task[a] EXCEPT !.pc = IF cap = 0 THEN "key.clear" ELSE "key.spend",
                                    !.key = k, !.cap = cap])
  /\ UNCHANGED <<ledger, now, settings, keyUntil, limitsSeen, faults>>

ReconcileReadsLifetimeSpend(a) ==
  /\ task[a].pc = "key.spend"
  /\ LET capped == Reached(task[a].cap, Spend(RowsBefore(now)))
     IN  Become(a, End(task[a], IF capped THEN "done" ELSE "key.clear"))
  /\ UNCHANGED <<ledger, now, settings, caps, keyUntil, history, faults>>

ClearKey(a) ==
  /\ task[a].pc = "key.clear"
  /\ keyUntil' = [keyUntil EXCEPT ![task[a].key] = 0]
  /\ Become(a, End(task[a], "done"))
  /\ UNCHANGED <<ledger, now, settings, caps, history, faults>>

-----------------------------------------------------------------------------
(* A D1 call throws, or the isolate goes away: the task ends where it is. *)
TaskFails(t) ==
  /\ faults < MaxFaults
  /\ task[t].pc \notin Ended \cup {"new"}
  /\ Become(t, End(task[t], "failed"))
  /\ faults' = faults + 1
  /\ UNCHANGED <<ledger, now, settings, caps, keyUntil, history>>

Tick ==
  /\ now < MaxTime
  /\ now' = now + 1
  /\ UNCHANGED <<ledger, settings, caps, keyUntil, task, history, faults>>

(* What a started task does without outside help. *)
Continue(t) ==
  \/ ReadSettings(t) \/ ReadDaySpend(t) \/ ReadMonthSpend(t)
  \/ UpdateReads(t) \/ WriteFlag(t) \/ WriteLimits(t) \/ WriteAlerts(t)
  \/ ReadLifetimeSpend(t) \/ DisableKey(t)
  \/ ReconcileReadsLifetimeSpend(t) \/ ClearKey(t)

Next ==
  \/ \E r \in Metrics : Authenticate(r) \/ CheckBlocks(r) \/ Record(r)
  \/ \E a \in Admins : PutLimits(a) \/ PutAlerts(a) \/ PatchKey(a)
  \/ \E t \in Tasks : Continue(t) \/ TaskFails(t)
  \/ MetricMoves
  \/ Tick

Spec == Init /\ [][Next]_vars

(* Background work that was started is carried on (waitUntil). *)
FairSpec == Spec /\ \A t \in Tasks : WF_vars(Continue(t))

-----------------------------------------------------------------------------
(* Properties *)

(* The tenant is blocked only for spend that D1 holds against limits the   *)
(* tenant has had, and only to the end of the window in which it was       *)
(* spent, whatever guards, reconciliations and other saves overlap.        *)
BlockJustified ==
  now < settings.until =>
    \E l \in limitsSeen :
      \/ /\ settings.until = EndOfDay[now]
         /\ Reached(l.daily, Spend(DayRows(now)))
      \/ /\ settings.until = EndOfMonth[now]
         /\ Reached(l.monthly, Spend(MonthRows(now)))

(* A key is blocked only when the spend in D1, that of the whole tenant,   *)
(* has reached a cap the key has had, whatever guards, saves of caps and   *)
(* reconciliations overlap (metrics/spend-guard.ts:101-113, 165-191).  A   *)
(* cap that has been replaced still counts: a guard works with the cap its *)
(* request was authenticated with.                                         *)
KeyBlockJustified ==
  \A k \in Keys :
    now < keyUntil[k] =>
      \E cap \in capsSeen[k] : Reached(cap, Spend(RowsBefore(now)))

(* "Per-key spend caps -- api_keys.scopes.spendCapUsd (lifetime cap)       *)
(* enforced the same way" (docs/design.md:484): a key is blocked only when *)
(* its own requests, in D1 or not, have reached a cap it has had, as long  *)
(* as no request is in D1 twice.                                           *)
KeyBlockedForItself ==
  \A k \in Keys :
    now < keyUntil[k] /\ direct \cap delivered = {} =>
      \E cap \in capsSeen[k] : Reached(cap, Cardinality({r \in Recorded : KeyOf[r] = k}))

Midnights == {EndOfDay[t] : t \in Time}

(* A guard that starts when D1 shows the daily limit reached gets the      *)
(* tenant blocked, even if only until a concurrent save undoes it, unless  *)
(* it fails, its day ends or the limit is changed.                         *)
SeenCrossingBlocks ==
  \A r \in Metrics, limit \in DailyLimits, midnight \in Midnights :
    /\ task[r].pc = "settings"
    /\ settings.limits.daily = limit
    /\ EndOfDay[task[r].at] = midnight
    /\ Reached(limit, Spend(DayRows(task[r].at)))
    ~>
    \/ now < settings.until
    \/ now >= midnight
    \/ settings.limits.daily # limit
    \/ task[r].pc = "failed"

(* "requests return 402 until the window rolls over or limits are raised"  *)
(* (docs/design.md): with the limits never changed, a block stays until it *)
(* has run out.                                                            *)
BlockHolds ==
  [][ limitsSeen' = {settings.limits} /\ now' < settings.until
        => settings'.until >= settings.until ]_vars

(* "if a tenant window limit [...] was just crossed, persist the disable   *)
(* flag" (metrics/spend-guard.ts, the comment on maybeDisableAfterSpend):  *)
(* when every request is recorded and its guard has run to its end, with   *)
(* nothing else going on, a tenant whose day is over its limit is blocked. *)
CrossingBlocks ==
  (\A t \in Tasks : task[t].pc \in {"new", "done"}) /\ limitsSeen = {settings.limits}
    => (Reached(settings.limits.daily, Cardinality(DayRows(now)))
          => now < settings.until)

=============================================================================
