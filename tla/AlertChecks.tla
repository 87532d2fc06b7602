------------------------------ MODULE AlertChecks ------------------------------
(***************************************************************************)
(* The alerts of one tenant.  A cron trigger runs checks (alerts/          *)
(* evaluator.ts): each looks at the spend and the error rates, and unless  *)
(* an event of the same kind and level is recent, mails the administrators *)
(* and posts to the webhooks that subscribe to it (alerts/webhooks.ts),    *)
(* recording an event for each, sent or failed.  Webhooks are managed in   *)
(* the dashboard (api/alerts.ts).                                          *)
(*                                                                         *)
(* A check may take longer than the cron's period, and end at any await.   *)
(***************************************************************************)
EXTENDS Integers, FiniteSets, Sequences

CONSTANTS
  Checks,       \* runs of the checks
  Subjects,     \* the kinds of alert in the order they are evaluated
  Levels,       \* Levels[k]: the levels of kind k
  Admins,       \* owners and administrators with an email address
  Hooks,        \* webhooks
  WebhookEvent, \* WebhookEvent[k]: ALERT_TO_WEBHOOK_EVENT
  Cooldown,     \* cooldownMinutes
  AlertUntil    \* the model's clock stops here

Kinds == {Subjects[i] : i \in DOMAIN Subjects}
Causes == UNION {{[kind |-> k, level |-> l] : l \in Levels[k]} : k \in Kinds}
Parties == Admins \cup Hooks
EventNames == {WebhookEvent[k] : k \in Kinds}

ASSUME AlertAssumption == Cooldown \in Nat \ {0} /\ AlertUntil \in Nat /\ Admins \cap Hooks = {}

VARIABLES
  hour,      \* the clock
  mailOn,    \* the setting emailEnabled
  hook,      \* hook[h]: the row of webhooks
  lastEvent, \* lastEvent[x]: the newest event of cause x: [at, from, status]
  check,     \* check[r]: where run r stands
  patch,     \* a PATCH of a webhook under way
  tried,     \* history: tried[x][p], when delivery of cause x to p was last tried
  since,     \* history: since[p], when what p is to be sent last changed
  amiss      \* history: [spoilt, repeated, missed]; spoilt: a check broke off or
             \* two overlapped, and no more history is kept

alertVars == <<hour, mailOn, hook, lastEvent, check, patch, tried, since, amiss>>

Never == -1
NoHook == [there |-> FALSE, enabled |-> FALSE, events |-> {}]
NoPatchYet == [hook |-> "", seen |-> NoHook]
Idle == [pc |-> "idle", nr |-> 0, from |-> 0, level |-> 0, todo |-> {}, sent |-> {},
         failed |-> {}]

NoTries == [x \in Causes |-> [p \in Parties |-> Never]]

AlertInit ==
  /\ hour = 0 /\ mailOn \in BOOLEAN
  /\ hook = [h \in Hooks |-> NoHook]
  /\ lastEvent = [x \in Causes |-> [at |-> Never, from |-> Never, status |-> ""]]
  /\ check = [r \in Checks |-> Idle]
  /\ patch = NoPatchYet
  /\ tried = NoTries
  /\ since = [p \in Parties |-> 0]
  /\ amiss = [spoilt |-> FALSE, repeated |-> FALSE, missed |-> FALSE]

Kind(r) == Subjects[check[r].nr]
Cause(r) == [kind |-> Kind(r), level |-> check[r].level]
Listens(h, k) == hook[h].there /\ hook[h].enabled /\ WebhookEvent[k] \in hook[h].events
Due(k) == (IF mailOn THEN Admins ELSE {}) \cup {h \in Hooks : Listens(h, k)}
Spoils(if) ==
  /\ amiss' = [amiss EXCEPT !.spoilt = @ \/ if]
  /\ tried' = IF amiss'.spoilt THEN NoTries ELSE tried
  /\ since' = IF amiss'.spoilt THEN [p \in Parties |-> 0] ELSE since
Resume(r, x) == check' = [check EXCEPT ![r] = x]

-----------------------------------------------------------------------------
(* A run of the checks *)

(* A tenant that has alerts disabled is passed over. *)
StartCheck(r) ==
  /\ check[r].pc = "idle"
  /\ Resume(r, [Idle EXCEPT !.pc = "evaluate", !.nr = 1, !.from = hour])
  /\ Spoils(\E s \in Checks \ {r} : check[s].pc # "idle")
  /\ UNCHANGED <<hour, mailOn, hook, lastEvent, patch>>

ToNextSubject(r) ==
  Resume(r, IF check[r].nr = Len(Subjects) THEN Idle
            ELSE [Idle EXCEPT !.pc = "evaluate", !.nr = check[r].nr + 1,
                              !.from = check[r].from])

(* A mutant to which an event of any level of the kind is a repetition. *)
RecentEvent_AnyLevel(x) ==
  \E y \in Causes : y.kind = x.kind /\ lastEvent[y].at # Never /\ lastEvent[y].at >= hour - Cooldown

(* recentEvent: whatever the event's status *)
RecentEvent(x) == lastEvent[x].at # Never /\ lastEvent[x].at >= hour - Cooldown

(* Those who were to be sent x when it was last alerted, or were to be by  *)
(* now, and whom no delivery was tried to *)
Overlooked(x) ==
  LET from == IF lastEvent[x].at = Never THEN hour ELSE lastEvent[x].from IN
  {p \in Due(x.kind) : since[p] < from /\ tried[x][p] < from}

(* Spend and error rates are what they are when they are looked at.       *)
Evaluate(r) ==
  /\ check[r].pc = "evaluate"
  /\ \/ ToNextSubject(r) /\ UNCHANGED amiss
     \/ \E x \in {y \in Causes : y.kind = Kind(r)} :
          IF RecentEvent(x)
            THEN /\ ToNextSubject(r)
                 /\ amiss' = [amiss EXCEPT !.missed =
                      @ \/ (~amiss.spoilt /\ Overlooked(x) # {})]
            ELSE /\ Resume(r, [check[r] EXCEPT !.pc = "mail", !.level = x.level,
                                               !.todo = IF mailOn THEN Admins ELSE {}])
                 /\ UNCHANGED amiss
  /\ UNCHANGED <<hour, mailOn, hook, lastEvent, patch, tried, since>>

Tries(r, p) ==
  LET x == Cause(r) IN
  IF amiss.spoilt THEN UNCHANGED <<tried, amiss>>
  ELSE /\ tried' = [tried EXCEPT ![x][p] = hour]
       /\ amiss' = [amiss EXCEPT !.repeated =
            @ \/ (tried[x][p] # Never /\ tried[x][p] >= hour - Cooldown)]

Records(r, ok) ==
  lastEvent' = [lastEvent EXCEPT ![Cause(r)] =
    [at |-> hour, from |-> check[r].from, status |-> IF ok THEN "sent" ELSE "failed"]]

(* deliver: sent or failed, the mail becomes an event. *)
Mail(r) ==
  /\ check[r].pc = "mail"
  /\ \E p \in check[r].todo, ok \in BOOLEAN :
       /\ Tries(r, p)
       /\ Resume(r, [check[r] EXCEPT !.pc = "mailed", !.todo = @ \ {p},
                                     !.failed = IF ok THEN @ ELSE @ \cup {p}])
  /\ UNCHANGED <<hour, mailOn, hook, lastEvent, patch, since>>

(* A mutant that leaves mails unrecorded. *)
RecordMail_None(r) ==
  /\ check[r].pc = "mailed"
  /\ Resume(r, [check[r] EXCEPT !.pc = "mail", !.failed = {}])
  /\ UNCHANGED <<hour, mailOn, hook, lastEvent, patch, tried, since, amiss>>

RecordMail(r) ==
  /\ check[r].pc = "mailed"
  /\ Records(r, check[r].failed = {})
  /\ Resume(r, [check[r] EXCEPT !.pc = "mail", !.failed = {}])
  /\ UNCHANGED <<hour, mailOn, hook, patch, tried, since, amiss>>

(* deliverWebhooks reads the subscriptions once, ... *)
ListHooks(r) ==
  /\ check[r].pc = "mail" /\ check[r].todo = {}
  /\ Resume(r, [check[r] EXCEPT !.pc = "post", !.todo = {h \in Hooks : Listens(h, Kind(r))}])
  /\ UNCHANGED <<hour, mailOn, hook, lastEvent, patch, tried, since, amiss>>

Post(r) ==
  /\ check[r].pc = "post"
  /\ \E h \in check[r].todo, ok \in BOOLEAN :
       /\ Tries(r, h)
       /\ Resume(r, [check[r] EXCEPT !.todo = @ \ {h}, !.sent = @ \cup {h},
                                     !.failed = IF ok THEN @ ELSE @ \cup {h}])
  /\ UNCHANGED <<hour, mailOn, hook, lastEvent, patch, since>>

(* ... and what it did is recorded after the last. *)
RecordPosts(r) ==
  /\ check[r].pc = "post" /\ check[r].todo = {}
  /\ IF check[r].sent = {}
       THEN ToNextSubject(r) /\ UNCHANGED lastEvent
       ELSE \E h \in check[r].sent :
              /\ Records(r, h \notin check[r].failed)
              /\ Resume(r, [check[r] EXCEPT !.sent = @ \ {h}, !.failed = @ \ {h}])
  /\ UNCHANGED <<hour, mailOn, hook, patch, tried, since, amiss>>

(* D1 or the mail service throws: the rest of the check is given up. *)
CheckBreaks(r) ==
  /\ check[r].pc # "idle"
  /\ Resume(r, Idle)
  /\ Spoils(TRUE)
  /\ UNCHANGED <<hour, mailOn, hook, lastEvent, patch>>

-----------------------------------------------------------------------------
(* The dashboard *)

Altered(h) == since' = IF amiss.spoilt THEN since ELSE [since EXCEPT ![h] = hour]

(* POST /api/alerts/webhooks: at least one event *)
CreateHook(h, events) ==
  /\ ~hook[h].there /\ events # {}
  /\ hook' = [hook EXCEPT ![h] = [there |-> TRUE, enabled |-> TRUE, events |-> events]]
  /\ Altered(h)
  /\ UNCHANGED <<hour, mailOn, lastEvent, check, patch, tried, amiss>>

(* PATCH /api/alerts/webhooks/:id: the row is read, ... *)
ReadHook(h) ==
  /\ patch = NoPatchYet /\ hook[h].there
  /\ patch' = [hook |-> h, seen |-> hook[h]]
  /\ UNCHANGED <<hour, mailOn, hook, lastEvent, check, tried, since, amiss>>

(* ... merged with the body and written.  Where the body has an url, its   *)
(* events are those of the body, or none.                                  *)
WriteHook ==
  LET h == patch.hook IN
  /\ patch # NoPatchYet
  /\ \E enabled \in BOOLEAN, events \in {patch.seen.events} \cup SUBSET EventNames :
       hook' = [hook EXCEPT ![h] =
         IF hook[h].there THEN [there |-> TRUE, enabled |-> enabled, events |-> events] ELSE NoHook]
  /\ patch' = NoPatchYet
  /\ Altered(h)
  /\ UNCHANGED <<hour, mailOn, lastEvent, check, tried, amiss>>

(* A mutant that leaves what a deleted webhook subscribes to behind. *)
DeleteHook_Leaves(h) ==
  /\ hook[h].there
  /\ hook' = [hook EXCEPT ![h].there = FALSE]
  /\ Altered(h)
  /\ UNCHANGED <<hour, mailOn, lastEvent, check, patch, tried, amiss>>

(* DELETE /api/alerts/webhooks/:id *)
DeleteHook(h) ==
  /\ hook[h].there
  /\ hook' = [hook EXCEPT ![h] = NoHook]
  /\ Altered(h)
  /\ UNCHANGED <<hour, mailOn, lastEvent, check, patch, tried, amiss>>

-----------------------------------------------------------------------------
HourPasses ==
  /\ hour < AlertUntil /\ hour' = hour + 1
  /\ UNCHANGED <<mailOn, hook, lastEvent, check, patch, tried, since, amiss>>

AlertNext ==
  \/ \E r \in Checks :
       \/ StartCheck(r) \/ Evaluate(r) \/ Mail(r) \/ RecordMail(r)
       \/ ListHooks(r) \/ Post(r) \/ RecordPosts(r) \/ CheckBreaks(r)
  \/ \E h \in Hooks :
       \/ \E events \in SUBSET EventNames : CreateHook(h, events)
       \/ ReadHook(h) \/ DeleteHook(h)
  \/ WriteHook
  \/ HourPasses

AlertSpec == AlertInit /\ [][AlertNext]_alertVars

-----------------------------------------------------------------------------
AlertTypeOK ==
  /\ \A h \in Hooks : hook[h].there \/ hook[h] = NoHook
  /\ \A r \in Checks : check[r].todo \subseteq Parties /\ check[r].sent \subseteq Hooks
                         /\ check[r].failed \subseteq Parties
  /\ \A x \in Causes : lastEvent[x].at \in Never..hour

(* No delivery of the same kind and level to the same administrator or     *)
(* webhook is tried twice within the cooldown, as long as checks neither   *)
(* break off nor overlap (alerts/evaluator.ts:59-84, 147-181).             *)
NoneTriedTwice == ~amiss.repeated

(* An alert is held back only from those to whom its delivery was tried:   *)
(* nobody who was to be sent it when the events were recorded was passed   *)
(* over, and a higher level is not held back for a lower one, as long as   *)
(* checks neither break off nor overlap (alerts/evaluator.ts:59-84, 147-   *)
(* 181).  A delivery that failed counts: its event silences the alert for  *)
(* the cooldown as one that was sent does.                                 *)
HeldBackIfTried == ~amiss.missed

=============================================================================
