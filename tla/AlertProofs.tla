------------------------------ MODULE AlertProofs ------------------------------
(***************************************************************************)
(* Proofs about the alerts, for any kinds, levels, administrators,         *)
(* webhooks and cooldown, and any number of checks.                        *)
(***************************************************************************)
EXTENDS AlertChecks, TLAPS

-----------------------------------------------------------------------------
(* Types *)

HookRows == [there : BOOLEAN, enabled : BOOLEAN, events : SUBSET EventNames]
Moments == {Never} \cup Nat
Statuses == {"", "sent", "failed"}
CheckPcs == {"idle", "evaluate", "mail", "mailed", "post"}

CheckStates ==
  {c \in [pc : CheckPcs, nr : Nat, from : Nat, level : (UNION {Levels[k] : k \in Kinds}) \cup {0},
          todo : SUBSET Parties, sent : SUBSET Hooks,
          failed : SUBSET Parties] :
     /\ c.pc \in {"mail", "mailed"} => c.todo \subseteq Admins
     /\ IF c.pc = "post" THEN c.todo \subseteq Hooks ELSE c.sent = {}}

AlertTyped ==
  /\ hour \in Nat /\ mailOn \in BOOLEAN
  /\ hook \in [Hooks -> HookRows]
  /\ \A h \in Hooks : hook[h].there \/ hook[h] = NoHook
  /\ lastEvent \in [Causes -> [at : Moments, from : Moments, status : Statuses]]
  /\ \A x \in Causes : lastEvent[x].at <= hour
  /\ check \in [Checks -> CheckStates]
  /\ patch.seen \in HookRows
  /\ tried \in [Causes -> [Parties -> Moments]]
  /\ since \in [Parties -> Nat]
  /\ amiss \in [spoilt : BOOLEAN, repeated : BOOLEAN, missed : BOOLEAN]

LEMMA MomentFacts ==
  /\ \A m \in Moments : m \in Int /\ Never <= m
  /\ Never \in Moments /\ Never \in Int /\ Never < 0 /\ Nat \subseteq Moments
BY DEF Moments, Never

LEMMA NoHookTyped == NoHook \in HookRows /\ ~NoHook.there
BY DEF NoHook, HookRows

LEMMA IdleTyped == Idle \in CheckStates /\ Idle.pc = "idle"
BY DEF Idle, CheckStates, CheckPcs

LEMMA AlertAssumptions ==
  /\ Cooldown \in Nat /\ Cooldown > 0
  /\ AlertUntil \in Nat /\ Admins \cap Hooks = {}
BY AlertAssumption

LEMMA InitAlertTyped == AlertInit => AlertTyped
<1> SUFFICES ASSUME AlertInit
             PROVE  AlertTyped
  OBVIOUS
<1>1. hour = 0 /\ mailOn \in BOOLEAN /\ hour \in Nat
  BY DEF AlertInit
<1>2. hook \in [Hooks -> HookRows] /\ \A h \in Hooks : hook[h] = NoHook
  BY NoHookTyped DEF AlertInit
<1>3. [at |-> Never, from |-> Never, status |-> ""] \in [at : Moments, from : Moments, status : Statuses]
  BY MomentFacts DEF Statuses
<1>4. /\ lastEvent \in [Causes -> [at : Moments, from : Moments, status : Statuses]]
      /\ \A x \in Causes : lastEvent[x].at <= hour
  BY <1>1, <1>3, MomentFacts DEF AlertInit
<1>5. check \in [Checks -> CheckStates]
  BY IdleTyped DEF AlertInit
<1>6. patch.seen \in HookRows
  BY NoHookTyped, Zenon DEF AlertInit, NoPatchYet
<1>7. tried \in [Causes -> [Parties -> Moments]] /\ since \in [Parties -> Nat]
  BY MomentFacts DEF AlertInit, NoTries
<1>8. amiss \in [spoilt : BOOLEAN, repeated : BOOLEAN, missed : BOOLEAN]
  BY DEF AlertInit
<1> QED
  BY <1>1, <1>2, <1>4, <1>5, <1>6, <1>7, <1>8 DEF AlertTyped

(* A step that leaves the dashboard's rows alone. *)
LEMMA CheckStepTyped ==
  ASSUME AlertTyped, NEW r \in Checks, NEW c \in CheckStates, Resume(r, c),
         hour' = hour, UNCHANGED <<mailOn, hook, patch>>,
         lastEvent' \in [Causes -> [at : Moments, from : Moments, status : Statuses]],
         \A x \in Causes : lastEvent'[x].at <= hour,
         tried' \in [Causes -> [Parties -> Moments]],
         since' \in [Parties -> Nat],
         amiss' \in [spoilt : BOOLEAN, repeated : BOOLEAN, missed : BOOLEAN]
  PROVE  AlertTyped'
BY DEF AlertTyped, Resume

LEMMA NextSubjectTyped ==
  ASSUME AlertTyped, NEW r \in Checks, ToNextSubject(r)
  PROVE  \E c \in CheckStates :
           /\ Resume(r, c)
           /\ c.pc \in {"idle", "evaluate"}
           /\ c.pc = "evaluate" => c.from = check[r].from
<1> DEFINE c == [Idle EXCEPT !.pc = "evaluate", !.nr = check[r].nr + 1, !.from = check[r].from]
<1>0. check[r] \in CheckStates
  BY DEF AlertTyped
<1>1. check[r].nr + 1 \in Nat /\ check[r].from \in Nat
  BY <1>0 DEF CheckStates
<1>2. c \in CheckStates /\ c.pc = "evaluate" /\ c.from = check[r].from
  BY <1>1 DEF Idle, CheckStates, CheckPcs
<1>3. Resume(r, Idle) \/ Resume(r, c)
  BY DEF ToNextSubject
<1> HIDE DEF c
<1> QED
  BY <1>2, <1>3, IdleTyped

LEMMA SpoilsTyped ==
  ASSUME AlertTyped, NEW if \in BOOLEAN, Spoils(if)
  PROVE  /\ tried' \in [Causes -> [Parties -> Moments]] /\ since' \in [Parties -> Nat]
         /\ amiss' \in [spoilt : BOOLEAN, repeated : BOOLEAN, missed : BOOLEAN]
         /\ amiss'.spoilt = (amiss.spoilt \/ if)
         /\ amiss'.repeated = amiss.repeated /\ amiss'.missed = amiss.missed
         /\ ~amiss'.spoilt => UNCHANGED <<tried, since>>
BY MomentFacts DEF AlertTyped, Spoils, NoTries

LEMMA TriesTyped ==
  ASSUME AlertTyped, NEW r \in Checks, NEW p \in Parties, Tries(r, p)
  PROVE  /\ tried' \in [Causes -> [Parties -> Moments]]
         /\ amiss' \in [spoilt : BOOLEAN, repeated : BOOLEAN, missed : BOOLEAN]
         /\ amiss'.spoilt = amiss.spoilt /\ amiss'.missed = amiss.missed
<1> DEFINE x == Cause(r)
           again == amiss.repeated \/ (tried[x][p] # Never /\ tried[x][p] >= hour - Cooldown)
<1>1. hour \in Moments
  BY MomentFacts DEF AlertTyped
<1>2. CASE amiss.spoilt
  BY <1>2 DEF AlertTyped, Tries
<1>3. CASE ~amiss.spoilt
  <2>1. tried' = [tried EXCEPT ![x][p] = hour] /\ amiss' = [amiss EXCEPT !.repeated = again]
    BY <1>3 DEF Tries
  <2>2. again \in BOOLEAN
    OBVIOUS
  <2> HIDE DEF x, again
  <2>3. tried' \in [Causes -> [Parties -> Moments]]
    BY <2>1, <1>1 DEF AlertTyped
  <2> QED
    BY <2>1, <2>2, <2>3 DEF AlertTyped
<1> QED
  BY <1>2, <1>3

LEMMA AlteredTyped ==
  ASSUME AlertTyped, NEW h, Altered(h)
  PROVE  since' \in [Parties -> Nat]
BY DEF AlertTyped, Altered

LEMMA RecordsTyped ==
  ASSUME AlertTyped, NEW r \in Checks, NEW ok \in BOOLEAN, Records(r, ok)
  PROVE  /\ lastEvent' \in [Causes -> [at : Moments, from : Moments, status : Statuses]]
         /\ \A x \in Causes : lastEvent'[x].at <= hour
<1>0. check[r] \in CheckStates /\ hour \in Nat
  BY DEF AlertTyped
<1>1. hour \in Moments /\ check[r].from \in Moments /\ hour <= hour
  BY <1>0, MomentFacts DEF CheckStates
<1>2. [at |-> hour, from |-> check[r].from, status |-> IF ok THEN "sent" ELSE "failed"]
        \in [at : Moments, from : Moments, status : Statuses]
  BY <1>1 DEF Statuses
<1> QED
  BY <1>1, <1>2 DEF AlertTyped, Records

LEMMA StartCheckTyped ==
  ASSUME AlertTyped, NEW r \in Checks, StartCheck(r)
  PROVE  AlertTyped'
<1> DEFINE c == [Idle EXCEPT !.pc = "evaluate", !.nr = 1, !.from = hour]
           if == \E s \in Checks \ {r} : check[s].pc # "idle"
<1>1. c \in CheckStates
  BY DEF AlertTyped, Idle, CheckStates, CheckPcs
<1>2. Resume(r, c) /\ Spoils(if) /\ UNCHANGED <<hour, mailOn, hook, lastEvent, patch>>
  BY DEF StartCheck
<1>3. if \in BOOLEAN
  OBVIOUS
<1> HIDE DEF c, if
<1>4. /\ tried' \in [Causes -> [Parties -> Moments]] /\ since' \in [Parties -> Nat]
      /\ amiss' \in [spoilt : BOOLEAN, repeated : BOOLEAN, missed : BOOLEAN]
  BY <1>2, <1>3, SpoilsTyped
<1>5. /\ lastEvent' \in [Causes -> [at : Moments, from : Moments, status : Statuses]]
      /\ \A x \in Causes : lastEvent'[x].at <= hour
  BY <1>2 DEF AlertTyped
<1> QED
  BY <1>1, <1>2, <1>4, <1>5, CheckStepTyped

LEMMA EvaluateTyped ==
  ASSUME AlertTyped, NEW r \in Checks, Evaluate(r)
  PROVE  AlertTyped'
<1>1. UNCHANGED <<hour, mailOn, hook, lastEvent, patch, tried, since>>
  BY DEF Evaluate
<1>2. amiss' \in [spoilt : BOOLEAN, repeated : BOOLEAN, missed : BOOLEAN]
  BY DEF AlertTyped, Evaluate
<1>3. \E c \in CheckStates : Resume(r, c)
  <2>1. CASE ToNextSubject(r)
    BY <2>1, NextSubjectTyped
  <2>2. CASE \E x \in Causes : Resume(r, [check[r] EXCEPT !.pc = "mail", !.level = x.level,
                                              !.todo = IF mailOn THEN Admins ELSE {}])
    <3>1. PICK x \in Causes : Resume(r, [check[r] EXCEPT !.pc = "mail", !.level = x.level,
                                             !.todo = IF mailOn THEN Admins ELSE {}])
      BY <2>2
    <3>2. x.level \in UNION {Levels[k] : k \in Kinds}
      BY DEF Causes
    <3>3. (IF mailOn THEN Admins ELSE {}) \in SUBSET Admins /\ Admins \subseteq Parties
      BY DEF Parties
    <3>4. check[r] \in CheckStates /\ check[r].pc = "evaluate"
      BY DEF AlertTyped, Evaluate
    <3>5. [check[r] EXCEPT !.pc = "mail", !.level = x.level,
                           !.todo = IF mailOn THEN Admins ELSE {}] \in CheckStates
      BY <3>2, <3>3, <3>4 DEF CheckStates, CheckPcs
    <3> QED
      BY <3>1, <3>5
  <2> QED
    BY <2>1, <2>2 DEF Evaluate
<1>4. /\ lastEvent' \in [Causes -> [at : Moments, from : Moments, status : Statuses]]
      /\ \A x \in Causes : lastEvent'[x].at <= hour
      /\ tried' \in [Causes -> [Parties -> Moments]] /\ since' \in [Parties -> Nat]
  BY <1>1 DEF AlertTyped
<1> QED
  BY <1>1, <1>2, <1>3, <1>4, CheckStepTyped

(* A step that tries a delivery to p, and one that only goes on. *)
LEMMA TryingTyped ==
  ASSUME AlertTyped, NEW r \in Checks, NEW p \in Parties, Tries(r, p),
         NEW c \in CheckStates, Resume(r, c),
         UNCHANGED <<hour, mailOn, hook, lastEvent, patch, since>>
  PROVE  AlertTyped'
<1>1. /\ tried' \in [Causes -> [Parties -> Moments]]
      /\ amiss' \in [spoilt : BOOLEAN, repeated : BOOLEAN, missed : BOOLEAN]
  BY TriesTyped
<1>2. /\ lastEvent' \in [Causes -> [at : Moments, from : Moments, status : Statuses]]
      /\ \A x \in Causes : lastEvent'[x].at <= hour
      /\ since' \in [Parties -> Nat]
  BY DEF AlertTyped
<1> QED
  BY <1>1, <1>2, CheckStepTyped

LEMMA MailTyped ==
  ASSUME AlertTyped, NEW r \in Checks, Mail(r)
  PROVE  AlertTyped'
<1>1. check[r] \in CheckStates /\ check[r].pc = "mail"
  BY DEF AlertTyped, Mail
<1>2. PICK p \in check[r].todo, ok \in BOOLEAN :
         /\ Tries(r, p)
         /\ Resume(r, [check[r] EXCEPT !.pc = "mailed", !.todo = @ \ {p},
                                       !.failed = IF ok THEN @ ELSE @ \cup {p}])
  BY DEF Mail
<1>3. p \in Parties /\ [check[r] EXCEPT !.pc = "mailed", !.todo = @ \ {p},
                       !.failed = IF ok THEN @ ELSE @ \cup {p}] \in CheckStates
  BY <1>1 DEF CheckStates, CheckPcs
<1> QED
  BY <1>2, <1>3, TryingTyped DEF Mail

LEMMA PostTyped ==
  ASSUME AlertTyped, NEW r \in Checks, Post(r)
  PROVE  AlertTyped'
<1>1. check[r] \in CheckStates /\ check[r].pc = "post"
  BY DEF AlertTyped, Post
<1>2. PICK h \in check[r].todo, ok \in BOOLEAN :
         /\ Tries(r, h)
         /\ Resume(r, [check[r] EXCEPT !.todo = @ \ {h}, !.sent = @ \cup {h},
                                       !.failed = IF ok THEN @ ELSE @ \cup {h}])
  BY DEF Post
<1>3. h \in Parties /\ h \in Hooks
  BY <1>1, <1>2 DEF CheckStates, Post
<1>4. [check[r] EXCEPT !.todo = @ \ {h}, !.sent = @ \cup {h},
                       !.failed = IF ok THEN @ ELSE @ \cup {h}] \in CheckStates
  BY <1>1, <1>3 DEF CheckStates, CheckPcs
<1> QED
  BY <1>2, <1>3, <1>4, TryingTyped DEF Post

LEMMA RecordMailTyped ==
  ASSUME AlertTyped, NEW r \in Checks, RecordMail(r)
  PROVE  AlertTyped'
<1>1. check[r] \in CheckStates /\ check[r].pc = "mailed"
  BY DEF AlertTyped, RecordMail
<1>2. /\ Records(r, check[r].failed = {})
      /\ Resume(r, [check[r] EXCEPT !.pc = "mail", !.failed = {}])
      /\ UNCHANGED <<hour, mailOn, hook, patch, tried, since, amiss>>
  BY DEF RecordMail
<1>3. [check[r] EXCEPT !.pc = "mail", !.failed = {}] \in CheckStates
  BY <1>1 DEF CheckStates, CheckPcs
<1>4. /\ lastEvent' \in [Causes -> [at : Moments, from : Moments, status : Statuses]]
      /\ \A x \in Causes : lastEvent'[x].at <= hour
  BY <1>2, RecordsTyped
<1>5. /\ tried' \in [Causes -> [Parties -> Moments]] /\ since' \in [Parties -> Nat]
      /\ amiss' \in [spoilt : BOOLEAN, repeated : BOOLEAN, missed : BOOLEAN]
  BY <1>2 DEF AlertTyped
<1> QED
  BY <1>2, <1>3, <1>4, <1>5, CheckStepTyped

LEMMA ListHooksTyped ==
  ASSUME AlertTyped, NEW r \in Checks, ListHooks(r)
  PROVE  AlertTyped'
<1> DEFINE listening == {h \in Hooks : Listens(h, Kind(r))}
<1>1. check[r] \in CheckStates
  BY DEF AlertTyped
<1>2. listening \in SUBSET Hooks /\ listening \in SUBSET Parties
  BY DEF Parties
<1>3. /\ Resume(r, [check[r] EXCEPT !.pc = "post", !.todo = listening])
      /\ UNCHANGED <<hour, mailOn, hook, lastEvent, patch, tried, since, amiss>>
  BY DEF ListHooks
<1> HIDE DEF listening
<1>4. [check[r] EXCEPT !.pc = "post", !.todo = listening] \in CheckStates
  BY <1>1, <1>2 DEF CheckStates, CheckPcs
<1>5. /\ lastEvent' \in [Causes -> [at : Moments, from : Moments, status : Statuses]]
      /\ \A x \in Causes : lastEvent'[x].at <= hour
      /\ tried' \in [Causes -> [Parties -> Moments]] /\ since' \in [Parties -> Nat]
      /\ amiss' \in [spoilt : BOOLEAN, repeated : BOOLEAN, missed : BOOLEAN]
  BY <1>3 DEF AlertTyped
<1> QED
  BY <1>3, <1>4, <1>5, CheckStepTyped

LEMMA RecordPostsTyped ==
  ASSUME AlertTyped, NEW r \in Checks, RecordPosts(r)
  PROVE  AlertTyped'
<1>1. check[r] \in CheckStates
  BY DEF AlertTyped
<1>2. UNCHANGED <<hour, mailOn, hook, patch, tried, since, amiss>>
  BY DEF RecordPosts
<1>3. CASE check[r].sent = {}
  <2>1. ToNextSubject(r) /\ UNCHANGED lastEvent
    BY <1>3 DEF RecordPosts
  <2>2. /\ lastEvent' \in [Causes -> [at : Moments, from : Moments, status : Statuses]]
        /\ \A x \in Causes : lastEvent'[x].at <= hour
    BY <2>1 DEF AlertTyped
  <2>3. PICK c \in CheckStates : Resume(r, c)
    BY <2>1, NextSubjectTyped
  <2>4. /\ tried' \in [Causes -> [Parties -> Moments]] /\ since' \in [Parties -> Nat]
        /\ amiss' \in [spoilt : BOOLEAN, repeated : BOOLEAN, missed : BOOLEAN]
    BY <1>2 DEF AlertTyped
  <2> QED
    BY <1>2, <2>2, <2>3, <2>4, CheckStepTyped
<1>4. CASE check[r].sent # {}
  <2>1. PICK h \in check[r].sent :
          /\ Records(r, h \notin check[r].failed)
          /\ Resume(r, [check[r] EXCEPT !.sent = @ \ {h}, !.failed = @ \ {h}])
    BY <1>4 DEF RecordPosts
  <2>2. /\ lastEvent' \in [Causes -> [at : Moments, from : Moments, status : Statuses]]
        /\ \A x \in Causes : lastEvent'[x].at <= hour
    BY <2>1, RecordsTyped
  <2>4. [check[r] EXCEPT !.sent = @ \ {h}, !.failed = @ \ {h}] \in CheckStates
    BY <1>1 DEF CheckStates
  <2>5. /\ tried' \in [Causes -> [Parties -> Moments]] /\ since' \in [Parties -> Nat]
        /\ amiss' \in [spoilt : BOOLEAN, repeated : BOOLEAN, missed : BOOLEAN]
    BY <1>2 DEF AlertTyped
  <2> QED
    BY <1>2, <2>1, <2>2, <2>4, <2>5, CheckStepTyped
<1> QED
  BY <1>3, <1>4

LEMMA CheckBreaksTyped ==
  ASSUME AlertTyped, NEW r \in Checks, CheckBreaks(r)
  PROVE  AlertTyped'
<1>1. /\ Resume(r, Idle) /\ Spoils(TRUE)
      /\ UNCHANGED <<hour, mailOn, hook, lastEvent, patch>>
  BY DEF CheckBreaks
<1>2. /\ tried' \in [Causes -> [Parties -> Moments]] /\ since' \in [Parties -> Nat]
      /\ amiss' \in [spoilt : BOOLEAN, repeated : BOOLEAN, missed : BOOLEAN]
  BY <1>1, SpoilsTyped
<1>3. /\ lastEvent' \in [Causes -> [at : Moments, from : Moments, status : Statuses]]
      /\ \A x \in Causes : lastEvent'[x].at <= hour
  BY <1>1 DEF AlertTyped
<1> QED
  BY <1>1, <1>2, <1>3, IdleTyped, CheckStepTyped

(* A request of the dashboard writes a row, or reads one, and stamps it. *)
LEMMA DashboardStepTyped ==
  ASSUME AlertTyped, UNCHANGED <<hour, mailOn, lastEvent, check, tried, amiss>>,
         hook' \in [Hooks -> HookRows],
         \A h \in Hooks : hook'[h].there \/ hook'[h] = NoHook,
         patch'.seen \in HookRows,
         UNCHANGED since \/ \E h : Altered(h)
  PROVE  AlertTyped'
<1>1. since' \in [Parties -> Nat]
  <2>1. CASE UNCHANGED since
    BY <2>1 DEF AlertTyped
  <2>2. CASE \E h : Altered(h)
    BY <2>2, AlteredTyped
  <2> QED
    BY <2>1, <2>2
<1> QED
  BY <1>1 DEF AlertTyped

LEMMA CreateHookTyped ==
  ASSUME AlertTyped, NEW h \in Hooks, NEW events \in SUBSET EventNames, CreateHook(h, events)
  PROVE  AlertTyped'
<1>1. /\ hook' \in [Hooks -> HookRows]
      /\ \A k \in Hooks : hook'[k].there \/ hook'[k] = NoHook
  BY DEF AlertTyped, CreateHook, HookRows
<1>2. patch'.seen \in HookRows /\ Altered(h)
  BY DEF AlertTyped, CreateHook
<1> QED
  BY <1>1, <1>2, DashboardStepTyped DEF CreateHook

LEMMA ReadHookTyped ==
  ASSUME AlertTyped, NEW h \in Hooks, ReadHook(h)
  PROVE  AlertTyped'
<1>1. UNCHANGED <<hour, mailOn, hook, lastEvent, check, tried, since, amiss>>
  BY DEF ReadHook
<1>2. patch' = [hook |-> h, seen |-> hook[h]] /\ hook[h] \in HookRows
  BY DEF AlertTyped, ReadHook
<1>3. patch'.seen \in HookRows
  BY <1>2
<1>4. /\ hook' \in [Hooks -> HookRows]
      /\ \A k \in Hooks : hook'[k].there \/ hook'[k] = NoHook
  BY <1>1 DEF AlertTyped
<1> QED
  BY <1>1, <1>3, <1>4, DashboardStepTyped

LEMMA WriteHookTyped ==
  ASSUME AlertTyped, WriteHook
  PROVE  AlertTyped'
<1>1. /\ UNCHANGED <<hour, mailOn, lastEvent, check, tried, amiss>>
      /\ Altered(patch.hook) /\ patch' = NoPatchYet
  BY DEF WriteHook
<1>2. PICK enabled \in BOOLEAN, events \in {patch.seen.events} \cup SUBSET EventNames :
         hook' = [hook EXCEPT ![patch.hook] =
           IF hook[patch.hook].there
             THEN [there |-> TRUE, enabled |-> enabled, events |-> events] ELSE NoHook]
  BY Zenon DEF WriteHook
<1>3. events \in SUBSET EventNames
  BY <1>2 DEF AlertTyped, HookRows
<1>4. [there |-> TRUE, enabled |-> enabled, events |-> events] \in HookRows
  BY <1>3 DEF HookRows
<1>5. /\ hook' \in [Hooks -> HookRows]
      /\ \A k \in Hooks : hook'[k].there \/ hook'[k] = NoHook
  BY <1>2, <1>4, NoHookTyped DEF AlertTyped
<1>6. patch'.seen \in HookRows
  BY <1>1, NoHookTyped, Zenon DEF NoPatchYet
<1> QED
  BY <1>1, <1>5, <1>6, DashboardStepTyped

LEMMA DeleteHookTyped ==
  ASSUME AlertTyped, NEW h \in Hooks, DeleteHook(h)
  PROVE  AlertTyped'
<1>1. /\ hook' \in [Hooks -> HookRows]
      /\ \A k \in Hooks : hook'[k].there \/ hook'[k] = NoHook
  BY NoHookTyped DEF AlertTyped, DeleteHook
<1>2. patch'.seen \in HookRows /\ Altered(h)
  BY DEF AlertTyped, DeleteHook
<1> QED
  BY <1>1, <1>2, DashboardStepTyped DEF DeleteHook

LEMMA HourPassesTyped ==
  ASSUME AlertTyped, HourPasses
  PROVE  AlertTyped'
<1>1. hour' = hour + 1 /\ hour' \in Nat
  BY DEF AlertTyped, HourPasses
<1>2. \A x \in Causes : lastEvent[x].at \in Moments /\ lastEvent[x].at <= hour
  BY DEF AlertTyped
<1>3. \A x \in Causes : lastEvent[x].at \in Int /\ lastEvent[x].at <= hour
  BY <1>2, MomentFacts
<1>4. \A x \in Causes : lastEvent'[x].at <= hour'
  BY <1>1, <1>3 DEF AlertTyped, HourPasses
<1> QED
  BY <1>1, <1>4 DEF AlertTyped, HourPasses

LEMMA NextAlertTyped ==
  ASSUME AlertTyped, [AlertNext]_alertVars
  PROVE  AlertTyped'
<1>1. CASE UNCHANGED alertVars
  BY <1>1 DEF AlertTyped, alertVars
<1>2. ASSUME NEW r \in Checks,
             \/ StartCheck(r) \/ Evaluate(r) \/ Mail(r) \/ RecordMail(r)
             \/ ListHooks(r) \/ Post(r) \/ RecordPosts(r) \/ CheckBreaks(r)
      PROVE  AlertTyped'
  BY <1>2, StartCheckTyped, EvaluateTyped, MailTyped, RecordMailTyped, ListHooksTyped,
     PostTyped, RecordPostsTyped, CheckBreaksTyped
<1>3. ASSUME NEW h \in Hooks,
             \/ \E events \in SUBSET EventNames : CreateHook(h, events)
             \/ ReadHook(h) \/ DeleteHook(h)
      PROVE  AlertTyped'
  BY <1>3, CreateHookTyped, ReadHookTyped, DeleteHookTyped
<1> QED
  BY <1>1, <1>2, <1>3, WriteHookTyped, HourPassesTyped DEF AlertNext

LEMMA TypedAlertTypeOK == AlertTyped => AlertTypeOK
<1> SUFFICES ASSUME AlertTyped
             PROVE  AlertTypeOK
  OBVIOUS
<1>1. \A r \in Checks : check[r].todo \subseteq Parties /\ check[r].sent \subseteq Hooks
                         /\ check[r].failed \subseteq Parties
  BY DEF AlertTyped, CheckStates
<1>2. \A x \in Causes : lastEvent[x].at \in Moments /\ lastEvent[x].at <= hour
  BY DEF AlertTyped
<1>3. \A x \in Causes : lastEvent[x].at \in Int /\ Never <= lastEvent[x].at
  BY <1>2, MomentFacts
<1>4. \A x \in Causes : lastEvent[x].at \in Never..hour
  BY <1>2, <1>3, MomentFacts DEF AlertTyped
<1> QED
  BY <1>1, <1>4 DEF AlertTyped, AlertTypeOK

(* Events, runs and webhooks stay what they are to be: a row is empty or   *)
(* there, nothing is sent but to those it may be sent to, and no event is  *)
(* of the future (alerts/evaluator.ts, api/alerts.ts).                  *)
THEOREM AlertTypes == AlertSpec => []AlertTypeOK
<1>1. AlertInit => AlertTyped
  BY InitAlertTyped
<1>2. AlertTyped /\ [AlertNext]_alertVars => AlertTyped'
  BY NextAlertTyped
<1>3. AlertTyped => AlertTypeOK
  BY TypedAlertTypeOK
<1> QED
  BY <1>1, <1>2, <1>3, PTL DEF AlertSpec

-----------------------------------------------------------------------------
(* To whom delivery has been tried *)

Alerting(c) == c.pc \in {"mail", "mailed", "post"}
CauseOf(c) == [kind |-> Subjects[c.nr], level |-> c.level]

(* No delivery of x was tried after its last event, and to whoever was to  *)
(* be sent it when that was recorded it was tried, or something else is to *)
(* be sent to him by now.                                                  *)
Noted(x) == \A p \in Parties : tried[x][p] <= lastEvent[x].at
Tried(x) ==
  \A p \in Due(x.kind) : since[p] >= lastEvent[x].from \/ tried[x][p] >= lastEvent[x].from

Untried(x, p) == tried[x][p] = Never \/ tried[x][p] < hour - Cooldown

(* A run in state c, of cause x if it alerts: to those still to do nothing *)
(* was tried within the cooldown, to the others it was tried by the run.   *)
Sound(c) ==
  /\ c.from <= hour
  /\ \A y \in Causes : lastEvent[y].from <= c.from
  /\ Alerting(c) => CauseOf(c) \in Causes
  /\ c.pc \in {"mail", "mailed"} =>
       /\ \A p \in c.todo \cup Hooks : Untried(CauseOf(c), p)
       /\ mailOn => \A p \in Admins \ c.todo : tried[CauseOf(c)][p] >= c.from
  /\ c.pc = "post" =>
       /\ \A p \in c.todo : Untried(CauseOf(c), p)
       /\ mailOn => \A p \in Admins : tried[CauseOf(c)][p] >= c.from
       /\ \A h \in Hooks \ c.todo :
            Listens(h, CauseOf(c).kind) =>
              tried[CauseOf(c)][h] >= c.from \/ since[h] >= c.from
  /\ c.pc = "mail" \/ (c.pc = "post" /\ c.sent = {}) => Noted(CauseOf(c))

Orderly ==
  /\ \A x \in Causes : lastEvent[x].from <= hour
  /\ \A x \in Causes : \A p \in Parties : tried[x][p] <= hour
  /\ \A r, s \in Checks : check[r].pc # "idle" /\ check[s].pc # "idle" => r = s
  /\ \A r \in Checks : check[r].pc # "idle" => Sound(check[r])
  /\ \A x \in Causes :
       (\A r \in Checks : Alerting(check[r]) => CauseOf(check[r]) # x) => Noted(x) /\ Tried(x)

AlertInv ==
  /\ ~amiss.repeated /\ ~amiss.missed
  /\ ~amiss.spoilt => Orderly

(* The numbers of the model, as numbers.                                   *)
LEMMA AlertNumbers ==
  ASSUME AlertTyped
  PROVE  /\ hour \in Int /\ hour >= 0
         /\ \A x \in Causes : /\ lastEvent[x].at \in Int /\ lastEvent[x].at >= Never
                              /\ lastEvent[x].from \in Int /\ lastEvent[x].from >= Never
                              /\ lastEvent[x].at <= hour
         /\ \A x \in Causes, p \in Parties : tried[x][p] \in Int /\ tried[x][p] >= Never
         /\ \A p \in Parties : since[p] \in Int /\ since[p] >= 0
         /\ \A r \in Checks : check[r].from \in Int
<1>1. /\ \A x \in Causes : lastEvent[x].at \in Moments /\ lastEvent[x].from \in Moments
      /\ \A x \in Causes, p \in Parties : tried[x][p] \in Moments
  BY DEF AlertTyped
<1>2. \A r \in Checks : check[r].from \in Int
  BY DEF AlertTyped, CheckStates
<1>3. /\ hour \in Nat /\ \A p \in Parties : since[p] \in Nat
      /\ \A x \in Causes : lastEvent[x].at <= hour
  BY DEF AlertTyped
<1>4. \A m \in Moments : m \in Int /\ m >= Never
  BY DEF Moments, Never
<1>5. hour \in Int /\ hour >= 0 /\ \A p \in Parties : since[p] \in Int /\ since[p] >= 0
  BY <1>3
<1> QED
  BY <1>1, <1>2, <1>3, <1>4, <1>5

(* Which subscriptions are due depends on the rows and the setting alone.  *)
LEMMA SameDue ==
  ASSUME UNCHANGED <<mailOn, hook>>
  PROVE  /\ \A k : Due(k)' = Due(k)
         /\ \A h, k : Listens(h, k)' = Listens(h, k)
BY DEF Due, Listens

LEMMA InitAlertInv == AlertInit => AlertInv
<1> SUFFICES ASSUME AlertInit
             PROVE  AlertInv
  OBVIOUS
<1>1. /\ \A x \in Causes : lastEvent[x].from = Never /\ lastEvent[x].at = Never
      /\ hour = 0
  BY DEF AlertInit
<1>2. \A x \in Causes : \A p \in Parties : tried[x][p] = Never
  BY DEF AlertInit, NoTries
<1>3. \A p \in Parties : since[p] = 0
  BY DEF AlertInit
<1>4. \A r \in Checks : check[r].pc = "idle"
  BY DEF AlertInit, Idle
<1>5. \A k : Due(k) \subseteq Parties
  BY DEF Due, Parties
<1>6. \A x \in Causes : Noted(x) /\ Tried(x)
  BY <1>1, <1>2, <1>3, <1>5, MomentFacts DEF Noted, Tried
<1>7. \A x \in Causes : \A p \in Parties : tried[x][p] <= hour
  BY <1>1, <1>2, MomentFacts
<1>8. Orderly
  BY <1>1, <1>4, <1>6, <1>7, MomentFacts DEF Orderly
<1>9. ~amiss.repeated /\ ~amiss.missed
  BY DEF AlertInit
<1> QED
  BY <1>8, <1>9 DEF AlertInv

(* While history is kept, only one run is under way.                       *)
LEMMA Alone ==
  ASSUME Orderly, NEW r \in Checks, check[r].pc # "idle"
  PROVE  Sound(check[r]) /\ \A s \in Checks \ {r} : check[s].pc = "idle"
BY DEF Orderly

(* A step of the only run to state c.                                      *)
LEMMA AloneInv ==
  ASSUME AlertTyped, NEW r \in Checks, NEW c \in CheckStates, Resume(r, c),
         \A s \in Checks \ {r} : check[s].pc = "idle",
         c.pc # "idle" => Sound(c)',
         \A x \in Causes : (Alerting(c) => CauseOf(c) # x) => (Noted(x) /\ Tried(x))',
         \A x \in Causes : lastEvent'[x].from <= hour',
         \A x \in Causes : \A p \in Parties : tried'[x][p] <= hour'
  PROVE  Orderly'
<1>1. check'[r] = c /\ \A s \in Checks \ {r} : check'[s].pc = "idle"
  BY DEF AlertTyped, Resume
<1>2. \A s \in Checks : check'[s].pc # "idle" => s = r
  BY <1>1
<1>3. \A s \in Checks : check'[s].pc # "idle" => Sound(check[s])'
  <2> SUFFICES ASSUME NEW s \in Checks, check'[s].pc # "idle"
               PROVE  Sound(check[s])'
    OBVIOUS
  <2>1. s = r
    BY <1>2
  <2>2. Sound(c)'
    BY <1>1, <2>1
  <2> QED
    BY <1>1, <2>1, <2>2 DEF Sound, CauseOf, Alerting, Noted, Untried
<1>4. ASSUME NEW x \in Causes, \A s \in Checks : (Alerting(check[s]) => CauseOf(check[s]) # x)'
      PROVE  (Noted(x) /\ Tried(x))'
  BY <1>1, <1>4 DEF Alerting, CauseOf
<1> QED
  BY <1>2, <1>3, <1>4 DEF Orderly

LEMMA StartCheckInv ==
  ASSUME AlertTyped, AlertInv, NEW r \in Checks, StartCheck(r)
  PROVE  AlertInv'
<1> DEFINE if == \E s \in Checks \ {r} : check[s].pc # "idle"
<1>1. PICK c : c = [Idle EXCEPT !.pc = "evaluate", !.nr = 1, !.from = hour]
  OBVIOUS
<1>2. /\ check[r].pc = "idle" /\ Resume(r, c) /\ Spoils(if)
      /\ UNCHANGED <<hour, mailOn, hook, lastEvent, patch>>
  BY <1>1 DEF StartCheck
<1>3. c \in CheckStates /\ c.pc = "evaluate" /\ c.from = hour
  BY <1>1 DEF AlertTyped, Idle, CheckStates, CheckPcs
<1>4. /\ amiss'.spoilt = (amiss.spoilt \/ if)
      /\ amiss'.repeated = amiss.repeated /\ amiss'.missed = amiss.missed
      /\ ~amiss'.spoilt => UNCHANGED <<tried, since>>
  <2>1. if \in BOOLEAN
    OBVIOUS
  <2> HIDE DEF if
  <2> QED
    BY <1>2, <2>1, SpoilsTyped
<1>5. ASSUME ~amiss'.spoilt
      PROVE  Orderly'
  <2>1. Orderly /\ UNCHANGED <<tried, since>> /\ ~if
    BY <1>4, <1>5 DEF AlertInv
  <2>2. \A s \in Checks : check[s].pc = "idle"
    BY <1>2, <2>1
  <2>3. Sound(c)'
    BY <1>2, <1>3, <2>1, AlertNumbers DEF Sound, Alerting, Orderly
  <2>4. \A x \in Causes : Noted(x) /\ Tried(x)
    BY <2>1, <2>2 DEF Orderly, Alerting
  <2>5. \A x \in Causes : (Noted(x) /\ Tried(x))'
    BY <1>2, <2>1, <2>4, SameDue DEF Noted, Tried
  <2>6. \A x \in Causes : /\ lastEvent'[x].from <= hour'
                         /\ \A p \in Parties : tried'[x][p] <= hour'
    BY <1>2, <2>1 DEF Orderly
  <2> QED
    BY <1>2, <1>3, <2>2, <2>3, <2>5, <2>6, AloneInv
<1> QED
  BY <1>2, <1>4, <1>5 DEF AlertInv

(* What ToNextSubject leaves of a run.                                     *)
LEMMA NextSubjectStep ==
  ASSUME AlertTyped, NEW r \in Checks, ToNextSubject(r), Sound(check[r]),
         UNCHANGED <<hour, lastEvent>>
  PROVE  \E c \in CheckStates : Resume(r, c) /\ ~Alerting(c) /\ (c.pc # "idle" => Sound(c)')
<1>1. PICK c \in CheckStates :
         /\ Resume(r, c) /\ c.pc \in {"idle", "evaluate"}
         /\ c.pc = "evaluate" => c.from = check[r].from
  BY NextSubjectTyped
<1>2. ~Alerting(c)
  BY <1>1 DEF Alerting
<1>3. c.pc # "idle" => Sound(c)'
  BY <1>1, <1>2 DEF Sound, Alerting
<1> QED
  BY <1>1, <1>2, <1>3

LEMMA EvaluateInv ==
  ASSUME AlertTyped, AlertInv, NEW r \in Checks, Evaluate(r)
  PROVE  AlertInv'
<1>1. /\ check[r].pc = "evaluate"
      /\ UNCHANGED <<hour, mailOn, hook, lastEvent, patch, tried, since>>
  BY DEF Evaluate
<1>2. check[r] \in CheckStates
  BY DEF AlertTyped
<1>3. ASSUME ~amiss.spoilt
      PROVE  \A x \in Causes : Noted(x) /\ Tried(x)
  BY <1>1, <1>3, Alone DEF AlertInv, Orderly, Alerting
<1>4. /\ amiss'.spoilt = amiss.spoilt /\ amiss'.repeated = amiss.repeated
      /\ amiss'.missed = amiss.missed
         \/ \E x \in Causes : RecentEvent(x) /\ ~amiss.spoilt /\ Overlooked(x) # {}
  BY DEF Evaluate, AlertTyped
<1>5. ASSUME NEW x \in Causes, RecentEvent(x), ~amiss.spoilt
      PROVE  Overlooked(x) = {}
  <2>1. lastEvent[x].at # Never /\ Tried(x)
    BY <1>3, <1>5 DEF RecentEvent
  <2>2. \A p \in Due(x.kind) : p \in Parties
    BY DEF Due, Parties
  <2>3. \A p \in Due(x.kind) : ~(since[p] < lastEvent[x].from /\ tried[x][p] < lastEvent[x].from)
    BY <2>1, <2>2, AlertNumbers DEF Tried
  <2> QED
    BY <2>1, <2>3 DEF Overlooked
<1>6. ~amiss'.repeated /\ ~amiss'.missed
  BY <1>4, <1>5 DEF AlertInv
<1>7. ASSUME ~amiss'.spoilt
      PROVE  Orderly'
  <2>1. /\ Orderly /\ Sound(check[r]) /\ \A s \in Checks \ {r} : check[s].pc = "idle"
        /\ ~amiss.spoilt
    BY <1>1, <1>4, <1>7, Alone DEF AlertInv
  <2>2. \A x \in Causes : (Noted(x) /\ Tried(x))'
    BY <1>1, <1>3, <2>1, SameDue DEF Noted, Tried
  <2>3. \A x \in Causes : /\ lastEvent'[x].from <= hour'
                         /\ \A p \in Parties : tried'[x][p] <= hour'
    BY <1>1, <2>1 DEF Orderly
  <2>4. \E c \in CheckStates : Resume(r, c) /\ (c.pc # "idle" => Sound(c)')
    <3>1. CASE ToNextSubject(r)
      BY <1>1, <2>1, <3>1, NextSubjectStep
    <3>2. ASSUME NEW x \in Causes, x.kind = Kind(r), ~RecentEvent(x),
                 Resume(r, [check[r] EXCEPT !.pc = "mail", !.level = x.level,
                                            !.todo = IF mailOn THEN Admins ELSE {}])
          PROVE  \E c \in CheckStates : Resume(r, c) /\ (c.pc # "idle" => Sound(c)')
      <4>1. PICK c : c = [check[r] EXCEPT !.pc = "mail", !.level = x.level,
                                          !.todo = IF mailOn THEN Admins ELSE {}]
        OBVIOUS
      <4>2. check'[r] = c /\ Resume(r, c)
        BY <3>2, <4>1 DEF AlertTyped, Resume
      <4>3. /\ c.pc = "mail" /\ c.from = check[r].from /\ c.sent = {}
            /\ c.nr = check[r].nr /\ c.level = x.level
            /\ mailOn => c.todo = Admins
            /\ c.todo \subseteq Parties
        BY <1>1, <1>2, <4>1 DEF CheckStates, Parties
      <4>4. CauseOf(c) = x
        BY <3>2, <4>3 DEF CauseOf, Kind, Causes
      <4>5. \A p \in Parties : Untried(x, p)
        <5>1. Noted(x)
          BY <1>3, <2>1
        <5>2. lastEvent[x].at = Never \/ lastEvent[x].at < hour - Cooldown
          BY <3>2, AlertNumbers, AlertAssumptions DEF RecentEvent
        <5> QED
          BY <5>1, <5>2, AlertNumbers, AlertAssumptions, MomentFacts DEF Noted, Untried
      <4>6. Noted(x)' /\ \A p \in Parties : Untried(x, p)'
        BY <1>1, <2>2, <4>5 DEF Untried
      <4>7. Sound(c)'
        BY <1>1, <2>1, <4>3, <4>4, <4>6 DEF Sound, Parties
      <4>8. c \in CheckStates
        <5>1. x.level \in UNION {Levels[k] : k \in Kinds}
          BY DEF Causes
        <5>2. (IF mailOn THEN Admins ELSE {}) \in SUBSET Admins /\ Admins \subseteq Parties
          BY DEF Parties
        <5> QED
          BY <1>1, <1>2, <4>1, <5>1, <5>2 DEF CheckStates, CheckPcs
      <4> QED
        BY <4>2, <4>7, <4>8
    <3> QED
      BY <3>1, <3>2 DEF Evaluate
  <2> QED
    BY <2>1, <2>2, <2>3, <2>4, AloneInv
<1> QED
  BY <1>1, <1>6, <1>7 DEF AlertInv

(* Trying one to whom delivery was not tried within the cooldown.          *)
LEMMA TriesStep ==
  ASSUME AlertTyped, ~amiss.spoilt, NEW r \in Checks, NEW x \in Causes, x = Cause(r),
         NEW p \in Parties, Untried(x, p), Tries(r, p)
  PROVE  /\ tried' = [tried EXCEPT ![x][p] = hour]
         /\ tried'[x][p] = hour
         /\ \A q \in Parties : q # p => tried'[x][q] = tried[x][q]
         /\ \A y \in Causes : y # x => tried'[y] = tried[y]
         /\ amiss' = amiss
<1>1. /\ tried' = [tried EXCEPT ![x][p] = hour]
      /\ amiss' = [amiss EXCEPT !.repeated =
            @ \/ (tried[x][p] # Never /\ tried[x][p] >= hour - Cooldown)]
  BY DEF Tries
<1>2. ~(tried[x][p] # Never /\ tried[x][p] >= hour - Cooldown)
  BY AlertNumbers, AlertAssumptions DEF Untried
<1>3. amiss' = amiss
  BY <1>1, <1>2 DEF AlertTyped
<1> QED
  BY <1>1, <1>3 DEF AlertTyped

LEMMA MailInv ==
  ASSUME AlertTyped, AlertInv, NEW r \in Checks, Mail(r)
  PROVE  AlertInv'
<1>1. check[r].pc = "mail" /\ UNCHANGED <<hour, mailOn, hook, lastEvent, patch, since>>
  BY DEF Mail
<1>2. PICK p \in check[r].todo, ok \in BOOLEAN :
         /\ Tries(r, p)
         /\ Resume(r, [check[r] EXCEPT !.pc = "mailed", !.todo = @ \ {p},
                                       !.failed = IF ok THEN @ ELSE @ \cup {p}])
  BY DEF Mail
<1>3. check[r] \in CheckStates /\ p \in Admins /\ p \in Parties /\ p \notin Hooks
  BY <1>1, AlertAssumptions DEF AlertTyped, CheckStates, Parties
<1>4. CASE amiss.spoilt
  <2>1. UNCHANGED amiss
    BY <1>2, <1>4 DEF Tries
  <2> QED
    BY <1>1, <1>4, <2>1 DEF AlertInv
<1>5. CASE ~amiss.spoilt
  <2>1. /\ Orderly /\ Sound(check[r]) /\ \A s \in Checks \ {r} : check[s].pc = "idle"
    BY <1>1, <1>5, Alone DEF AlertInv
  <2>2. PICK x \in Causes : x = CauseOf(check[r])
    BY <1>1, <2>1 DEF Sound, Alerting
  <2>3. x = Cause(r)
    BY <2>2 DEF Cause, Kind, CauseOf
  <2>4. Untried(x, p)
    BY <1>1, <2>1, <2>2 DEF Sound
  <2>5. /\ tried'[x][p] = hour
        /\ \A q \in Parties : q # p => tried'[x][q] = tried[x][q]
        /\ \A y \in Causes : y # x => tried'[y] = tried[y]
        /\ amiss' = amiss
    BY <1>2, <1>3, <1>5, <2>3, <2>4, TriesStep
  <2>6. PICK c : c = [check[r] EXCEPT !.pc = "mailed", !.todo = @ \ {p},
                       !.failed = IF ok THEN @ ELSE @ \cup {p}]
    OBVIOUS
  <2>7. /\ c \in CheckStates /\ Resume(r, c) /\ c.pc = "mailed" /\ c.from = check[r].from
        /\ c.todo = check[r].todo \ {p} /\ c.todo \subseteq Parties /\ CauseOf(c) = x
    <3>1. /\ c \in CheckStates /\ c.pc = "mailed" /\ c.from = check[r].from
          /\ c.todo = check[r].todo \ {p} /\ c.nr = check[r].nr /\ c.level = check[r].level
      BY <1>1, <1>3, <2>6 DEF CheckStates, CheckPcs
    <3>2. c.todo \subseteq Parties
      BY <1>3, <3>1 DEF CheckStates
    <3>3. CauseOf(c) = x
      BY <2>2, <3>1 DEF CauseOf
    <3> QED
      BY <1>2, <2>6, <3>1, <3>2, <3>3
  <2>8. Sound(c)'
    <3>1. \A q \in c.todo \cup Hooks : Untried(x, q)'
      <4>1. \A q \in c.todo \cup Hooks : Untried(x, q) /\ q \in Parties /\ q # p
        BY <1>1, <1>3, <2>1, <2>2, <2>7 DEF Sound, Parties
      <4> QED
        BY <1>1, <2>5, <4>1 DEF Untried
    <3>2. mailOn' => \A q \in Admins \ c.todo : tried'[x][q] >= c.from
      <4>1. mailOn => \A q \in Admins \ check[r].todo : tried[x][q] >= check[r].from
        BY <1>1, <2>1, <2>2 DEF Sound
      <4>2. hour >= c.from
        BY <2>1, <2>7, AlertNumbers DEF Sound
      <4> QED
        BY <1>1, <2>5, <2>7, <4>1, <4>2 DEF Parties
    <3> QED
      BY <1>1, <2>1, <2>7, <3>1, <3>2 DEF Sound, Alerting
  <2>9. ASSUME NEW y \in Causes, y # x
        PROVE  (Noted(y) /\ Tried(y))'
    <3>1. Noted(y) /\ Tried(y)
      BY <2>1, <2>2, <2>9 DEF Orderly, Alerting
    <3> QED
      BY <1>1, <2>5, <2>9, <3>1, SameDue DEF Noted, Tried
  <2>10. \A y \in Causes : /\ lastEvent'[y].from <= hour'
                          /\ \A q \in Parties : tried'[y][q] <= hour'
    BY <1>1, <2>1, <2>5, AlertNumbers DEF Orderly
  <2>11. Orderly'
    <3>1. \A y \in Causes : (Alerting(c) => CauseOf(c) # y) => (Noted(y) /\ Tried(y))'
      BY <2>7, <2>9 DEF Alerting
    <3> QED
      BY <2>1, <2>7, <2>8, <2>10, <3>1, AloneInv
  <2> QED
    BY <1>1, <2>5, <2>11 DEF AlertInv
<1> QED
  BY <1>4, <1>5

(* Recording an event of a run's cause, from which on all have been tried. *)
LEMMA RecordsStep ==
  ASSUME AlertTyped, NEW r \in Checks, NEW x \in Causes, x = Cause(r), NEW ok, Records(r, ok)
  PROVE  /\ lastEvent'[x].at = hour /\ lastEvent'[x].from = check[r].from
         /\ \A y \in Causes : y # x => lastEvent'[y] = lastEvent[y]
BY DEF AlertTyped, Records

LEMMA RecordMailInv ==
  ASSUME AlertTyped, AlertInv, NEW r \in Checks, RecordMail(r)
  PROVE  AlertInv'
<1>1. /\ check[r].pc = "mailed" /\ Records(r, check[r].failed = {})
      /\ Resume(r, [check[r] EXCEPT !.pc = "mail", !.failed = {}])
      /\ UNCHANGED <<hour, mailOn, hook, patch, tried, since, amiss>>
  BY DEF RecordMail
<1>2. check[r] \in CheckStates
  BY DEF AlertTyped
<1>3. ASSUME ~amiss.spoilt
      PROVE  Orderly'
  <2>1. /\ Orderly /\ Sound(check[r]) /\ \A s \in Checks \ {r} : check[s].pc = "idle"
    BY <1>1, <1>3, Alone DEF AlertInv
  <2>2. PICK x \in Causes : x = CauseOf(check[r])
    BY <1>1, <2>1 DEF Sound, Alerting
  <2>3. x = Cause(r)
    BY <2>2 DEF Cause, Kind, CauseOf
  <2>4. /\ lastEvent'[x].at = hour /\ lastEvent'[x].from = check[r].from
        /\ \A y \in Causes : y # x => lastEvent'[y] = lastEvent[y]
    BY <1>1, <2>3, RecordsStep
  <2>5. PICK c : c = [check[r] EXCEPT !.pc = "mail", !.failed = {}]
    OBVIOUS
  <2>6. /\ c.pc = "mail" /\ c.from = check[r].from /\ c.todo = check[r].todo
        /\ c.nr = check[r].nr /\ c.level = check[r].level /\ c \in CheckStates
    BY <1>1, <1>2, <2>5 DEF CheckStates, CheckPcs
  <2>7. CauseOf(c) = x /\ Resume(r, c)
    BY <1>1, <2>2, <2>5, <2>6 DEF CauseOf
  <2>8. \A y \in Causes : /\ lastEvent'[y].from <= c.from /\ lastEvent'[y].from <= hour'
                          /\ \A q \in Parties : tried'[y][q] <= hour'
    BY <1>1, <2>1, <2>4, <2>6, AlertNumbers DEF Sound, Orderly
  <2>9. Noted(x)'
    BY <1>1, <2>1, <2>4 DEF Noted, Orderly
  <2>10. Sound(c)'
    <3>1. \A q \in c.todo \cup Hooks : Untried(x, q)'
      BY <1>1, <2>1, <2>2, <2>6 DEF Sound, Untried
    <3>2. mailOn' => \A q \in Admins \ c.todo : tried'[x][q] >= c.from
      BY <1>1, <2>1, <2>2, <2>6 DEF Sound
    <3> QED
      BY <1>1, <2>1, <2>6, <2>7, <2>8, <2>9, <3>1, <3>2 DEF Sound, Alerting
  <2>11. ASSUME NEW y \in Causes, y # x
        PROVE  (Noted(y) /\ Tried(y))'
    <3>1. Noted(y) /\ Tried(y)
      BY <2>1, <2>2, <2>11 DEF Orderly, Alerting
    <3> QED
      BY <1>1, <2>4, <2>11, <3>1, SameDue DEF Noted, Tried
  <2>12. \A y \in Causes : (Alerting(c) => CauseOf(c) # y) => (Noted(y) /\ Tried(y))'
    BY <2>6, <2>7, <2>11 DEF Alerting
  <2> QED
    BY <2>1, <2>6, <2>7, <2>8, <2>10, <2>12, AloneInv
<1> QED
  BY <1>1, <1>3 DEF AlertInv

LEMMA ListHooksInv ==
  ASSUME AlertTyped, AlertInv, NEW r \in Checks, ListHooks(r)
  PROVE  AlertInv'
<1> DEFINE listening == {h \in Hooks : Listens(h, Kind(r))}
<1>1. /\ check[r].pc = "mail" /\ check[r].todo = {}
      /\ Resume(r, [check[r] EXCEPT !.pc = "post", !.todo = listening])
      /\ UNCHANGED <<hour, mailOn, hook, lastEvent, patch, tried, since, amiss>>
  BY DEF ListHooks
<1>2. check[r] \in CheckStates
  BY DEF AlertTyped
<1>3. ASSUME ~amiss.spoilt
      PROVE  Orderly'
  <2>1. /\ Orderly /\ Sound(check[r]) /\ \A s \in Checks \ {r} : check[s].pc = "idle"
    BY <1>1, <1>3, Alone DEF AlertInv
  <2>2. PICK x \in Causes : x = CauseOf(check[r])
    BY <1>1, <2>1 DEF Sound, Alerting
  <2>3. PICK c : c = [check[r] EXCEPT !.pc = "post", !.todo = listening]
    OBVIOUS
  <2>4. /\ c.pc = "post" /\ c.from = check[r].from /\ c.todo = listening
        /\ c.nr = check[r].nr /\ c.level = check[r].level /\ c.sent = {}
    BY <1>1, <1>2, <2>3 DEF CheckStates, CheckPcs
  <2>5. CauseOf(c) = x /\ Resume(r, c) /\ x.kind = Kind(r)
    BY <1>1, <2>2, <2>3, <2>4 DEF CauseOf, Kind
  <2>6. listening \in SUBSET Hooks /\ listening \in SUBSET Parties
    BY DEF Parties
  <2>7. \A h \in Hooks \ listening : ~Listens(h, x.kind)
    BY <2>5
  <2> HIDE DEF listening
  <2>8. c \in CheckStates
    BY <1>2, <2>3, <2>6 DEF CheckStates, CheckPcs
  <2>9. \A y \in Causes : /\ lastEvent'[y].from <= c.from /\ lastEvent'[y].from <= hour'
                          /\ \A q \in Parties : tried'[y][q] <= hour'
    BY <1>1, <2>1, <2>4 DEF Sound, Orderly
  <2>10. Sound(c)'
    <3>1. \A q \in c.todo : Untried(x, q)'
      BY <1>1, <2>1, <2>2, <2>4, <2>6 DEF Sound, Untried
    <3>2. mailOn' => \A q \in Admins : tried'[x][q] >= c.from
      BY <1>1, <2>1, <2>2, <2>4 DEF Sound
    <3>3. \A h \in Hooks \ c.todo : ~Listens(h, x.kind)'
      BY <1>1, <2>4, <2>7, SameDue
    <3>4. Noted(x)'
      BY <1>1, <2>1, <2>2 DEF Sound, Noted
    <3> QED
      BY <1>1, <2>1, <2>4, <2>5, <2>9, <3>1, <3>2, <3>3, <3>4 DEF Sound, Alerting
  <2>11. ASSUME NEW y \in Causes, y # x
        PROVE  (Noted(y) /\ Tried(y))'
    <3>1. Noted(y) /\ Tried(y)
      BY <2>1, <2>2, <2>11 DEF Orderly, Alerting
    <3> QED
      BY <1>1, <3>1, SameDue DEF Noted, Tried
  <2>12. \A y \in Causes : (Alerting(c) => CauseOf(c) # y) => (Noted(y) /\ Tried(y))'
    BY <2>4, <2>5, <2>11 DEF Alerting
  <2> QED
    BY <2>1, <2>5, <2>8, <2>9, <2>10, <2>12, AloneInv
<1> QED
  BY <1>1, <1>3 DEF AlertInv

LEMMA PostInv ==
  ASSUME AlertTyped, AlertInv, NEW r \in Checks, Post(r)
  PROVE  AlertInv'
<1>1. check[r].pc = "post" /\ UNCHANGED <<hour, mailOn, hook, lastEvent, patch, since>>
  BY DEF Post
<1>2. PICK p \in check[r].todo, ok \in BOOLEAN :
         /\ Tries(r, p)
         /\ Resume(r, [check[r] EXCEPT !.todo = @ \ {p}, !.sent = @ \cup {p},
                                       !.failed = IF ok THEN @ ELSE @ \cup {p}])
  BY DEF Post
<1>3. check[r] \in CheckStates /\ p \in Hooks /\ p \in Parties /\ p \notin Admins
  BY <1>1, AlertAssumptions DEF AlertTyped, CheckStates, Parties
<1>4. CASE amiss.spoilt
  <2>1. UNCHANGED amiss
    BY <1>2, <1>4 DEF Tries
  <2> QED
    BY <1>4, <2>1 DEF AlertInv
<1>5. CASE ~amiss.spoilt
  <2>1. /\ Orderly /\ Sound(check[r]) /\ \A s \in Checks \ {r} : check[s].pc = "idle"
    BY <1>1, <1>5, Alone DEF AlertInv
  <2>2. PICK x \in Causes : x = CauseOf(check[r])
    BY <1>1, <2>1 DEF Sound, Alerting
  <2>3. x = Cause(r)
    BY <2>2 DEF Cause, Kind, CauseOf
  <2>4. Untried(x, p)
    BY <1>1, <2>1, <2>2 DEF Sound
  <2>5. /\ tried'[x][p] = hour
        /\ \A q \in Parties : q # p => tried'[x][q] = tried[x][q]
        /\ \A y \in Causes : y # x => tried'[y] = tried[y]
        /\ amiss' = amiss
    BY <1>2, <1>3, <1>5, <2>3, <2>4, TriesStep
  <2>6. PICK c : c = [check[r] EXCEPT !.todo = @ \ {p}, !.sent = @ \cup {p},
                                        !.failed = IF ok THEN @ ELSE @ \cup {p}]
    OBVIOUS
  <2>7. /\ c.pc = "post" /\ c.from = check[r].from /\ c.sent # {}
        /\ c.todo = check[r].todo \ {p} /\ c.nr = check[r].nr /\ c.level = check[r].level
        /\ c \in CheckStates
    BY <1>1, <1>3, <2>6 DEF CheckStates, CheckPcs
  <2>8. c.todo \subseteq Parties /\ CauseOf(c) = x /\ Resume(r, c)
    <3>1. c.todo \subseteq Parties
      BY <1>3, <2>7 DEF CheckStates
    <3>2. CauseOf(c) = x
      BY <2>2, <2>7 DEF CauseOf
    <3> QED
      BY <1>2, <2>6, <3>1, <3>2
  <2>9. Sound(c)'
    <3>1. \A q \in c.todo : Untried(x, q)'
      <4>1. \A q \in c.todo : Untried(x, q) /\ q \in Parties /\ q # p
        BY <1>1, <2>1, <2>2, <2>7, <2>8 DEF Sound
      <4> QED
        BY <1>1, <2>5, <4>1 DEF Untried
    <3>2. mailOn' => \A q \in Admins : tried'[x][q] >= c.from
      <4>1. mailOn => \A q \in Admins : tried[x][q] >= check[r].from
        BY <1>1, <2>1, <2>2 DEF Sound
      <4> QED
        BY <1>1, <1>3, <2>5, <2>7, <4>1 DEF Parties
    <3>3. ASSUME NEW h \in Hooks \ c.todo, Listens(h, x.kind)'
          PROVE  tried'[x][h] >= c.from \/ since'[h] >= c.from
      <4>1. Listens(h, x.kind) /\ h \in Parties
        BY <1>1, <3>3, SameDue DEF Parties
      <4>2. CASE h = p
        <5>1. hour >= c.from
          BY <2>1, <2>7, AlertNumbers DEF Sound
        <5> QED
          BY <2>5, <4>2, <5>1
      <4>3. CASE h # p
        <5>1. tried[x][h] >= check[r].from \/ since[h] >= check[r].from
          BY <1>1, <2>1, <2>2, <2>7, <3>3, <4>1, <4>3 DEF Sound
        <5> QED
          BY <1>1, <2>5, <2>7, <4>1, <4>3, <5>1
      <4> QED
        BY <4>2, <4>3
    <3>4. c.from <= hour' /\ \A y \in Causes : lastEvent'[y].from <= c.from
      BY <1>1, <2>1, <2>7 DEF Sound
    <3> QED
      BY <2>7, <2>8, <3>1, <3>2, <3>3, <3>4 DEF Sound, Alerting
  <2>10. ASSUME NEW y \in Causes, y # x
        PROVE  (Noted(y) /\ Tried(y))'
    <3>1. Noted(y) /\ Tried(y)
      BY <2>1, <2>2, <2>10 DEF Orderly, Alerting
    <3> QED
      BY <1>1, <2>5, <2>10, <3>1, SameDue DEF Noted, Tried
  <2>11. \A y \in Causes : /\ lastEvent'[y].from <= hour'
                          /\ \A q \in Parties : tried'[y][q] <= hour'
    BY <1>1, <2>1, <2>5, AlertNumbers DEF Orderly
  <2>12. Orderly'
    <3>1. \A y \in Causes : (Alerting(c) => CauseOf(c) # y) => (Noted(y) /\ Tried(y))'
      BY <2>7, <2>8, <2>10 DEF Alerting
    <3> QED
      BY <2>1, <2>7, <2>8, <2>9, <2>11, <3>1, AloneInv
  <2> QED
    BY <2>5, <2>12 DEF AlertInv
<1> QED
  BY <1>4, <1>5

LEMMA RecordPostsInv ==
  ASSUME AlertTyped, AlertInv, NEW r \in Checks, RecordPosts(r)
  PROVE  AlertInv'
<1>1. /\ check[r].pc = "post" /\ check[r].todo = {}
      /\ UNCHANGED <<hour, mailOn, hook, patch, tried, since, amiss>>
  BY DEF RecordPosts
<1>2. check[r] \in CheckStates
  BY DEF AlertTyped
<1>3. ASSUME ~amiss.spoilt
      PROVE  Orderly'
  <2>1. /\ Orderly /\ Sound(check[r]) /\ \A s \in Checks \ {r} : check[s].pc = "idle"
    BY <1>1, <1>3, Alone DEF AlertInv
  <2>2. PICK x \in Causes : x = CauseOf(check[r])
    BY <1>1, <2>1 DEF Sound, Alerting
  <2>3. x = Cause(r)
    BY <2>2 DEF Cause, Kind, CauseOf
  <2>4. ASSUME NEW y \in Causes, y # x
        PROVE  Noted(y) /\ Tried(y)
    BY <2>1, <2>2, <2>4 DEF Orderly, Alerting
  <2>5. CASE check[r].sent = {}
    <3>1. ToNextSubject(r) /\ UNCHANGED lastEvent
      BY <2>5 DEF RecordPosts
    <3>2. PICK c \in CheckStates : Resume(r, c) /\ ~Alerting(c) /\ (c.pc # "idle" => Sound(c)')
      BY <1>1, <2>1, <3>1, NextSubjectStep
    <3>3. Noted(x)
      BY <1>1, <2>1, <2>2, <2>5 DEF Sound
    <3>4. Tried(x)
      <4> SUFFICES ASSUME NEW p \in Due(x.kind)
                   PROVE  since[p] >= lastEvent[x].from \/ tried[x][p] >= lastEvent[x].from
        BY DEF Tried
      <4>1. \/ mailOn /\ p \in Admins
            \/ p \in Hooks /\ Listens(p, x.kind)
        BY DEF Due
      <4>2. tried[x][p] >= check[r].from \/ since[p] >= check[r].from
        BY <1>1, <2>1, <2>2, <4>1 DEF Sound
      <4>3. lastEvent[x].from <= check[r].from /\ p \in Parties
        BY <2>1, <4>1 DEF Sound, Parties
      <4> QED
        BY <4>2, <4>3, AlertNumbers
    <3>5. \A y \in Causes : (Noted(y) /\ Tried(y))'
      BY <1>1, <2>4, <3>1, <3>3, <3>4, SameDue DEF Noted, Tried
    <3>6. \A y \in Causes : /\ lastEvent'[y].from <= hour'
                            /\ \A q \in Parties : tried'[y][q] <= hour'
      BY <1>1, <2>1, <3>1 DEF Orderly
    <3> QED
      BY <2>1, <3>2, <3>5, <3>6, AloneInv
  <2>6. CASE check[r].sent # {}
    <3>2. PICK h \in check[r].sent :
            /\ Records(r, h \notin check[r].failed)
            /\ Resume(r, [check[r] EXCEPT !.sent = @ \ {h}, !.failed = @ \ {h}])
      BY <2>6 DEF RecordPosts
    <3>3. PICK c : c = [check[r] EXCEPT !.sent = @ \ {h}, !.failed = @ \ {h}]
      OBVIOUS
    <3>4. /\ c.pc = "post" /\ c.from = check[r].from /\ c.todo = {}
          /\ c.nr = check[r].nr /\ c.level = check[r].level /\ c \in CheckStates
      BY <1>1, <1>2, <3>3 DEF CheckStates, CheckPcs
    <3>5. CauseOf(c) = x /\ Resume(r, c)
      BY <2>2, <3>2, <3>3, <3>4 DEF CauseOf
    <3>6. /\ lastEvent'[x].at = hour /\ lastEvent'[x].from = check[r].from
          /\ \A y \in Causes : y # x => lastEvent'[y] = lastEvent[y]
      BY <2>3, <3>2, RecordsStep
    <3>7. \A y \in Causes : /\ lastEvent'[y].from <= c.from /\ lastEvent'[y].from <= hour'
                            /\ \A q \in Parties : tried'[y][q] <= hour'
      BY <1>1, <2>1, <3>4, <3>6, AlertNumbers DEF Sound, Orderly
    <3>8. Noted(x)'
      BY <1>1, <2>1, <3>6 DEF Noted, Orderly
    <3>9. Sound(c)'
      <4>1. mailOn' => \A q \in Admins : tried'[x][q] >= c.from
        BY <1>1, <2>1, <2>2, <3>4 DEF Sound
      <4>2. \A k \in Hooks : Listens(k, x.kind)' => tried'[x][k] >= c.from \/ since'[k] >= c.from
        BY <1>1, <2>1, <2>2, <3>4, SameDue DEF Sound
      <4>3. c.from <= hour'
        BY <1>1, <2>1, <3>4 DEF Sound
      <4> QED
        BY <3>4, <3>5, <3>7, <3>8, <4>1, <4>2, <4>3 DEF Sound, Alerting
    <3>10. ASSUME NEW y \in Causes, y # x
          PROVE  (Noted(y) /\ Tried(y))'
      BY <1>1, <2>4, <3>6, <3>10, SameDue DEF Noted, Tried
    <3>11. \A y \in Causes : (Alerting(c) => CauseOf(c) # y) => (Noted(y) /\ Tried(y))'
      BY <3>4, <3>5, <3>10 DEF Alerting
    <3> QED
      BY <2>1, <3>4, <3>5, <3>7, <3>9, <3>11, AloneInv
  <2> QED
    BY <2>5, <2>6
<1> QED
  BY <1>1, <1>3 DEF AlertInv

LEMMA CheckBreaksInv ==
  ASSUME AlertTyped, AlertInv, NEW r \in Checks, CheckBreaks(r)
  PROVE  AlertInv'
<1>1. Spoils(TRUE)
  BY DEF CheckBreaks
<1>2. amiss'.spoilt /\ amiss'.repeated = amiss.repeated /\ amiss'.missed = amiss.missed
  BY <1>1, SpoilsTyped
<1> QED
  BY <1>2 DEF AlertInv

(* The dashboard alters one webhook: what it is to be sent changes now.    *)
LEMMA AlteredInv ==
  ASSUME AlertTyped, AlertInv, UNCHANGED <<hour, mailOn, lastEvent, check, tried, amiss>>,
         NEW h, Altered(h), \A k \in Hooks : k # h => hook'[k] = hook[k]
  PROVE  AlertInv'
<1>1. ASSUME ~amiss.spoilt
      PROVE  Orderly'
  <2>1. Orderly
    BY <1>1 DEF AlertInv
  <2>2. \A p \in Parties : IF p = h THEN since'[p] = hour ELSE since'[p] = since[p]
    BY <1>1 DEF AlertTyped, Altered
  <2>3. \A k \in Hooks, e \in Kinds : k # h => Listens(k, e)' = Listens(k, e)
    BY DEF Listens
  <2>4. ASSUME NEW x \in Causes, Tried(x)
        PROVE  Tried(x)'
    <3> SUFFICES ASSUME NEW p \in Due(x.kind)'
                 PROVE  since'[p] >= lastEvent[x].from \/ tried[x][p] >= lastEvent[x].from
      BY DEF Tried
    <3>1. p \in Parties /\ x.kind \in Kinds
      BY DEF Due, Parties, Causes
    <3>2. CASE p = h
      <4>1. hour >= lastEvent[x].from
        BY <2>1, AlertNumbers DEF Orderly
      <4> QED
        BY <2>2, <3>1, <3>2, <4>1
    <3>3. CASE p # h
      <4>1. p \in Due(x.kind)
        BY <2>3, <3>1, <3>3 DEF Due
      <4> QED
        BY <2>2, <2>4, <3>1, <3>3, <4>1 DEF Tried
    <3> QED
      BY <3>2, <3>3
  <2>5. \A x \in Causes : Noted(x)' = Noted(x)
    BY DEF Noted
  <2>6. ASSUME NEW r \in Checks, check[r].pc # "idle"
        PROVE  Sound(check[r])'
    <3>1. Sound(check[r])
      BY <2>1, <2>6 DEF Orderly
    <3>2. PICK c : c = check[r]
      OBVIOUS
    <3>3. Alerting(c) => CauseOf(c) \in Causes
      BY <3>1, <3>2 DEF Sound
    <3>4. c.pc = "post" => \A k \in Hooks \ c.todo :
             Listens(k, CauseOf(c).kind)' => tried[CauseOf(c)][k] >= c.from \/ since'[k] >= c.from
      <4> SUFFICES ASSUME c.pc = "post", NEW k \in Hooks \ c.todo,
                          Listens(k, CauseOf(c).kind)'
                   PROVE  tried[CauseOf(c)][k] >= c.from \/ since'[k] >= c.from
        OBVIOUS
      <4>1. CASE k = h
        BY <2>2, <3>1, <3>2, <4>1, AlertNumbers DEF Sound, Parties
      <4>2. CASE k # h
        <5>1. CauseOf(c).kind \in Kinds
          BY <3>3 DEF Alerting, Causes
        <5>2. Listens(k, CauseOf(c).kind)
          BY <2>3, <4>2, <5>1
        <5>3. tried[CauseOf(c)][k] >= c.from \/ since[k] >= c.from
          BY <3>1, <3>2, <5>2 DEF Sound
        <5> QED
          BY <2>2, <4>2, <5>3 DEF Parties
      <4> QED
        BY <4>1, <4>2
    <3>5. Alerting(c) => Noted(CauseOf(c))' = Noted(CauseOf(c))
      BY <2>5, <3>3
    <3>6. \A x, p : Untried(x, p)' = Untried(x, p)
      BY DEF Untried
    <3>7. Sound(c)'
      BY <3>1, <3>2, <3>3, <3>4, <3>5, <3>6 DEF Sound, Alerting
    <3> QED
      BY <3>2, <3>7 DEF Sound, Alerting, CauseOf, Noted, Untried
  <2>7. ASSUME NEW x \in Causes,
               \A r \in Checks : (Alerting(check[r]) => CauseOf(check[r]) # x)'
        PROVE  (Noted(x) /\ Tried(x))'
    <3>1. \A r \in Checks : Alerting(check[r]) => CauseOf(check[r]) # x
      BY <2>7 DEF Alerting, CauseOf
    <3>2. Noted(x) /\ Tried(x)
      BY <2>1, <3>1 DEF Orderly
    <3> QED
      BY <2>4, <2>5, <3>2
  <2> QED
    BY <2>1, <2>6, <2>7 DEF Orderly
<1> QED
  BY <1>1 DEF AlertInv

LEMMA DashboardInv ==
  ASSUME AlertTyped, AlertInv, NEW h \in Hooks,
         \/ \E events \in SUBSET EventNames : CreateHook(h, events)
         \/ ReadHook(h) \/ DeleteHook(h)
  PROVE  AlertInv'
<1>1. ASSUME NEW events \in SUBSET EventNames, CreateHook(h, events)
      PROVE  AlertInv'
  <2>1. /\ UNCHANGED <<hour, mailOn, lastEvent, check, tried, amiss>> /\ Altered(h)
        /\ \A k \in Hooks : k # h => hook'[k] = hook[k]
    BY <1>1 DEF CreateHook, AlertTyped
  <2> QED
    BY <2>1, AlteredInv
<1>2. CASE DeleteHook(h)
  <2>1. /\ UNCHANGED <<hour, mailOn, lastEvent, check, tried, amiss>> /\ Altered(h)
        /\ \A k \in Hooks : k # h => hook'[k] = hook[k]
    BY <1>2 DEF DeleteHook, AlertTyped
  <2> QED
    BY <2>1, AlteredInv
<1>3. CASE ReadHook(h)
  <2>1. UNCHANGED <<hour, mailOn, hook, lastEvent, check, tried, since, amiss>>
    BY <1>3 DEF ReadHook
  <2> QED
    BY <2>1 DEF AlertInv, Orderly, Sound, Noted, Tried, Untried, Due, Listens, Alerting, CauseOf
<1> QED
  BY <1>1, <1>2, <1>3

LEMMA WriteHookInv ==
  ASSUME AlertTyped, AlertInv, WriteHook
  PROVE  AlertInv'
<1>1. PICK h : h = patch.hook
  OBVIOUS
<1>2. /\ UNCHANGED <<hour, mailOn, lastEvent, check, tried, amiss>> /\ Altered(h)
  BY <1>1 DEF WriteHook
<1>3. \A k \in Hooks : k # h => hook'[k] = hook[k]
  BY <1>1 DEF WriteHook, AlertTyped
<1> QED
  BY <1>2, <1>3, AlteredInv

(* As time passes, whom nothing was tried to lately stays such a one.      *)
LEMMA HourPassesInv ==
  ASSUME AlertTyped, AlertInv, HourPasses
  PROVE  AlertInv'
<1>1. hour' = hour + 1 /\ UNCHANGED <<mailOn, hook, lastEvent, check, patch, tried, since, amiss>>
  BY DEF HourPasses
<1>2. ASSUME ~amiss.spoilt
      PROVE  Orderly'
  <2>1. Orderly
    BY <1>2 DEF AlertInv
  <2>2. /\ \A x \in Causes : lastEvent'[x].from <= hour'
        /\ \A x \in Causes : \A p \in Parties : tried'[x][p] <= hour'
    BY <1>1, <2>1, AlertNumbers DEF Orderly
  <2>3. \A x \in Causes : (Noted(x) /\ Tried(x))' = (Noted(x) /\ Tried(x))
    BY <1>1, SameDue DEF Noted, Tried
  <2>4. ASSUME NEW x \in Causes, NEW p \in Parties, Untried(x, p)
        PROVE  Untried(x, p)'
    BY <1>1, <2>4, AlertNumbers, AlertAssumptions DEF Untried
  <2>5. ASSUME NEW r \in Checks, check[r].pc # "idle"
        PROVE  Sound(check[r])'
    <3>1. Sound(check[r])
      BY <2>1, <2>5 DEF Orderly
    <3>2. PICK c \in CheckStates : c = check[r]
      BY DEF AlertTyped
    <3>3. Sound(c)
      BY <3>1, <3>2
    <3>4. PICK x : x = CauseOf(c)
      OBVIOUS
    <3>5. c.from <= hour'
      BY <1>1, <3>2, <3>3, AlertNumbers DEF Sound
    <3>6. Alerting(c) => x \in Causes
      BY <3>3, <3>4 DEF Sound
    <3>7. \A y \in Causes : Noted(y)' = Noted(y)
      BY <1>1 DEF Noted
    <3>8. c.pc \in {"mail", "mailed"} => \A p \in c.todo \cup Hooks : Untried(x, p)'
      <4>1. c.pc \in {"mail", "mailed"} => \A p \in c.todo \cup Hooks : Untried(x, p) /\ p \in Parties
        BY <3>3, <3>4 DEF Sound, CheckStates, Parties
      <4> QED
        BY <2>4, <3>6, <4>1 DEF Alerting
    <3>9. c.pc = "post" => \A p \in c.todo : Untried(x, p)'
      <4>1. c.pc = "post" => \A p \in c.todo : Untried(x, p) /\ p \in Parties
        BY <3>3, <3>4 DEF Sound, CheckStates, Parties
      <4> QED
        BY <2>4, <3>6, <4>1 DEF Alerting
    <3>10. Sound(c)'
      BY <1>1, <3>3, <3>4, <3>5, <3>6, <3>7, <3>8, <3>9, SameDue DEF Sound, Alerting
    <3> QED
      BY <1>1, <3>2, <3>10 DEF Sound, Alerting, CauseOf, Noted, Untried
  <2>6. ASSUME NEW x \in Causes,
               \A r \in Checks : (Alerting(check[r]) => CauseOf(check[r]) # x)'
        PROVE  (Noted(x) /\ Tried(x))'
    <3>1. \A r \in Checks : Alerting(check[r]) => CauseOf(check[r]) # x
      BY <1>1, <2>6 DEF Alerting, CauseOf
    <3>2. Noted(x) /\ Tried(x)
      BY <2>1, <3>1 DEF Orderly
    <3> QED
      BY <2>3, <3>2
  <2> QED
    BY <1>1, <2>1, <2>2, <2>5, <2>6 DEF Orderly
<1> QED
  BY <1>1, <1>2 DEF AlertInv

LEMMA NextAlertInv ==
  ASSUME AlertTyped, AlertInv, [AlertNext]_alertVars
  PROVE  AlertInv'
<1>1. CASE UNCHANGED alertVars
  BY <1>1 DEF AlertInv, Orderly, Sound, Noted, Tried, Untried, Due, Listens, Alerting, CauseOf, alertVars
<1>2. ASSUME NEW r \in Checks,
             \/ StartCheck(r) \/ Evaluate(r) \/ Mail(r) \/ RecordMail(r)
             \/ ListHooks(r) \/ Post(r) \/ RecordPosts(r) \/ CheckBreaks(r)
      PROVE  AlertInv'
  BY <1>2, StartCheckInv, EvaluateInv, MailInv, RecordMailInv, ListHooksInv,
     PostInv, RecordPostsInv, CheckBreaksInv
<1>3. ASSUME NEW h \in Hooks,
             \/ \E events \in SUBSET EventNames : CreateHook(h, events)
             \/ ReadHook(h) \/ DeleteHook(h)
      PROVE  AlertInv'
  BY <1>3, DashboardInv
<1> QED
  BY <1>1, <1>2, <1>3, WriteHookInv, HourPassesInv DEF AlertNext

LEMMA AlertInvariant == AlertSpec => [](AlertTyped /\ AlertInv)
<1>1. AlertInit => AlertTyped /\ AlertInv
  BY InitAlertTyped, InitAlertInv
<1>2. AlertTyped /\ AlertInv /\ [AlertNext]_alertVars => (AlertTyped /\ AlertInv)'
  BY NextAlertTyped, NextAlertInv
<1> QED
  BY <1>1, <1>2, PTL DEF AlertSpec

(* Whatever the webhooks are changed to while a check is under way, and    *)
(* for any kinds, levels and administrators, no delivery to one of the same *)
(* kind and level is tried twice within the cooldown, as long as checks    *)
(* neither break off nor overlap (alerts/evaluator.ts:59-84, 147-181).     *)
THEOREM TriedOnce == AlertSpec => []NoneTriedTwice
<1>1. AlertInv => NoneTriedTwice
  BY DEF AlertInv, NoneTriedTwice
<1> QED
  BY <1>1, AlertInvariant, PTL

(* An alert is held back only from those to whom its delivery was tried,   *)
(* whether it was sent or failed (alerts/evaluator.ts:59-84, 147-181).     *)
THEOREM HeldBackOnlyFromTried == AlertSpec => []HeldBackIfTried
<1>1. AlertInv => HeldBackIfTried
  BY DEF AlertInv, HeldBackIfTried
<1> QED
  BY <1>1, AlertInvariant, PTL
=============================================================================
