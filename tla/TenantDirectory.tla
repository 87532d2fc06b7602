---------------------------- MODULE TenantDirectory ----------------------------
(***************************************************************************)
(* The tenants of a deployment and the addresses they answer at.  The      *)
(* first request of an isolate seeds an empty database with an             *)
(* administrator and an organization (bootstrap/index.ts, admin.ts); every *)
(* sign-up makes an organization (tenants/onboarding.ts).  The first       *)
(* organization to ask is given the root path, the others a random prefix  *)
(* (tenants/prefixes.ts); each may choose a prefix of its own              *)
(* (api/tenant.ts).  The administrator's initial password must be changed  *)
(* (api/bootstrap.ts).                                                     *)
(*                                                                         *)
(* Calls interleave at every await and fail at any.  An organization is    *)
(* named for the call that makes it.                                       *)
(***************************************************************************)
EXTENDS Integers, FiniteSets

CONSTANTS
  DirCalls,        \* requests
  DirIsolates,     \* isolates of the Worker
  SystemPrefixes,  \* what generateSystemPrefix may return
  CustomInputs,    \* customPrefix of PUT /api/tenant/prefix
  MaxTries         \* candidates tried (20 in the code)

Nobody == "none"  \* no organization, no prefix, no password

ASSUME DirAssumption ==
  MaxTries \in Nat \ {0} /\ Nobody \notin SystemPrefixes \cup DirCalls

VARIABLES
  seeded,    \* settings: [root, admin, must], the administrator's password, and the
             \* history whether a rotation has written it
  orgs,      \* orgs[c]: the row of organizations that call c made
  booted,    \* booted[i]: bootstrapCache of isolate i: "none", "pending", "done"
  visit,     \* visit[c]: where call c stands
  mishaps    \* history: what interfered with the seeding

dirVars == <<seeded, orgs, booted, visit, mishaps>>

NoOrg == [there |-> FALSE, root |-> FALSE, sys |-> Nobody, custom |-> Nobody]
NotSeeded == [root |-> Nobody, admin |-> Nobody, must |-> FALSE, password |-> Nobody,
              rotated |-> FALSE]
NoVisit == [pc |-> "new", isolate |-> Nobody, goal |-> Nobody, org |-> Nobody, value |-> Nobody, tries |-> 0]

DirInit ==
  /\ seeded = NotSeeded
  /\ orgs = [c \in DirCalls |-> NoOrg]
  /\ booted = [i \in DirIsolates |-> "none"]
  /\ visit = [c \in DirCalls |-> NoVisit]
  /\ mishaps = [failed |-> FALSE, overtaken |-> FALSE]

Ended == {"done", "failed", "refused"}
Seeding == {"find-user", "seed", "claim", "insert-root", "flag-root", "prefix", "set-prefix",
            "settings", "admin", "must", "audit"}
At(c, pc) == visit[c].pc = pc
Steps(c, pc) == visit' = [visit EXCEPT ![c].pc = pc]
Boots(c) == visit[c].goal = "boot"
UsersThere == seeded.password # Nobody

-----------------------------------------------------------------------------
(* ensureBootstrapped, before every request to /api/auth or /api/bootstrap *)

(* A request that comes in to sign somebody up, or to change the password. *)
Arrive(c, i, goal) ==
  /\ At(c, "new")
  /\ CASE booted[i] = "none" ->
            /\ booted' = [booted EXCEPT ![i] = "pending"]
            /\ visit' = [visit EXCEPT ![c] = [NoVisit EXCEPT !.pc = "find-user", !.isolate = i,
                                                             !.goal = "boot"]]
       [] booted[i] = "pending" ->
            /\ visit' = [visit EXCEPT ![c] = [NoVisit EXCEPT !.pc = "waiting", !.isolate = i,
                                                             !.goal = goal]]
            /\ UNCHANGED booted
       [] booted[i] = "done" ->
            /\ visit' = [visit EXCEPT ![c] = [NoVisit EXCEPT !.pc = goal, !.isolate = i,
                                                             !.goal = goal]]
            /\ UNCHANGED booted
  /\ UNCHANGED <<seeded, orgs, mishaps>>

Waited(c) ==
  /\ At(c, "waiting") /\ booted[visit[c].isolate] = "done"
  /\ Steps(c, visit[c].goal)
  /\ UNCHANGED <<seeded, orgs, booted, mishaps>>

(* A failed promise is dropped, and fails those who wait for it. *)
Fails(c) ==
  LET x == visit[c] IN
  IF Boots(c)
    THEN /\ booted' = [booted EXCEPT ![x.isolate] = "none"]
         /\ visit' = [d \in DirCalls |->
              IF d = c \/ (At(d, "waiting") /\ visit[d].isolate = x.isolate)
                THEN [visit[d] EXCEPT !.pc = "failed"] ELSE visit[d]]
    ELSE Steps(c, "failed") /\ UNCHANGED booted

Booted(c) ==
  /\ booted' = [booted EXCEPT ![visit[c].isolate] = "done"]
  /\ Steps(c, "done")

(* ensureInitialAdmin: nothing to do once there is a user. *)
FindUser(c) ==
  /\ At(c, "find-user")
  /\ IF UsersThere THEN Booted(c) ELSE Steps(c, "seed") /\ UNCHANGED booted
  /\ UNCHANGED <<seeded, orgs, mishaps>>

(* The batch fails when the email is taken by now. *)
SeedAdmin(c) ==
  /\ At(c, "seed")
  /\ IF UsersThere
       THEN Fails(c) /\ UNCHANGED <<seeded, orgs>>
       ELSE /\ seeded' = [seeded EXCEPT !.password = "default"]
            /\ orgs' = [orgs EXCEPT ![c].there = TRUE]
            /\ Steps(c, "claim") /\ UNCHANGED booted
  /\ UNCHANGED mishaps

(* handleSignup *)
SignUp(c) ==
  /\ At(c, "signup")
  /\ orgs' = [orgs EXCEPT ![c].there = TRUE]
  /\ Steps(c, "claim")
  /\ UNCHANGED <<seeded, booted, mishaps>>

-----------------------------------------------------------------------------
(* assignTenantPrefixes *)

AfterClaim(c, root) == Steps(c, IF root = c THEN "flag-root" ELSE "prefix")

ReadRoot(c) ==
  /\ At(c, "claim")
  /\ IF seeded.root = Nobody THEN Steps(c, "insert-root") ELSE AfterClaim(c, seeded.root)
  /\ UNCHANGED <<seeded, orgs, booted, mishaps>>

(* A mutant that takes what it tried to insert for what is stored. *)
InsertRoot_Own(c) ==
  /\ At(c, "insert-root")
  /\ seeded' = [seeded EXCEPT !.root = IF @ = Nobody THEN c ELSE @]
  /\ AfterClaim(c, c)
  /\ UNCHANGED <<orgs, booted, mishaps>>

(* ON CONFLICT DO NOTHING, and read again *)
InsertRoot(c) ==
  /\ At(c, "insert-root")
  /\ seeded' = [seeded EXCEPT !.root = IF @ = Nobody THEN c ELSE @]
  /\ AfterClaim(c, seeded'.root)
  /\ mishaps' = [mishaps EXCEPT !.overtaken =
       @ \/ (~Boots(c) /\ \E d \in DirCalls : Boots(d) /\ visit[d].pc \in Seeding)]
  /\ UNCHANGED <<orgs, booted>>

(* A mutant that is done with the seeding when the addresses are assigned. *)
Placed_NoSettings(c) == Steps(c, "audit")

Placed(c) == Steps(c, IF Boots(c) THEN "settings" ELSE "audit")

FlagRoot(c) ==
  /\ At(c, "flag-root")
  /\ orgs' = [orgs EXCEPT ![c].root = TRUE]
  /\ Placed(c)
  /\ UNCHANGED <<seeded, booted, mishaps>>

TakenAsSystem(p) == \E d \in DirCalls : orgs[d].sys = p

PickPrefix(c) ==
  /\ At(c, "prefix")
  /\ \E p \in SystemPrefixes :
       IF ~TakenAsSystem(p)
         THEN /\ visit' = [visit EXCEPT ![c] = [visit[c] EXCEPT !.pc = "set-prefix", !.value = p]]
              /\ UNCHANGED booted
         ELSE IF visit[c].tries + 1 < MaxTries
                THEN visit' = [visit EXCEPT ![c].tries = @ + 1] /\ UNCHANGED booted
                ELSE Fails(c)
  /\ UNCHANGED <<seeded, orgs, mishaps>>

(* UNIQUE(system_prefix) *)
SetPrefix(c) ==
  /\ At(c, "set-prefix")
  /\ IF TakenAsSystem(visit[c].value)
       THEN Fails(c) /\ UNCHANGED orgs
       ELSE /\ orgs' = [orgs EXCEPT ![c].sys = visit[c].value]
            /\ Placed(c) /\ UNCHANGED booted
  /\ UNCHANGED <<seeded, mishaps>>

(* The two settings are written in parallel. *)
WriteSetting(c) ==
  /\ \/ /\ visit[c].pc \in {"settings", "admin"}
        /\ seeded' = [seeded EXCEPT !.admin = c]
        /\ Steps(c, IF At(c, "settings") THEN "must" ELSE "audit")
     \/ /\ visit[c].pc \in {"settings", "must"}
        /\ seeded' = [seeded EXCEPT !.must = TRUE]
        /\ Steps(c, IF At(c, "settings") THEN "admin" ELSE "audit")
  /\ UNCHANGED <<orgs, booted, mishaps>>

Audited(c) ==
  /\ At(c, "audit")
  /\ IF Boots(c) THEN Booted(c) ELSE Steps(c, "done") /\ UNCHANGED booted
  /\ UNCHANGED <<seeded, orgs, mishaps>>

-----------------------------------------------------------------------------
(* PUT /api/tenant/prefix *)

(* A mutant that lets a tenant choose what looks like a system prefix. *)
ValidCustom_Any(p) == p # Nobody

(* validateCustomPrefix: a system prefix is none. *)
ValidCustom(p) == p # Nobody /\ p \notin SystemPrefixes

Taken(p, o) == \E d \in DirCalls \ {o} : p \in {orgs[d].custom, orgs[d].sys}

ChoosePrefix(c, o, p) ==
  LET allowed == IF p = Nobody THEN orgs[o].root ELSE ValidCustom(p) /\ ~Taken(p, o) IN
  /\ At(c, "new") /\ orgs[o].there
  /\ visit' = [visit EXCEPT ![c] = [NoVisit EXCEPT !.pc = IF allowed THEN "set-custom" ELSE "refused",
                                                   !.goal = "custom", !.org = o, !.value = p]]
  /\ UNCHANGED <<seeded, orgs, booted, mishaps>>

(* UNIQUE(custom_prefix) *)
SetCustom(c) ==
  LET x == visit[c]
      clash == x.value # Nobody /\ \E d \in DirCalls \ {x.org} : orgs[d].custom = x.value
  IN  /\ At(c, "set-custom")
      /\ orgs' = IF clash THEN orgs ELSE [orgs EXCEPT ![x.org].custom = x.value]
      /\ Steps(c, IF clash THEN "failed" ELSE "done")
      /\ UNCHANGED <<seeded, booted, mishaps>>

-----------------------------------------------------------------------------
(* rotateInitialAdminPassword *)

ReadPassword(c, given) ==
  /\ At(c, "rotate")
  /\ Steps(c, IF seeded.admin # Nobody /\ given = seeded.password THEN "write-password" ELSE "refused")
  /\ UNCHANGED <<seeded, orgs, booted, mishaps>>

(* The new password is checked for its length only: it may be the current   *)
(* or the default one.                                                      *)
Rotate(new) == seeded' = [seeded EXCEPT !.password = new, !.rotated = TRUE]

(* A mutant that clears the flag first. *)
WritePassword_FlagFirst(c) ==
  /\ \/ /\ At(c, "write-password")
        /\ seeded' = [seeded EXCEPT !.must = FALSE] /\ Steps(c, "clear-flag")
     \/ /\ At(c, "clear-flag")
        /\ \E new \in {"default", "changed"} : Rotate(new)
        /\ Steps(c, "done")
  /\ UNCHANGED <<orgs, booted, mishaps>>

WritePassword(c) ==
  /\ \/ /\ At(c, "write-password")
        /\ \E new \in {"default", "changed"} : Rotate(new)
        /\ Steps(c, "clear-flag")
     \/ /\ At(c, "clear-flag")
        /\ seeded' = [seeded EXCEPT !.must = FALSE] /\ Steps(c, "done")
  /\ UNCHANGED <<orgs, booted, mishaps>>

-----------------------------------------------------------------------------
(* D1 fails a call, or its isolate ends. *)
VisitFails(c) ==
  /\ visit[c].pc \notin {"new", "waiting"} \cup Ended
  /\ Fails(c)
  /\ mishaps' = [mishaps EXCEPT !.failed = @ \/ (Boots(c) /\ orgs[c].there)]
  /\ UNCHANGED <<seeded, orgs>>

FreshIsolate(i) ==
  /\ booted[i] = "done"
  /\ \A c \in DirCalls : visit[c].isolate = i => visit[c].pc \in Ended
  /\ booted' = [booted EXCEPT ![i] = "none"]
  /\ UNCHANGED <<seeded, orgs, visit, mishaps>>

DirNext ==
  \/ \E c \in DirCalls :
       \/ \E i \in DirIsolates, goal \in {"signup", "rotate"} : Arrive(c, i, goal)
       \/ Waited(c) \/ FindUser(c) \/ SeedAdmin(c) \/ SignUp(c)
       \/ ReadRoot(c) \/ InsertRoot(c) \/ FlagRoot(c) \/ PickPrefix(c) \/ SetPrefix(c)
       \/ WriteSetting(c) \/ Audited(c)
       \/ \E o \in DirCalls, p \in CustomInputs : ChoosePrefix(c, o, p)
       \/ SetCustom(c)
       \/ \E given \in {"default", "changed"} : ReadPassword(c, given)
       \/ WritePassword(c) \/ VisitFails(c)
  \/ \E i \in DirIsolates : FreshIsolate(i)

DirSpec == DirInit /\ [][DirNext]_dirVars

-----------------------------------------------------------------------------
DirTypeOK ==
  /\ seeded \in [root : DirCalls \cup {Nobody}, admin : DirCalls \cup {Nobody}, must : BOOLEAN,
                 password : {Nobody, "default", "changed"}, rotated : BOOLEAN]
  /\ \A c \in DirCalls : orgs[c] \in [there : BOOLEAN, root : BOOLEAN,
                                      sys : SystemPrefixes \cup {Nobody},
                                      custom : CustomInputs \cup {Nobody}]
  /\ booted \in [DirIsolates -> {"none", "pending", "done"}]

Prefixes(c) == {orgs[c].sys, orgs[c].custom} \ {Nobody}

(* Only the organization recorded as the root tenant is flagged as such,   *)
(* however many ask for the root path at once (tenants/prefixes.ts:         *)
(* 123-137, db/settings.ts:35-52).                                         *)
OneRoot == \A c \in DirCalls : orgs[c].root => seeded.root = c

(* A prefix in a URL names one tenant, be it the system's or its own, when *)
(* it was chosen while the other was being assigned (tenants/prefixes.ts:  *)
(* 51-65, 91-154, api/tenant.ts:75-92).                                    *)
PrefixNamesOne ==
  \A c, d \in DirCalls : c # d => Prefixes(c) \cap Prefixes(d) = {}

(* An organization whose call succeeded has an address of its own; the     *)
(* seeded one has the root path and is recorded with its administrator,    *)
(* unless a sign-up overtook it (bootstrap/admin.ts:104-122, tenants/      *)
(* onboarding.ts:43).                                                      *)
SetUpWhole ==
  \A c \in DirCalls : At(c, "done") /\ orgs[c].there =>
    /\ orgs[c].root \/ orgs[c].sys # Nobody
    /\ Boots(c) => seeded.admin = c
    /\ Boots(c) /\ ~mishaps.overtaken => orgs[c].root

(* Once the seeding is over, the dashboard stops asking for a new password  *)
(* only because a rotation that gave the current one has written one       *)
(* (bootstrap/admin.ts:163-189, 106-113).  What it wrote may be the default *)
(* password again: only its length is checked.                             *)
FlagClearedByRotation ==
  LET seeds == \E c \in DirCalls : Boots(c) /\ visit[c].pc \in {"must", "admin"} IN
  seeded.admin # Nobody /\ ~seeded.must /\ ~seeds /\ ~mishaps.failed => seeded.rotated

=============================================================================
