------------------------------ MODULE TeamAndKeys ------------------------------
(***************************************************************************)
(* The members and the API keys of one tenant (api/team.ts, api/keys.ts),  *)
(* administered through sessions whose role is cached for a minute         *)
(* (middlewares/auth-required.ts, rbac.ts).  The library better-auth keeps *)
(* the sessions and carries out invitations, removals and changes of role; *)
(* it may refuse any.  Ownership is transferred by the code itself.        *)
(*                                                                         *)
(* Users have no other tenant, and a member who leaves is not asked back:  *)
(* its row would have another id.                                          *)
(***************************************************************************)
EXTENDS Integers, FiniteSets

CONSTANTS
  Asks,          \* requests
  Users,         \* users of the dashboard, each with one session
  InitialRoles,  \* the members there may be at first, functions from Users
  Scenes,        \* sets of operations: a behaviour's requests are for one set
  GivenRoles,    \* roles given in requests
  Keys,          \* API keys
  CacheTtl,      \* CACHE_TTL, 60 s in the code
  TeamUntil      \* the model's clock stops here

Roles == {"owner", "admin", "member", "viewer"}
InviteRoles == Roles \ {"owner"}

ASSUME TeamAssumption ==
  /\ CacheTtl \in Nat \ {0} /\ TeamUntil \in Nat /\ IsFiniteSet(Users)
  /\ GivenRoles \subseteq InviteRoles
  /\ \A m \in InitialRoles :
       m \in [Users -> Roles \cup {""}] /\ Cardinality({u \in Users : m[u] = "owner"}) = 1

VARIABLES
  scene,     \* the operations asked for
  now,       \* the clock
  members,   \* members[u]: the role of user u, "" if it is no member
  invited,   \* invited[u]: the role of the invitation of u, "" if there is none
  alive,     \* alive[u]: better-auth has a session of user u
  cached,    \* cached[u]: the entry of SESSION_CACHE for that session
  keyStatus, \* keyStatus[k]: the column of the row of key k, "" if there is none
  ask,       \* ask[a]: where request a stands
  changed,   \* history: changed[u], when the role or session of u last changed
  crossed    \* history: what overlapped, and what the library did

teamVars == <<scene, now, members, invited, alive, cached, keyStatus, ask, changed, crossed>>

NoEntry == [role |-> "", until |-> -1]
NoAsk == [pc |-> "new", user |-> "", op |-> "", target |-> "", role |-> "", as |-> "",
          stale |-> FALSE]

TeamInit ==
  /\ scene \in Scenes /\ now = 0 /\ members \in InitialRoles
  /\ invited = [u \in Users |-> ""] /\ alive = [u \in Users |-> TRUE]
  /\ cached = [u \in Users |-> NoEntry]
  /\ keyStatus \in [Keys -> {"", "active"}]
  /\ ask = [a \in Asks |-> NoAsk]
  /\ changed = [u \in Users |-> 0]
  /\ crossed = [swap |-> FALSE, demoted |-> FALSE, slow |-> {}, keys |-> {}, revoked |-> {}]

Is(a, pc) == ask[a].pc = pc
Handles(a, op) == Is(a, "handle") /\ ask[a].op = op
Goes(a, pc) == ask' = [ask EXCEPT ![a].pc = pc]
EndedAsk == [NoAsk EXCEPT !.pc = "ended"]  \* carried out or refused
Ends(a) == ask' = [ask EXCEPT ![a] = EndedAsk]
Owners == {u \in Users : members[u] = "owner"}

(* The sessions of us change, or their roles.  A request between the       *)
(* reading of a role and the storing of it will store the old one.         *)
Changes(us, swap, demoted) ==
  /\ changed' = [u \in Users |-> IF u \in us THEN now ELSE changed[u]]
  /\ crossed' = [crossed EXCEPT
       !.slow = @ \cup {u \in us : \E a \in Asks : Is(a, "store") /\ ask[a].user = u},
       !.swap = @ \/ swap, !.demoted = @ \/ demoted]

Transfers == {"actor", "from", "swap"}
LibraryCalls == {"role call", "remove call"}

-----------------------------------------------------------------------------
(* sessionAuthMiddleware *)

Request(a, u, op, t, role) ==
  /\ Is(a, "new") /\ op \in scene
  /\ ask' = [ask EXCEPT ![a] = [NoAsk EXCEPT !.pc = "auth", !.user = u, !.op = op,
                                             !.target = t, !.role = role]]
  /\ UNCHANGED <<scene, now, members, invited, alive, cached, keyStatus, changed, crossed>>

(* adminWriteGuard, and what the handlers ask for themselves *)
Allowed(a, role) == role \in (IF ask[a].op = "transfer" THEN {"owner"} ELSE {"owner", "admin"})

Enters(a, role) ==
  IF Allowed(a, role) THEN ask' = [ask EXCEPT ![a].pc = "handle", ![a].as = role]
  ELSE Ends(a)

Hit(u) == cached[u].until > now

(* A mutant that keeps an entry as long as it is used. *)
AuthHit_Renews(a) ==
  LET u == ask[a].user IN
  /\ Is(a, "auth") /\ Hit(u)
  /\ Enters(a, cached[u].role)
  /\ cached' = [cached EXCEPT ![u].until = now + CacheTtl]
  /\ UNCHANGED <<scene, now, members, invited, alive, keyStatus, changed, crossed>>

AuthHit(a) ==
  LET u == ask[a].user IN
  /\ Is(a, "auth") /\ Hit(u)
  /\ Enters(a, cached[u].role)
  /\ UNCHANGED <<scene, now, members, invited, alive, cached, keyStatus, changed, crossed>>

(* The session, and the role of its user; no member has none. *)
AuthMiss(a) ==
  LET u == ask[a].user IN
  /\ Is(a, "auth") /\ ~Hit(u)
  /\ IF alive[u] THEN ask' = [ask EXCEPT ![a].pc = "store", ![a].as = members[u]]
     ELSE Ends(a)
  /\ UNCHANGED <<scene, now, members, invited, alive, cached, keyStatus, changed, crossed>>

AuthStore(a) ==
  LET u == ask[a].user IN
  /\ Is(a, "store")
  /\ cached' = [cached EXCEPT ![u] = [role |-> ask[a].as, until |-> now + CacheTtl]]
  /\ Enters(a, ask[a].as)
  /\ UNCHANGED <<scene, now, members, invited, alive, keyStatus, changed, crossed>>

(* better-auth ends a session; nothing drops the cached entry. *)
SignOut(u) ==
  /\ alive[u] /\ alive' = [alive EXCEPT ![u] = FALSE]
  /\ Changes({u}, FALSE, FALSE)
  /\ UNCHANGED <<scene, now, members, invited, cached, keyStatus, ask>>

-----------------------------------------------------------------------------
(* Members *)

(* POST /api/team/invitations, and .../cancel, which the library carries   *)
(* out or refuses *)
Invite(a) ==
  /\ Is(a, "handle") /\ ask[a].op \in {"invite", "cancel"}
  /\ invited' \in {invited,
       [invited EXCEPT ![ask[a].target] = IF ask[a].op = "invite" THEN ask[a].role ELSE ""]}
  /\ Ends(a)
  /\ UNCHANGED <<scene, now, members, alive, cached, keyStatus, changed, crossed>>

(* An invitation is accepted, with better-auth. *)
Accept(u) ==
  /\ members[u] = "" /\ invited[u] # ""
  /\ members' = [members EXCEPT ![u] = invited[u]]
  /\ invited' = [invited EXCEPT ![u] = ""]
  /\ Changes({u}, FALSE, FALSE)
  /\ UNCHANGED <<scene, now, alive, cached, keyStatus, ask>>

(* PATCH /api/team/members/:id/role: only an owner may touch an owner. *)
ReadForRole(a) ==
  LET t == ask[a].target IN
  /\ Handles(a, "role")
  /\ IF members[t] = "" \/ (members[t] = "owner" /\ ask[a].as # "owner") THEN Ends(a)
     ELSE Goes(a, "role call")
  /\ UNCHANGED <<scene, now, members, invited, alive, cached, keyStatus, changed, crossed>>

(* DELETE /api/team/members/:id: not an owner for an admin, nor oneself *)
ReadForRemoval(a) ==
  LET t == ask[a].target IN
  /\ Handles(a, "remove")
  /\ IF \/ members[t] = "" \/ t = ask[a].user
        \/ members[t] = "owner" /\ ask[a].as # "owner"
       THEN Ends(a)
       ELSE Goes(a, IF members[t] = "owner" THEN "count" ELSE "remove call")
  /\ UNCHANGED <<scene, now, members, invited, alive, cached, keyStatus, changed, crossed>>

(* A mutant that trusts the session: an owner removes another owner. *)
CountOwners_Trusting(a) ==
  /\ Is(a, "count") /\ Goes(a, "remove call")
  /\ UNCHANGED <<scene, now, members, invited, alive, cached, keyStatus, changed, crossed>>

CountOwners(a) ==
  /\ Is(a, "count")
  /\ IF Cardinality(Owners) <= 1 THEN Ends(a) ELSE Goes(a, "remove call")
  /\ UNCHANGED <<scene, now, members, invited, alive, cached, keyStatus, changed, crossed>>

(* The library does as it is told, or refuses. *)
LibraryCall(a) ==
  LET t == ask[a].target
      to == IF Is(a, "role call") THEN ask[a].role ELSE ""
      meets == \E b \in Asks : ask[b].pc \in Transfers /\ t \in {ask[b].user, ask[b].target}
  IN  /\ ask[a].pc \in LibraryCalls
      /\ \/ /\ members[t] # ""
            /\ members' = [members EXCEPT ![t] = to]
            /\ Changes({t}, meets, members[t] = "owner" /\ Is(a, "role call"))
            /\ Ends(a)
         \/ /\ Ends(a)
            /\ UNCHANGED <<members, changed, crossed>>
      /\ UNCHANGED <<scene, now, invited, alive, cached, keyStatus>>

(* POST /api/team/transfer-ownership *)
ReadTarget(a) ==
  LET role == members[ask[a].target] IN
  /\ Handles(a, "transfer")
  /\ IF role \in {"", "owner"} THEN Ends(a) ELSE Goes(a, "actor")
  /\ UNCHANGED <<scene, now, members, invited, alive, cached, keyStatus, changed, crossed>>

(* The actor's row is read twice. *)
ReadActor(a) ==
  /\ ask[a].pc \in {"actor", "from"}
  /\ IF members[ask[a].user] # "owner" THEN Ends(a)
     ELSE Goes(a, IF Is(a, "actor") THEN "from" ELSE "swap")
  /\ UNCHANGED <<scene, now, members, invited, alive, cached, keyStatus, changed, crossed>>

(* One batch; the row of one who has left is not there to be updated. *)
Swap(a) ==
  LET u == ask[a].user
      t == ask[a].target
      meets == \E b \in Asks \ {a} :
                 \/ ask[b].pc \in Transfers
                 \/ ask[b].pc \in LibraryCalls /\ ask[b].target \in {u, t}
  IN  /\ Is(a, "swap")
      /\ members' = [members EXCEPT ![t] = IF @ = "" THEN "" ELSE "owner",
                                    ![u] = IF @ = "" THEN "" ELSE "admin"]
      /\ Changes({t, u}, meets, FALSE)
      /\ Ends(a)
      /\ UNCHANGED <<scene, now, invited, alive, cached, keyStatus>>

-----------------------------------------------------------------------------
(* Keys.  A request that has read the row writes later. *)

CreateKey(a) ==
  /\ Handles(a, "create key") /\ keyStatus[ask[a].target] = ""
  /\ keyStatus' = [keyStatus EXCEPT ![ask[a].target] = "active"]
  /\ Ends(a)
  /\ UNCHANGED <<scene, now, members, invited, alive, cached, changed, crossed>>

(* PATCH /api/keys/:id, POST /api/keys/:id/rotate *)
ReadKey(a) ==
  /\ Is(a, "handle") /\ ask[a].op \in {"patch key", "rotate key"}
  /\ IF keyStatus[ask[a].target] = "" THEN Ends(a) ELSE Goes(a, "write key")
  /\ UNCHANGED <<scene, now, members, invited, alive, cached, keyStatus, changed, crossed>>

(* A mutant whose PATCH without a status makes the key active. *)
NewStatus_Default(a) ==
  IF ask[a].op = "patch key" /\ ask[a].role # "" THEN ask[a].role ELSE "active"

(* A PATCH may name a status; a rotation sets one. *)
NewStatus(a) ==
  IF ask[a].op = "rotate key" THEN "active"
  ELSE IF ask[a].role # "" THEN ask[a].role ELSE keyStatus[ask[a].target]

(* ask[a].stale: the key was revoked after the request had read it *)
WriteKey(a) ==
  LET k == ask[a].target
      asks == ask[a].op = "rotate key" \/ ask[a].role # ""
  IN  /\ Is(a, "write key")
      /\ keyStatus' = [keyStatus EXCEPT ![k] = NewStatus(a)]
      /\ crossed' = [crossed EXCEPT
           !.revoked = IF ~asks THEN @ ELSE IF NewStatus(a) = "revoked" THEN @ \cup {k}
                       ELSE IF ask[a].stale THEN @ ELSE @ \ {k},
           !.keys = IF asks /\ ask[a].stale THEN @ \cup {k} ELSE @]
      /\ ask' = [b \in Asks |->
           IF b = a THEN EndedAsk
           ELSE IF asks /\ NewStatus(a) = "revoked" /\ Is(b, "write key") /\ ask[b].target = k
                  THEN [ask[b] EXCEPT !.stale = TRUE] ELSE ask[b]]
      /\ UNCHANGED <<scene, now, members, invited, alive, cached, changed>>

(* DELETE /api/keys/:id *)
RevokeKey(a) ==
  LET k == ask[a].target
      there == keyStatus[k] # ""
  IN  /\ Handles(a, "delete key")
      /\ keyStatus' = [keyStatus EXCEPT ![k] = IF there THEN "revoked" ELSE ""]
      /\ crossed' = [crossed EXCEPT !.revoked = IF there THEN @ \cup {k} ELSE @]
      /\ ask' = [b \in Asks |->
           IF b = a THEN EndedAsk
           ELSE IF Is(b, "write key") /\ ask[b].target = k THEN [ask[b] EXCEPT !.stale = TRUE]
                ELSE ask[b]]
      /\ UNCHANGED <<scene, now, members, invited, alive, cached, changed>>

-----------------------------------------------------------------------------
TeamTick ==
  /\ now < TeamUntil /\ now' = now + 1
  /\ UNCHANGED <<scene, members, invited, alive, cached, keyStatus, ask, changed, crossed>>

TeamNext ==
  \/ \E a \in Asks :
       \/ \E u \in Users, t \in Users :
            \/ \E op \in {"role", "invite"}, r \in GivenRoles : Request(a, u, op, t, r)
            \/ \E op \in {"cancel", "remove", "transfer"} : Request(a, u, op, t, "")
       \/ \E u \in Users, k \in Keys :
            \/ \E op \in {"create key", "rotate key", "delete key"} : Request(a, u, op, k, "")
            \/ \E s \in {"", "active", "revoked"} : Request(a, u, "patch key", k, s)
       \/ AuthHit(a) \/ AuthMiss(a) \/ AuthStore(a)
       \/ Invite(a) \/ ReadForRole(a) \/ ReadForRemoval(a) \/ CountOwners(a) \/ LibraryCall(a)
       \/ ReadTarget(a) \/ ReadActor(a) \/ Swap(a)
       \/ CreateKey(a) \/ ReadKey(a) \/ WriteKey(a) \/ RevokeKey(a)
  \/ \E u \in Users : SignOut(u) \/ Accept(u)
  \/ TeamTick

TeamSpec == TeamInit /\ [][TeamNext]_teamVars

-----------------------------------------------------------------------------
TeamTypeOK ==
  /\ members \in [Users -> Roles \cup {""}] /\ invited \in [Users -> InviteRoles \cup {""}]
  /\ keyStatus \in [Keys -> {"", "active", "revoked"}]
  /\ \A u \in Users : cached[u].role \in Roles \cup {""}
  /\ \A a \in Asks : ask[a].as \in Roles \cup {""}

(* There is one owner, through transfers and removals, and whatever roles  *)
(* the sessions still have in their caches, unless a transfer overlaps     *)
(* with another or with a change of those it names, or the library gave    *)
(* the owner another role (api/team.ts:310-334, 392-431).                  *)
SoleOwner == ~crossed.swap /\ ~crossed.demoted => Cardinality(Owners) = 1

(* Who loses a role or signs out acts in it no longer than the cache keeps *)
(* it, however often the session is used meanwhile, unless a request was   *)
(* loading it at the time (middlewares/auth-required.ts:25-34, 56-61,      *)
(* 112-121).                                                               *)
RoleEndsWithCache ==
  \A u \in Users :
    u \notin crossed.slow /\ Hit(u) /\ (~alive[u] \/ cached[u].role # members[u]) =>
      cached[u].until <= changed[u] + CacheTtl

(* A revoked key stays revoked until somebody asks for it to be active,    *)
(* unless they had done so before (api/keys.ts:249-313, 344-359, 395-399). *)
RevokedStays == \A k \in crossed.revoked \ crossed.keys : keyStatus[k] = "revoked"

=============================================================================
