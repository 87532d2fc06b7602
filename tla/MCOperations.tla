------------------------------ MODULE MCOperations ------------------------------
(***************************************************************************)
(* The components behind the dashboard and the cron trigger, side by side. *)
(* They share no state, so a behaviour runs one of them, the one in focus, *)
(* while the others rest: TLC explores the sum of their state spaces       *)
(* instead of the product.                                                 *)
(***************************************************************************)
EXTENDS TenantSecrets, TenantDirectory, TeamAndKeys, AlertChecks, TLC

CONSTANT Foci  \* the components explored

VARIABLE focus

operationsVars == <<focus, secretVars, dirVars, teamVars, alertVars>>

(* Those who rest do so in one state; the keys rest while members change.  *)
Resting ==
  /\ focus # "team" =>
       /\ scene = CHOOSE s \in Scenes : TRUE
       /\ members = CHOOSE m \in InitialRoles : TRUE
  /\ focus # "team" \/ "create key" \notin scene => keyStatus = [k \in Keys |-> ""]
  /\ focus # "alerts" => mailOn

OperationsInit ==
  /\ focus \in Foci
  /\ SecretInit /\ DirInit /\ TeamInit /\ AlertInit
  /\ Resting

OperationsNext ==
  /\ UNCHANGED focus
  /\ \/ /\ focus = "secrets" /\ SecretNext
        /\ UNCHANGED <<dirVars, teamVars, alertVars>>
     \/ /\ focus = "directory" /\ DirNext
        /\ UNCHANGED <<secretVars, teamVars, alertVars>>
     \/ /\ focus = "team" /\ TeamNext
        /\ UNCHANGED <<secretVars, dirVars, alertVars>>
     \/ /\ focus = "alerts" /\ AlertNext
        /\ UNCHANGED <<secretVars, dirVars, teamVars>>

OperationsSpec == OperationsInit /\ [][OperationsNext]_operationsVars

(* Each component keeps its variables' types. *)
OperationsTypeOK ==
  /\ focus \in Foci
  /\ SecretTypeOK /\ DirTypeOK /\ TeamTypeOK /\ AlertTypeOK

-----------------------------------------------------------------------------
MCSettingsInputs == {[auth |-> "service-account", project |-> "x"]}

(* An owner, and one who may be a member already. *)
MCInitialRoles == {[u \in Users |-> IF u = "u1" THEN "owner" ELSE r] : r \in {"", "admin"}}
MCScenes ==
  {{"invite", "cancel"}, {"role", "remove", "transfer"},
   {"create key", "patch key", "rotate key", "delete key"}}

(* A limit per day and none per month; both alert as quota_exceeded. *)
MCSubjects == <<"spend_daily", "spend_monthly">>
MCLevels == [k \in {"spend_daily", "spend_monthly"} |-> IF k = "spend_daily" THEN {80, 100} ELSE {}]
MCWebhookEvent == [k \in {"spend_daily", "spend_monthly"} |-> "quota_exceeded"]

(* Two isolates, or two requests, may change places; they are the same     *)
(* model values, so that one permutation is enough.                        *)
OperationsSymmetry == Permutations(Isolates)

=============================================================================
