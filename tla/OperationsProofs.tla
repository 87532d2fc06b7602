---------------------------- MODULE OperationsProofs ----------------------------
(***************************************************************************)
(* What is proved of secrets, tenants, members and alerts, each alone,     *)
(* holds of them side by side (MCOperations), for every value of their     *)
(* constants and any choice of what is explored.                           *)
(***************************************************************************)
EXTENDS MCOperations, TenantProofs, AlertProofs

-----------------------------------------------------------------------------
(* A step of all is a step of each or leaves it alone. *)
LEMMA OperationsStep ==
  ASSUME [OperationsNext]_operationsVars
  PROVE  /\ [SecretNext]_secretVars /\ [DirNext]_dirVars
         /\ [TeamNext]_teamVars /\ [AlertNext]_alertVars
<1>1. CASE UNCHANGED operationsVars
  BY <1>1, Zenon DEF operationsVars
<1>2. CASE OperationsNext
  BY <1>2, Zenon DEF OperationsNext
<1> QED
  BY <1>1, <1>2

(* Theorem: side by side each component behaves as its own specification   *)
(* allows: the composition adds nothing to what a component may do.        *)
THEOREM OperationsAreEach ==
  OperationsSpec => SecretSpec /\ DirSpec /\ TeamSpec /\ AlertSpec
<1>1. OperationsInit => SecretInit /\ DirInit /\ TeamInit /\ AlertInit
  BY Zenon DEF OperationsInit
<1>2. [OperationsNext]_operationsVars =>
        /\ [SecretNext]_secretVars /\ [DirNext]_dirVars
        /\ [TeamNext]_teamVars /\ [AlertNext]_alertVars
  BY OperationsStep, Zenon
<1> QED
  BY <1>1, <1>2, PTL DEF OperationsSpec, SecretSpec, DirSpec, TeamSpec, AlertSpec

(* Theorem: every component behind the dashboard keeps its types.          *)
THEOREM OperationsTypes == OperationsSpec => []OperationsTypeOK
<1>1. OperationsInit => focus \in Foci
  BY Zenon DEF OperationsInit
<1>2. focus \in Foci /\ [OperationsNext]_operationsVars => (focus \in Foci)'
  BY Zenon DEF OperationsNext, operationsVars
<1>3. OperationsSpec => [](focus \in Foci)
  BY <1>1, <1>2, PTL DEF OperationsSpec
<1>4. OperationsTypeOK <=> focus \in Foci /\ SecretTypeOK /\ DirTypeOK /\ TeamTypeOK /\ AlertTypeOK
  BY Zenon DEF OperationsTypeOK
<1> QED
  BY <1>3, <1>4, OperationsAreEach, SecretTypes, DirTypes, TeamTypes, AlertTypes, PTL

(* Theorem: what is proved of each component holds of all side by side, in *)
(* the specification the runs check.                                       *)
THEOREM OperationsKeep ==
  OperationsSpec =>
    [](/\ KekStable /\ SoleUseDecryptable /\ KeysKept /\ StoredCloudValid
       /\ OneRoot /\ PrefixNamesOne /\ SetUpWhole /\ FlagClearedByRotation
       /\ SoleOwner /\ RoleEndsWithCache /\ RevokedStays
       /\ NoneTriedTwice /\ HeldBackIfTried)
<1>1. SecretSpec => [](KekStable /\ SoleUseDecryptable /\ KeysKept /\ StoredCloudValid)
  BY OneMasterKey, StoredDecryptable, KeysOfLastSave, VertexComplete, PTL
<1>2. DirSpec => [](OneRoot /\ PrefixNamesOne /\ SetUpWhole /\ FlagClearedByRotation)
  BY RootIsOne, PrefixUnique, SetUpIsWhole, FlagClearedOnlyByRotation, PTL
<1>3. TeamSpec => [](SoleOwner /\ RoleEndsWithCache /\ RevokedStays)
  BY OneOwner, LostRoleRunsOut, RevokedKeysStay, PTL
<1>4. AlertSpec => [](NoneTriedTwice /\ HeldBackIfTried)
  BY TriedOnce, HeldBackOnlyFromTried, PTL
<1> QED
  BY <1>1, <1>2, <1>3, <1>4, OperationsAreEach, PTL

=============================================================================
