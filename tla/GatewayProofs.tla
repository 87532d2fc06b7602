------------------------------ MODULE GatewayProofs ------------------------------
(***************************************************************************)
(* What is proved of the components on the way of a request, each alone,   *)
(* holds of them side by side (MCGateway), for every value of their        *)
(* constants and any choice of what is explored.                           *)
(***************************************************************************)
EXTENDS MCGateway, RequestProofs, DialogProofs

-----------------------------------------------------------------------------
(* A step of all is a step of each or leaves it alone.                     *)
LEMMA GatewayStep ==
  ASSUME [GatewayNext]_gatewayVars
  PROVE  /\ [RateNext]_rateVars /\ [DialogNext]_dialogVars /\ [StreamNext]_streamVars
         /\ [TokenNext]_tokenVars /\ [AnswerNext]_answerVars
<1>1. CASE UNCHANGED gatewayVars
  BY <1>1, Zenon DEF gatewayVars
<1>2. CASE GatewayNext
  BY <1>2, Zenon DEF GatewayNext
<1> QED
  BY <1>1, <1>2

(* Chat requests share settings, configurations and cursor with the lists  *)
(* of models and with embeddings, so a step is one of the former and       *)
(* leaves the calls of the latter alone, or one of the latter.             *)
LEMMA RequestsStep ==
  ASSUME [GatewayNext]_gatewayVars
  PROVE  ([ChatNext]_chatVars /\ UNCHANGED client) \/ [CatalogNext]_catalogVars
<1>1. CASE UNCHANGED gatewayVars
  BY <1>1, Zenon DEF gatewayVars
<1>2. CASE GatewayNext
  BY <1>2, Zenon DEF GatewayNext
<1> QED
  BY <1>1, <1>2

(* Theorem: side by side the components that share nothing behave as their *)
(* own specifications allow.                                               *)
THEOREM GatewayIsEach ==
  GatewaySpec => RateSpec /\ DialogSpec /\ StreamSpec /\ TokenSpec /\ AnswerSpec
<1>1. GatewayInit => RateInit /\ DialogInit /\ StreamInit /\ TokenInit /\ AnswerInit
  BY Zenon DEF GatewayInit
<1>2. [GatewayNext]_gatewayVars =>
        /\ [RateNext]_rateVars /\ [DialogNext]_dialogVars /\ [StreamNext]_streamVars
        /\ [TokenNext]_tokenVars /\ [AnswerNext]_answerVars
  BY GatewayStep, Zenon
<1> QED
  BY <1>1, <1>2, PTL DEF GatewaySpec, RateSpec, DialogSpec, StreamSpec, TokenSpec, AnswerSpec

(* Those that share rows do not disturb one another: both invariants hold  *)
(* together.                                                               *)
LEMMA RequestsInvariant == GatewaySpec => [](ChatInv /\ CallsSound)
<1>1. GatewayInit => ChatInv /\ CallsSound
  <2>1. GatewayInit => CatalogInit /\ ChatInit
    BY Zenon DEF GatewayInit, CatalogInit
  <2> QED
    BY <2>1, ChatInitInv, CatalogInitSound
<1>2. ChatInv /\ CallsSound /\ [GatewayNext]_gatewayVars => (ChatInv /\ CallsSound)'
  <2> SUFFICES ASSUME ChatInv, CallsSound, [GatewayNext]_gatewayVars
               PROVE  ChatInv' /\ CallsSound'
    OBVIOUS
  <2>1. CASE [ChatNext]_chatVars /\ UNCHANGED client
    BY <2>1, ChatNextInv, CallsBesideChats, Zenon
  <2>2. CASE [CatalogNext]_catalogVars
    BY <2>2, ChatsBesideCalls, CatalogNextSound, Zenon
  <2> QED
    BY <2>1, <2>2, RequestsStep, Zenon
<1> QED
  BY <1>1, <1>2, PTL DEF GatewaySpec

(* Theorem: every component on the way of a request keeps its types.       *)
THEOREM GatewayTypes == GatewaySpec => []GatewayTypeOK
<1>1. GatewayInit => focus \in Foci
  BY Zenon DEF GatewayInit
<1>2. focus \in Foci /\ [GatewayNext]_gatewayVars => (focus \in Foci)'
  BY Zenon DEF GatewayNext, gatewayVars
<1>3. GatewaySpec => [](focus \in Foci)
  BY <1>1, <1>2, PTL DEF GatewaySpec
<1>4. GatewaySpec => [](ChatTypeOK /\ CatalogTypeOK)
  BY RequestsInvariant, ChatTypeOKHolds, CatalogTypeOKHolds, PTL
<1>5. GatewayTypeOK <=> /\ focus \in Foci
                        /\ RateTypeOK /\ DialogTypeOK /\ StreamTypeOK /\ TokenTypeOK /\ AnswerTypeOK
                        /\ ChatTypeOK /\ CatalogTypeOK
  BY Zenon DEF GatewayTypeOK
<1> QED
  BY <1>3, <1>4, <1>5, GatewayIsEach, RateTypes, DialogTypes, StreamTypes, TokenTypes,
     AnswerTypes, PTL

(* Theorem: what is proved of each component holds of all side by side, in *)
(* the specification the runs check.                                       *)
THEOREM GatewayKeeps ==
  GatewaySpec =>
    [](/\ WindowBounded /\ RetryAdmitted
       /\ ContentsWellFormed /\ CallsReturnSigned /\ StreamAgrees
       /\ UsageFound /\ CaptureFaithful
       /\ TokenServedAlive /\ AnswerServedFresh
       /\ RecordedOnce /\ CompletedOnce /\ SentWhereAllowed /\ CacheHoldsCompletions
       /\ ListedModelsAllowed /\ EmbeddedWhereAllowed)
<1>1. RateSpec => [](WindowBounded /\ RetryAdmitted)
  BY WindowNeverExceeded, WaitIsLongEnough, PTL
<1>2. DialogSpec => [](ContentsWellFormed /\ CallsReturnSigned /\ StreamAgrees)
  BY ContentsAreWellFormed, CallsComeBackSigned, StreamTellsTheSame, PTL
<1>3. StreamSpec => [](UsageFound /\ CaptureFaithful)
  BY UsageIsFound, CaptureIsFaithful, PTL
<1>4. ChatInv => RecordedOnce /\ CompletedOnce /\ SentWhereAllowed /\ CacheHoldsCompletions
  BY RecordedOnceHolds, CompletedOnceHolds, SentWhereAllowedHolds, Zenon DEF ChatInv
<1>5. CallsSound => ListedModelsAllowed /\ EmbeddedWhereAllowed
  BY ListedModelsAllowedHolds, EmbeddedWhereAllowedHolds, Zenon
<1>6. GatewaySpec => [](/\ RecordedOnce /\ CompletedOnce /\ SentWhereAllowed /\ CacheHoldsCompletions
                        /\ ListedModelsAllowed /\ EmbeddedWhereAllowed)
  BY <1>4, <1>5, RequestsInvariant, PTL
<1> QED
  BY <1>1, <1>2, <1>3, <1>6, GatewayIsEach, CachedTokenLives, CacheServesFresh, PTL

=============================================================================
