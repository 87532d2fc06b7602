------------------------------- MODULE MCGateway -------------------------------
(***************************************************************************)
(* The components a request meets on its way to a provider, side by side.  *)
(* They share no state but what ModelsAndEmbeddings shares with            *)
(* ChatRequests, so a behaviour runs one of them, the one in focus, while  *)
(* the others rest in one of their initial states: TLC explores the sum of *)
(* their state spaces instead of the product.                              *)
(***************************************************************************)
EXTENDS RateLimits, ToolDialog, StreamCapture, TokenCache, AnswerCache,
        ModelsAndEmbeddings

CONSTANT Foci  \* the components explored

VARIABLE focus

gatewayVars == <<focus, rateVars, dialogVars, streamVars, tokenVars, answerVars, catalogVars>>

(* Those who rest do so in one state. *)
Resting ==
  /\ focus # "rates" =>
       /\ limits = CHOOSE l \in RateSettings : TRUE
       /\ \A r \in Turns : turn[r].key = CHOOSE k \in TurnKeys : TRUE
  /\ focus # "dialog" => history = CHOOSE o \in Openings : TRUE
  /\ focus # "stream" => upstream.left = CHOOSE s \in Streams : TRUE
  /\ focus \notin {"chat", "catalog"} =>
       /\ chatSettings = CHOOSE s \in ChatSettings : TRUE
       /\ \A p \in ChatProviders : configs[p] = CHOOSE c \in ConfigsOf[p] : TRUE

GatewayInit ==
  /\ focus \in Foci
  /\ RateInit /\ DialogInit /\ StreamInit /\ TokenInit /\ AnswerInit /\ CatalogInit
  /\ Resting

GatewayNext ==
  /\ UNCHANGED focus
  /\ \/ /\ focus = "rates" /\ RateNext
        /\ UNCHANGED <<dialogVars, streamVars, tokenVars, answerVars, catalogVars>>
     \/ /\ focus = "dialog" /\ DialogNext
        /\ UNCHANGED <<rateVars, streamVars, tokenVars, answerVars, catalogVars>>
     \/ /\ focus = "stream" /\ StreamNext
        /\ UNCHANGED <<rateVars, dialogVars, tokenVars, answerVars, catalogVars>>
     \/ /\ focus = "tokens" /\ TokenNext
        /\ UNCHANGED <<rateVars, dialogVars, streamVars, answerVars, catalogVars>>
     \/ /\ focus = "answers" /\ AnswerNext
        /\ UNCHANGED <<rateVars, dialogVars, streamVars, tokenVars, catalogVars>>
     \/ /\ focus = "chat" /\ ChatNext
        /\ UNCHANGED <<rateVars, dialogVars, streamVars, tokenVars, answerVars, client>>
     \/ /\ focus = "catalog" /\ CatalogNext
        /\ UNCHANGED <<rateVars, dialogVars, streamVars, tokenVars, answerVars>>

GatewaySpec == GatewayInit /\ [][GatewayNext]_gatewayVars

(* Each component keeps its variables' types. *)
GatewayTypeOK ==
  /\ focus \in Foci
  /\ RateTypeOK /\ DialogTypeOK /\ StreamTypeOK /\ TokenTypeOK /\ AnswerTypeOK
  /\ ChatTypeOK /\ CatalogTypeOK

-----------------------------------------------------------------------------
(* Rate limits: a tenant that limits requests and tokens, or tokens only.  *)
MCRates == {[rpm |-> 1, burst |-> 0, tpm |-> 2], [rpm |-> 0, burst |-> 0, tpm |-> 1]}

(* Conversations: plain; with an earlier answer and nothing in the first   *)
(* question; with a call another provider made.                            *)
Asked(items) == [Message("user") EXCEPT !.items = items]
OtherId == [name |-> "", sig |-> "", nr |-> 99]
MCOpenings ==
  {<<Asked(<<"text">>)>>,
   <<Message("system"), [Message("assistant") EXCEPT !.text = "t"], Asked(<<"blank">>)>>,
   <<Asked(<<"link", "image">>),
     [Message("assistant") EXCEPT
        !.calls = <<[id |-> OtherId, name |-> "g", args |-> "a", sig |-> ""]>>],
     [Message("tool") EXCEPT !.id = OtherId, !.name = "g", !.text = "r"]>>}
MCUserItems == {<<"text">>, <<"blank">>}

Said(kind, sig) == [kind |-> kind, name |-> "", args |-> NoArgs, sig |-> sig]
Called(name, args, sig) == [kind |-> "call", name |-> name, args |-> args, sig |-> sig]
MCTurnParts ==
  {<<Said("text", "")>>,
   <<Said("thinking", ""), Called("f", "a", "s")>>,
   <<Called("f", "a", ""), Said("text", "s"), Called("g", NoArgs, "")>>,
   <<Called("f", "a", "s"), Called("g", "b", "u"), Called("f", "b", "")>>}

(* Streams with one line of usage, with two, and with one long before the  *)
(* end.                                                                    *)
Other == [usage |-> "", half |-> 0]
Line(u) == <<[usage |-> u, half |-> 1], [usage |-> u, half |-> 2]>>
MCStreams ==
  {<<Other>> \o Line("u"), Line("u") \o <<Other>> \o Line("v") \o <<Other>>,
   Line("u") \o <<Other, Other, Other, Other, Other>>}

(* Providers: one called through pi-ai, Google's two, one of them under an *)
(* alias as well, an OpenAI-compatible one and a custom one without keys.  *)
MCProviders == {"google-vertex", "openai", "anthropic", "local", "google-ai-studio", "google"}
MCCanonical ==
  [x \in (MCProviders \ {"local"}) \cup {"vertex"} |->
     CASE x = "vertex" -> "google-vertex" [] x = "google" -> "google-ai-studio" [] OTHER -> x]
MCDefault == [p \in MCProviders |-> IF p = "anthropic" THEN "d" ELSE ""]
MCSettings ==
  {[active |-> TRUE, cache |-> TRUE, allow |-> {}],
   [active |-> TRUE, cache |-> FALSE, allow |-> {[prov |-> "openai", model |-> "m"]}],
   [active |-> FALSE, cache |-> TRUE, allow |-> {}]}
Config(keys, auth, default, strategy) ==
  [present |-> TRUE, enabled |-> TRUE, keys |-> keys, auth |-> auth, default |-> default,
   strategy |-> strategy, trace |-> keys > 0]
MCConfigs ==
  [p \in MCProviders |->
     CASE p = "google-vertex" -> {Config(2, "service-account", "m", "round-robin"),
                           Config(1, "api-key", "m", "failover")}
       [] p = "openai" -> {Config(2, "", "m", "round-robin"), Config(2, "", "n", "failover")}
       [] p \in {"anthropic", "google-ai-studio", "google"} -> {Config(1, "", "", "first")}
       [] p = "local" -> {Config(0, "", "m", "first")}]
Free == [bound |-> "", providers |-> {}, models |-> {}]
MCChatKeys ==
  {Free, [bound |-> "vertex", providers |-> {}, models |-> {[prov |-> "", model |-> "m"]}]}
Body(prov, model, stream) == [prov |-> prov, model |-> model, stream |-> stream]
MCBodies ==
  {Body("", "", FALSE), Body("local", "m", TRUE), Body("openai", "m", FALSE),
   Body("", "anthropic", FALSE), Body("", "openai", TRUE)}

(* Two keys bound to different providers send the same body. *)
BoundKeys == {[Free EXCEPT !.bound = "openai"], [Free EXCEPT !.bound = "google-vertex"]}
BoundBodies == {Body("", "m", FALSE)}

Id(scope, id, full) == [scope |-> scope, id |-> id, full |-> full]
MCBaked ==
  [p \in MCProviders |-> IF p \in {"google-vertex", "anthropic", "google-ai-studio"} THEN {Id("", "m", "m")} ELSE {}]
MCPinned ==
  [p \in MCProviders |-> IF p \in {"google-vertex", "local"} THEN {Id("", "n", "n")} ELSE {}]
MCLiveIds ==
  [p \in MCProviders |->
     IF p = "anthropic" THEN {}
     ELSE IF p = "local" THEN {{Id("", "m", "m"), Id("x", "m", "x/m")}}
     ELSE {{Id("models", "m", "models/m"), Id("google", "n", "google/n")}}]
MCOwnScope ==
  [p \in MCProviders |-> CASE p = "google-vertex" -> "google" [] p = "google-ai-studio" -> "models" [] OTHER -> "none"]

=============================================================================
