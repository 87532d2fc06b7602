----------------------------- MODULE ChatRequests -----------------------------
(***************************************************************************)
(* The life of a chat request (requests/chat_completions_v2.ts): which     *)
(* provider and model it names, the policies it meets, the response cache, *)
(* the route to the provider and the keys tried on the way, the one metric *)
(* that is recorded of it, and what an answer leaves in the cache.         *)
(*                                                                         *)
(* Requests of one tenant interleave at every await, with each other and   *)
(* with an administrator who changes the settings.  Spend flags are the    *)
(* subject of SpendGuard, rate limits of RateLimits, and the translation   *)
(* of the messages of ToolDialog: here they only decide how a request      *)
(* goes on.                                                                *)
(***************************************************************************)
EXTENDS Integers, Sequences, FiniteSets

CONSTANTS
  Chats,            \* chat requests
  ChatKeys,         \* API keys, [bound, providers, models]
  Bodies,           \* request bodies, [prov, model, stream]
  CanonicalName,    \* from the names and aliases of the known providers
  CompatProviders,  \* providers that speak the OpenAI protocol
  PiProviders,      \* providers called through pi-ai
  VertexProvider,   \* google-vertex
  CuratedDefault,   \* the built-in default model of a provider, "" if none
  ChatSettings,     \* values of the tenant's settings, [active, cache, allow]
  ConfigsOf         \* ConfigsOf[p]: configurations of provider p, [present, enabled,
                    \* keys, auth, default, strategy, trace]; keys is their number

(* The names providers may be configured under.  The API takes aliases too *)
(* (api/provider-config.ts:239); requests look up the canonical name only. *)
ChatProviders == CompatProviders \cup PiProviders \cup {VertexProvider}

Strategies == {"first", "round-robin", "failover"}

ASSUME ChatAssumption ==
  /\ \A b \in Bodies : b.stream \in BOOLEAN
  /\ \A p \in ChatProviders : \A c \in ConfigsOf[p] :
       c.keys \in Nat /\ c.strategy \in Strategies
  /\ \A s \in ChatSettings : s.active \in BOOLEAN /\ s.cache \in BOOLEAN

VARIABLES
  chatSettings,  \* the tenant's settings
  configs,       \* configs[p]: the configuration of provider p
  cache,         \* cache[b]: who answered b for the ResponseCache object
  cursor,        \* V1OpenAICompatibleClient.rotationCursor of the isolate
  chat           \* chat[r]: where request r stands

chatVars == <<chatSettings, configs, cache, cursor, chat>>

NoTarget == [prov |-> "", model |-> ""]
NoChatKey == [bound |-> "", providers |-> {}, models |-> {}]
NoBody == [prov |-> "", model |-> "", stream |-> FALSE]
NoSettings == CHOOSE s \in ChatSettings : TRUE
NoConfig == [present |-> FALSE, enabled |-> FALSE, keys |-> 0, auth |-> "",
             default |-> "", strategy |-> "first", trace |-> FALSE]

ChatInit ==
  /\ chatSettings \in ChatSettings
  /\ configs \in {f \in [ChatProviders -> UNION {ConfigsOf[p] : p \in ChatProviders}] :
                    \A p \in ChatProviders : f[p] \in ConfigsOf[p]}
  /\ cache = [b \in Bodies |-> NoTarget]
  /\ cursor = 0
  /\ chat = [r \in Chats |->
               [pc |-> "new", key |-> NoChatKey, body |-> NoBody,
                settings |-> NoSettings, to |-> NoTarget, config |-> NoConfig,
                untried |-> <<>>, sent |-> 0, oks |-> 0, records |-> <<>>,
                traces |-> 0, by |-> NoTarget]]

-----------------------------------------------------------------------------
(* Which provider and model a request is for *)

Known == DOMAIN CanonicalName
Canonical(name) == IF name \in Known THEN CanonicalName[name] ELSE name

Mismatch(key, body) ==
  key.bound # "" /\ body.prov # "" /\ Canonical(body.prov) # Canonical(key.bound)

(* NoTarget where the request is answered not_configured. *)
TargetOf(key, body) ==
  IF key.bound # "" THEN [prov |-> Canonical(key.bound), model |-> body.model]
  ELSE IF body.prov # "" THEN [prov |-> Canonical(body.prov), model |-> body.model]
  ELSE IF body.model \in Known THEN [prov |-> Canonical(body.model), model |-> ""]
  ELSE NoTarget

ProviderAllowed(key, prov) == key.providers = {} \/ prov \in key.providers

(* Every list that is not empty has an entry for the model; an entry is    *)
(* qualified by a provider or bare.                                        *)
ModelAllowed(lists, to) ==
  \A list \in lists :
    list = {} \/ \E e \in list : e.model = to.model /\ e.prov \in {"", to.prov}

DefaultModel(config, prov) ==
  IF config.default # "" THEN config.default ELSE CuratedDefault[prov]

Express(x) == x.to.prov = VertexProvider /\ x.config.auth = "api-key"
Compat(x) ==
  \/ x.to.prov \in CompatProviders
  \/ x.to.prov = VertexProvider /\ x.config.auth = "service-account"

(* A mutant that caches the answers of streaming requests too. *)
Cacheable_Streams(x) == x.settings.cache

(* cacheKey exists; it is made of the tenant and the body. *)
Cacheable(x) == x.settings.cache /\ ~x.body.stream

(* V1OpenAICompatibleClient.keyOrder from cursor value n, and the keys     *)
(* request() may try.  A client without keys sends once, without one; the  *)
(* Vertex client is made without a strategy.                               *)
KeyOrder(x, n) ==
  LET keys == x.config.keys IN
  IF keys = 0 THEN <<0>>
  ELSE IF x.to.prov = VertexProvider \/ x.config.strategy = "first" THEN <<1>>
  ELSE LET start == IF x.config.strategy = "round-robin" THEN n ELSE 0
       IN  [i \in 1..keys |-> ((start + i - 1) % keys) + 1]

Rotates(x) == /\ x.to.prov # VertexProvider
              /\ x.config.keys >= 2 /\ x.config.strategy = "round-robin"

-----------------------------------------------------------------------------
Becomes(r, x) == chat' = [chat EXCEPT ![r] = x]
Refuse(r) == Becomes(r, [chat[r] EXCEPT !.pc = "refused", !.config = NoConfig])

(* record(): one metric and, by every exit that records, the trace.  cost  *)
(* is outcome.costUsd: "none" where the route gives none.                  *)
Recorded(x, status, usage, cost) ==
  [x EXCEPT !.records = Append(@, [status |-> status, usage |-> usage, cost |-> cost]),
            !.traces = IF x.config.trace THEN @ + 1 ELSE @,
            !.untried = <<>>]

Failed(x) == [Recorded(x, "error", FALSE, "none") EXCEPT !.pc = "answered"]

(* What is awaited outside a try throws: 500, no metric and no trace. *)
Broken(x) == [x EXCEPT !.pc = "broken", !.untried = <<>>]

(* An answer that may be cached is answered before it is. *)
Completed(x, usage, cost) ==
  [Recorded(x, "ok", usage, cost) EXCEPT
     !.pc = IF Cacheable(x) THEN "put" ELSE "answered", !.by = x.to]

(* Settings are read, the body parsed, the provider named and checked: up  *)
(* to the await of getProviderConfig.                                      *)
StartChat(r, key, body) ==
  /\ chat[r].pc = "new"
  /\ LET x == [chat[r] EXCEPT !.key = key, !.body = body, !.settings = chatSettings,
                              !.to = TargetOf(key, body)]
         ok == /\ chatSettings.active
               /\ ~Mismatch(key, body)
               /\ x.to # NoTarget
               /\ ProviderAllowed(key, x.to.prov)
     IN  Becomes(r, [x EXCEPT !.pc = IF ok THEN "config" ELSE "refused"])
  /\ UNCHANGED <<chatSettings, configs, cache, cursor>>

(* A mutant that checks the model before the default is filled in. *)
ReadConfig_EarlyCheck(r) ==
  LET x == chat[r]
      c == IF x.to.prov \in ChatProviders THEN configs[x.to.prov] ELSE NoConfig
      to == IF c.present /\ x.to.model = ""
              THEN [x.to EXCEPT !.model = DefaultModel(c, x.to.prov)] ELSE x.to
      ok == /\ c.present /\ c.enabled
            /\ c.keys > 0 \/ x.to.prov \notin Known
            /\ to.model # ""
            /\ x.to.model = "" \/ ModelAllowed({x.settings.allow, x.key.models}, x.to)
  IN  /\ x.pc = "config"
      /\ IF ok THEN Becomes(r, [x EXCEPT !.pc = "limits", !.config = c, !.to = to])
         ELSE Refuse(r)
      /\ UNCHANGED <<chatSettings, configs, cache, cursor>>

(* The configuration is read, the default model filled in and the model    *)
(* checked against the settings read before.  A custom provider needs no   *)
(* key.                                                                    *)
ReadConfig(r) ==
  LET x == chat[r]
      c == IF x.to.prov \in ChatProviders THEN configs[x.to.prov] ELSE NoConfig
      to == IF c.present /\ x.to.model = ""
              THEN [x.to EXCEPT !.model = DefaultModel(c, x.to.prov)] ELSE x.to
      ok == /\ c.present /\ c.enabled
            /\ c.keys > 0 \/ x.to.prov \notin Known
            /\ to.model # ""
            /\ ModelAllowed({x.settings.allow, x.key.models}, to)
  IN  /\ x.pc = "config"
      /\ IF ok THEN Becomes(r, [x EXCEPT !.pc = "limits", !.config = c, !.to = to])
         ELSE Refuse(r)
      /\ UNCHANGED <<chatSettings, configs, cache, cursor>>

(* checkRateLimits refuses, or a vertex service account yields no token or *)
(* pi-ai cannot be loaded (answered without a record), or the route goes   *)
(* on to its first await.                                                  *)
EnterRoute(r) ==
  /\ chat[r].pc = "limits"
  /\ \/ Refuse(r)
     \/ Becomes(r, [chat[r] EXCEPT !.pc = IF Cacheable(chat[r]) THEN "lookup" ELSE "upstream"])
  /\ UNCHANGED <<chatSettings, configs, cache, cursor>>

(* A hit is recorded without usage. *)
CacheHit(r) ==
  /\ chat[r].pc = "lookup"
  /\ cache[chat[r].body] # NoTarget
  /\ Becomes(r, [Recorded(chat[r], "ok", FALSE, "none") EXCEPT
                   !.pc = "answered", !.by = cache[chat[r].body]])
  /\ UNCHANGED <<chatSettings, configs, cache, cursor>>

(* No entry, or one past its ttl, which get() deletes. *)
CacheMiss(r) ==
  /\ chat[r].pc = "lookup"
  /\ cache' = [cache EXCEPT ![chat[r].body] = NoTarget]
  /\ Becomes(r, [chat[r] EXCEPT !.pc = "upstream"])
  /\ UNCHANGED <<chatSettings, configs, cursor>>

(* getCachedResponse throws: the object fails, or its body is no JSON. *)
LookupBreaks(r) ==
  /\ chat[r].pc = "lookup"
  /\ Becomes(r, Broken(chat[r]))
  /\ UNCHANGED <<chatSettings, configs, cache, cursor>>

(* Routes 1 and 2: one call of the adapter, its stream read to the end     *)
(* before the answer.  The adapter throws, or the message it returns says  *)
(* the provider failed (pi-ai; of a stream this is recorded as a success), *)
(* or it is complete.  GoogleDirectAdapter's usage has a cost of 0.        *)
CallAdapter(r) ==
  LET x == [chat[r] EXCEPT !.sent = @ + 1]
      cost == IF Express(x) THEN "zero" ELSE "priced"
      done == [x EXCEPT !.oks = @ + 1]
  IN  /\ x.pc = "upstream" /\ ~Compat(x)
      /\ \/ Becomes(r, Failed(x))
         \/ /\ ~Express(x)
            /\ IF x.body.stream THEN Becomes(r, Completed(x, TRUE, cost))
               ELSE Becomes(r, [Recorded(x, "error", TRUE, cost) EXCEPT !.pc = "answered"])
         \/ Becomes(r, Completed(done, TRUE, cost))
      /\ UNCHANGED <<chatSettings, configs, cache, cursor>>

(* Route 3: V1OpenAICompatibleClient.request, one fetch. *)
Sending(r) ==
  LET x == chat[r] IN
  [x EXCEPT !.sent = @ + 1,
            !.untried = Tail(IF x.sent = 0 THEN KeyOrder(x, cursor) ELSE @)]

TurnCursor(x) == cursor' = IF x.sent = 0 /\ Rotates(x) THEN (cursor + 1) % 2 ELSE cursor

(* fetch throws; or the status is one no other key is tried for, or there  *)
(* is no other key.                                                        *)
SendFails(r) ==
  /\ chat[r].pc = "upstream" /\ Compat(chat[r])
  /\ Becomes(r, Failed(Sending(r)))
  /\ TurnCursor(chat[r])
  /\ UNCHANGED <<chatSettings, configs, cache>>

(* A mutant that sends again with the key that failed. *)
TryNextKey_SameKey(r) ==
  /\ chat[r].pc = "upstream" /\ Compat(chat[r])
  /\ Sending(r).untried # <<>>
  /\ Becomes(r, [Sending(r) EXCEPT !.untried = KeyOrder(chat[r], cursor)])
  /\ TurnCursor(chat[r])
  /\ UNCHANGED <<chatSettings, configs, cache>>

(* 401, 403, 429 or a server error, and another key. *)
TryNextKey(r) ==
  /\ chat[r].pc = "upstream" /\ Compat(chat[r])
  /\ Sending(r).untried # <<>>
  /\ Becomes(r, Sending(r))
  /\ TurnCursor(chat[r])
  /\ UNCHANGED <<chatSettings, configs, cache>>

(* A body that is not streamed is answered with its usage, if it has any;  *)
(* a stream goes to the client through the usage transform.                *)
SendSucceeds(r) ==
  LET x == [Sending(r) EXCEPT !.oks = @ + 1] IN
  /\ chat[r].pc = "upstream" /\ Compat(chat[r])
  /\ \/ x.body.stream /\ Becomes(r, [x EXCEPT !.pc = "streaming", !.untried = <<>>])
     \/ \E usage \in BOOLEAN : Becomes(r, Completed(x, usage, "none"))
  /\ TurnCursor(chat[r])
  /\ UNCHANGED <<chatSettings, configs, cache>>

(* The body breaks while upstream.text() reads it: that of a failure, or   *)
(* of an answer that is not streamed, which the provider has completed.    *)
BodyBreaks(r) ==
  LET x == Broken(Sending(r)) IN
  /\ chat[r].pc = "upstream" /\ Compat(chat[r])
  /\ \/ Becomes(r, x)
     \/ ~x.body.stream /\ Becomes(r, [x EXCEPT !.oks = @ + 1])
  /\ TurnCursor(chat[r])
  /\ UNCHANGED <<chatSettings, configs, cache>>

(* A mutant whose end of stream is recorded whenever it is told of one. *)
StreamEnds_Repeats(r) ==
  /\ chat[r].pc = "streaming"
  /\ Becomes(r, [Completed(chat[r], FALSE, "none") EXCEPT !.pc = "streaming"])
  /\ UNCHANGED <<chatSettings, configs, cache, cursor>>

(* The stream is flushed, the client cancels it, or the provider breaks it *)
(* off: the runtime tells the transform of each.                           *)
StreamEnds(r) ==
  /\ chat[r].pc = "streaming"
  /\ \E usage \in BOOLEAN : Becomes(r, Completed(chat[r], usage, "none"))
  /\ UNCHANGED <<chatSettings, configs, cache, cursor>>

(* putCachedResponse, in the background; a failure is only logged. *)
PutCached(r) ==
  /\ chat[r].pc = "put"
  /\ \/ cache' = [cache EXCEPT ![chat[r].body] = chat[r].by]
     \/ UNCHANGED cache
  /\ Becomes(r, [chat[r] EXCEPT !.pc = "answered"])
  /\ UNCHANGED <<chatSettings, configs, cursor>>

(* Bound: the settings and configurations change only while a request is   *)
(* to read them.                                                           *)
SomebodyReads == \E r \in Chats : chat[r].pc \in {"new", "config"}

SetChatSettings(new) ==
  /\ SomebodyReads
  /\ chatSettings' = new
  /\ UNCHANGED <<configs, cache, cursor, chat>>

SetConfig(p, new) ==
  /\ SomebodyReads
  /\ configs' = [configs EXCEPT ![p] = new]
  /\ UNCHANGED <<chatSettings, cache, cursor, chat>>

ChatStep(r) ==
  \/ \E key \in ChatKeys, body \in Bodies : StartChat(r, key, body)
  \/ ReadConfig(r) \/ EnterRoute(r) \/ CacheHit(r) \/ CacheMiss(r)
  \/ LookupBreaks(r) \/ CallAdapter(r) \/ SendFails(r) \/ TryNextKey(r)
  \/ SendSucceeds(r) \/ BodyBreaks(r) \/ StreamEnds(r) \/ PutCached(r)

ChatNext ==
  \/ \E r \in Chats : ChatStep(r)
  \/ \E new \in ChatSettings : SetChatSettings(new)
  \/ \E p \in ChatProviders : \E new \in ConfigsOf[p] : SetConfig(p, new)

ChatSpec == ChatInit /\ [][ChatNext]_chatVars

-----------------------------------------------------------------------------
ChatPcs == {"new", "config", "limits", "lookup", "upstream", "streaming", "put",
            "answered", "broken", "refused"}

ChatTypeOK ==
  /\ chatSettings \in ChatSettings
  /\ \A p \in ChatProviders : configs[p] \in ConfigsOf[p]
  /\ cursor \in {0, 1}
  /\ \A r \in Chats :
       LET x == chat[r] IN
         /\ x.pc \in ChatPcs
         /\ x.pc # "new" => x.key \in ChatKeys /\ x.body \in Bodies
         /\ x.pc \in ChatPcs \ {"new", "config", "refused"} =>
              x.config.present /\ x.config \in ConfigsOf[x.to.prov]
         /\ x.sent \in Nat /\ x.oks \in Nat /\ x.traces \in Nat

(* No request is recorded or traced twice, and one that reached its end is *)
(* recorded and traced, unless it was refused or a read outside a try      *)
(* broke.  So a provider's answer only goes unrecorded when it is not      *)
(* streamed and its body breaks: however a stream ends, it is recorded     *)
(* (requests/chat_completions_v2.ts:407-451, 886-993, 1074-1108).          *)
RecordedOnce ==
  \A r \in Chats :
    LET x == chat[r]
        n == IF x.pc \in {"put", "answered"} THEN 1 ELSE 0
    IN  /\ Len(x.records) = n
        /\ x.traces = IF x.config.trace THEN n ELSE 0
        /\ x.pc = "refused" => x.sent = 0
        /\ x.pc = "broken" /\ x.oks = 1 => ~x.body.stream

(* However keys rotate, a request is sent at most once with each key, is   *)
(* never sent again after a provider completed it, and never recorded as a *)
(* failure then (llm/v1-provider.ts:110-134).                              *)
CompletedOnce ==
  \A r \in Chats :
    LET x == chat[r] IN
      /\ x.sent <= (IF x.config.keys = 0 THEN 1 ELSE x.config.keys)
      /\ x.oks <= 1
      /\ x.oks = 1 => x.untried = <<>> /\ \A i \in DOMAIN x.records : x.records[i].status = "ok"

(* Whatever changes meanwhile, a request is only sent to the provider its  *)
(* key is bound to, to a provider and a model on the lists of its key and  *)
(* of the settings it read, the default model included                     *)
(* (requests/chat_completions_v2.ts:227-323).                              *)
SentWhereAllowed ==
  \A r \in Chats :
    LET x == chat[r] IN
      x.sent > 0 =>
        /\ x.key.bound # "" => x.to.prov = Canonical(x.key.bound)
        /\ ProviderAllowed(x.key, x.to.prov)
        /\ ModelAllowed({x.settings.allow, x.key.models}, x.to)

(* The cache holds answers of providers that completed a request with that *)
(* very body, not streamed ones and no failures                            *)
(* (requests/chat_completions_v2.ts:551-565, 986-996).                     *)
CacheHoldsCompletions ==
  \A b \in Bodies :
    cache[b] # NoTarget =>
      /\ ~b.stream
      /\ \E r \in Chats : chat[r].body = b /\ chat[r].oks = 1 /\ chat[r].by = cache[b]

(* requests/chat_completions_v2.ts:224-225: an API key may be bound to a   *)
(* provider; "the key then only ever routes to that provider".             *)
AnsweredByBoundProvider ==
  \A r \in Chats :
    chat[r].key.bound # "" /\ chat[r].by # NoTarget =>
      chat[r].by.prov = Canonical(chat[r].key.bound)

=============================================================================
