-------------------------- MODULE ModelsAndEmbeddings --------------------------
(***************************************************************************)
(* The two smaller request handlers: the list of models an API key may use *)
(* (requests/models_v2.ts) and embeddings (requests/embeddings_v2.ts).     *)
(* They name providers, check policies and rotate keys as chat requests    *)
(* do, but each with checks of its own; what they have in common comes     *)
(* from ChatRequests.                                                      *)
(*                                                                         *)
(* A model id is [scope, id, full]: providers list some ids under a scope  *)
(* of their own ("models/", "google/"), which is dropped; full is the id   *)
(* with its scope.                                                         *)
(***************************************************************************)
EXTENDS ChatRequests

CONSTANTS
  Clients,        \* calls of the two handlers
  StudioProvider, \* google-ai-studio
  Baked,          \* Baked[p]: ids in the built-in catalogue
  Pinned,         \* Pinned[p]: ids in settings.customModels
  LiveIds,        \* LiveIds[p]: what the provider may list, a set of sets of ids
  OwnScope        \* OwnScope[p]: the scope dropped from the ids of p

(* llm/provider-registry.ts:169-178. *)
ASSUME CatalogAssumption ==
  \A p \in ChatProviders : Canonical(Canonical(p)) = Canonical(p) /\ Canonical(p) # ""

VARIABLE
  client  \* client[c]: where a call stands

catalogVars == <<chatVars, client>>

NoClient == [pc |-> "new", key |-> NoChatKey, settings |-> NoSettings, seen |-> NoConfig,
             listed |-> {}, to |-> NoTarget, sends |-> 0]

CatalogInit ==
  /\ ChatInit
  /\ client = [c \in Clients |-> NoClient]

Call(c, x) == client' = [client EXCEPT ![c] = x]

-----------------------------------------------------------------------------
(* GET /v1/models *)

IdName(id) == IF id.scope = "" THEN id.id ELSE id.full

Normalized(p, id) == IF id.scope = OwnScope[p] THEN [id EXCEPT !.scope = ""] ELSE id

(* The ids of one provider.  What cannot be fetched within the time, or    *)
(* at all, is left out; a live list is only asked for with a key, of       *)
(* vertex in the mode that has one.                                        *)
ModelsOf(p, config, live) ==
  LET fetched == {Normalized(p, id) : id \in live} IN
  IF p = VertexProvider
    THEN Baked[p] \cup Pinned[p]
           \cup (IF config.auth = "service-account" /\ config.keys > 0 THEN fetched ELSE {})
  ELSE IF p = StudioProvider THEN Baked[p] \cup (IF config.keys > 0 THEN fetched ELSE {})
  ELSE IF p \in PiProviders THEN Baked[p]
  ELSE IF p \in Known THEN live
  ELSE live \cup Pinned[p]

(* A mutant that tests a bound key's own list of providers only. *)
ListsProvider_Bound(key, p) == ProviderAllowed(key, p)

(* {} stands for a key without a list; of a list that is there and empty,  *)
(* which lists nothing here and allows everything elsewhere, there is none. *)
ListsProvider(key, p) ==
  IF key.bound # "" THEN p = Canonical(key.bound) ELSE ProviderAllowed(key, p)

StartList(c, key) ==
  /\ client[c].pc = "new"
  /\ Call(c, [client[c] EXCEPT !.pc = "listing", !.key = key, !.settings = chatSettings])
  /\ UNCHANGED chatVars

(* The configurations are read at once, then each provider is asked, under *)
(* its canonical name whatever name it is configured under.                *)
ReadConfigs(c) ==
  /\ client[c].pc = "listing"
  /\ Call(c, [client[c] EXCEPT !.pc = "fetching", !.seen = configs])
  /\ UNCHANGED chatVars

FetchModels(c) ==
  LET x == client[c]
      on == {p \in ChatProviders :
               x.seen[p].present /\ x.seen[p].enabled /\ ListsProvider(x.key, Canonical(p))}
      allowed(p, id) ==
        ModelAllowed({x.settings.allow, x.key.models},
                     [prov |-> Canonical(p), model |-> IdName(id)])
  IN  /\ x.pc = "fetching"
      /\ \E live \in [ChatProviders -> {{}} \cup UNION {LiveIds[p] : p \in ChatProviders}] :
           /\ \A p \in ChatProviders :
                live[p] \in (IF p \in on THEN LiveIds[p] \cup {{}} ELSE {{}})
           /\ Call(c, [x EXCEPT !.pc = "listed",
                         !.listed = UNION {{[prov |-> Canonical(p), model |-> id] :
                                              id \in {i \in ModelsOf(Canonical(p), x.seen[p], live[p]) :
                                                        allowed(p, i)}}
                                           : p \in on}])
      /\ UNCHANGED chatVars

-----------------------------------------------------------------------------
(* POST /v1/embeddings *)

(* The model must be named; a bound key only fills in a missing provider.  *)
StartEmbedding(c, key, body) ==
  LET prov == IF body.prov # "" THEN body.prov ELSE key.bound
      to == [prov |-> Canonical(prov), model |-> body.model]
      ok == /\ chatSettings.active
            /\ prov # "" /\ to.model # ""
            /\ ProviderAllowed(key, to.prov)
  IN  /\ client[c].pc = "new"
      /\ Call(c, [client[c] EXCEPT !.pc = IF ok THEN "embedding" ELSE "refused", !.key = key,
                                   !.settings = chatSettings, !.to = to])
      /\ UNCHANGED chatVars

(* A mutant that trusts the list of the key alone. *)
EmbeddingRefused_KeyOnly(x, config) ==
  \/ ~config.present \/ ~config.enabled
  \/ x.to.prov \notin CompatProviders
  \/ ~ModelAllowed({x.key.models}, x.to)

EmbeddingRefused(x, config) ==
  \/ ~config.present \/ ~config.enabled
  \/ x.to.prov \notin CompatProviders
  \/ ~ModelAllowed({x.settings.allow, x.key.models}, x.to)

(* No cache, no rate limit and no metric: the request is sent with the     *)
(* configuration read, and its answer handed on.                           *)
ReadEmbeddingConfig(c) ==
  LET x == client[c]
      config == IF x.to.prov \in ChatProviders THEN configs[x.to.prov] ELSE NoConfig
  IN  /\ x.pc = "embedding"
      /\ Call(c, IF EmbeddingRefused(x, config) THEN [x EXCEPT !.pc = "refused"]
                 ELSE [x EXCEPT !.pc = "sending", !.seen = config])
      /\ UNCHANGED chatVars

EmbeddingOrder(x) == KeyOrder([to |-> x.to, config |-> x.seen], cursor)

(* One fetch: with another key left, a refused key is followed by it.      *)
SendEmbedding(c) ==
  LET x == client[c] IN
  /\ x.pc = "sending"
  /\ \/ Call(c, [x EXCEPT !.pc = "sent", !.sends = @ + 1])
     \/ /\ x.sends + 1 < Len(EmbeddingOrder(x))
        /\ Call(c, [x EXCEPT !.sends = @ + 1])
  /\ cursor' = IF x.sends = 0 /\ Rotates([to |-> x.to, config |-> x.seen])
                 THEN (cursor + 1) % 2 ELSE cursor
  /\ UNCHANGED <<chatSettings, configs, cache, chat>>

CatalogSettings ==
  /\ \E c \in Clients : client[c].pc \in {"new", "listing", "embedding"}
  /\ \/ \E new \in ChatSettings : chatSettings' = new /\ UNCHANGED configs
     \/ \E p \in ChatProviders : \E new \in ConfigsOf[p] :
          configs' = [configs EXCEPT ![p] = new] /\ UNCHANGED chatSettings
  /\ UNCHANGED <<cache, cursor, chat, client>>

CatalogNext ==
  \/ \E c \in Clients :
       \/ ReadConfigs(c) \/ FetchModels(c) \/ ReadEmbeddingConfig(c) \/ SendEmbedding(c)
       \/ \E key \in ChatKeys :
            StartList(c, key) \/ \E body \in Bodies : StartEmbedding(c, key, body)
  \/ CatalogSettings

CatalogSpec == CatalogInit /\ [][CatalogNext]_catalogVars

-----------------------------------------------------------------------------
CatalogTypeOK ==
  \A c \in Clients :
    LET x == client[c] IN
      /\ x.pc \in {"new", "listing", "fetching", "listed", "embedding", "sending", "sent", "refused"}
      /\ x.pc = "listed" => \A e \in x.listed : \E p \in ChatProviders : e.prov = Canonical(p)
      /\ x.sends \in Nat

(* A model on the list comes from an enabled configuration of its provider *)
(* and passes what a chat request with the same key checks of names and    *)
(* lists, if the key's provider is on the key's own list and settings are  *)
(* as they were (requests/models_v2.ts:210-288).  Chat may still refuse it *)
(* for the configuration: it wants one under the canonical name, with a    *)
(* key unless the provider is a custom one.                                *)
ListedModelsAllowed ==
  \A c \in Clients :
    LET x == client[c] IN
      x.pc = "listed" =>
        \A e \in x.listed :
          LET body == [prov |-> e.prov, model |-> IdName(e.model),
                       stream |-> FALSE]
              to == TargetOf(x.key, body)
          IN  /\ \E p \in ChatProviders :
                   Canonical(p) = e.prov /\ x.seen[p].present /\ x.seen[p].enabled
              /\ ~Mismatch(x.key, body)
              /\ to = [prov |-> e.prov, model |-> body.model]
              /\ (x.key.bound = "" \/ ProviderAllowed(x.key, Canonical(x.key.bound)))
                   => ProviderAllowed(x.key, to.prov)
              /\ ModelAllowed({x.settings.allow, x.key.models}, to)

(* An embedding is sent to a provider and a model on the lists of the key  *)
(* and of the settings read, and at most once with each key                *)
(* (requests/embeddings_v2.ts:22-109).                                     *)
EmbeddedWhereAllowed ==
  \A c \in Clients :
    LET x == client[c] IN
      x.sends > 0 =>
        /\ x.settings.active
        /\ ProviderAllowed(x.key, x.to.prov)
        /\ ModelAllowed({x.settings.allow, x.key.models}, x.to)
        /\ x.sends <= (IF x.seen.keys = 0 THEN 1 ELSE x.seen.keys)

(* requests/chat_completions_v2.ts:224-225: a bound key "only ever routes  *)
(* to that provider"; of embeddings this does not hold.                    *)
EmbeddedByBoundProvider ==
  \A c \in Clients :
    client[c].key.bound # "" /\ client[c].sends > 0 =>
      client[c].to.prov = Canonical(client[c].key.bound)

=============================================================================
