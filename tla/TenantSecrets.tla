----------------------------- MODULE TenantSecrets -----------------------------
(***************************************************************************)
(* The provider credentials of one tenant.  The master key (KEK) is made   *)
(* on first use and kept in system_settings (bootstrap/secrets.ts, db/     *)
(* settings.ts); it wraps the tenant's data key (DEK) in tenant_keys       *)
(* (tenants/encryption.ts, db/tenant.ts), made on first use as well; that  *)
(* encrypts the keys in provider_configs (llm/credential-store.ts), which  *)
(* the dashboard saves, lists and deletes (api/provider-config.ts).        *)
(*                                                                         *)
(* Calls interleave at every await and may fail at each.  A row that       *)
(* exists was encrypted with a stored DEK, so the reads of a single row    *)
(* create none: they are one step.                                         *)
(***************************************************************************)
EXTENDS Integers, FiniteSets

CONSTANTS
  SecretCalls,     \* dashboard calls
  Isolates,        \* isolates of the Worker
  SecretProviders, \* provider ids
  CloudProvider,   \* google-vertex, whose settings and keys are validated together
  KeyInputs,       \* values of body.keys, sets of keys
  SettingsInputs   \* values of body.settings, [auth, project]

Absent == "none"  \* a value that is not there, or was not given
NoKeys == {"undefined"}
NoPatch == [auth |-> "undefined", project |-> Absent]
Blank == [auth |-> Absent, project |-> Absent]

(* A promise that getEncryptionKey keeps: "none", "pending", "failed" or   *)
(* the key.  A key is named for the call that made it.                     *)
Held == {"none", "pending", "failed"}

ASSUME SecretAssumption ==
  /\ CloudProvider \in SecretProviders
  /\ NoKeys \notin KeyInputs /\ NoPatch \notin SettingsInputs
  /\ \A s \in SettingsInputs : s = [auth |-> s.auth, project |-> s.project]
  /\ SecretCalls \cap Held = {} /\ Absent \notin Isolates

VARIABLES
  master,   \* the row app.encryption_key of system_settings, or Absent
  memo,     \* memo[i]: encryptionKeyCache of isolate i
  dekRow,   \* the tenant's row of tenant_keys
  config,   \* config[p]: the row of provider p; its id is the call that inserted it
  action,   \* action[c]: where call c stands; how it ended is not kept
  lastKeys, \* history: lastKeys[p], the keys of the last save that named any
  flags     \* history: which overlaps there have been

secretVars == <<master, memo, dekRow, config, action, lastKeys, flags>>

NoDek == [dek |-> Absent, kek |-> Absent]
NoConfigRow == [there |-> FALSE, id |-> Absent, creds |-> {}, settings |-> Blank]
NoFlags == [raced |-> FALSE, overlapped |-> FALSE, removed |-> FALSE]

NoAction == [pc |-> "new", isolate |-> Absent, kind |-> Absent, prov |-> Absent, keys |-> NoKeys,
             patch |-> NoPatch, dek |-> NoDek, then |-> Absent, seen |-> NoConfigRow]

SecretInit ==
  /\ master = Absent /\ memo = [i \in Isolates |-> "none"]
  /\ dekRow = NoDek
  /\ config = [p \in SecretProviders |-> NoConfigRow]
  /\ action = [c \in SecretCalls |-> NoAction]
  /\ lastKeys = [p \in SecretProviders |-> {}]
  /\ flags = NoFlags

Moves(c, x) == action' = [action EXCEPT ![c] = x]
EndedAction == [NoAction EXCEPT !.pc = "ended"]
To(c, pc) ==
  Moves(c, IF pc \in {"done", "failed", "refused"} THEN EndedAction ELSE [action[c] EXCEPT !.pc = pc])
Isolate(c) == action[c].isolate
Kek(c) == memo[Isolate(c)]

-----------------------------------------------------------------------------
(* PUT /api/providers/:provider, before saveProviderConfig *)

Merged(old, new) ==
  IF new = NoPatch THEN old
  ELSE [auth |-> IF new.auth = Absent THEN old.auth ELSE new.auth,
        project |-> IF new.project = Absent THEN old.project ELSE new.project]

Readable(row) == \A x \in row.creds : x.dek = dekRow.dek

(* The settings given, or those stored; a row whose keys cannot be         *)
(* decrypted cannot be read, and the call fails.                           *)
StartPut(c, i, p, keys, patch) ==
  LET x == [action[c] EXCEPT !.isolate = i, !.kind = "put", !.prov = p, !.keys = keys,
                             !.patch = IF patch = NoPatch THEN config[p].settings ELSE patch]
      fails == patch = NoPatch /\ config[p].there /\ ~Readable(config[p])
  IN  /\ action[c].pc = "new"
      /\ Moves(c, IF fails THEN EndedAction ELSE [x EXCEPT !.pc = "validate"])
      /\ UNCHANGED <<master, memo, dekRow, config, lastKeys, flags>>

Effective(c) ==
  LET x == action[c] IN
  IF x.keys # NoKeys THEN x.keys ELSE {cred.key : cred \in config[x.prov].creds}

(* A mutant that takes a credential for granted where none is sent. *)
CloudValid_NewKeys(c) ==
  LET x == action[c] IN
    /\ x.patch.auth \in {"api-key", "service-account"}
    /\ x.patch.auth = "service-account" => x.patch.project # Absent
    /\ x.keys = NoKeys \/ x.keys # {}

(* parseVertexConfig, of the settings and the keys to be saved or stored. *)
CloudValid(c) ==
  LET x == action[c] IN
    /\ x.patch.auth \in {"api-key", "service-account"}
    /\ x.patch.auth = "service-account" => x.patch.project # Absent
    /\ Effective(c) # {}

(* Invalid: 400.  A new provider without a name is given one, for which    *)
(* all the configurations are listed.                                      *)
Validate(c) ==
  LET x == action[c] IN
  /\ x.pc = "validate"
  /\ IF x.prov = CloudProvider /\ ~Readable(config[x.prov]) THEN To(c, "failed")
     ELSE IF x.prov = CloudProvider /\ ~CloudValid(c) THEN To(c, "refused")
     ELSE \E named \in BOOLEAN :
            Moves(c, [x EXCEPT !.pc = "kek",
                         !.then = IF named \/ config[x.prov].there THEN "save" ELSE "name"])
  /\ UNCHANGED <<master, memo, dekRow, config, lastKeys, flags>>

(* GET /api/providers and the list of models decrypt every configuration;  *)
(* they open a crypto context when there is none, too.                     *)
StartListing(c, i) ==
  /\ action[c].pc = "new"
  /\ Moves(c, [action[c] EXCEPT !.pc = "kek", !.isolate = i, !.kind = "list", !.then = "list"])
  /\ UNCHANGED <<master, memo, dekRow, config, lastKeys, flags>>

-----------------------------------------------------------------------------
(* TenantCryptoContext.create: the KEK *)

(* The first call of the isolate makes the promise, the others wait. *)
AskKek(c) ==
  /\ action[c].pc = "kek"
  /\ IF Kek(c) = "none"
       THEN /\ memo' = [memo EXCEPT ![Isolate(c)] = "pending"]
            /\ To(c, "kek-select")
       ELSE /\ Kek(c) # "pending"
            /\ To(c, IF Kek(c) = "failed" THEN "failed" ELSE "dek")
            /\ UNCHANGED memo
  /\ UNCHANGED <<master, dekRow, config, lastKeys, flags>>

Resolves(c, key) ==
  /\ memo' = [memo EXCEPT ![Isolate(c)] = key]
  /\ To(c, "dek")

SelectKek(c) ==
  /\ action[c].pc = "kek-select"
  /\ IF master # Absent THEN Resolves(c, master) ELSE To(c, "kek-insert") /\ UNCHANGED memo
  /\ UNCHANGED <<master, dekRow, config, lastKeys, flags>>

(* A mutant that keeps the key it made, whoever was first. *)
InsertKek_Own(c) ==
  /\ action[c].pc = "kek-insert"
  /\ master' = IF master = Absent THEN c ELSE master
  /\ Resolves(c, c)
  /\ UNCHANGED <<dekRow, config, lastKeys, flags>>

(* ON CONFLICT DO NOTHING *)
InsertKek(c) ==
  /\ action[c].pc = "kek-insert"
  /\ master' = IF master = Absent THEN c ELSE master
  /\ To(c, "kek-reread")
  /\ UNCHANGED <<memo, dekRow, config, lastKeys, flags>>

RereadKek(c) ==
  /\ action[c].pc = "kek-reread"
  /\ Resolves(c, IF master = Absent THEN c ELSE master)
  /\ UNCHANGED <<master, dekRow, config, lastKeys, flags>>

(* resolveTenantDek: a DEK wrapped with another KEK cannot be unwrapped. *)
GetDek(c) ==
  LET others == {o \in SecretCalls \ {c} : action[o].pc = "dek-put"} IN
  /\ action[c].pc = "dek"
  /\ IF dekRow # NoDek
       THEN /\ IF dekRow.kek = Kek(c)
                 THEN Moves(c, [action[c] EXCEPT !.pc = "opened", !.dek = dekRow])
                 ELSE To(c, "failed")
            /\ UNCHANGED flags
       ELSE /\ To(c, "dek-put")
            /\ flags' = IF others # {} THEN [flags EXCEPT !.raced = TRUE] ELSE flags
  /\ UNCHANGED <<master, memo, dekRow, config, lastKeys>>

(* A mutant that forgets to store the key it made. *)
PutDek_Unsaved(c) ==
  /\ action[c].pc = "dek-put"
  /\ Moves(c, [action[c] EXCEPT !.pc = "opened", !.dek = [dek |-> c, kek |-> Kek(c)]])
  /\ UNCHANGED <<master, memo, dekRow, config, lastKeys, flags>>

(* put() overwrites a row that is there by now. *)
PutDek(c) ==
  LET made == [dek |-> c, kek |-> Kek(c)] IN
  /\ action[c].pc = "dek-put"
  /\ dekRow' = made
  /\ Moves(c, [action[c] EXCEPT !.pc = "opened", !.dek = made])
  /\ UNCHANGED <<master, memo, config, lastKeys, flags>>

-----------------------------------------------------------------------------
(* With the context *)

Decrypts(c, row) == \A x \in row.creds : x.dek = action[c].dek.dek

(* Every row is decrypted, for a list or for the name of a new provider. *)
ListConfigs(c) ==
  /\ action[c].pc = "opened" /\ action[c].then \in {"list", "name"}
  /\ IF \E p \in SecretProviders : ~Decrypts(c, config[p]) THEN To(c, "failed")
     ELSE IF action[c].then = "list" THEN To(c, "done")
     ELSE Moves(c, [action[c] EXCEPT !.pc = "kek", !.then = "save"])
  /\ UNCHANGED <<master, memo, dekRow, config, lastKeys, flags>>

SaveReads(c) ==
  LET row == config[action[c].prov] IN
  /\ action[c].pc = "opened" /\ action[c].then = "save"
  /\ IF Decrypts(c, row) THEN Moves(c, [action[c] EXCEPT !.pc = "write", !.seen = row])
     ELSE To(c, "failed")
  /\ UNCHANGED <<master, memo, dekRow, config, lastKeys, flags>>

(* A mutant that stores no key where none is sent. *)
CredsToSave_Given(x) ==
  IF x.keys = NoKeys THEN {} ELSE {[key |-> k, dek |-> x.dek.dek] : k \in x.keys}

CredsToSave(x) ==
  IF x.keys = NoKeys THEN x.seen.creds ELSE {[key |-> k, dek |-> x.dek.dek] : k \in x.keys}

(* INSERT, which fails when the provider has a row by now, or UPDATE of    *)
(* the row that was read, which changes nothing when it is there no more.  *)
SaveWrites(c) ==
  LET x == action[c]
      row == config[x.prov]
      inserts == ~x.seen.there /\ ~row.there
      updates == x.seen.there /\ row.there /\ row.id = x.seen.id
      writes == inserts \/ updates
  IN  /\ x.pc = "write"
      /\ To(c, IF row.there /\ ~x.seen.there THEN "failed" ELSE "done")
      /\ config' = IF writes
           THEN [config EXCEPT ![x.prov] =
                   [there |-> TRUE, id |-> IF updates THEN row.id ELSE c,
                    creds |-> CredsToSave(x), settings |-> Merged(x.seen.settings, x.patch)]]
           ELSE config
      /\ lastKeys' = IF writes /\ x.keys # NoKeys
           THEN [lastKeys EXCEPT ![x.prov] = x.keys] ELSE lastKeys
      /\ flags' = [flags EXCEPT !.overlapped = @ \/ (writes /\ row # x.seen)]
      /\ UNCHANGED <<master, memo, dekRow>>

(* DELETE /api/providers/:provider *)
DeleteConfig(c, p) ==
  /\ action[c].pc = "new"
  /\ Moves(c, EndedAction)
  /\ config' = [config EXCEPT ![p] = NoConfigRow]
  /\ lastKeys' = [lastKeys EXCEPT ![p] = {}]
  /\ flags' = [flags EXCEPT !.removed =
       @ \/ \E o \in SecretCalls : action[o].kind = "put" /\ action[o].prov = p
                                   /\ action[o].pc \notin {"new", "ended"}]
  /\ UNCHANGED <<master, memo, dekRow>>

(* D1 fails the call; the promise of a KEK keeps the failure. *)
CallFails(c) ==
  /\ action[c].pc \notin {"new", "ended"}
  /\ To(c, "failed")
  /\ memo' = IF action[c].pc \in {"kek-select", "kek-insert", "kek-reread"}
               THEN [memo EXCEPT ![Isolate(c)] = "failed"] ELSE memo
  /\ UNCHANGED <<master, dekRow, config, lastKeys, flags>>

(* Another isolate takes the place of one without calls. *)
IsolateReplaced(i) ==
  /\ memo[i] \notin {"none", "pending"}
  /\ \A c \in SecretCalls : Isolate(c) # i
  /\ memo' = [memo EXCEPT ![i] = "none"]
  /\ UNCHANGED <<master, dekRow, config, action, lastKeys, flags>>

SecretNext ==
  \/ \E c \in SecretCalls :
       \/ Validate(c) \/ AskKek(c) \/ SelectKek(c) \/ InsertKek(c) \/ RereadKek(c)
       \/ GetDek(c) \/ PutDek(c) \/ ListConfigs(c) \/ SaveReads(c) \/ SaveWrites(c)
       \/ CallFails(c)
       \/ \E p \in SecretProviders : DeleteConfig(c, p)
       \/ \E i \in Isolates :
            \/ StartListing(c, i)
            \/ \E p \in SecretProviders :
                 \E keys \in KeyInputs \cup {NoKeys}, patch \in SettingsInputs \cup {NoPatch} :
                   StartPut(c, i, p, keys, patch)
  \/ \E i \in Isolates : IsolateReplaced(i)

SecretSpec == SecretInit /\ [][SecretNext]_secretVars

-----------------------------------------------------------------------------
SecretPcs == {"new", "validate", "kek", "kek-select", "kek-insert", "kek-reread", "dek",
              "dek-put", "opened", "write", "ended"}

SecretTypeOK ==
  /\ master \in SecretCalls \cup {Absent}
  /\ \A i \in Isolates : memo[i] \in Held \cup SecretCalls
  /\ dekRow = NoDek \/ dekRow.dek \in SecretCalls
  /\ \A c \in SecretCalls : action[c].pc \in SecretPcs
  /\ \A p \in SecretProviders : config[p].there \/ config[p] = NoConfigRow

(* Whoever comes first, every isolate works with the stored master key,    *)
(* and the tenant's data key is wrapped with it (db/settings.ts:34-52,     *)
(* bootstrap/secrets.ts:41-48).                                            *)
KekStable ==
  /\ \A i \in Isolates : memo[i] \notin Held => memo[i] = master
  /\ dekRow # NoDek => dekRow.kek = master

(* What is stored can be decrypted with the tenant's data key, unless two  *)
(* calls found none at the same time (tenants/encryption.ts:135-160).      *)
SoleUseDecryptable ==
  ~flags.raced =>
    \A p \in SecretProviders : \A x \in config[p].creds : x.dek = dekRow.dek

(* tenants/encryption.ts:131-133: "Resolve a tenant's DEK, creating +      *)
(* persisting a fresh wrapped DEK on first use": what is encrypted with it *)
(* can be decrypted, whoever used it first.                                *)
KeysDecryptable ==
  \A p \in SecretProviders : \A x \in config[p].creds : x.dek = dekRow.dek

(* The keys of a provider are those of the last save that named any, until *)
(* it is deleted, unless a save wrote over a row it had not read           *)
(* (llm/credential-store.ts:176-254).                                      *)
KeysKept ==
  ~flags.overlapped =>
    \A p \in SecretProviders : {x.key : x \in config[p].creds} = lastKeys[p]

(* A stored configuration of Vertex has a mode and a credential, and a     *)
(* project where the mode needs it, however settings and keys were saved   *)
(* one without the other, unless it was deleted during a save or two saves *)
(* overlapped (api/provider-config.ts:268-296).                            *)
StoredCloudValid ==
  LET row == config[CloudProvider] IN
    row.there /\ ~flags.removed /\ ~flags.overlapped =>
      /\ row.settings.auth \in {"api-key", "service-account"}
      /\ row.settings.auth = "service-account" => row.settings.project # Absent
      /\ row.creds # {}

=============================================================================
