----------------------------- MODULE TenantProofs -----------------------------
(***************************************************************************)
(* Proofs about a tenant's secrets (TenantSecrets), the tenants of a       *)
(* deployment (TenantDirectory) and the members, sessions and keys of a    *)
(* tenant (TeamAndKeys).                                                   *)
(***************************************************************************)
EXTENDS TenantSecrets, TenantDirectory, TeamAndKeys, FiniteSetTheorems, TLAPS

-----------------------------------------------------------------------------
(* TenantSecrets *)

(* The assumptions, element by element. *)
LEMMA SecretFacts ==
  /\ CloudProvider \in SecretProviders
  /\ NoKeys \notin KeyInputs
  /\ \A c \in SecretCalls : c \notin Held
  /\ Absent \notin Isolates /\ Absent \in Held
  BY SecretAssumption DEF Held, Absent

-----------------------------------------------------------------------------
(* Types *)

Names == SecretCalls \cup {Absent}
KeyNames == (UNION KeyInputs) \cup {"undefined"}
Creds == [key : KeyNames, dek : Names]
SettingsOf == [auth : {s.auth : s \in SettingsInputs} \cup {Absent, "undefined"},
               project : {s.project : s \in SettingsInputs} \cup {Absent}]
ConfigRow == [there : BOOLEAN, id : Names, creds : SUBSET Creds, settings : SettingsOf]
DekRow == [dek : Names, kek : Names]
Actions == [pc : SecretPcs, isolate : Isolates \cup {Absent}, kind : {Absent, "put", "list"},
            prov : SecretProviders \cup {Absent}, keys : SUBSET KeyNames, patch : SettingsOf,
            dek : DekRow, then : {Absent, "save", "name", "list"}, seen : ConfigRow]
FlagSet == [raced : BOOLEAN, overlapped : BOOLEAN, removed : BOOLEAN]

SecretTyped ==
  /\ master \in Names
  /\ memo \in [Isolates -> Held \cup SecretCalls]
  /\ dekRow \in DekRow
  /\ config \in [SecretProviders -> ConfigRow]
  /\ action \in [SecretCalls -> Actions]
  /\ flags \in FlagSet
  /\ lastKeys \in [SecretProviders -> SUBSET KeyNames]

-----------------------------------------------------------------------------
(* The invariant *)

Asking == {"kek-select", "kek-insert", "kek-reread"}
IdlePcs == {"new", "ended"}

(* A call that asks for the KEK holds the promise; one that goes on has a  *)
(* key.                                                                    *)
KekCall(y) ==
  /\ y.pc \notin IdlePcs => y.isolate \in Isolates
  /\ y.pc \in Asking => memo[y.isolate] = "pending"
  /\ y.pc = "kek-reread" => master # Absent
  /\ y.pc \in {"dek", "dek-put"} => memo[y.isolate] \notin Held

(* Without a race a call works with the stored DEK. *)
DekCall(y) ==
  ~flags.raced =>
    /\ y.pc = "dek-put" => dekRow = NoDek
    /\ y.pc \in {"opened", "write"} => y.dek = dekRow /\ dekRow # NoDek
    /\ y.pc = "write" => \A x \in y.seen.creds : x.dek = dekRow.dek

(* What a save is about to do. *)
PutCall(y) ==
  /\ y.pc = "validate" \/ y.then \in {"save", "name"} =>
       y.kind = "put" /\ y.prov \in SecretProviders
  /\ y.pc = "write" => y.then = "save"

ValidSettings(s) ==
  s.auth \in {"api-key", "service-account"} /\ (s.auth = "service-account" => s.project # Absent)

Undisturbed == ~flags.removed /\ ~flags.overlapped

(* Past its validation a save of Vertex has settings and a credential. *)
CloudCall(y) ==
  y.kind = "put" /\ y.prov = CloudProvider /\ y.pc \notin IdlePcs \cup {"validate"} =>
    /\ ValidSettings(y.patch)
    /\ y.keys # {}
    /\ y.keys = NoKeys /\ Undisturbed => config[CloudProvider].creds # {}

SoundCall(y) == KekCall(y) /\ DekCall(y) /\ PutCall(y) /\ CloudCall(y)

SoundCalls == \A c \in SecretCalls : SoundCall(action[c])

(* One call of an isolate at a time asks for the KEK, and without a race   *)
(* one call makes the DEK.                                                 *)
OneAsks ==
  \A c, d \in SecretCalls :
    c # d /\ action[c].pc \in Asking /\ action[d].pc \in Asking => Isolate(c) # Isolate(d)
OnePuts ==
  ~flags.raced =>
    \A c, d \in SecretCalls : c # d => ~(action[c].pc = "dek-put" /\ action[d].pc = "dek-put")

(* No data key without a KEK, and nothing encrypted without a data key. *)
KekFirst == dekRow # NoDek => master # Absent
DekFirst == ~flags.raced /\ dekRow = NoDek => \A p \in SecretProviders : config[p].creds = {}

(* A row that is not there holds nothing. *)
RowsWhole ==
  /\ \A p \in SecretProviders : config[p].there \/ config[p] = NoConfigRow
  /\ dekRow = NoDek \/ dekRow.dek \in SecretCalls

StoreInv ==
  /\ KekStable /\ SoleUseDecryptable /\ KeysKept /\ StoredCloudValid
  /\ KekFirst /\ DekFirst /\ RowsWhole

SecretInv == SecretTyped /\ SoundCalls /\ OneAsks /\ OnePuts /\ StoreInv

-----------------------------------------------------------------------------
(* Records *)

(* The records that stand for nothing are typed. *)
LEMMA NoRecords ==
  /\ NoAction \in Actions /\ NoAction.pc = "new" /\ NoAction.then = Absent /\ NoAction.kind = Absent
  /\ EndedAction \in Actions /\ EndedAction.pc = "ended" /\ EndedAction.then = Absent
  /\ EndedAction.kind = Absent
  /\ NoDek \in DekRow /\ NoConfigRow \in ConfigRow
<1>1. NoDek \in DekRow /\ NoConfigRow \in ConfigRow /\ NoPatch \in SettingsOf
  BY SMT DEF NoDek, DekRow, Names, NoConfigRow, ConfigRow, NoPatch, Blank, SettingsOf
<1>2. NoKeys \in SUBSET KeyNames
  BY DEF NoKeys, KeyNames
<1>3. NoAction \in Actions /\ NoAction.pc = "new" /\ NoAction.then = Absent /\ NoAction.kind = Absent
  BY <1>1, <1>2, SMT DEF NoAction, Actions, SecretPcs
<1>4. /\ EndedAction \in Actions /\ EndedAction.pc = "ended" /\ EndedAction.then = Absent
      /\ EndedAction.kind = Absent
  BY <1>3, Zenon DEF EndedAction, Actions, SecretPcs
<1> QED
  BY <1>1, <1>3, <1>4

(* A call that has ended, or not begun, is sound. *)
LEMMA IdleSound ==
  ASSUME NEW y \in Actions, y.pc \in IdlePcs, y.then = Absent
  PROVE  SoundCall(y)
<1>1. y.pc \notin {"validate", "write", "opened", "dek", "dek-put"} \cup Asking
  BY SMT DEF IdlePcs, Asking
<1>2. KekCall(y) /\ DekCall(y) /\ CloudCall(y)
  BY <1>1, SMT DEF KekCall, DekCall, CloudCall, Asking
<1>3. PutCall(y)
  BY <1>1, SMT DEF PutCall, Absent
<1> QED
  BY <1>2, <1>3 DEF SoundCall

(* The initial state. *)
LEMMA SecretInitInv == SecretInit => SecretInv
<1> SUFFICES ASSUME SecretInit PROVE SecretInv
  OBVIOUS
<1> USE SecretFacts
<1>1. SecretTyped
  BY NoRecords, SMT DEF SecretInit, SecretTyped, Names, Held, FlagSet, NoFlags
<1>2. SoundCalls
  BY NoRecords, IdleSound, SMT DEF SecretInit, SoundCalls, IdlePcs
<1>3. OneAsks /\ OnePuts
  BY NoRecords, SMT DEF SecretInit, OneAsks, OnePuts, Asking
<1>4. StoreInv
  BY SMT
  DEF SecretInit, StoreInv, KekStable, SoleUseDecryptable, KeysKept, StoredCloudValid,
      KekFirst, DekFirst, RowsWhole, Held, NoConfigRow
<1> QED
  BY <1>1, <1>2, <1>3, <1>4 DEF SecretInv

-----------------------------------------------------------------------------
(* Steps of a call that change nothing else *)

(* A call that goes on to a sound state, not to one of which there is one. *)
LEMMA SecretCallMoves ==
  ASSUME SecretInv, NEW c \in SecretCalls, NEW y \in Actions, Moves(c, y),
         UNCHANGED <<master, memo, dekRow, config, lastKeys, flags>>,
         SoundCall(y),
         y.pc \in Asking => action[c].pc \in Asking /\ y.isolate = Isolate(c),
         y.pc # "dek-put"
  PROVE  SecretInv'
<1>1. SecretTyped'
  BY SMT DEF SecretInv, SecretTyped, Moves
<1>2. \A d \in SecretCalls : action'[d] = IF d = c THEN y ELSE action[d]
  BY SMT DEF SecretInv, SecretTyped, Moves
<1>3. SoundCalls'
  BY <1>2, SMT
  DEF SecretInv, SoundCalls, SoundCall, KekCall, DekCall, PutCall, CloudCall, Undisturbed
<1>4. OneAsks' /\ OnePuts'
  BY <1>2, SMT DEF SecretInv, OneAsks, OnePuts, Isolate
<1>5. StoreInv'
  BY SMT
  DEF SecretInv, StoreInv, KekStable, SoleUseDecryptable, KeysKept, StoredCloudValid,
      KekFirst, DekFirst, RowsWhole
<1> QED
  BY <1>1, <1>3, <1>4, <1>5 DEF SecretInv

(* A call that ends does no harm. *)
LEMMA CallEnds ==
  ASSUME SecretInv, NEW c \in SecretCalls, Moves(c, EndedAction),
         UNCHANGED <<master, memo, dekRow, config, lastKeys, flags>>
  PROVE  SecretInv'
<1>1. SoundCall(EndedAction)
  BY NoRecords, IdleSound, SMT DEF IdlePcs
<1> QED
  BY <1>1, NoRecords, SecretCallMoves, SMT DEF Asking

(* A call is typed and sound. *)
LEMMA CallFacts ==
  ASSUME SecretInv, NEW c \in SecretCalls
  PROVE  action[c] \in Actions /\ SoundCall(action[c])
  BY SMT DEF SecretInv, SecretTyped, SoundCalls

(* The settings of a request have the types of stored ones. *)
LEMMA PatchTyped == \A s \in SettingsInputs : s \in SettingsOf
<1> SUFFICES ASSUME NEW s \in SettingsInputs PROVE s \in SettingsOf
  OBVIOUS
<1>1. s = [auth |-> s.auth, project |-> s.project]
  BY SecretAssumption
<1>2. s.auth \in {t.auth : t \in SettingsInputs} /\ s.project \in {t.project : t \in SettingsInputs}
  BY Zenon
<1> HIDE DEF SettingsOf
<1> QED
  BY <1>1, <1>2, Zenon DEF SettingsOf

(* PUT: the settings given, or those stored. *)
LEMMA StartPutKeeps ==
  ASSUME SecretInv, NEW c \in SecretCalls, NEW i \in Isolates, NEW p \in SecretProviders,
         NEW keys \in KeyInputs \cup {NoKeys}, NEW patch \in SettingsInputs \cup {NoPatch},
         StartPut(c, i, p, keys, patch)
  PROVE  SecretInv'
<1> DEFINE x == [action[c] EXCEPT !.isolate = i, !.kind = "put", !.prov = p, !.keys = keys,
                                  !.patch = IF patch = NoPatch THEN config[p].settings ELSE patch]
           y == [x EXCEPT !.pc = "validate"]
<1>1. UNCHANGED <<master, memo, dekRow, config, lastKeys, flags>>
  BY DEF StartPut
<1>2. CASE Moves(c, EndedAction)
  BY <1>1, <1>2, CallEnds
<1>3. CASE Moves(c, y)
  <2>1. action[c] \in Actions
    BY CallFacts
  <2>2. keys \in SUBSET KeyNames
    BY DEF KeyNames, NoKeys
  <2>3. (IF patch = NoPatch THEN config[p].settings ELSE patch) \in SettingsOf
    BY PatchTyped, SMT DEF SecretInv, SecretTyped, ConfigRow
  <2>4. y \in Actions /\ y.pc = "validate" /\ y.isolate = i /\ y.kind = "put" /\ y.prov = p
    BY <2>1, <2>2, <2>3, Zenon DEF Actions, SecretPcs
  <2> HIDE DEF y
  <2>5. SoundCall(y)
    BY <2>4, SMT DEF SoundCall, KekCall, DekCall, PutCall, CloudCall, Asking
  <2> QED
    BY <1>1, <1>3, <2>4, <2>5, SecretCallMoves, SMT DEF Asking
<1> QED
  BY <1>2, <1>3, Zenon DEF StartPut

(* GET: nothing is saved. *)
LEMMA StartListingKeeps ==
  ASSUME SecretInv, NEW c \in SecretCalls, NEW i \in Isolates, StartListing(c, i)
  PROVE  SecretInv'
<1> DEFINE y == [action[c] EXCEPT !.pc = "kek", !.isolate = i, !.kind = "list", !.then = "list"]
<1>1. action[c] \in Actions
  BY CallFacts
<1>2. y \in Actions /\ y.pc = "kek" /\ y.isolate = i /\ y.kind = "list" /\ y.then = "list"
  BY <1>1, Zenon DEF Actions, SecretPcs
<1>3. Moves(c, y) /\ UNCHANGED <<master, memo, dekRow, config, lastKeys, flags>>
  BY DEF StartListing
<1> HIDE DEF y
<1>4. SoundCall(y)
  BY <1>2, SMT DEF SoundCall, KekCall, DekCall, PutCall, CloudCall, Asking
<1> QED
  BY <1>2, <1>3, <1>4, SecretCallMoves, SMT DEF Asking

(* A save of Vertex that passes has settings and a credential. *)
LEMMA ValidateKeeps ==
  ASSUME SecretInv, NEW c \in SecretCalls, Validate(c)
  PROVE  SecretInv'
<1> DEFINE x == action[c]
<1>1. UNCHANGED <<master, memo, dekRow, config, lastKeys, flags>> /\ x.pc = "validate"
  BY DEF Validate
<1>2. CASE Moves(c, EndedAction)
  BY <1>1, <1>2, CallEnds
<1>3. ASSUME NEW t \in {"save", "name"}, Moves(c, [x EXCEPT !.pc = "kek", !.then = t]),
             x.prov = CloudProvider => CloudValid(c)
      PROVE  SecretInv'
  <2> DEFINE y == [x EXCEPT !.pc = "kek", !.then = t]
  <2>1. x \in Actions /\ SoundCall(x)
    BY CallFacts
  <2>2. /\ y \in Actions /\ y.pc = "kek" /\ y.isolate = x.isolate /\ y.kind = x.kind
        /\ y.prov = x.prov /\ y.keys = x.keys /\ y.patch = x.patch
    BY <2>1, Zenon DEF Actions, SecretPcs
  <2>3. x.kind = "put" /\ x.prov \in SecretProviders /\ x.isolate \in Isolates
    BY <1>1, <2>1, SMT DEF SoundCall, KekCall, PutCall, IdlePcs
  <2>4. x.prov = CloudProvider =>
          /\ ValidSettings(x.patch)
          /\ x.keys # {}
          /\ x.keys = NoKeys => config[CloudProvider].creds # {}
    BY <1>3 DEF CloudValid, Effective, ValidSettings, NoKeys
  <2>m. Moves(c, y)
    BY <1>3
  <2> HIDE DEF y
  <2>5. SoundCall(y)
    BY <2>2, <2>3, <2>4, SMT DEF SoundCall, KekCall, DekCall, PutCall, CloudCall, Asking
  <2> QED
    BY <1>1, <2>m, <2>2, <2>5, SecretCallMoves, SMT DEF Asking
<1> QED
  BY <1>2, <1>3, Zenon DEF Validate, To

(* With the context: a list, and the reading before a save. *)
LEMMA ListConfigsKeeps ==
  ASSUME SecretInv, NEW c \in SecretCalls, ListConfigs(c)
  PROVE  SecretInv'
<1> DEFINE x == action[c]
           y == [x EXCEPT !.pc = "kek", !.then = "save"]
<1>1. UNCHANGED <<master, memo, dekRow, config, lastKeys, flags>> /\ x.pc = "opened"
  BY DEF ListConfigs
<1>2. CASE Moves(c, EndedAction)
  BY <1>1, <1>2, CallEnds
<1>3. CASE Moves(c, y) /\ x.then = "name"
  <2>1. x \in Actions /\ SoundCall(x)
    BY CallFacts
  <2>2. /\ y \in Actions /\ y.pc = "kek" /\ y.isolate = x.isolate /\ y.kind = x.kind
        /\ y.prov = x.prov /\ y.keys = x.keys /\ y.patch = x.patch
    BY <2>1, Zenon DEF Actions, SecretPcs
  <2> HIDE DEF y
  <2>3. SoundCall(y)
    BY <1>1, <1>3, <2>1, <2>2, SMT
    DEF SoundCall, KekCall, DekCall, PutCall, CloudCall, Asking, IdlePcs
  <2> QED
    BY <1>1, <1>3, <2>2, <2>3, SecretCallMoves, SMT DEF Asking
<1> QED
  BY <1>2, <1>3, Zenon DEF ListConfigs, To

(* A save reads the row and can decrypt it. *)
LEMMA SaveReadsKeeps ==
  ASSUME SecretInv, NEW c \in SecretCalls, SaveReads(c)
  PROVE  SecretInv'
<1> DEFINE x == action[c]
           row == config[x.prov]
           y == [x EXCEPT !.pc = "write", !.seen = row]
<1>1. /\ UNCHANGED <<master, memo, dekRow, config, lastKeys, flags>>
      /\ x.pc = "opened" /\ x.then = "save"
  BY DEF SaveReads
<1>2. CASE Moves(c, EndedAction)
  BY <1>1, <1>2, CallEnds
<1>3. CASE Moves(c, y) /\ Decrypts(c, row)
  <2>1. x \in Actions /\ SoundCall(x)
    BY CallFacts
  <2>2. x.prov \in SecretProviders /\ x.kind = "put"
    BY <1>1, <2>1, SMT DEF SoundCall, PutCall
  <2>3. row \in ConfigRow
    BY <2>2, SMT DEF SecretInv, SecretTyped
  <2>4. /\ y \in Actions /\ y.pc = "write" /\ y.isolate = x.isolate /\ y.kind = x.kind
        /\ y.prov = x.prov /\ y.keys = x.keys /\ y.patch = x.patch /\ y.then = "save"
        /\ y.dek = x.dek /\ y.seen = row
    BY <1>1, <2>1, <2>3, Zenon DEF Actions, SecretPcs
  <2>5. \A z \in row.creds : z.dek = x.dek.dek
    BY <1>3 DEF Decrypts
  <2> HIDE DEF y
  <2>6. KekCall(y) /\ PutCall(y) /\ CloudCall(y)
    BY <1>1, <2>1, <2>2, <2>4, SMT DEF SoundCall, KekCall, PutCall, CloudCall, Asking, IdlePcs
  <2>7. DekCall(y)
    BY <1>1, <2>1, <2>4, <2>5, SMT DEF SoundCall, DekCall
  <2> QED
    BY <1>1, <1>3, <2>4, <2>6, <2>7, SecretCallMoves, SMT DEF Asking, SoundCall
<1> QED
  BY <1>2, <1>3, Zenon DEF SaveReads, To

-----------------------------------------------------------------------------
(* The KEK *)

(* The call that holds the promise of its isolate changes it. *)
LEMMA MemoChanges ==
  ASSUME SecretInv, NEW c \in SecretCalls, NEW y \in Actions, Moves(c, y),
         NEW i \in Isolates, NEW v \in Held \cup SecretCalls,
         memo' = [memo EXCEPT ![i] = v], memo[i] \in Held, v \notin Held => v = master,
         UNCHANGED <<master, dekRow, config, lastKeys, flags>>,
         \A d \in SecretCalls : d # c /\ action[d].pc \in Asking => Isolate(d) # i,
         SoundCall(y)', y.pc \in Asking => y.isolate = i, y.pc # "dek-put"
  PROVE  SecretInv'
<1>1. SecretTyped'
  BY SMT DEF SecretInv, SecretTyped, Moves
<1>2. \A d \in SecretCalls : action'[d] = IF d = c THEN y ELSE action[d]
  BY SMT DEF SecretInv, SecretTyped, Moves
<1>3. ASSUME NEW d \in SecretCalls, d # c PROVE SoundCall(action[d])'
  <2>1. SoundCall(action[d]) /\ action'[d] = action[d]
    BY <1>2, <1>3, CallFacts
  <2>2. KekCall(action[d])'
    <3>1. \A j \in Isolates : memo'[j] = IF j = i THEN v ELSE memo[j]
      BY SMT DEF SecretInv, SecretTyped
    <3>2. action[d].pc \in Asking => action[d].isolate # i
      BY <1>3 DEF Isolate
    <3>3. action[d].pc \in {"dek", "dek-put"} => action[d].isolate # i
      BY <2>1, SMT DEF SoundCall, KekCall
    <3>4. action[d].pc \in Asking \cup {"dek", "dek-put"} => action[d].isolate \in Isolates
      BY <2>1, SMT DEF SoundCall, KekCall, Asking, IdlePcs
    <3> QED
      BY <2>1, <3>1, <3>2, <3>3, <3>4, SMT DEF SoundCall, KekCall, Asking
  <2>3. DekCall(action[d])' /\ PutCall(action[d])' /\ CloudCall(action[d])'
    BY <2>1, SMT DEF SoundCall, DekCall, PutCall, CloudCall, Undisturbed
  <2> QED
    BY <2>2, <2>3 DEF SoundCall
<1>4. SoundCalls'
  <2> SUFFICES ASSUME NEW d \in SecretCalls PROVE SoundCall(action[d])'
    BY DEF SoundCalls
  <2>1. CASE d = c
    <3>1. action'[d] = y
      BY <1>2, <2>1
    <3> QED
      BY <3>1, SMT DEF SoundCall, KekCall, DekCall, PutCall, CloudCall, Undisturbed
  <2> QED
    BY <2>1, <1>3
<1>5. OneAsks' /\ OnePuts'
  BY <1>2, SMT DEF SecretInv, OneAsks, OnePuts, Isolate
<1>6. StoreInv'
  <2>1. KekStable'
    BY SMT DEF SecretInv, SecretTyped, StoreInv, KekStable
  <2> QED
    BY <2>1, SMT DEF SecretInv, StoreInv, SoleUseDecryptable, KeysKept, StoredCloudValid,
                     KekFirst, DekFirst, RowsWhole
<1> QED
  BY <1>1, <1>4, <1>5, <1>6 DEF SecretInv

(* What To makes of a call. *)
LEMMA ToGoes ==
  ASSUME SecretInv, NEW c \in SecretCalls,
         NEW pc \in SecretPcs \ {"new", "ended", "validate", "write"}, To(c, pc)
  PROVE  \E y \in Actions :
           /\ Moves(c, y) /\ y.pc = pc /\ y.isolate = Isolate(c) /\ y.dek = action[c].dek
           /\ PutCall(y)
           /\ action[c].pc \notin IdlePcs \cup {"validate"} => CloudCall(y)
<1> DEFINE y == [action[c] EXCEPT !.pc = pc]
<1>1. action[c] \in Actions /\ SoundCall(action[c])
  BY CallFacts
<1>2. pc \notin {"done", "failed", "refused"}
  BY SMT DEF SecretPcs
<1>3. Moves(c, y)
  BY <1>2 DEF To
<1>4. /\ y \in Actions /\ y.pc = pc /\ y.isolate = Isolate(c) /\ y.dek = action[c].dek
      /\ y.kind = action[c].kind /\ y.prov = action[c].prov /\ y.keys = action[c].keys
      /\ y.patch = action[c].patch /\ y.then = action[c].then
  BY <1>1, Zenon DEF Actions, Isolate
<1> HIDE DEF y
<1>5. PutCall(y)
  BY <1>1, <1>4, SMT DEF SoundCall, PutCall
<1>6. action[c].pc \notin IdlePcs \cup {"validate"} => CloudCall(y)
  BY <1>1, <1>4, SMT DEF SoundCall, CloudCall
<1> QED
  BY <1>3, <1>4, <1>5, <1>6

(* The first call of an isolate takes the promise. *)
LEMMA AskKekKeeps ==
  ASSUME SecretInv, NEW c \in SecretCalls, AskKek(c)
  PROVE  SecretInv'
<1> DEFINE x == action[c]
<1>1. x.pc = "kek" /\ UNCHANGED <<master, dekRow, config, lastKeys, flags>>
  BY DEF AskKek
<1>2. x.isolate \in Isolates
  BY <1>1, CallFacts, SMT DEF SoundCall, KekCall, IdlePcs
<1>3. CASE Kek(c) = "none"
  <2>1. memo' = [memo EXCEPT ![Isolate(c)] = "pending"] /\ To(c, "kek-select")
    BY <1>3 DEF AskKek
  <2>2. PICK y \in Actions : Moves(c, y) /\ y.pc = "kek-select" /\ y.isolate = Isolate(c)
                              /\ PutCall(y) /\ CloudCall(y)
    BY <1>1, <2>1, ToGoes, SMT DEF SecretPcs, IdlePcs
  <2>3. memo'[Isolate(c)] = "pending"
    BY <1>2, <2>1, SMT DEF SecretInv, SecretTyped, Isolate
  <2>4. SoundCall(y)'
    BY <1>1, <1>2, <2>2, <2>3, SMT
    DEF SoundCall, KekCall, DekCall, PutCall, CloudCall, Undisturbed, Isolate, IdlePcs
  <2>5. \A d \in SecretCalls : d # c /\ action[d].pc \in Asking => Isolate(d) # Isolate(c)
    BY <1>3, CallFacts, SMT DEF SoundCall, KekCall, Kek, Isolate
  <2>6. "pending" \in Held /\ memo[Isolate(c)] \in Held
    BY <1>3 DEF Held, Kek
  <2> QED
    <3> PICK i \in Isolates : i = Isolate(c)
      BY <1>2 DEF Isolate
    <3>1. /\ memo' = [memo EXCEPT ![i] = "pending"] /\ memo[i] \in Held /\ y.isolate = i
          /\ \A d \in SecretCalls : d # c /\ action[d].pc \in Asking => Isolate(d) # i
      BY <2>1, <2>2, <2>5, <2>6
    <3>2. y.pc # "dek-put"
      BY <2>2
    <3> QED
      BY <1>1, <2>2, <2>4, <2>6, <3>1, <3>2, MemoChanges
<1>4. CASE Kek(c) = "failed"
  BY <1>1, <1>4, CallEnds, Zenon DEF AskKek, To
<1>5. CASE Kek(c) \notin Held
  <2>1. To(c, "dek") /\ UNCHANGED memo
    BY <1>5, SMT DEF AskKek, Held
  <2>2. PICK y \in Actions : Moves(c, y) /\ y.pc = "dek" /\ y.isolate = Isolate(c)
                              /\ PutCall(y) /\ CloudCall(y)
    BY <1>1, <2>1, ToGoes, SMT DEF SecretPcs, IdlePcs
  <2>3. SoundCall(y)
    BY <1>2, <1>5, <2>2, SMT
    DEF SoundCall, KekCall, DekCall, Asking, Isolate, Kek
  <2> QED
    BY <1>1, <2>1, <2>2, <2>3, SecretCallMoves, SMT DEF Asking
<1> QED
  BY <1>3, <1>4, <1>5, SMT DEF AskKek, Held

(* A call that resolves the promise of its isolate with the stored KEK. *)
LEMMA ResolvesKeeps ==
  ASSUME SecretInv, NEW c \in SecretCalls, action[c].pc \in Asking, master # Absent,
         Resolves(c, master), UNCHANGED <<master, dekRow, config, lastKeys, flags>>
  PROVE  SecretInv'
<1>1. action[c].isolate \in Isolates /\ memo[action[c].isolate] = "pending"
  BY CallFacts, SMT DEF SoundCall, KekCall, IdlePcs, Asking
<1>2. memo' = [memo EXCEPT ![Isolate(c)] = master] /\ To(c, "dek")
  BY DEF Resolves
<1>3. PICK y \in Actions : Moves(c, y) /\ y.pc = "dek" /\ y.isolate = Isolate(c)
                            /\ PutCall(y) /\ CloudCall(y)
  BY <1>2, ToGoes, SMT DEF SecretPcs, IdlePcs, Asking
<1>4. master \in SecretCalls /\ master \notin Held
  BY SecretFacts, SMT DEF SecretInv, SecretTyped, Names
<1>5. memo'[Isolate(c)] = master
  BY <1>1, <1>2, SMT DEF SecretInv, SecretTyped, Isolate
<1>6. SoundCall(y)'
  BY <1>1, <1>3, <1>4, <1>5, SMT
  DEF SoundCall, KekCall, DekCall, PutCall, CloudCall, Undisturbed, Isolate, Asking
<1>7. \A d \in SecretCalls : d # c /\ action[d].pc \in Asking => Isolate(d) # Isolate(c)
  BY DEF SecretInv, OneAsks
<1>8. memo[Isolate(c)] \in Held
  BY <1>1 DEF Isolate, Held
<1> QED
  <2> PICK i \in Isolates : i = Isolate(c)
    BY <1>1 DEF Isolate
  <2> PICK v \in SecretCalls : v = master
    BY <1>4
  <2>1. /\ memo' = [memo EXCEPT ![i] = v] /\ memo[i] \in Held /\ y.isolate = i
        /\ \A d \in SecretCalls : d # c /\ action[d].pc \in Asking => Isolate(d) # i
    BY <1>2, <1>3, <1>7, <1>8
  <2>2. y.pc # "dek-put"
    BY <1>3
  <2> QED
    BY <1>3, <1>6, <2>1, <2>2, MemoChanges

(* A stored KEK is the promise's value. *)
LEMMA SelectKekKeeps ==
  ASSUME SecretInv, NEW c \in SecretCalls, SelectKek(c)
  PROVE  SecretInv'
<1>1. /\ action[c].pc = "kek-select" /\ action[c].pc \in Asking
      /\ UNCHANGED <<master, dekRow, config, lastKeys, flags>>
  BY DEF SelectKek, Asking
<1>2. CASE master # Absent
  BY <1>1, <1>2, ResolvesKeeps DEF SelectKek
<1>3. CASE master = Absent
  <2>1. To(c, "kek-insert") /\ UNCHANGED memo
    BY <1>3 DEF SelectKek
  <2>2. PICK y \in Actions : Moves(c, y) /\ y.pc = "kek-insert" /\ y.isolate = Isolate(c)
                              /\ PutCall(y) /\ CloudCall(y)
    BY <1>1, <2>1, ToGoes, SMT DEF SecretPcs, IdlePcs
  <2>3. SoundCall(y)
    BY <1>1, <2>2, CallFacts, SMT DEF SoundCall, KekCall, DekCall, Asking, Isolate, IdlePcs
  <2> QED
    BY <1>1, <2>1, <2>2, <2>3, SecretCallMoves, SMT
<1> QED
  BY <1>2, <1>3

(* Whoever was first, the stored KEK is read back. *)
LEMMA RereadKekKeeps ==
  ASSUME SecretInv, NEW c \in SecretCalls, RereadKek(c)
  PROVE  SecretInv'
<1>1. /\ action[c].pc = "kek-reread" /\ action[c].pc \in Asking
      /\ UNCHANGED <<master, dekRow, config, lastKeys, flags>>
  BY DEF RereadKek, Asking
<1>2. master # Absent
  BY <1>1, CallFacts, SMT DEF SoundCall, KekCall
<1> QED
  BY <1>1, <1>2, ResolvesKeeps DEF RereadKek

(* INSERT ... ON CONFLICT DO NOTHING: the row is written once. *)
LEMMA InsertKekKeeps ==
  ASSUME SecretInv, NEW c \in SecretCalls, InsertKek(c)
  PROVE  SecretInv'
<1>1. /\ action[c].pc = "kek-insert" /\ UNCHANGED <<memo, dekRow, config, lastKeys, flags>>
      /\ master' = IF master = Absent THEN c ELSE master
      /\ To(c, "kek-reread")
  BY DEF InsertKek
<1>2. PICK y \in Actions : Moves(c, y) /\ y.pc = "kek-reread" /\ y.isolate = Isolate(c)
                            /\ PutCall(y) /\ CloudCall(y)
  BY <1>1, ToGoes, SMT DEF SecretPcs, IdlePcs
<1>3. master' \in SecretCalls /\ (master # Absent => master' = master) /\ master' # Absent
  BY <1>1, SecretFacts, SMT DEF SecretInv, SecretTyped, Names
<1>4. master = Absent => \A i \in Isolates : memo[i] \in Held
  BY SecretFacts, SMT DEF SecretInv, StoreInv, KekStable
<1>5. \A d \in SecretCalls : action'[d] = IF d = c THEN y ELSE action[d]
  BY <1>2, SMT DEF SecretInv, SecretTyped, Moves
<1>6. SecretTyped'
  BY <1>1, <1>2, <1>3, SMT DEF SecretInv, SecretTyped, Moves, Names
<1>7. SoundCalls'
  <2>1. ASSUME NEW d \in SecretCalls, d # c PROVE SoundCall(action[d])'
    <3>1. SoundCall(action[d]) /\ action'[d] = action[d]
      BY <1>5, <2>1, CallFacts
    <3> QED
      BY <1>1, <1>3, <3>1, SMT
      DEF SoundCall, KekCall, DekCall, PutCall, CloudCall, Undisturbed
  <2>2. SoundCall(y)'
    BY <1>1, <1>2, <1>3, CallFacts, SMT
    DEF SoundCall, KekCall, DekCall, PutCall, CloudCall, Undisturbed, Asking, IdlePcs, Isolate
  <2>3. SoundCall(action[c])'
    <3>1. action'[c] = y
      BY <1>5
    <3> QED
      BY <2>2, <3>1 DEF SoundCall, KekCall, DekCall, PutCall, CloudCall, Undisturbed
  <2> QED
    BY <2>1, <2>3 DEF SoundCalls
<1>8. OneAsks' /\ OnePuts'
  BY <1>1, <1>2, <1>5, SMT DEF SecretInv, OneAsks, OnePuts, Isolate, Asking
<1>9. StoreInv'
  <2>1. KekStable' /\ KekFirst'
    BY <1>1, <1>3, <1>4, SMT DEF SecretInv, StoreInv, KekStable, KekFirst
  <2> QED
    BY <1>1, <2>1, SMT
    DEF SecretInv, StoreInv, SoleUseDecryptable, KeysKept, StoredCloudValid, DekFirst,
        RowsWhole
<1> QED
  BY <1>6, <1>7, <1>8, <1>9 DEF SecretInv

-----------------------------------------------------------------------------
(* The DEK *)

(* The stored DEK is unwrapped, or one is made. *)
LEMMA GetDekKeeps ==
  ASSUME SecretInv, NEW c \in SecretCalls, GetDek(c)
  PROVE  SecretInv'
<1> DEFINE x == action[c]
           others == {o \in SecretCalls \ {c} : action[o].pc = "dek-put"}
<1>1. x.pc = "dek" /\ UNCHANGED <<master, memo, dekRow, config, lastKeys>>
  BY DEF GetDek
<1>2. x \in Actions /\ SoundCall(x)
  BY CallFacts
<1>3. x.isolate \in Isolates /\ memo[x.isolate] \notin Held
  BY <1>1, <1>2, SMT DEF SoundCall, KekCall, IdlePcs
<1>4. CASE dekRow # NoDek /\ dekRow.kek = Kek(c)
  <2> DEFINE y == [x EXCEPT !.pc = "opened", !.dek = dekRow]
  <2>1. Moves(c, y) /\ UNCHANGED flags
    BY <1>4, Zenon DEF GetDek
  <2>2. dekRow \in DekRow
    BY DEF SecretInv, SecretTyped
  <2>3. /\ y \in Actions /\ y.pc = "opened" /\ y.isolate = x.isolate /\ y.kind = x.kind
        /\ y.prov = x.prov /\ y.keys = x.keys /\ y.patch = x.patch /\ y.then = x.then
        /\ y.dek = dekRow
    BY <1>2, <2>2, Zenon DEF Actions, SecretPcs
  <2> HIDE DEF y
  <2>4. SoundCall(y)
    BY <1>1, <1>2, <1>3, <1>4, <2>3, SMT
    DEF SoundCall, KekCall, DekCall, PutCall, CloudCall, Asking, IdlePcs
  <2> QED
    BY <1>1, <2>1, <2>3, <2>4, SecretCallMoves, SMT DEF Asking
<1>5. CASE dekRow # NoDek /\ dekRow.kek # Kek(c)
  BY <1>1, <1>5, CallEnds, Zenon DEF GetDek, To
<1>6. CASE dekRow = NoDek
  <2>1. /\ To(c, "dek-put")
        /\ flags' = IF others # {} THEN [flags EXCEPT !.raced = TRUE] ELSE flags
    BY <1>6, Zenon DEF GetDek
  <2>2. PICK y \in Actions : Moves(c, y) /\ y.pc = "dek-put" /\ y.isolate = Isolate(c)
                              /\ PutCall(y) /\ CloudCall(y)
    BY <1>1, <2>1, ToGoes, SMT DEF SecretPcs, IdlePcs
  <2>3. \A d \in SecretCalls : action'[d] = IF d = c THEN y ELSE action[d]
    BY <2>2, SMT DEF SecretInv, SecretTyped, Moves
  <2>4. /\ flags' \in FlagSet /\ flags'.removed = flags.removed
        /\ flags'.overlapped = flags.overlapped
        /\ ~flags'.raced => ~flags.raced /\ others = {}
    <3>1. flags \in FlagSet
      BY DEF SecretInv, SecretTyped
    <3>2. CASE others = {}
      BY <2>1, <3>1, <3>2
    <3>3. CASE others # {}
      <4>1. flags' = [flags EXCEPT !.raced = TRUE]
        BY <2>1, <3>3
      <4> QED
        BY <3>1, <4>1, Zenon DEF FlagSet
    <3> QED
      BY <3>2, <3>3
  <2>5. SecretTyped'
    BY <1>1, <2>2, <2>4, SMT DEF SecretInv, SecretTyped, Moves
  <2>6. SoundCalls'
    <3>1. ASSUME NEW d \in SecretCalls, d # c PROVE SoundCall(action[d])'
      <4>1. SoundCall(action[d]) /\ action'[d] = action[d]
        BY <2>3, <3>1, CallFacts
      <4> QED
        BY <1>1, <2>4, <4>1, SMT
        DEF SoundCall, KekCall, DekCall, PutCall, CloudCall, Undisturbed
    <3>2. SoundCall(action[c])'
      <4>1. action'[c] = y
        BY <2>3
      <4> QED
        BY <1>1, <1>3, <1>6, <2>2, <2>4, <4>1, SMT
        DEF SoundCall, KekCall, DekCall, PutCall, CloudCall, Undisturbed, Asking, Isolate
    <3> QED
      BY <3>1, <3>2 DEF SoundCalls
  <2>7. OneAsks' /\ OnePuts'
    <3>1. OneAsks'
      BY <2>2, <2>3, SMT DEF SecretInv, OneAsks, Isolate, Asking
    <3>2. ~flags'.raced => \A o \in SecretCalls : o # c => action[o].pc # "dek-put"
      BY <2>4
    <3>3. OnePuts'
      BY <2>3, <3>2, SMT DEF OnePuts
    <3> QED
      BY <3>1, <3>3
  <2>8. StoreInv'
    BY <1>1, <2>4, SMT
    DEF SecretInv, StoreInv, KekStable, SoleUseDecryptable, KeysKept, StoredCloudValid,
        KekFirst, DekFirst, RowsWhole
  <2> QED
    BY <2>5, <2>6, <2>7, <2>8 DEF SecretInv
<1> QED
  BY <1>4, <1>5, <1>6

(* The data key is stored: without a race nobody has used another. *)
LEMMA PutDekKeeps ==
  ASSUME SecretInv, NEW c \in SecretCalls, PutDek(c)
  PROVE  SecretInv'
<1> DEFINE x == action[c]
           made == [dek |-> c, kek |-> Kek(c)]
           y == [x EXCEPT !.pc = "opened", !.dek = made]
<1>1. /\ x.pc = "dek-put" /\ UNCHANGED <<master, memo, config, lastKeys, flags>>
      /\ dekRow' = made /\ Moves(c, y)
  BY DEF PutDek
<1>2. x \in Actions /\ SoundCall(x)
  BY CallFacts
<1>3. x.isolate \in Isolates /\ memo[x.isolate] \notin Held
  BY <1>1, <1>2, SMT DEF SoundCall, KekCall, IdlePcs
<1>4. Kek(c) = master /\ master \in SecretCalls /\ master # Absent
  BY <1>3, SecretFacts, SMT DEF SecretInv, SecretTyped, StoreInv, KekStable, Kek, Isolate
<1>5. made \in DekRow /\ made.kek = master /\ made # NoDek /\ made.dek = c
  BY <1>4, SecretFacts, SMT DEF DekRow, Names, NoDek
<1>6. /\ y \in Actions /\ y.pc = "opened" /\ y.isolate = x.isolate /\ y.kind = x.kind
      /\ y.prov = x.prov /\ y.keys = x.keys /\ y.patch = x.patch /\ y.then = x.then
      /\ y.dek = made
  BY <1>2, <1>5, Zenon DEF Actions, SecretPcs
<1> PICK z \in Actions : z = y
  BY <1>6
<1> PICK m \in DekRow : m = made
  BY <1>5
<1> HIDE DEF y, made
<1>7. \A d \in SecretCalls : action'[d] = IF d = c THEN z ELSE action[d]
  BY <1>1, SMT DEF SecretInv, SecretTyped, Moves
<1>8. SecretTyped'
  BY <1>1, <1>5, <1>6, SMT DEF SecretInv, SecretTyped, Moves
<1>9. ~flags.raced => /\ dekRow = NoDek
                      /\ \A d \in SecretCalls : d # c => action[d].pc \notin {"dek-put", "opened", "write"}
  <2>1. ~flags.raced => dekRow = NoDek
    BY <1>1, <1>2, SMT DEF SoundCall, DekCall
  <2>2. \A d \in SecretCalls : SoundCall(action[d])
    BY CallFacts
  <2> QED
    BY <1>1, <2>1, <2>2, SMT DEF SoundCall, DekCall, SecretInv, OnePuts
<1>10. SoundCalls'
  <2>1. ASSUME NEW d \in SecretCalls, d # c PROVE SoundCall(action[d])'
    <3>1. SoundCall(action[d]) /\ action'[d] = action[d]
      BY <1>7, <2>1, CallFacts
    <3> QED
      BY <1>1, <1>9, <2>1, <3>1, SMT
      DEF SoundCall, KekCall, DekCall, PutCall, CloudCall, Undisturbed
  <2>2. SoundCall(action[c])'
    <3>1. action'[c] = z /\ dekRow' = m /\ m # NoDek /\ z.dek = m
      BY <1>1, <1>5, <1>6, <1>7
    <3>2. /\ z.pc = "opened" /\ z.isolate = x.isolate /\ z.kind = x.kind
          /\ z.prov = x.prov /\ z.keys = x.keys /\ z.patch = x.patch /\ z.then = x.then
      BY <1>6
    <3>3. KekCall(action[c])' /\ DekCall(action[c])' /\ PutCall(action[c])'
      BY <1>1, <1>2, <1>3, <3>1, <3>2, SMT
      DEF SoundCall, KekCall, DekCall, PutCall, Asking, IdlePcs
    <3>4. CloudCall(action[c])'
      BY <1>1, <1>2, <3>1, <3>2, SMT DEF SoundCall, CloudCall, Undisturbed, IdlePcs
    <3> QED
      BY <3>3, <3>4 DEF SoundCall
  <2> QED
    BY <2>1, <2>2 DEF SoundCalls
<1>11. OneAsks' /\ OnePuts'
  BY <1>1, <1>6, <1>7, SMT DEF SecretInv, OneAsks, OnePuts, Isolate, Asking
<1>12. StoreInv'
  <2>1. KekStable' /\ KekFirst'
    BY <1>1, <1>4, <1>5, SMT DEF SecretInv, StoreInv, KekStable, KekFirst
  <2>2. SoleUseDecryptable' /\ DekFirst'
    BY <1>1, <1>5, <1>9, SMT DEF SecretInv, StoreInv, SoleUseDecryptable, DekFirst
  <2>3. KeysKept' /\ StoredCloudValid'
    BY <1>1, SMT DEF SecretInv, StoreInv, KeysKept, StoredCloudValid
  <2>4. RowsWhole'
    BY <1>1, <1>5, SMT DEF SecretInv, StoreInv, RowsWhole
  <2> QED
    BY <2>1, <2>2, <2>3, <2>4 DEF StoreInv
<1> QED
  BY <1>8, <1>10, <1>11, <1>12 DEF SecretInv

-----------------------------------------------------------------------------
(* The stored configurations *)

(* A call that ends with another configuration of one provider stored. *)
LEMMA ConfigChanges ==
  ASSUME SecretInv, NEW c \in SecretCalls, Moves(c, EndedAction),
         NEW p \in SecretProviders, NEW new \in ConfigRow, config' = [config EXCEPT ![p] = new],
         UNCHANGED <<master, memo, dekRow>>,
         lastKeys' \in [SecretProviders -> SUBSET KeyNames], flags' \in FlagSet, flags'.raced = flags.raced,
         flags.overlapped => flags'.overlapped, flags.removed => flags'.removed,
         \A d \in SecretCalls \ {c} : CloudCall(action[d])',
         ~flags.raced => \A z \in new.creds : z.dek = dekRow.dek,
         ~flags.raced /\ dekRow = NoDek => new.creds = {}, new.there \/ new = NoConfigRow,
         KeysKept', StoredCloudValid'
  PROVE  SecretInv'
<1>1. \A d \in SecretCalls : action'[d] = IF d = c THEN EndedAction ELSE action[d]
  BY SMT DEF SecretInv, SecretTyped, Moves
<1>2. SecretTyped'
  <2>1. action' \in [SecretCalls -> Actions]
    BY NoRecords, SMT DEF SecretInv, SecretTyped, Moves
  <2>2. config' \in [SecretProviders -> ConfigRow]
    BY SMT DEF SecretInv, SecretTyped
  <2> QED
    BY <2>1, <2>2 DEF SecretInv, SecretTyped
<1>3. SoundCalls'
  <2>1. ASSUME NEW d \in SecretCalls, d # c PROVE SoundCall(action[d])'
    <3>1. SoundCall(action[d]) /\ action'[d] = action[d]
      BY <1>1, <2>1, CallFacts
    <3>2. CloudCall(action[d])'
      BY <2>1
    <3> QED
      BY <3>1, <3>2, SMT DEF SoundCall, KekCall, DekCall, PutCall
  <2>2. SoundCall(action[c])'
    <3>1. action'[c] = EndedAction
      BY <1>1
    <3> QED
      BY <3>1, NoRecords, SMT
      DEF SoundCall, KekCall, DekCall, PutCall, CloudCall, IdlePcs, Asking, Absent
  <2> QED
    BY <2>1, <2>2 DEF SoundCalls
<1>4. OneAsks' /\ OnePuts'
  BY <1>1, NoRecords, SMT DEF SecretInv, OneAsks, OnePuts, Isolate, Asking
<1>5. \A q \in SecretProviders : config'[q] = IF q = p THEN new ELSE config[q]
  BY SMT DEF SecretInv, SecretTyped
<1>6. SoleUseDecryptable' /\ DekFirst'
  BY <1>5, SMT DEF SecretInv, StoreInv, SoleUseDecryptable, DekFirst
<1>7. KekStable' /\ KekFirst'
  BY SMT DEF SecretInv, StoreInv, KekStable, KekFirst
<1>8. RowsWhole'
  BY <1>5, SMT DEF SecretInv, StoreInv, RowsWhole
<1> QED
  BY <1>2, <1>3, <1>4, <1>6, <1>7, <1>8 DEF SecretInv, StoreInv

(* DELETE: nobody's keys are left. *)
LEMMA DeleteKeeps ==
  ASSUME SecretInv, NEW c \in SecretCalls, NEW p \in SecretProviders, DeleteConfig(c, p)
  PROVE  SecretInv'
<1> DEFINE during == \E o \in SecretCalls : action[o].kind = "put" /\ action[o].prov = p
                                             /\ action[o].pc \notin {"new", "ended"}
<1>1. /\ Moves(c, EndedAction) /\ UNCHANGED <<master, memo, dekRow>>
      /\ config' = [config EXCEPT ![p] = NoConfigRow]
      /\ lastKeys' = [lastKeys EXCEPT ![p] = {}]
      /\ flags' = [flags EXCEPT !.removed = @ \/ during]
  BY Zenon DEF DeleteConfig
<1>2. NoConfigRow \in ConfigRow /\ NoConfigRow.creds = {} /\ NoConfigRow.there = FALSE
  BY NoRecords, SMT DEF NoConfigRow
<1> HIDE DEF during
<1>3. /\ flags' \in FlagSet /\ flags'.raced = flags.raced
      /\ flags'.overlapped = flags.overlapped
      /\ flags.removed => flags'.removed
      /\ ~flags'.removed => ~during /\ ~flags.removed
  <2>1. flags \in FlagSet /\ during \in BOOLEAN
    BY SMT DEF SecretInv, SecretTyped, during
  <2> QED
    BY <1>1, <2>1, Zenon DEF FlagSet
<1>4. \A q \in SecretProviders : config'[q] = IF q = p THEN NoConfigRow ELSE config[q]
  BY <1>1, SMT DEF SecretInv, SecretTyped
<1>5. KeysKept'
  <2>1. ASSUME NEW q \in SecretProviders, ~flags'.overlapped
        PROVE  {x.key : x \in config'[q].creds} = lastKeys'[q]
    <3>1. {x.key : x \in config[q].creds} = lastKeys[q]
      BY <1>3, <2>1 DEF SecretInv, StoreInv, KeysKept
    <3>2. CASE q = p
      <4>1. config'[q].creds = {}
        BY <1>2, <1>4, <3>2
      <4>2. lastKeys'[q] = {}
        BY <1>1, <3>2, SMT DEF SecretInv, SecretTyped
      <4> QED
        BY <4>1, <4>2
    <3>3. CASE q # p
      <4>1. config'[q] = config[q] /\ lastKeys'[q] = lastKeys[q]
        BY <1>1, <1>4, <3>3, SMT DEF SecretInv, SecretTyped
      <4> QED
        BY <3>1, <4>1
    <3> QED
      BY <3>2, <3>3
  <2> QED
    BY <2>1 DEF KeysKept
<1>6. StoredCloudValid'
  BY <1>2, <1>3, <1>4, SecretFacts, SMT DEF SecretInv, StoreInv, StoredCloudValid
<1>7. \A d \in SecretCalls \ {c} : CloudCall(action[d])'
  <2> SUFFICES ASSUME NEW d \in SecretCalls \ {c} PROVE CloudCall(action[d])'
    OBVIOUS
  <2>1. action'[d] = action[d]
    BY <1>1, SMT DEF Moves, SecretInv, SecretTyped
  <2>2. CloudCall(action[d])
    BY CallFacts DEF SoundCall
  <2>3. CASE p = CloudProvider
    <3>1. ~flags'.removed => ~(action[d].kind = "put" /\ action[d].prov = CloudProvider
                                /\ action[d].pc \notin {"new", "ended"})
      BY <1>3, <2>3 DEF during
    <3> QED
      BY <2>1, <2>2, <3>1, SMT DEF CloudCall, Undisturbed, IdlePcs
  <2>4. CASE p # CloudProvider
    <3>1. config'[CloudProvider] = config[CloudProvider]
      BY <1>4, <2>4, SecretFacts
    <3> QED
      BY <1>3, <2>1, <2>2, <3>1, SMT DEF CloudCall, Undisturbed
  <2> QED
    BY <2>3, <2>4
<1>8. lastKeys' \in [SecretProviders -> SUBSET KeyNames]
  BY <1>1, SMT DEF SecretInv, SecretTyped
<1> QED
  BY <1>1, <1>2, <1>3, <1>5, <1>6, <1>7, <1>8, ConfigChanges

(* A save writes what it has read and was given. *)
LEMMA SaveWritesKeeps ==
  ASSUME SecretInv, NEW c \in SecretCalls, SaveWrites(c)
  PROVE  SecretInv'
<1> PICK x \in Actions : x = action[c]
  BY CallFacts
<1> PICK p : p = x.prov
  OBVIOUS
<1> PICK row : row = config[p]
  OBVIOUS
<1>1. x.pc = "write" /\ UNCHANGED <<master, memo, dekRow>>
  BY DEF SaveWrites
<1>2. SoundCall(x)
  BY CallFacts
<1>3. x.kind = "put" /\ p \in SecretProviders
  BY <1>1, <1>2, SMT DEF SoundCall, PutCall
<1>4. /\ row \in ConfigRow /\ x.seen \in ConfigRow /\ x.keys \in SUBSET KeyNames
      /\ x.dek \in DekRow /\ x.patch \in SettingsOf
  BY <1>3, SMT DEF SecretInv, SecretTyped, Actions
<1>5. flags \in FlagSet
  BY DEF SecretInv, SecretTyped
<1> PICK updates \in BOOLEAN :
        updates <=> x.seen.there /\ row.there /\ row.id = x.seen.id
  OBVIOUS
<1> PICK writes \in BOOLEAN : writes <=> (~x.seen.there /\ ~row.there) \/ updates
  OBVIOUS
<1> PICK id : id = IF updates THEN row.id ELSE c
  OBVIOUS
<1>8. /\ To(c, IF row.there /\ ~x.seen.there THEN "failed" ELSE "done")
      /\ config' = IF writes
           THEN [config EXCEPT ![p] = [there |-> TRUE, id |-> id, creds |-> CredsToSave(x),
                                       settings |-> Merged(x.seen.settings, x.patch)]]
           ELSE config
      /\ lastKeys' = IF writes /\ x.keys # NoKeys
           THEN [lastKeys EXCEPT ![p] = x.keys] ELSE lastKeys
      /\ flags' = [flags EXCEPT !.overlapped = @ \/ (writes /\ row # x.seen)]
  BY Zenon DEF SaveWrites
<1>6. CASE ~writes
  <2>1. To(c, "failed") \/ To(c, "done")
    BY <1>8, Zenon
  <2>2. Moves(c, EndedAction)
    BY <2>1, SMT DEF To
  <2>3. config' = config /\ lastKeys' = lastKeys
    BY <1>6, <1>8
  <2>4. flags' = [flags EXCEPT !.overlapped = @ \/ FALSE]
    BY <1>6, <1>8
  <2>5. flags' = flags
    BY <1>5, <2>4, Zenon DEF FlagSet
  <2> QED
    BY <1>1, <2>2, <2>3, <2>5, CallEnds
<1>7. CASE writes
  <2> PICK creds : creds = CredsToSave(x)
    OBVIOUS
  <2> PICK sets : sets = Merged(x.seen.settings, x.patch)
    OBVIOUS
  <2> PICK new : new = [there |-> TRUE, id |-> id, creds |-> creds, settings |-> sets]
    OBVIOUS
  <2>1. /\ Moves(c, EndedAction)
        /\ config' = [config EXCEPT ![p] = new]
        /\ lastKeys' = IF x.keys # NoKeys THEN [lastKeys EXCEPT ![p] = x.keys] ELSE lastKeys
        /\ flags' = [flags EXCEPT !.overlapped = @ \/ row # x.seen]
    <3>1. To(c, "failed") \/ To(c, "done")
      BY <1>8, Zenon
    <3>2. config' = [config EXCEPT ![p] = new]
      BY <1>7, <1>8
    <3>3. lastKeys' = IF x.keys # NoKeys THEN [lastKeys EXCEPT ![p] = x.keys] ELSE lastKeys
      BY <1>7, <1>8
    <3>4. flags' = [flags EXCEPT !.overlapped = @ \/ row # x.seen]
      BY <1>7, <1>8
    <3> QED
      BY <3>1, <3>2, <3>3, <3>4 DEF To
  <2>14. id \in Names
    BY <1>4, SMT DEF ConfigRow, Names
  <2>2. /\ flags' \in FlagSet /\ flags'.raced = flags.raced /\ flags'.removed = flags.removed
        /\ flags.overlapped => flags'.overlapped
        /\ ~flags'.overlapped => ~flags.overlapped /\ row = x.seen
    <3>1. CASE row = x.seen
      BY <1>5, <2>1, <3>1, Zenon DEF FlagSet
    <3>2. CASE row # x.seen
      BY <1>5, <2>1, <3>2, Zenon DEF FlagSet
    <3> QED
      BY <3>1, <3>2
  <2>3. /\ x.keys = NoKeys => creds = x.seen.creds
        /\ x.keys # NoKeys => creds = {[key |-> k, dek |-> x.dek.dek] : k \in x.keys}
    BY DEF CredsToSave
  <2>4. creds \in SUBSET Creds
    <3>1. CASE x.keys = NoKeys
      BY <1>4, <2>3, <3>1, SMT DEF ConfigRow
    <3>2. CASE x.keys # NoKeys
      <4>1. x.dek.dek \in Names
        BY <1>4, SMT DEF DekRow
      <4>2. \A k \in x.keys : [key |-> k, dek |-> x.dek.dek] \in Creds
        BY <1>4, <4>1, SMT DEF Creds
      <4> QED
        BY <2>3, <3>2, <4>2, Zenon
    <3> QED
      BY <3>1, <3>2
  <2>5. sets \in SettingsOf
    BY <1>4, Zenon DEF Merged, SettingsOf, ConfigRow
  <2>6. new \in ConfigRow /\ new.there = TRUE /\ new.creds = creds /\ new.settings = sets
    BY <2>4, <2>5, <2>14, SMT DEF ConfigRow
  <2>7. \A q \in SecretProviders : config'[q] = IF q = p THEN new ELSE config[q]
    BY <2>1, SMT DEF SecretInv, SecretTyped
  <2>8. /\ lastKeys' \in [SecretProviders -> SUBSET KeyNames]
        /\ \A q \in SecretProviders :
             lastKeys'[q] = IF q = p /\ x.keys # NoKeys THEN x.keys ELSE lastKeys[q]
    <3>1. lastKeys \in [SecretProviders -> SUBSET KeyNames]
      BY DEF SecretInv, SecretTyped
    <3>2. CASE x.keys = NoKeys
      BY <2>1, <3>1, <3>2
    <3>3. CASE x.keys # NoKeys
      <4>1. lastKeys' = [lastKeys EXCEPT ![p] = x.keys]
        BY <2>1, <3>3
      <4> QED
        BY <1>4, <3>1, <3>3, <4>1, Zenon
    <3> QED
      BY <3>2, <3>3
  <2>9. ~flags.raced => (\A z \in new.creds : z.dek = dekRow.dek) /\ dekRow # NoDek
    <3> SUFFICES ASSUME ~flags.raced
                 PROVE  (\A z \in creds : z.dek = dekRow.dek) /\ dekRow # NoDek
      BY <2>6
    <3>1. x.dek = dekRow /\ dekRow # NoDek /\ \A z \in x.seen.creds : z.dek = dekRow.dek
      BY <1>1, <1>2, SMT DEF SoundCall, DekCall
    <3>2. CASE x.keys = NoKeys
      BY <2>3, <3>1, <3>2
    <3>3. CASE x.keys # NoKeys
      BY <2>3, <3>1, <3>3, SMT
    <3> QED
      BY <3>1, <3>2, <3>3
  <2>10. KeysKept'
    <3>1. ASSUME NEW q \in SecretProviders, ~flags'.overlapped
          PROVE  {z.key : z \in config'[q].creds} = lastKeys'[q]
      <4>1. {z.key : z \in config[q].creds} = lastKeys[q]
        BY <2>2, <3>1 DEF SecretInv, StoreInv, KeysKept
      <4>2. CASE q # p
        BY <2>7, <2>8, <4>1, <4>2
      <4>3. CASE q = p /\ x.keys = NoKeys
        <5>1. config'[q].creds = config[q].creds
          BY <2>2, <2>3, <2>6, <2>7, <3>1, <4>3
        <5> QED
          BY <2>8, <4>1, <4>3, <5>1
      <4>4. CASE q = p /\ x.keys # NoKeys
        <5>1. config'[q].creds = {[key |-> k, dek |-> x.dek.dek] : k \in x.keys}
          BY <2>3, <2>6, <2>7, <4>4
        <5>2. lastKeys'[q] = x.keys
          BY <2>8, <4>4
        <5> DEFINE made == {[key |-> k, dek |-> x.dek.dek] : k \in x.keys}
        <5>3. ASSUME NEW k \in x.keys PROVE k \in {z.key : z \in made}
          <6>1. [key |-> k, dek |-> x.dek.dek] \in made /\ [key |-> k, dek |-> x.dek.dek].key = k
            OBVIOUS
          <6> HIDE DEF made
          <6> QED
            BY <6>1, Zenon
        <5>4. ASSUME NEW z \in made PROVE z.key \in x.keys
          OBVIOUS
        <5>5. config'[q].creds = made
          BY <5>1
        <5> HIDE DEF made
        <5> QED
          BY <5>2, <5>3, <5>4, <5>5
      <4> QED
        BY <4>2, <4>3, <4>4
    <3> QED
      BY <3>1 DEF KeysKept
  <2>11. p = CloudProvider /\ ~flags'.removed /\ ~flags'.overlapped =>
           ValidSettings(sets) /\ creds # {}
    <3> SUFFICES ASSUME p = CloudProvider, ~flags'.removed, ~flags'.overlapped
                 PROVE  ValidSettings(sets) /\ creds # {}
      OBVIOUS
    <3>1. /\ ValidSettings(x.patch) /\ x.keys # {}
          /\ x.keys = NoKeys => config[CloudProvider].creds # {}
      BY <1>1, <1>2, <1>3, <2>2, SMT DEF SoundCall, CloudCall, Undisturbed, IdlePcs
    <3>2. ValidSettings(sets)
      <4>1. x.patch # NoPatch /\ x.patch.auth # Absent
        BY <3>1, SMT DEF ValidSettings, NoPatch, Absent
      <4>2. sets.auth = x.patch.auth
        BY <4>1, SMT DEF Merged
      <4>3. x.patch.project # Absent => sets.project = x.patch.project
        BY <4>1, SMT DEF Merged
      <4> QED
        BY <3>1, <4>2, <4>3 DEF ValidSettings
    <3>3. creds # {}
      <4>1. CASE x.keys = NoKeys
        BY <2>2, <2>3, <3>1, <4>1
      <4>2. CASE x.keys # NoKeys
        BY <2>3, <3>1, <4>2, Zenon
      <4> QED
        BY <4>1, <4>2
    <3> QED
      BY <3>2, <3>3
  <2>12. StoredCloudValid'
    <3>1. CASE p = CloudProvider
      <4>1. config'[CloudProvider] = new
        BY <1>3, <2>7, <3>1
      <4> QED
        BY <2>6, <2>11, <3>1, <4>1 DEF StoredCloudValid, ValidSettings
    <3>2. CASE p # CloudProvider
      <4>1. config'[CloudProvider] = config[CloudProvider]
        BY <2>7, <3>2, SecretFacts
      <4> QED
        BY <2>2, <4>1 DEF SecretInv, StoreInv, StoredCloudValid
    <3> QED
      BY <3>1, <3>2
  <2>13. \A d \in SecretCalls \ {c} : CloudCall(action[d])'
    <3> SUFFICES ASSUME NEW d \in SecretCalls \ {c} PROVE CloudCall(action[d])'
      OBVIOUS
    <3>1. action'[d] = action[d] /\ CloudCall(action[d])
      BY <2>1, CallFacts, SMT DEF Moves, SecretInv, SecretTyped, SoundCall
    <3>2. CASE p = CloudProvider
      <4>1. Undisturbed' => config'[CloudProvider].creds # {}
        BY <1>3, <2>6, <2>7, <2>11, <3>2 DEF Undisturbed
      <4> QED
        BY <3>1, <4>1, SMT DEF CloudCall
    <3>3. CASE p # CloudProvider
      <4>1. config'[CloudProvider] = config[CloudProvider] /\ (Undisturbed' => Undisturbed)
        BY <2>2, <2>7, <3>3, SecretFacts DEF Undisturbed
      <4> QED
        BY <3>1, <4>1, SMT DEF CloudCall
    <3> QED
      BY <3>2, <3>3
  <2> QED
    BY <1>1, <1>3, <2>1, <2>2, <2>6, <2>8, <2>9, <2>10, <2>12, <2>13, ConfigChanges
<1> QED
  BY <1>6, <1>7

-----------------------------------------------------------------------------
(* Failures, and the end of an isolate *)

(* A call fails; the promise it was to keep fails with it. *)
LEMMA CallFailsKeeps ==
  ASSUME SecretInv, NEW c \in SecretCalls, CallFails(c)
  PROVE  SecretInv'
<1>1. Moves(c, EndedAction) /\ UNCHANGED <<master, dekRow, config, lastKeys, flags>>
  BY SMT DEF CallFails, To
<1>2. CASE action[c].pc \notin Asking
  BY <1>1, <1>2, CallEnds DEF CallFails, Asking
<1>3. CASE action[c].pc \in Asking
  <2>1. action[c].isolate \in Isolates /\ memo[action[c].isolate] = "pending"
    BY <1>3, CallFacts, SMT DEF SoundCall, KekCall, IdlePcs, Asking
  <2> PICK i \in Isolates : i = Isolate(c)
    BY <2>1 DEF Isolate
  <2>2. memo' = [memo EXCEPT ![i] = "failed"]
    BY <1>3 DEF CallFails, Asking
  <2>3. \A d \in SecretCalls : d # c /\ action[d].pc \in Asking => Isolate(d) # i
    BY <1>3 DEF SecretInv, OneAsks
  <2>4. memo[i] \in Held /\ "failed" \in Held
    BY <2>1 DEF Held, Isolate
  <2>5. SoundCall(EndedAction)'
    BY NoRecords, SMT DEF SoundCall, KekCall, DekCall, PutCall, CloudCall, IdlePcs, Asking, Absent
  <2>6. EndedAction.pc \notin Asking /\ EndedAction.pc # "dek-put" /\ EndedAction \in Actions
    BY NoRecords, SMT DEF Asking
  <2> QED
    BY <1>1, <2>2, <2>3, <2>4, <2>5, <2>6, MemoChanges
<1> QED
  BY <1>2, <1>3

(* A new isolate remembers nothing. *)
LEMMA IsolateReplacedKeeps ==
  ASSUME SecretInv, NEW i \in Isolates, IsolateReplaced(i)
  PROVE  SecretInv'
<1>1. /\ memo' = [memo EXCEPT ![i] = "none"] /\ \A c \in SecretCalls : Isolate(c) # i
      /\ UNCHANGED <<master, dekRow, config, action, lastKeys, flags>>
  BY DEF IsolateReplaced
<1>2. \A j \in Isolates : memo'[j] = IF j = i THEN "none" ELSE memo[j]
  BY <1>1, SMT DEF SecretInv, SecretTyped
<1>3. SecretTyped'
  BY <1>1, SMT DEF SecretInv, SecretTyped, Held
<1>4. SoundCalls'
  <2> SUFFICES ASSUME NEW c \in SecretCalls PROVE SoundCall(action[c])'
    BY DEF SoundCalls
  <2>1. SoundCall(action[c]) /\ action' = action /\ action[c].isolate # i
    BY <1>1, CallFacts DEF Isolate
  <2>2. KekCall(action[c])'
    BY <1>1, <1>2, <2>1, SMT DEF SoundCall, KekCall, Asking, IdlePcs
  <2> QED
    BY <1>1, <2>1, <2>2, SMT DEF SoundCall, DekCall, PutCall, CloudCall, Undisturbed
<1>5. OneAsks' /\ OnePuts'
  BY <1>1, SMT DEF SecretInv, OneAsks, OnePuts, Isolate
<1>6. StoreInv'
  <2>1. KekStable'
    BY <1>1, <1>2, SMT DEF SecretInv, StoreInv, KekStable, Held
  <2> QED
    BY <1>1, <2>1, SMT DEF SecretInv, StoreInv, SoleUseDecryptable, KeysKept, StoredCloudValid,
                           KekFirst, DekFirst, RowsWhole
<1> QED
  BY <1>3, <1>4, <1>5, <1>6 DEF SecretInv

-----------------------------------------------------------------------------
(* Every step keeps the invariant. *)
LEMMA SecretStepInv == SecretInv /\ [SecretNext]_secretVars => SecretInv'
<1> SUFFICES ASSUME SecretInv, [SecretNext]_secretVars PROVE SecretInv'
  OBVIOUS
<1>1. CASE UNCHANGED secretVars
  BY <1>1, SMT
  DEF secretVars, SecretInv, SecretTyped, SoundCalls, SoundCall, KekCall, DekCall, PutCall,
      CloudCall, Undisturbed, OneAsks, OnePuts, Isolate, StoreInv, KekStable,
      SoleUseDecryptable, KeysKept, StoredCloudValid, KekFirst, DekFirst, RowsWhole
<1> QED
  BY <1>1, ValidateKeeps, AskKekKeeps, SelectKekKeeps, InsertKekKeeps, RereadKekKeeps,
     GetDekKeeps, PutDekKeeps, ListConfigsKeeps, SaveReadsKeeps, SaveWritesKeeps,
     CallFailsKeeps, DeleteKeeps, StartListingKeeps, StartPutKeeps, IsolateReplacedKeeps
  DEF SecretNext

(* The invariant holds of every behaviour. *)
LEMMA SecretInvariant == SecretSpec => []SecretInv
  BY SecretInitInv, SecretStepInv, PTL DEF SecretSpec

LEMMA InvTypes ==
  ASSUME SecretInv
  PROVE  SecretTypeOK
<1>1. \A p \in SecretProviders : config[p].there \/ config[p] = NoConfigRow
  BY DEF SecretInv, StoreInv, RowsWhole
<1>2. \A c \in SecretCalls : action[c].pc \in SecretPcs
  BY SMT DEF SecretInv, SecretTyped, Actions
<1>3. dekRow = NoDek \/ dekRow.dek \in SecretCalls
  BY DEF SecretInv, StoreInv, RowsWhole
<1> QED
  BY <1>1, <1>2, <1>3, SMT DEF SecretInv, SecretTyped, SecretTypeOK, Names, Held

(* No row, promise or call ever holds what is none of its values. *)
THEOREM SecretTypes == SecretSpec => []SecretTypeOK
  BY SecretInvariant, InvTypes, PTL

(* For any number of calls and isolates, in any interleaving and with any  *)
(* failures, there is one master key, which every isolate uses             *)
(* (db/settings.ts:34-52, bootstrap/secrets.ts:41-48).                     *)
THEOREM OneMasterKey == SecretSpec => []KekStable
<1>1. SecretInv => KekStable
  BY DEF SecretInv, StoreInv
<1> QED
  BY <1>1, SecretInvariant, PTL

(* What is stored can be decrypted, unless two calls made a data key at    *)
(* once (tenants/encryption.ts:135-160).                                   *)
THEOREM StoredDecryptable == SecretSpec => []SoleUseDecryptable
<1>1. SecretInv => SoleUseDecryptable
  BY DEF SecretInv, StoreInv
<1> QED
  BY <1>1, SecretInvariant, PTL

(* A provider has the keys of the last save that named any, unless a save  *)
(* wrote over what it had not read (llm/credential-store.ts:176-254).      *)
THEOREM KeysOfLastSave == SecretSpec => []KeysKept
<1>1. SecretInv => KeysKept
  BY DEF SecretInv, StoreInv
<1> QED
  BY <1>1, SecretInvariant, PTL

(* A stored configuration of Vertex has a valid mode and a credential,     *)
(* whatever was saved without the other (api/provider-config.ts:268-296).  *)
THEOREM VertexComplete == SecretSpec => []StoredCloudValid
<1>1. SecretInv => StoredCloudValid
  BY DEF SecretInv, StoreInv
<1> QED
  BY <1>1, SecretInvariant, PTL

-----------------------------------------------------------------------------
(* TenantDirectory *)

(* The assumptions, element by element. *)
LEMMA DirFacts ==
  /\ \A c \in DirCalls : c # Nobody
  /\ \A p \in SystemPrefixes : p # Nobody
  BY DirAssumption

-----------------------------------------------------------------------------
(* Types *)

DirPcs == Ended \cup Seeding \cup {"new", "waiting", "signup", "rotate", "set-custom",
                                   "write-password", "clear-flag"}
OrgRows == [there : BOOLEAN, root : BOOLEAN, sys : SystemPrefixes \cup {Nobody},
            custom : CustomInputs \cup {Nobody}]
Settings == [root : DirCalls \cup {Nobody}, admin : DirCalls \cup {Nobody}, must : BOOLEAN,
             password : {Nobody, "default", "changed"}, rotated : BOOLEAN]
Visits == [pc : DirPcs, isolate : DirIsolates \cup {Nobody},
           goal : {Nobody, "boot", "signup", "rotate", "custom"}, org : DirCalls \cup {Nobody},
           value : SystemPrefixes \cup CustomInputs \cup {Nobody}, tries : Nat]
Mishaps == [failed : BOOLEAN, overtaken : BOOLEAN]

DirTyped ==
  /\ seeded \in Settings
  /\ orgs \in [DirCalls -> OrgRows]
  /\ booted \in [DirIsolates -> {"none", "pending", "done"}]
  /\ visit \in [DirCalls -> Visits]
  /\ mishaps \in Mishaps

-----------------------------------------------------------------------------
(* The invariant *)

Placing == {"claim", "insert-root", "flag-root", "prefix", "set-prefix"}
Recording == {"settings", "admin", "must", "audit"}

(* The call that seeds the database has made the first organization. *)
Seeds(c) == Boots(c) /\ orgs[c].there
Rotated == seeded.rotated = TRUE

(* A call and the organization it made. *)
Progress(c) ==
  LET pc == visit[c].pc IN
  /\ orgs[c].there => pc \in Placing \cup Recording \cup {"done", "failed"}
  /\ pc \in Placing \cup Recording => orgs[c].there
  /\ pc \in {"settings", "admin", "must", "find-user", "seed"} => Boots(c)
  /\ pc = "signup" => ~Boots(c)
  /\ pc = "waiting" => visit[c].goal \in {"signup", "rotate"} /\ visit[c].isolate \in DirIsolates
  /\ pc \in {"signup"} \cup Placing \/ Seeds(c) => UsersThere

(* What a call is about to write. *)
Pending(c) ==
  LET x == visit[c] IN
  /\ x.pc = "flag-root" => seeded.root = c
  /\ x.pc = "set-prefix" => x.value \in SystemPrefixes
  /\ x.pc = "set-custom" => x.value \in (CustomInputs \cup {Nobody}) \ SystemPrefixes
                            /\ x.org \in DirCalls
  /\ x.pc = "clear-flag" => Rotated

(* An organization past its placing has an address; the seeding call has   *)
(* written what it is past.                                                *)
SetUp(c) ==
  LET pc == visit[c].pc IN
  /\ orgs[c].there /\ pc \in Recording \cup {"done"} => orgs[c].root \/ orgs[c].sys # Nobody
  /\ Seeds(c) =>
       /\ pc \in {"must", "audit", "done"} => seeded.admin = c
       /\ pc \in {"admin", "audit", "done"} => seeded.must \/ Rotated
       /\ ~mishaps.overtaken =>
            /\ pc \in {"claim", "insert-root"} => seeded.root \in {Nobody, c}
            /\ pc \notin {"prefix", "set-prefix"}
            /\ pc \in Recording \cup {"done"} => orgs[c].root

VisitSound(c) == Progress(c) /\ Pending(c) /\ SetUp(c)
VisitsSound == \A c \in DirCalls : VisitSound(c)

OneSeeds == \A c, d \in DirCalls : Seeds(c) /\ Seeds(d) => c = d

(* Nothing is set before there is a user. *)
UsersFirst ==
  /\ \A i \in DirIsolates : booted[i] = "done" => UsersThere
  /\ seeded.root # Nobody => UsersThere

AdminSeeds ==
  \A c \in DirCalls : seeded.admin = c =>
    Seeds(c) /\ (~mishaps.failed => visit[c].pc \in {"must", "audit", "done"})

SystemUnique ==
  \A c, d \in DirCalls : c # d /\ orgs[c].sys # Nobody => orgs[c].sys # orgs[d].sys
CustomUnique ==
  /\ \A c, d \in DirCalls : c # d /\ orgs[c].custom # Nobody => orgs[c].custom # orgs[d].custom
  /\ \A c \in DirCalls : orgs[c].custom \notin SystemPrefixes

DirInv ==
  /\ DirTyped /\ VisitsSound
  /\ OneSeeds /\ UsersFirst /\ AdminSeeds
  /\ OneRoot /\ SystemUnique /\ CustomUnique

-----------------------------------------------------------------------------
LEMMA NoRows ==
  /\ NoOrg \in OrgRows /\ NoOrg.there = FALSE /\ NoOrg.root = FALSE /\ NoOrg.sys = Nobody
  /\ NoOrg.custom = Nobody
  /\ NotSeeded \in Settings /\ NotSeeded.password = Nobody /\ NotSeeded.root = Nobody
  /\ NotSeeded.admin = Nobody
  /\ NoVisit \in Visits /\ NoVisit.pc = "new" /\ NoVisit.goal = Nobody
<1>1. "new" \in DirPcs
  BY DEF DirPcs
<1> QED
  BY <1>1, SMT DEF NoOrg, OrgRows, NotSeeded, Settings, NoVisit, Visits

(* The initial state. *)
LEMMA DirInitInv == DirInit => DirInv
<1> SUFFICES ASSUME DirInit PROVE DirInv
  OBVIOUS
<1> USE NoRows, DirFacts
<1>1. DirTyped
  <2>1. mishaps \in Mishaps
    BY DEF DirInit, Mishaps
  <2> QED
    BY <2>1, SMT DEF DirInit, DirTyped
<1>2. VisitsSound
  BY SMT
  DEF DirInit, VisitsSound, VisitSound, Progress, Pending, SetUp, Seeds, Boots, Placing,
      Recording, Nobody
<1>3. OneSeeds /\ UsersFirst /\ AdminSeeds /\ OneRoot /\ SystemUnique /\ CustomUnique
  BY SMT
  DEF DirInit, OneSeeds, Seeds, UsersFirst, AdminSeeds, OneRoot, SystemUnique, CustomUnique
<1> QED
  BY <1>1, <1>2, <1>3 DEF DirInv

-----------------------------------------------------------------------------
(* What the steps are made of *)

(* A call that goes to another pc. *)
LEMMA StepsFacts ==
  ASSUME DirTyped, NEW c \in DirCalls, NEW pc \in DirPcs, Steps(c, pc)
  PROVE  /\ visit' \in [DirCalls -> Visits]
         /\ visit'[c].pc = pc /\ visit'[c].goal = visit[c].goal
         /\ visit'[c].value = visit[c].value /\ visit'[c].org = visit[c].org
         /\ visit'[c].isolate = visit[c].isolate
         /\ \A d \in DirCalls : d # c => visit'[d] = visit[d]
<1>1. visit \in [DirCalls -> Visits] /\ visit[c] \in Visits
  BY DEF DirTyped
<1>2. [visit[c] EXCEPT !.pc = pc] \in Visits
  BY <1>1, Zenon DEF Visits
<1>3. visit' = [visit EXCEPT ![c] = [visit[c] EXCEPT !.pc = pc]]
  BY <1>1, SMT DEF Steps
<1> QED
  BY <1>1, <1>2, <1>3, SMT

(* The row of one organization changes. *)
LEMMA OrgFacts ==
  ASSUME DirTyped, NEW o \in DirCalls, NEW row \in OrgRows, orgs' = [orgs EXCEPT ![o] = row]
  PROVE  /\ orgs' \in [DirCalls -> OrgRows] /\ orgs'[o] = row
         /\ \A d \in DirCalls : d # o => orgs'[d] = orgs[d]
  BY SMT DEF DirTyped

(* Facts about a call and its row. *)
LEMMA VisitFacts ==
  ASSUME DirInv, NEW c \in DirCalls
  PROVE  /\ visit[c] \in Visits /\ orgs[c] \in OrgRows /\ VisitSound(c)
         /\ seeded \in Settings /\ mishaps \in Mishaps
  BY DEF DirInv, DirTyped, VisitsSound

(* Settings are added to, never taken back. *)
Grows ==
  /\ UsersThere => UsersThere'
  /\ seeded.root # Nobody => seeded'.root = seeded.root
  /\ seeded.admin # Nobody => seeded'.admin = seeded.admin
  /\ Rotated => Rotated'
  /\ seeded.must => seeded'.must \/ Rotated'
  /\ mishaps.overtaken => mishaps'.overtaken

(* A call that does not move, while settings are added. *)
LEMMA OtherKeeps ==
  ASSUME DirInv, NEW d \in DirCalls, visit'[d] = visit[d], Grows,
         orgs'[d].there = orgs[d].there, orgs'[d].root = orgs[d].root, orgs'[d].sys = orgs[d].sys,
         Seeds(d) /\ ~mishaps'.overtaken /\ visit[d].pc \in {"claim", "insert-root"} =>
           seeded'.root \in {Nobody, d}
  PROVE  VisitSound(d)'
<1>1. VisitSound(d) /\ d # Nobody
  BY VisitFacts, DirFacts
<1>2. Progress(d)'
  BY <1>1, SMT DEF Grows, VisitSound, Progress, Boots, Seeds, UsersThere
<1>3. Pending(d)'
  BY <1>1, SMT DEF Grows, VisitSound, Pending, Rotated
<1>4. SetUp(d)'
  BY <1>1, SMT DEF Grows, VisitSound, SetUp, Boots, Seeds, Rotated
<1> QED
  BY <1>2, <1>3, <1>4 DEF VisitSound

(* A step after which only calls have moved. *)
LEMMA CallsMove ==
  ASSUME DirInv, visit' \in [DirCalls -> Visits], UNCHANGED <<seeded, orgs>>,
         booted' \in [DirIsolates -> {"none", "pending", "done"}],
         \A i \in DirIsolates : booted'[i] = "done" => UsersThere,
         mishaps' \in Mishaps, mishaps.overtaken = mishaps'.overtaken,
         mishaps.failed => mishaps'.failed,
         \A d \in DirCalls : visit'[d] = visit[d] \/ VisitSound(d)',
         \A d \in DirCalls : Seeds(d)' = Seeds(d),
         \A d \in DirCalls : seeded.admin = d /\ ~mishaps'.failed =>
           visit'[d].pc \in {"must", "audit", "done"}
  PROVE  DirInv'
<1>1. DirTyped'
  BY SMT DEF DirInv, DirTyped
<1>2. VisitsSound'
  <2> SUFFICES ASSUME NEW d \in DirCalls, visit'[d] = visit[d] PROVE VisitSound(d)'
    BY DEF VisitsSound
  <2>1. Grows
    BY DEF Grows, UsersThere, Rotated
  <2>2. orgs'[d] = orgs[d] /\ VisitSound(d)
    BY VisitFacts
  <2>3. Seeds(d) /\ ~mishaps'.overtaken /\ visit[d].pc \in {"claim", "insert-root"} =>
           seeded'.root \in {Nobody, d}
    BY <2>2, SMT DEF VisitSound, SetUp
  <2> QED
    BY <2>1, <2>2, <2>3, OtherKeeps
<1>3. OneSeeds' /\ AdminSeeds'
  BY SMT DEF DirInv, OneSeeds, AdminSeeds
<1>4. UsersFirst' /\ OneRoot' /\ SystemUnique' /\ CustomUnique'
  BY SMT DEF DirInv, UsersFirst, UsersThere, OneRoot, SystemUnique, CustomUnique
<1> QED
  BY <1>1, <1>2, <1>3, <1>4 DEF DirInv

(* A call that fails, and those that wait for it. *)
LEMMA FailsKeeps ==
  ASSUME DirInv, NEW c \in DirCalls, Fails(c), UNCHANGED <<seeded, orgs>>,
         mishaps' \in Mishaps, mishaps.overtaken = mishaps'.overtaken,
         mishaps.failed => mishaps'.failed,
         ~mishaps'.failed => ~Seeds(c) \/ visit[c].pc \notin {"must", "audit", "done"}
  PROVE  DirInv'
<1>1. "failed" \in DirPcs
  BY DEF DirPcs, Ended
<1>2. /\ visit' \in [DirCalls -> Visits]
      /\ \A d \in DirCalls : visit'[d] = visit[d]
                             \/ /\ d = c \/ visit[d].pc = "waiting"
                                /\ visit'[d].pc = "failed" /\ visit'[d].goal = visit[d].goal
  <2>1. CASE ~Boots(c)
    <3>1. Steps(c, "failed")
      BY <2>1, Zenon DEF Fails
    <3> QED
      BY <1>1, <3>1, StepsFacts DEF DirInv
  <2>2. CASE Boots(c)
    <3>1. visit' = [d \in DirCalls |->
              IF d = c \/ (At(d, "waiting") /\ visit[d].isolate = visit[c].isolate)
                THEN [visit[d] EXCEPT !.pc = "failed"] ELSE visit[d]]
      BY <2>2, Zenon DEF Fails
    <3>2. \A d \in DirCalls : /\ [visit[d] EXCEPT !.pc = "failed"] \in Visits
                              /\ [visit[d] EXCEPT !.pc = "failed"].pc = "failed"
                              /\ [visit[d] EXCEPT !.pc = "failed"].goal = visit[d].goal
      <4> SUFFICES ASSUME NEW d \in DirCalls
                   PROVE  /\ [visit[d] EXCEPT !.pc = "failed"] \in Visits
                          /\ [visit[d] EXCEPT !.pc = "failed"].pc = "failed"
                          /\ [visit[d] EXCEPT !.pc = "failed"].goal = visit[d].goal
        OBVIOUS
      <4>1. visit[d] \in Visits
        BY VisitFacts
      <4> QED
        BY <1>1, <4>1, Zenon DEF Visits
    <3>3. \A d \in DirCalls : visit[d] \in Visits
      BY VisitFacts
    <3> QED
      BY <3>1, <3>2, <3>3, SMT DEF At
  <2> QED
    BY <2>1, <2>2
<1>3. /\ booted' \in [DirIsolates -> {"none", "pending", "done"}]
      /\ \A i \in DirIsolates : booted'[i] = "done" => UsersThere
  <2>1. booted' = booted \/ booted' = [booted EXCEPT ![visit[c].isolate] = "none"]
    BY Zenon DEF Fails
  <2>2. /\ booted \in [DirIsolates -> {"none", "pending", "done"}]
        /\ \A i \in DirIsolates : booted[i] = "done" => UsersThere
    BY DEF DirInv, DirTyped, UsersFirst
  <2> QED
    BY <2>1, <2>2, SMT
<1>4. \A d \in DirCalls : visit'[d] = visit[d] \/ VisitSound(d)'
  <2> SUFFICES ASSUME NEW d \in DirCalls, d = c \/ visit[d].pc = "waiting",
                      visit'[d].pc = "failed", visit'[d].goal = visit[d].goal
               PROVE  VisitSound(d)'
    BY <1>2
  <2>1. VisitSound(d) /\ orgs'[d] = orgs[d]
    BY VisitFacts
  <2>2. Progress(d)'
    BY <2>1, SMT DEF VisitSound, Progress, Placing, Recording, Seeds, Boots, UsersThere
  <2> QED
    BY <2>1, <2>2, SMT DEF VisitSound, Pending, SetUp, Recording
<1>5. \A d \in DirCalls : Seeds(d)' = Seeds(d)
  BY <1>2 DEF Seeds, Boots
<1>6. \A d \in DirCalls : seeded.admin = d /\ ~mishaps'.failed =>
           visit'[d].pc \in {"must", "audit", "done"}
  <2> SUFFICES ASSUME NEW d \in DirCalls, seeded.admin = d, ~mishaps'.failed
               PROVE  visit'[d].pc \in {"must", "audit", "done"}
    OBVIOUS
  <2>1. Seeds(d) /\ visit[d].pc \in {"must", "audit", "done"}
    BY DEF DirInv, AdminSeeds
  <2> QED
    BY <1>2, <2>1
<1> QED
  BY <1>2, <1>3, <1>4, <1>5, <1>6, CallsMove

-----------------------------------------------------------------------------
(* Steps of a call that write nothing *)

(* A call goes on with what it has. *)
LEMMA CallMoves ==
  ASSUME DirInv, NEW c \in DirCalls, UNCHANGED <<seeded, orgs, mishaps>>,
         visit' \in [DirCalls -> Visits], \A d \in DirCalls : d # c => visit'[d] = visit[d],
         booted' \in [DirIsolates -> {"none", "pending", "done"}],
         \A i \in DirIsolates : booted'[i] = "done" => UsersThere,
         VisitSound(c)', visit'[c].goal = visit[c].goal \/ ~orgs[c].there,
         Seeds(c) /\ visit[c].pc \in {"must", "audit", "done"} =>
           visit'[c].pc \in {"must", "audit", "done"}
  PROVE  DirInv'
<1>1. \A d \in DirCalls : Seeds(d)' = Seeds(d)
  BY SMT DEF Seeds, Boots, DirInv, DirTyped, OrgRows
<1>2. \A d \in DirCalls : seeded.admin = d /\ ~mishaps'.failed =>
           visit'[d].pc \in {"must", "audit", "done"}
  BY SMT DEF DirInv, AdminSeeds
<1>3. mishaps \in Mishaps
  BY DEF DirInv, DirTyped
<1>4. \A d \in DirCalls : visit'[d] = visit[d] \/ VisitSound(d)'
  OBVIOUS
<1> QED
  BY <1>1, <1>2, <1>3, <1>4, CallsMove

LEMMA CallSteps ==
  ASSUME DirInv, NEW c \in DirCalls, UNCHANGED <<seeded, orgs, mishaps>>,
         NEW pc \in DirPcs, Steps(c, pc),
         booted' \in [DirIsolates -> {"none", "pending", "done"}],
         \A i \in DirIsolates : booted'[i] = "done" => UsersThere,
         VisitSound(c)',
         Seeds(c) /\ visit[c].pc \in {"must", "audit", "done"} => pc \in {"must", "audit", "done"}
  PROVE  DirInv'
BY StepsFacts, CallMoves DEF DirInv

(* The promises of the isolates. *)
LEMMA BootedFacts ==
  ASSUME DirInv
  PROVE  /\ booted \in [DirIsolates -> {"none", "pending", "done"}]
         /\ \A i \in DirIsolates : booted[i] = "done" => UsersThere
  BY DEF DirInv, DirTyped, UsersFirst

(* The isolate is set up once there is a user. *)
LEMMA BootedKeeps ==
  ASSUME DirInv, NEW c \in DirCalls, UsersThere, Booted(c)
  PROVE  /\ booted' \in [DirIsolates -> {"none", "pending", "done"}]
         /\ \A i \in DirIsolates : booted'[i] = "done" => UsersThere
         /\ Steps(c, "done")
<1> PICK i : i = visit[c].isolate
  OBVIOUS
<1>1. booted' = [booted EXCEPT ![i] = "done"] /\ Steps(c, "done")
  BY DEF Booted
<1>2. /\ booted \in [DirIsolates -> {"none", "pending", "done"}]
      /\ \A j \in DirIsolates : booted[j] = "done" => UsersThere
  BY BootedFacts
<1>3. booted' = [j \in DirIsolates |-> IF j = i THEN "done" ELSE booted[j]]
  BY <1>1, <1>2
<1>4. booted' \in [DirIsolates -> {"none", "pending", "done"}]
  BY <1>2, <1>3
<1> QED
  BY <1>1, <1>4

(* The first request of an isolate seeds, the next wait for it. *)
LEMMA ArriveKeeps ==
  ASSUME DirInv, NEW c \in DirCalls, NEW i \in DirIsolates, NEW goal \in {"signup", "rotate"},
         Arrive(c, i, goal)
  PROVE  DirInv'
<1>1. /\ visit[c].pc = "new" /\ UNCHANGED <<seeded, orgs, mishaps>>
      /\ visit[c] \in Visits /\ VisitSound(c)
  BY VisitFacts DEF Arrive, At
<1>2. ~orgs[c].there
  BY <1>1, SMT DEF VisitSound, Progress, Placing, Recording
<1>3. ASSUME NEW pc \in {"find-user", "waiting", goal}, NEW g \in {"boot", goal},
             visit' = [visit EXCEPT ![c] = [NoVisit EXCEPT !.pc = pc, !.isolate = i, !.goal = g]],
             g = "boot" <=> pc = "find-user", pc = goal => UsersThere,
             booted' \in [DirIsolates -> {"none", "pending", "done"}],
             \A j \in DirIsolates : booted'[j] = "done" => UsersThere
      PROVE  DirInv'
  <2>1. pc \in DirPcs
    BY DEF DirPcs, Seeding
  <2>2. PICK y \in Visits : /\ y = [NoVisit EXCEPT !.pc = pc, !.isolate = i, !.goal = g]
                            /\ y.pc = pc /\ y.goal = g /\ y.isolate = i
    <3>1. [NoVisit EXCEPT !.pc = pc, !.isolate = i, !.goal = g] \in Visits
      BY <2>1, NoRows, Zenon DEF Visits
    <3>2. /\ [NoVisit EXCEPT !.pc = pc, !.isolate = i, !.goal = g].pc = pc
          /\ [NoVisit EXCEPT !.pc = pc, !.isolate = i, !.goal = g].goal = g
          /\ [NoVisit EXCEPT !.pc = pc, !.isolate = i, !.goal = g].isolate = i
      BY NoRows, Zenon DEF Visits
    <3> QED
      BY <3>1, <3>2
  <2>3. /\ visit' \in [DirCalls -> Visits] /\ visit'[c] = y
        /\ \A d \in DirCalls : d # c => visit'[d] = visit[d]
    BY <1>3, <2>2, SMT DEF DirInv, DirTyped
  <2>4. VisitSound(c)'
    BY <1>1, <1>2, <1>3, <2>2, <2>3, SMT
    DEF VisitSound, Progress, Pending, SetUp, Seeds, Boots, Placing, Recording, UsersThere
  <2>5. ~Seeds(c)
    BY <1>2 DEF Seeds
  <2> QED
    BY <1>1, <1>2, <1>3, <2>3, <2>4, <2>5, CallMoves
<1>4. CASE booted[i] = "none"
  <2>1. /\ booted' = [booted EXCEPT ![i] = "pending"]
        /\ visit' = [visit EXCEPT ![c] = [NoVisit EXCEPT !.pc = "find-user", !.isolate = i,
                                                         !.goal = "boot"]]
    BY <1>4, Zenon DEF Arrive
  <2>2. /\ booted' \in [DirIsolates -> {"none", "pending", "done"}]
        /\ \A j \in DirIsolates : booted'[j] = "done" => UsersThere
    BY <2>1, BootedFacts, SMT
  <2> QED
    BY <1>3, <2>1, <2>2
<1>5. CASE booted[i] = "pending"
  <2>1. /\ booted' = booted
        /\ visit' = [visit EXCEPT ![c] = [NoVisit EXCEPT !.pc = "waiting", !.isolate = i,
                                                         !.goal = goal]]
    BY <1>5, Zenon DEF Arrive
  <2> QED
    BY <1>3, <2>1, BootedFacts
<1>6. CASE booted[i] = "done"
  <2>1. /\ booted' = booted
        /\ visit' = [visit EXCEPT ![c] = [NoVisit EXCEPT !.pc = goal, !.isolate = i,
                                                         !.goal = goal]]
    BY <1>6, Zenon DEF Arrive
  <2> QED
    BY <1>3, <1>6, <2>1, BootedFacts
<1> QED
  BY <1>4, <1>5, <1>6, BootedFacts

(* Those who waited go on when there is a user. *)
LEMMA WaitedKeeps ==
  ASSUME DirInv, NEW c \in DirCalls, Waited(c)
  PROVE  DirInv'
<1>1. /\ visit[c].pc = "waiting" /\ UNCHANGED <<seeded, orgs, booted, mishaps>>
      /\ Steps(c, visit[c].goal) /\ VisitSound(c) /\ booted[visit[c].isolate] = "done"
  BY VisitFacts DEF Waited, At
<1>2. ~orgs[c].there /\ visit[c].goal \in {"signup", "rotate"} /\ UsersThere
  BY <1>1, BootedFacts, SMT DEF VisitSound, Progress, Placing, Recording
<1>3. PICK pc \in DirPcs : pc = visit[c].goal
  BY <1>2 DEF DirPcs
<1>4. visit'[c].pc = pc /\ visit'[c].goal = pc
  BY <1>1, <1>3, StepsFacts DEF DirInv
<1>5. VisitSound(c)'
  BY <1>1, <1>2, <1>3, <1>4, SMT
  DEF VisitSound, Progress, Pending, SetUp, Seeds, Boots, Placing, Recording, UsersThere
<1> QED
  BY <1>1, <1>2, <1>3, <1>5, BootedFacts, CallSteps DEF Seeds

(* ensureInitialAdmin finds a user, or goes on to make one. *)
LEMMA FindUserKeeps ==
  ASSUME DirInv, NEW c \in DirCalls, FindUser(c)
  PROVE  DirInv'
<1>1. visit[c].pc = "find-user" /\ UNCHANGED <<seeded, orgs, mishaps>> /\ VisitSound(c)
  BY VisitFacts DEF FindUser, At
<1>2. ~orgs[c].there /\ Boots(c)
  BY <1>1, SMT DEF VisitSound, Progress, Placing, Recording
<1>3. ASSUME NEW pc \in {"seed", "done"}, Steps(c, pc),
             booted' \in [DirIsolates -> {"none", "pending", "done"}],
             \A i \in DirIsolates : booted'[i] = "done" => UsersThere
      PROVE  DirInv'
  <2>1. pc \in DirPcs
    BY DEF DirPcs, Seeding, Ended
  <2>2. visit'[c].pc = pc /\ visit'[c].goal = visit[c].goal
    BY <1>3, <2>1, StepsFacts DEF DirInv
  <2>3. VisitSound(c)'
    BY <1>1, <1>2, <2>2, SMT
    DEF VisitSound, Progress, Pending, SetUp, Seeds, Boots, Placing, Recording, UsersThere
  <2> QED
    BY <1>1, <1>2, <1>3, <2>1, <2>3, CallSteps DEF Seeds
<1>4. CASE UsersThere
  <2>1. Booted(c)
    BY <1>4 DEF FindUser
  <2> QED
    BY <1>3, <1>4, <2>1, BootedKeeps
<1>5. CASE ~UsersThere
  BY <1>3, <1>5, BootedFacts DEF FindUser
<1> QED
  BY <1>4, <1>5

(* The root tenant that is stored decides. *)
LEMMA ReadRootKeeps ==
  ASSUME DirInv, NEW c \in DirCalls, ReadRoot(c)
  PROVE  DirInv'
<1>1. visit[c].pc = "claim" /\ UNCHANGED <<seeded, orgs, booted, mishaps>> /\ VisitSound(c)
  BY VisitFacts DEF ReadRoot, At
<1>2. PICK pc \in {"insert-root", "flag-root", "prefix"} :
        /\ Steps(c, pc)
        /\ pc = "flag-root" => seeded.root = c
        /\ pc = "prefix" => seeded.root \notin {Nobody, c}
  <2>1. CASE seeded.root = Nobody
    BY <2>1 DEF ReadRoot
  <2>2. CASE seeded.root # Nobody
    <3>1. Steps(c, IF seeded.root = c THEN "flag-root" ELSE "prefix")
      BY <2>2 DEF ReadRoot, AfterClaim
    <3> QED
      BY <2>2, <3>1
  <2> QED
    BY <2>1, <2>2
<1>3. pc \in DirPcs
  BY DEF DirPcs, Seeding
<1>4. visit'[c].pc = pc /\ visit'[c].goal = visit[c].goal
  BY <1>2, <1>3, StepsFacts DEF DirInv
<1>5. VisitSound(c)'
  BY <1>1, <1>2, <1>4, SMT
  DEF VisitSound, Progress, Pending, SetUp, Seeds, Boots, Placing, Recording, UsersThere
<1> QED
  BY <1>1, <1>2, <1>3, <1>5, BootedFacts, CallSteps

(* A candidate for the prefix is taken, or another is tried. *)
LEMMA PickPrefixKeeps ==
  ASSUME DirInv, NEW c \in DirCalls, PickPrefix(c)
  PROVE  DirInv'
<1>1. /\ visit[c].pc = "prefix" /\ UNCHANGED <<seeded, orgs, mishaps>>
      /\ visit[c] \in Visits /\ VisitSound(c) /\ mishaps \in Mishaps
  BY VisitFacts DEF PickPrefix, At
<1>2. ASSUME NEW y \in Visits, visit' = [visit EXCEPT ![c] = y], UNCHANGED booted,
             y.pc \in {"prefix", "set-prefix"}, y.goal = visit[c].goal,
             y.pc = "set-prefix" => y.value \in SystemPrefixes
      PROVE  DirInv'
  <2>1. /\ visit' \in [DirCalls -> Visits] /\ visit'[c] = y
        /\ \A d \in DirCalls : d # c => visit'[d] = visit[d]
    BY <1>2, SMT DEF DirInv, DirTyped
  <2>2. VisitSound(c)'
    BY <1>1, <1>2, <2>1, SMT
    DEF VisitSound, Progress, Pending, SetUp, Seeds, Boots, Placing, Recording, UsersThere
  <2> QED
    BY <1>1, <1>2, <2>1, <2>2, BootedFacts, CallMoves
<1>3. PICK p \in SystemPrefixes :
        \/ visit' = [visit EXCEPT ![c] = [visit[c] EXCEPT !.pc = "set-prefix", !.value = p]] /\ UNCHANGED booted
        \/ visit' = [visit EXCEPT ![c].tries = @ + 1] /\ UNCHANGED booted
        \/ Fails(c)
  BY Zenon DEF PickPrefix
<1>4. CASE visit' = [visit EXCEPT ![c] = [visit[c] EXCEPT !.pc = "set-prefix", !.value = p]] /\ UNCHANGED booted
  <2> DEFINE y == [visit[c] EXCEPT !.pc = "set-prefix", !.value = p]
  <2>1. "set-prefix" \in DirPcs
    BY DEF DirPcs, Seeding
  <2>2. /\ y \in Visits /\ y.pc = "set-prefix" /\ y.goal = visit[c].goal /\ y.value = p
    BY <1>1, <2>1, Zenon DEF Visits
  <2>3. visit' = [visit EXCEPT ![c] = y]
    BY <1>4
  <2> HIDE DEF y
  <2> QED
    BY <1>2, <1>4, <2>2, <2>3
<1>5. CASE visit' = [visit EXCEPT ![c].tries = @ + 1] /\ UNCHANGED booted
  <2> DEFINE y == [visit[c] EXCEPT !.tries = visit[c].tries + 1]
  <2>1. visit[c].tries + 1 \in Nat
    BY <1>1, SMT DEF Visits
  <2>2. /\ y \in Visits /\ y.pc = "prefix" /\ y.goal = visit[c].goal
    BY <1>1, <2>1, Zenon DEF Visits
  <2>3. visit' = [visit EXCEPT ![c] = y]
    BY <1>5, SMT DEF DirInv, DirTyped
  <2> HIDE DEF y
  <2> QED
    BY <1>2, <1>5, <2>2, <2>3
<1>6. CASE Fails(c)
  BY <1>1, <1>6, FailsKeeps
<1> QED
  BY <1>3, <1>4, <1>5, <1>6

(* The last record of a call: the isolate is set up if it seeded. *)
LEMMA AuditedKeeps ==
  ASSUME DirInv, NEW c \in DirCalls, Audited(c)
  PROVE  DirInv'
<1>1. visit[c].pc = "audit" /\ UNCHANGED <<seeded, orgs, mishaps>> /\ VisitSound(c)
  BY VisitFacts DEF Audited, At
<1>2. /\ Steps(c, "done")
      /\ booted' \in [DirIsolates -> {"none", "pending", "done"}]
      /\ \A i \in DirIsolates : booted'[i] = "done" => UsersThere
  <2>1. CASE Boots(c)
    <3>1. UsersThere
      BY <1>1, <2>1, SMT DEF VisitSound, Progress, Seeds, Recording
    <3> QED
      BY <2>1, <3>1, BootedKeeps DEF Audited
  <2>2. CASE ~Boots(c)
    BY <2>2, BootedFacts DEF Audited
  <2> QED
    BY <2>1, <2>2
<1>3. "done" \in DirPcs
  BY DEF DirPcs, Ended
<1>4. visit'[c].pc = "done" /\ visit'[c].goal = visit[c].goal
  BY <1>2, <1>3, StepsFacts DEF DirInv
<1>5. VisitSound(c)'
  BY <1>1, <1>4, SMT
  DEF VisitSound, Progress, Pending, SetUp, Seeds, Boots, Placing, Recording, UsersThere, Rotated
<1> QED
  BY <1>1, <1>2, <1>3, <1>5, CallSteps

(* A prefix of the tenant's own is none of the system's. *)
LEMMA ChoosePrefixKeeps ==
  ASSUME DirInv, NEW c \in DirCalls, NEW o \in DirCalls, NEW p \in CustomInputs,
         ChoosePrefix(c, o, p)
  PROVE  DirInv'
<1> PICK pc \in {"set-custom", "refused"} :
      /\ visit' = [visit EXCEPT ![c] = [NoVisit EXCEPT !.pc = pc, !.goal = "custom", !.org = o,
                                                       !.value = p]]
      /\ pc = "set-custom" => p = Nobody \/ p \notin SystemPrefixes
  <2> DEFINE allowed == IF p = Nobody THEN orgs[o].root ELSE ValidCustom(p) /\ ~Taken(p, o)
  <2>1. visit' = [visit EXCEPT ![c] = [NoVisit EXCEPT !.pc = IF allowed THEN "set-custom" ELSE "refused",
                                                   !.goal = "custom", !.org = o, !.value = p]]
    BY DEF ChoosePrefix
  <2>2. allowed => p = Nobody \/ p \notin SystemPrefixes
    BY DEF ValidCustom
  <2> HIDE DEF allowed
  <2> QED
    BY <2>1, <2>2
<1>1. visit[c].pc = "new" /\ UNCHANGED <<seeded, orgs, booted, mishaps>> /\ VisitSound(c)
  BY VisitFacts DEF ChoosePrefix, At
<1>2. ~orgs[c].there
  BY <1>1, SMT DEF VisitSound, Progress, Placing, Recording
<1>3. pc \in DirPcs
  BY DEF DirPcs, Ended
<1>4. PICK y \in Visits : /\ visit' = [visit EXCEPT ![c] = y]
                          /\ y.pc = pc /\ y.goal = "custom" /\ y.org = o /\ y.value = p
  <2> DEFINE y == [NoVisit EXCEPT !.pc = pc, !.goal = "custom", !.org = o, !.value = p]
  <2>1. y \in Visits /\ y.pc = pc /\ y.goal = "custom" /\ y.org = o /\ y.value = p
    BY <1>3, NoRows, Zenon DEF Visits
  <2> QED
    BY <2>1
<1>5. /\ visit' \in [DirCalls -> Visits] /\ visit'[c] = y
      /\ \A d \in DirCalls : d # c => visit'[d] = visit[d]
  BY <1>4, SMT DEF DirInv, DirTyped
<1>6. VisitSound(c)'
  BY <1>1, <1>2, <1>4, <1>5, DirFacts, SMT
  DEF VisitSound, Progress, Pending, SetUp, Seeds, Boots, Placing, Recording, UsersThere
<1> QED
  BY <1>1, <1>2, <1>5, <1>6, BootedFacts, CallMoves DEF Seeds

(* The current password decides. *)
LEMMA ReadPasswordKeeps ==
  ASSUME DirInv, NEW c \in DirCalls, NEW given, ReadPassword(c, given)
  PROVE  DirInv'
<1>1. visit[c].pc = "rotate" /\ UNCHANGED <<seeded, orgs, booted, mishaps>> /\ VisitSound(c)
  BY VisitFacts DEF ReadPassword, At
<1>2. ~orgs[c].there
  BY <1>1, SMT DEF VisitSound, Progress, Placing, Recording
<1>3. PICK pc \in {"write-password", "refused"} : Steps(c, pc)
  BY DEF ReadPassword
<1>4. pc \in DirPcs
  BY DEF DirPcs, Ended
<1>5. visit'[c].pc = pc /\ visit'[c].goal = visit[c].goal
  BY <1>3, <1>4, StepsFacts DEF DirInv
<1>6. VisitSound(c)'
  BY <1>1, <1>2, <1>5, SMT
  DEF VisitSound, Progress, Pending, SetUp, Seeds, Boots, Placing, Recording, UsersThere
<1> QED
  BY <1>1, <1>2, <1>3, <1>4, <1>6, BootedFacts, CallSteps DEF Seeds

(* D1 fails a call. *)
LEMMA VisitFailsKeeps ==
  ASSUME DirInv, NEW c \in DirCalls, VisitFails(c)
  PROVE  DirInv'
<1>1. /\ Fails(c) /\ UNCHANGED <<seeded, orgs>> /\ mishaps \in Mishaps
      /\ mishaps' = [mishaps EXCEPT !.failed = @ \/ (Boots(c) /\ orgs[c].there)]
  BY VisitFacts DEF VisitFails
<1>2. /\ mishaps' \in Mishaps /\ mishaps'.overtaken = mishaps.overtaken
      /\ mishaps.failed => mishaps'.failed
      /\ ~mishaps'.failed => ~Seeds(c)
  <2>1. orgs[c].there \in BOOLEAN /\ Boots(c) \in BOOLEAN
    BY VisitFacts, SMT DEF OrgRows, Boots
  <2>2. (Boots(c) /\ orgs[c].there) = Seeds(c) /\ Seeds(c) \in BOOLEAN
    BY <2>1 DEF Seeds
  <2>3. mishaps' = [mishaps EXCEPT !.failed = @ \/ Seeds(c)]
    BY <1>1, <2>2 DEF Seeds
  <2> QED
    BY <1>1, <2>2, <2>3, Zenon DEF Mishaps
<1> QED
  BY <1>1, <1>2, FailsKeeps

(* A new isolate asks again. *)
LEMMA FreshIsolateKeeps ==
  ASSUME DirInv, NEW i \in DirIsolates, FreshIsolate(i)
  PROVE  DirInv'
<1>1. booted' = [booted EXCEPT ![i] = "none"] /\ UNCHANGED <<seeded, orgs, visit, mishaps>>
  BY DEF FreshIsolate
<1>2. /\ booted' \in [DirIsolates -> {"none", "pending", "done"}]
      /\ \A j \in DirIsolates : booted'[j] = "done" => UsersThere
  BY <1>1, BootedFacts, SMT
<1>3. /\ visit' \in [DirCalls -> Visits] /\ mishaps' \in Mishaps
      /\ \A d \in DirCalls : Seeds(d)' = Seeds(d)
  BY <1>1 DEF DirInv, DirTyped, Seeds, Boots
<1>4. \A d \in DirCalls : seeded.admin = d /\ ~mishaps'.failed =>
           visit'[d].pc \in {"must", "audit", "done"}
  BY <1>1 DEF DirInv, AdminSeeds
<1> QED
  BY <1>1, <1>2, <1>3, <1>4, CallsMove

-----------------------------------------------------------------------------
(* Steps that write *)

(* A call that adds to the settings or to an organization. *)
LEMMA WriteKeeps ==
  ASSUME DirInv, NEW c \in DirCalls,
         visit' \in [DirCalls -> Visits], \A d \in DirCalls : d # c => visit'[d] = visit[d],
         visit'[c].goal = visit[c].goal, VisitSound(c)',
         seeded' \in Settings, orgs' \in [DirCalls -> OrgRows], UNCHANGED booted,
         mishaps' \in Mishaps, mishaps'.failed = mishaps.failed, Grows,
         \A d \in DirCalls : d # c =>
           /\ orgs'[d].there = orgs[d].there
           /\ orgs'[d].root = orgs[d].root
           /\ orgs'[d].sys = orgs[d].sys
           /\ Seeds(d) /\ ~mishaps'.overtaken /\ visit[d].pc \in {"claim", "insert-root"} =>
                seeded'.root \in {seeded.root, d},
         Seeds(c)' => Seeds(c) \/ ~UsersThere, Seeds(c) => Seeds(c)',
         seeded'.root # Nobody => seeded.root # Nobody \/ UsersThere,
         \A d \in DirCalls : seeded'.admin = d => seeded.admin = d \/ (d = c /\ Seeds(c)'),
         seeded'.admin = c /\ ~mishaps.failed => visit'[c].pc \in {"must", "audit", "done"},
         OneRoot', SystemUnique', CustomUnique'
  PROVE  DirInv'
<1>1. DirTyped'
  BY DEF DirInv, DirTyped
<1>2. ASSUME NEW d \in DirCalls, d # c PROVE VisitSound(d)' /\ Seeds(d)' = Seeds(d)
  <2>1. visit'[d] = visit[d] /\ VisitSound(d)
    BY <1>2, VisitFacts
  <2>2. /\ orgs'[d].there = orgs[d].there /\ orgs'[d].root = orgs[d].root
        /\ orgs'[d].sys = orgs[d].sys
    BY <1>2
  <2>3. Seeds(d) /\ ~mishaps'.overtaken /\ visit[d].pc \in {"claim", "insert-root"} =>
          seeded'.root \in {seeded.root, d}
    BY <1>2
  <2>4. Seeds(d) /\ ~mishaps'.overtaken /\ visit[d].pc \in {"claim", "insert-root"} =>
           seeded'.root \in {Nobody, d}
    BY <2>1, <2>3, SMT DEF VisitSound, SetUp, Grows
  <2>5. VisitSound(d)'
    BY <2>1, <2>2, <2>4, OtherKeeps
  <2>6. Seeds(d)' = Seeds(d)
    BY <2>1, <2>2 DEF Seeds, Boots
  <2> QED
    BY <2>5, <2>6
<1>3. VisitsSound'
  BY <1>2 DEF VisitsSound
<1>4. OneSeeds'
  <2>1. \A d \in DirCalls : Seeds(d) => UsersThere
    BY VisitFacts, SMT DEF VisitSound, Progress
  <2> QED
    BY <1>2, <2>1, SMT DEF DirInv, OneSeeds
<1>5. UsersFirst'
  BY SMT DEF DirInv, UsersFirst, Grows, UsersThere
<1>6. AdminSeeds'
  <2> SUFFICES ASSUME NEW d \in DirCalls, seeded'.admin = d
               PROVE  Seeds(d)' /\ (~mishaps'.failed => visit'[d].pc \in {"must", "audit", "done"})
    BY DEF AdminSeeds
  <2>1. seeded.admin = d => Seeds(d) /\ (~mishaps.failed => visit[d].pc \in {"must", "audit", "done"})
    BY DEF DirInv, AdminSeeds
  <2> QED
    BY <1>2, <2>1
<1> QED
  BY <1>1, <1>3, <1>4, <1>5, <1>6 DEF DirInv

(* The row of a new organization. *)
LEMMA NewOrg ==
  ASSUME DirInv, NEW c \in DirCalls
  PROVE  \E row \in OrgRows : /\ row = [orgs[c] EXCEPT !.there = TRUE]
                              /\ row.there = TRUE /\ row.root = orgs[c].root
                              /\ row.sys = orgs[c].sys /\ row.custom = orgs[c].custom
<1>1. orgs[c] \in OrgRows
  BY VisitFacts
<1>2. [orgs[c] EXCEPT !.there = TRUE] \in OrgRows
  BY <1>1, Zenon DEF OrgRows
<1> QED
  BY <1>1, <1>2, Zenon DEF OrgRows

(* The administrator and the first organization. *)
LEMMA SeedAdminKeeps ==
  ASSUME DirInv, NEW c \in DirCalls, SeedAdmin(c)
  PROVE  DirInv'
<1>1. visit[c].pc = "seed" /\ UNCHANGED mishaps
  BY DEF SeedAdmin, At
<1>2. /\ visit[c] \in Visits /\ orgs[c] \in OrgRows /\ VisitSound(c)
      /\ seeded \in Settings /\ mishaps \in Mishaps
  BY VisitFacts
<1>3. Boots(c) /\ ~orgs[c].there
  BY <1>1, <1>2, SMT DEF VisitSound, Progress, Placing, Recording
<1>4. CASE UsersThere
  BY <1>1, <1>2, <1>3, <1>4, FailsKeeps DEF SeedAdmin, Seeds
<1>5. CASE ~UsersThere
  <2>1. /\ seeded' = [seeded EXCEPT !.password = "default"]
        /\ orgs' = [orgs EXCEPT ![c] = [orgs[c] EXCEPT !.there = TRUE]]
        /\ Steps(c, "claim") /\ UNCHANGED booted
    BY <1>5, SMT DEF SeedAdmin, DirInv, DirTyped
  <2>2. "claim" \in DirPcs
    BY DEF DirPcs, Seeding
  <2>3. /\ visit' \in [DirCalls -> Visits] /\ visit'[c].pc = "claim"
        /\ visit'[c].goal = visit[c].goal
        /\ \A d \in DirCalls : d # c => visit'[d] = visit[d]
    BY <2>1, <2>2, StepsFacts DEF DirInv
  <2>4. /\ seeded' \in Settings /\ seeded'.password = "default" /\ seeded'.root = seeded.root
        /\ seeded'.admin = seeded.admin /\ seeded'.must = seeded.must
        /\ seeded'.rotated = seeded.rotated
    BY <1>2, <2>1, Zenon DEF Settings
  <2>5. PICK row \in OrgRows : /\ row = [orgs[c] EXCEPT !.there = TRUE]
                               /\ row.there = TRUE /\ row.root = orgs[c].root
                               /\ row.sys = orgs[c].sys /\ row.custom = orgs[c].custom
    BY NewOrg
  <2>6. /\ orgs' \in [DirCalls -> OrgRows] /\ orgs'[c] = row
        /\ \A d \in DirCalls : d # c => orgs'[d] = orgs[d]
    BY <2>1, <2>5, OrgFacts DEF DirInv
  <2>7. seeded.root = Nobody
    BY <1>5 DEF DirInv, UsersFirst
  <2>8. seeded.admin = Nobody
    <3>1. \A d \in DirCalls : Seeds(d) => UsersThere
      BY VisitFacts, SMT DEF VisitSound, Progress
    <3> QED
      BY <1>2, <1>5, <3>1, SMT DEF DirInv, AdminSeeds, Settings
  <2>9. Grows
    BY <1>1, <1>5, <2>4, <2>7, <2>8, SMT DEF Grows, UsersThere, Rotated, Nobody
  <2>10. VisitSound(c)'
    BY <1>1, <1>3, <2>3, <2>4, <2>5, <2>6, <2>7, SMT
    DEF VisitSound, Progress, Pending, SetUp, Seeds, Boots, Placing, Recording, UsersThere, Nobody
  <2>11. OneRoot' /\ SystemUnique' /\ CustomUnique'
    <3>1. \A d \in DirCalls : /\ orgs'[d].root = orgs[d].root /\ orgs'[d].sys = orgs[d].sys
                              /\ orgs'[d].custom = orgs[d].custom
      BY <2>5, <2>6
    <3> QED
      BY <2>4, <3>1, SMT DEF DirInv, OneRoot, SystemUnique, CustomUnique
  <2>12. Seeds(c)' /\ ~Seeds(c) /\ \A d \in DirCalls : seeded'.admin # d
    BY <1>3, <2>3, <2>4, <2>5, <2>6, <2>8, DirFacts DEF Seeds, Boots
  <2>13. \A d \in DirCalls : d # c =>
           /\ orgs'[d].there = orgs[d].there
           /\ orgs'[d].root = orgs[d].root
           /\ orgs'[d].sys = orgs[d].sys
           /\ Seeds(d) /\ ~mishaps'.overtaken /\ visit[d].pc \in {"claim", "insert-root"} =>
                seeded'.root \in {seeded.root, d}
    BY <2>4, <2>6
  <2> QED
    BY <1>1, <1>2, <1>5, <2>1, <2>3, <2>4, <2>6, <2>7, <2>9, <2>10, <2>11, <2>12, <2>13, WriteKeeps
<1> QED
  BY <1>4, <1>5

(* Every sign-up makes an organization. *)
LEMMA SignUpKeeps ==
  ASSUME DirInv, NEW c \in DirCalls, SignUp(c)
  PROVE  DirInv'
<1>1. /\ visit[c].pc = "signup" /\ UNCHANGED <<seeded, booted, mishaps>>
      /\ Steps(c, "claim")
  BY DEF SignUp, At
<1>2. /\ visit[c] \in Visits /\ VisitSound(c) /\ seeded \in Settings /\ mishaps \in Mishaps
  BY VisitFacts
<1>3. ~Boots(c) /\ ~orgs[c].there /\ UsersThere
  BY <1>1, <1>2, SMT DEF VisitSound, Progress, Placing, Recording
<1>4. orgs' = [orgs EXCEPT ![c] = [orgs[c] EXCEPT !.there = TRUE]]
  BY SMT DEF SignUp, DirInv, DirTyped
<1>5. "claim" \in DirPcs
  BY DEF DirPcs, Seeding
<1>6. /\ visit' \in [DirCalls -> Visits] /\ visit'[c].pc = "claim"
      /\ visit'[c].goal = visit[c].goal
      /\ \A d \in DirCalls : d # c => visit'[d] = visit[d]
  BY <1>1, <1>5, StepsFacts DEF DirInv
<1>7. PICK row \in OrgRows : /\ row = [orgs[c] EXCEPT !.there = TRUE]
                             /\ row.there = TRUE /\ row.root = orgs[c].root
                             /\ row.sys = orgs[c].sys /\ row.custom = orgs[c].custom
  BY NewOrg
<1>8. /\ orgs' \in [DirCalls -> OrgRows] /\ orgs'[c] = row
      /\ \A d \in DirCalls : d # c => orgs'[d] = orgs[d]
  BY <1>4, <1>7, OrgFacts DEF DirInv
<1>9. Grows
  BY <1>1 DEF Grows, UsersThere, Rotated
<1>10. VisitSound(c)'
  BY <1>1, <1>3, <1>6, <1>7, <1>8, SMT
  DEF VisitSound, Progress, Pending, SetUp, Seeds, Boots, Placing, Recording, UsersThere
<1>11. OneRoot' /\ SystemUnique' /\ CustomUnique'
  <2>1. \A d \in DirCalls : /\ orgs'[d].root = orgs[d].root /\ orgs'[d].sys = orgs[d].sys
                            /\ orgs'[d].custom = orgs[d].custom
    BY <1>7, <1>8
  <2> QED
    BY <1>1, <2>1, SMT DEF DirInv, OneRoot, SystemUnique, CustomUnique
<1>12. ~Seeds(c) /\ ~Seeds(c)' /\ seeded.admin # c
  BY <1>3, <1>6 DEF Seeds, Boots, DirInv, AdminSeeds
<1>13. \A d \in DirCalls : d # c =>
         /\ orgs'[d].there = orgs[d].there
         /\ orgs'[d].root = orgs[d].root
         /\ orgs'[d].sys = orgs[d].sys
         /\ Seeds(d) /\ ~mishaps'.overtaken /\ visit[d].pc \in {"claim", "insert-root"} =>
              seeded'.root \in {seeded.root, d}
  BY <1>1, <1>8
<1> QED
  BY <1>1, <1>2, <1>3, <1>6, <1>8, <1>9, <1>10, <1>11, <1>12, <1>13, WriteKeeps

(* A step that changes the settings alone. *)
LEMMA SettingKeeps ==
  ASSUME DirInv, NEW c \in DirCalls, NEW pc \in DirPcs, Steps(c, pc), UNCHANGED <<orgs, booted>>,
         seeded' \in Settings, mishaps' \in Mishaps, mishaps'.failed = mishaps.failed, Grows,
         VisitSound(c)', seeded'.root # Nobody => seeded.root # Nobody \/ UsersThere,
         \A d \in DirCalls : d # c /\ Seeds(d) /\ ~mishaps'.overtaken
                              /\ visit[d].pc \in {"claim", "insert-root"} =>
                               seeded'.root \in {seeded.root, d},
         \A d \in DirCalls : seeded'.admin = d => seeded.admin = d \/ (d = c /\ Seeds(c)),
         seeded'.admin = c /\ ~mishaps.failed => pc \in {"must", "audit", "done"}
  PROVE  DirInv'
<1>1. /\ visit' \in [DirCalls -> Visits] /\ visit'[c].pc = pc
      /\ visit'[c].goal = visit[c].goal
      /\ \A d \in DirCalls : d # c => visit'[d] = visit[d]
  BY StepsFacts DEF DirInv
<1>2. orgs' \in [DirCalls -> OrgRows] /\ Seeds(c)' = Seeds(c)
  BY <1>1 DEF Seeds, Boots, DirInv, DirTyped
<1>3. OneRoot'
  <2> SUFFICES ASSUME NEW d \in DirCalls, orgs[d].root PROVE seeded'.root = d
    BY DEF OneRoot
  <2>1. seeded.root = d
    BY DEF DirInv, OneRoot
  <2> QED
    BY <2>1, DirFacts DEF Grows
<1>4. SystemUnique' /\ CustomUnique'
  BY DEF DirInv, SystemUnique, CustomUnique
<1>5. \A d \in DirCalls : d # c =>
         /\ orgs'[d].there = orgs[d].there
         /\ orgs'[d].root = orgs[d].root
         /\ orgs'[d].sys = orgs[d].sys
         /\ Seeds(d) /\ ~mishaps'.overtaken /\ visit[d].pc \in {"claim", "insert-root"} =>
              seeded'.root \in {seeded.root, d}
  OBVIOUS
<1> QED
  BY <1>1, <1>2, <1>3, <1>4, <1>5, WriteKeeps

(* The first to ask is the root tenant: the seeding call, unless a sign-up *)
(* was faster.                                                             *)
LEMMA InsertRootKeeps ==
  ASSUME DirInv, NEW c \in DirCalls, InsertRoot(c)
  PROVE  DirInv'
<1> PICK late \in BOOLEAN :
      late = (~Boots(c) /\ \E d \in DirCalls : Boots(d) /\ visit[d].pc \in Seeding)
  BY Zenon
<1> PICK root : root = IF seeded.root = Nobody THEN c ELSE seeded.root
  OBVIOUS
<1>1. /\ visit[c].pc = "insert-root" /\ UNCHANGED <<orgs, booted>>
      /\ visit[c] \in Visits /\ VisitSound(c) /\ seeded \in Settings /\ mishaps \in Mishaps
  BY VisitFacts DEF InsertRoot, At
<1>2. seeded' = [seeded EXCEPT !.root = root]
  BY DEF InsertRoot
<1>3. mishaps' = [mishaps EXCEPT !.overtaken = @ \/ late]
  BY DEF InsertRoot
<1>4. root \in DirCalls \cup {Nobody} /\ root # Nobody /\ (seeded.root # Nobody => root = seeded.root)
  BY <1>1, DirFacts, SMT DEF Settings
<1>5. /\ seeded' \in Settings /\ seeded'.root = root /\ seeded'.admin = seeded.admin
      /\ seeded'.must = seeded.must /\ seeded'.password = seeded.password
      /\ seeded'.rotated = seeded.rotated
  BY <1>1, <1>2, <1>4, Zenon DEF Settings
<1>6. /\ mishaps' \in Mishaps /\ mishaps'.failed = mishaps.failed
      /\ mishaps.overtaken => mishaps'.overtaken
      /\ late => mishaps'.overtaken
  BY <1>1, <1>3, Zenon DEF Mishaps
<1>7. PICK pc \in {"flag-root", "prefix"} : Steps(c, pc) /\ (pc = "flag-root" <=> root = c)
  <2>1. Steps(c, IF seeded'.root = c THEN "flag-root" ELSE "prefix")
    BY DEF InsertRoot, AfterClaim
  <2>2. CASE root = c
    BY <1>5, <2>1, <2>2
  <2>3. CASE root # c
    BY <1>5, <2>1, <2>3
  <2> QED
    BY <2>2, <2>3
<1>8. pc \in DirPcs
  BY DEF DirPcs, Seeding
<1>9. visit'[c].pc = pc /\ visit'[c].goal = visit[c].goal
  BY <1>7, <1>8, StepsFacts DEF DirInv
<1>10. orgs[c].there /\ UsersThere
  BY <1>1, SMT DEF VisitSound, Progress, Placing
<1>11. Grows
  BY <1>4, <1>5, <1>6 DEF Grows, UsersThere, Rotated
<1>12. VisitSound(c)'
  <2>1. Progress(c)' /\ Pending(c)'
    BY <1>1, <1>5, <1>7, <1>9, <1>10, SMT
    DEF VisitSound, Progress, Pending, Seeds, Boots, Placing, Recording, UsersThere
  <2>2. Seeds(c) /\ ~mishaps'.overtaken => root = c
    BY <1>1, <1>4, <1>6, SMT DEF VisitSound, SetUp
  <2>3. SetUp(c)'
    BY <1>1, <1>7, <1>9, <2>2, SMT DEF SetUp, Seeds, Boots, Recording
  <2> QED
    BY <2>1, <2>3 DEF VisitSound
<1>13. \A d \in DirCalls : d # c /\ Seeds(d) /\ ~mishaps'.overtaken
                           /\ visit[d].pc \in {"claim", "insert-root"} =>
                             seeded'.root \in {seeded.root, d}
  <2> SUFFICES ASSUME NEW d \in DirCalls, d # c, Seeds(d), ~mishaps'.overtaken,
                      visit[d].pc \in {"claim", "insert-root"}
               PROVE  FALSE
    OBVIOUS
  <2>1. ~Boots(c)
    BY <1>10 DEF Seeds, DirInv, OneSeeds
  <2>2. late
    BY <2>1 DEF Seeds, Seeding
  <2> QED
    BY <1>6, <2>2
<1>14. ~(seeded.admin = c /\ ~mishaps.failed)
  BY <1>1 DEF DirInv, AdminSeeds
<1> QED
  BY <1>1, <1>5, <1>6, <1>7, <1>8, <1>10, <1>11, <1>12, <1>13, <1>14, SettingKeeps

(* The placed organization: its call goes on to the settings if it seeds. *)
LEMMA PlacedFacts ==
  ASSUME DirInv, NEW c \in DirCalls, Placed(c)
  PROVE  \E pc \in DirPcs : /\ Steps(c, pc)
                            /\ pc = IF Boots(c) THEN "settings" ELSE "audit"
<1>1. "settings" \in DirPcs /\ "audit" \in DirPcs
  BY DEF DirPcs, Seeding
<1>2. CASE Boots(c)
  <2>1. Steps(c, "settings")
    BY <1>2 DEF Placed
  <2> QED
    BY <1>1, <1>2, <2>1
<1>3. CASE ~Boots(c)
  <2>1. Steps(c, "audit")
    BY <1>3 DEF Placed
  <2> QED
    BY <1>1, <1>3, <2>1
<1> QED
  BY <1>2, <1>3

(* A step that gives the organization of the call its address. *)
LEMMA PlaceKeeps ==
  ASSUME DirInv, NEW c \in DirCalls, visit[c].pc \in {"flag-root", "set-prefix"}, Placed(c),
         NEW row \in OrgRows, orgs' = [orgs EXCEPT ![c] = row],
         UNCHANGED <<seeded, booted, mishaps>>,
         row.there = orgs[c].there, row.custom = orgs[c].custom,
         row.root \/ row.sys # Nobody, visit[c].pc = "flag-root" => row.root,
         row.root => orgs[c].root \/ seeded.root = c,
         orgs[c].root => row.root,
         \A d \in DirCalls \ {c} : row.sys # Nobody => row.sys # orgs[d].sys
  PROVE  DirInv'
<1>1. PICK pc \in DirPcs : /\ Steps(c, pc)
                           /\ pc = IF Boots(c) THEN "settings" ELSE "audit"
  BY PlacedFacts
<1>2. /\ visit' \in [DirCalls -> Visits] /\ visit'[c].pc = pc
      /\ visit'[c].goal = visit[c].goal
      /\ \A d \in DirCalls : d # c => visit'[d] = visit[d]
  BY <1>1, StepsFacts DEF DirInv
<1>3. /\ orgs' \in [DirCalls -> OrgRows] /\ orgs'[c] = row
      /\ \A d \in DirCalls : d # c => orgs'[d] = orgs[d]
  BY OrgFacts DEF DirInv
<1>4. VisitSound(c) /\ mishaps \in Mishaps /\ seeded \in Settings
  BY VisitFacts
<1>5. VisitSound(c)'
  BY <1>1, <1>2, <1>3, <1>4, SMT
  DEF VisitSound, Progress, Pending, SetUp, Seeds, Boots, Placing, Recording, UsersThere
<1>6. OneRoot'
  BY <1>3 DEF DirInv, OneRoot
<1>7. SystemUnique'
  BY <1>3, SMT DEF DirInv, SystemUnique
<1>8. CustomUnique'
  <2>1. \A d \in DirCalls : orgs'[d].custom = orgs[d].custom
    BY <1>3
  <2> QED
    BY <2>1 DEF DirInv, CustomUnique
<1>9. Grows
  BY DEF Grows, UsersThere, Rotated
<1>10. Seeds(c)' = Seeds(c)
  BY <1>2, <1>3 DEF Seeds, Boots
<1>11. ~(seeded.admin = c /\ ~mishaps.failed)
  BY DEF DirInv, AdminSeeds
<1>12. \A d \in DirCalls : d # c =>
         /\ orgs'[d].there = orgs[d].there
         /\ orgs'[d].root = orgs[d].root
         /\ orgs'[d].sys = orgs[d].sys
         /\ Seeds(d) /\ ~mishaps'.overtaken /\ visit[d].pc \in {"claim", "insert-root"} =>
              seeded'.root \in {seeded.root, d}
  BY <1>3
<1> QED
  BY <1>2, <1>3, <1>4, <1>5, <1>6, <1>7, <1>8, <1>9, <1>10, <1>11, <1>12, WriteKeeps

(* The root tenant is flagged as such. *)
LEMMA FlagRootKeeps ==
  ASSUME DirInv, NEW c \in DirCalls, FlagRoot(c)
  PROVE  DirInv'
<1>1. /\ visit[c].pc = "flag-root" /\ UNCHANGED <<seeded, booted, mishaps>> /\ Placed(c)
      /\ orgs[c] \in OrgRows /\ VisitSound(c)
  BY VisitFacts DEF FlagRoot, At
<1>2. orgs' = [orgs EXCEPT ![c] = [orgs[c] EXCEPT !.root = TRUE]]
  BY SMT DEF FlagRoot, DirInv, DirTyped
<1>3. PICK row \in OrgRows : /\ row = [orgs[c] EXCEPT !.root = TRUE]
                             /\ row.there = orgs[c].there /\ row.root = TRUE
                             /\ row.sys = orgs[c].sys /\ row.custom = orgs[c].custom
  <2>1. [orgs[c] EXCEPT !.root = TRUE] \in OrgRows
    BY <1>1, Zenon DEF OrgRows
  <2> QED
    BY <1>1, <2>1, Zenon DEF OrgRows
<1>4. seeded.root = c
  BY <1>1 DEF VisitSound, Pending
<1>5. \A d \in DirCalls \ {c} : row.sys # Nobody => row.sys # orgs[d].sys
  BY <1>3 DEF DirInv, SystemUnique
<1>6. row.root /\ orgs' = [orgs EXCEPT ![c] = row]
  BY <1>2, <1>3
<1>7. /\ visit[c].pc \in {"flag-root", "set-prefix"}
      /\ row.root \/ row.sys # Nobody
      /\ visit[c].pc = "flag-root" => row.root
      /\ row.root => orgs[c].root \/ seeded.root = c
      /\ orgs[c].root => row.root
  BY <1>1, <1>4, <1>6
<1>8. row.there = orgs[c].there /\ row.custom = orgs[c].custom
  BY <1>3
<1>9. Placed(c) /\ UNCHANGED <<seeded, booted, mishaps>> /\ orgs' = [orgs EXCEPT ![c] = row]
  BY <1>1, <1>6
<1> QED
  BY <1>5, <1>7, <1>8, <1>9, PlaceKeeps

(* UNIQUE(system_prefix) decides between those who chose the same. *)
LEMMA SetPrefixKeeps ==
  ASSUME DirInv, NEW c \in DirCalls, SetPrefix(c)
  PROVE  DirInv'
<1>1. /\ visit[c].pc = "set-prefix" /\ UNCHANGED <<seeded, mishaps>>
      /\ orgs[c] \in OrgRows /\ VisitSound(c) /\ mishaps \in Mishaps
  BY VisitFacts DEF SetPrefix, At
<1>2. CASE TakenAsSystem(visit[c].value)
  BY <1>1, <1>2, FailsKeeps DEF SetPrefix
<1>3. CASE ~TakenAsSystem(visit[c].value)
  <2> PICK p \in SystemPrefixes : p = visit[c].value
    BY <1>1 DEF VisitSound, Pending
  <2>1. orgs' = [orgs EXCEPT ![c] = [orgs[c] EXCEPT !.sys = p]] /\ Placed(c) /\ UNCHANGED booted
    BY <1>3, SMT DEF SetPrefix, DirInv, DirTyped
  <2>2. PICK row \in OrgRows : /\ row = [orgs[c] EXCEPT !.sys = p]
                               /\ row.there = orgs[c].there /\ row.root = orgs[c].root
                               /\ row.sys = p /\ row.custom = orgs[c].custom
    <3>1. [orgs[c] EXCEPT !.sys = p] \in OrgRows
      BY <1>1, Zenon DEF OrgRows
    <3> QED
      BY <1>1, <3>1, Zenon DEF OrgRows
  <2>3. \A d \in DirCalls \ {c} : row.sys # Nobody => row.sys # orgs[d].sys
    BY <1>3, <2>2 DEF TakenAsSystem
  <2>4. row.sys # Nobody
    BY <2>2, DirFacts
  <2> QED
    BY <1>1, <2>1, <2>2, <2>3, <2>4, PlaceKeeps
<1> QED
  BY <1>2, <1>3

(* The administrator and the flag are recorded, in either order. *)
LEMMA WriteSettingKeeps ==
  ASSUME DirInv, NEW c \in DirCalls, WriteSetting(c)
  PROVE  DirInv'
<1>1. /\ visit[c].pc \in {"settings", "admin", "must"} /\ UNCHANGED <<orgs, booted, mishaps>>
      /\ VisitSound(c) /\ seeded \in Settings /\ mishaps \in Mishaps
  BY VisitFacts DEF WriteSetting, At
<1>2. Seeds(c) /\ UsersThere
  BY <1>1, SMT DEF VisitSound, Progress, Seeds, Recording
<1>3. seeded.admin \in {Nobody, c}
  <2>1. \A d \in DirCalls : seeded.admin = d => Seeds(d)
    BY DEF DirInv, AdminSeeds
  <2>2. \A d \in DirCalls : Seeds(d) => d = c
    BY <1>2 DEF DirInv, OneSeeds
  <2> QED
    BY <1>1, <2>1, <2>2, SMT DEF Settings
<1>4. ASSUME visit[c].pc \in {"settings", "admin"}, seeded' = [seeded EXCEPT !.admin = c],
             NEW pc \in {"must", "audit"}, Steps(c, pc),
             pc = "must" <=> visit[c].pc = "settings"
      PROVE  DirInv'
  <2>1. /\ seeded' \in Settings /\ seeded'.root = seeded.root /\ seeded'.admin = c
        /\ seeded'.must = seeded.must /\ seeded'.password = seeded.password
      /\ seeded'.rotated = seeded.rotated
    BY <1>1, <1>4, Zenon DEF Settings
  <2>2. pc \in DirPcs
    BY DEF DirPcs, Seeding
  <2>3. visit'[c].pc = pc /\ visit'[c].goal = visit[c].goal
    BY <1>4, <2>2, StepsFacts DEF DirInv
  <2>4. Grows
    BY <1>1, <1>3, <2>1 DEF Grows, UsersThere, Rotated
  <2>5. VisitSound(c)'
    BY <1>1, <1>2, <1>4, <2>1, <2>3, SMT
    DEF VisitSound, Progress, Pending, SetUp, Seeds, Boots, Placing, Recording, UsersThere, Rotated
  <2> QED
    BY <1>1, <1>2, <1>4, <2>1, <2>2, <2>4, <2>5, SettingKeeps
<1>5. ASSUME visit[c].pc \in {"settings", "must"}, seeded' = [seeded EXCEPT !.must = TRUE],
             NEW pc \in {"admin", "audit"}, Steps(c, pc),
             pc = "admin" <=> visit[c].pc = "settings"
      PROVE  DirInv'
  <2>1. /\ seeded' \in Settings /\ seeded'.root = seeded.root /\ seeded'.admin = seeded.admin
        /\ seeded'.must = TRUE /\ seeded'.password = seeded.password
      /\ seeded'.rotated = seeded.rotated
    BY <1>1, <1>5, Zenon DEF Settings
  <2>2. pc \in DirPcs
    BY DEF DirPcs, Seeding
  <2>3. visit'[c].pc = pc /\ visit'[c].goal = visit[c].goal
    BY <1>5, <2>2, StepsFacts DEF DirInv
  <2>4. Grows
    BY <1>1, <2>1 DEF Grows, UsersThere, Rotated
  <2>5. VisitSound(c)'
    BY <1>1, <1>2, <1>5, <2>1, <2>3, SMT
    DEF VisitSound, Progress, Pending, SetUp, Seeds, Boots, Placing, Recording, UsersThere, Rotated
  <2>6. seeded.admin = c /\ ~mishaps.failed => pc = "audit"
    BY <1>5, SMT DEF DirInv, AdminSeeds
  <2> QED
    BY <1>1, <1>2, <1>5, <2>1, <2>2, <2>4, <2>5, <2>6, SettingKeeps
<1>6. CASE visit[c].pc \in {"settings", "admin"} /\ seeded' = [seeded EXCEPT !.admin = c]
           /\ Steps(c, IF At(c, "settings") THEN "must" ELSE "audit")
  <2>1. CASE visit[c].pc = "settings"
    BY <1>4, <1>6, <2>1 DEF At
  <2>2. CASE visit[c].pc # "settings"
    BY <1>4, <1>6, <2>2 DEF At
  <2> QED
    BY <2>1, <2>2
<1>7. CASE visit[c].pc \in {"settings", "must"} /\ seeded' = [seeded EXCEPT !.must = TRUE]
           /\ Steps(c, IF At(c, "settings") THEN "admin" ELSE "audit")
  <2>1. CASE visit[c].pc = "settings"
    BY <1>5, <1>7, <2>1 DEF At
  <2>2. CASE visit[c].pc # "settings"
    BY <1>5, <1>7, <2>2 DEF At
  <2> QED
    BY <2>1, <2>2
<1> QED
  BY <1>6, <1>7, Zenon DEF WriteSetting

(* The password first, then the flag. *)
LEMMA WritePasswordKeeps ==
  ASSUME DirInv, NEW c \in DirCalls, WritePassword(c)
  PROVE  DirInv'
<1>1. /\ visit[c].pc \in {"write-password", "clear-flag"} /\ UNCHANGED <<orgs, booted, mishaps>>
      /\ VisitSound(c) /\ seeded \in Settings /\ mishaps \in Mishaps
  BY VisitFacts DEF WritePassword, At
<1>2. ~orgs[c].there /\ ~Seeds(c)
  BY <1>1, SMT DEF VisitSound, Progress, Seeds, Placing, Recording
<1>3. seeded.admin # c
  BY <1>2 DEF DirInv, AdminSeeds
<1>4. ASSUME NEW pc \in {"clear-flag", "done"}, Steps(c, pc), seeded' \in Settings,
             seeded'.root = seeded.root, seeded'.admin = seeded.admin,
             UsersThere => UsersThere', seeded'.rotated = TRUE
      PROVE  DirInv'
  <2>1. pc \in DirPcs
    BY DEF DirPcs, Ended
  <2>2. visit'[c].pc = pc /\ visit'[c].goal = visit[c].goal
    BY <1>4, <2>1, StepsFacts DEF DirInv
  <2>3. Grows
    BY <1>1, <1>4, SMT DEF Grows, Rotated
  <2>4. VisitSound(c)'
    BY <1>1, <1>2, <1>4, <2>2, SMT
    DEF VisitSound, Progress, Pending, SetUp, Seeds, Boots, Placing, Recording, UsersThere, Rotated,
        Nobody
  <2> QED
    BY <1>1, <1>3, <1>4, <2>1, <2>3, <2>4, SettingKeeps
<1>5. CASE /\ \E new \in {"default", "changed"} : Rotate(new)
           /\ Steps(c, "clear-flag")
  <2> PICK new \in {"default", "changed"} : Rotate(new)
    BY <1>5
  <2>1. /\ seeded' \in Settings /\ seeded'.root = seeded.root /\ seeded'.admin = seeded.admin
        /\ seeded'.password = new /\ seeded'.rotated = TRUE
    BY <1>1, Zenon DEF Settings, Rotate
  <2>2. UsersThere'
    BY <2>1 DEF UsersThere, Nobody
  <2> QED
    BY <1>4, <1>5, <2>1, <2>2
<1>6. CASE visit[c].pc = "clear-flag" /\ seeded' = [seeded EXCEPT !.must = FALSE] /\ Steps(c, "done")
  <2>1. /\ seeded' \in Settings /\ seeded'.root = seeded.root /\ seeded'.admin = seeded.admin
        /\ seeded'.password = seeded.password /\ seeded'.rotated = seeded.rotated
    BY <1>1, <1>6, Zenon DEF Settings
  <2>2. seeded.rotated = TRUE
    BY <1>1, <1>6 DEF VisitSound, Pending, Rotated
  <2>3. UsersThere => UsersThere'
    BY <2>1 DEF UsersThere
  <2> QED
    BY <1>4, <1>6, <2>1, <2>2, <2>3
<1> QED
  BY <1>5, <1>6 DEF WritePassword, At

(* UNIQUE(custom_prefix) decides between those who chose the same. *)
LEMMA SetCustomKeeps ==
  ASSUME DirInv, NEW c \in DirCalls, SetCustom(c)
  PROVE  DirInv'
<1> PICK o : o = visit[c].org
  OBVIOUS
<1> PICK p : p = visit[c].value
  OBVIOUS
<1>1. /\ visit[c].pc = "set-custom" /\ UNCHANGED <<seeded, booted, mishaps>>
      /\ VisitSound(c) /\ seeded \in Settings /\ mishaps \in Mishaps
  BY VisitFacts DEF SetCustom, At
<1>2. o \in DirCalls /\ p \in CustomInputs \cup {Nobody} /\ p \notin SystemPrefixes
  BY <1>1 DEF VisitSound, Pending
<1>3. ~orgs[c].there /\ ~Seeds(c)
  BY <1>1, SMT DEF VisitSound, Progress, Seeds, Placing, Recording
<1>4. orgs[o] \in OrgRows
  BY <1>2, VisitFacts
<1>5. PICK row \in OrgRows : /\ row = [orgs[o] EXCEPT !.custom = p]
                             /\ row.there = orgs[o].there /\ row.root = orgs[o].root
                             /\ row.sys = orgs[o].sys /\ row.custom = p
  <2>1. [orgs[o] EXCEPT !.custom = p] \in OrgRows
    BY <1>2, <1>4, Zenon DEF OrgRows
  <2> QED
    BY <1>4, <2>1, Zenon DEF OrgRows
<1>6. PICK pc \in {"failed", "done"} :
        /\ Steps(c, pc)
        /\ \/ orgs' = orgs
           \/ /\ orgs' = [orgs EXCEPT ![o].custom = p]
              /\ p # Nobody => \A d \in DirCalls \ {o} : orgs[d].custom # p
  BY Zenon DEF SetCustom
<1>7. pc \in DirPcs
  BY DEF DirPcs, Ended
<1>8. /\ visit' \in [DirCalls -> Visits] /\ visit'[c].pc = pc
      /\ visit'[c].goal = visit[c].goal
      /\ \A d \in DirCalls : d # c => visit'[d] = visit[d]
  BY <1>6, <1>7, StepsFacts DEF DirInv
<1>9. /\ orgs' \in [DirCalls -> OrgRows]
      /\ \A d \in DirCalls : /\ orgs'[d].there = orgs[d].there /\ orgs'[d].root = orgs[d].root
                             /\ orgs'[d].sys = orgs[d].sys
      /\ CustomUnique'
  <2>1. CASE orgs' = orgs
    BY <2>1 DEF DirInv, DirTyped, CustomUnique
  <2>2. CASE /\ orgs' = [orgs EXCEPT ![o].custom = p]
             /\ p # Nobody => \A d \in DirCalls \ {o} : orgs[d].custom # p
    <3>1. orgs' = [orgs EXCEPT ![o] = [orgs[o] EXCEPT !.custom = p]]
      BY <1>2, <2>2, SMT DEF DirInv, DirTyped
    <3>2. /\ orgs' \in [DirCalls -> OrgRows] /\ orgs'[o] = row
          /\ \A d \in DirCalls : d # o => orgs'[d] = orgs[d]
      BY <1>2, <1>5, <3>1, OrgFacts DEF DirInv
    <3>3. CustomUnique'
      BY <1>2, <1>5, <2>2, <3>2, SMT DEF DirInv, CustomUnique
    <3> QED
      BY <1>5, <3>2, <3>3
  <2> QED
    BY <1>6, <2>1, <2>2
<1>10. VisitSound(c)'
  BY <1>1, <1>3, <1>8, <1>9, SMT
  DEF VisitSound, Progress, Pending, SetUp, Seeds, Boots, Placing, Recording, UsersThere
<1>11. OneRoot' /\ SystemUnique'
  BY <1>1, <1>9, SMT DEF DirInv, OneRoot, SystemUnique
<1>12. Grows /\ ~Seeds(c)' /\ seeded.admin # c
  BY <1>1, <1>3, <1>8, <1>9 DEF Grows, UsersThere, Rotated, Seeds, Boots, DirInv, AdminSeeds
<1>13. \A d \in DirCalls : d # c =>
         /\ orgs'[d].there = orgs[d].there
         /\ orgs'[d].root = orgs[d].root
         /\ orgs'[d].sys = orgs[d].sys
         /\ Seeds(d) /\ ~mishaps'.overtaken /\ visit[d].pc \in {"claim", "insert-root"} =>
              seeded'.root \in {seeded.root, d}
  BY <1>1, <1>9
<1> QED
  BY <1>1, <1>3, <1>8, <1>9, <1>10, <1>11, <1>12, <1>13, WriteKeeps

-----------------------------------------------------------------------------
(* Every step keeps the invariant. *)
LEMMA DirStepInv == DirInv /\ [DirNext]_dirVars => DirInv'
<1> SUFFICES ASSUME DirInv, [DirNext]_dirVars PROVE DirInv'
  OBVIOUS
<1>1. CASE UNCHANGED dirVars
  <2>1. UNCHANGED <<seeded, orgs, booted, visit, mishaps>>
    BY <1>1 DEF dirVars
  <2>2. /\ visit' \in [DirCalls -> Visits] /\ mishaps' \in Mishaps
        /\ \A d \in DirCalls : Seeds(d)' = Seeds(d)
    BY <2>1 DEF DirInv, DirTyped, Seeds, Boots
  <2>3. \A d \in DirCalls : seeded.admin = d /\ ~mishaps'.failed =>
           visit'[d].pc \in {"must", "audit", "done"}
    BY <2>1 DEF DirInv, AdminSeeds
  <2> QED
    BY <2>1, <2>2, <2>3, BootedFacts, CallsMove
<1> QED
  BY <1>1, ArriveKeeps, WaitedKeeps, FindUserKeeps, SeedAdminKeeps, SignUpKeeps, ReadRootKeeps,
     InsertRootKeeps, FlagRootKeeps, PickPrefixKeeps, SetPrefixKeeps, WriteSettingKeeps,
     AuditedKeeps, ChoosePrefixKeeps, SetCustomKeeps, ReadPasswordKeeps, WritePasswordKeeps,
     VisitFailsKeeps, FreshIsolateKeeps
  DEF DirNext

(* The invariant holds of every behaviour. *)
LEMMA DirInvariant == DirSpec => []DirInv
  BY DirInitInv, DirStepInv, PTL DEF DirSpec

(* Settings, organizations and promises keep their types: no step writes   *)
(* an organization, a prefix or a password it does not have.               *)
THEOREM DirTypes == DirSpec => []DirTypeOK
<1>1. DirInv => DirTypeOK
  BY SMT DEF DirInv, DirTyped, DirTypeOK, Settings, OrgRows
<1> QED
  BY <1>1, DirInvariant, PTL

(* However many calls ask for the root path at once, fail or are retried,  *)
(* one organization is flagged as the root tenant, the recorded one        *)
(* (tenants/prefixes.ts:123-137, db/settings.ts:35-52).                    *)
THEOREM RootIsOne == DirSpec => []OneRoot
<1>1. DirInv => OneRoot
  BY DEF DirInv
<1> QED
  BY <1>1, DirInvariant, PTL

(* A prefix names one tenant, whatever prefixes are drawn and chosen and   *)
(* however the calls overlap (tenants/prefixes.ts:51-65, 91-154,           *)
(* api/tenant.ts:75-92).                                                   *)
THEOREM PrefixUnique == DirSpec => []PrefixNamesOne
<1>1. DirInv => PrefixNamesOne
  <2> SUFFICES ASSUME DirInv, NEW c \in DirCalls, NEW d \in DirCalls, c # d,
                      NEW p \in Prefixes(c), p \in Prefixes(d)
               PROVE  FALSE
    BY DEF PrefixNamesOne
  <2>1. orgs[c] \in OrgRows /\ orgs[d] \in OrgRows
    BY VisitFacts
  <2>2. /\ p \in {orgs[c].sys, orgs[c].custom} /\ p \in {orgs[d].sys, orgs[d].custom}
        /\ p # Nobody
    BY DEF Prefixes
  <2> QED
    BY <2>1, <2>2, SMT DEF DirInv, SystemUnique, CustomUnique, OrgRows
<1> QED
  BY <1>1, DirInvariant, PTL

(* An organization whose call succeeded has an address; the seeded one is  *)
(* recorded with its administrator and has the root path unless a sign-up  *)
(* overtook it (bootstrap/admin.ts:104-122, tenants/onboarding.ts:43).     *)
THEOREM SetUpIsWhole == DirSpec => []SetUpWhole
<1>1. DirInv => SetUpWhole
  BY SMT DEF DirInv, VisitsSound, VisitSound, SetUp, SetUpWhole, Seeds, At, Recording
<1> QED
  BY <1>1, DirInvariant, PTL

(* Once the seeding is over, the dashboard stops asking for a new password *)
(* only because a rotation that gave the current one has written one, be   *)
(* it the default again (bootstrap/admin.ts:106-113, 163-189).             *)
THEOREM FlagClearedOnlyByRotation == DirSpec => []FlagClearedByRotation
<1>1. DirInv => FlagClearedByRotation
  <2> SUFFICES ASSUME DirInv, seeded.admin # Nobody, ~seeded.must, ~mishaps.failed,
                      ~\E c \in DirCalls : Boots(c) /\ visit[c].pc \in {"must", "admin"}
               PROVE  seeded.rotated
    BY DEF FlagClearedByRotation
  <2> PICK c \in DirCalls : c = seeded.admin
    BY DEF DirInv, DirTyped, Settings
  <2>1. Seeds(c) /\ visit[c].pc \in {"audit", "done"}
    BY DEF DirInv, AdminSeeds, Seeds
  <2>2. SetUp(c)
    BY VisitFacts DEF VisitSound
  <2> QED
    BY <2>1, <2>2, SMT DEF SetUp, Rotated
<1> QED
  BY <1>1, DirInvariant, PTL

-----------------------------------------------------------------------------
(* TeamAndKeys: types *)

AskPcs == {"new", "auth", "store", "handle", "role call", "count", "remove call",
           "actor", "from", "swap", "write key", "ended"}
UserOps == {"role", "invite", "cancel", "remove", "transfer"}
KeyOps == {"create key", "rotate key", "delete key", "patch key"}
Member == Roles \cup {""}
Status == {"", "active", "revoked"}

Asked == [pc : AskPcs, user : Users \cup {""}, op : UserOps \cup KeyOps \cup {""},
          target : Users \cup Keys \cup {""}, role : Roles \cup Status, as : Member,
          stale : BOOLEAN]

Crossings == [swap : BOOLEAN, demoted : BOOLEAN, slow : SUBSET Users, keys : SUBSET Keys,
              revoked : SUBSET Keys]

TeamTyped ==
  /\ now \in Nat
  /\ members \in [Users -> Member]
  /\ invited \in [Users -> InviteRoles \cup {""}]
  /\ alive \in [Users -> BOOLEAN]
  /\ cached \in [Users -> [role : Member, until : Int]]
  /\ keyStatus \in [Keys -> Status]
  /\ ask \in [Asks -> Asked]
  /\ changed \in [Users -> Nat]
  /\ crossed \in Crossings

-----------------------------------------------------------------------------
(* The invariant *)

(* A request is for one of its operations, with what that needs. *)
AskSound(x) ==
  /\ x.pc \notin {"new", "ended"} => x.user \in Users
  /\ x.op \in UserOps => x.target \in Users
  /\ x.op \in KeyOps => x.target \in Keys
  /\ x.op = "patch key" => x.role \in Status
  /\ x.op \in {"role", "invite"} => x.role \in GivenRoles
  /\ x.pc \in {"new", "ended"} => x.op = ""
  /\ x.pc = "role call" => x.op = "role"
  /\ x.pc \in {"count", "remove call"} => x.op = "remove"
  /\ x.pc \in Transfers => x.op = "transfer"
  /\ x.pc = "write key" => x.op \in {"patch key", "rotate key"}

Calm(cr) == ~cr.swap /\ ~cr.demoted

(* What it has read still holds, of members m and sessions s, unless it is *)
(* among what crossed.                                                     *)
Fits(x, m, s, cr) ==
  /\ x.pc = "store" /\ x.user \notin cr.slow => s[x.user] /\ x.as = m[x.user]
  /\ Calm(cr) =>
       /\ x.pc \in Transfers => m[x.target] \notin {"", "owner"}
       /\ x.pc \in {"from", "swap"} => m[x.user] = "owner"
       /\ x.pc = "remove call" => m[x.target] # "owner"

AsksFit == \A a \in Asks : AskSound(ask[a]) /\ Fits(ask[a], members, alive, crossed)

Sole(m) == \E o \in Users : m[o] = "owner" /\ \A u \in Users : m[u] = "owner" => u = o
OwnerFits(m, cr) == Calm(cr) => Sole(m)

CacheFits(c, s, m, ch, cr, t) ==
  \A u \in Users :
    /\ c[u].until <= t + CacheTtl /\ ch[u] <= t
    /\ u \notin cr.slow /\ (~s[u] \/ c[u].role # m[u]) => c[u].until <= ch[u] + CacheTtl

KeysFit(ks, cr) == \A k \in cr.revoked \ cr.keys : ks[k] = "revoked"

TeamInv ==
  /\ TeamTyped
  /\ AsksFit
  /\ OwnerFits(members, crossed)
  /\ CacheFits(cached, alive, members, changed, crossed, now)
  /\ KeysFit(keyStatus, crossed)

-----------------------------------------------------------------------------
(* Requests *)

(* A request that is over fits anything. *)
LEMMA EndedFits ==
  /\ EndedAsk \in Asked /\ AskSound(EndedAsk)
  /\ \A m, s, cr : Fits(EndedAsk, m, s, cr)
<1>1. EndedAsk.pc = "ended" /\ EndedAsk.op = "" /\ EndedAsk.user = "" /\ EndedAsk.target = ""
      /\ EndedAsk.role = "" /\ EndedAsk.as = "" /\ EndedAsk.stale = FALSE /\ EndedAsk \in Asked
  BY Zenon DEF EndedAsk, NoAsk, Asked, AskPcs, Status, Member
<1>2. AskSound(EndedAsk)
  BY <1>1, Zenon DEF AskSound, UserOps, KeyOps, Transfers
<1>3. \A m, s, cr : Fits(EndedAsk, m, s, cr)
  BY <1>1, Zenon DEF Fits, Transfers
<1> QED
  BY <1>1, <1>2, <1>3

(* What the invariant says of one request. *)
LEMMA AskTyped ==
  ASSUME TeamInv, NEW a \in Asks
  PROVE  /\ ask[a] \in Asked /\ AskSound(ask[a]) /\ Fits(ask[a], members, alive, crossed)
         /\ ask[a].pc \in AskPcs /\ ask[a].user \in Users \cup {""}
         /\ ask[a].target \in Users \cup Keys \cup {""} /\ ask[a].as \in Member
<1>1. ask[a] \in Asked /\ AskSound(ask[a]) /\ Fits(ask[a], members, alive, crossed)
  BY Zenon DEF TeamInv, TeamTyped, AsksFit
<1> QED
  BY <1>1, Zenon DEF Asked

(* Steps that only take one request further, from what it has read. *)
LEMMA QuietStep ==
  ASSUME TeamInv, NEW a \in Asks, NEW y \in Asked, ask' = [ask EXCEPT ![a] = y],
         AskSound(y), Fits(y, members, alive, crossed),
         UNCHANGED <<now, members, invited, alive, cached, keyStatus, changed, crossed>>
  PROVE  TeamInv'
<1>1. ask' \in [Asks -> Asked] /\ \A b \in Asks : ask'[b] = IF b = a THEN y ELSE ask[b]
  BY Zenon DEF TeamInv, TeamTyped
<1>2. TeamTyped'
  BY <1>1, Zenon DEF TeamInv, TeamTyped
<1>3. \A b \in Asks : AskSound(ask'[b]) /\ Fits(ask'[b], members, alive, crossed)
  BY <1>1, Zenon DEF TeamInv, AsksFit
<1>4. AsksFit'
  BY <1>3, Zenon DEF AsksFit
<1> QED
  BY <1>2, <1>4, Zenon DEF TeamInv

(* Such a step may end the request. *)
LEMMA QuietEnd ==
  ASSUME TeamInv, NEW a \in Asks, Ends(a),
         UNCHANGED <<now, members, invited, alive, cached, keyStatus, changed, crossed>>
  PROVE  TeamInv'
  BY EndedFits, QuietStep, Zenon DEF Ends

(* A request on its way to its handler is what it was. *)
LEMMA Authenticated ==
  ASSUME NEW x \in Asked, AskSound(x), x.pc \in {"auth", "store"},
         NEW pc \in {"store", "handle"}, NEW role \in Member
  PROVE  LET y == [x EXCEPT !.pc = pc, !.as = role] IN
         /\ y \in Asked /\ AskSound(y) /\ y.pc = pc /\ y.user = x.user /\ y.as = role
         /\ x.user \in Users
<1> DEFINE y == [x EXCEPT !.pc = pc, !.as = role]
<1>1. pc \in AskPcs
  BY Zenon DEF AskPcs
<1>2. /\ y \in Asked /\ y.pc = pc /\ y.user = x.user /\ y.op = x.op /\ y.target = x.target
      /\ y.role = x.role /\ y.as = role
  BY <1>1, Zenon DEF Asked
<1> HIDE DEF y
<1>3. x.user \in Users
  BY Zenon DEF AskSound
<1>4. pc \notin {"new", "ended", "role call", "count", "remove call", "write key"} \cup Transfers
  BY Zenon DEF Transfers
<1>5. AskSound(y)
  BY <1>2, <1>3, <1>4, Zenon DEF AskSound
<1> QED
  BY <1>2, <1>3, <1>5, Zenon DEF y

(* A request that has come to its handler fits anything. *)
LEMMA HandledFits ==
  ASSUME NEW y, y.pc = "handle", NEW m, NEW s, NEW cr
  PROVE  Fits(y, m, s, cr)
  BY Zenon DEF Fits, Transfers

(* Enters lets a request go on to its handler, or ends it. *)
LEMMA EntersAs ==
  ASSUME TeamInv, NEW a \in Asks, ask[a].pc \in {"auth", "store"}, NEW role \in Member,
         Enters(a, role)
  PROVE  \E y \in Asked : /\ ask' = [ask EXCEPT ![a] = y] /\ AskSound(y)
                          /\ y.pc \in {"handle", "ended"}
                          /\ \A m, s, cr : Fits(y, m, s, cr)
<1>1. CASE Allowed(a, role)
  <2> DEFINE y == [ask[a] EXCEPT !.pc = "handle", !.as = role]
  <2>1. ask' = [ask EXCEPT ![a] = y]
    BY <1>1, Zenon DEF Enters
  <2>2. y \in Asked /\ AskSound(y) /\ y.pc = "handle"
    BY AskTyped, Authenticated, Zenon
  <2> HIDE DEF y
  <2>3. \A m, s, cr : Fits(y, m, s, cr)
    BY <2>2, HandledFits, Zenon
  <2> QED
    BY <2>1, <2>2, <2>3, Zenon
<1>2. CASE ~Allowed(a, role)
  <2>1. ask' = [ask EXCEPT ![a] = EndedAsk] /\ EndedAsk.pc = "ended"
    BY <1>2, Zenon DEF Enters, Ends, EndedAsk, NoAsk
  <2> QED
    BY <2>1, EndedFits, Zenon
<1> QED
  BY <1>1, <1>2

(* A new request is for an operation and what it is done to. *)
LEMMA RequestKeeps ==
  ASSUME TeamInv, NEW a \in Asks, NEW u \in Users, NEW op, NEW t, NEW role,
         Request(a, u, op, t, role),
         \/ op \in {"role", "invite"} /\ t \in Users /\ role \in GivenRoles
         \/ op \in {"cancel", "remove", "transfer"} /\ t \in Users /\ role = ""
         \/ op \in {"create key", "rotate key", "delete key"} /\ t \in Keys /\ role = ""
         \/ op = "patch key" /\ t \in Keys /\ role \in Status
  PROVE  TeamInv'
<1> DEFINE y == [NoAsk EXCEPT !.pc = "auth", !.user = u, !.op = op, !.target = t, !.role = role]
<1>1. /\ ask' = [ask EXCEPT ![a] = y]
      /\ UNCHANGED <<now, members, invited, alive, cached, keyStatus, changed, crossed>>
  BY Zenon DEF Request
<1>2. y \in [pc : {"auth"}, user : {u}, op : {op}, target : {t}, role : {role}, as : {""},
              stale : {FALSE}]
  <2>1. NoAsk \in [pc : {"new"}, user : {""}, op : {""}, target : {""}, role : {""}, as : {""},
                   stale : {FALSE}]
    BY Zenon DEF NoAsk
  <2> QED
    BY <2>1, Zenon
<1>3. op \in UserOps \cup KeyOps /\ t \in Users \cup Keys /\ role \in Roles \cup Status
  BY TeamAssumption, Zenon DEF UserOps, KeyOps, Status, InviteRoles
<1>4. y \in Asked
  <2> HIDE DEF y
  <2> QED
    BY <1>2, <1>3, Zenon DEF Asked, AskPcs, Member
<1>5. y.pc = "auth" /\ y.user = u /\ y.op = op /\ y.target = t /\ y.role = role
  BY <1>2, Zenon
<1> HIDE DEF y
<1>6. AskSound(y)
  BY <1>5, Zenon DEF AskSound, UserOps, KeyOps, Transfers
<1>7. Fits(y, members, alive, crossed)
  BY <1>5, Zenon DEF Fits, Transfers
<1> QED
  BY <1>1, <1>4, <1>6, <1>7, QuietStep, Zenon

(* A role from the cache lets a request in. *)
LEMMA AuthHitKeeps ==
  ASSUME TeamInv, NEW a \in Asks, AuthHit(a)
  PROVE  TeamInv'
<1>1. ask[a].user \in Users /\ ask[a].pc = "auth"
  BY AskTyped, Zenon DEF AuthHit, Is, AskSound
<1>2. cached[ask[a].user].role \in Member
  BY <1>1, Zenon DEF TeamInv, TeamTyped
<1>3. Enters(a, cached[ask[a].user].role)
      /\ UNCHANGED <<now, members, invited, alive, cached, keyStatus, changed, crossed>>
  BY Zenon DEF AuthHit
<1>4. PICK y \in Asked : /\ ask' = [ask EXCEPT ![a] = y] /\ AskSound(y)
                         /\ \A m, s, cr : Fits(y, m, s, cr)
  BY <1>1, <1>2, <1>3, EntersAs, Zenon
<1> QED
  BY <1>3, <1>4, QuietStep, Zenon

(* A role that is read is the member's. *)
LEMMA AuthMissKeeps ==
  ASSUME TeamInv, NEW a \in Asks, AuthMiss(a)
  PROVE  TeamInv'
<1> DEFINE u == ask[a].user
           y == [ask[a] EXCEPT !.pc = "store", !.as = members[u]]
<1>1. u \in Users /\ ask[a].pc = "auth"
  BY AskTyped, Zenon DEF AuthMiss, Is, AskSound
<1>2. members[u] \in Member
  BY <1>1, Zenon DEF TeamInv, TeamTyped
<1>3. UNCHANGED <<now, members, invited, alive, cached, keyStatus, changed, crossed>>
  BY Zenon DEF AuthMiss
<1>4. CASE alive[u]
  <2>1. ask' = [ask EXCEPT ![a] = y]
    BY <1>4, Zenon DEF AuthMiss
  <2>2. y \in Asked /\ AskSound(y) /\ y.pc = "store" /\ y.user = u /\ y.as = members[u]
    <3>1. ask[a] \in Asked /\ AskSound(ask[a]) /\ ask[a].pc \in {"auth", "store"}
      BY <1>1, AskTyped, Zenon
    <3>2. \A role \in Member :
             LET z == [ask[a] EXCEPT !.pc = "store", !.as = role] IN
             z \in Asked /\ AskSound(z) /\ z.pc = "store" /\ z.user = ask[a].user /\ z.as = role
      BY <3>1, Authenticated, Zenon
    <3> QED
      BY <1>2, <3>2, Zenon
  <2> HIDE DEF y
  <2>3. Fits(y, members, alive, crossed)
    BY <1>4, <2>2, Zenon DEF Fits, Transfers
  <2> QED
    BY <1>3, <2>1, <2>2, <2>3, QuietStep, Zenon
<1>5. CASE ~alive[u]
  BY <1>3, <1>5, QuietEnd, Zenon DEF AuthMiss
<1> QED
  BY <1>4, <1>5

(* A request that goes on within its handler. *)
LEMMA GoesOn ==
  ASSUME TeamInv, NEW a \in Asks, ask[a].pc \notin {"new", "ended"},
         NEW pc \in AskPcs \ {"new", "ended"}, Goes(a, pc),
         pc = "role call" => ask[a].op = "role",
         pc \in {"count", "remove call"} => ask[a].op = "remove",
         pc \in Transfers => ask[a].op = "transfer",
         pc = "write key" => ask[a].op \in {"patch key", "rotate key"}
  PROVE  \E y \in Asked : /\ ask' = [ask EXCEPT ![a] = y] /\ AskSound(y) /\ y.pc = pc
                          /\ y.user = ask[a].user /\ y.target = ask[a].target
<1> DEFINE y == [ask[a] EXCEPT !.pc = pc]
<1>1. ask' = [ask EXCEPT ![a] = y]
  BY Zenon DEF Goes
<1>2. ask[a] \in Asked /\ AskSound(ask[a])
  BY AskTyped, Zenon
<1>3. /\ y \in Asked /\ y.pc = pc /\ y.user = ask[a].user /\ y.op = ask[a].op
      /\ y.target = ask[a].target /\ y.role = ask[a].role
  BY <1>2, Zenon DEF Asked
<1> HIDE DEF y
<1>4. AskSound(y)
  BY <1>2, <1>3, Zenon DEF AskSound
<1> QED
  BY <1>1, <1>3, <1>4, Zenon

(* And keeps the invariant if what it has read fits. *)
LEMMA GoesOnKeeps ==
  ASSUME TeamInv, NEW a \in Asks, ask[a].pc \notin {"new", "ended"},
         NEW pc \in AskPcs \ {"new", "ended", "store"}, Goes(a, pc),
         pc = "role call" => ask[a].op = "role",
         pc \in {"count", "remove call"} => ask[a].op = "remove",
         pc \in Transfers => ask[a].op = "transfer",
         pc = "write key" => ask[a].op \in {"patch key", "rotate key"},
         Calm(crossed) =>
           /\ pc \in Transfers => members[ask[a].target] \notin {"", "owner"}
           /\ pc \in {"from", "swap"} => members[ask[a].user] = "owner"
           /\ pc = "remove call" => members[ask[a].target] # "owner",
         UNCHANGED <<now, members, invited, alive, cached, keyStatus, changed, crossed>>
  PROVE  TeamInv'
<1>0. pc \in AskPcs \ {"new", "ended"} /\ pc # "store"
  BY Zenon
<1>1. PICK y \in Asked : /\ ask' = [ask EXCEPT ![a] = y] /\ AskSound(y) /\ y.pc = pc
                         /\ y.user = ask[a].user /\ y.target = ask[a].target
  BY <1>0, GoesOn, Zenon
<1>2. Fits(y, members, alive, crossed)
  BY <1>0, <1>1, Zenon DEF Fits
<1> QED
  BY <1>1, <1>2, QuietStep, Zenon

(* Each handler reads what it needs. *)
LEMMA ReadForRoleKeeps ==
  ASSUME TeamInv, NEW a \in Asks, ReadForRole(a)
  PROVE  TeamInv'
<1>1. ask[a].pc = "handle" /\ ask[a].op = "role"
      /\ UNCHANGED <<now, members, invited, alive, cached, keyStatus, changed, crossed>>
  BY Zenon DEF ReadForRole, Handles, Is
<1>2. Ends(a) \/ Goes(a, "role call")
  BY Zenon DEF ReadForRole
<1>3. CASE Goes(a, "role call")
  <2>1. "role call" \in AskPcs \ {"new", "ended", "store"} /\ "role call" \notin Transfers
    BY Zenon DEF AskPcs, Transfers
  <2> QED
    BY <1>1, <1>3, <2>1, GoesOnKeeps, Zenon
<1> QED
  BY <1>1, <1>2, <1>3, QuietEnd, Zenon

(* Removal of a member who is not an owner. *)
LEMMA ReadForRemovalKeeps ==
  ASSUME TeamInv, NEW a \in Asks, ReadForRemoval(a)
  PROVE  TeamInv'
<1>1. ask[a].pc = "handle" /\ ask[a].op = "remove"
      /\ UNCHANGED <<now, members, invited, alive, cached, keyStatus, changed, crossed>>
  BY Zenon DEF ReadForRemoval, Handles, Is
<1>2. \/ Ends(a) \/ Goes(a, "count")
      \/ Goes(a, "remove call") /\ members[ask[a].target] # "owner"
  BY Zenon DEF ReadForRemoval
<1>3. /\ "count" \in AskPcs \ {"new", "ended", "store"} /\ "count" \notin Transfers
      /\ "remove call" \in AskPcs \ {"new", "ended", "store"} /\ "remove call" \notin Transfers
  BY Zenon DEF AskPcs, Transfers
<1>4. CASE Goes(a, "count")
  BY <1>1, <1>3, <1>4, GoesOnKeeps, Zenon
<1>5. CASE Goes(a, "remove call") /\ members[ask[a].target] # "owner"
  BY <1>1, <1>3, <1>5, GoesOnKeeps, Zenon
<1> QED
  BY <1>1, <1>2, <1>4, <1>5, QuietEnd, Zenon

(* With a single owner the count never lets an owner be removed. *)
LEMMA SoleCounts ==
  ASSUME TeamInv, Calm(crossed)
  PROVE  Cardinality(Owners) = 1
<1>1. PICK o \in Users : members[o] = "owner" /\ \A u \in Users : members[u] = "owner" => u = o
  BY Zenon DEF TeamInv, OwnerFits, Sole
<1>2. Owners = {o}
  BY <1>1, Zenon DEF Owners
<1> QED
  BY <1>2, FS_Singleton, Zenon

(* So it ends the request, unless something has crossed. *)
LEMMA CountOwnersKeeps ==
  ASSUME TeamInv, NEW a \in Asks, CountOwners(a)
  PROVE  TeamInv'
<1>1. ask[a].pc = "count"
      /\ UNCHANGED <<now, members, invited, alive, cached, keyStatus, changed, crossed>>
  BY Zenon DEF CountOwners, Is
<1>2. ask[a].op = "remove"
  BY <1>1, AskTyped, Zenon DEF AskSound
<1>3. CASE Cardinality(Owners) <= 1
  BY <1>1, <1>3, QuietEnd, Zenon DEF CountOwners
<1>4. CASE ~(Cardinality(Owners) <= 1)
  <2>1. Goes(a, "remove call")
    BY <1>4, Zenon DEF CountOwners
  <2>2. 1 <= 1
    BY SMT
  <2>3. ~Calm(crossed)
    BY <1>4, <2>2, SoleCounts, Zenon
  <2>4. "remove call" \in AskPcs \ {"new", "ended", "store"} /\ "remove call" \notin Transfers
    BY Zenon DEF AskPcs, Transfers
  <2> QED
    BY <1>1, <1>2, <2>1, <2>3, <2>4, GoesOnKeeps, Zenon
<1> QED
  BY <1>3, <1>4

(* A transfer goes to a member who is no owner. *)
LEMMA ReadTargetKeeps ==
  ASSUME TeamInv, NEW a \in Asks, ReadTarget(a)
  PROVE  TeamInv'
<1>1. ask[a].pc = "handle" /\ ask[a].op = "transfer"
      /\ UNCHANGED <<now, members, invited, alive, cached, keyStatus, changed, crossed>>
  BY Zenon DEF ReadTarget, Handles, Is
<1>2. Ends(a) \/ (Goes(a, "actor") /\ members[ask[a].target] \notin {"", "owner"})
  BY Zenon DEF ReadTarget
<1>3. CASE Goes(a, "actor") /\ members[ask[a].target] \notin {"", "owner"}
  <2>1. "actor" \in AskPcs \ {"new", "ended", "store"}
    BY Zenon DEF AskPcs
  <2> QED
    BY <1>1, <1>3, <2>1, GoesOnKeeps, Zenon
<1> QED
  BY <1>1, <1>2, <1>3, QuietEnd, Zenon

(* And comes from an owner. *)
LEMMA ReadActorKeeps ==
  ASSUME TeamInv, NEW a \in Asks, ReadActor(a)
  PROVE  TeamInv'
<1>1. ask[a].pc \in {"actor", "from"}
      /\ UNCHANGED <<now, members, invited, alive, cached, keyStatus, changed, crossed>>
  BY Zenon DEF ReadActor
<1>2. /\ ask[a].op = "transfer" /\ ask[a].pc \notin {"new", "ended"}
      /\ Calm(crossed) => members[ask[a].target] \notin {"", "owner"}
  BY <1>1, AskTyped, Zenon DEF AskSound, Fits, Transfers
<1>3. CASE members[ask[a].user] # "owner"
  BY <1>1, <1>3, QuietEnd, Zenon DEF ReadActor
<1>4. CASE members[ask[a].user] = "owner"
  <2>1. PICK pc \in {"from", "swap"} : Goes(a, pc)
    BY <1>4, Zenon DEF ReadActor
  <2>2. pc \in AskPcs \ {"new", "ended", "store"} /\ pc \notin {"role call", "count", "remove call", "write key"}
    BY Zenon DEF AskPcs
  <2> QED
    BY <1>1, <1>2, <1>4, <2>1, <2>2, GoesOnKeeps, Zenon
<1> QED
  BY <1>3, <1>4

(* A key that is there is to be written. *)
LEMMA ReadKeyKeeps ==
  ASSUME TeamInv, NEW a \in Asks, ReadKey(a)
  PROVE  TeamInv'
<1>1. ask[a].pc = "handle" /\ ask[a].op \in {"patch key", "rotate key"}
      /\ UNCHANGED <<now, members, invited, alive, cached, keyStatus, changed, crossed>>
  BY Zenon DEF ReadKey, Is
<1>2. Ends(a) \/ Goes(a, "write key")
  BY Zenon DEF ReadKey
<1>3. CASE Goes(a, "write key")
  <2>1. "write key" \in AskPcs \ {"new", "ended", "store"} /\ "write key" \notin Transfers
    BY Zenon DEF AskPcs, Transfers
  <2> QED
    BY <1>1, <1>3, <2>1, GoesOnKeeps, Zenon
<1> QED
  BY <1>1, <1>2, <1>3, QuietEnd, Zenon

-----------------------------------------------------------------------------
(* Steps that change more than a request *)

(* Every request but a stays as it is. *)
LEMMA OthersStay ==
  ASSUME TeamInv, NEW a \in Asks, NEW y \in Asked, ask' = [ask EXCEPT ![a] = y]
  PROVE  ask' \in [Asks -> Asked] /\ \A b \in Asks : ask'[b] = IF b = a THEN y ELSE ask[b]
  BY Zenon DEF TeamInv, TeamTyped

(* The ttl is a number. *)
LEMMA TtlNatural == CacheTtl \in Nat
  BY TeamAssumption, Zenon

(* While members, sessions and what has crossed stay, so do the requests.  *)
LEMMA AsksStillFit ==
  ASSUME TeamInv, NEW a \in Asks, NEW y \in Asked, ask' = [ask EXCEPT ![a] = y], AskSound(y),
         \A m, s, cr : Fits(y, m, s, cr),
         UNCHANGED <<members, alive, crossed>>
  PROVE  AsksFit' /\ ask' \in [Asks -> Asked]
<1>1. \A b \in Asks : AskSound(ask'[b]) /\ Fits(ask'[b], members, alive, crossed)
  BY OthersStay, Zenon DEF TeamInv, AsksFit
<1> QED
  BY <1>1, OthersStay, Zenon DEF AsksFit

(* The role a request has read goes into the cache with a fresh ttl. *)
LEMMA AuthStoreKeeps ==
  ASSUME TeamInv, NEW a \in Asks, AuthStore(a)
  PROVE  TeamInv'
<1> DEFINE u == ask[a].user
           e == [role |-> ask[a].as, until |-> now + CacheTtl]
<1>1. /\ ask[a].pc = "store" /\ Enters(a, ask[a].as) /\ cached' = [cached EXCEPT ![u] = e]
      /\ UNCHANGED <<now, members, invited, alive, keyStatus, changed, crossed>>
  BY Zenon DEF AuthStore, Is
<1>2. u \in Users /\ ask[a].as \in Member
      /\ (u \notin crossed.slow => alive[u] /\ ask[a].as = members[u])
  BY <1>1, AskTyped, Zenon DEF AskSound, Fits
<1>3. PICK y \in Asked : /\ ask' = [ask EXCEPT ![a] = y] /\ AskSound(y)
                         /\ \A m, s, cr : Fits(y, m, s, cr)
  BY <1>1, <1>2, EntersAs, Zenon
<1>4. AsksFit' /\ ask' \in [Asks -> Asked]
  BY <1>1, <1>3, AsksStillFit, Zenon
<1>5. now + CacheTtl \in Int
  <2>1. now \in Nat
    BY Zenon DEF TeamInv, TeamTyped
  <2> QED
    BY <2>1, TtlNatural, SMT
<1>6. /\ e \in [role : Member, until : Int] /\ e.role = ask[a].as /\ e.until = now + CacheTtl
  BY <1>2, <1>5, Zenon
<1> HIDE DEF e
<1>7. /\ cached' \in [Users -> [role : Member, until : Int]]
      /\ \A v \in Users : cached'[v] = IF v = u THEN e ELSE cached[v]
  BY <1>1, <1>2, <1>6, Zenon DEF TeamInv, TeamTyped
<1>8. TeamTyped'
  BY <1>1, <1>4, <1>7, Zenon DEF TeamInv, TeamTyped
<1>9. now + CacheTtl <= now + CacheTtl
  BY <1>5, SMT
<1>10. ASSUME NEW v \in Users
       PROVE  /\ cached'[v].until <= now + CacheTtl /\ changed[v] <= now
              /\ v \notin crossed.slow /\ (~alive[v] \/ cached'[v].role # members[v])
                   => cached'[v].until <= changed[v] + CacheTtl
  <2>1. CASE v = u
    BY <1>2, <1>6, <1>7, <1>9, <2>1, Zenon DEF TeamInv, CacheFits
  <2>2. CASE v # u
    BY <1>7, <2>2, Zenon DEF TeamInv, CacheFits
  <2> QED
    BY <2>1, <2>2
<1>11. CacheFits(cached', alive, members, changed, crossed, now)
  BY <1>10, Zenon DEF CacheFits
<1> QED
  BY <1>1, <1>4, <1>8, <1>11, Zenon DEF TeamInv

(* The clock. *)
LEMMA TickKeeps ==
  ASSUME TeamInv, TeamTick
  PROVE  TeamInv'
<1>1. /\ now \in Nat /\ now' = now + 1
      /\ UNCHANGED <<members, invited, alive, cached, keyStatus, ask, changed, crossed>>
  BY Zenon DEF TeamTick, TeamInv, TeamTyped
<1>2. now' \in Nat
  BY <1>1, SMT
<1>3. ASSUME NEW u \in Users PROVE cached[u].until <= now' + CacheTtl /\ changed[u] <= now'
  <2>1. cached[u].until \in Int /\ changed[u] \in Nat
    BY <1>3, Zenon DEF TeamInv, TeamTyped
  <2>2. cached[u].until <= now + CacheTtl /\ changed[u] <= now
    BY <1>3, Zenon DEF TeamInv, CacheFits
  <2> QED
    BY <1>1, <2>1, <2>2, TtlNatural, SMT
<1>4. CacheFits(cached, alive, members, changed, crossed, now')
  BY <1>3, Zenon DEF CacheFits, TeamInv
<1>5. TeamTyped'
  BY <1>1, <1>2, Zenon DEF TeamInv, TeamTyped
<1>6. AsksFit'
  BY <1>1, Zenon DEF TeamInv, AsksFit
<1> QED
  BY <1>1, <1>4, <1>5, <1>6, Zenon DEF TeamInv

(* Invitations give roles that may be given. *)
LEMMA InviteKeeps ==
  ASSUME TeamInv, NEW a \in Asks, Invite(a)
  PROVE  TeamInv'
<1>1. /\ ask[a].pc = "handle" /\ ask[a].op \in {"invite", "cancel"}
      /\ ask' = [ask EXCEPT ![a] = EndedAsk]
      /\ UNCHANGED <<now, members, alive, cached, keyStatus, changed, crossed>>
  BY Zenon DEF Invite, Is, Ends
<1> DEFINE role == IF ask[a].op = "invite" THEN ask[a].role ELSE ""
<1>2. role \in InviteRoles \cup {""}
  BY <1>1, AskTyped, TeamAssumption, Zenon DEF AskSound
<1>3. invited' \in {invited, [invited EXCEPT ![ask[a].target] = role]}
  BY Zenon DEF Invite
<1> HIDE DEF role
<1>4. invited' \in [Users -> InviteRoles \cup {""}]
  BY <1>2, <1>3, Zenon DEF TeamInv, TeamTyped
<1>5. AsksFit' /\ ask' \in [Asks -> Asked]
  BY <1>1, EndedFits, AsksStillFit, Zenon
<1>6. TeamTyped'
  BY <1>1, <1>4, <1>5, Zenon DEF TeamInv, TeamTyped
<1> QED
  BY <1>1, <1>5, <1>6, Zenon DEF TeamInv

(* Roles and sessions of us change: of whoever was loading its role it is  *)
(* recorded, and nobody else's is touched.                                 *)
LEMMA ChangesFit ==
  ASSUME TeamInv, NEW us \in SUBSET Users, NEW swap \in BOOLEAN, NEW demoted \in BOOLEAN,
         Changes(us, swap, demoted),
         members' \in [Users -> Member], alive' \in [Users -> BOOLEAN],
         \A u \in Users \ us : members'[u] = members[u] /\ alive'[u] = alive[u],
         UNCHANGED <<now, cached, keyStatus>>
  PROVE  /\ crossed' \in Crossings /\ changed' \in [Users -> Nat]
         /\ crossed.slow \subseteq crossed'.slow
         /\ Calm(crossed') <=> Calm(crossed) /\ ~swap /\ ~demoted
         /\ \A b \in Asks : ask[b].pc = "store" /\ ask[b].user \in us => ask[b].user \in crossed'.slow
         /\ CacheFits(cached, alive', members', changed', crossed', now)
         /\ KeysFit(keyStatus, crossed')
<1> DEFINE slow == crossed.slow \cup {u \in us : \E b \in Asks : Is(b, "store") /\ ask[b].user = u}
           s == crossed.swap \/ swap
           d == crossed.demoted \/ demoted
<1>1. crossed' = [crossed EXCEPT !.slow = slow, !.swap = s, !.demoted = d]
  BY Zenon DEF Changes
<1>2. crossed \in Crossings
  BY Zenon DEF TeamInv, TeamTyped
<1>3. slow \in SUBSET Users
  BY <1>2, Zenon DEF Crossings
<1>4. /\ crossed.slow \subseteq slow
      /\ \A b \in Asks : ask[b].pc = "store" /\ ask[b].user \in us => ask[b].user \in slow
  BY Zenon DEF Is
<1>5. s \in BOOLEAN /\ d \in BOOLEAN
  BY <1>2, Zenon DEF Crossings
<1>6. s <=> crossed.swap \/ swap
  BY Zenon
<1>7. d <=> crossed.demoted \/ demoted
  BY Zenon
<1> HIDE DEF slow, s, d
<1>8. /\ crossed' \in Crossings /\ crossed'.slow = slow /\ crossed'.swap = s /\ crossed'.demoted = d
      /\ crossed'.keys = crossed.keys /\ crossed'.revoked = crossed.revoked
  BY <1>1, <1>2, <1>3, <1>5, Zenon DEF Crossings
<1>9. Calm(crossed') <=> Calm(crossed) /\ ~swap /\ ~demoted
  BY <1>6, <1>7, <1>8, Zenon DEF Calm
<1>10. now \in Nat /\ changed \in [Users -> Nat]
  BY Zenon DEF TeamInv, TeamTyped
<1>11. /\ changed' \in [Users -> Nat]
       /\ \A u \in Users : changed'[u] = IF u \in us THEN now ELSE changed[u]
  BY <1>10, Zenon DEF Changes
<1>12. now <= now
  BY <1>10, SMT
<1>13. ASSUME NEW u \in Users
       PROVE  /\ cached[u].until <= now + CacheTtl /\ changed'[u] <= now
              /\ u \notin crossed'.slow /\ (~alive'[u] \/ cached[u].role # members'[u])
                   => cached[u].until <= changed'[u] + CacheTtl
  <2>1. /\ cached[u].until <= now + CacheTtl /\ changed[u] <= now
        /\ u \notin crossed.slow /\ (~alive[u] \/ cached[u].role # members[u])
             => cached[u].until <= changed[u] + CacheTtl
    BY <1>13, Zenon DEF TeamInv, CacheFits
  <2>2. CASE u \in us
    BY <1>11, <1>12, <2>1, <2>2, Zenon
  <2>3. CASE u \notin us
    BY <1>4, <1>8, <1>11, <2>1, <2>3, Zenon
  <2> QED
    BY <2>2, <2>3
<1>14. CacheFits(cached, alive', members', changed', crossed', now)
  BY <1>13, Zenon DEF CacheFits
<1>15. KeysFit(keyStatus, crossed')
  BY <1>8, Zenon DEF TeamInv, KeysFit
<1> QED
  BY <1>4, <1>8, <1>9, <1>11, <1>14, <1>15, Zenon

(* A request fits what has changed, if what it relies on has not, or that  *)
(* is recorded.                                                            *)
LEMMA StillFits ==
  ASSUME NEW x, NEW m, NEW s, NEW cr, NEW mm, NEW ss, NEW cc, NEW us, Fits(x, m, s, cr),
         cr.slow \subseteq cc.slow, Calm(cc) => Calm(cr),
         x.pc = "store" /\ x.user \in us => x.user \in cc.slow,
         x.pc = "store" /\ x.user \notin us => mm[x.user] = m[x.user] /\ ss[x.user] = s[x.user],
         Calm(cc) =>
           /\ x.pc \in Transfers => mm[x.target] \notin {"", "owner"}
           /\ x.pc \in {"from", "swap"} => mm[x.user] = "owner"
           /\ x.pc = "remove call" => mm[x.target] # "owner"
  PROVE  Fits(x, mm, ss, cc)
  BY Zenon DEF Fits

(* A session ends. *)
LEMMA SignOutKeeps ==
  ASSUME TeamInv, NEW u \in Users, SignOut(u)
  PROVE  TeamInv'
<1>1. /\ alive' = [alive EXCEPT ![u] = FALSE] /\ Changes({u}, FALSE, FALSE)
      /\ UNCHANGED <<now, members, invited, cached, keyStatus, ask>>
  BY Zenon DEF SignOut
<1>2. members \in [Users -> Member] /\ alive \in [Users -> BOOLEAN]
  BY Zenon DEF TeamInv, TeamTyped
<1>3. /\ alive' \in [Users -> BOOLEAN] /\ members' \in [Users -> Member]
      /\ \A v \in Users \ {u} : members'[v] = members[v] /\ alive'[v] = alive[v]
  BY <1>1, <1>2, Zenon
<1>4. {u} \in SUBSET Users /\ FALSE \in BOOLEAN
  BY Zenon
<1>5. /\ crossed' \in Crossings /\ changed' \in [Users -> Nat]
      /\ crossed.slow \subseteq crossed'.slow
      /\ Calm(crossed') <=> Calm(crossed) /\ ~FALSE /\ ~FALSE
      /\ \A b \in Asks : ask[b].pc = "store" /\ ask[b].user \in {u} => ask[b].user \in crossed'.slow
      /\ CacheFits(cached, alive', members', changed', crossed', now)
      /\ KeysFit(keyStatus, crossed')
  BY <1>1, <1>3, <1>4, ChangesFit, Zenon
<1>6. ASSUME NEW b \in Asks PROVE AskSound(ask[b]) /\ Fits(ask[b], members', alive', crossed')
  <2>1. AskSound(ask[b]) /\ Fits(ask[b], members, alive, crossed)
    BY <1>6, AskTyped, Zenon
  <2>2. ask[b].pc = "store" => ask[b].user \in Users
    BY <2>1, Zenon DEF AskSound
  <2>3. Calm(crossed') =>
          /\ ask[b].pc \in Transfers => members'[ask[b].target] \notin {"", "owner"}
          /\ ask[b].pc \in {"from", "swap"} => members'[ask[b].user] = "owner"
          /\ ask[b].pc = "remove call" => members'[ask[b].target] # "owner"
    BY <1>1, <1>5, <2>1, Zenon DEF Fits
  <2> QED
    BY <1>3, <1>5, <1>6, <2>1, <2>2, <2>3, StillFits, Zenon
<1>7. AsksFit'
  BY <1>1, <1>6, Zenon DEF AsksFit
<1>8. OwnerFits(members, crossed')
  BY <1>5, Zenon DEF TeamInv, OwnerFits
<1>9. TeamTyped'
  BY <1>1, <1>3, <1>5, Zenon DEF TeamInv, TeamTyped
<1> QED
  BY <1>1, <1>5, <1>7, <1>8, <1>9, Zenon DEF TeamInv

(* An invitation is accepted. *)
LEMMA AcceptKeeps ==
  ASSUME TeamInv, NEW u \in Users, Accept(u)
  PROVE  TeamInv'
<1>1. /\ members[u] = "" /\ invited[u] # "" /\ Changes({u}, FALSE, FALSE)
      /\ members' = [members EXCEPT ![u] = invited[u]] /\ invited' = [invited EXCEPT ![u] = ""]
      /\ UNCHANGED <<now, alive, cached, keyStatus, ask>>
  BY Zenon DEF Accept
<1>2. /\ members \in [Users -> Member] /\ alive \in [Users -> BOOLEAN]
      /\ invited \in [Users -> InviteRoles \cup {""}]
  BY Zenon DEF TeamInv, TeamTyped
<1>3. invited[u] \in InviteRoles
  BY <1>1, <1>2, Zenon
<1>4. invited[u] \in Member /\ invited[u] # "owner"
  BY <1>3, Zenon DEF InviteRoles, Member
<1>5. /\ alive' \in [Users -> BOOLEAN] /\ members' \in [Users -> Member]
      /\ invited' \in [Users -> InviteRoles \cup {""}]
      /\ \A v \in Users : members'[v] = IF v = u THEN invited[u] ELSE members[v]
      /\ \A v \in Users \ {u} : members'[v] = members[v] /\ alive'[v] = alive[v]
  BY <1>1, <1>2, <1>4, Zenon
<1>6. {u} \in SUBSET Users /\ FALSE \in BOOLEAN
  BY Zenon
<1>7. /\ crossed' \in Crossings /\ changed' \in [Users -> Nat]
      /\ crossed.slow \subseteq crossed'.slow
      /\ Calm(crossed') <=> Calm(crossed) /\ ~FALSE /\ ~FALSE
      /\ \A b \in Asks : ask[b].pc = "store" /\ ask[b].user \in {u} => ask[b].user \in crossed'.slow
      /\ CacheFits(cached, alive', members', changed', crossed', now)
      /\ KeysFit(keyStatus, crossed')
  BY <1>1, <1>5, <1>6, ChangesFit, Zenon
<1>8. ASSUME NEW b \in Asks PROVE AskSound(ask[b]) /\ Fits(ask[b], members', alive', crossed')
  <2>1. AskSound(ask[b]) /\ Fits(ask[b], members, alive, crossed)
    BY <1>8, AskTyped, Zenon
  <2>2. /\ ask[b].pc = "store" => ask[b].user \in Users
        /\ ask[b].pc \in {"from", "swap"} => ask[b].user \in Users
        /\ ask[b].pc \in Transfers \cup {"remove call"} => ask[b].target \in Users
    BY <2>1, Zenon DEF AskSound, UserOps
  <2>3. Calm(crossed') =>
          /\ ask[b].pc \in Transfers => members'[ask[b].target] \notin {"", "owner"}
          /\ ask[b].pc \in {"from", "swap"} => members'[ask[b].user] = "owner"
          /\ ask[b].pc = "remove call" => members'[ask[b].target] # "owner"
    BY <1>1, <1>4, <1>5, <1>7, <2>1, <2>2, Zenon DEF Fits
  <2> QED
    BY <1>5, <1>7, <1>8, <2>1, <2>2, <2>3, StillFits, Zenon
<1>9. AsksFit'
  BY <1>1, <1>8, Zenon DEF AsksFit
<1>10. ASSUME Calm(crossed') PROVE Sole(members')
  <2>1. PICK o \in Users : members[o] = "owner" /\ \A v \in Users : members[v] = "owner" => v = o
    BY <1>7, <1>10, Zenon DEF TeamInv, OwnerFits, Sole
  <2>2. o # u
    BY <1>1, <2>1, Zenon
  <2> QED
    BY <1>4, <1>5, <2>1, <2>2, Zenon DEF Sole
<1>11. OwnerFits(members', crossed')
  BY <1>10, Zenon DEF OwnerFits
<1>12. TeamTyped'
  BY <1>1, <1>5, <1>7, Zenon DEF TeamInv, TeamTyped
<1> QED
  BY <1>1, <1>7, <1>9, <1>11, <1>12, Zenon DEF TeamInv

(* Members change by request a, which is over; what the others rely on is  *)
(* still so unless that is recorded.                                       *)
LEMMA MembersChange ==
  ASSUME TeamInv, NEW a \in Asks, Ends(a),
         NEW us \in SUBSET Users, NEW swap \in BOOLEAN, NEW demoted \in BOOLEAN,
         Changes(us, swap, demoted),
         members' \in [Users -> Member],
         \A u \in Users \ us : members'[u] = members[u],
         Calm(crossed) /\ ~swap /\ ~demoted =>
           /\ Sole(members')
           /\ \A b \in Asks \ {a} :
                /\ ask[b].pc \in Transfers => members'[ask[b].target] \notin {"", "owner"}
                /\ ask[b].pc \in {"from", "swap"} => members'[ask[b].user] = "owner"
                /\ ask[b].pc = "remove call" => members'[ask[b].target] # "owner",
         UNCHANGED <<now, invited, alive, cached, keyStatus>>
  PROVE  TeamInv'
<1>1. /\ alive' \in [Users -> BOOLEAN]
      /\ \A v \in Users \ us : members'[v] = members[v] /\ alive'[v] = alive[v]
  BY Zenon DEF TeamInv, TeamTyped
<1>2. /\ crossed' \in Crossings /\ changed' \in [Users -> Nat]
      /\ crossed.slow \subseteq crossed'.slow
      /\ Calm(crossed') <=> Calm(crossed) /\ ~swap /\ ~demoted
      /\ \A b \in Asks : ask[b].pc = "store" /\ ask[b].user \in us => ask[b].user \in crossed'.slow
      /\ CacheFits(cached, alive', members', changed', crossed', now)
      /\ KeysFit(keyStatus, crossed')
  BY <1>1, ChangesFit, Zenon
<1>3. /\ ask' \in [Asks -> Asked]
      /\ \A b \in Asks : ask'[b] = IF b = a THEN EndedAsk ELSE ask[b]
  BY EndedFits, OthersStay, Zenon DEF Ends
<1>4. ASSUME NEW b \in Asks \ {a} PROVE AskSound(ask[b]) /\ Fits(ask[b], members', alive', crossed')
  <2>1. AskSound(ask[b]) /\ Fits(ask[b], members, alive, crossed)
    BY <1>4, AskTyped, Zenon
  <2>2. ask[b].pc = "store" => ask[b].user \in Users
    BY <2>1, Zenon DEF AskSound
  <2>3. Calm(crossed') =>
          /\ ask[b].pc \in Transfers => members'[ask[b].target] \notin {"", "owner"}
          /\ ask[b].pc \in {"from", "swap"} => members'[ask[b].user] = "owner"
          /\ ask[b].pc = "remove call" => members'[ask[b].target] # "owner"
    BY <1>2, <1>4, Zenon
  <2> QED
    BY <1>1, <1>2, <1>4, <2>1, <2>2, <2>3, StillFits, Zenon
<1>5. \A b \in Asks : AskSound(ask'[b]) /\ Fits(ask'[b], members', alive', crossed')
  BY <1>3, <1>4, EndedFits, Zenon
<1>6. AsksFit'
  BY <1>5, Zenon DEF AsksFit
<1>7. OwnerFits(members', crossed')
  BY <1>2, Zenon DEF OwnerFits
<1>8. TeamTyped'
  BY <1>1, <1>2, <1>3, Zenon DEF TeamInv, TeamTyped
<1> QED
  BY <1>2, <1>6, <1>7, <1>8, Zenon DEF TeamInv

(* The library gives a role, or removes a member. *)
LEMMA LibraryCallKeeps ==
  ASSUME TeamInv, NEW a \in Asks, LibraryCall(a)
  PROVE  TeamInv'
<1> DEFINE t == ask[a].target
           to == IF Is(a, "role call") THEN ask[a].role ELSE ""
           meets == \E b \in Asks : ask[b].pc \in Transfers /\ t \in {ask[b].user, ask[b].target}
           demotes == members[t] = "owner" /\ Is(a, "role call")
<1>1. /\ ask[a].pc \in {"role call", "remove call"} /\ Ends(a)
      /\ UNCHANGED <<now, invited, alive, cached, keyStatus>>
      /\ \/ /\ members[t] # "" /\ members' = [members EXCEPT ![t] = to]
            /\ Changes({t}, meets, demotes)
         \/ UNCHANGED <<members, changed, crossed>>
  BY Zenon DEF LibraryCall, LibraryCalls
<1>2. CASE UNCHANGED <<members, changed, crossed>>
  BY <1>1, <1>2, QuietEnd, Zenon
<1>3. CASE /\ members[t] # "" /\ members' = [members EXCEPT ![t] = to]
           /\ Changes({t}, meets, demotes)
  <2>1. AskSound(ask[a]) /\ Fits(ask[a], members, alive, crossed)
    BY AskTyped, Zenon
  <2>2. t \in Users
    BY <1>1, <2>1, Zenon DEF AskSound, UserOps
  <2>3. to \in Member /\ to # "owner"
    <3>1. Is(a, "role call") => ask[a].role \in GivenRoles
      BY <2>1, Zenon DEF AskSound, Is
    <3> QED
      BY <3>1, TeamAssumption, Zenon DEF Member, InviteRoles
  <2>4. meets \in BOOLEAN /\ demotes \in BOOLEAN
    BY Zenon
  <2>5. Calm(crossed) /\ ~demotes => members[t] # "owner"
    BY <1>1, <2>1, Zenon DEF Fits, Is
  <2>6. ~meets => \A b \in Asks : ask[b].pc \in Transfers => t # ask[b].user /\ t # ask[b].target
    BY Zenon
  <2> HIDE DEF to, meets, demotes
  <2>7. /\ members' \in [Users -> Member]
        /\ \A v \in Users : members'[v] = IF v = t THEN to ELSE members[v]
        /\ \A v \in Users \ {t} : members'[v] = members[v]
    BY <1>3, <2>3, Zenon DEF TeamInv, TeamTyped
  <2>8. ASSUME Calm(crossed), ~meets, ~demotes PROVE Sole(members')
    <3>1. PICK o \in Users : members[o] = "owner" /\ \A v \in Users : members[v] = "owner" => v = o
      BY <2>8, Zenon DEF TeamInv, OwnerFits, Sole
    <3>2. o # t
      BY <2>5, <2>8, <3>1, Zenon
    <3> QED
      BY <2>3, <2>7, <3>1, <3>2, Zenon DEF Sole
  <2>9. ASSUME Calm(crossed), ~meets, ~demotes, NEW b \in Asks \ {a}
        PROVE  /\ ask[b].pc \in Transfers => members'[ask[b].target] \notin {"", "owner"}
               /\ ask[b].pc \in {"from", "swap"} => members'[ask[b].user] = "owner"
               /\ ask[b].pc = "remove call" => members'[ask[b].target] # "owner"
    <3>1. AskSound(ask[b]) /\ Fits(ask[b], members, alive, crossed)
      BY AskTyped, Zenon
    <3>2. /\ ask[b].pc \in {"from", "swap"} => ask[b].user \in Users
          /\ ask[b].pc \in Transfers \cup {"remove call"} => ask[b].target \in Users
      BY <3>1, Zenon DEF AskSound, UserOps
    <3>3. ask[b].pc \in {"from", "swap"} => ask[b].pc \in Transfers
      BY Zenon DEF Transfers
    <3> QED
      BY <2>3, <2>6, <2>7, <2>9, <3>1, <3>2, <3>3, Zenon DEF Fits
  <2>10. {t} \in SUBSET Users
    BY <2>2, Zenon
  <2>11. Ends(a) /\ Changes({t}, meets, demotes) /\ UNCHANGED <<now, invited, alive, cached, keyStatus>>
    BY <1>1, <1>3
  <2> HIDE DEF t
  <2>12. members' \in [Users -> Member] /\ \A v \in Users \ {t} : members'[v] = members[v]
    BY <2>7
  <2> QED
    BY <2>4, <2>8, <2>9, <2>10, <2>11, <2>12, MembersChange, Zenon
<1> QED
  BY <1>1, <1>2, <1>3

(* The owner and the target change places. *)
LEMMA SwapKeeps ==
  ASSUME TeamInv, NEW a \in Asks, Swap(a)
  PROVE  TeamInv'
<1> DEFINE u == ask[a].user
           t == ask[a].target
           meets == \E b \in Asks \ {a} :
                      \/ ask[b].pc \in Transfers
                      \/ ask[b].pc \in LibraryCalls /\ ask[b].target \in {u, t}
           up == IF members[t] = "" THEN "" ELSE "owner"
           m == [members EXCEPT ![t] = up]
           down == IF m[u] = "" THEN "" ELSE "admin"
<1>1. /\ ask[a].pc = "swap" /\ Ends(a) /\ Changes({t, u}, meets, FALSE)
      /\ UNCHANGED <<now, invited, alive, cached, keyStatus>>
  BY Zenon DEF Swap, Is
<1>2. members' = [m EXCEPT ![u] = down]
  BY Zenon DEF Swap
<1>3. AskSound(ask[a]) /\ Fits(ask[a], members, alive, crossed)
  BY AskTyped, Zenon
<1>4. u \in Users /\ t \in Users
  BY <1>1, <1>3, Zenon DEF AskSound, UserOps, Transfers
<1>5. Calm(crossed) => members[t] \notin {"", "owner"} /\ members[u] = "owner"
  BY <1>1, <1>3, Zenon DEF Fits, Transfers
<1>6. meets \in BOOLEAN /\ FALSE \in BOOLEAN
  BY Zenon
<1>7. ~meets => \A b \in Asks \ {a} :
                  /\ ask[b].pc \notin Transfers
                  /\ ask[b].pc = "remove call" => ask[b].target # u /\ ask[b].target # t
  BY Zenon DEF LibraryCalls
<1>8. up \in Member /\ down \in Member /\ (members[t] # "" => up = "owner")
      /\ (m[u] # "" => down = "admin")
  BY Zenon DEF Member, Roles
<1> HIDE DEF meets, up, down
<1>9. m \in [Users -> Member] /\ \A v \in Users : m[v] = IF v = t THEN up ELSE members[v]
  BY <1>4, <1>8, Zenon DEF TeamInv, TeamTyped
<1> HIDE DEF m
<1>10. /\ members' \in [Users -> Member]
       /\ \A v \in Users : members'[v] = IF v = u THEN down ELSE m[v]
  BY <1>2, <1>4, <1>8, <1>9, Zenon
<1>11. \A v \in Users \ {t, u} : members'[v] = members[v]
  BY <1>9, <1>10, Zenon
<1>12. ASSUME Calm(crossed) PROVE Sole(members')
  <2>1. PICK o \in Users : members[o] = "owner" /\ \A v \in Users : members[v] = "owner" => v = o
    BY <1>12, Zenon DEF TeamInv, OwnerFits, Sole
  <2>2. u # t /\ o = u
    BY <1>4, <1>5, <1>12, <2>1, Zenon
  <2>3. members'[t] = "owner"
    BY <1>4, <1>5, <1>8, <1>9, <1>10, <1>12, <2>2, Zenon
  <2>4. members'[u] = "admin"
    BY <1>4, <1>5, <1>8, <1>9, <1>10, <1>12, <2>2, Zenon
  <2>5. \A v \in Users : members'[v] = "owner" => v = t
    BY <1>11, <2>1, <2>2, <2>4, Zenon
  <2> QED
    BY <1>4, <2>3, <2>5, Zenon DEF Sole
<1>13. ASSUME Calm(crossed), ~meets, NEW b \in Asks \ {a}
       PROVE  /\ ask[b].pc \in Transfers => members'[ask[b].target] \notin {"", "owner"}
              /\ ask[b].pc \in {"from", "swap"} => members'[ask[b].user] = "owner"
              /\ ask[b].pc = "remove call" => members'[ask[b].target] # "owner"
  <2>1. AskSound(ask[b]) /\ Fits(ask[b], members, alive, crossed)
    BY AskTyped, Zenon
  <2>2. ask[b].pc = "remove call" => ask[b].target \in Users
    BY <2>1, Zenon DEF AskSound, UserOps
  <2>3. ask[b].pc \notin Transfers /\ ask[b].pc \notin {"from", "swap"}
    BY <1>7, <1>13, Zenon DEF Transfers
  <2>4. ask[b].pc = "remove call" => members'[ask[b].target] = members[ask[b].target]
    BY <1>7, <1>11, <1>13, <2>2, Zenon
  <2> QED
    BY <1>13, <2>1, <2>3, <2>4, Zenon DEF Fits
<1>14. {t, u} \in SUBSET Users
  BY <1>4, Zenon
<1> HIDE DEF t, u
<1> QED
  BY <1>1, <1>6, <1>10, <1>11, <1>12, <1>13, <1>14, MembersChange, Zenon

-----------------------------------------------------------------------------
(* Keys *)

(* A new key is active; no key that is not there was revoked. *)
LEMMA CreateKeyKeeps ==
  ASSUME TeamInv, NEW a \in Asks, CreateKey(a)
  PROVE  TeamInv'
<1> DEFINE k == ask[a].target
<1>1. /\ ask[a].op = "create key" /\ keyStatus[k] = ""
      /\ keyStatus' = [keyStatus EXCEPT ![k] = "active"] /\ ask' = [ask EXCEPT ![a] = EndedAsk]
      /\ UNCHANGED <<now, members, invited, alive, cached, changed, crossed>>
  BY Zenon DEF CreateKey, Handles, Ends
<1>2. k \in Keys
  BY <1>1, AskTyped, Zenon DEF AskSound, KeyOps
<1>3. /\ keyStatus' \in [Keys -> Status]
      /\ \A j \in Keys : j # k => keyStatus'[j] = keyStatus[j]
  BY <1>1, Zenon DEF TeamInv, TeamTyped, Status
<1>4. crossed.revoked \subseteq Keys
  BY Zenon DEF TeamInv, TeamTyped, Crossings
<1>5. KeysFit(keyStatus', crossed)
  BY <1>1, <1>3, <1>4, Zenon DEF TeamInv, KeysFit
<1>6. AsksFit' /\ ask' \in [Asks -> Asked]
  BY <1>1, EndedFits, AsksStillFit, Zenon
<1>7. TeamTyped'
  BY <1>1, <1>3, <1>6, Zenon DEF TeamInv, TeamTyped
<1> QED
  BY <1>1, <1>5, <1>6, <1>7, Zenon DEF TeamInv

(* Whether a request's key has become stale does not matter to what it     *)
(* needs and has read.                                                     *)
LEMMA StaleFits ==
  ASSUME NEW x \in Asked, AskSound(x), NEW m, NEW s, NEW cr, NEW cc, Fits(x, m, s, cr),
         cc.slow = cr.slow, Calm(cc) <=> Calm(cr)
  PROVE  LET y == [x EXCEPT !.stale = TRUE] IN
         /\ y \in Asked /\ AskSound(y) /\ Fits(y, m, s, cc) /\ Fits(x, m, s, cc)
<1> DEFINE y == [x EXCEPT !.stale = TRUE]
<1>1. /\ y \in Asked /\ y.pc = x.pc /\ y.user = x.user /\ y.op = x.op /\ y.target = x.target
      /\ y.role = x.role /\ y.as = x.as
  BY Zenon DEF Asked
<1> HIDE DEF y
<1>2. AskSound(y)
  BY <1>1, Zenon DEF AskSound
<1>3. Fits(y, m, s, cc)
  BY <1>1, Zenon DEF Fits
<1>4. Fits(x, m, s, cc)
  BY Zenon DEF Fits
<1> QED
  BY <1>1, <1>2, <1>3, <1>4, Zenon DEF y

(* A key is written, and the requests that have read it may be stale.      *)
LEMMA KeyWritten ==
  ASSUME TeamInv, NEW a \in Asks, NEW k \in Keys, NEW status \in Status,
         keyStatus' = [keyStatus EXCEPT ![k] = status],
         NEW ks \in SUBSET Keys, NEW rs \in SUBSET Keys,
         crossed' = [crossed EXCEPT !.revoked = rs, !.keys = ks],
         NEW stale \in SUBSET Asks,
         ask' = [b \in Asks |-> IF b = a THEN EndedAsk
                                ELSE IF b \in stale THEN [ask[b] EXCEPT !.stale = TRUE] ELSE ask[b]],
         KeysFit(keyStatus', crossed'),
         UNCHANGED <<now, members, invited, alive, cached, changed>>
  PROVE  TeamInv'
<1>1. crossed \in Crossings /\ keyStatus \in [Keys -> Status]
  BY Zenon DEF TeamInv, TeamTyped
<1>2. /\ crossed' \in Crossings /\ crossed'.slow = crossed.slow /\ crossed'.swap = crossed.swap
      /\ crossed'.demoted = crossed.demoted
  BY <1>1, Zenon DEF Crossings
<1>3. Calm(crossed') <=> Calm(crossed)
  BY <1>2, Zenon DEF Calm
<1>4. ASSUME NEW b \in Asks
      PROVE  ask'[b] \in Asked /\ AskSound(ask'[b]) /\ Fits(ask'[b], members, alive, crossed')
  <2>1. ask[b] \in Asked /\ AskSound(ask[b]) /\ Fits(ask[b], members, alive, crossed)
    BY <1>4, AskTyped, Zenon
  <2>2. LET y == [ask[b] EXCEPT !.stale = TRUE] IN
        /\ y \in Asked /\ AskSound(y) /\ Fits(y, members, alive, crossed')
        /\ Fits(ask[b], members, alive, crossed')
    BY <1>2, <1>3, <2>1, StaleFits, Zenon
  <2>3. \/ ask'[b] = EndedAsk \/ ask'[b] = ask[b] \/ ask'[b] = [ask[b] EXCEPT !.stale = TRUE]
    BY <1>4, Zenon
  <2> QED
    BY <2>1, <2>2, <2>3, EndedFits, Zenon
<1>5. ask' = [b \in Asks |-> ask'[b]]
  BY Zenon
<1>6. ask' \in [Asks -> Asked]
  BY <1>4, <1>5, Zenon
<1>7. AsksFit'
  BY <1>4, Zenon DEF AsksFit
<1>8. TeamTyped'
  BY <1>1, <1>2, <1>6, Zenon DEF TeamInv, TeamTyped
<1>9. OwnerFits(members, crossed')
  BY <1>3, Zenon DEF TeamInv, OwnerFits
<1>10. CacheFits(cached, alive, members, changed, crossed', now)
  BY <1>2, Zenon DEF TeamInv, CacheFits
<1> QED
  BY <1>7, <1>8, <1>9, <1>10, Zenon DEF TeamInv

(* A key is revoked. *)
LEMMA RevokeKeyKeeps ==
  ASSUME TeamInv, NEW a \in Asks, RevokeKey(a)
  PROVE  TeamInv'
<1> DEFINE k == ask[a].target
           there == keyStatus[k] # ""
           status == IF there THEN "revoked" ELSE ""
           rs == IF there THEN crossed.revoked \cup {k} ELSE crossed.revoked
           ks == crossed.keys
           stale == {b \in Asks : Is(b, "write key") /\ ask[b].target = k}
<1>1. /\ ask[a].op = "delete key" /\ UNCHANGED <<now, members, invited, alive, cached, changed>>
      /\ keyStatus' = [keyStatus EXCEPT ![k] = status]
      /\ crossed' = [crossed EXCEPT !.revoked = rs]
      /\ ask' = [b \in Asks |->
           IF b = a THEN EndedAsk
           ELSE IF Is(b, "write key") /\ ask[b].target = k THEN [ask[b] EXCEPT !.stale = TRUE]
                ELSE ask[b]]
  BY Zenon DEF RevokeKey, Handles
<1>2. k \in Keys
  BY <1>1, AskTyped, Zenon DEF AskSound, KeyOps
<1>3. /\ crossed \in Crossings /\ keyStatus \in [Keys -> Status]
      /\ crossed.revoked \subseteq Keys /\ crossed.keys \in SUBSET Keys
  BY Zenon DEF TeamInv, TeamTyped, Crossings
<1>4. status \in Status /\ rs \in SUBSET Keys /\ ks \in SUBSET Keys /\ stale \in SUBSET Asks
  BY <1>2, <1>3, Zenon DEF Status
<1>5. ask' = [b \in Asks |-> IF b = a THEN EndedAsk
                             ELSE IF b \in stale THEN [ask[b] EXCEPT !.stale = TRUE] ELSE ask[b]]
  BY <1>1, Zenon
<1>6. /\ there => status = "revoked" /\ rs = crossed.revoked \cup {k}
      /\ ~there => status = keyStatus[k] /\ rs = crossed.revoked
  BY Zenon
<1> HIDE DEF status, rs, stale, there
<1>7. crossed' = [crossed EXCEPT !.revoked = rs, !.keys = ks] /\ crossed'.revoked = rs
      /\ crossed'.keys = ks
  BY <1>1, <1>3, <1>4, Zenon DEF Crossings
<1>8. \A j \in Keys : keyStatus'[j] = IF j = k THEN status ELSE keyStatus[j]
  BY <1>1, <1>3, Zenon
<1>9. ASSUME NEW j \in rs \ ks PROVE keyStatus'[j] = "revoked"
  <2>1. j \in Keys /\ j \notin crossed.keys
    BY <1>4, <1>9, Zenon
  <2>2. j \in crossed.revoked => keyStatus[j] = "revoked"
    BY <2>1, Zenon DEF TeamInv, KeysFit
  <2> QED
    BY <1>6, <1>8, <1>9, <2>1, <2>2, Zenon
<1>10. KeysFit(keyStatus', crossed')
  BY <1>7, <1>9, Zenon DEF KeysFit
<1> HIDE DEF ks, k
<1> QED
  BY <1>1, <1>2, <1>4, <1>5, <1>7, <1>10, KeyWritten, Zenon

(* A key is patched or rotated. *)
LEMMA WriteKeyKeeps ==
  ASSUME TeamInv, NEW a \in Asks, WriteKey(a)
  PROVE  TeamInv'
<1> DEFINE k == ask[a].target
           asks == ask[a].op = "rotate key" \/ ask[a].role # ""
           status == NewStatus(a)
           rs == IF ~asks THEN crossed.revoked
                 ELSE IF status = "revoked" THEN crossed.revoked \cup {k}
                 ELSE IF ask[a].stale THEN crossed.revoked ELSE crossed.revoked \ {k}
           ks == IF asks /\ ask[a].stale THEN crossed.keys \cup {k} ELSE crossed.keys
           stale == {b \in Asks : asks /\ status = "revoked" /\ Is(b, "write key") /\ ask[b].target = k}
<1>1. /\ ask[a].pc = "write key" /\ UNCHANGED <<now, members, invited, alive, cached, changed>>
      /\ keyStatus' = [keyStatus EXCEPT ![k] = status]
      /\ crossed' = [crossed EXCEPT !.revoked = rs, !.keys = ks]
      /\ ask' = [b \in Asks |->
           IF b = a THEN EndedAsk
           ELSE IF asks /\ status = "revoked" /\ Is(b, "write key") /\ ask[b].target = k
                  THEN [ask[b] EXCEPT !.stale = TRUE] ELSE ask[b]]
  BY Zenon DEF WriteKey, Is
<1>2. ask[a].op \in {"patch key", "rotate key"} /\ k \in Keys
      /\ (ask[a].op = "patch key" => ask[a].role \in Status)
  BY <1>1, AskTyped, Zenon DEF AskSound, KeyOps
<1>3. /\ crossed \in Crossings /\ keyStatus \in [Keys -> Status]
      /\ crossed.revoked \in SUBSET Keys /\ crossed.keys \in SUBSET Keys
  BY Zenon DEF TeamInv, TeamTyped, Crossings
<1>4. status \in Status /\ (~asks => status = keyStatus[k])
  BY <1>2, <1>3, Zenon DEF NewStatus, Status
<1>5. stale \in SUBSET Asks
  BY Zenon
<1>6. ask' = [b \in Asks |-> IF b = a THEN EndedAsk
                             ELSE IF b \in stale THEN [ask[b] EXCEPT !.stale = TRUE] ELSE ask[b]]
  BY <1>1, Zenon
<1>7. /\ ~asks => rs = crossed.revoked /\ ks = crossed.keys
      /\ asks /\ status = "revoked" => rs = crossed.revoked \cup {k}
      /\ asks /\ status # "revoked" => k \notin rs \/ k \in ks
      /\ rs \subseteq crossed.revoked \cup {k} /\ crossed.keys \subseteq ks
      /\ ks \subseteq crossed.keys \cup {k}
  BY Zenon
<1> HIDE DEF status, rs, ks, stale, asks
<1>8. rs \in SUBSET Keys /\ ks \in SUBSET Keys
  BY <1>2, <1>3, <1>7, Zenon
<1>9. crossed'.revoked = rs /\ crossed'.keys = ks
  BY <1>1, <1>3, Zenon DEF Crossings
<1>10. \A j \in Keys : keyStatus'[j] = IF j = k THEN status ELSE keyStatus[j]
  BY <1>1, <1>3, Zenon
<1>11. ASSUME NEW j \in rs \ ks PROVE keyStatus'[j] = "revoked"
  <2>1. j \in Keys /\ j \notin crossed.keys
    BY <1>7, <1>8, <1>11, Zenon
  <2>2. j \in crossed.revoked => keyStatus[j] = "revoked"
    BY <2>1, Zenon DEF TeamInv, KeysFit
  <2>3. CASE j # k
    BY <1>7, <1>10, <1>11, <2>1, <2>2, <2>3, Zenon
  <2>4. CASE j = k
    BY <1>4, <1>7, <1>10, <1>11, <2>1, <2>2, <2>4, Zenon
  <2> QED
    BY <2>3, <2>4
<1>12. KeysFit(keyStatus', crossed')
  BY <1>9, <1>11, Zenon DEF KeysFit
<1> HIDE DEF k
<1> QED
  BY <1>1, <1>2, <1>4, <1>5, <1>6, <1>8, <1>12, KeyWritten, Zenon

-----------------------------------------------------------------------------
(* The theorems *)

(* Nobody has asked for anything yet, and no session is cached. *)
LEMMA TeamInitInv == TeamInit => TeamInv
<1> SUFFICES ASSUME TeamInit PROVE TeamInv
  OBVIOUS
<1>1. /\ now = 0 /\ members \in InitialRoles /\ invited = [u \in Users |-> ""]
      /\ alive = [u \in Users |-> TRUE] /\ cached = [u \in Users |-> NoEntry]
      /\ keyStatus \in [Keys -> {"", "active"}] /\ ask = [a \in Asks |-> NoAsk]
      /\ changed = [u \in Users |-> 0]
      /\ crossed = [swap |-> FALSE, demoted |-> FALSE, slow |-> {}, keys |-> {}, revoked |-> {}]
  BY Zenon DEF TeamInit
<1>2. members \in [Users -> Member] /\ Cardinality(Owners) = 1 /\ IsFiniteSet(Users)
  BY <1>1, TeamAssumption, Zenon DEF Owners, Member
<1>3. -1 \in Int /\ 0 \in Nat /\ 0 <= 0 /\ 0 \in Int
  BY SMT
<1>4. -1 <= 0 + CacheTtl
  BY TtlNatural, SMT
<1>5. NoEntry \in [role : Member, until : Int] /\ NoEntry.until = -1
  BY <1>3, Zenon DEF NoEntry, Member
<1>6. NoAsk \in Asked /\ NoAsk.pc = "new" /\ NoAsk.op = ""
  BY Zenon DEF NoAsk, Asked, AskPcs, Status, Member
<1>7. crossed \in Crossings /\ crossed.revoked = {}
  BY <1>1, Zenon DEF Crossings
<1>8. AskSound(NoAsk) /\ Fits(NoAsk, members, alive, crossed)
  BY <1>6, Zenon DEF AskSound, Fits, UserOps, KeyOps, Transfers
<1> HIDE DEF NoEntry, NoAsk
<1>9. TeamTyped
  <2>1. keyStatus \in [Keys -> Status]
    BY <1>1, Zenon DEF Status
  <2>2. /\ now \in Nat /\ invited \in [Users -> InviteRoles \cup {""}]
        /\ alive \in [Users -> BOOLEAN] /\ cached \in [Users -> [role : Member, until : Int]]
        /\ ask \in [Asks -> Asked] /\ changed \in [Users -> Nat]
    BY <1>1, <1>3, <1>5, <1>6, Zenon
  <2> QED
    BY <1>2, <1>7, <2>1, <2>2, Zenon DEF TeamTyped
<1>10. AsksFit
  BY <1>1, <1>8, Zenon DEF AsksFit
<1>11. Sole(members)
  <2>1. IsFiniteSet(Owners)
    <3>1. Owners \in SUBSET Users
      BY Zenon DEF Owners
    <3> QED
      BY <1>2, <3>1, FS_Subset, Zenon
  <2>2. PICK o : Owners = {o}
    BY <1>2, <2>1, FS_Singleton, Zenon
  <2>3. o \in Users /\ members[o] = "owner"
    <3>1. o \in Owners
      BY <2>2, Zenon
    <3> QED
      BY <3>1, Zenon DEF Owners
  <2>4. ASSUME NEW u \in Users, members[u] = "owner" PROVE u = o
    <3>1. u \in Owners
      BY <2>4, Zenon DEF Owners
    <3> QED
      BY <2>2, <3>1, Zenon
  <2> QED
    BY <2>3, <2>4, Zenon DEF Sole
<1>12. CacheFits(cached, alive, members, changed, crossed, now)
  <2>1. ASSUME NEW u \in Users
        PROVE  /\ cached[u].until <= now + CacheTtl /\ changed[u] <= now
               /\ cached[u].until <= changed[u] + CacheTtl
    BY <1>1, <1>3, <1>4, <1>5, <2>1, Zenon
  <2> QED
    BY <2>1, Zenon DEF CacheFits
<1>13. KeysFit(keyStatus, crossed)
  BY <1>7, Zenon DEF KeysFit
<1> QED
  BY <1>9, <1>10, <1>11, <1>12, <1>13, Zenon DEF TeamInv, OwnerFits

(* Every step keeps the invariant. *)
LEMMA TeamNextInv == TeamInv /\ [TeamNext]_teamVars => TeamInv'
<1> SUFFICES ASSUME TeamInv, [TeamNext]_teamVars PROVE TeamInv'
  OBVIOUS
<1>1. ASSUME NEW a \in Asks, NEW u \in Users, NEW t \in Users, NEW op \in {"role", "invite"},
             NEW r \in GivenRoles, Request(a, u, op, t, r)
      PROVE  TeamInv'
  BY <1>1, RequestKeeps, Zenon
<1>2. ASSUME NEW a \in Asks, NEW u \in Users, NEW t \in Users,
             NEW op \in {"cancel", "remove", "transfer"}, Request(a, u, op, t, "")
      PROVE  TeamInv'
  BY <1>2, RequestKeeps, Zenon
<1>3. ASSUME NEW a \in Asks, NEW u \in Users, NEW k \in Keys,
             NEW op \in {"create key", "rotate key", "delete key"}, Request(a, u, op, k, "")
      PROVE  TeamInv'
  BY <1>3, RequestKeeps, Zenon
<1>4. ASSUME NEW a \in Asks, NEW u \in Users, NEW k \in Keys,
             NEW s \in {"", "active", "revoked"}, Request(a, u, "patch key", k, s)
      PROVE  TeamInv'
  <2>1. s \in Status
    BY <1>4, Zenon DEF Status
  <2> QED
    BY <1>4, <2>1, RequestKeeps, Zenon
<1>5. ASSUME NEW a \in Asks, AuthHit(a) \/ AuthMiss(a) \/ AuthStore(a) PROVE TeamInv'
  BY <1>5, AuthHitKeeps, AuthMissKeeps, AuthStoreKeeps, Zenon
<1>6. ASSUME NEW a \in Asks,
             Invite(a) \/ ReadForRole(a) \/ ReadForRemoval(a) \/ CountOwners(a) \/ LibraryCall(a)
      PROVE  TeamInv'
  BY <1>6, InviteKeeps, ReadForRoleKeeps, ReadForRemovalKeeps, CountOwnersKeeps, LibraryCallKeeps, Zenon
<1>7. ASSUME NEW a \in Asks, ReadTarget(a) \/ ReadActor(a) \/ Swap(a) PROVE TeamInv'
  BY <1>7, ReadTargetKeeps, ReadActorKeeps, SwapKeeps, Zenon
<1>8. ASSUME NEW a \in Asks, CreateKey(a) \/ ReadKey(a) \/ WriteKey(a) \/ RevokeKey(a) PROVE TeamInv'
  BY <1>8, CreateKeyKeeps, ReadKeyKeeps, WriteKeyKeeps, RevokeKeyKeeps, Zenon
<1>9. ASSUME NEW u \in Users, SignOut(u) \/ Accept(u) PROVE TeamInv'
  BY <1>9, SignOutKeeps, AcceptKeeps, Zenon
<1>10. CASE TeamTick
  BY <1>10, TickKeeps, Zenon
<1>11. CASE UNCHANGED teamVars
  <2>1. UNCHANGED <<now, members, invited, alive, cached, keyStatus, ask, changed, crossed>>
    BY <1>11, Zenon DEF teamVars
  <2>2. TeamTyped' /\ AsksFit'
    BY <2>1, Zenon DEF TeamInv, TeamTyped, AsksFit
  <2> QED
    BY <2>1, <2>2, Zenon DEF TeamInv
<1> QED
  BY <1>1, <1>2, <1>3, <1>4, <1>5, <1>6, <1>7, <1>8, <1>9, <1>10, <1>11, Zenon DEF TeamNext

(* So it always holds. *)
LEMMA TeamInvariant == TeamSpec => []TeamInv
  BY TeamInitInv, TeamNextInv, PTL DEF TeamSpec

(* Theorem: members, sessions, keys and what requests act as keep their    *)
(* types.                                                                  *)
THEOREM TeamTypes == TeamSpec => []TeamTypeOK
<1>1. TeamInv => TeamTypeOK
  <2> SUFFICES ASSUME TeamInv PROVE TeamTypeOK
    OBVIOUS
  <2>1. TeamTyped
    BY DEF TeamInv
  <2>2. \A u \in Users : cached[u].role \in Roles \cup {""}
    BY <2>1 DEF TeamTyped, Member
  <2>3. \A a \in Asks : ask[a].as \in Roles \cup {""}
    BY <2>1 DEF TeamTyped, Member, Asked
  <2> QED
    BY <2>1, <2>2, <2>3, Zenon DEF TeamTyped, TeamTypeOK, Member, Status
<1> QED
  BY <1>1, TeamInvariant, PTL

(* Theorem: the tenant has one owner, however many requests there are,     *)
(* unless a transfer overlapped or the library demoted the owner.          *)
THEOREM OneOwner == TeamSpec => []SoleOwner
<1>1. TeamInv => SoleOwner
  BY SoleCounts, Zenon DEF SoleOwner, Calm
<1> QED
  BY <1>1, TeamInvariant, PTL

(* Theorem: for every ttl, a lost role or session is used no longer than   *)
(* that, unless a request was loading it.                                  *)
THEOREM LostRoleRunsOut == TeamSpec => []RoleEndsWithCache
<1>1. TeamInv => RoleEndsWithCache
  BY Zenon DEF TeamInv, CacheFits, RoleEndsWithCache
<1> QED
  BY <1>1, TeamInvariant, PTL

(* Theorem: a revoked key stays revoked, whatever overlaps with its        *)
(* revocation, unless a request to make it active had read it before.      *)
THEOREM RevokedKeysStay == TeamSpec => []RevokedStays
<1>1. TeamInv => RevokedStays
  BY Zenon DEF TeamInv, KeysFit, RevokedStays
<1> QED
  BY <1>1, TeamInvariant, PTL

===============================================================================
