# open-llm-proxy in TLA+

Specifications of open-llm-proxy, a multi-tenant LLM gateway on Cloudflare
Workers: one Worker serves the dashboard API and the OpenAI-style endpoints, D1
(SQLite) holds what must last, four kinds of Durable Object hold hot state, a
KV namespace caches sessions, and a cron trigger evaluates alerts. A request is
answered by one Worker invocation; work that may finish after the answer runs
under `waitUntil`. There are no transactions over several awaits: everything a
handler read may have changed when it writes. That is where the hard behaviours
of this code lie and what these modules are about.

## The parts and what makes them correct

| part (`src/`) | state | operations | hard part | what must hold | module |
|---|---|---|---|---|---|
| Metrics pipeline (`metrics/collector.ts`, `durable/metrics-buffer.ts`) | rows in the object's SQLite, its alarm, `request_metrics` in D1 | `pushMetric` with fallback, push, flush, alarm | other handlers run while a flush awaits D1; a flush fails after or before D1 committed; eviction; bounded alarm retries | accepted rows are never lost or forgotten, counted once | `MetricsBuffer`, `MetricsLedger` |
| Spend guard (`metrics/spend-guard.ts`, `api/usage.ts`, PATCH in `api/keys.ts`) | `spendLimits`, `spendDisabledUntil` in `tenant_settings`, `api_keys.spend_disabled_until` | block check, guard after a paid request, reconciliation after a change of limits or cap | reads spend that lags behind; guards, saves and midnights overlap | blocks are justified, end with their window, last until then | `SpendGuard` |
| Tenant settings (`db/tenant.ts`) | `tenant_settings` rows | read all, write all | lost updates between any two saves | no save undoes another | `SpendGuard` |
| Rate limiter (`llm/rate-limit.ts`, `durable/rate-limiter.ts`) | token buckets | check, peek, forced settlement | two buckets charged side by side; buckets in debt; changed limits | what is admitted in a time is bounded; the wait that is told is long enough | `RateLimits` |
| Tenant secrets (`tenants/encryption.ts`, `llm/credential-store.ts`, `bootstrap/secrets.ts`, `db/settings.ts`, `api/provider-config.ts`) | KEK, wrapped data keys, ciphertexts | resolve both keys, save, list and delete credentials | concurrent first uses; read-merge-write saves; failures that are remembered | what was stored can be decrypted; the keys saved last are kept | `TenantSecrets` |
| Bootstrap and prefixes (`bootstrap/*`, `tenants/*`, `api/tenant.ts`, `api/bootstrap.ts`) | users, organizations, prefixes, `system_settings` | seed, sign up, assign, choose, rotate the initial password | crash between batch and settings; concurrent first requests | one root tenant, whole tenants, unique prefixes | `TenantDirectory` |
| Team and keys (`api/team.ts`, `api/keys.ts`, `middlewares/*`) | members, roles, keys, cached sessions | invite, change role, remove, transfer, create, patch, rotate, revoke | checks before writes; roles cached for 60 s | one owner; a revoked key stays revoked; a lost role ends with its cache entry | `TeamAndKeys` |
| Alerts (`alerts/*`, `api/alerts.ts`) | `alert_events`, webhooks | check, mails, deliveries, cooldown | overlapping and broken checks, webhooks changed meanwhile | tried once per level and cooldown, nobody passed over | `AlertChecks` |
| Provider access (`llm/v1-provider.ts`, `llm/google-oauth.ts`) | rotation cursor, token cache | request with rotation and failover, token refresh | retries, expiry | each key at most once; no expired token | `ChatRequests`, `TokenCache` |
| Chat requests (`requests/chat_completions_v2.ts`, `llm/policy.ts`) | the request's locals | block check, target, policy, limits, cache, one of three routes, records | everything read may have changed; streams end in three ways | recorded and traced exactly once, never twice; sent only where allowed | `ChatRequests` |
| Protocol adapters (`llm/google-direct-adapter.ts`, `llm/openai-adapter.ts`) | a stream's content | convert histories and answers, whole or streamed | state only in what the client sends back; pieces of calls | well-formed contents; calls come back with their name and signature | `ToolDialog` |
| Stream transforms (in `chat_completions_v2.ts`, `tracing/collector.ts`) | tail and capture | transform, flush, cancel | chunk boundaries, broken and cancelled streams | usage found once; the trace tells what it left out | `StreamCapture` |
| Response cache (`durable/response-cache.ts`, `llm/response-cache.ts`) | cached bodies | get, put | expiry, delayed and lost puts | nothing past its ttl | `AnswerCache` (time), `ChatRequests` (content) |
| Models and embeddings (`requests/models_v2.ts`, `requests/embeddings_v2.ts`) | none of their own | list models, embed | checks of their own beside those of chat | what is listed passes chat's lists; sent only where allowed | `ModelsAndEmbeddings` |

Interactions: chat completions ask the block flags, the rate limiter and the
response cache before the provider, and start recording, the spend guard and
token settlement afterwards, side by side. The guard, the usage pages and the
alert evaluator read `request_metrics`, which only the metrics pipeline writes.
Guard, limits API and alert configuration all write through
`TenantService.updateSettings`. Providers' keys come from the credential store,
which every list of providers and models decrypts. Where these interactions
carry a hazard they are modelled together: `SpendGuard` over the ledger of the
pipeline and with every writer of the settings rows, `ModelsAndEmbeddings` over
the configurations and the cursor of `ChatRequests`. `PROJECT.json` lists every
part with its status and every hazard at its line.

## Modules

### MetricsLedger: what the pipeline promises

Three sets of rows: `pending` (accepted, not in D1), `delivered` (in D1 through
the buffer), `direct` (written to D1 by a caller whose push failed). A row is
accepted once, leaves `pending` only into `delivered`, and nothing ever leaves
D1. Duplicates (`delivered \cap direct`) are allowed, because the code makes
them. `SpendGuard` is built over this ledger and `MetricsBuffer` implements it.

### MetricsBuffer: the pipeline

| variable | code |
|---|---|
| `call[m]` | where `pushMetric` stands with metric `m`: `flushing` inside the push route's flush, `ok` answered, `fallback` about to `insertDirect`, `recorded`, `lost` both ways failed |
| `buffer` | rows of `metrics_buffer` in the object |
| `alarm`, `retries` | the object's alarm; how often the platform has retried it |
| `flusher[h]` | the flush that handler `h` (a push, the alarm, `/flush`) is in: `batch` while `DB.batch` runs, `delete` before it resumes |
| `inflight` | batches sent by handlers that were evicted |
| `flushed`, `direct` | `request_metrics`, by origin |

A Durable Object runs one event at a time, and lets another in only at an await
on something outside its storage. So a push (`INSERT`, `getAlarm`, `setAlarm`,
`size`, the flush's `SELECT`) is one step; D1's commit is one; the `DELETE` with
the alarm's `setAlarm` is one. `FlushFails` covers a batch that was executed
and reported as failed. `Evict` ends all handlers, may cut a push between its
INSERT and `setAlarm`, and leaves D1 to execute what was sent. Eviction,
alarm re-delivery and D1 are external: they are modelled from what the code
relies on.

### SpendGuard: limits, blocks and the settings they share

Every await of `maybeDisableAfterSpend`, `reconcileTenantDisable`,
`reconcileKeyDisable`, `updateSettings` and the routes that call them is a step
boundary. `task[t]` is a request (block check, then its guard) or a dashboard
call (PUT limits, PUT alert settings, PATCH key): `pc` names the step it comes
to, the other fields are the handler's locals (`at` its `now`, `until` its
`disabledUntil`, `snap` what `updateSettings` read). Locals a handler no longer
uses are forgotten, which keeps the state space small and changes no step.
`settings.flagRow` says whether the row `spendDisabledUntil` exists, since
`updateSettings` writes back just the rows it read. A paid request costs 1, so
a limit is a number of requests; a limit of 0 is no limit, as in the code. The
clock is in seconds; where days and months end is given by two constant functions
of which only `IsWindow` is assumed, so months may differ in length.
`limitsSeen` and `capsSeen` are history, read by properties only.

`spendBlockReason` is exported but nothing in `src/` calls it; the check that is
modelled (`CheckBlocks`) is the one `chatCompletionsV2` makes itself.

### The way of a request: seven modules side by side

`MCGateway` puts `RateLimits`, `ToolDialog`, `StreamCapture`, `TokenCache`,
`AnswerCache`, `ChatRequests` and `ModelsAndEmbeddings` side by side. Only the
last two share state (the second extends the first). A behaviour has one
component in focus and the others rest in one initial state, so that TLC
explores the sum of the state spaces; no behaviour of a component is lost by
this, because none of its guards looks at another's variables.

**RateLimits.** `buckets[b]` is a row of the RateLimiter object, in parts of a
token (a rate of n per minute refills n parts a tick). `Refilled` uses the capacity
and the rate stored with the row, `Short` and `StoreCharge` those of the call, as
`handleCheck` does. `turn[r].open` are the calls of `Promise.all` that have not
reached the object yet: `CheckRefused`, `CheckCharged`, `CheckPeeked` and
`CheckFails` run in any order, also after the request has been refused or has
failed. `Settle` is the forced charge with the limits the request had read.
`window` is history: what each bucket let through since an arbitrary tick.

**TokenCache.** One entry for each `client_email`. `caller[c].now` is the
clock reading before the assertion is signed; `ends` is when Google lets the
token expire, known to the model only. Calls overlap and answers take as long as
they like.

**AnswerCache.** The rows of the object, the puts on their way (`puts`:
delayed, reordered, lost), `putAt` as history. `expires` is computed when the
object handles the put, and an expired row is deleted by the get that finds it.

**StreamCapture.** A body is a sequence of units, the two halves of a line
with usage or anything else, so that a chunk may end inside a line. `tail` is
what `usageCapturingTransform` keeps, `capture` what `textCaptureTransform`
keeps, `between` the chunks queued between the two. The three ends are the
provider's close, its break and the client's cancel. External: the runtime
tells a transform of its end once, by flush or by cancel.

**ToolDialog.** `history` is the client's list of messages, the only state
between turns. `GoogleContents` is `convertMessagesToGoogleFormat`, `PiContext`
is `toPiContext`, `WholeAnswer` is `convertToAssistantMessage`, `StreamPart` one
part in `streamGenerateContent`. Ids are records of what `encodeToolCallId` puts
into them. The client may drop the signature field, the tool's name or the
result's text, and may send to Google and to a pi-ai provider in turns. `Texts` are the texts,
names, arguments and signatures there may be. What a client opens with is `Orderly`,
as OpenAI demands: an answer's calls are followed by their results, in order, and
each result names its call, by itself or in its id. The adapters rely on this and do
not check it. `made` is history: what the calls of an answer must come back as, with their
arguments for a whole answer and without any for a streamed one, whose arguments the client
is sent more than once (`CallsReturnSigned`, and the observations below).

**ChatRequests.** `chat[r]` is a request: `key` and `body` as inputs, `to` the
target that `TargetOf` resolves, `config` the provider row read, `untried` the
keys still to be tried, `records` and `traces` what it wrote. The three routes
(Google direct, pi-ai, OpenAI-compatible) are told apart where they differ:
`CallAdapter` for the first two, `SendFails`, `TryNextKey`, `SendSucceeds`, `BodyBreaks` and
`StreamEnds` for the third, `CacheHit`, `CacheMiss`, `LookupBreaks` and `PutCached` where a
route uses the cache. `LookupBreaks` and `BodyBreaks` are the awaits outside any `try`
(`getCachedResponse`, `upstream.text()`): a request they break is `broken`, answered 500
with neither metric nor trace. `cursor` is the parity of the isolate's rotation
counter. Settings and configurations change at any time a request may still
read them. Block flags, limits and spend are in the modules of their own.

**ModelsAndEmbeddings.** `client[c]` is a call of one of the two handlers.
`ListsProvider` and `ModelsOf` are the filters of `models_v2.ts`,
`EmbeddingRefused` those of `embeddings_v2.ts`. A provider may be configured under an alias
(`google` beside `google-ai-studio`); the list names it by its canonical name, and chat and
embeddings look up the canonical name only.

### Behind the dashboard: four modules side by side

`MCOperations` does the same for the four components below, which share no
state at all. Every await of a handler is a step boundary, and a call may fail
at each.

**TenantSecrets.** `master`, `dekRow` and `config[p]` are rows; `memo[i]` is the
promise that isolate `i` keeps of the master key, which a failure leaves
failed; `action[c]` is a dashboard call with its locals (`dek` the opened key,
`seen` the row read). A row has an id, given when it is inserted, because the
save's UPDATE names the id it read: a row deleted and made anew meanwhile is not
overwritten. A key is named for the call that made it. External: D1
executes a single statement atomically; AES-GCM decrypts with the key it
encrypted with and with no other.

**TenantDirectory.** `orgs[c]` is the organization that call `c` made,
`booted[i]` the bootstrap promise of isolate `i`, `visit[c]` a request on its
way through seeding, sign-up, prefix choice or password rotation. `mishaps` is
history: a seeding call that failed after its batch, a sign-up that overtook
it. `seeded.rotated` is history too: a rotation that gave the current password has written a
new one, which may be the same.

**TeamAndKeys.** `members` and `keyStatus` are the rows, `cached[u]` the KV
entry of a session. `as` is the role a request acts in, fixed when it was
authenticated. External: better-auth carries out invitations, removals and
changes of role, or refuses; KV drops an entry at its ttl. `crossed` is history:
which overlaps there were.

**AlertChecks.** `check[r]` is a run of the cron trigger: the kind it evaluates,
whom it still has to mail or post to, whom it has posted to. `lastEvent` is
the newest row of `alert_events` for a kind and level, with its status; `recentEvent` does
not look at the status. `failed` are deliveries that failed and are not recorded yet.
`tried` and `since` are history: when a delivery to somebody was tried, and when what
somebody is to be sent last changed.
Amounts and rates are what an evaluation finds.

## Runs

| run | question | bounds | answer |
|---|---|---|---|
| `metrics_buffer` | Are accepted rows kept, delivered and never forgotten, and is the ledger implemented? | 3 metrics, threshold 2, batch limit 2, one failure, one alarm retry | yes |
| `metrics_buffer_one_row` | Does D1 hold at most one row per metric? | the same | no: finding |
| `metrics_buffer_rearm` | Does the alarm go on while rows remain? | two failures, one retry | no: finding |
| `spend_guard` | Is every block of the tenant and of a key justified? | 2 requests with one key, 1 dashboard call, 3 days over the end of a month, caps of 0 (none) and 1 | yes, a key's by the tenant's spend |
| `spend_guard_key` | Is a key blocked only for its own requests? | 2 requests with one key and 1 with another, caps of 2, no limits | no: finding |
| `spend_guard_live` | Does a guard that sees the daily limit reached get the tenant blocked? | 1 request, 1 dashboard call of any kind, one failure, days of 2 s | yes |
| `gateway` | For each component on the way of a request: limits, conversations, streams, tokens, cached answers, chat requests, lists of models and embeddings? | below | yes |
| `gateway_bound` | Is a request of a bound key answered by its provider only? | 2 requests, two keys bound to two providers, one body | no: finding |
| `operations` | For each component behind the dashboard: secrets, tenants, members and keys, alerts? | below | yes |
| `operations_keys` | Can what was stored always be decrypted? | 3 calls, 2 isolates | no: finding |
| `spend_guard_block_lost` | Does a block last until its window ends when nobody changes limits? | 2 requests, no dashboard call | no: finding |
| `spend_guard_crossing` | Does the request that crosses the limit get the tenant blocked? | 2 requests, no dashboard call | no: finding |

Why the bounds are enough. `metrics_buffer`: with a threshold and a batch limit
of 2, three metrics let two pushes flush at the same time, overlap with the
alarm's and a requested flush, leave a row over, and pass over the row that started the flush
(the third has an older timestamp). One failure is below the retries, so
`AcceptedReachesD1` may be asked; the case of more failures than retries is
the `rearm` run's and, for every number, the theorems'. `spend_guard`: two
guards and a save are the least with which a save undoes a guard that undoes a
guard; a daily limit of 1 and a monthly one of 2 are crossed by different
requests; the clock passes a month's end and a day's end inside a month. The key check counts
rows of earlier seconds only, so it takes a second request to disable the key, and
three seconds let a PATCH and its reconciliation fall before, between and after the two.
Failures are left to `spend_guard_live` and, for both properties, to the theorems.
`spend_guard_key` needs two requests of one key to reach the cap and one of the other to be
blocked for it.
`spend_guard_live` has one request only (it is about one guard and what a dashboard call
can do to it), which reaches the monthly limit with both its copies in D1. `r1` and `r2`
are interchangeable in `spend_guard` (same key, no liveness),
hence the symmetry.

`gateway`: two requests with one key share both request buckets, which is the
least with which concurrent charges meet; a capacity and a rate of 1 make the
first charge the last admitted, a minute of 2 ticks and 3 readings of the clock
let one token refill in two steps, and an answer that uses 2 tokens puts the
token bucket in debt; two settings, one of them without request limits, change
between the calls. Conversations have three openings (plain, one with a blank
question after an answer, one with a call of another provider) and up to two
answers of four shapes, which cover signatures on the first part, the last part,
each call and none, and a tool called twice. Streams have up to seven units with
one or two lines of usage, chunks of up to three, a tail of 2 (so the buffer is
cut at 4) and a capture of 2: a usage line may be split by a chunk, by the cut
and lie too far from the end. Three token callers let a third take what the slower of two has
stored, with lifetimes below and above `TOKEN_TTL_SECONDS`. Two answers and two
ttls under one key let a later put shorten and lengthen the first. Two chat requests with
two keys (free; bound to vertex under its other name, with a model list), five bodies and six
providers, one of them an alias,
meet in the cache and at the cursor; each provider has up to two configurations that differ
in keys, mode and strategy. One client suffices for lists and embeddings, whose
hazards are changes of settings, not one another.

`operations` (about 1.6 million states): three credential calls on two isolates are two
that race and one that reads what they left; one provider with the validation
of Vertex, keys given, emptied or not sent. Three directory calls on two
isolates with two system prefixes and two tries: two seed or sign up and collide, the
third chooses a prefix or rotates the password, and candidates run out. Two users,
two requests and one key, in three sets of operations (invitations; roles,
removals and transfers; keys), since only operations within a set touch the same
rows; the ttl of 1 to 2 ticks lets an entry be loaded, used and outlived. One check at
a time with two kinds of alert that share a webhook event, one administrator,
one webhook and a cooldown of one hour in three, and every mail and post succeeds or fails; that two checks overlap is
excluded by the properties' premise (for any number of checks they are proved). `one` and `two` are both the isolates of
two modules and the requests of a third, interchangeable in each, hence one
permutation as symmetry.

`CHECK_DEADLOCK FALSE` everywhere: each metric, request and call happens once,
clocks are bounded, and the system then rightly stops.

### Findings

* **Counted twice.** A push whose threshold flush throws is answered with an
  error although its row is stored; `pushMetric` inserts it into D1 again under
  another id (`metrics_buffer_one_row`).
* **Alarm gives up.** `alarm()` sets itself again after the flush only; when
  D1 is down for longer than the platform retries, rows wait without an alarm for
  the next push (`metrics_buffer_rearm`). `StrandedOnlyByFailure` says exactly
  when this happens and is proved.
* **Block shortened.** Guards write the flag they computed, not the later of it and
  the stored one, so an earlier evaluation that writes late ends a block early
  (`spend_guard_block_lost`). A concurrent save of other settings does the same.
* **Crossing unseen.** The guard of the crossing request reads D1 before that
  request's metric has left the buffer (`spend_guard_crossing`). What does hold
  is `SeenCrossingBlocks`.
* **Blocked for another key.** A key's cap is compared with the spend of the whole tenant
  (`metrics/spend-guard.ts:102`), so one key's requests disable another, where
  `docs/design.md:484` speaks of per-key caps (`spend_guard_key`). What does hold, and is
  proved, is `KeyBlockJustified`: the tenant's spend in D1 has reached a cap the key has had.
  It counts caps that have been replaced, because a guard works with the cap its request was
  authenticated with and may disable a key again after its cap was raised.
* **Cache across providers.** The key of the response cache is the body as sent,
  without the provider and model it resolves to
  (`requests/chat_completions_v2.ts:404`); two keys bound to different providers
  that send the same body share an answer, although "the key then only ever
  routes to that provider" (`:224-225`; `gateway_bound`).
* **Two data keys.** Two first uses of a tenant's data key each make one, and the
  second put overwrites the first (`tenants/encryption.ts:141`): what the first encrypted
  cannot be decrypted any more (`operations_keys`). `SoleUseDecryptable` says that
  this race is the only way, and is proved.

### Observations

Met while modelling; no run is about them, because no statement in the
repository contradicts them or because they need no model checker.

* Embeddings never check that the provider named in the body is the one the
  key is bound to (`requests/embeddings_v2.ts:36-45`), and are not metered, limited or
  blocked. The definition `EmbeddedByBoundProvider` is false of the model.
* A key bound to a provider that its own list lacks sees that provider's models
  listed and is refused by chat; a key whose list of providers is present and
  empty sees none and may use all.
* The pi-ai route sends neither tools nor sampling options: they are built
  (`requests/chat_completions_v2.ts:652-672`) and not passed on.
* A streamed call's arguments are sent with its start, as a delta and with its
  end; a client that concatenates them gets text that does not parse, which the
  adapters then take for `{}`: `CallsReturnSigned` demands that streamed calls come back
  with their names and signatures and no arguments. Streams cut off at the token limit report "stop".
* The token cache is keyed by `client_email` only, so a rotated private key
  goes on with the old token until it expires.
* The OpenAI-compatible route reads the provider's body, and every route the cache, outside
  any `try` (`requests/chat_completions_v2.ts:489, 676, 896, 949, 973`). If that breaks the
  request is answered 500 with neither metric nor trace, even when the provider has
  completed it. `RecordedOnce` says that this is the only way a provider's answer goes
  unrecorded, and that it takes a body that is not streamed.
* Rotating the initial administrator's password asks for the current one and 12 characters
  (`api/bootstrap.ts:33`), not for another one: the default password may be "changed" to
  itself, which clears the must-change flag. `FlagClearedByRotation` promises no more.
* A mail or a webhook that fails is recorded as an event like one that was sent, and
  `recentEvent` does not ask for the status (`alerts/evaluator.ts:59-84, 147-181`): the
  recipient it failed for is not tried again until the cooldown is over.
  `HeldBackIfTried` speaks of what was tried.
* A model is listed under the canonical name of its provider whatever name that is
  configured under, and without a key: chat refuses it if only an alias is configured or
  no key is there (`requests/models_v2.ts:222`, `requests/chat_completions_v2.ts:283-301`).
  `ListedModelsAllowed` is about names and lists only.
* A tool that is called twice is two calls in a whole answer and one in a stream, which
  merges by name. `StreamAgrees` compares a stream with the merged calls.
* Two overlapping saves of a provider lose one another's keys; two overlapping saves of
  tenant settings the earlier one's values (`llm/credential-store.ts:175`, `db/tenant.ts:139`).
* One failed read of the master key is kept by the isolate's memoized promise and fails
  all its later requests (`bootstrap/secrets.ts:23`). PUT limits that dies before its
  reconciliation leaves the old block in place.
* Two checks of the alerts that overlap both deliver.
* A PATCH or rotation that read a key before it was revoked writes over the revocation
  (`api/keys.ts:355`). `RevokedStays` names these writes as its exception.
* A save of a provider without `enabled` enables it.
* A bucket remembers the rate of its last charge; after the rate was raised, a
  refused caller may be told too short a wait (the premise of `RetryAdmitted`). A token bucket
  in debt is outside that property: the wait told is for one token only.
* A sign-up on another isolate during the seeding can claim the root path;
  a seeding that dies after its batch is never completed, because there is a user.
* Two transfers that overlap leave two owners; a transfer that overlaps the
  removal of its target leaves none (`api/team.ts:423`). `SoleOwner` names these
  cases as its only exceptions.
* Signing out leaves the cached session for up to a minute: nothing calls
  `invalidateSessionCache`. Rotating a revoked key reactivates it; of two
  concurrent rotations one returns a secret that never works.
* A PATCH of a webhook with an `url` alone clears its events
  (`api/alerts.ts:113-128`). A check that breaks after its first mail leaves
  webhooks untold until the cooldown ends. An error rate that moves is a new
  level each time and is told again.

### Fairness

`MetricsBuffer`: weak fairness of each handler's completed flush (D1 answers
in the end, and the object resumes a handler whose await is over) and of the
alarm (the platform runs an alarm that is set). No fairness for pushes,
flush requests, failures or evictions. `SpendGuard`: weak fairness of each started task
(`waitUntil` keeps the invocation alive for it); none for new requests, for the
pipeline, for the clock, or for failures. The modules of `MCGateway` and
`MCOperations` state safety only: their handlers end by returning, and what a
client or an administrator does next is up to them.

## Proofs

`MetricsBufferProofs` proves for every value of the constants (any
number of metrics, thresholds, retries and failures; the assumptions are those of
`MetricsBufferAssumption`):

* `TypeCorrect`: types, among them that retries stay within their bound.
* `AcceptedNeverLost`. The property is not inductive alone: the DELETE is safe
  because what a flush is about to delete is in D1 already, and D1's commit is
  safe because what a flush read is in the object or in D1. `RowInv` adds this
  (`RowsAccountedFor`, which also covers batches of evicted handlers), that an
  unhandled metric has left no row, and that a push inside its flush is
  unanswered.
* `PipelineImplementsLedger`: from the same invariant every step is a step
  of the ledger or leaves it alone (`StepRefines`, with one lemma for rows
  that become visible and one for a row that is accepted).
* `NeverForgotten`: `StrandInv` adds that the platform's retries never exceed
  the failures there have been; the retries then run out only after more than
  `MaxRetries` failures.

`SpendGuardProofs` proves for every value of the constants (any number of
requests, dashboard calls and failures, any limits, and days and months of any
length that satisfy `IsWindow`; only the set of requests has to be finite, so that
spend is a number):

* `TypeCorrect`. Inductive with `TypedTasks`: a task's clock, limits and snapshot
  have been set when it comes to a step that uses them.
* `BlocksJustified`. A block is stored long after it was computed, and may be
  stored again by a save that read it, so the invariant is about flags wherever they are:
  `JustifiedFlags` are the values that may be stored now, and `SoundTasks` says that
  every flag a task has computed or read is one of them and that the limits it works
  with have been the tenant's. `JustifiedGrows` is the heart: a justified flag
  stays justified while rows and limits are added and the clock moves on, because within
  its window the window is the same one, and after it the flag has run out. From it a
  task that does nothing stays sound (`SoundGrows`); `WindowJustified` shows that a
  flag computed for the task's own clock is justified at the present one. Each action then
  has to show of its own task only that it goes on to a sound state.
* `KeyBlocksJustified`, on top of the same invariant. `KeyTasks`: the cap a task works
  with has been its key's, and a guard about to disable a key has found it reached;
  `CappedGrows`: a cap once reached stays reached, since rows only appear and the
  guard's clock is never ahead, so it does not matter how late the write comes. The spend is
  the tenant's, as in the code.
* `GuardsOverLedger`: every step of `SpendGuard` moves rows as `MetricsLedger` allows or
  moves none. With `PipelineImplementsLedger` this joins the two halves at the ledger: what is
  proved of the guards needs no more of the pipeline than what the pipeline implements.

`RequestProofs` proves of the two caches, for any keys, answers, ttls and
lifetimes, any number of overlapping calls and any loss and delay:

* `AnswerTypes`, `CacheServesFresh`. That the answer served was fresh is not inductive,
  since it speaks of the past; `AnswerInv` adds that each row is as its put left it
  (expiry = time of the put + its ttl) and that an answer on its way has not been
  put yet.
* `TokenTypes`, `CachedTokenLives`. `TokenInv` adds that no entry promises more than
  Google grants, and that an issued token was issued no earlier than the clock
  reading it will be counted from; this is why reading the clock first is safe.

and of the rate limiter, for any requests, keys, limits and changes of limits:

* `RateTypes`; `WindowNeverExceeded`. `RateInv` adds that a bucket's level and the
  rate it refills with never exceed the largest capacity and rate, and that what was
  charged within the window plus what is left does not exceed what was
  there and was refilled. It holds with forced settlements and with any mixture
  of old and new limits.
* `WaitIsLongEnough`: division and the cap at the capacity, for all numbers.

and of chat requests, lists of models and embeddings, for any requests, keys, bodies,
settings and configurations:

* `ChatTypes`, `CatalogTypes`; `ChatRecordedOnce`, `ChatCompletedOnce`, `ChatSentWhereAllowed`,
  `CacheOfCompletions`, from one invariant. `Counted` says by where a request stands
  what it has sent and recorded: what was sent and the keys not yet tried are
  together no more than the keys there are, only a request that reached its end
  has a record (one whose read broke has none), and one that completed has nothing left to try. `Permitted`: what a
  request was checked for when it was named, and again for its model once the
  configuration is read, is not changed by any later step of its own, and the
  settings it was checked with are its copy. `ChatMoves` reduces each action to its
  own request.
* `CatalogListedAllowed`, `CatalogEmbeddedWhereAllowed`: `CallsSound` carries the
  checks passed from the step that makes them to the steps after it. Of names it is only
  assumed that a canonical name is its own (`CatalogAssumption`); providers may be
  configured under any.

`TenantProofs` proves of the secrets, for any calls, isolates, providers and inputs:

* `SecretTypes`; `OneMasterKey`: each isolate has one call that asks for
  the master key (`OneAsks`), and whoever is past the insert finds the row there.
* `StoredDecryptable`: without the race there is at most one maker of a data key
  (`OnePuts`), and every data key a call has opened is the stored one.
* `KeysOfLastSave`: the row a save is about to merge into is the row that is
  there, or the save will not write, or it is recorded as overlapping.
* `VertexComplete`: what passed validation is still what will be stored when the
  save writes.

and of bootstrap and prefixes, for any calls, isolates and prefixes:

* `DirTypes`, `RootIsOne`, `PrefixUnique` (a chosen prefix is never one
  the system gives out, and both columns are unique).
* `SetUpIsWhole`, `FlagClearedOnlyByRotation`: at most one call seeds (`OneSeeds`), nothing is
  recorded before there is a user (`UsersFirst`), and each step of it has written what the steps
  before it should have (`SetUp`).

and of members and keys, for any users, keys, lifetimes of cached sessions and calls that
overlap; only the set of users has to be finite, so that owners can be counted:

* `TeamTypes`; `OneOwner`, `LostRoleRunsOut` and `RevokedKeysStay`, from one invariant. `Fits` says
  that what a request has read still holds, or that the change that broke it is
  recorded as crossing it: a role about to be cached is the member's, the target of a
  transfer is a member who is not the owner and its giver is, the target of a removal is
  not an owner. Until something has crossed there is exactly one owner (`Sole`), so the
  removal that counts owners finds no second one and ends (`CountOwnersKeeps`), and a
  transfer's two writes move the role.
  `CacheFits` says that no cached role outlives its change by more than the ttl.
  `ChangesFit` and `MembersChange` reduce each change of members to the users it is
  about.

`AlertProofs`, for any kinds, levels, administrators, webhooks and cooldown, and any
number of checks:

* `AlertTypes`; `TriedOnce` and `HeldBackOnlyFromTried`, from one invariant. As long as
  checks neither broke off nor overlapped there is one check at most (`Orderly`);
  no delivery was tried after the last event of a kind and level (`Noted`), and to whoever
  was to be sent it then one was tried, or what they are to be sent has changed since
  (`Tried`). `Sound` says of a check on its way that nothing was tried within the cooldown for those
  left to send to, and that it has tried the others, so that the event it records at the
  end is again one for which all have been tried. A webhook that is changed
  meanwhile changes whom `Tried` speaks of, hence the history of changes (`since`).
  Whether a delivery succeeds plays no part in the argument, as it plays none in
  `recentEvent`.

`DialogProofs` is about what passes between client and provider. Of the stream
transforms, for any body, any cutting into chunks, any ending and any bounds:

* `StreamTypes`; `UsageIsFound`: what is kept is always an end of what came, either all of
  it or at least as long as the bound, so the last whole line of usage is the last one
  of the body or lies out of reach (`UsageInv`).
* `CaptureIsFaithful`: the capture, the chunks between the two transforms and what the
  client saw are one after the other what came (`CaptureInv`).

Of conversations with tools, for any openings, any answers, whole or streamed in
any pieces, any number of turns and any mixture of the two providers:

* `DialogKeeps`: the invariant `DialogInv`. Everything a client sends back keeps
  the history `Orderly`, with calls that are `Known`: under the names and with the
  signatures some answer gave them (`HistoryInv`). That is so of whole answers (`WholeAnswerFaithful`) and of
  streamed ones (`StreamedFaithful`), whatever the client drops (`KeepsHistory`).
* `StreamTellsTheSame`: after every part the stream's calls are the first ones of
  each name, with arguments and signature that came for it (`StreamSound`,
  `StreamPartSound`).
* `ContentsAreWellFormed`: `convertMessagesToGoogleFormat` is a fold over the history.
  `Progress` describes its turns after each message: all turns but the last
  ones are settled (calls directly followed by their responses), and at most one
  message's calls are open, to be answered by the results that come
  next (`Opened`, `Owner`). At the end nothing is open, and the trimming of the front keeps
  the pairs whole (`TrimmedWellFormed`).
* `CallsComeBackSigned`: from the same descriptions of the two folds (`CallsKnown` for Google's
  contents, `PiSound` for pi-ai's, where each result finds its name among the
  calls before it).

The library's induction theorems take an operator as a parameter and cannot be used with
these backends. Two things take their place: a fold over a sequence has a run,
the function of its values after each index (`FoldRuns`), and what holds of a run at 0
and is passed on holds everywhere (`UpTo`), because every set of naturals has a
least element (`LeastNatural`, from well-foundedness as a statement about sets).

`GatewayProofs` and `OperationsProofs` carry all this over to the compositions the
runs check. Every behaviour of `MCGateway` and `MCOperations` is one of each component
that shares nothing (`GatewayIsEach`, `OperationsAreEach`: every step is a step of the
component or leaves it alone), so each invariant proved of a component holds there.
Chat requests share settings, configurations and cursor with lists and embeddings; their
two invariants hold together because neither side's steps disturb the other's
(`ChatsBesideCalls`, `CallsBesideChats`). `GatewayKeeps` and `OperationsKeep` state all
the invariants of the runs `gateway` and `operations`, `GatewayTypes` and `OperationsTypes`
the types.

Only model-checked: liveness (`AcceptedReachesD1`, `SeenCrossingBlocks`), because
fairness and ENABLED are beyond the proof system's backends used here.

## Not modelled

* The provider connection test (`llm/provider-test.ts`), the set-up of
  better-auth and the mail templates (`auth/*`, `email/*`): each calls a library or
  a provider once and words the result; they keep no state another part reads, but
  for the templates, which every new isolate overwrites with the built-in ones.
* The session manager (`durable/session-manager.ts`) is a placeholder that
  nothing calls.
* Routing, logging, the audit log, wording of errors and read-only endpoints;
  cryptography is assumed to do what it says.
* Tables of prices, providers and models are constants; costs are counted as one
  per paid request, so the arithmetic of estimates is not covered.
* Redaction and layout of traces; the capture and the single submission are modelled.
* The alert evaluator's loop over tenants: tenants share no row it reads.
* The dashboard is a client of the API; what it sends is among the handlers' inputs.

## What is left

1. `SeenCrossingBlocks` for a key's cap, as it is for the tenant's limits.
2. Two checks of the alerts in the `operations` run with a model of what their
   overlap may cost at most.
