------------------------------ MODULE RateLimits ------------------------------
(***************************************************************************)
(* The rate limits of one tenant: the token buckets of the RateLimiter     *)
(* object (durable/rate-limiter.ts) and the calls a chat request makes to  *)
(* them (llm/rate-limit.ts).  A request charges the tenant's and the key's *)
(* request bucket and peeks at the token bucket, all concurrently; after   *)
(* the answer the tokens really used are charged with force, which may     *)
(* leave the bucket in debt.                                               *)
(*                                                                         *)
(* The object handles one call at a time.  A bucket counts in parts: one   *)
(* token is Minute parts, so a rate of n per minute refills n parts a tick.*)
(***************************************************************************)
EXTENDS Integers, FiniteSets

CONSTANTS
  Turns,        \* chat requests
  TurnKeys,     \* API keys of the tenant
  RateSettings, \* values of settings.rateLimit, [rpm, burst, tpm], 0: not set
  Estimates,    \* max_tokens of a request, 0: none
  TokenUses,    \* tokens a request turns out to have used
  Minute,       \* ticks in a minute
  RateMaxTime,  \* bound: the last tick
  CapMax,       \* no request bucket has a larger capacity
  RateMax       \* nor a higher rate

OrgBucket == "requests:org"
TokenBucket == "tokens:org"
RequestBuckets == {OrgBucket} \cup TurnKeys
Buckets == RequestBuckets \cup {TokenBucket}

Greater(a, b) == IF a < b THEN b ELSE a
Lesser(a, b) == IF a < b THEN a ELSE b

ASSUME RateAssumption ==
  /\ CapMax \in Nat /\ RateMax \in Nat
  /\ RateSettings \subseteq [rpm : 0..RateMax, burst : 0..CapMax, tpm : Nat]
  /\ RateMax <= CapMax
  /\ Estimates \subseteq Nat /\ TokenUses \subseteq Nat
  /\ Minute \in Nat \ {0} /\ RateMaxTime \in Nat
  /\ OrgBucket \notin TurnKeys /\ TokenBucket \notin TurnKeys

VARIABLES
  tick,      \* the clock
  limits,    \* settings.rateLimit of the tenant
  buckets,   \* buckets[b]: the row of bucket b, or NoBucket
  turn,      \* turn[r]: where request r stands
  window     \* history: [at, spent], charges without force since an arbitrary tick

rateVars == <<tick, limits, buckets, turn, window>>

NoBucket == [tokens |-> 0, cap |-> 0, rate |-> 0, at |-> -1]

BucketRow == [tokens : Int, cap : Nat, rate : Nat, at : Nat]

Checks == {"org", "key", "tokens"}
TurnPcs == {"new", "checking", "refused", "error", "upstream", "settling", "done"}
Turn == [pc : TurnPcs, key : TurnKeys, limits : RateSettings,
         est : Estimates \cup {0}, open : SUBSET Checks, denied : SUBSET Checks]

RateTypeOK ==
  /\ tick \in 0..RateMaxTime
  /\ limits \in RateSettings
  /\ buckets \in [Buckets -> BucketRow \cup {NoBucket}]
  /\ turn \in [Turns -> Turn]
  /\ window \in [at : -1..RateMaxTime, spent : [Buckets -> Nat]]

RateInit ==
  /\ tick = 0
  /\ limits \in RateSettings
  /\ buckets = [b \in Buckets |-> NoBucket]
  /\ turn \in [Turns -> [pc : {"new"}, key : TurnKeys, limits : {limits}, est : {0},
                         open : {{}}, denied : {{}}]]
  /\ window = [at |-> -1, spent |-> [b \in Buckets |-> 0]]

-----------------------------------------------------------------------------
(* RateLimiter.handleCheck *)

(* Parts in a stored row after its refill up to time t: with the capacity  *)
(* and the rate stored by the last charge.                                 *)
Refilled(row, t) == Lesser(row.cap * Minute, row.tokens + (t - row.at) * row.rate)

Level(b, cap) == IF buckets[b] = NoBucket THEN cap * Minute ELSE Refilled(buckets[b], tick)

(* The limits a check of request r is made with. *)
BucketOf(r, c) ==
  CASE c = "org" -> OrgBucket [] c = "key" -> turn[r].key [] c = "tokens" -> TokenBucket

CapOf(lim, c) == IF c = "tokens" THEN lim.tpm ELSE Greater(lim.rpm, lim.burst)
RateOf(lim, c) == IF c = "tokens" THEN lim.tpm ELSE lim.rpm

(* A mutant that lets the last token be taken twice. *)
Short_OffByOne(b, cap, cost) == Level(b, cap) - cost * Minute < -Minute

Short(b, cap, cost) == Level(b, cap) - cost * Minute < 0

(* A mutant that tells every refused caller to come back at once. *)
RetryAfter_Once(rate) == 1

(* retryAfterSeconds, in ticks: the time one token takes at the call's rate. *)
RetryAfter(rate) == Greater(1, (Minute + rate - 1) \div rate)

Charged(b, cap, rate, cost) ==
  [tokens |-> Level(b, cap) - cost * Minute, cap |-> cap, rate |-> rate, at |-> tick]

StoreCharge(b, cap, rate, cost) ==
  buckets' = [buckets EXCEPT ![b] = Charged(b, cap, rate, cost)]

-----------------------------------------------------------------------------
(* checkRateLimits *)

ChecksOf(lim, est) ==
  (IF lim.rpm > 0 THEN {"org", "key"} ELSE {})
    \cup (IF lim.tpm > 0 /\ est > 0 THEN {"tokens"} ELSE {})

(* Streaming requests are not estimated: est = 0 for them. *)
StartChecks(r, est) ==
  /\ turn[r].pc = "new"
  /\ turn' = [turn EXCEPT ![r] =
       [@ EXCEPT !.pc = "checking", !.limits = limits, !.est = est,
                 !.open = ChecksOf(limits, est)]]
  /\ UNCHANGED <<tick, limits, buckets, window>>

(* One of the concurrent calls reaches the object: refused, or charged     *)
(* (the request buckets), or only looked at (the token bucket).            *)
CheckRefused(r, c) ==
  LET cost == IF c = "tokens" THEN turn[r].est ELSE 1
  IN  /\ c \in turn[r].open
      /\ Short(BucketOf(r, c), CapOf(turn[r].limits, c), cost)
      /\ turn' = [turn EXCEPT ![r] = [turn[r] EXCEPT !.open = @ \ {c}, !.denied = @ \cup {c}]]
      /\ UNCHANGED <<tick, limits, buckets, window>>

CheckCharged(r, c) ==
  LET b == BucketOf(r, c)  lim == turn[r].limits
  IN  /\ c \in turn[r].open \ {"tokens"}
      /\ ~Short(b, CapOf(lim, c), 1)
      /\ StoreCharge(b, CapOf(lim, c), RateOf(lim, c), 1)
      /\ turn' = [turn EXCEPT ![r].open = @ \ {c}]
      /\ window' = IF window.at = -1 THEN window
                   ELSE [window EXCEPT !.spent[b] = @ + Minute]
      /\ UNCHANGED <<tick, limits>>

CheckPeeked(r) ==
  /\ "tokens" \in turn[r].open
  /\ ~Short(TokenBucket, turn[r].limits.tpm, turn[r].est)
  /\ turn' = [turn EXCEPT ![r].open = @ \ {"tokens"}]
  /\ UNCHANGED <<tick, limits, buckets, window>>

(* A call to the object fails: Promise.all rejects at once, and the other  *)
(* calls still run.                                                        *)
CheckFails(r, c) ==
  /\ turn[r].pc = "checking"
  /\ c \in turn[r].open
  /\ turn' = [turn EXCEPT ![r] = [turn[r] EXCEPT !.pc = "error", !.open = @ \ {c}]]
  /\ UNCHANGED <<tick, limits, buckets, window>>

ChecksAnswered(r) ==
  /\ turn[r].pc = "checking"
  /\ turn[r].open = {}
  /\ turn' = [turn EXCEPT ![r] =
       [@ EXCEPT !.pc = IF turn[r].denied = {} THEN "upstream" ELSE "refused", !.est = 0, !.denied = {}]]
  /\ UNCHANGED <<tick, limits, buckets, window>>

(* The provider has answered: with an error nothing is settled. *)
Answered(r) ==
  /\ turn[r].pc = "upstream"
  /\ \E pc \in {"settling", "done"} : turn' = [turn EXCEPT ![r].pc = pc]
  /\ UNCHANGED <<tick, limits, buckets, window>>

(* settleTokenUsage, with the limits the request read when it started. *)
Settle(r, used) ==
  LET tpm == turn[r].limits.tpm
  IN  /\ turn[r].pc = "settling"
      /\ turn' = [turn EXCEPT ![r].pc = "done"]
      /\ IF tpm > 0 /\ used > 0
           THEN StoreCharge(TokenBucket, tpm, tpm, used)
           ELSE UNCHANGED buckets
      /\ UNCHANGED <<tick, limits, window>>

-----------------------------------------------------------------------------
(* The tenant's limits change; time passes; the history's window opens.    *)

(* Bound: only while a request is still to read the limits. *)
SetLimits ==
  /\ \E r \in Turns : turn[r].pc = "new"
  /\ limits' \in RateSettings \ {limits}
  /\ UNCHANGED <<tick, buckets, turn, window>>

RateTick ==
  /\ tick < RateMaxTime
  /\ tick' = tick + 1
  /\ UNCHANGED <<limits, buckets, turn, window>>

OpenWindow ==
  /\ window.at = -1
  /\ window' = [window EXCEPT !.at = tick]
  /\ UNCHANGED <<tick, limits, buckets, turn>>

RateNext ==
  \/ \E r \in Turns :
       \/ \E est \in Estimates : StartChecks(r, est)
       \/ \E c \in Checks : CheckRefused(r, c) \/ CheckCharged(r, c) \/ CheckFails(r, c)
       \/ CheckPeeked(r) \/ ChecksAnswered(r) \/ Answered(r)
       \/ \E used \in TokenUses : Settle(r, used)
  \/ SetLimits \/ RateTick \/ OpenWindow

RateSpec == RateInit /\ [][RateNext]_rateVars

-----------------------------------------------------------------------------
(* Whatever the order of calls and the changes of the limits, a request    *)
(* bucket lets through, in any stretch of time, no more than its largest   *)
(* capacity and what the largest rate refills in that time                 *)
(* (durable/rate-limiter.ts:62-97).                                        *)
WindowBounded ==
  window.at # -1 =>
    \A b \in RequestBuckets :
      window.spent[b] <= CapMax * Minute + (tick - window.at) * RateMax

(* A caller refused by a request bucket who waits as long as it is told    *)
(* finds a token there if nobody takes it first, unless the bucket was     *)
(* last charged at a lower rate than the one the wait is computed from     *)
(* (durable/rate-limiter.ts:74).                                           *)
RetryAdmitted ==
  \A b \in RequestBuckets, lim \in RateSettings :
    LET row == buckets[b] IN
      /\ row # NoBucket
      /\ 0 < lim.rpm /\ lim.rpm <= row.rate
      /\ Short(b, CapOf(lim, "key"), 1)
      => Refilled(row, tick + RetryAfter(lim.rpm)) >= Minute

=============================================================================
