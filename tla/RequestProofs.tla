----------------------------- MODULE RequestProofs -----------------------------
(***************************************************************************)
(* Proofs about what a chat request meets in the Worker: state that runs   *)
(* out by itself, that is the rows of the ResponseCache object             *)
(* (AnswerCache), the Google access tokens of an isolate (TokenCache) and  *)
(* the buckets of the rate limiter (RateLimits); then the request itself   *)
(* (ChatRequests), the list of models and embeddings.                      *)
(***************************************************************************)
EXTENDS AnswerCache, TokenCache, RateLimits, ModelsAndEmbeddings, SequenceTheorems, TLAPS

-----------------------------------------------------------------------------
(* AnswerCache *)

(* The assumptions, number by number.                                      *)
LEMMA AnswerNumbers ==
  /\ \A t \in Ttls : t \in Nat
  /\ \A n \in CacheValues : n \in Nat /\ n # 0
  /\ CacheUntil \in Nat
  BY AnswerAssumption

PutCalls == [key : CacheKeys, value : CacheValues, ttl : Ttls]

AnswerTyped ==
  /\ second \in 0..CacheUntil
  /\ rows \in [CacheKeys -> [value : CacheValues, expires : Int] \cup {NoRow}]
  /\ puts \subseteq PutCalls
  /\ putAt \in [CacheKeys -> [CacheValues -> [at : Int, ttl : Nat]]]
  /\ got = NothingGot \/ got \in [key : CacheKeys, value : CacheValues, at : 0..second]

(* An answer is on its way once, and has not arrived before. *)
PutsOnce ==
  \A p \in puts :
    /\ putAt[p.key][p.value].at = -1
    /\ \A q \in puts : q.key = p.key /\ q.value = p.value => q = p

(* A row expires when the put that wrote it said. *)
RowsAsPut ==
  \A k \in CacheKeys :
    rows[k] # NoRow =>
      LET p == putAt[k][rows[k].value]
      IN  p.at \in 0..second /\ rows[k].expires = p.at + p.ttl

(* What was served had arrived. *)
GotArrived ==
  got # NothingGot => putAt[got.key][got.value].at \in 0..second

AnswerInv == AnswerTyped /\ PutsOnce /\ RowsAsPut /\ GotArrived /\ AnswerServedFresh

(* The initial state: nothing is cached, nothing on its way.               *)
LEMMA AnswerInitInv == AnswerInit => AnswerInv
<1> SUFFICES ASSUME AnswerInit PROVE AnswerInv
  OBVIOUS
<1>1. putAt \in [CacheKeys -> [CacheValues -> [at : Int, ttl : Nat]]]
  <2>1. [n \in CacheValues |-> [at |-> -1, ttl |-> 0]] \in [CacheValues -> [at : Int, ttl : Nat]]
    BY SMT
  <2> QED
    BY <2>1, SMT DEF AnswerInit
<1>2. AnswerTyped
  BY <1>1, AnswerNumbers, SMT DEF AnswerInit, AnswerTyped, NoRow
<1>3. PutsOnce /\ RowsAsPut /\ GotArrived /\ AnswerServedFresh
  BY SMT DEF AnswerInit, PutsOnce, RowsAsPut, GotArrived, AnswerServedFresh, NoRow
<1> QED
  BY <1>2, <1>3 DEF AnswerInv

(* Every step of the cache keeps the invariant; only the arrival of a put  *)
(* changes what rows and answers are compared with.                        *)
LEMMA AnswerStepInv == AnswerInv /\ [AnswerNext]_answerVars => AnswerInv'
<1> SUFFICES ASSUME AnswerInv, [AnswerNext]_answerVars PROVE AnswerInv'
  OBVIOUS
<1> USE AnswerNumbers
<1>1. ASSUME NEW k \in CacheKeys, NEW n \in CacheValues, NEW ttl \in Ttls, AnswerFound(k, n, ttl)
      PROVE  AnswerInv'
  BY <1>1, SMT
  DEF AnswerFound, AnswerInv, AnswerTyped, PutsOnce, RowsAsPut, GotArrived,
      AnswerServedFresh, PutCalls
<1>2. ASSUME NEW p \in puts, CachePut(p) PROVE AnswerInv'
  <2> DEFINE e == second + p.ttl
             row == [value |-> p.value, expires |-> e]
             put == [at |-> second, ttl |-> p.ttl]
  <2>1. /\ p.key \in CacheKeys /\ p.value \in CacheValues /\ p.ttl \in Nat
        /\ second \in Nat /\ e \in Int
    <3>1. p \in PutCalls /\ second \in Nat
      BY SMT DEF AnswerInv, AnswerTyped
    <3> QED
      BY <3>1, SMT DEF PutCalls
  <2>2. /\ rows' = [rows EXCEPT ![p.key] = row]
        /\ putAt' = [putAt EXCEPT ![p.key][p.value] = put]
        /\ puts' = puts \ {p}
        /\ second' = second /\ got' = got
    BY <1>2, SMT DEF CachePut, PutInto
  <2>3. AnswerTyped'
    BY <2>1, <2>2, SMT DEF AnswerInv, AnswerTyped
  <2>4. \A k \in CacheKeys, n \in CacheValues :
          putAt'[k][n] = IF k = p.key /\ n = p.value THEN put ELSE putAt[k][n]
    BY <2>1, <2>2, SMT DEF AnswerInv, AnswerTyped
  <2>5. PutsOnce'
    BY <2>1, <2>2, <2>4, SMT DEF AnswerInv, PutsOnce, AnswerTyped, PutCalls
  <2>6. RowsAsPut'
    <3> SUFFICES ASSUME NEW k \in CacheKeys, rows'[k] # NoRow
                 PROVE  LET q == putAt'[k][rows'[k].value]
                        IN  q.at \in 0..second /\ rows'[k].expires = q.at + q.ttl
      BY <2>2, SMT DEF RowsAsPut
    <3>1. CASE k = p.key
      BY <3>1, <2>1, <2>2, <2>4, SMT DEF AnswerInv, AnswerTyped
    <3>2. CASE k # p.key
      <4>1. rows'[k] = rows[k] /\ rows[k].value \in CacheValues
        BY <3>2, <2>1, <2>2, SMT DEF AnswerInv, AnswerTyped, NoRow
      <4>2. putAt'[k][rows[k].value] = putAt[k][rows[k].value]
        BY <3>2, <4>1, <2>4, SMT
      <4>3. rows[k] # NoRow /\ second' = second
        BY <4>1, <2>2
      <4> QED
        BY <4>1, <4>2, <4>3 DEF AnswerInv, RowsAsPut
    <3> QED
      BY <3>1, <3>2
  <2>7. GotArrived' /\ AnswerServedFresh'
    <3> SUFFICES ASSUME got # NothingGot
                 PROVE  putAt'[got.key][got.value] = putAt[got.key][got.value]
      BY <2>2, SMT DEF AnswerInv, GotArrived, AnswerServedFresh
    <3>1. got.key \in CacheKeys /\ got.value \in CacheValues
      BY SMT DEF AnswerInv, AnswerTyped
    <3>2. putAt[p.key][p.value].at = -1 /\ putAt[got.key][got.value].at >= 0
      BY <3>1, SMT DEF AnswerInv, PutsOnce, GotArrived
    <3>3. ~(got.key = p.key /\ got.value = p.value)
      BY <3>2, SMT
    <3> HIDE DEF put
    <3> QED
      BY <3>1, <3>3, <2>4
  <2> QED
    BY <2>3, <2>5, <2>6, <2>7 DEF AnswerInv
<1>3. ASSUME NEW p \in puts, PutLost(p) PROVE AnswerInv'
  BY <1>3, SMT
  DEF PutLost, AnswerInv, AnswerTyped, PutsOnce, RowsAsPut, GotArrived, AnswerServedFresh
<1>4. ASSUME NEW k \in CacheKeys, CacheGet(k) PROVE AnswerInv'
  <2>1. CASE rows[k].expires <= second
    <3>1. /\ rows' = [rows EXCEPT ![k] = NoRow]
          /\ UNCHANGED <<second, puts, putAt, got>>
      BY <1>4, <2>1 DEF CacheGet
    <3>2. \A j \in CacheKeys : rows'[j] # NoRow => rows'[j] = rows[j]
      BY <3>1, SMT DEF AnswerInv, AnswerTyped
    <3> QED
      BY <3>1, <3>2, SMT
      DEF AnswerInv, AnswerTyped, PutsOnce, RowsAsPut, GotArrived, AnswerServedFresh
  <2>2. CASE ~(rows[k].expires <= second)
    <3>1. /\ got' = [key |-> k, value |-> rows[k].value, at |-> second]
          /\ rows[k] # NoRow /\ rows[k].value \in CacheValues
          /\ UNCHANGED <<second, rows, puts, putAt>>
      BY <1>4, <2>2, SMT DEF CacheGet, AnswerInv, AnswerTyped
    <3>2. /\ putAt[k][rows[k].value].at \in 0..second
          /\ rows[k].expires = putAt[k][rows[k].value].at + putAt[k][rows[k].value].ttl
      BY <3>1, SMT DEF AnswerInv, RowsAsPut
    <3>3. second < rows[k].expires
      BY <2>2, <3>1, <3>2, SMT DEF AnswerInv, AnswerTyped
    <3>4. AnswerTyped' /\ PutsOnce' /\ RowsAsPut'
      BY <3>1, SMT DEF AnswerInv, AnswerTyped, PutsOnce, RowsAsPut
    <3>5. GotArrived' /\ AnswerServedFresh'
      BY <3>1, <3>2, <3>3, SMT DEF GotArrived, AnswerServedFresh
    <3> QED
      BY <3>4, <3>5 DEF AnswerInv
  <2> QED
    BY <2>1, <2>2
<1>5. CASE SecondPasses
  BY <1>5, SMT
  DEF SecondPasses, AnswerInv, AnswerTyped, PutsOnce, RowsAsPut, GotArrived,
      AnswerServedFresh
<1>6. CASE UNCHANGED answerVars
  BY <1>6, SMT
  DEF answerVars, AnswerInv, AnswerTyped, PutsOnce, RowsAsPut, GotArrived,
      AnswerServedFresh
<1> QED
  BY <1>1, <1>2, <1>3, <1>4, <1>5, <1>6 DEF AnswerNext

(* The invariant holds of every behaviour. *)
LEMMA AnswerInvariant == AnswerSpec => []AnswerInv
  BY AnswerInitInv, AnswerStepInv, PTL DEF AnswerSpec

(* The cache holds and serves only answers that were put into it, at a     *)
(* second that has come (durable/response-cache.ts:44-78).                 *)
THEOREM AnswerTypes == AnswerSpec => []AnswerTypeOK
<1>1. ASSUME AnswerInv PROVE AnswerTypeOK
  <2>1. \A k \in CacheKeys : rows[k] = NoRow \/ rows[k].value \in CacheValues
    BY <1>1, SMT DEF AnswerInv, AnswerTyped
  <2>2. got.value \in CacheValues \cup {0} /\ got.at \in 0..second
    <3>1. CASE got = NothingGot
      <4>1. got.value = 0 /\ got.at = 0
        BY <3>1 DEF NothingGot
      <4>2. second \in Nat
        BY <1>1, AnswerNumbers, SMT DEF AnswerInv, AnswerTyped
      <4> QED
        BY <4>1, <4>2, SMT
    <3>2. CASE got \in [key : CacheKeys, value : CacheValues, at : 0..second]
      BY <3>2, SMT
    <3> QED
      BY <1>1, <3>1, <3>2 DEF AnswerInv, AnswerTyped
  <2> QED
    BY <1>1, <2>1, <2>2 DEF AnswerInv, AnswerTyped, AnswerTypeOK
<1> QED
  BY <1>1, AnswerInvariant, PTL

(* For any number of keys, answers and ttls, in any order of gets and puts *)
(* and whichever of them are lost, the response cache serves an answer     *)
(* only within the ttl it was put with (durable/response-cache.ts:44-78).  *)
THEOREM CacheServesFresh == AnswerSpec => []AnswerServedFresh
<1>1. AnswerInv => AnswerServedFresh
  BY DEF AnswerInv
<1> QED
  BY <1>1, AnswerInvariant, PTL

-----------------------------------------------------------------------------
(* TokenCache *)

(* The assumptions, number by number.                                      *)
LEMMA TokenNumbers ==
  /\ \A n \in Lifetimes : n \in Nat
  /\ TokenTtl \in Nat /\ RefreshSkew \in Nat /\ LastHour \in Nat
  BY LifetimeAssumption

CallerPcs == {"new", "asking", "issued", "minted", "failed", "served"}

CallAt == [pc : CallerPcs, account : Accounts, now : 0..hour, life : Nat, ends : Int]

TokenTyped ==
  /\ hour \in 0..LastHour
  /\ tokens \in [Accounts -> [expiresAt : Int, ends : Int]]
  /\ caller \in [Callers -> CallAt]

(* An entry never claims to last longer than its token lives. *)
EntriesHonest ==
  \A a \in Accounts :
    tokens[a] = NoToken \/ tokens[a].expiresAt \in 0..tokens[a].ends

(* A token counted from before it was asked for ends later than that. *)
IssuedLate ==
  \A c \in Callers : caller[c].pc = "issued" => caller[c].ends >= caller[c].now + caller[c].life

TokenInv == TokenTyped /\ EntriesHonest /\ IssuedLate /\ TokenServedAlive

(* A call that goes on to a sound state keeps the invariant. *)
LEMMA CallGoesOn ==
  ASSUME TokenInv, NEW c \in Callers, NEW x \in CallAt,
         caller' = [caller EXCEPT ![c] = x], UNCHANGED <<hour, tokens>>,
         x.pc = "issued" => x.ends >= x.now + x.life,
         x.pc = "served" => x.ends > x.now + RefreshSkew
  PROVE  TokenInv'
<1>1. TokenTyped' /\ EntriesHonest'
  BY SMT DEF TokenInv, TokenTyped, CallAt, EntriesHonest
<1>2. \A d \in Callers : caller'[d] = IF d = c THEN x ELSE caller[d]
  BY SMT DEF TokenInv, TokenTyped
<1>3. IssuedLate' /\ TokenServedAlive'
  BY <1>2, SMT DEF TokenInv, IssuedLate, TokenServedAlive
<1> QED
  BY <1>1, <1>3 DEF TokenInv

(* Every step keeps the invariant.                                         *)
LEMMA TokenStepInv == TokenInv /\ [TokenNext]_tokenVars => TokenInv'
<1> SUFFICES ASSUME TokenInv, [TokenNext]_tokenVars PROVE TokenInv'
  OBVIOUS
<1> USE TokenNumbers
<1>1. ASSUME NEW c \in Callers, GetToken(c) PROVE TokenInv'
  <2> DEFINE a == caller[c].account
             s == [caller[c] EXCEPT !.pc = "served", !.now = hour, !.ends = tokens[a].ends]
             m == [caller[c] EXCEPT !.pc = "asking", !.now = hour]
  <2>1. caller[c] \in CallAt /\ hour \in 0..hour
    BY SMT DEF TokenInv, TokenTyped
  <2>2. a \in Accounts
    BY <2>1, SMT DEF CallAt
  <2>3. tokens[a].ends \in Int
    BY <2>2, SMT DEF TokenInv, TokenTyped
  <2>4. CASE tokens[a].expiresAt > hour + RefreshSkew
    <3>1. tokens[a].ends > hour + RefreshSkew
      BY <2>2, <2>4, SMT DEF TokenInv, TokenTyped, EntriesHonest, NoToken
    <3>2. caller' = [caller EXCEPT ![c] = s] /\ UNCHANGED <<hour, tokens>>
      BY <1>1, <2>4 DEF GetToken
    <3>3. s \in CallAt /\ s.pc = "served" /\ s.ends = tokens[a].ends /\ s.now = hour
      BY <2>1, <2>3, Zenon DEF CallAt, CallerPcs
    <3> QED
      BY <3>1, <3>2, <3>3, CallGoesOn
  <2>5. CASE ~(tokens[a].expiresAt > hour + RefreshSkew)
    <3>1. caller' = [caller EXCEPT ![c] = m] /\ UNCHANGED <<hour, tokens>>
      BY <1>1, <2>5 DEF GetToken
    <3>2. m \in CallAt /\ m.pc = "asking"
      BY <2>1, Zenon DEF CallAt, CallerPcs
    <3> QED
      BY <3>1, <3>2, CallGoesOn
  <2> QED
    BY <2>4, <2>5
<1>2. ASSUME NEW c \in Callers, TokenIssued(c) PROVE TokenInv'
  <2> PICK life \in Lifetimes :
        caller' = [caller EXCEPT ![c] =
                     [@ EXCEPT !.pc = "issued", !.life = life, !.ends = hour + life]]
    BY <1>2 DEF TokenIssued
  <2> DEFINE x == [caller[c] EXCEPT !.pc = "issued", !.life = life, !.ends = hour + life]
  <2>1. caller' = [caller EXCEPT ![c] = x] /\ UNCHANGED <<hour, tokens>>
    BY <1>2 DEF TokenIssued
  <2>2. /\ caller[c] \in CallAt /\ caller[c].now \in 0..hour /\ hour \in Nat
        /\ life \in Nat /\ hour + life \in Int /\ hour + life >= caller[c].now + life
    BY SMT DEF TokenInv, TokenTyped, CallAt
  <2>3. /\ x \in CallAt /\ x.pc = "issued" /\ x.now = caller[c].now /\ x.life = life
        /\ x.ends = hour + life
    BY <2>2, Zenon DEF CallAt, CallerPcs
  <2> QED
    BY <2>1, <2>2, <2>3, CallGoesOn
<1>3. ASSUME NEW c \in Callers, TokenRefused(c) PROVE TokenInv'
  BY <1>3, SMT
  DEF TokenRefused, TokenInv, TokenTyped, CallAt, EntriesHonest, IssuedLate, TokenServedAlive, CallerPcs
<1>4. ASSUME NEW c \in Callers, StoreToken(c) PROVE TokenInv'
  BY <1>4, SMT
  DEF StoreToken, Least, TokenInv, TokenTyped, CallAt, EntriesHonest, IssuedLate,
      TokenServedAlive, CallerPcs
<1>5. CASE IsolateEnds
  BY <1>5, SMT
  DEF IsolateEnds, TokenInv, TokenTyped, CallAt, EntriesHonest, IssuedLate, TokenServedAlive, NoToken
<1>6. CASE HourPasses
  BY <1>6, SMT
  DEF HourPasses, TokenInv, TokenTyped, CallAt, EntriesHonest, IssuedLate, TokenServedAlive
<1>7. CASE UNCHANGED tokenVars
  BY <1>7, SMT
  DEF tokenVars, TokenInv, TokenTyped, CallAt, EntriesHonest, IssuedLate, TokenServedAlive
<1> QED
  BY <1>1, <1>2, <1>3, <1>4, <1>5, <1>6, <1>7 DEF TokenNext

(* The invariant holds of every behaviour. *)
LEMMA TokenInvariant == TokenSpec => []TokenInv
<1>1. TokenInit => TokenInv
  BY TokenNumbers, SMT
  DEF TokenInit, TokenInv, TokenTyped, CallAt, EntriesHonest, IssuedLate, TokenServedAlive,
      CallerPcs, NoToken
<1> QED
  BY <1>1, TokenStepInv, PTL DEF TokenSpec

(* No entry expires before the clock began, and no call has read a clock   *)
(* that is ahead (llm/google-oauth.ts:108-150).                            *)
THEOREM TokenTypes == TokenSpec => []TokenTypeOK
<1>1. TokenInv => TokenTypeOK
  BY SMT DEF TokenInv, TokenTyped, CallAt, EntriesHonest, TokenTypeOK, CallerPcs
<1> QED
  BY <1>1, TokenInvariant, PTL

(* For any number of overlapping calls and whatever lifetimes Google gives *)
(* out, a token taken from the cache lives for longer than RefreshSkew     *)
(* from then on (llm/google-oauth.ts:108-150).                             *)
THEOREM CachedTokenLives == TokenSpec => []TokenServedAlive
<1>1. TokenInv => TokenServedAlive
  BY DEF TokenInv
<1> QED
  BY <1>1, TokenInvariant, PTL

-----------------------------------------------------------------------------
(* RateLimits *)

(* The assumptions, number by number. *)
LEMMA RateNumbers ==
  /\ CapMax \in Nat /\ RateMax \in Nat /\ Minute \in Nat /\ Minute # 0
  /\ RateMax <= CapMax /\ RateMaxTime \in Nat
  /\ \A lim \in RateSettings :
       lim \in [rpm : 0..RateMax, burst : 0..CapMax, tpm : Nat]
  /\ \A n \in Estimates : n \in Nat
  /\ \A n \in TokenUses : n \in Nat
  BY RateAssumption

(* The buckets of requests are not the bucket of tokens. *)
LEMMA BucketsApart ==
  /\ TokenBucket \notin RequestBuckets
  /\ \A b \in Buckets : b \in RequestBuckets \/ b = TokenBucket
  BY RateAssumption DEF Buckets, RequestBuckets, OrgBucket, TokenBucket

-----------------------------------------------------------------------------
(* Arithmetic of a refill *)

(* A product grows with its factor. *)
LEMMA Monotone ==
  \A a, b, m \in Nat : a <= b => a * m <= b * m /\ a * m \in Nat
  BY SMT

(* One tick more refills the rate once more. *)
LEMMA OneMore ==
  \A n, m \in Nat : (n + 1) * m = n * m + m
  BY SMT

Full(row) == row.cap * Minute

(* A refill stays within the capacity, is never a loss, and brings the     *)
(* rate per tick.                                                          *)
LEMMA RefillBounds ==
  ASSUME NEW row \in BucketRow, NEW t \in Nat, row.at <= t
  PROVE  /\ Refilled(row, t) \in Int
         /\ Refilled(row, t) <= Full(row)
         /\ Refilled(row, t + 1) <= Refilled(row, t) + row.rate
         /\ row.tokens >= 0 => Refilled(row, t) >= 0
<1> DEFINE n == t - row.at
<1>1. /\ row.tokens \in Int /\ row.cap \in Nat /\ row.rate \in Nat /\ row.at \in Nat
      /\ n \in Nat
  BY SMT DEF BucketRow
<1>2. row.cap * Minute \in Nat /\ n * row.rate \in Nat
  BY <1>1, RateNumbers, Monotone, SMT
<1>3. (t + 1) - row.at = n + 1 /\ (n + 1) * row.rate = n * row.rate + row.rate
  BY <1>1, OneMore, SMT
<1> QED
  BY <1>1, <1>2, <1>3, SMT DEF Refilled, Lesser, Full

-----------------------------------------------------------------------------
(* The invariant *)

(* A row of a request bucket was stored by a charge with some limits. *)
RowSound(row) ==
  /\ row \in BucketRow
  /\ row.at <= tick
  /\ row.tokens >= 0
  /\ row.cap <= CapMax /\ row.rate <= RateMax /\ row.rate <= row.cap

RowsSound == \A b \in RequestBuckets : buckets[b] = NoBucket \/ RowSound(buckets[b])

(* What a bucket can still give: everything, when there is no row. *)
Left(b) == Level(b, CapMax)

(* What was let through and what is left come out of the first fill and    *)
(* the refills since.                                                      *)
SpentBounded ==
  IF window.at = -1
    THEN \A b \in Buckets : window.spent[b] = 0
    ELSE /\ window.at <= tick
         /\ \A b \in RequestBuckets :
              window.spent[b] + Left(b) <= CapMax * Minute + (tick - window.at) * RateMax

RateInv == RateTypeOK /\ RowsSound /\ SpentBounded

(* What is left is between nothing and the largest capacity. *)
LEMMA LeftBounds ==
  ASSUME RateTypeOK, RowsSound, NEW b \in RequestBuckets
  PROVE  Left(b) \in Int /\ 0 <= Left(b) /\ Left(b) <= CapMax * Minute
<1> USE RateNumbers
<1>1. tick \in Nat
  BY SMT DEF RateTypeOK
<1>2. CapMax * Minute \in Nat
  BY Monotone, SMT
<1>3. CASE buckets[b] = NoBucket
  BY <1>2, <1>3, SMT DEF Left, Level
<1>4. CASE buckets[b] # NoBucket
  <2> DEFINE row == buckets[b]
  <2>1. RowSound(row)
    BY <1>4 DEF RowsSound
  <2>2. /\ Refilled(row, tick) \in Int
        /\ Refilled(row, tick) <= Full(row)
        /\ Refilled(row, tick) >= 0
    BY <2>1, <1>1, RefillBounds DEF RowSound
  <2>3. Full(row) <= CapMax * Minute /\ Full(row) \in Nat
    BY <2>1, Monotone, SMT DEF RowSound, BucketRow, Full
  <2> QED
    BY <1>2, <1>4, <2>2, <2>3, SMT DEF Left, Level
<1> QED
  BY <1>3, <1>4

(* The bound from the invariant: what is left is not negative. *)
LEMMA InvBounds == RateInv => WindowBounded
<1> SUFFICES ASSUME RateInv, window.at # -1, NEW b \in RequestBuckets
             PROVE  window.spent[b] <= CapMax * Minute + (tick - window.at) * RateMax
  BY DEF WindowBounded
<1>1. window.spent[b] \in Int
  BY SMT DEF RateInv, RateTypeOK, Buckets
<1>2. Left(b) \in Int /\ 0 <= Left(b)
  BY LeftBounds DEF RateInv
<1>3. window.spent[b] + Left(b) <= CapMax * Minute + (tick - window.at) * RateMax
  BY DEF RateInv, SpentBounded
<1>4. CapMax * Minute \in Int /\ (tick - window.at) * RateMax \in Int
  BY RateNumbers, SMT DEF RateInv, RateTypeOK
<1> QED
  BY <1>1, <1>2, <1>3, <1>4, SMT

LEMMA RateInitInv == RateInit => RateInv
<1> SUFFICES ASSUME RateInit PROVE RateInv
  OBVIOUS
<1>1. turn \in [Turns -> Turn]
  <2> DEFINE T0 == [pc : {"new"}, key : TurnKeys, limits : {limits}, est : {0},
                    open : {{}}, denied : {{}}]
  <2>1. ASSUME NEW x \in T0 PROVE x \in Turn
    BY SMT DEF RateInit, Turn, TurnPcs
  <2> QED
    BY <2>1, SMT DEF RateInit
<1>2. RateTypeOK
  BY <1>1, RateNumbers, SMT DEF RateInit, RateTypeOK
<1>3. RowsSound /\ SpentBounded
  BY SMT DEF RateInit, RowsSound, SpentBounded, Buckets
<1> QED
  BY <1>2, <1>3 DEF RateInv

-----------------------------------------------------------------------------
(* The steps *)

(* A step of a request that charges nothing. *)
LEMMA UnchargedStep ==
  ASSUME RateInv, NEW r \in Turns, NEW x \in Turn, turn' = [turn EXCEPT ![r] = x],
         UNCHANGED <<tick, limits, buckets, window>>
  PROVE  RateInv'
<1>1. RateTypeOK'
  BY SMT DEF RateInv, RateTypeOK
<1>2. RowsSound' /\ SpentBounded'
  BY SMT DEF RateInv, RowsSound, RowSound, SpentBounded, Left, Level
<1> QED
  BY <1>1, <1>2 DEF RateInv

(* The limits of a request check a capacity and a rate within the bounds. *)
LEMMA LimitsBounded ==
  ASSUME NEW lim \in RateSettings, NEW c \in Checks
  PROVE  /\ CapOf(lim, c) \in Nat /\ RateOf(lim, c) \in Nat
         /\ RateOf(lim, c) <= CapOf(lim, c)
         /\ c # "tokens" => CapOf(lim, c) <= CapMax /\ RateOf(lim, c) <= RateMax
  BY RateNumbers, SMT DEF CapOf, RateOf, Greater, Checks

(* A stored charge leaves the level less the cost. *)
LEMMA ChargeLeaves ==
  ASSUME RateInv, NEW b \in RequestBuckets, NEW cap \in Nat, NEW rate \in Nat,
         cap <= CapMax, rate <= RateMax, rate <= cap, ~Short(b, cap, 1)
  PROVE  LET row == Charged(b, cap, rate, 1)
         IN  /\ RowSound(row)
             /\ Refilled(row, tick) \in Int
             /\ Refilled(row, tick) + Minute <= Left(b)
<1> USE RateNumbers
<1> DEFINE row == Charged(b, cap, rate, 1)
<1>1. tick \in Nat
  BY SMT DEF RateInv, RateTypeOK
<1>2. Level(b, cap) \in Int /\ Level(b, cap) <= Left(b)
  <2>1. CASE buckets[b] = NoBucket
    BY <2>1, Monotone, SMT DEF Left, Level
  <2>2. CASE buckets[b] # NoBucket
    BY <2>2, LeftBounds DEF RateInv, Left, Level
  <2> QED
    BY <2>1, <2>2
<1>3. Level(b, cap) - Minute >= 0
  BY <1>2, SMT DEF Short
<1>4. row = [tokens |-> Level(b, cap) - Minute, cap |-> cap, rate |-> rate, at |-> tick]
  BY <1>2, SMT DEF Charged
<1> HIDE DEF row
<1>5. RowSound(row)
  BY <1>1, <1>2, <1>3, <1>4, SMT DEF RowSound, BucketRow
<1>6. Refilled(row, tick) \in Int /\ Refilled(row, tick) <= row.tokens
  <2>1. (tick - row.at) * row.rate = 0
    BY <1>1, <1>4, SMT
  <2>2. row.cap * Minute \in Int
    BY <1>4, SMT
  <2> QED
    BY <1>2, <1>4, <2>1, <2>2, SMT DEF Refilled, Lesser
<1> QED
  BY <1>2, <1>4, <1>5, <1>6, LeftBounds, SMT DEF RateInv, row

(* A request bucket lets a request through. *)
LEMMA ChargedStep ==
  ASSUME RateInv, NEW r \in Turns, NEW c \in Checks, CheckCharged(r, c)
  PROVE  RateInv'
<1> USE RateNumbers
<1> PICK b : b = BucketOf(r, c)
  OBVIOUS
<1> PICK lim : lim = turn[r].limits
  OBVIOUS
<1> PICK row : row = Charged(b, CapOf(lim, c), RateOf(lim, c), 1)
  OBVIOUS
<1> DEFINE x == [turn[r] EXCEPT !.open = @ \ {c}]
<1>1. turn[r] \in Turn /\ turn \in [Turns -> Turn]
  BY SMT DEF RateInv, RateTypeOK
<1>2. lim \in RateSettings /\ turn[r].key \in TurnKeys /\ x \in Turn
  BY <1>1, Zenon DEF Turn
<1>3. c # "tokens" /\ b \in RequestBuckets
  BY <1>2, SMT DEF CheckCharged, BucketOf, Checks, RequestBuckets
<1>4. /\ ~Short(b, CapOf(lim, c), 1)
      /\ buckets' = [buckets EXCEPT ![b] = row]
      /\ turn' = [turn EXCEPT ![r].open = @ \ {c}]
      /\ window' = IF window.at = -1 THEN window
                   ELSE [window EXCEPT !.spent[b] = @ + Minute]
      /\ tick' = tick /\ limits' = limits
  BY Zenon DEF CheckCharged, StoreCharge
<1>5. /\ RowSound(row)
      /\ Refilled(row, tick) \in Int
      /\ Refilled(row, tick) + Minute <= Left(b)
  BY <1>2, <1>3, <1>4, LimitsBounded, ChargeLeaves
<1>6. RateTypeOK'
  <2>1. turn' \in [Turns -> Turn]
    BY <1>1, <1>2, <1>4, SMT
  <2>2. buckets' \in [Buckets -> BucketRow \cup {NoBucket}]
    <3>1. row \in BucketRow
      BY <1>5 DEF RowSound
    <3>2. buckets \in [Buckets -> BucketRow \cup {NoBucket}]
      BY DEF RateInv, RateTypeOK
    <3> QED
      BY <1>4, <3>1, <3>2, Zenon
  <2>3. window' \in [at : -1..RateMaxTime, spent : [Buckets -> Nat]]
    BY <1>4, SMT DEF RateInv, RateTypeOK
  <2> QED
    BY <1>4, <2>1, <2>2, <2>3 DEF RateInv, RateTypeOK
<1>7. \A d \in RequestBuckets : buckets'[d] = IF d = b THEN row ELSE buckets[d]
  BY <1>3, <1>4, SMT DEF RateInv, RateTypeOK, Buckets
<1>8. row # NoBucket
  BY <1>5, SMT DEF RowSound, BucketRow, NoBucket
<1>9. RowsSound'
  BY <1>4, <1>5, <1>7, SMT DEF RateInv, RowsSound, RowSound
<1>10. SpentBounded'
  <2>1. CASE window.at = -1
    BY <1>4, <2>1, SMT DEF RateInv, SpentBounded
  <2>2. CASE window.at # -1
    <3>1. /\ window'.at = window.at
          /\ \A d \in RequestBuckets :
               window'.spent[d] = IF d = b THEN window.spent[b] + Minute ELSE window.spent[d]
      BY <1>3, <1>4, <2>2, SMT DEF RateInv, RateTypeOK, Buckets
    <3>2. \A d \in RequestBuckets : d # b => Left(d)' = Left(d)
      BY <1>4, <1>7, SMT DEF Left, Level
    <3>3. Left(b)' = Refilled(row, tick)
      BY <1>3, <1>4, <1>7, <1>8, SMT DEF Left, Level
    <3>4. window.spent[b] \in Int /\ Left(b) \in Int
      BY <1>3, LeftBounds, SMT DEF RateInv, RateTypeOK, Buckets
    <3>5. ASSUME NEW d \in RequestBuckets
          PROVE  window'.spent[d] + Left(d)' <= CapMax * Minute + (tick - window.at) * RateMax
      <4>1. window.spent[d] + Left(d) <= CapMax * Minute + (tick - window.at) * RateMax
        BY <2>2 DEF RateInv, SpentBounded
      <4>2. CapMax * Minute \in Int /\ (tick - window.at) * RateMax \in Int
        BY SMT DEF RateInv, RateTypeOK
      <4>3. CASE d = b
        <5>1. window'.spent[d] = window.spent[d] + Minute /\ Left(d)' = Refilled(row, tick)
          BY <4>3, <3>1, <3>3
        <5>2. Refilled(row, tick) + Minute <= Left(d) /\ Refilled(row, tick) \in Int
          BY <4>3, <1>5
        <5>3. window.spent[d] \in Int /\ Left(d) \in Int
          BY <4>3, <3>4
        <5> QED
          BY <4>1, <4>2, <5>1, <5>2, <5>3, SMT
      <4>4. CASE d # b
        BY <4>1, <4>4, <3>1, <3>2
      <4> QED
        BY <4>3, <4>4
    <3> QED
      BY <1>4, <2>2, <3>1, <3>5 DEF RateInv, SpentBounded
  <2> QED
    BY <2>1, <2>2
<1> QED
  BY <1>6, <1>9, <1>10 DEF RateInv

(* A settlement touches the bucket of tokens only. *)
LEMMA SettledStep ==
  ASSUME RateInv, NEW r \in Turns, NEW used \in TokenUses, Settle(r, used)
  PROVE  RateInv'
<1> USE RateNumbers
<1> DEFINE tpm == turn[r].limits.tpm
           row == Charged(TokenBucket, tpm, tpm, used)
           x == [turn[r] EXCEPT !.pc = "done"]
<1>1. turn[r] \in Turn /\ turn \in [Turns -> Turn]
  BY SMT DEF RateInv, RateTypeOK
<1>2. turn[r].limits \in RateSettings /\ x \in Turn
  BY <1>1, Zenon DEF Turn, TurnPcs
<1>3. tpm \in Nat
  BY <1>2, SMT
<1>4. /\ turn' = [turn EXCEPT ![r].pc = "done"]
      /\ buckets' = [buckets EXCEPT ![TokenBucket] = row] \/ buckets' = buckets
      /\ UNCHANGED <<tick, limits, window>>
  BY DEF Settle, StoreCharge
<1>5. row \in BucketRow
  <2>1. tick \in Nat /\ used \in Nat
    BY SMT DEF RateInv, RateTypeOK
  <2>2. Level(TokenBucket, tpm) \in Int
    <3>1. CASE buckets[TokenBucket] = NoBucket
      BY <1>3, <3>1, SMT DEF Level
    <3>2. CASE buckets[TokenBucket] # NoBucket
      <4>1. buckets[TokenBucket] \in BucketRow
        BY <3>2, SMT DEF RateInv, RateTypeOK, Buckets
      <4> QED
        BY <3>2, <4>1, <2>1, SMT DEF Level, Refilled, Lesser, BucketRow
    <3> QED
      BY <3>1, <3>2
  <2>3. used * Minute \in Int
    BY <2>1, SMT
  <2> QED
    BY <1>3, <2>1, <2>2, <2>3, SMT DEF Charged, BucketRow
<1> HIDE DEF row
<1>6. RateTypeOK'
  <2>1. turn' \in [Turns -> Turn]
    BY <1>1, <1>2, <1>4, SMT
  <2>2. buckets' \in [Buckets -> BucketRow \cup {NoBucket}]
    BY <1>4, <1>5, SMT DEF RateInv, RateTypeOK
  <2> QED
    BY <1>4, <2>1, <2>2 DEF RateInv, RateTypeOK
<1>7. \A d \in RequestBuckets : buckets'[d] = buckets[d]
  BY <1>4, BucketsApart, SMT DEF RateInv, RateTypeOK, Buckets
<1>8. RowsSound' /\ SpentBounded'
  BY <1>4, <1>7, SMT DEF RateInv, RowsSound, RowSound, SpentBounded, Left, Level
<1> QED
  BY <1>6, <1>8 DEF RateInv

(* A tick refills every bucket by its rate at most. *)
LEMMA TickStep == ASSUME RateInv, RateTick PROVE RateInv'
<1> USE RateNumbers
<1>1. /\ tick' = tick + 1 /\ tick < RateMaxTime /\ tick \in Nat
      /\ UNCHANGED <<limits, buckets, turn, window>>
  BY SMT DEF RateTick, RateInv, RateTypeOK
<1>2. RateTypeOK'
  BY <1>1, SMT DEF RateInv, RateTypeOK
<1>3. RowsSound'
  BY <1>1, SMT DEF RateInv, RowsSound, RowSound, BucketRow
<1>4. ASSUME NEW b \in RequestBuckets PROVE Left(b)' \in Int /\ Left(b)' <= Left(b) + RateMax
  <2>1. CASE buckets[b] = NoBucket
    BY <1>1, <2>1, Monotone, SMT DEF Left, Level
  <2>2. CASE buckets[b] # NoBucket
    <3>1. RowSound(buckets[b])
      BY <2>2 DEF RateInv, RowsSound
    <3>2. /\ Refilled(buckets[b], tick + 1) <= Refilled(buckets[b], tick) + buckets[b].rate
          /\ Refilled(buckets[b], tick) \in Int
      BY <3>1, <1>1, RefillBounds DEF RowSound
    <3>3. Refilled(buckets[b], tick + 1) \in Int
      BY <3>1, <1>1, RefillBounds, SMT DEF RowSound, BucketRow
    <3>4. Left(b) = Refilled(buckets[b], tick) /\ Left(b)' = Refilled(buckets[b], tick + 1)
      BY <1>1, <2>2, SMT DEF Left, Level
    <3> QED
      BY <3>1, <3>2, <3>3, <3>4, SMT DEF RowSound, BucketRow
  <2> QED
    BY <2>1, <2>2
<1>5. SpentBounded'
  <2>1. CASE window.at = -1
    BY <1>1, <2>1, SMT DEF RateInv, SpentBounded
  <2>2. CASE window.at # -1
    <3> DEFINE n == tick - window.at
    <3>1. n \in Nat /\ window.at \in Int
      BY <1>1, <2>2, SMT DEF RateInv, RateTypeOK, SpentBounded
    <3>2. tick' - window.at = n + 1 /\ (n + 1) * RateMax = n * RateMax + RateMax
      BY <1>1, <3>1, OneMore, SMT
    <3>3. CapMax * Minute \in Int /\ n * RateMax \in Int
      BY <3>1, SMT
    <3>4. ASSUME NEW b \in RequestBuckets
          PROVE  window.spent[b] + Left(b)' <= CapMax * Minute + (n + 1) * RateMax
      <4>1. window.spent[b] + Left(b) <= CapMax * Minute + n * RateMax
        BY <2>2 DEF RateInv, SpentBounded
      <4>2. window.spent[b] \in Int /\ Left(b) \in Int
        BY LeftBounds, SMT DEF RateInv, RateTypeOK, Buckets
      <4> QED
        BY <4>1, <4>2, <1>4, <3>2, <3>3, SMT
    <3>5. window.at <= tick'
      BY <1>1, <2>2, <3>1, SMT
    <3> QED
      BY <1>1, <2>2, <3>2, <3>4, <3>5, SMT DEF SpentBounded
  <2> QED
    BY <2>1, <2>2
<1> QED
  BY <1>2, <1>3, <1>5 DEF RateInv

(* When the window opens, nothing has been spent and a bucket holds at     *)
(* most its capacity.                                                      *)
LEMMA WindowStep == ASSUME RateInv, OpenWindow PROVE RateInv'
<1> USE RateNumbers
<1>1. /\ window.at = -1 /\ window' = [window EXCEPT !.at = tick] /\ tick \in 0..RateMaxTime
      /\ UNCHANGED <<tick, limits, buckets, turn>>
  BY SMT DEF OpenWindow, RateInv, RateTypeOK
<1>2. window'.at = tick /\ window'.spent = window.spent
  BY <1>1, SMT DEF RateInv, RateTypeOK
<1>3. RateTypeOK'
  BY <1>1, SMT DEF RateInv, RateTypeOK
<1>4. RowsSound'
  BY <1>1, SMT DEF RateInv, RowsSound, RowSound
<1>5. SpentBounded'
  <2>1. \A b \in RequestBuckets : Left(b)' = Left(b) /\ window.spent[b] = 0
    BY <1>1, SMT DEF RateInv, SpentBounded, Left, Level, Buckets
  <2>2. (tick - tick) * RateMax = 0 /\ tick # -1 /\ CapMax * Minute \in Int
    BY <1>1, SMT
  <2>3. \A b \in RequestBuckets : 0 + Left(b) <= CapMax * Minute + 0
    BY <2>2, LeftBounds, SMT DEF RateInv
  <2> QED
    BY <1>1, <1>2, <2>1, <2>2, <2>3, SMT DEF SpentBounded
<1> QED
  BY <1>3, <1>4, <1>5 DEF RateInv

(* Every step keeps the invariant. *)
LEMMA RateStepInv == RateInv /\ [RateNext]_rateVars => RateInv'
<1> SUFFICES ASSUME RateInv, [RateNext]_rateVars PROVE RateInv'
  OBVIOUS
<1> USE RateNumbers
<1>t. /\ turn \in [Turns -> Turn] /\ limits \in RateSettings
      /\ \A r \in Turns : turn[r] \in Turn
  BY SMT DEF RateInv, RateTypeOK
<1>1. ASSUME NEW r \in Turns, NEW est \in Estimates, StartChecks(r, est) PROVE RateInv'
  <2> DEFINE x == [turn[r] EXCEPT !.pc = "checking", !.limits = limits, !.est = est,
                                  !.open = ChecksOf(limits, est)]
  <2>1. ChecksOf(limits, est) \in SUBSET Checks
    BY SMT DEF ChecksOf, Checks
  <2>2. x \in Turn
    BY <1>t, <2>1, Zenon DEF Turn, TurnPcs
  <2>3. turn' = [turn EXCEPT ![r] = x] /\ UNCHANGED <<tick, limits, buckets, window>>
    BY <1>1 DEF StartChecks
  <2> QED
    BY <2>2, <2>3, UnchargedStep
<1>2. ASSUME NEW r \in Turns, NEW c \in Checks, CheckRefused(r, c) PROVE RateInv'
  <2> DEFINE x == [turn[r] EXCEPT !.open = @ \ {c}, !.denied = @ \cup {c}]
  <2>1. x \in Turn
    BY <1>t, Zenon DEF Turn
  <2>2. turn' = [turn EXCEPT ![r] = x] /\ UNCHANGED <<tick, limits, buckets, window>>
    BY <1>2 DEF CheckRefused
  <2> QED
    BY <2>1, <2>2, UnchargedStep
<1>3. ASSUME NEW r \in Turns, NEW c \in Checks, CheckFails(r, c) PROVE RateInv'
  <2> DEFINE x == [turn[r] EXCEPT !.pc = "error", !.open = @ \ {c}]
  <2>1. x \in Turn
    BY <1>t, Zenon DEF Turn, TurnPcs
  <2>2. turn' = [turn EXCEPT ![r] = x] /\ UNCHANGED <<tick, limits, buckets, window>>
    BY <1>3 DEF CheckFails
  <2> QED
    BY <2>1, <2>2, UnchargedStep
<1>4. ASSUME NEW r \in Turns, CheckPeeked(r) PROVE RateInv'
  <2> DEFINE x == [turn[r] EXCEPT !.open = @ \ {"tokens"}]
  <2>1. x \in Turn
    BY <1>t, Zenon DEF Turn
  <2>2. turn' = [turn EXCEPT ![r] = x] /\ UNCHANGED <<tick, limits, buckets, window>>
    BY <1>4 DEF CheckPeeked
  <2> QED
    BY <2>1, <2>2, UnchargedStep
<1>5. ASSUME NEW r \in Turns, ChecksAnswered(r) PROVE RateInv'
  <2> PICK pc \in TurnPcs :
        turn' = [turn EXCEPT ![r] = [@ EXCEPT !.pc = pc, !.est = 0, !.denied = {}]]
    BY <1>5, Zenon DEF ChecksAnswered, TurnPcs
  <2> DEFINE x == [turn[r] EXCEPT !.pc = pc, !.est = 0, !.denied = {}]
  <2>1. x \in Turn
    BY <1>t, Zenon DEF Turn
  <2>2. turn' = [turn EXCEPT ![r] = x] /\ UNCHANGED <<tick, limits, buckets, window>>
    BY <1>5 DEF ChecksAnswered
  <2> QED
    BY <2>1, <2>2, UnchargedStep
<1>6. ASSUME NEW r \in Turns, Answered(r) PROVE RateInv'
  <2> PICK pc \in TurnPcs : turn' = [turn EXCEPT ![r].pc = pc]
    BY <1>6, Zenon DEF Answered, TurnPcs
  <2> DEFINE x == [turn[r] EXCEPT !.pc = pc]
  <2>1. x \in Turn
    BY <1>t, Zenon DEF Turn
  <2>2. turn' = [turn EXCEPT ![r] = x] /\ UNCHANGED <<tick, limits, buckets, window>>
    BY <1>6 DEF Answered
  <2> QED
    BY <2>1, <2>2, UnchargedStep
<1>7. CASE SetLimits
  BY <1>7, SMT
  DEF SetLimits, RateInv, RateTypeOK, RowsSound, RowSound, SpentBounded, Left, Level
<1>8. CASE UNCHANGED rateVars
  BY <1>8, SMT
  DEF rateVars, RateInv, RateTypeOK, RowsSound, RowSound, SpentBounded, Left, Level
<1> QED
  BY <1>1, <1>2, <1>3, <1>4, <1>5, <1>6, <1>7, <1>8,
     ChargedStep, SettledStep, TickStep, WindowStep
  DEF RateNext

-----------------------------------------------------------------------------
(* The retry delay *)

(* A quotient rounded up, times the divisor, covers the dividend. *)
LEMMA RoundedUp ==
  \A m, n \in Nat \ {0} : ((m + n - 1) \div n) \in Nat /\ ((m + n - 1) \div n) * n >= m
  BY SMT

(* Waiting as long as RetryAfter says refills a token. *)
LEMMA InvRetries == RateInv => RetryAdmitted
<1> USE RateNumbers
<1> SUFFICES ASSUME RateInv, NEW b \in RequestBuckets, NEW lim \in RateSettings,
                    buckets[b] # NoBucket, 0 < lim.rpm, lim.rpm <= buckets[b].rate
             PROVE  Refilled(buckets[b], tick + RetryAfter(lim.rpm)) >= Minute
  BY DEF RetryAdmitted
<1> DEFINE row == buckets[b]
           w == RetryAfter(lim.rpm)
           n == (tick + w) - row.at
<1>1. /\ row.tokens \in Nat /\ row.cap \in Nat /\ row.rate \in Nat /\ row.at \in Nat
      /\ row.rate <= row.cap /\ row.at <= tick /\ tick \in Nat
  BY SMT DEF RateInv, RateTypeOK, RowsSound, RowSound, BucketRow
<1>2. lim.rpm \in Nat /\ lim.rpm # 0
  BY SMT
<1>3. w \in Nat /\ w * lim.rpm >= Minute
  <2> DEFINE q == (Minute + lim.rpm - 1) \div lim.rpm
  <2>1. q \in Nat /\ q * lim.rpm >= Minute
    BY <1>2, RoundedUp
  <2>2. q # 0
    BY <1>2, <2>1, SMT
  <2>3. w = q
    BY <2>1, <2>2, SMT DEF RetryAfter, Greater
  <2> QED
    BY <2>1, <2>3
<1>w. RetryAfter(lim.rpm) = w
  OBVIOUS
<1> HIDE DEF w
<1>4. w * lim.rpm <= w * row.rate /\ w * row.rate \in Nat
  BY <1>1, <1>2, <1>3, SMT
<1>5. n \in Nat /\ w <= n
  BY <1>1, <1>3, SMT
<1>6. w * row.rate <= n * row.rate /\ n * row.rate \in Nat
  BY <1>1, <1>3, <1>5, Monotone, SMT
<1>7. row.cap * Minute >= Minute /\ row.cap * Minute \in Nat
  <2>1. row.cap \in Nat /\ 1 <= row.cap
    BY <1>1, <1>2, SMT
  <2>2. 1 * Minute <= row.cap * Minute
    BY <2>1, Monotone
  <2> QED
    BY <2>1, <2>2, Monotone, SMT
<1>8. Minute <= n * row.rate
  BY <1>3, <1>4, <1>6, <1>2, SMT
<1> QED
  BY <1>1, <1>6, <1>7, <1>8, <1>w, SMT DEF Refilled, Lesser

-----------------------------------------------------------------------------
(* The invariant holds of every behaviour. *)
LEMMA RateInvariant == RateSpec => []RateInv
  BY RateInitInv, RateStepInv, PTL DEF RateSpec

(* Buckets, limits and requests keep their types: a charge is made of      *)
(* numbers that are there (durable/rate-limiter.ts:25-97).                 *)
THEOREM RateTypes == RateSpec => []RateTypeOK
<1>1. RateInv => RateTypeOK
  BY DEF RateInv
<1> QED
  BY <1>1, RateInvariant, PTL

(* For every number of requests and keys, whatever limits the tenant sets  *)
(* and however the checks interleave, a request bucket lets through no     *)
(* more than its largest capacity and what the largest rate refills        *)
(* (durable/rate-limiter.ts:62-97).                                        *)
THEOREM WindowNeverExceeded == RateSpec => []WindowBounded
  BY InvBounds, RateInvariant, PTL

(* The wait a refused caller is told is long enough: one token is there by *)
(* then, unless another call has taken it (durable/rate-limiter.ts:74-76). *)
THEOREM WaitIsLongEnough == RateSpec => []RetryAdmitted
  BY InvRetries, RateInvariant, PTL

-----------------------------------------------------------------------------
(* ChatRequests: types *)

Statuses == {"ok", "error"}
Costs == {"none", "zero", "priced"}
Outcomes == [status : Statuses, usage : BOOLEAN, cost : Costs]
KeyRows == ChatKeys \cup {NoChatKey}
BodyRows == Bodies \cup {NoBody}
Configurations == (UNION {ConfigsOf[p] : p \in ChatProviders}) \cup {NoConfig}

(* The targets requests name, and those with a default model filled in.    *)
Named == {TargetOf(k, b) : k \in ChatKeys, b \in Bodies} \cup {NoTarget}
NamedProviders == {t.prov : t \in Named}
NamedModels ==
  {t.model : t \in Named} \cup {DefaultModel(c, p) : c \in Configurations, p \in NamedProviders}
Targets == [prov : NamedProviders, model : NamedModels]

Requests ==
  [pc : ChatPcs, key : KeyRows, body : BodyRows, settings : ChatSettings, to : Targets,
   config : Configurations, untried : Seq(Nat), sent : Nat, oks : Nat,
   records : Seq(Outcomes), traces : Nat, by : Targets]

ChatTyped ==
  /\ chatSettings \in ChatSettings
  /\ configs \in [ChatProviders -> Configurations]
  /\ \A p \in ChatProviders : configs[p] \in ConfigsOf[p]
  /\ cache \in [Bodies -> Targets]
  /\ cursor \in {0, 1}
  /\ chat \in [Chats -> Requests]

-----------------------------------------------------------------------------
(* The invariant *)

Early == {"new", "config", "refused"}
Unsent == Early \cup {"limits", "lookup"}
Over == {"put", "answered"}

Most(config) == IF config.keys = 0 THEN 1 ELSE config.keys

(* What a request has recorded and sent, by where it stands. *)
Counted(x) ==
  /\ x.pc \in Early => x.config = NoConfig
  /\ x.pc \in Unsent => x.sent = 0 /\ x.oks = 0
  /\ x.pc \notin Over => x.records = <<>> /\ x.traces = 0 /\ x.by = NoTarget
  /\ x.pc \in Over => /\ Len(x.records) = 1
                      /\ x.traces = IF x.config.trace THEN 1 ELSE 0
                      /\ x.oks = 1 => x.records[1].status = "ok"
  /\ x.pc # "upstream" => x.untried = <<>>
  /\ x.pc = "upstream" => x.oks = 0 /\ (x.sent = 0 \/ (x.untried # <<>> /\ Compat(x)))
  /\ x.sent + Len(x.untried) <= Most(x.config)
  /\ x.pc = "streaming" => x.oks = 1
  /\ x.pc = "put" => x.oks = 1 /\ ~x.body.stream
  /\ x.pc = "broken" /\ x.oks = 1 => ~x.body.stream
  /\ x.oks <= 1

(* What it was checked for. *)
ProviderChecked(x) ==
  /\ x.key \in ChatKeys /\ x.body \in Bodies
  /\ x.key.bound # "" => x.to.prov = Canonical(x.key.bound)
  /\ ProviderAllowed(x.key, x.to.prov)
Checked(x) == ProviderChecked(x) /\ ModelAllowed({x.settings.allow, x.key.models}, x.to)

Permitted(x) ==
  /\ x.pc # "new" => x.key \in ChatKeys /\ x.body \in Bodies
  /\ x.pc \notin {"new", "refused"} => ProviderChecked(x)
  /\ x.pc \notin Early => Checked(x) /\ x.config.present /\ x.config \in ConfigsOf[x.to.prov]

ChatsSound == \A r \in Chats : Counted(chat[r]) /\ Permitted(chat[r])

ChatInv == ChatTyped /\ ChatsSound /\ CacheHoldsCompletions

-----------------------------------------------------------------------------
(* Facts about the constants *)

(* What stands for nothing is of its type. *)
LEMMA Nothings ==
  /\ NoConfig.keys = 0 /\ ~NoConfig.present /\ NoConfig \in Configurations
  /\ NoTarget \in Targets /\ NoChatKey \in KeyRows /\ NoBody \in BodyRows
  /\ NoTarget.prov \in NamedProviders
<1>1. NoConfig.keys = 0 /\ ~NoConfig.present
  BY Zenon DEF NoConfig
<1>2. NoTarget.prov \in NamedProviders /\ NoTarget.model \in NamedModels
  <2>1. NoTarget \in Named
    BY DEF Named
  <2> QED
    BY <2>1 DEF NamedProviders, NamedModels
<1>3. NoTarget = [prov |-> NoTarget.prov, model |-> NoTarget.model]
  BY Zenon DEF NoTarget
<1>4. NoTarget \in Targets
  BY <1>2, <1>3, Zenon DEF Targets
<1>5. NoConfig \in Configurations /\ NoChatKey \in KeyRows /\ NoBody \in BodyRows
  BY DEF Configurations, KeyRows, BodyRows
<1> QED
  BY <1>1, <1>2, <1>4, <1>5

(* A configuration has a number of keys, and one is tried at least. *)
LEMMA ConfigKeys ==
  ASSUME NEW c \in Configurations
  PROVE  c.keys \in Nat /\ Most(c) \in Nat /\ 1 <= Most(c)
<1>1. c.keys \in Nat
  <2>1. CASE c = NoConfig
    BY <2>1, Nothings
  <2>2. CASE c # NoConfig
    <3>1. PICK p \in ChatProviders : c \in ConfigsOf[p]
      BY <2>2 DEF Configurations
    <3> QED
      BY <3>1, ChatAssumption
  <2> QED
    BY <2>1, <2>2
<1> QED
  BY <1>1, SMT DEF Most

(* The target of a request has the type of a target. *)
LEMMA TargetTyped ==
  ASSUME NEW key \in ChatKeys, NEW body \in Bodies
  PROVE  TargetOf(key, body) \in Targets
<1> DEFINE t == TargetOf(key, body)
<1>1. t = NoTarget \/ t = [prov |-> t.prov, model |-> t.model]
  BY Zenon DEF TargetOf
<1>2. t \in Named
  BY DEF Named
<1> HIDE DEF t
<1> SUFFICES t \in Targets
  BY DEF t
<1>3. t.prov \in NamedProviders /\ t.model \in NamedModels
  BY <1>2 DEF NamedProviders, NamedModels
<1>4. CASE t = NoTarget
  BY <1>4, Nothings
<1>5. CASE t = [prov |-> t.prov, model |-> t.model]
  <2> DEFINE p == t.prov  m == t.model
  <2>1. t = [prov |-> p, model |-> m] /\ p \in NamedProviders /\ m \in NamedModels
    BY <1>3, <1>5
  <2> HIDE DEF p, m
  <2> QED
    BY <2>1 DEF Targets
<1> QED
  BY <1>1, <1>4, <1>5

(* The number of keys that may be tried. *)
LEMMA OrderLength ==
  ASSUME NEW x \in Requests, NEW n \in {0, 1}
  PROVE  /\ KeyOrder(x, n) \in Seq(Nat)
         /\ 1 <= Len(KeyOrder(x, n)) /\ Len(KeyOrder(x, n)) <= Most(x.config)
<1> DEFINE keys == x.config.keys
           start == IF x.config.strategy = "round-robin" THEN n ELSE 0
           turned == [i \in 1..keys |-> ((start + i - 1) % keys) + 1]
<1>1. x.config \in Configurations
  BY Zenon DEF Requests
<1>2. keys \in Nat /\ Most(x.config) = IF keys = 0 THEN 1 ELSE keys
  BY <1>1, ConfigKeys DEF Most
<1>3. \/ keys = 0 /\ KeyOrder(x, n) = <<0>>
      \/ keys # 0 /\ KeyOrder(x, n) = <<1>>
      \/ keys # 0 /\ KeyOrder(x, n) = turned
  BY Zenon DEF KeyOrder
<1>4. start \in Nat
  BY SMT
<1> HIDE DEF keys, start
<1>5. keys # 0 => turned \in Seq(Nat) /\ Len(turned) = keys
  BY <1>2, <1>4, SMT
<1> HIDE DEF turned
<1>6. /\ <<0>> \in Seq(Nat) /\ Len(<<0>>) = 1
      /\ <<1>> \in Seq(Nat) /\ Len(<<1>>) = 1
  BY SMT
<1>7. CASE KeyOrder(x, n) = <<0>>
  BY <1>2, <1>6, <1>7, SMT
<1>8. CASE KeyOrder(x, n) = <<1>> /\ keys # 0
  BY <1>2, <1>6, <1>8, SMT
<1>9. CASE KeyOrder(x, n) = turned /\ keys # 0
  BY <1>2, <1>5, <1>9, SMT
<1> QED
  BY <1>3, <1>7, <1>8, <1>9

-----------------------------------------------------------------------------
(* Records *)

(* A request is typed as each of its fields is. *)
LEMMA RequestFields ==
  ASSUME NEW x \in Requests
  PROVE  /\ x.pc \in ChatPcs /\ x.key \in KeyRows /\ x.body \in BodyRows
         /\ x.settings \in ChatSettings /\ x.to \in Targets /\ x.config \in Configurations
         /\ x.untried \in Seq(Nat) /\ x.sent \in Nat /\ x.oks \in Nat
         /\ x.records \in Seq(Outcomes) /\ x.traces \in Nat /\ x.by \in Targets
  BY Zenon DEF Requests

(* What record() changes. *)
SameRequest(x, y) ==
  /\ y.key = x.key /\ y.body = x.body /\ y.settings = x.settings /\ y.to = x.to
  /\ y.config = x.config /\ y.sent = x.sent /\ y.oks = x.oks

(* record() appends one metric and changes nothing it should keep. *)
LEMMA RecordedFields ==
  ASSUME NEW x \in Requests, NEW status \in Statuses, NEW usage \in BOOLEAN, NEW cost \in Costs
  PROVE  LET y == Recorded(x, status, usage, cost) IN
         /\ y \in Requests /\ SameRequest(x, y) /\ y.pc = x.pc /\ y.by = x.by
         /\ y.records = Append(x.records, [status |-> status, usage |-> usage, cost |-> cost])
         /\ y.traces = IF x.config.trace THEN x.traces + 1 ELSE x.traces
         /\ y.untried = <<>>
<1> DEFINE e == [status |-> status, usage |-> usage, cost |-> cost]
           recs == Append(x.records, e)
           traces == IF x.config.trace THEN x.traces + 1 ELSE x.traces
           y == [x EXCEPT !.records = recs, !.traces = traces, !.untried = <<>>]
<1>1. e \in Outcomes
  BY Zenon DEF Outcomes
<1>2. recs \in Seq(Outcomes)
  <2> HIDE DEF e
  <2> QED
    BY <1>1, RequestFields, SMT
<1>3. traces \in Nat
  BY RequestFields, SMT
<1>4. <<>> \in Seq(Nat)
  BY SMT
<1>5. Recorded(x, status, usage, cost) = y
  BY Zenon DEF Recorded
<1> HIDE DEF recs, traces
<1>6. y \in Requests /\ y.pc = x.pc /\ y.by = x.by /\ y.records = recs /\ y.traces = traces
      /\ y.untried = <<>>
  BY <1>2, <1>3, <1>4, Zenon DEF Requests
<1>7. SameRequest(x, y)
  BY Zenon DEF Requests, SameRequest
<1> HIDE DEF y
<1> QED
  BY <1>5, <1>6, <1>7, Zenon DEF recs, traces

-----------------------------------------------------------------------------
(* Steps of a request *)

(* What the invariant says of one request. *)
LEMMA ChatFacts ==
  ASSUME ChatInv, NEW r \in Chats
  PROVE  chat[r] \in Requests /\ Counted(chat[r]) /\ Permitted(chat[r])
  BY SMT DEF ChatInv, ChatTyped, ChatsSound

(* A request goes on to a sound state; what it answered stays, and what is *)
(* cached was there or is its answer.                                      *)
LEMMA ChatMoves ==
  ASSUME ChatInv, NEW r \in Chats, NEW y \in Requests, Becomes(r, y),
         Counted(y), Permitted(y),
         UNCHANGED <<chatSettings, configs>>, cursor' \in {0, 1},
         cache' \in [Bodies -> Targets],
         \A b \in Bodies :
           \/ cache'[b] \in {NoTarget, cache[b]}
           \/ ~b.stream /\ y.body = b /\ y.oks = 1 /\ y.by = cache'[b],
         \/ chat[r].by = NoTarget
         \/ y.body = chat[r].body /\ y.oks = chat[r].oks /\ y.by = chat[r].by
  PROVE  ChatInv'
<1>1. ChatTyped'
  BY SMT DEF ChatInv, ChatTyped, Becomes
<1>2. \A q \in Chats : chat'[q] = IF q = r THEN y ELSE chat[q]
  BY SMT DEF ChatInv, ChatTyped, Becomes
<1>3. ChatsSound'
  <2> SUFFICES ASSUME NEW q \in Chats PROVE Counted(chat'[q]) /\ Permitted(chat'[q])
    BY DEF ChatsSound, Counted, Permitted, ProviderChecked, Checked, ProviderAllowed,
           ModelAllowed, Canonical, Compat
  <2> QED
    BY <1>2, ChatFacts
<1>4. CacheHoldsCompletions'
  <2> SUFFICES ASSUME NEW b \in Bodies, cache'[b] # NoTarget
               PROVE  /\ ~b.stream
                      /\ \E q \in Chats : /\ chat'[q].body = b /\ chat'[q].oks = 1
                                          /\ chat'[q].by = cache'[b]
    BY DEF CacheHoldsCompletions
  <2>1. CASE cache'[b] = cache[b]
    <3>1. PICK q \in Chats : chat[q].body = b /\ chat[q].oks = 1 /\ chat[q].by = cache[b]
      BY <2>1 DEF ChatInv, CacheHoldsCompletions
    <3>2. chat'[q].body = b /\ chat'[q].oks = 1 /\ chat'[q].by = cache'[b]
      BY <1>2, <2>1, <3>1
    <3>3. ~b.stream
      BY <2>1 DEF ChatInv, CacheHoldsCompletions
    <3> QED
      BY <3>2, <3>3
  <2>2. CASE ~b.stream /\ y.body = b /\ y.oks = 1 /\ y.by = cache'[b]
    BY <1>2, <2>2
  <2> QED
    BY <2>1, <2>2
<1> QED
  BY <1>1, <1>3, <1>4 DEF ChatInv

(* Most steps leave the cache alone, of a request without an answer.       *)
LEMMA ChatGoesOn ==
  ASSUME ChatInv, NEW r \in Chats, NEW y \in Requests, Becomes(r, y),
         Counted(y), Permitted(y), chat[r].pc \notin Over,
         UNCHANGED <<chatSettings, configs, cache>>, cursor' \in {0, 1}
  PROVE  ChatInv'
<1>1. chat[r].by = NoTarget
  BY ChatFacts DEF Counted
<1>2. cache' \in [Bodies -> Targets] /\ \A b \in Bodies : cache'[b] = cache[b]
  BY DEF ChatInv, ChatTyped
<1> QED
  BY <1>1, <1>2, ChatMoves

(* The cursor is 0 or 1 where it is left alone. *)
LEMMA CursorStays ==
  ASSUME ChatInv, cursor' = cursor
  PROVE  cursor' \in {0, 1}
  BY DEF ChatInv, ChatTyped

(* And where it turns. *)
LEMMA CursorTurns ==
  ASSUME ChatInv, NEW x, TurnCursor(x)
  PROVE  cursor' \in {0, 1}
  BY SMT DEF ChatInv, ChatTyped, TurnCursor

(* A request that has not been recorded yet is, and is over. *)
LEMMA RecordedOver ==
  ASSUME NEW x \in Requests, NEW z \in Requests, NEW y \in Requests,
         NEW status \in Statuses, NEW usage \in BOOLEAN, NEW cost \in Costs,
         x.records = <<>>, x.traces = 0, x.sent <= Most(x.config), x.oks <= 1,
         x.oks = 1 => status = "ok", Checked(x),
         x.config.present, x.config \in ConfigsOf[x.to.prov],
         z = Recorded(x, status, usage, cost),
         SameRequest(z, y), y.records = z.records, y.traces = z.traces, y.untried = z.untried,
         y.pc \in Over, y.pc = "put" => x.oks = 1 /\ ~x.body.stream
  PROVE  Counted(y) /\ Permitted(y)
<1> DEFINE e == [status |-> status, usage |-> usage, cost |-> cost]
<1>1. /\ SameRequest(x, y) /\ y.records = Append(x.records, e) /\ y.untried = <<>>
      /\ y.traces = IF x.config.trace THEN x.traces + 1 ELSE x.traces
  <2>1. /\ SameRequest(x, z) /\ z.records = Append(x.records, e) /\ z.untried = <<>>
        /\ z.traces = IF x.config.trace THEN x.traces + 1 ELSE x.traces
    BY RecordedFields
  <2> HIDE DEF e
  <2> QED
    BY <2>1, Zenon DEF SameRequest
<1>2. e.status = status
  BY Zenon
<1> HIDE DEF e
<1>3. Len(y.records) = 1 /\ y.records[1].status = status
  BY <1>1, <1>2, SMT
<1>4. y.traces = IF y.config.trace THEN 1 ELSE 0
  BY <1>1, SMT DEF SameRequest
<1>5. /\ y.pc \notin Unsent /\ y.pc # "upstream" /\ y.pc # "streaming" /\ y.pc # "broken"
      /\ Len(y.untried) = 0
  BY <1>1, SMT DEF Over, Unsent, Early
<1>6. Most(y.config) = Most(x.config) /\ y.sent = x.sent /\ y.oks = x.oks
  BY <1>1 DEF SameRequest
<1>7. Counted(y)
  <2>1. x.sent \in Nat
    BY RequestFields
  <2>2. y.sent + Len(y.untried) <= Most(y.config)
    BY <1>5, <1>6, <2>1, ConfigKeys, RequestFields, SMT
  <2>3. y.pc = "put" => y.oks = 1 /\ ~y.body.stream
    BY <1>1 DEF SameRequest
  <2>4. y.pc \notin Early
    BY <1>5 DEF Unsent
  <2> HIDE DEF Unsent, Early, Over
  <2> QED
    BY <1>1, <1>3, <1>4, <1>5, <1>6, <2>2, <2>3, <2>4, Zenon DEF Counted
<1>8. Checked(y) /\ y.config.present /\ y.config \in ConfigsOf[y.to.prov]
  BY <1>1, Zenon DEF SameRequest, Checked, ProviderChecked
<1> QED
  BY <1>7, <1>8 DEF Permitted, Checked, ProviderChecked

-----------------------------------------------------------------------------
(* Each action *)

(* Refuse keeps the invariant. *)
LEMMA RefuseKeeps ==
  ASSUME ChatInv, NEW r \in Chats, chat[r].pc \in Unsent \ {"new"}, Refuse(r),
         UNCHANGED <<chatSettings, configs, cache, cursor>>
  PROVE  ChatInv'
<1> DEFINE x == chat[r]
           y == [x EXCEPT !.pc = "refused", !.config = NoConfig]
<1>1. x \in Requests /\ Counted(x)
  BY ChatFacts
<1>2. /\ y \in Requests /\ y.pc = "refused" /\ y.config = NoConfig /\ y.untried = x.untried
      /\ y.sent = x.sent /\ y.oks = x.oks /\ y.records = x.records /\ y.traces = x.traces
      /\ y.by = x.by
  BY <1>1, Nothings, Zenon DEF Requests, ChatPcs
<1>3. Becomes(r, y)
  BY DEF Refuse
<1> HIDE DEF y
<1>4. /\ x.sent = 0 /\ x.oks = 0 /\ x.records = <<>> /\ x.traces = 0 /\ x.by = NoTarget
      /\ x.untried = <<>> /\ x.pc \notin Over
  BY <1>1, SMT DEF Counted, Unsent, Early, Over
<1>5. Most(NoConfig) = 1
  BY Nothings DEF Most
<1>6. Counted(y)
  BY <1>2, <1>4, <1>5, SMT DEF Counted, Unsent, Early, Over
<1>7. Permitted(y)
  <2>1. x.pc # "new" /\ Permitted(x)
    BY ChatFacts, SMT
  <2>2. y.key = x.key /\ y.body = x.body
    BY <1>1, Nothings, Zenon DEF y, Requests
  <2> QED
    BY <1>2, <2>1, <2>2, SMT DEF Permitted, Early
<1> QED
  BY <1>2, <1>3, <1>4, <1>6, <1>7, CursorStays, ChatGoesOn

(* StartChat keeps the invariant. *)
LEMMA StartChatKeeps ==
  ASSUME ChatInv, NEW r \in Chats, NEW key \in ChatKeys, NEW body \in Bodies,
         StartChat(r, key, body)
  PROVE  ChatInv'
<1> DEFINE x == chat[r]
           to == TargetOf(key, body)
           z == [x EXCEPT !.key = key, !.body = body, !.settings = chatSettings, !.to = to]
           ok == /\ chatSettings.active
                 /\ ~Mismatch(key, body)
                 /\ to # NoTarget
                 /\ ProviderAllowed(key, to.prov)
           pc == IF ok THEN "config" ELSE "refused"
           y == [z EXCEPT !.pc = pc]
<1>1. x \in Requests /\ Counted(x) /\ x.pc = "new"
  BY ChatFacts DEF StartChat
<1>2. key \in KeyRows /\ body \in BodyRows /\ chatSettings \in ChatSettings /\ to \in Targets
  BY TargetTyped DEF KeyRows, BodyRows, ChatInv, ChatTyped
<1>3. z \in Requests /\ z.to = to
  <2> HIDE DEF to
  <2> QED
    BY <1>1, <1>2, Zenon DEF Requests
<1>4. pc \in {"config", "refused"} /\ pc \in ChatPcs
  BY DEF ChatPcs
<1>5. Becomes(r, y) /\ UNCHANGED <<chatSettings, configs, cache, cursor>>
  BY <1>3, Zenon DEF StartChat
<1>6. pc = "config" => ProviderAllowed(key, to.prov)
  OBVIOUS
<1>7. key.bound # "" => to.prov = Canonical(key.bound)
  BY Zenon DEF TargetOf
<1> HIDE DEF pc, to, ok
<1>8. /\ z.key = key /\ z.body = body /\ z.config = x.config /\ z.untried = x.untried
      /\ z.sent = x.sent /\ z.oks = x.oks /\ z.records = x.records /\ z.traces = x.traces
      /\ z.by = x.by
  BY <1>1, <1>2, Zenon DEF Requests
<1> HIDE DEF z
<1>9. /\ y \in Requests /\ y.pc = pc /\ y.key = z.key /\ y.body = z.body /\ y.to = z.to
      /\ y.config = z.config /\ y.untried = z.untried /\ y.sent = z.sent /\ y.oks = z.oks
      /\ y.records = z.records /\ y.traces = z.traces /\ y.by = z.by
  BY <1>3, <1>4, Zenon DEF Requests
<1> HIDE DEF y
<1>10. Counted(y)
  BY <1>1, <1>4, <1>8, <1>9, SMT DEF Counted, Unsent, Early, Over
<1>11. pc = "config" => ProviderChecked(y)
  BY <1>3, <1>6, <1>7, <1>8, <1>9, Zenon DEF ProviderChecked
<1>12. Permitted(y)
  BY <1>4, <1>8, <1>9, <1>11, SMT DEF Permitted, Early
<1>13. x.pc \notin Over
  BY <1>1, SMT DEF Over
<1> QED
  BY <1>5, <1>9, <1>10, <1>12, <1>13, CursorStays, ChatGoesOn

(* ReadConfig keeps the invariant. *)
LEMMA ReadConfigKeeps ==
  ASSUME ChatInv, NEW r \in Chats, ReadConfig(r)
  PROVE  ChatInv'
<1> DEFINE x == chat[r]
           c == IF x.to.prov \in ChatProviders THEN configs[x.to.prov] ELSE NoConfig
           to == IF c.present /\ x.to.model = ""
                   THEN [x.to EXCEPT !.model = DefaultModel(c, x.to.prov)] ELSE x.to
           y == [x EXCEPT !.pc = "limits", !.config = c, !.to = to]
<1>1. /\ x \in Requests /\ Counted(x) /\ Permitted(x) /\ x.pc = "config"
      /\ UNCHANGED <<chatSettings, configs, cache, cursor>>
  BY ChatFacts DEF ReadConfig
<1>2. CASE Refuse(r)
  BY <1>1, <1>2, RefuseKeeps, SMT DEF Unsent, Early
<1>3. CASE /\ Becomes(r, y) /\ c.present
           /\ ModelAllowed({x.settings.allow, x.key.models}, to)
  <2>1. c \in Configurations /\ (c # NoConfig => c \in ConfigsOf[x.to.prov])
    BY Nothings DEF ChatInv, ChatTyped
  <2>p. c.present
    BY <1>3
  <2> HIDE DEF c
  <2>2. c # NoConfig
    BY <2>p, Nothings
  <2>3. x.to \in Targets
    BY <1>1, RequestFields
  <2>4. /\ x.to = [prov |-> x.to.prov, model |-> x.to.model]
        /\ x.to.prov \in NamedProviders /\ x.to.model \in NamedModels
    BY <2>3, Zenon DEF Targets
  <2>5. DefaultModel(c, x.to.prov) \in NamedModels
    BY <2>1, <2>4 DEF NamedModels
  <2>6. to \in Targets /\ to.prov = x.to.prov
    <3> DEFINE m == DefaultModel(c, x.to.prov)
               t == [x.to EXCEPT !.model = m]
    <3>1. t \in Targets /\ t.prov = x.to.prov
      <4> HIDE DEF m
      <4> QED
        BY <2>3, <2>5, Zenon DEF Targets, m
    <3>2. to = t \/ to = x.to
      BY Zenon
    <3> HIDE DEF t, to
    <3> QED
      BY <2>3, <3>1, <3>2, Zenon
  <2> HIDE DEF to
  <2>7. /\ y \in Requests /\ y.pc = "limits" /\ y.key = x.key /\ y.body = x.body /\ y.to = to
        /\ y.settings = x.settings
        /\ y.config = c /\ y.untried = x.untried /\ y.sent = x.sent /\ y.oks = x.oks
        /\ y.records = x.records /\ y.traces = x.traces /\ y.by = x.by
    BY <1>1, <2>1, <2>6, Zenon DEF Requests, ChatPcs
  <2> HIDE DEF y
  <2>8. Counted(y)
    <3>1. /\ x.sent = 0 /\ x.oks = 0 /\ x.records = <<>> /\ x.traces = 0 /\ x.by = NoTarget
          /\ x.untried = <<>>
      BY <1>1, SMT DEF Counted, Unsent, Early, Over
    <3>2. Most(c) \in Nat /\ 1 <= Most(c)
      BY <2>1, ConfigKeys
    <3> QED
      BY <2>7, <3>1, <3>2, SMT DEF Counted, Unsent, Early, Over
  <2>9. ProviderChecked(x)
    BY <1>1, SMT DEF Permitted
  <2>10. Checked(y) /\ y.config.present /\ y.config \in ConfigsOf[y.to.prov]
    BY <1>3, <2>p, <2>1, <2>2, <2>6, <2>7, <2>9, Zenon DEF Checked, ProviderChecked
  <2>11. Permitted(y)
    BY <2>10 DEF Permitted, Checked, ProviderChecked
  <2>12. x.pc \notin Over
    BY <1>1, SMT DEF Over
  <2> QED
    BY <1>1, <1>3, <2>7, <2>8, <2>11, <2>12, CursorStays, ChatGoesOn
<1> QED
  BY <1>2, <1>3, Zenon DEF ReadConfig

(* A step that only says where the request goes, before it is sent. *)
LEMMA UnsentGoesOn ==
  ASSUME ChatInv, NEW r \in Chats, NEW pc \in {"lookup", "upstream"},
         chat[r].pc \in {"limits", "lookup"}, Becomes(r, [chat[r] EXCEPT !.pc = pc]),
         UNCHANGED <<chatSettings, configs, cursor>>,
         cache' \in [Bodies -> Targets],
         \A b \in Bodies : cache'[b] \in {NoTarget, cache[b]}
  PROVE  ChatInv'
<1> DEFINE x == chat[r]
           y == [x EXCEPT !.pc = pc]
<1>1. x \in Requests /\ Counted(x) /\ Permitted(x)
  BY ChatFacts
<1>2. pc \in ChatPcs
  BY DEF ChatPcs
<1>3. /\ y \in Requests /\ y.pc = pc /\ y.key = x.key /\ y.body = x.body /\ y.to = x.to
      /\ y.settings = x.settings
      /\ y.config = x.config /\ y.untried = x.untried /\ y.sent = x.sent /\ y.oks = x.oks
      /\ y.records = x.records /\ y.traces = x.traces /\ y.by = x.by
  BY <1>1, <1>2, Zenon DEF Requests
<1>4. Becomes(r, y)
  OBVIOUS
<1> HIDE DEF y
<1>5. x.by = NoTarget
  BY <1>1, SMT DEF Counted, Over
<1>6. Counted(y)
  BY <1>1, <1>3, SMT DEF Counted, Unsent, Early, Over
<1>7. Checked(x) /\ x.config.present /\ x.config \in ConfigsOf[x.to.prov]
  BY <1>1, SMT DEF Permitted, Early
<1>8. Checked(y) /\ y.config.present /\ y.config \in ConfigsOf[y.to.prov]
  BY <1>3, <1>7, Zenon DEF Checked, ProviderChecked
<1>9. Permitted(y)
  BY <1>8 DEF Permitted, Checked, ProviderChecked
<1> QED
  BY <1>3, <1>4, <1>5, <1>6, <1>9, CursorStays, ChatMoves

(* EnterRoute keeps the invariant. *)
LEMMA EnterRouteKeeps ==
  ASSUME ChatInv, NEW r \in Chats, EnterRoute(r)
  PROVE  ChatInv'
<1> DEFINE pc == IF Cacheable(chat[r]) THEN "lookup" ELSE "upstream"
<1>1. chat[r].pc = "limits" /\ UNCHANGED <<chatSettings, configs, cache, cursor>>
  BY DEF EnterRoute
<1>2. CASE Refuse(r)
  BY <1>1, <1>2, RefuseKeeps, SMT DEF Unsent
<1>3. CASE Becomes(r, [chat[r] EXCEPT !.pc = pc])
  <2>1. pc \in {"lookup", "upstream"}
    OBVIOUS
  <2> HIDE DEF pc
  <2>2. cache' \in [Bodies -> Targets] /\ \A b \in Bodies : cache'[b] \in {NoTarget, cache[b]}
    BY <1>1 DEF ChatInv, ChatTyped
  <2> QED
    BY <1>1, <1>3, <2>1, <2>2, UnsentGoesOn
<1> QED
  BY <1>2, <1>3, Zenon DEF EnterRoute

(* CacheMiss keeps the invariant. *)
LEMMA CacheMissKeeps ==
  ASSUME ChatInv, NEW r \in Chats, CacheMiss(r)
  PROVE  ChatInv'
<1>1. /\ chat[r].pc = "lookup" /\ cache' = [cache EXCEPT ![chat[r].body] = NoTarget]
      /\ Becomes(r, [chat[r] EXCEPT !.pc = "upstream"])
      /\ UNCHANGED <<chatSettings, configs, cursor>>
  BY DEF CacheMiss
<1>2. cache \in [Bodies -> Targets]
  BY DEF ChatInv, ChatTyped
<1>3. cache' \in [Bodies -> Targets] /\ \A b \in Bodies : cache'[b] \in {NoTarget, cache[b]}
  BY <1>1, <1>2, Nothings
<1> QED
  BY <1>1, <1>3, UnsentGoesOn

(* CacheHit keeps the invariant. *)
LEMMA CacheHitKeeps ==
  ASSUME ChatInv, NEW r \in Chats, CacheHit(r)
  PROVE  ChatInv'
<1> DEFINE x == chat[r]
           z == Recorded(x, "ok", FALSE, "none")
           by == cache[x.body]
           y == [z EXCEPT !.pc = "answered", !.by = by]
<1>1. /\ x \in Requests /\ Counted(x) /\ Permitted(x) /\ x.pc = "lookup"
      /\ Becomes(r, y) /\ UNCHANGED <<chatSettings, configs, cache, cursor>>
  BY ChatFacts, Zenon DEF CacheHit
<1>2. "ok" \in Statuses /\ FALSE \in BOOLEAN /\ "none" \in Costs
  BY DEF Statuses, Costs
<1>3. z \in Requests
  BY <1>1, <1>2, RecordedFields
<1> HIDE DEF z
<1>4. Checked(x) /\ x.config.present /\ x.config \in ConfigsOf[x.to.prov]
  BY <1>1, SMT DEF Permitted, Early
<1>5. by \in Targets
  BY <1>4 DEF Checked, ProviderChecked, ChatInv, ChatTyped
<1> HIDE DEF by
<1>6. /\ y \in Requests /\ y.pc = "answered" /\ y.records = z.records /\ y.traces = z.traces
      /\ y.untried = z.untried /\ SameRequest(z, y)
  BY <1>3, <1>5, Zenon DEF Requests, ChatPcs, SameRequest
<1> HIDE DEF y
<1>7. /\ x.sent = 0 /\ x.oks = 0 /\ x.records = <<>> /\ x.traces = 0 /\ x.pc \notin Over
  BY <1>1, SMT DEF Counted, Unsent, Early, Over
<1>8. x.sent <= Most(x.config)
  BY <1>1, <1>7, RequestFields, ConfigKeys, SMT
<1>9. y.pc \in Over
  BY <1>6 DEF Over
<1>10. z = Recorded(x, "ok", FALSE, "none")
  BY DEF z
<1>11. Counted(y) /\ Permitted(y)
  <2>1. x.oks <= 1 /\ y.pc # "put"
    BY <1>6, <1>7, SMT
  <2> QED
    BY <1>1, <1>2, <1>3, <1>4, <1>6, <1>7, <1>8, <1>9, <1>10, <2>1, RecordedOver
<1> QED
  BY <1>1, <1>6, <1>7, <1>11, CursorStays, ChatGoesOn

(* A step that completes a request, with an answer or with a failure, once *)
(* it has been sent as x says.                                             *)
LEMMA Completes ==
  ASSUME ChatInv, NEW r \in Chats, chat[r].pc \notin Over,
         NEW x \in Requests, NEW status \in Statuses, NEW usage \in BOOLEAN, NEW cost \in Costs,
         NEW z, z = Recorded(x, status, usage, cost),
         NEW y, Becomes(r, y),
         \/ y = [z EXCEPT !.pc = "answered"]
         \/ y = [z EXCEPT !.pc = IF Cacheable(x) THEN "put" ELSE "answered", !.by = x.to],
         x.records = <<>>, x.traces = 0, x.sent <= Most(x.config), x.oks <= 1,
         x.oks = 1 => status = "ok", Checked(x),
         x.config.present, x.config \in ConfigsOf[x.to.prov],
         y.pc = "put" => x.oks = 1,
         UNCHANGED <<chatSettings, configs, cache>>, cursor' \in {0, 1}
  PROVE  ChatInv'
<1>1. z \in Requests /\ SameRequest(x, z)
  BY RecordedFields
<1>2. /\ y \in Requests /\ y.records = z.records /\ y.traces = z.traces
      /\ y.untried = z.untried /\ SameRequest(z, y)
      /\ y.pc \in {"put", "answered"} /\ (y.pc = "put" => Cacheable(x))
  <2>1. CASE y = [z EXCEPT !.pc = "answered"]
    <3>1. /\ y \in Requests /\ y.records = z.records /\ y.traces = z.traces
          /\ y.untried = z.untried /\ SameRequest(z, y) /\ y.pc = "answered"
      BY <1>1, <2>1, Zenon DEF Requests, ChatPcs, SameRequest
    <3> QED
      BY <3>1
  <2>2. CASE y = [z EXCEPT !.pc = IF Cacheable(x) THEN "put" ELSE "answered", !.by = x.to]
    <3> DEFINE pc == IF Cacheable(x) THEN "put" ELSE "answered"
    <3>1. pc \in ChatPcs /\ pc \in {"put", "answered"} /\ (pc = "put" => Cacheable(x))
      BY DEF ChatPcs
    <3>2. x.to \in Targets
      BY RequestFields
    <3>3. y = [z EXCEPT !.pc = pc, !.by = x.to]
      BY <2>2
    <3> HIDE DEF pc
    <3>4. /\ y \in Requests /\ y.records = z.records /\ y.traces = z.traces
          /\ y.untried = z.untried /\ SameRequest(z, y) /\ y.pc = pc
      BY <1>1, <3>1, <3>2, <3>3, Zenon DEF Requests, SameRequest
    <3> QED
      BY <3>1, <3>4
  <2> QED
    BY <2>1, <2>2
<1>3. y.pc \in Over
  BY <1>2 DEF Over
<1>4. y.pc = "put" => x.oks = 1 /\ ~x.body.stream
  BY <1>2 DEF Cacheable
<1>5. Counted(y) /\ Permitted(y)
  BY <1>1, <1>2, <1>3, <1>4, RecordedOver
<1> QED
  BY <1>2, <1>5, ChatGoesOn

(* A request that has been sent and is to be recorded. *)
Recordable(x) ==
  /\ x.records = <<>> /\ x.traces = 0 /\ x.sent <= Most(x.config) /\ x.oks \in {0, 1}
  /\ Checked(x) /\ x.config.present /\ x.config \in ConfigsOf[x.to.prov]

(* A failure is recorded, and the request is over. *)
LEMMA FailureKeeps ==
  ASSUME ChatInv, NEW r \in Chats, chat[r].pc \notin Over,
         NEW x \in Requests, Recordable(x), x.oks = 0,
         NEW status \in Statuses, NEW usage \in BOOLEAN, NEW cost \in Costs,
         Becomes(r, [Recorded(x, status, usage, cost) EXCEPT !.pc = "answered"]),
         UNCHANGED <<chatSettings, configs, cache>>, cursor' \in {0, 1}
  PROVE  ChatInv'
<1> DEFINE z == Recorded(x, status, usage, cost)
           y == [z EXCEPT !.pc = "answered"]
<1>1. z \in Requests
  BY RecordedFields
<1> HIDE DEF z
<1>2. y.pc = "answered"
  BY <1>1, Zenon DEF Requests
<1>3. x.oks <= 1 /\ x.oks # 1 /\ y.pc # "put"
  BY <1>2, SMT
<1>4. Becomes(r, y) /\ z = Recorded(x, status, usage, cost)
  BY DEF z
<1>5. y = [z EXCEPT !.pc = "answered"]
  OBVIOUS
<1> HIDE DEF y
<1> QED
  BY <1>3, <1>4, <1>5, Completes DEF Recordable

(* A completion is recorded, and the request is over or put. *)
LEMMA CompletionKeeps ==
  ASSUME ChatInv, NEW r \in Chats, chat[r].pc \notin Over,
         NEW x \in Requests, Recordable(x), x.oks = 1 \/ x.body.stream,
         NEW usage \in BOOLEAN, NEW cost \in Costs,
         Becomes(r, Completed(x, usage, cost)),
         UNCHANGED <<chatSettings, configs, cache>>, cursor' \in {0, 1}
  PROVE  ChatInv'
<1> DEFINE z == Recorded(x, "ok", usage, cost)
           pc == IF Cacheable(x) THEN "put" ELSE "answered"
           y == [z EXCEPT !.pc = pc, !.by = x.to]
<1>1. "ok" \in Statuses
  BY DEF Statuses
<1>2. z \in Requests
  BY <1>1, RecordedFields
<1>3. pc \in ChatPcs /\ (pc = "put" => ~x.body.stream)
  BY DEF Cacheable, ChatPcs
<1>4. Becomes(r, y) /\ z = Recorded(x, "ok", usage, cost)
  BY Zenon DEF Completed
<1> HIDE DEF z
<1>5. y = [z EXCEPT !.pc = IF Cacheable(x) THEN "put" ELSE "answered", !.by = x.to]
  BY Zenon
<1> HIDE DEF pc
<1>6. y.pc = pc
  BY <1>2, <1>3, RequestFields, Zenon DEF Requests
<1> HIDE DEF y
<1>7. y.pc = "put" => x.oks = 1
  BY <1>3, <1>6
<1>8. x.oks <= 1
  BY SMT DEF Recordable
<1> QED
  BY <1>1, <1>4, <1>5, <1>7, <1>8, Completes DEF Recordable

(* What holds of a request about to be sent. *)
LEMMA Upstream ==
  ASSUME ChatInv, NEW r \in Chats, chat[r].pc = "upstream"
  PROVE  LET x == chat[r] IN
         /\ x \in Requests /\ x.pc \notin Over
         /\ x.records = <<>> /\ x.traces = 0 /\ x.by = NoTarget /\ x.oks = 0
         /\ Checked(x) /\ x.config.present /\ x.config \in ConfigsOf[x.to.prov]
         /\ x.sent = 0 \/ (x.untried # <<>> /\ Compat(x))
         /\ x.sent + Len(x.untried) <= Most(x.config)
<1> DEFINE x == chat[r]
<1>1. x \in Requests /\ Counted(x) /\ Permitted(x)
  BY ChatFacts
<1>2. x.pc \notin Over /\ x.pc \notin Early
  BY SMT DEF Over, Early
<1> QED
  BY <1>1, <1>2, Zenon DEF Counted, Permitted

(* CallAdapter keeps the invariant. *)
LEMMA CallAdapterKeeps ==
  ASSUME ChatInv, NEW r \in Chats, CallAdapter(r)
  PROVE  ChatInv'
<1> DEFINE w == chat[r]
           n == w.sent + 1
           x == [w EXCEPT !.sent = n]
           k == x.oks + 1
           done == [x EXCEPT !.oks = k]
           cost == IF Express(x) THEN "zero" ELSE "priced"
<1>1. /\ w.pc = "upstream" /\ ~Compat(x)
      /\ \/ Becomes(r, Failed(x))
         \/ x.body.stream /\ Becomes(r, Completed(x, TRUE, cost))
         \/ Becomes(r, [Recorded(x, "error", TRUE, cost) EXCEPT !.pc = "answered"])
         \/ Becomes(r, Completed(done, TRUE, cost))
      /\ UNCHANGED <<chatSettings, configs, cache, cursor>>
  <2>1. x.pc = w.pc
    BY ChatFacts, Zenon DEF Requests
  <2> QED
    BY <2>1, Zenon DEF CallAdapter
<1>2. /\ w \in Requests /\ w.pc \notin Over
      /\ w.records = <<>> /\ w.traces = 0 /\ w.oks = 0
      /\ Checked(w) /\ w.config.present /\ w.config \in ConfigsOf[w.to.prov]
      /\ w.sent = 0 \/ Compat(w)
  BY <1>1, Upstream, Zenon
<1>3. w.sent \in Nat /\ n \in Nat
  BY <1>2, RequestFields
<1>4. cost \in Costs
  BY DEF Costs
<1> HIDE DEF cost, n
<1>5. /\ x \in Requests /\ x.records = w.records /\ x.traces = w.traces /\ x.sent = n
      /\ x.oks = w.oks /\ x.key = w.key /\ x.body = w.body /\ x.settings = w.settings
      /\ x.to = w.to /\ x.config = w.config
  BY <1>2, <1>3, Zenon DEF Requests
<1>6. k \in Nat /\ k = 1
  BY <1>2, <1>5, SMT
<1> HIDE DEF x, k
<1>7. /\ done \in Requests /\ done.records = x.records /\ done.traces = x.traces
      /\ done.sent = x.sent /\ done.oks = k /\ done.key = x.key /\ done.body = x.body
      /\ done.settings = x.settings /\ done.to = x.to /\ done.config = x.config
  BY <1>5, <1>6, Zenon DEF Requests
<1>8. Compat(x) <=> Compat(w)
  BY <1>5, Zenon DEF Compat
<1>9. n <= Most(w.config)
  BY <1>1, <1>2, <1>3, <1>8, ConfigKeys, RequestFields, SMT DEF n
<1>10. cursor' \in {0, 1}
  BY <1>1, CursorStays
<1>11. x.oks = 0 /\ x.oks \in {0, 1}
  BY <1>2, <1>5
<1>12. Recordable(x)
  BY <1>2, <1>5, <1>9, <1>11, Zenon DEF Recordable, Checked, ProviderChecked
<1> HIDE DEF done
<1>13. done.oks = 1 /\ done.oks \in {0, 1}
  BY <1>6, <1>7
<1>14. Recordable(done)
  BY <1>7, <1>12, <1>13, Zenon DEF Recordable, Checked, ProviderChecked
<1>15. "error" \in Statuses /\ "none" \in Costs /\ TRUE \in BOOLEAN /\ FALSE \in BOOLEAN
  BY DEF Statuses, Costs
<1>16. CASE Becomes(r, Failed(x))
  <2>1. Becomes(r, [Recorded(x, "error", FALSE, "none") EXCEPT !.pc = "answered"])
    BY <1>16, Zenon DEF Failed
  <2> QED
    BY <1>1, <1>2, <1>5, <1>10, <1>11, <1>12, <1>15, <2>1, FailureKeeps
<1>17. CASE x.body.stream /\ Becomes(r, Completed(x, TRUE, cost))
  BY <1>1, <1>2, <1>4, <1>5, <1>10, <1>12, <1>15, <1>17, CompletionKeeps
<1>18. CASE Becomes(r, [Recorded(x, "error", TRUE, cost) EXCEPT !.pc = "answered"])
  BY <1>1, <1>2, <1>4, <1>5, <1>10, <1>11, <1>12, <1>15, <1>18, FailureKeeps
<1>19. CASE Becomes(r, Completed(done, TRUE, cost))
  BY <1>1, <1>2, <1>4, <1>7, <1>10, <1>13, <1>14, <1>15, <1>19, CompletionKeeps
<1> QED
  BY <1>1, <1>16, <1>17, <1>18, <1>19

(* A request sent once more has as many keys left as there may still be.   *)
LEMMA SendingFields ==
  ASSUME ChatInv, NEW r \in Chats, chat[r].pc = "upstream", Compat(chat[r])
  PROVE  LET w == chat[r]  x == Sending(r) IN
         /\ x \in Requests /\ Recordable(x) /\ x.oks = 0 /\ x.pc = "upstream"
         /\ Compat(x) /\ x.sent > 0 /\ x.by = NoTarget
         /\ x.sent + Len(x.untried) <= Most(x.config)
         /\ x.body = w.body
<1> DEFINE w == chat[r]
           keys == IF w.sent = 0 THEN KeyOrder(w, cursor) ELSE w.untried
           n == w.sent + 1
           left == Tail(keys)
           x == [w EXCEPT !.sent = n, !.untried = left]
<1>1. /\ w \in Requests /\ w.pc \notin Over
      /\ w.records = <<>> /\ w.traces = 0 /\ w.by = NoTarget /\ w.oks = 0
      /\ Checked(w) /\ w.config.present /\ w.config \in ConfigsOf[w.to.prov]
      /\ w.sent = 0 \/ w.untried # <<>>
      /\ w.sent + Len(w.untried) <= Most(w.config)
  BY Upstream, Zenon
<1>2. w.sent \in Nat /\ w.untried \in Seq(Nat) /\ Most(w.config) \in Nat
  BY <1>1, RequestFields, ConfigKeys
<1>3. cursor \in {0, 1}
  BY DEF ChatInv, ChatTyped
<1>4. keys \in Seq(Nat) /\ keys # <<>> /\ w.sent + Len(keys) <= Most(w.config)
  <2>1. CASE w.sent = 0
    <3>1. keys = KeyOrder(w, cursor)
      BY <2>1
    <3> HIDE DEF keys
    <3>2. keys \in Seq(Nat) /\ 1 <= Len(keys) /\ Len(keys) <= Most(w.config)
      BY <1>1, <1>3, <3>1, OrderLength
    <3> QED
      BY <1>2, <2>1, <3>2, SMT
  <2>2. CASE w.sent # 0
    BY <1>1, <1>2, <2>2
  <2> QED
    BY <2>1, <2>2
<1>5. Sending(r) = x
  BY Zenon DEF Sending
<1> HIDE DEF keys
<1>6. left \in Seq(Nat) /\ n \in Nat /\ n > 0 /\ n + Len(left) <= Most(w.config)
  BY <1>2, <1>4, SMT
<1>7. n <= Most(w.config)
  BY <1>2, <1>6, SMT
<1> HIDE DEF left, n
<1>8. /\ x \in Requests /\ x.records = w.records /\ x.traces = w.traces /\ x.sent = n
      /\ x.oks = w.oks /\ x.key = w.key /\ x.body = w.body /\ x.settings = w.settings
      /\ x.to = w.to /\ x.config = w.config /\ x.untried = left /\ x.by = w.by /\ x.pc = w.pc
  BY <1>1, <1>6, Zenon DEF Requests
<1> HIDE DEF x
<1>9. x.oks \in {0, 1}
  BY <1>1, <1>8
<1>10. Recordable(x)
  BY <1>1, <1>7, <1>8, <1>9, Zenon DEF Recordable, Checked, ProviderChecked
<1>11. Compat(x)
  BY <1>8, Zenon DEF Compat
<1> HIDE DEF w
<1> SUFFICES /\ x \in Requests /\ Recordable(x) /\ x.oks = 0 /\ x.pc = "upstream"
             /\ Compat(x) /\ x.sent > 0 /\ x.by = NoTarget
             /\ x.sent + Len(x.untried) <= Most(x.config)
             /\ x.body = w.body
  BY <1>5 DEF w
<1> QED
  BY <1>1, <1>6, <1>8, <1>10, <1>11 DEF w

(* A read outside a try throws: nothing is recorded. *)
LEMMA BreakKeeps ==
  ASSUME ChatInv, NEW r \in Chats, chat[r].pc \notin Over,
         NEW x \in Requests, Recordable(x), x.by = NoTarget, x.oks = 1 => ~x.body.stream,
         Becomes(r, Broken(x)),
         UNCHANGED <<chatSettings, configs, cache>>, cursor' \in {0, 1}
  PROVE  ChatInv'
<1> DEFINE y == [x EXCEPT !.pc = "broken", !.untried = <<>>]
<1>1. Becomes(r, y)
  BY Zenon DEF Broken
<1>2. <<>> \in Seq(Nat)
  BY SMT
<1>3. /\ y \in Requests /\ y.records = x.records /\ y.traces = x.traces /\ y.sent = x.sent
      /\ y.oks = x.oks /\ y.key = x.key /\ y.body = x.body /\ y.settings = x.settings
      /\ y.to = x.to /\ y.config = x.config /\ y.by = x.by
      /\ y.pc = "broken" /\ y.untried = <<>>
  BY <1>2, Zenon DEF Requests, ChatPcs
<1> HIDE DEF y
<1>4. /\ y.pc \notin Unsent /\ y.pc \notin Early /\ y.pc \notin Over
      /\ y.pc # "upstream" /\ y.pc # "put" /\ y.pc # "streaming"
  BY <1>3, SMT DEF Unsent, Early, Over
<1>5. Recordable(y)
  BY <1>3, Zenon DEF Recordable, Checked, ProviderChecked
<1>6. y.sent + Len(y.untried) <= Most(y.config)
  BY <1>3, <1>5, RequestFields, SMT DEF Recordable
<1>7. y.oks <= 1
  BY <1>5, SMT DEF Recordable
<1>8. Counted(y)
  BY <1>3, <1>4, <1>5, <1>6, <1>7, Zenon DEF Counted, Recordable
<1>9. Permitted(y)
  BY <1>5 DEF Permitted, Recordable, Checked, ProviderChecked
<1> QED
  BY <1>1, <1>3, <1>8, <1>9, ChatGoesOn

(* LookupBreaks keeps the invariant. *)
LEMMA LookupBreaksKeeps ==
  ASSUME ChatInv, NEW r \in Chats, LookupBreaks(r)
  PROVE  ChatInv'
<1> DEFINE x == chat[r]
<1>1. /\ x \in Requests /\ Counted(x) /\ Permitted(x) /\ x.pc = "lookup"
      /\ Becomes(r, Broken(x)) /\ UNCHANGED <<chatSettings, configs, cache, cursor>>
  BY ChatFacts, Zenon DEF LookupBreaks
<1> HIDE DEF x
<1>2. /\ x.sent = 0 /\ x.oks = 0 /\ x.records = <<>> /\ x.traces = 0 /\ x.by = NoTarget
      /\ x.pc \notin Over
  BY <1>1, SMT DEF Counted, Unsent, Early, Over
<1>3. x.sent <= Most(x.config)
  BY <1>1, <1>2, RequestFields, ConfigKeys, SMT
<1>4. Checked(x) /\ x.config.present /\ x.config \in ConfigsOf[x.to.prov]
  BY <1>1, SMT DEF Permitted, Early
<1>5. Recordable(x) /\ (x.oks = 1 => ~x.body.stream)
  BY <1>2, <1>3, <1>4 DEF Recordable
<1>6. chat[r].pc \notin Over
  BY <1>2 DEF x
<1> QED
  BY <1>1, <1>2, <1>5, <1>6, CursorStays, BreakKeeps

(* BodyBreaks keeps the invariant. *)
LEMMA BodyBreaksKeeps ==
  ASSUME ChatInv, NEW r \in Chats, BodyBreaks(r)
  PROVE  ChatInv'
<1> DEFINE w == Sending(r)
           n == w.oks + 1
           x == [w EXCEPT !.oks = n]
<1>1. /\ chat[r].pc = "upstream" /\ Compat(chat[r])
      /\ UNCHANGED <<chatSettings, configs, cache>> /\ TurnCursor(chat[r])
  BY DEF BodyBreaks
<1>2. /\ w \in Requests /\ Recordable(w) /\ w.oks = 0 /\ w.by = NoTarget
      /\ chat[r].pc \notin Over
  BY <1>1, SendingFields, Upstream
<1>3. cursor' \in {0, 1}
  BY <1>1, CursorTurns
<1>4. n \in Nat /\ n = 1
  BY <1>2, SMT
<1>5. \/ Becomes(r, Broken(w))
      \/ ~Broken(w).body.stream /\ Becomes(r, [Broken(w) EXCEPT !.oks = Broken(w).oks + 1])
  BY Zenon DEF BodyBreaks
<1> HIDE DEF w, n
<1>6. /\ x \in Requests /\ x.records = w.records /\ x.traces = w.traces /\ x.sent = w.sent
      /\ x.oks = n /\ x.key = w.key /\ x.body = w.body /\ x.settings = w.settings
      /\ x.to = w.to /\ x.config = w.config /\ x.by = w.by
  BY <1>2, <1>4, Zenon DEF Requests
<1>7. /\ Broken(w).body = w.body /\ Broken(w).oks = w.oks
      /\ [Broken(w) EXCEPT !.oks = n] = Broken(x)
  BY <1>2, Zenon DEF Broken, Requests, x
<1> HIDE DEF x
<1>8. x.oks \in {0, 1}
  BY <1>4, <1>6
<1>9. Recordable(x)
  BY <1>2, <1>6, <1>8, Zenon DEF Recordable, Checked, ProviderChecked
<1>10. CASE Becomes(r, Broken(w))
  <2>1. w.oks = 1 => ~w.body.stream
    BY <1>2
  <2> QED
    BY <1>1, <1>2, <1>3, <1>10, <2>1, BreakKeeps
<1>11. CASE ~Broken(w).body.stream /\ Becomes(r, [Broken(w) EXCEPT !.oks = Broken(w).oks + 1])
  <2>1. ~x.body.stream /\ Becomes(r, Broken(x)) /\ x.by = NoTarget
    <3>1. Broken(w).oks + 1 = n
      BY <1>7 DEF n
    <3> QED
      BY <1>2, <1>6, <1>7, <1>11, <3>1
  <2> QED
    BY <1>1, <1>2, <1>3, <1>6, <1>9, <2>1, BreakKeeps
<1> QED
  BY <1>5, <1>10, <1>11

(* SendFails keeps the invariant. *)
LEMMA SendFailsKeeps ==
  ASSUME ChatInv, NEW r \in Chats, SendFails(r)
  PROVE  ChatInv'
<1> DEFINE x == Sending(r)
<1>1. /\ chat[r].pc = "upstream" /\ Compat(chat[r])
      /\ Becomes(r, [Recorded(x, "error", FALSE, "none") EXCEPT !.pc = "answered"])
      /\ UNCHANGED <<chatSettings, configs, cache>> /\ TurnCursor(chat[r])
  BY Zenon DEF SendFails, Failed
<1>2. x \in Requests /\ Recordable(x) /\ x.oks = 0 /\ chat[r].pc \notin Over
  BY <1>1, SendingFields, Upstream
<1>3. cursor' \in {0, 1}
  BY <1>1, CursorTurns
<1>4. "error" \in Statuses /\ "none" \in Costs /\ FALSE \in BOOLEAN
  BY DEF Statuses, Costs
<1> HIDE DEF x
<1> QED
  BY <1>1, <1>2, <1>3, <1>4, FailureKeeps

(* TryNextKey keeps the invariant. *)
LEMMA TryNextKeyKeeps ==
  ASSUME ChatInv, NEW r \in Chats, TryNextKey(r)
  PROVE  ChatInv'
<1> DEFINE x == Sending(r)
<1>1. /\ chat[r].pc = "upstream" /\ Compat(chat[r]) /\ x.untried # <<>>
      /\ Becomes(r, x) /\ UNCHANGED <<chatSettings, configs, cache>> /\ TurnCursor(chat[r])
  BY Zenon DEF TryNextKey
<1>2. /\ x \in Requests /\ Recordable(x) /\ x.oks = 0 /\ x.pc = "upstream" /\ Compat(x)
      /\ x.sent > 0 /\ x.by = NoTarget /\ x.sent + Len(x.untried) <= Most(x.config)
      /\ chat[r].pc \notin Over
  BY <1>1, SendingFields, Upstream
<1>3. cursor' \in {0, 1}
  BY <1>1, CursorTurns
<1> HIDE DEF x
<1>4. x.pc \notin Unsent /\ x.pc \notin Early /\ x.pc \notin Over
  BY <1>2, SMT DEF Unsent, Early, Over
<1>5. x.oks <= 1 /\ x.pc # "streaming" /\ x.pc # "put"
  BY <1>2, SMT
<1>6. Counted(x)
  BY <1>1, <1>2, <1>4, <1>5, Zenon DEF Counted, Recordable
<1>7. Permitted(x)
  BY <1>2 DEF Permitted, Recordable, Checked, ProviderChecked
<1> QED
  BY <1>1, <1>2, <1>3, <1>6, <1>7, ChatGoesOn

(* SendSucceeds keeps the invariant. *)
LEMMA SendSucceedsKeeps ==
  ASSUME ChatInv, NEW r \in Chats, SendSucceeds(r)
  PROVE  ChatInv'
<1> DEFINE w == Sending(r)
           n == w.oks + 1
           x == [w EXCEPT !.oks = n]
           y == [x EXCEPT !.pc = "streaming", !.untried = <<>>]
<1>1. /\ chat[r].pc = "upstream" /\ Compat(chat[r])
      /\ \/ x.body.stream /\ Becomes(r, y)
         \/ \E usage \in BOOLEAN : Becomes(r, Completed(x, usage, "none"))
      /\ UNCHANGED <<chatSettings, configs, cache>> /\ TurnCursor(chat[r])
  BY Zenon DEF SendSucceeds
<1>2. /\ w \in Requests /\ Recordable(w) /\ w.oks = 0 /\ w.by = NoTarget
      /\ chat[r].pc \notin Over
  BY <1>1, SendingFields, Upstream
<1>3. cursor' \in {0, 1}
  BY <1>1, CursorTurns
<1> HIDE DEF w
<1>4. n = 1 /\ n \in Nat
  BY <1>2
<1> HIDE DEF n
<1>5. /\ x \in Requests /\ x.records = w.records /\ x.traces = w.traces /\ x.sent = w.sent
      /\ x.oks = n /\ x.key = w.key /\ x.body = w.body /\ x.settings = w.settings
      /\ x.to = w.to /\ x.config = w.config /\ x.by = w.by
  BY <1>2, <1>4, Zenon DEF Requests
<1> HIDE DEF x
<1>6. x.oks \in {0, 1} /\ x.oks = 1
  BY <1>4, <1>5
<1>7. Recordable(x)
  BY <1>2, <1>5, <1>6, Zenon DEF Recordable, Checked, ProviderChecked
<1>8. CASE Becomes(r, y)
  <2>1. <<>> \in Seq(Nat)
    BY SMT
  <2>2. /\ y \in Requests /\ y.records = x.records /\ y.traces = x.traces /\ y.sent = x.sent
        /\ y.oks = x.oks /\ y.key = x.key /\ y.body = x.body /\ y.settings = x.settings
        /\ y.to = x.to /\ y.config = x.config /\ y.by = x.by
        /\ y.pc = "streaming" /\ y.untried = <<>>
    BY <1>5, <2>1, Zenon DEF Requests, ChatPcs
  <2> HIDE DEF y
  <2>3. y.pc \notin Unsent /\ y.pc \notin Early /\ y.pc \notin Over
    BY <2>2, SMT DEF Unsent, Early, Over
  <2>4. Recordable(y)
    BY <1>7, <2>2, Zenon DEF Recordable, Checked, ProviderChecked
  <2>5. y.sent + Len(y.untried) <= Most(y.config)
    BY <2>2, <2>4, RequestFields, SMT DEF Recordable
  <2>6. y.oks <= 1 /\ y.pc # "upstream" /\ y.pc # "put" /\ y.pc # "broken" /\ y.oks = 1
    BY <1>6, <2>2, SMT
  <2>7. y.by = NoTarget
    BY <1>2, <1>5, <2>2
  <2>8. Counted(y)
    BY <2>2, <2>3, <2>4, <2>5, <2>6, <2>7, Zenon DEF Counted, Recordable
  <2>9. Permitted(y)
    BY <2>4 DEF Permitted, Recordable, Checked, ProviderChecked
  <2> QED
    BY <1>1, <1>2, <1>3, <1>8, <2>2, <2>8, <2>9, ChatGoesOn
<1>9. ASSUME NEW usage \in BOOLEAN, Becomes(r, Completed(x, usage, "none"))
      PROVE  ChatInv'
  <2>1. "none" \in Costs
    BY DEF Costs
  <2> QED
    BY <1>1, <1>2, <1>3, <1>5, <1>6, <1>7, <1>9, <2>1, CompletionKeeps
<1> QED
  BY <1>1, <1>8, <1>9

(* StreamEnds keeps the invariant. *)
LEMMA StreamEndsKeeps ==
  ASSUME ChatInv, NEW r \in Chats, StreamEnds(r)
  PROVE  ChatInv'
<1> DEFINE x == chat[r]
<1>1. x \in Requests /\ Counted(x) /\ Permitted(x) /\ x.pc = "streaming"
  BY ChatFacts DEF StreamEnds
<1>2. x.pc \notin Unsent /\ x.pc \notin Early /\ x.pc \notin Over
  BY <1>1, SMT DEF Unsent, Early, Over
<1>3. PICK usage \in BOOLEAN : Becomes(r, Completed(x, usage, "none"))
  BY Zenon DEF StreamEnds
<1>4. UNCHANGED <<chatSettings, configs, cache, cursor>> /\ cursor' \in {0, 1}
  BY CursorStays DEF StreamEnds
<1>5. x.sent <= Most(x.config) /\ x.oks = 1 /\ x.oks \in {0, 1}
  BY <1>1, RequestFields, ConfigKeys, SMT DEF Counted
<1>6. Recordable(x)
  BY <1>1, <1>2, <1>5, Zenon DEF Recordable, Counted, Permitted
<1>7. "none" \in Costs
  BY DEF Costs
<1> QED
  BY <1>1, <1>2, <1>3, <1>4, <1>5, <1>6, <1>7, CompletionKeeps

(* What is put is the answer of the request. *)
LEMMA PutCachedKeeps ==
  ASSUME ChatInv, NEW r \in Chats, PutCached(r)
  PROVE  ChatInv'
<1> DEFINE x == chat[r]
           y == [x EXCEPT !.pc = "answered"]
<1>1. /\ x \in Requests /\ Counted(x) /\ Permitted(x) /\ x.pc = "put" /\ Becomes(r, y)
      /\ (cache' = [cache EXCEPT ![x.body] = x.by] \/ cache' = cache)
      /\ UNCHANGED <<chatSettings, configs, cursor>>
  BY ChatFacts DEF PutCached
<1>2. x.pc \notin Early /\ x.pc \in Over /\ x.pc # "upstream" /\ x.pc # "streaming"
  BY <1>1, SMT DEF Early, Over
<1>3. /\ y \in Requests /\ y.records = x.records /\ y.traces = x.traces /\ y.sent = x.sent
      /\ y.oks = x.oks /\ y.key = x.key /\ y.body = x.body /\ y.settings = x.settings
      /\ y.to = x.to /\ y.config = x.config /\ y.by = x.by
      /\ y.pc = "answered" /\ y.untried = x.untried
  BY <1>1, Zenon DEF Requests, ChatPcs
<1> HIDE DEF y
<1>4. /\ y.pc \notin Early /\ y.pc \notin Unsent /\ y.pc \in Over /\ y.pc # "upstream"
      /\ y.pc # "streaming" /\ y.pc # "put" /\ y.pc # "broken"
  BY <1>3, SMT DEF Unsent, Early, Over
<1>5. Counted(y)
  BY <1>1, <1>2, <1>3, <1>4, Zenon DEF Counted
<1>6. Checked(y) /\ y.config.present /\ y.config \in ConfigsOf[y.to.prov]
  BY <1>1, <1>2, <1>3, Zenon DEF Permitted, Checked, ProviderChecked
<1>7. Permitted(y)
  BY <1>6 DEF Permitted, Checked, ProviderChecked
<1>8. x.body \in Bodies /\ x.oks = 1 /\ ~x.body.stream /\ x.by \in Targets
  BY <1>1, <1>2, RequestFields, Zenon DEF Permitted, Checked, ProviderChecked, Counted
<1>9. cache \in [Bodies -> Targets]
  BY DEF ChatInv, ChatTyped
<1>10. /\ cache' \in [Bodies -> Targets]
       /\ \A b \in Bodies :
            \/ cache'[b] \in {NoTarget, cache[b]}
            \/ ~b.stream /\ y.body = b /\ y.oks = 1 /\ y.by = cache'[b]
  BY <1>1, <1>3, <1>8, <1>9
<1> QED
  BY <1>1, <1>3, <1>5, <1>7, <1>10, CursorStays, ChatMoves

(* Settings and configurations change. *)
LEMMA SettingsKeep ==
  ASSUME ChatInv, UNCHANGED <<cache, chat>>, cursor' \in {0, 1},
         chatSettings' \in ChatSettings,
         \/ configs' = configs
         \/ \E p \in ChatProviders : \E c \in ConfigsOf[p] : configs' = [configs EXCEPT ![p] = c]
  PROVE  ChatInv'
<1>1. ChatTyped'
  <2>1. configs \in [ChatProviders -> Configurations] /\ \A p \in ChatProviders : configs[p] \in ConfigsOf[p]
    BY DEF ChatInv, ChatTyped
  <2>2. \A p \in ChatProviders : ConfigsOf[p] \subseteq Configurations
    BY DEF Configurations
  <2>3. configs' \in [ChatProviders -> Configurations] /\ \A p \in ChatProviders : configs'[p] \in ConfigsOf[p]
    <3>1. CASE configs' = configs
      BY <2>1, <3>1
    <3>2. ASSUME NEW p \in ChatProviders, NEW c \in ConfigsOf[p], configs' = [configs EXCEPT ![p] = c]
          PROVE  configs' \in [ChatProviders -> Configurations] /\ \A q \in ChatProviders : configs'[q] \in ConfigsOf[q]
      BY <2>1, <2>2, <3>2
    <3> QED
      BY <3>1, <3>2
  <2>4. cache' \in [Bodies -> Targets] /\ cursor' \in {0, 1} /\ chat' \in [Chats -> Requests]
    BY DEF ChatInv, ChatTyped
  <2> QED
    BY <2>3, <2>4 DEF ChatTyped
<1>2. ChatsSound'
  <2> SUFFICES ASSUME NEW q \in Chats PROVE Counted(chat'[q]) /\ Permitted(chat'[q])
    BY DEF ChatsSound, Counted, Permitted, ProviderChecked, Checked, ProviderAllowed,
           ModelAllowed, Canonical, Compat
  <2>1. chat'[q] = chat[q]
    OBVIOUS
  <2> QED
    BY <2>1, ChatFacts
<1>3. CacheHoldsCompletions'
  BY DEF ChatInv, CacheHoldsCompletions
<1> QED
  BY <1>1, <1>2, <1>3 DEF ChatInv

-----------------------------------------------------------------------------
(* The theorems about chat requests *)

(* The invariant holds initially. *)
LEMMA ChatInitInv == ChatInit => ChatInv
<1> SUFFICES ASSUME ChatInit PROVE ChatInv
  OBVIOUS
<1> DEFINE x == [pc |-> "new", key |-> NoChatKey, body |-> NoBody,
                 settings |-> NoSettings, to |-> NoTarget, config |-> NoConfig,
                 untried |-> <<>>, sent |-> 0, oks |-> 0, records |-> <<>>,
                 traces |-> 0, by |-> NoTarget]
<1>1. chatSettings \in ChatSettings /\ NoSettings \in ChatSettings
  BY Zenon DEF ChatInit, NoSettings
<1>2. /\ cache = [b \in Bodies |-> NoTarget] /\ cursor = 0
      /\ chat = [r \in Chats |-> x]
  BY Zenon DEF ChatInit
<1>3. x \in Requests
  <2>1. <<>> \in Seq(Nat) /\ <<>> \in Seq(Outcomes) /\ 0 \in Nat /\ "new" \in ChatPcs
    BY DEF ChatPcs
  <2> QED
    BY <1>1, <2>1, Nothings, Zenon DEF Requests
<1>4. /\ x.pc = "new" /\ x.config = NoConfig /\ x.untried = <<>> /\ x.sent = 0 /\ x.oks = 0
      /\ x.records = <<>> /\ x.traces = 0 /\ x.by = NoTarget
  BY Zenon
<1> HIDE DEF x
<1>5. Most(NoConfig) = 1
  BY Nothings DEF Most
<1>6. Counted(x) /\ Permitted(x)
  BY <1>4, <1>5, SMT DEF Counted, Permitted, Unsent, Early, Over
<1>7. configs \in [ChatProviders -> Configurations] /\ \A p \in ChatProviders : configs[p] \in ConfigsOf[p]
  BY Zenon DEF ChatInit, Configurations
<1>8. ChatTyped
  BY <1>1, <1>2, <1>3, <1>7, Nothings DEF ChatTyped
<1>9. ChatsSound
  BY <1>2, <1>6 DEF ChatsSound
<1>10. CacheHoldsCompletions
  BY <1>2 DEF CacheHoldsCompletions
<1> QED
  BY <1>8, <1>9, <1>10 DEF ChatInv

(* Every step of a request keeps the invariant. *)
LEMMA ChatStepKeeps ==
  ASSUME ChatInv, NEW r \in Chats, ChatStep(r)
  PROVE  ChatInv'
<1>1. ASSUME NEW key \in ChatKeys, NEW body \in Bodies, StartChat(r, key, body) PROVE ChatInv'
  BY <1>1, StartChatKeeps
<1>2. CASE ReadConfig(r)
  BY <1>2, ReadConfigKeeps
<1>3. CASE EnterRoute(r)
  BY <1>3, EnterRouteKeeps
<1>4. CASE CacheHit(r)
  BY <1>4, CacheHitKeeps
<1>5. CASE CacheMiss(r)
  BY <1>5, CacheMissKeeps
<1>6. CASE CallAdapter(r)
  BY <1>6, CallAdapterKeeps
<1>7. CASE SendFails(r)
  BY <1>7, SendFailsKeeps
<1>8. CASE TryNextKey(r)
  BY <1>8, TryNextKeyKeeps
<1>9. CASE SendSucceeds(r)
  BY <1>9, SendSucceedsKeeps
<1>10. CASE StreamEnds(r)
  BY <1>10, StreamEndsKeeps
<1>11. CASE PutCached(r)
  BY <1>11, PutCachedKeeps
<1>12. CASE LookupBreaks(r)
  BY <1>12, LookupBreaksKeeps
<1>13. CASE BodyBreaks(r)
  BY <1>13, BodyBreaksKeeps
<1> QED
  BY <1>1, <1>2, <1>3, <1>4, <1>5, <1>6, <1>7, <1>8, <1>9, <1>10, <1>11, <1>12, <1>13 DEF ChatStep

(* Every step keeps it. *)
LEMMA ChatNextInv == ChatInv /\ [ChatNext]_chatVars => ChatInv'
<1> SUFFICES ASSUME ChatInv, [ChatNext]_chatVars PROVE ChatInv'
  OBVIOUS
<1>1. ASSUME NEW r \in Chats, ChatStep(r) PROVE ChatInv'
  BY <1>1, ChatStepKeeps
<1>2. ASSUME NEW new \in ChatSettings, SetChatSettings(new) PROVE ChatInv'
  BY <1>2, CursorStays, SettingsKeep DEF SetChatSettings
<1>3. ASSUME NEW p \in ChatProviders, NEW new \in ConfigsOf[p], SetConfig(p, new) PROVE ChatInv'
  <2>1. chatSettings' \in ChatSettings
    BY <1>3 DEF SetConfig, ChatInv, ChatTyped
  <2> QED
    BY <1>3, <2>1, CursorStays, SettingsKeep DEF SetConfig
<1>4. CASE UNCHANGED chatVars
  <2>1. chatSettings' \in ChatSettings
    BY <1>4 DEF chatVars, ChatInv, ChatTyped
  <2> QED
    BY <1>4, <2>1, CursorStays, SettingsKeep DEF chatVars
<1> QED
  BY <1>1, <1>2, <1>3, <1>4 DEF ChatNext

(* So it always holds. *)
LEMMA ChatInvariant == ChatSpec => []ChatInv
  BY ChatInitInv, ChatNextInv, PTL DEF ChatSpec

(* The invariant implies each of the properties. *)
LEMMA ChatTypeOKHolds == ChatInv => ChatTypeOK
<1> SUFFICES ASSUME ChatInv PROVE ChatTypeOK
  OBVIOUS
<1>1. ASSUME NEW r \in Chats
      PROVE  LET x == chat[r] IN
               /\ x.pc \in ChatPcs
               /\ x.pc # "new" => x.key \in ChatKeys /\ x.body \in Bodies
               /\ x.pc \in ChatPcs \ {"new", "config", "refused"} =>
                    x.config.present /\ x.config \in ConfigsOf[x.to.prov]
               /\ x.sent \in Nat /\ x.oks \in Nat /\ x.traces \in Nat
  <2> DEFINE x == chat[r]
  <2>1. Counted(x) /\ Permitted(x) /\ x \in Requests
    BY <1>1, ChatFacts
  <2> HIDE DEF x
  <2> SUFFICES /\ x.pc \in ChatPcs
               /\ x.pc # "new" => x.key \in ChatKeys /\ x.body \in Bodies
               /\ x.pc \in ChatPcs \ {"new", "config", "refused"} =>
                    x.config.present /\ x.config \in ConfigsOf[x.to.prov]
               /\ x.sent \in Nat /\ x.oks \in Nat /\ x.traces \in Nat
    BY Zenon DEF x
  <2>2. x.pc \in ChatPcs /\ x.sent \in Nat /\ x.oks \in Nat /\ x.traces \in Nat
    BY <2>1, Zenon DEF Requests
  <2>3. /\ x.pc # "new" => x.key \in ChatKeys /\ x.body \in Bodies
        /\ x.pc \in ChatPcs \ {"new", "config", "refused"} =>
             x.config.present /\ x.config \in ConfigsOf[x.to.prov]
    BY <2>1, Zenon DEF Permitted, Early
  <2> QED
    BY <2>2, <2>3
<1> QED
  BY <1>1, Zenon DEF ChatInv, ChatTyped, ChatTypeOK

LEMMA RecordedOnceHolds == ChatInv => RecordedOnce
<1> SUFFICES ASSUME ChatInv, NEW r \in Chats
             PROVE  LET x == chat[r]
                        n == IF x.pc \in {"put", "answered"} THEN 1 ELSE 0
                    IN  /\ Len(x.records) = n
                        /\ x.traces = IF x.config.trace THEN n ELSE 0
                        /\ x.pc = "refused" => x.sent = 0
                        /\ x.pc = "broken" /\ x.oks = 1 => ~x.body.stream
  BY DEF RecordedOnce
<1> DEFINE x == chat[r]
<1>1. Counted(x) /\ x \in Requests
  BY ChatFacts
<1> HIDE DEF x
<1>2. x.pc = "refused" => x.sent = 0
  BY <1>1, SMT DEF Counted, Unsent, Early
<1>3. x.pc = "broken" /\ x.oks = 1 => ~x.body.stream
  BY <1>1, Zenon DEF Counted
<1>4. CASE x.pc \in Over
  <2>1. Len(x.records) = 1 /\ x.traces = IF x.config.trace THEN 1 ELSE 0
    BY <1>1, <1>4 DEF Counted
  <2> QED
    BY <1>2, <1>3, <1>4, <2>1, Zenon DEF Over, x
<1>5. CASE x.pc \notin Over
  <2>1. x.records = <<>> /\ x.traces = 0
    BY <1>1, <1>5 DEF Counted
  <2>2. Len(x.records) = 0
    BY <2>1, SMT
  <2>3. x.traces = IF x.config.trace THEN 0 ELSE 0
    BY <2>1, Zenon
  <2> QED
    BY <1>2, <1>3, <1>5, <2>2, <2>3, Zenon DEF Over, x
<1> QED
  BY <1>4, <1>5

(* Of a completed request nothing is left to try. *)
LEMMA CompletedOnceHolds == ChatInv => CompletedOnce
<1> SUFFICES ASSUME ChatInv, NEW r \in Chats
             PROVE  LET x == chat[r] IN
                    /\ x.sent <= (IF x.config.keys = 0 THEN 1 ELSE x.config.keys)
                    /\ x.oks <= 1
                    /\ x.oks = 1 => /\ x.untried = <<>>
                                    /\ \A i \in DOMAIN x.records : x.records[i].status = "ok"
  BY DEF CompletedOnce
<1> DEFINE x == chat[r]
<1>1. Counted(x) /\ x \in Requests
  BY ChatFacts
<1>2. /\ x.sent \in Nat /\ x.untried \in Seq(Nat) /\ x.records \in Seq(Outcomes)
      /\ Most(x.config) \in Nat
  BY <1>1, RequestFields, ConfigKeys
<1>3. x.sent <= Most(x.config)
  BY <1>1, <1>2, SMT DEF Counted
<1>4. x.oks = 1 => x.pc # "upstream" /\ (x.pc \in Over \/ x.records = <<>>)
  BY <1>1, SMT DEF Counted
<1>5. x.oks = 1 => x.untried = <<>>
  BY <1>1, <1>4 DEF Counted
<1>6. ASSUME x.oks = 1, NEW i \in DOMAIN x.records PROVE x.records[i].status = "ok"
  <2>1. Len(x.records) = 1 /\ x.records[1].status = "ok"
    <3>1. x.records # <<>>
      BY <1>2, <1>6, SMT
    <3> QED
      BY <1>1, <1>4, <1>6, <3>1 DEF Counted
  <2>2. i = 1
    BY <1>2, <1>6, <2>1, SMT
  <2> QED
    BY <2>1, <2>2
<1>7. x.oks <= 1
  BY <1>1 DEF Counted
<1> QED
  BY <1>3, <1>5, <1>6, <1>7 DEF Most

(* What was sent passed the checks. *)
LEMMA SentWhereAllowedHolds == ChatInv => SentWhereAllowed
<1> SUFFICES ASSUME ChatInv, NEW r \in Chats, chat[r].sent > 0
             PROVE  Checked(chat[r])
  BY Zenon DEF SentWhereAllowed, Checked, ProviderChecked
<1>1. Counted(chat[r]) /\ Permitted(chat[r]) /\ chat[r] \in Requests
  BY ChatFacts
<1>2. chat[r].pc \notin Early
  BY <1>1, SMT DEF Counted, Unsent
<1> QED
  BY <1>1, <1>2 DEF Permitted

(* Theorem: requests, rows and cursor keep their types, and a request that *)
(* reached its provider has a configuration of it.                         *)
THEOREM ChatTypes == ChatSpec => []ChatTypeOK
  BY ChatInvariant, ChatTypeOKHolds, PTL

(* Theorem: every chat request that came to its end has exactly one        *)
(* metric, and one trace where its provider is traced; no other has any,   *)
(* and a provider's answer goes unrecorded only when it is not streamed    *)
(* and its body breaks while it is read.                                   *)
THEOREM ChatRecordedOnce == ChatSpec => []RecordedOnce
  BY ChatInvariant, RecordedOnceHolds, PTL

(* Theorem: rotation never sends a request twice with one key, nor again   *)
(* after a provider completed it, nor records it as failed then.           *)
THEOREM ChatCompletedOnce == ChatSpec => []CompletedOnce
  BY ChatInvariant, CompletedOnceHolds, PTL

(* Theorem: a chat request is only sent to a provider and a model that its *)
(* key and the settings it read allow.                                     *)
THEOREM ChatSentWhereAllowed == ChatSpec => []SentWhereAllowed
  BY ChatInvariant, SentWhereAllowedHolds, PTL

(* Theorem: what the response cache answers with was completed by a        *)
(* provider, for that body, not streamed.                                  *)
THEOREM CacheOfCompletions == ChatSpec => []CacheHoldsCompletions
<1>1. ChatInv => CacheHoldsCompletions
  BY DEF ChatInv
<1> QED
  BY <1>1, ChatInvariant, PTL

-----------------------------------------------------------------------------
(* The list of models and embeddings *)

Calls(pc, key, settings, seen, listed, to, sends) ==
  [pc : {pc}, key : {key}, settings : {settings}, seen : {seen}, listed : {listed},
   to : {to}, sends : {sends}]

IsCall(x) == x \in Calls(x.pc, x.key, x.settings, x.seen, x.listed, x.to, x.sends)

(* What the chat handler's checks say of a listed model. *)
Usable(x, e) ==
  LET body == [prov |-> e.prov, model |-> IdName(e.model), stream |-> FALSE]
      to == TargetOf(x.key, body)
  IN  /\ \E p \in ChatProviders : Canonical(p) = e.prov /\ x.seen[p].present /\ x.seen[p].enabled
      /\ ~Mismatch(x.key, body)
      /\ to = [prov |-> e.prov, model |-> body.model]
      /\ (x.key.bound = "" \/ ProviderAllowed(x.key, Canonical(x.key.bound)))
           => ProviderAllowed(x.key, to.prov)
      /\ ModelAllowed({x.settings.allow, x.key.models}, to)

(* What a call was checked for, by where it stands; another key is left    *)
(* while an embedding is being sent.                                       *)
CallSound(x) ==
  /\ IsCall(x)
  /\ x.pc \in {"new", "listing", "fetching", "listed", "embedding", "refused", "sending", "sent"}
  /\ x.pc \in {"new", "listing", "fetching", "listed", "embedding", "refused"} => x.sends = 0
  /\ x.pc \in {"embedding", "sending", "sent"} =>
       x.settings.active /\ ProviderAllowed(x.key, x.to.prov)
  /\ x.pc \in {"sending", "sent"} =>
       /\ ModelAllowed({x.settings.allow, x.key.models}, x.to)
       /\ x.seen.keys \in Nat /\ x.sends \in Nat /\ x.sends <= Most(x.seen)
  /\ x.pc = "sending" => x.sends + 1 <= Most(x.seen)
  /\ x.pc = "listed" => \A e \in x.listed : Usable(x, e)

CallsSound ==
  /\ \A c \in Clients : CallSound(client[c])
  /\ client = [c \in Clients |-> client[c]]
  /\ configs \in [ChatProviders -> Configurations]

(* A call goes on to a sound state. *)
LEMMA CallMoves ==
  ASSUME CallsSound, NEW c \in Clients, NEW y, Call(c, y), CallSound(y), configs' = configs
  PROVE  CallsSound'
<1>1. \A d \in Clients : client'[d] = IF d = c THEN y ELSE client[d]
  BY Zenon DEF CallsSound, Call
<1>2. client' = [d \in Clients |-> client'[d]]
  BY Zenon DEF CallsSound, Call
<1>3. ASSUME NEW d \in Clients PROVE CallSound(client'[d])
  BY <1>1 DEF CallsSound
<1>4. configs' \in [ChatProviders -> Configurations]
  BY DEF CallsSound
<1>5. \A d \in Clients : CallSound(client[d])'
  BY <1>3 DEF CallSound, Usable, IsCall, Calls, ProviderAllowed, ModelAllowed, TargetOf, Mismatch,
             Canonical, IdName, Most
<1> QED
  BY <1>2, <1>4, <1>5 DEF CallsSound

(* The number of keys of a call. *)
LEMMA CallOrderLength ==
  ASSUME NEW to, NEW config, config.keys \in Nat, NEW n
  PROVE  Len(KeyOrder([to |-> to, config |-> config], n)) <= Most(config)
<1> DEFINE x == [to |-> to, config |-> config]
           keys == config.keys
           start == IF config.strategy = "round-robin" THEN n ELSE 0
           turned == [i \in 1..keys |-> ((start + i - 1) % keys) + 1]
<1>1. \/ keys = 0 /\ KeyOrder(x, n) = <<0>>
      \/ keys # 0 /\ KeyOrder(x, n) = <<1>>
      \/ keys # 0 /\ KeyOrder(x, n) = turned
  BY Zenon DEF KeyOrder
<1>2. Most(config) = IF keys = 0 THEN 1 ELSE keys
  BY DEF Most
<1>3. keys \in Nat
  OBVIOUS
<1> HIDE DEF x, keys, start
<1>4. Len(turned) = keys
  BY <1>3, SMT
<1> HIDE DEF turned
<1>5. Len(<<0>>) = 1 /\ Len(<<1>>) = 1
  BY SMT
<1>6. CASE KeyOrder(x, n) = <<0>>
  <2>1. Len(KeyOrder(x, n)) <= Most(config)
    BY <1>2, <1>3, <1>5, <1>6, SMT
  <2> QED
    BY <2>1 DEF x
<1>7. CASE KeyOrder(x, n) = <<1>> /\ keys # 0
  <2>1. Len(KeyOrder(x, n)) <= Most(config)
    BY <1>2, <1>3, <1>5, <1>7, SMT
  <2> QED
    BY <2>1 DEF x
<1>8. CASE KeyOrder(x, n) = turned /\ keys # 0
  <2>1. Len(KeyOrder(x, n)) <= Most(config)
    BY <1>2, <1>3, <1>4, <1>8, SMT
  <2> QED
    BY <2>1 DEF x
<1> QED
  BY <1>1, <1>6, <1>7, <1>8

(* StartList keeps the invariant. *)
LEMMA StartListKeeps ==
  ASSUME CallsSound, NEW c \in Clients, NEW key \in ChatKeys, StartList(c, key)
  PROVE  CallsSound'
<1> DEFINE x == client[c]
           y == [x EXCEPT !.pc = "listing", !.key = key, !.settings = chatSettings]
<1>1. CallSound(x) /\ x.pc = "new" /\ Call(c, y) /\ configs' = configs
  BY DEF CallsSound, StartList, chatVars
<1>2. y \in Calls("listing", key, chatSettings, x.seen, x.listed, x.to, x.sends)
  BY <1>1, Zenon DEF CallSound, IsCall, Calls
<1>3. IsCall(y) /\ y.pc = "listing" /\ y.sends = x.sends
  BY <1>2, Zenon DEF IsCall, Calls
<1> HIDE DEF x, y
<1>4. CallSound(y)
  BY <1>1, <1>3, SMT DEF CallSound
<1> QED
  BY <1>1, <1>4, CallMoves

(* ReadConfigs keeps the invariant. *)
LEMMA ReadConfigsKeeps ==
  ASSUME CallsSound, NEW c \in Clients, ReadConfigs(c)
  PROVE  CallsSound'
<1> DEFINE x == client[c]
           y == [x EXCEPT !.pc = "fetching", !.seen = configs]
<1>1. CallSound(x) /\ x.pc = "listing" /\ Call(c, y) /\ configs' = configs
  BY DEF CallsSound, ReadConfigs, chatVars
<1>2. y \in Calls("fetching", x.key, x.settings, configs, x.listed, x.to, x.sends)
  BY <1>1, Zenon DEF CallSound, IsCall, Calls
<1>3. IsCall(y) /\ y.pc = "fetching" /\ y.sends = x.sends
  BY <1>2, Zenon DEF IsCall, Calls
<1> HIDE DEF x, y
<1>4. CallSound(y)
  BY <1>1, <1>3, SMT DEF CallSound
<1> QED
  BY <1>1, <1>4, CallMoves

(* What FetchModels lists of a provider, configured under any name q,      *)
(* passes the checks of a request for its canonical name p.                *)
LEMMA ListedUsable ==
  ASSUME NEW x, NEW q \in ChatProviders, NEW p, p = Canonical(q), NEW id,
         x.seen[q].present, x.seen[q].enabled, ListsProvider(x.key, p),
         ModelAllowed({x.settings.allow, x.key.models}, [prov |-> p, model |-> IdName(id)])
  PROVE  Usable(x, [prov |-> p, model |-> id])
<1> DEFINE e == [prov |-> p, model |-> id]
           body == [prov |-> p, model |-> IdName(id), stream |-> FALSE]
           to == [prov |-> p, model |-> IdName(id)]
<1>1. Canonical(p) = p /\ p # ""
  BY CatalogAssumption, Zenon
<1>2. body.prov = p /\ body.model = IdName(id) /\ to.prov = p
      /\ [prov |-> e.prov, model |-> IdName(e.model), stream |-> FALSE] = body
      /\ [prov |-> e.prov, model |-> IdName(e.model)] = to /\ e.prov = p
  BY Zenon
<1>5. \E r \in ChatProviders : Canonical(r) = e.prov /\ x.seen[r].present /\ x.seen[r].enabled
  BY <1>2, Zenon
<1>3. CASE x.key.bound # ""
  <2>1. p = Canonical(x.key.bound)
    BY <1>3, Zenon DEF ListsProvider
  <2>2. ~Mismatch(x.key, body)
    BY <1>1, <1>2, <2>1, Zenon DEF Mismatch
  <2>3. TargetOf(x.key, body) = to
    BY <1>3, <1>2, <2>1, Zenon DEF TargetOf
  <2> HIDE DEF e, body, to
  <2> QED
    BY <1>2, <1>3, <1>5, <2>1, <2>2, <2>3, Zenon DEF Usable, e, body, to
<1>4. CASE x.key.bound = ""
  <2>1. ProviderAllowed(x.key, p)
    BY <1>4, Zenon DEF ListsProvider
  <2>2. ~Mismatch(x.key, body)
    BY <1>4, Zenon DEF Mismatch
  <2>3. TargetOf(x.key, body) = to
    BY <1>1, <1>2, <1>4, Zenon DEF TargetOf
  <2> QED
    BY <1>2, <1>5, <2>1, <2>2, <2>3, Zenon DEF Usable
<1> QED
  BY <1>3, <1>4

(* FetchModels keeps the invariant. *)
LEMMA FetchModelsKeeps ==
  ASSUME CallsSound, NEW c \in Clients, FetchModels(c)
  PROVE  CallsSound'
<1> DEFINE x == client[c]
           on == {p \in ChatProviders :
                    x.seen[p].present /\ x.seen[p].enabled /\ ListsProvider(x.key, Canonical(p))}
           allowed(p, id) ==
             ModelAllowed({x.settings.allow, x.key.models},
                          [prov |-> Canonical(p), model |-> IdName(id)])
<1>1. PICK live \in [ChatProviders -> {{}} \cup UNION {LiveIds[p] : p \in ChatProviders}] :
         /\ \A p \in ChatProviders :
              live[p] \in (IF p \in on THEN LiveIds[p] \cup {{}} ELSE {{}})
         /\ Call(c, [x EXCEPT !.pc = "listed",
                       !.listed = UNION {{[prov |-> Canonical(p), model |-> id] :
                                            id \in {i \in ModelsOf(Canonical(p), x.seen[p], live[p]) :
                                                      allowed(p, i)}}
                                         : p \in on}])
  BY DEF FetchModels
<1>2. CallSound(x) /\ x.pc = "fetching" /\ configs' = configs
  BY DEF CallsSound, FetchModels, chatVars
<1> DEFINE listed == UNION {{[prov |-> Canonical(p), model |-> id] :
                               id \in {i \in ModelsOf(Canonical(p), x.seen[p], live[p]) :
                                         allowed(p, i)}}
                            : p \in on}
           y == [x EXCEPT !.pc = "listed", !.listed = listed]
<1>3. ASSUME NEW e \in listed PROVE Usable(x, e)
  <2>1. PICK p \in on :
          e \in {[prov |-> Canonical(p), model |-> id] :
                   id \in {i \in ModelsOf(Canonical(p), x.seen[p], live[p]) : allowed(p, i)}}
    BY <1>3, Zenon
  <2>2. PICK id : e = [prov |-> Canonical(p), model |-> id] /\ allowed(p, id)
    BY <2>1, Zenon
  <2> QED
    BY <2>1, <2>2, ListedUsable, Zenon
<1> HIDE DEF listed
<1>4. Call(c, y)
  BY <1>1 DEF listed
<1>5. y \in Calls("listed", x.key, x.settings, x.seen, listed, x.to, x.sends)
  BY <1>2, Zenon DEF CallSound, IsCall, Calls
<1>6. IsCall(y) /\ y.pc = "listed" /\ y.sends = x.sends /\ y.listed = listed
      /\ y.key = x.key /\ y.settings = x.settings /\ y.seen = x.seen
  BY <1>5, Zenon DEF IsCall, Calls
<1> HIDE DEF x, y, on, allowed
<1>7. \A e \in y.listed : Usable(y, e)
  BY <1>3, <1>6, Zenon DEF Usable
<1>8. CallSound(y)
  BY <1>2, <1>6, <1>7, SMT DEF CallSound
<1> QED
  BY <1>2, <1>4, <1>8, CallMoves

(* StartEmbedding keeps the invariant. *)
LEMMA StartEmbeddingKeeps ==
  ASSUME CallsSound, NEW c \in Clients, NEW key \in ChatKeys, NEW body \in Bodies,
         StartEmbedding(c, key, body)
  PROVE  CallsSound'
<1> DEFINE x == client[c]
           prov == IF body.prov # "" THEN body.prov ELSE key.bound
           to == [prov |-> Canonical(prov), model |-> body.model]
           ok == /\ chatSettings.active
                 /\ prov # "" /\ to.model # ""
                 /\ ProviderAllowed(key, to.prov)
           pc == IF ok THEN "embedding" ELSE "refused"
           y == [x EXCEPT !.pc = pc, !.key = key, !.settings = chatSettings, !.to = to]
<1>1. CallSound(x) /\ x.pc = "new" /\ Call(c, y) /\ configs' = configs
  BY Zenon DEF CallsSound, StartEmbedding, chatVars
<1>2. pc \in {"embedding", "refused"}
      /\ (pc = "embedding" => chatSettings.active /\ ProviderAllowed(key, to.prov))
  BY Zenon
<1> HIDE DEF pc, to
<1>3. y \in Calls(pc, key, chatSettings, x.seen, x.listed, to, x.sends)
  BY <1>1, Zenon DEF CallSound, IsCall, Calls
<1>4. IsCall(y) /\ y.pc = pc /\ y.sends = x.sends
      /\ y.settings = chatSettings /\ y.key = key /\ y.to = to
  BY <1>3, Zenon DEF IsCall, Calls
<1> HIDE DEF x, y
<1>5. CallSound(y)
  BY <1>1, <1>2, <1>4, SMT DEF CallSound
<1> QED
  BY <1>1, <1>5, CallMoves

(* ReadEmbeddingConfig keeps the invariant. *)
LEMMA ReadEmbeddingConfigKeeps ==
  ASSUME CallsSound, NEW c \in Clients, ReadEmbeddingConfig(c)
  PROVE  CallsSound'
<1> DEFINE x == client[c]
           config == IF x.to.prov \in ChatProviders THEN configs[x.to.prov] ELSE NoConfig
<1>1. CallSound(x) /\ x.pc = "embedding" /\ configs' = configs
      /\ Call(c, IF EmbeddingRefused(x, config) THEN [x EXCEPT !.pc = "refused"]
                 ELSE [x EXCEPT !.pc = "sending", !.seen = config])
  BY Zenon DEF CallsSound, ReadEmbeddingConfig, chatVars
<1>2. config \in Configurations
  BY Nothings, SMT DEF CallsSound
<1> HIDE DEF config
<1>3. CASE EmbeddingRefused(x, config)
  <2> DEFINE y == [x EXCEPT !.pc = "refused"]
  <2>1. Call(c, y)
    BY <1>1, <1>3
  <2>2. y \in Calls("refused", x.key, x.settings, x.seen, x.listed, x.to, x.sends)
    BY <1>1, Zenon DEF CallSound, IsCall, Calls
  <2>3. IsCall(y) /\ y.pc = "refused" /\ y.sends = x.sends
    BY <2>2, Zenon DEF IsCall, Calls
  <2> HIDE DEF x, y
  <2>4. CallSound(y)
    BY <1>1, <2>3, SMT DEF CallSound
  <2> QED
    BY <1>1, <2>1, <2>4, CallMoves
<1>4. CASE ~EmbeddingRefused(x, config)
  <2> DEFINE y == [x EXCEPT !.pc = "sending", !.seen = config]
  <2>1. Call(c, y)
    BY <1>1, <1>4
  <2>2. y \in Calls("sending", x.key, x.settings, config, x.listed, x.to, x.sends)
    BY <1>1, Zenon DEF CallSound, IsCall, Calls
  <2>3. IsCall(y) /\ y.pc = "sending" /\ y.sends = x.sends /\ y.seen = config
        /\ y.settings = x.settings /\ y.key = x.key /\ y.to = x.to
    BY <2>2, Zenon DEF IsCall, Calls
  <2>4. ModelAllowed({x.settings.allow, x.key.models}, x.to)
    BY <1>4 DEF EmbeddingRefused
  <2>5. config.keys \in Nat /\ Most(config) \in Nat /\ 1 <= Most(config)
    BY <1>2, ConfigKeys
  <2> HIDE DEF x, y
  <2>6. CallSound(y)
    BY <1>1, <2>3, <2>4, <2>5, SMT DEF CallSound
  <2> QED
    BY <1>1, <2>1, <2>6, CallMoves
<1> QED
  BY <1>3, <1>4

(* SendEmbedding keeps the invariant. *)
LEMMA SendEmbeddingKeeps ==
  ASSUME CallsSound, NEW c \in Clients, SendEmbedding(c)
  PROVE  CallsSound'
<1> DEFINE x == client[c]
<1>1. CallSound(x) /\ x.pc = "sending" /\ configs' = configs
  BY Zenon DEF CallsSound, SendEmbedding
<1>2. x.seen.keys \in Nat /\ x.sends \in Nat /\ x.sends + 1 <= Most(x.seen)
      /\ Most(x.seen) \in Nat /\ IsCall(x)
  BY <1>1, SMT DEF CallSound, Most
<1>3. Len(EmbeddingOrder(x)) <= Most(x.seen)
  BY <1>2, CallOrderLength DEF EmbeddingOrder
<1>4. ASSUME NEW pc \in {"sent", "sending"}, Call(c, [x EXCEPT !.pc = pc, !.sends = x.sends + 1]),
             pc = "sending" => x.sends + 2 <= Most(x.seen)
      PROVE  CallsSound'
  <2> DEFINE n == x.sends + 1
             y == [x EXCEPT !.pc = pc, !.sends = n]
  <2>1. n \in Nat /\ n <= Most(x.seen) /\ (pc = "sending" => n + 1 <= Most(x.seen))
    BY <1>2, <1>4, SMT
  <2> HIDE DEF n
  <2>2. y \in Calls(pc, x.key, x.settings, x.seen, x.listed, x.to, n)
    BY <1>2, Zenon DEF IsCall, Calls
  <2>3. IsCall(y) /\ y.pc = pc /\ y.sends = n /\ y.seen = x.seen
        /\ y.settings = x.settings /\ y.key = x.key /\ y.to = x.to
    BY <2>2, Zenon DEF IsCall, Calls
  <2>4. Call(c, y)
    BY <1>4 DEF n
  <2> HIDE DEF x, y
  <2>5. CallSound(y)
    BY <1>1, <1>2, <2>1, <2>3, SMT DEF CallSound
  <2> QED
    BY <1>1, <2>4, <2>5, CallMoves
<1>5. CASE Call(c, [x EXCEPT !.pc = "sent", !.sends = @ + 1])
  BY <1>4, <1>5, Zenon
<1>6. CASE x.sends + 1 < Len(EmbeddingOrder(x)) /\ Call(c, [x EXCEPT !.sends = @ + 1])
  <2>1. [x EXCEPT !.sends = @ + 1] = [x EXCEPT !.pc = "sending", !.sends = x.sends + 1]
    BY <1>1, <1>2, Zenon DEF IsCall, Calls
  <2>2. Len(EmbeddingOrder(x)) \in Nat
    OBVIOUS
  <2>3. x.sends + 2 <= Most(x.seen)
    BY <1>2, <1>3, <1>6, <2>2, SMT
  <2> QED
    BY <1>4, <1>6, <2>1, <2>3
<1> QED
  BY <1>5, <1>6, Zenon DEF SendEmbedding

(* The invariant of the calls holds initially. *)
LEMMA CatalogInitSound == CatalogInit => CallsSound
<1> SUFFICES ASSUME CatalogInit PROVE CallsSound
  OBVIOUS
<1>1. client = [c \in Clients |-> NoClient] /\ configs \in [ChatProviders -> Configurations]
  BY Zenon DEF CatalogInit, ChatInit, Configurations
<1>2. IsCall(NoClient) /\ NoClient.pc = "new" /\ NoClient.sends = 0
  BY Zenon DEF NoClient, IsCall, Calls
<1>3. CallSound(NoClient)
  BY <1>2, SMT DEF CallSound
<1> QED
  BY <1>1, <1>3, Zenon DEF CallsSound

(* Steps that leave the calls alone. *)
LEMMA CallsStay ==
  ASSUME CallsSound, client' = client, configs' \in [ChatProviders -> Configurations]
  PROVE  CallsSound'
<1>0. ASSUME NEW d \in Clients PROVE CallSound(client'[d])
  BY <1>0 DEF CallsSound
<1>1. \A d \in Clients : CallSound(client[d])'
  BY <1>0 DEF CallSound, Usable, IsCall, Calls, ProviderAllowed, ModelAllowed, TargetOf,
             Mismatch, Canonical, IdName, Most
<1> QED
  BY <1>1 DEF CallsSound

(* Every step keeps the calls sound. *)
LEMMA CatalogNextSound == CallsSound /\ [CatalogNext]_catalogVars => CallsSound'
<1> SUFFICES ASSUME CallsSound, [CatalogNext]_catalogVars PROVE CallsSound'
  OBVIOUS
<1>1. ASSUME NEW c \in Clients, NEW key \in ChatKeys, StartList(c, key) PROVE CallsSound'
  BY <1>1, StartListKeeps
<1>2. ASSUME NEW c \in Clients, NEW key \in ChatKeys, NEW body \in Bodies, StartEmbedding(c, key, body)
      PROVE  CallsSound'
  BY <1>2, StartEmbeddingKeeps
<1>3. ASSUME NEW c \in Clients, ReadConfigs(c) PROVE CallsSound'
  BY <1>3, ReadConfigsKeeps
<1>4. ASSUME NEW c \in Clients, FetchModels(c) PROVE CallsSound'
  BY <1>4, FetchModelsKeeps
<1>5. ASSUME NEW c \in Clients, ReadEmbeddingConfig(c) PROVE CallsSound'
  BY <1>5, ReadEmbeddingConfigKeeps
<1>6. ASSUME NEW c \in Clients, SendEmbedding(c) PROVE CallsSound'
  BY <1>6, SendEmbeddingKeeps
<1>7. CASE CatalogSettings
  <2>1. configs \in [ChatProviders -> Configurations]
    BY DEF CallsSound
  <2>2. \A p \in ChatProviders : ConfigsOf[p] \subseteq Configurations
    BY DEF Configurations
  <2>3. configs' \in [ChatProviders -> Configurations] /\ client' = client
    BY <1>7, <2>1, <2>2 DEF CatalogSettings
  <2> QED
    BY <2>3, CallsStay
<1>8. CASE UNCHANGED catalogVars
  BY <1>8, CallsStay DEF catalogVars, chatVars, CallsSound
<1> QED
  BY <1>1, <1>2, <1>3, <1>4, <1>5, <1>6, <1>7, <1>8 DEF CatalogNext

(* So they always are. *)
LEMMA CatalogInvariant == CatalogSpec => []CallsSound
  BY CatalogInitSound, CatalogNextSound, PTL DEF CatalogSpec

(* The invariant implies each of the properties. *)
LEMMA CatalogTypeOKHolds == CallsSound => CatalogTypeOK
<1> SUFFICES ASSUME CallsSound, NEW c \in Clients
             PROVE  LET x == client[c] IN
                      /\ x.pc \in {"new", "listing", "fetching", "listed", "embedding", "sending", "sent", "refused"}
                      /\ x.pc = "listed" =>
                           \A e \in x.listed : \E p \in ChatProviders : e.prov = Canonical(p)
                      /\ x.sends \in Nat
  BY Zenon DEF CatalogTypeOK
<1> DEFINE x == client[c]
<1>1. CallSound(x)
  BY DEF CallsSound
<1> HIDE DEF x
<1>2. x.pc = "listed" => \A e \in x.listed : \E p \in ChatProviders : e.prov = Canonical(p)
  BY <1>1, Zenon DEF CallSound, Usable
<1>3. /\ x.pc \in {"new", "listing", "fetching", "listed", "embedding", "sending", "sent", "refused"}
      /\ x.sends \in Nat
  BY <1>1, SMT DEF CallSound
<1> QED
  BY <1>2, <1>3, Zenon DEF x

(* Chat requests beside the calls of the two handlers: neither disturbs    *)
(* the other, although they share settings, configurations and cursor.     *)
LEMMA ChatsBesideCalls == ChatInv /\ [CatalogNext]_catalogVars => ChatInv'
<1> SUFFICES ASSUME ChatInv, [CatalogNext]_catalogVars PROVE ChatInv'
  OBVIOUS
<1>1. CASE UNCHANGED chatVars
  BY <1>1, ChatNextInv
<1>2. ASSUME NEW c \in Clients, SendEmbedding(c) PROVE ChatInv'
  <2> DEFINE w == [to |-> client[c].to, config |-> client[c].seen]
  <2>1. cursor' = IF client[c].sends = 0 /\ Rotates(w) THEN (cursor + 1) % 2 ELSE cursor
    BY <1>2 DEF SendEmbedding
  <2>2. cursor \in {0, 1}
    BY DEF ChatInv, ChatTyped
  <2>3. cursor' \in {0, 1}
    <3> DEFINE turns == client[c].sends = 0 /\ Rotates(w)
    <3>1. cursor' = IF turns THEN (cursor + 1) % 2 ELSE cursor
      BY <2>1
    <3> HIDE DEF turns
    <3> QED
      BY <2>2, <3>1, SMT
  <2>4. UNCHANGED <<chatSettings, configs, cache, chat>> /\ chatSettings' \in ChatSettings
    BY <1>2 DEF SendEmbedding, ChatInv, ChatTyped
  <2> QED
    BY <2>3, <2>4, SettingsKeep
<1>3. CASE CatalogSettings
  <2>1. chatSettings \in ChatSettings
    BY DEF ChatInv, ChatTyped
  <2>2. /\ chatSettings' \in ChatSettings
        /\ \/ configs' = configs
           \/ \E p \in ChatProviders : \E new \in ConfigsOf[p] : configs' = [configs EXCEPT ![p] = new]
        /\ UNCHANGED <<cache, cursor, chat>>
    BY <1>3, <2>1, Zenon DEF CatalogSettings
  <2> QED
    BY <2>2, CursorStays, SettingsKeep
<1> QED
  BY <1>1, <1>2, <1>3, Zenon
     DEF CatalogNext, catalogVars, StartList, ReadConfigs, FetchModels, StartEmbedding, ReadEmbeddingConfig

LEMMA CallsBesideChats ==
  ChatInv /\ CallsSound /\ [ChatNext]_chatVars /\ UNCHANGED client => CallsSound'
<1> SUFFICES ASSUME ChatInv, CallsSound, [ChatNext]_chatVars, UNCHANGED client PROVE CallsSound'
  OBVIOUS
<1>1. ChatInv'
  BY ChatNextInv
<1>2. configs' \in [ChatProviders -> Configurations]
  BY <1>1 DEF ChatInv, ChatTyped, Configurations
<1> QED
  BY <1>2, CallsStay

(* A listed model passes the checks of names and lists. *)
LEMMA ListedModelsAllowedHolds == CallsSound => ListedModelsAllowed
<1> SUFFICES ASSUME CallsSound, NEW c \in Clients, client[c].pc = "listed",
                    NEW e \in client[c].listed
             PROVE  Usable(client[c], e)
  BY Zenon DEF ListedModelsAllowed, Usable
<1> QED
  BY DEF CallsSound, CallSound

(* An embedding that was sent passed its checks. *)
LEMMA EmbeddedWhereAllowedHolds == CallsSound => EmbeddedWhereAllowed
<1> SUFFICES ASSUME CallsSound, NEW c \in Clients, client[c].sends > 0
             PROVE  LET x == client[c] IN
                    /\ x.settings.active
                    /\ ProviderAllowed(x.key, x.to.prov)
                    /\ ModelAllowed({x.settings.allow, x.key.models}, x.to)
                    /\ x.sends <= (IF x.seen.keys = 0 THEN 1 ELSE x.seen.keys)
  BY Zenon DEF EmbeddedWhereAllowed
<1> DEFINE x == client[c]
<1>1. CallSound(x) /\ x.sends > 0
  BY DEF CallsSound
<1> HIDE DEF x
<1>2. x.pc \in {"sending", "sent"}
  BY <1>1, SMT DEF CallSound
<1>3. /\ x.settings.active /\ ProviderAllowed(x.key, x.to.prov)
      /\ ModelAllowed({x.settings.allow, x.key.models}, x.to)
      /\ x.sends <= Most(x.seen)
  BY <1>1, <1>2, SMT DEF CallSound
<1> QED
  BY <1>3, Zenon DEF Most, x

(* Theorem: calls of the two handlers are where a call may be, and what is *)
(* listed names configured providers.                                      *)
THEOREM CatalogTypes == CatalogSpec => []CatalogTypeOK
  BY CatalogInvariant, CatalogTypeOKHolds, PTL

(* Theorem: a chat request with the same key for a model on a list passes  *)
(* all checks of names and lists, as long as the settings did not change,  *)
(* whatever names, aliases too, the providers are configured under.        *)
THEOREM CatalogListedAllowed == CatalogSpec => []ListedModelsAllowed
  BY CatalogInvariant, ListedModelsAllowedHolds, PTL

(* Theorem: an embedding is sent where its key and the settings it read    *)
(* allow, and at most once with each key.                                  *)
THEOREM CatalogEmbeddedWhereAllowed == CatalogSpec => []EmbeddedWhereAllowed
  BY CatalogInvariant, EmbeddedWhereAllowedHolds, PTL

===============================================================================
