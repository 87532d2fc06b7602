------------------------------ MODULE AnswerCache ------------------------------
(***************************************************************************)
(* The rows of the ResponseCache object of a tenant (durable/response-     *)
(* cache.ts) and the calls that reach it (llm/response-cache.ts).  The     *)
(* object handles one call at a time and keeps its rows when it is         *)
(* evicted; calls are delayed, reordered and lost on the way.              *)
(***************************************************************************)
EXTENDS Integers, FiniteSets

CONSTANTS
  CacheKeys,   \* keys of the response cache
  CacheValues, \* answers, positive numbers
  Ttls,        \* values of settings.cache.ttlSeconds
  CacheUntil   \* bound: the last reading of the clock

ASSUME AnswerAssumption ==
  CacheValues \subseteq Nat \ {0} /\ Ttls \subseteq Nat /\ CacheUntil \in Nat

VARIABLES
  second,  \* the clock
  rows,    \* rows[k]: the row of the cache, [value, expires], or NoRow
  puts,    \* answers on their way into the cache, [key, value, ttl]
  putAt,   \* history: [at, ttl], the last put of a key and value
  got      \* the answer served last, [key, value, at], or NoRow

answerVars == <<second, rows, puts, putAt, got>>

NoRow == [value |-> 0, expires |-> -1]
NothingGot == [key |-> "", value |-> 0, at |-> 0]

AnswerInit ==
  /\ second = 0
  /\ rows = [k \in CacheKeys |-> NoRow]
  /\ puts = {}
  /\ putAt = [k \in CacheKeys |-> [n \in CacheValues |-> [at |-> -1, ttl |-> 0]]]
  /\ got = NothingGot

-----------------------------------------------------------------------------
(* A request was answered and puts its answer with the ttl it had read.    *)
(* Bound: each answer is found once.                                       *)
AnswerFound(k, n, ttl) ==
  /\ putAt[k][n].at = -1 /\ \A p \in puts : p.value # n \/ p.key # k
  /\ puts' = puts \cup {[key |-> k, value |-> n, ttl |-> ttl]}
  /\ UNCHANGED <<second, rows, putAt, got>>

PutInto(p, expires) ==
  /\ rows' = [rows EXCEPT ![p.key] = [value |-> p.value, expires |-> expires]]
  /\ putAt' = [putAt EXCEPT ![p.key][p.value] = [at |-> second, ttl |-> p.ttl]]
  /\ puts' = puts \ {p}
  /\ UNCHANGED <<second, got>>

(* A mutant whose upsert leaves the longer expiry in place. *)
CachePut_Longest(p) ==
  LET old == rows[p.key].expires
  IN  PutInto(p, IF old > second + p.ttl THEN old ELSE second + p.ttl)

(* put(), an upsert; expires_at is computed when the object handles it. *)
CachePut(p) == PutInto(p, second + p.ttl)

(* putCachedResponse only logs what fails. *)
PutLost(p) ==
  /\ puts' = puts \ {p}
  /\ UNCHANGED <<second, rows, putAt, got>>

(* get(): a row that has expired is deleted and missed. *)
CacheGet(k) ==
  /\ rows[k] # NoRow
  /\ IF rows[k].expires <= second
       THEN rows' = [rows EXCEPT ![k] = NoRow] /\ UNCHANGED got
       ELSE got' = [key |-> k, value |-> rows[k].value, at |-> second] /\ UNCHANGED rows
  /\ UNCHANGED <<second, puts, putAt>>

SecondPasses ==
  /\ second < CacheUntil
  /\ second' = second + 1
  /\ UNCHANGED <<rows, puts, putAt, got>>

AnswerNext ==
  \/ \E k \in CacheKeys :
       CacheGet(k) \/ \E n \in CacheValues, ttl \in Ttls : AnswerFound(k, n, ttl)
  \/ \E p \in puts : CachePut(p) \/ PutLost(p)
  \/ SecondPasses

AnswerSpec == AnswerInit /\ [][AnswerNext]_answerVars

-----------------------------------------------------------------------------
AnswerTypeOK ==
  /\ second \in 0..CacheUntil
  /\ \A k \in CacheKeys : rows[k] = NoRow \/ rows[k].value \in CacheValues
  /\ got.value \in CacheValues \cup {0} /\ got.at \in 0..second

(* An answer is served only within the ttl it was put with, whatever ttl   *)
(* an answer before it under the same key was put with and whenever the    *)
(* puts arrive (durable/response-cache.ts:44-78).                          *)
AnswerServedFresh ==
  got # NothingGot =>
    LET p == putAt[got.key][got.value] IN p.at <= got.at /\ got.at < p.at + p.ttl

=============================================================================
