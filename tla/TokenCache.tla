------------------------------ MODULE TokenCache ------------------------------
(***************************************************************************)
(* The access tokens of Google service accounts that an isolate keeps      *)
(* (llm/google-oauth.ts).  Calls overlap at their awaits, time passes      *)
(* meanwhile, and every clock reading happens where the code reads it.     *)
(***************************************************************************)
EXTENDS Integers, FiniteSets

CONSTANTS
  Callers,     \* calls of getGoogleAccessToken
  Accounts,    \* service accounts, by client_email
  Lifetimes,   \* lifetimes of the tokens Google gives out
  TokenTtl,    \* TOKEN_TTL_SECONDS
  RefreshSkew, \* REFRESH_SKEW_SECONDS
  LastHour     \* bound: the last reading of the clock

ASSUME LifetimeAssumption ==
  /\ Lifetimes \subseteq Nat /\ TokenTtl \in Nat /\ RefreshSkew \in Nat
  /\ LastHour \in Nat

VARIABLES
  hour,     \* the clock
  tokens,   \* tokenCache[a]: [expiresAt, ends], ends being when Google lets it expire
  caller    \* caller[c]: where a call stands

tokenVars == <<hour, tokens, caller>>

NoToken == [expiresAt |-> -1, ends |-> -1]

TokenInit ==
  /\ hour = 0
  /\ tokens = [a \in Accounts |-> NoToken]
  /\ caller \in [Callers -> [pc : {"new"}, account : Accounts, now : {0}, life : {0}, ends : {-1}]]

-----------------------------------------------------------------------------
(* getGoogleAccessToken *)

Least(m, n) == IF m <= n THEN m ELSE n

(* The clock is read; without an entry that lasts, the assertion is signed *)
(* with that reading.                                                      *)
GetToken(c) ==
  LET a == caller[c].account  hit == tokens[a].expiresAt > hour + RefreshSkew IN
  /\ caller[c].pc = "new"
  /\ caller' = [caller EXCEPT ![c] =
       IF hit THEN [@ EXCEPT !.pc = "served", !.now = hour, !.ends = tokens[a].ends]
       ELSE [@ EXCEPT !.pc = "asking", !.now = hour]]
  /\ UNCHANGED <<hour, tokens>>

(* Google answers: the token lives from now on. *)
TokenIssued(c) ==
  /\ caller[c].pc = "asking"
  /\ \E life \in Lifetimes :
       caller' = [caller EXCEPT ![c] =
                    [@ EXCEPT !.pc = "issued", !.life = life, !.ends = hour + life]]
  /\ UNCHANGED <<hour, tokens>>

(* No token, or no answer: the call throws. *)
TokenRefused(c) ==
  /\ caller[c].pc = "asking"
  /\ caller' = [caller EXCEPT ![c].pc = "failed"]
  /\ UNCHANGED <<hour, tokens>>

(* A mutant that reads the clock when the answer is there. *)
StoreToken_FreshClock(c) ==
  /\ caller[c].pc = "issued"
  /\ tokens' = [tokens EXCEPT ![caller[c].account] =
                  [expiresAt |-> hour + Least(caller[c].life, TokenTtl), ends |-> caller[c].ends]]
  /\ caller' = [caller EXCEPT ![c].pc = "minted"]
  /\ UNCHANGED hour

(* expires_in tells how long the token lives; it is counted from the       *)
(* reading of the clock before the call.                                   *)
StoreToken(c) ==
  /\ caller[c].pc = "issued"
  /\ tokens' = [tokens EXCEPT ![caller[c].account] =
                  [expiresAt |-> caller[c].now + Least(caller[c].life, TokenTtl), ends |-> caller[c].ends]]
  /\ caller' = [caller EXCEPT ![c].pc = "minted"]
  /\ UNCHANGED hour

(* A new isolate, or clearGoogleTokenCache. *)
IsolateEnds ==
  /\ \E a \in Accounts : tokens[a] # NoToken
  /\ tokens' = [a \in Accounts |-> NoToken]
  /\ UNCHANGED <<hour, caller>>

HourPasses ==
  /\ hour < LastHour
  /\ hour' = hour + 1
  /\ UNCHANGED <<tokens, caller>>

TokenNext ==
  \/ \E c \in Callers : GetToken(c) \/ TokenIssued(c) \/ TokenRefused(c) \/ StoreToken(c)
  \/ IsolateEnds \/ HourPasses

TokenSpec == TokenInit /\ [][TokenNext]_tokenVars

-----------------------------------------------------------------------------
TokenTypeOK ==
  /\ hour \in 0..LastHour
  /\ \A a \in Accounts : tokens[a] = NoToken \/ tokens[a].expiresAt >= 0
  /\ \A c \in Callers :
       /\ caller[c].pc \in {"new", "asking", "issued", "minted", "failed", "served"}
       /\ caller[c].now \in 0..hour

(* However long Google takes to answer and whichever of two concurrent     *)
(* calls stores its token last, a token taken from the cache lives for     *)
(* longer than RefreshSkew from then on (llm/google-oauth.ts:108-150).     *)
TokenServedAlive ==
  \A c \in Callers : caller[c].pc = "served" => caller[c].ends > caller[c].now + RefreshSkew

=============================================================================
