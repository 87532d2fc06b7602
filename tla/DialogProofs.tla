------------------------------ MODULE DialogProofs ------------------------------
(***************************************************************************)
(* Proofs about what passes between the client and a provider: first the   *)
(* chunks of a stream (StreamCapture), for any bodies, any cutting and any *)
(* bounds of what is kept, then the messages of a conversation with tools  *)
(* (ToolDialog), for any openings, answers and length.                     *)
(*                                                                         *)
(* The adapters go through a history message by message, in folds.  Such a *)
(* fold has a run: its value after each index.  What holds of a run is     *)
(* shown by going up from 0 (UpTo), as in every set of naturals there is a *)
(* least (LeastNatural).                                                   *)
(***************************************************************************)
EXTENDS StreamCapture, ToolDialog, SequenceTheorems, WellFoundedInduction, TLAPS

-----------------------------------------------------------------------------
(* The least of a set of naturals, and the greatest of a set of indices.   *)
LEMMA LeastNatural ==
  ASSUME NEW T, T \subseteq Nat, T # {}
  PROVE  \E n \in T : \A m \in T : n <= m
<1>1. IsWellFoundedOn(OpToRel(<, Nat), Nat)
  BY NatLessThanWellFounded, Zenon
<1>2. PICK n \in T : \A m \in T : ~(<<m, n>> \in OpToRel(<, Nat))
  BY <1>1, WFMin, Zenon
<1>3. \A m \in T : ~(m < n)
  BY <1>2 DEF OpToRel
<1> QED
  BY <1>3

LEMMA GreatestIndex ==
  ASSUME NEW n \in Nat, NEW T, T \subseteq 1..n, T # {}
  PROVE  Max(T) \in T /\ \A i \in T : i <= Max(T)
<1> DEFINE below == {n - i : i \in T}
<1>0. \A i \in T : n - i \in Nat
  OBVIOUS
<1>1. below \subseteq Nat /\ below # {}
  BY <1>0
<1>2. PICK d \in below : \A e \in below : d <= e
  BY <1>1, LeastNatural
<1>3. PICK i \in T : d = n - i
  OBVIOUS
<1>4. \A j \in T : i >= j
  <2> SUFFICES ASSUME NEW j \in T
               PROVE  i >= j
    OBVIOUS
  <2>1. n - j \in below
    OBVIOUS
  <2> QED
    BY <1>2, <1>3, <2>1
<1>5. Max(T) \in T /\ \A j \in T : Max(T) >= j
  BY <1>3, <1>4, Zenon DEF Max
<1> QED
  BY <1>5

LEMMA GreatestOfTwo ==
  ASSUME NEW a \in Int, NEW b \in Int
  PROVE  Max({a, b}) = IF a > b THEN a ELSE b
<1> DEFINE c == IF a > b THEN a ELSE b
<1>1. c \in {a, b} /\ \A y \in {a, b} : c >= y
  OBVIOUS
<1>2. \A x \in {a, b} : (\A y \in {a, b} : x >= y) => x = c
  OBVIOUS
<1>3. Max({a, b}) \in {a, b} /\ \A y \in {a, b} : Max({a, b}) >= y
  BY <1>1, Zenon DEF Max
<1> QED
  BY <1>2, <1>3

-----------------------------------------------------------------------------
(* Ends and beginnings of sequences *)

Ends(t, s) ==
  Len(t) <= Len(s) /\ \A i \in 1..Len(t) : t[i] = s[Len(s) - Len(t) + i]

Begins(t, s) ==
  Len(t) <= Len(s) /\ \A i \in 1..Len(t) : t[i] = s[i]

LEMMA EndOfEnd ==
  ASSUME NEW S, NEW s \in Seq(S), NEW t \in Seq(S), NEW u \in Seq(S), Ends(t, s), Ends(u, t)
  PROVE  Ends(u, s)
<1>1. Len(s) \in Nat /\ Len(t) \in Nat /\ Len(u) \in Nat
  BY LenProperties
<1> QED
  BY <1>1 DEF Ends

(* Of two ends the shorter is one of the longer. *)
LEMMA EndOfLonger ==
  ASSUME NEW S, NEW s \in Seq(S), NEW t \in Seq(S), NEW u \in Seq(S), Ends(t, s), Ends(u, s),
         Len(u) <= Len(t)
  PROVE  Ends(u, t)
<1>1. Len(s) \in Nat /\ Len(t) \in Nat /\ Len(u) \in Nat
  BY LenProperties
<1> SUFFICES ASSUME NEW i \in 1..Len(u)
             PROVE  u[i] = t[Len(t) - Len(u) + i]
  BY DEF Ends
<1>2. u[i] = s[Len(s) - Len(u) + i]
  BY DEF Ends
<1>3. PICK j : j = Len(t) - Len(u) + i
  OBVIOUS
<1>3a. j \in 1..Len(t)
  BY <1>1, <1>3
<1>4. t[j] = s[Len(s) - Len(t) + j]
  BY <1>3a DEF Ends
<1>5. Len(s) - Len(t) + j = Len(s) - Len(u) + i
  BY <1>1, <1>3
<1> QED
  BY <1>2, <1>3, <1>3a, <1>4, <1>5

LEMMA EndOfJoin ==
  ASSUME NEW S, NEW s \in Seq(S), NEW t \in Seq(S), NEW u \in Seq(S), Ends(t, s)
  PROVE  Ends(t \o u, s \o u)
<1>1. Len(s) \in Nat /\ Len(t) \in Nat /\ Len(u) \in Nat
  BY LenProperties
<1>2. /\ Len(s \o u) = Len(s) + Len(u) /\ Len(t \o u) = Len(t) + Len(u)
      /\ \A i \in 1..Len(t) + Len(u) : (t \o u)[i] = IF i <= Len(t) THEN t[i] ELSE u[i - Len(t)]
      /\ \A i \in 1..Len(s) + Len(u) : (s \o u)[i] = IF i <= Len(s) THEN s[i] ELSE u[i - Len(s)]
  BY ConcatProperties
<1>3. Len(t \o u) <= Len(s \o u)
  BY <1>1, <1>2 DEF Ends
<1> SUFFICES ASSUME NEW i \in 1..Len(t \o u)
             PROVE  (t \o u)[i] = (s \o u)[Len(s \o u) - Len(t \o u) + i]
  BY <1>3 DEF Ends
<1>4. PICK j : j = Len(s \o u) - Len(t \o u) + i
  OBVIOUS
<1>5. /\ j = Len(s) - Len(t) + i /\ i \in 1..Len(t) + Len(u) /\ Len(t) <= Len(s)
      /\ j \in 1..Len(s) + Len(u)
  BY <1>1, <1>2, <1>4 DEF Ends
<1>6. (s \o u)[j] = IF j <= Len(s) THEN s[j] ELSE u[j - Len(s)]
  BY <1>2, <1>5
<1>7. CASE i <= Len(t)
  <2>1. i \in 1..Len(t) /\ j <= Len(s) /\ (t \o u)[i] = t[i]
    BY <1>1, <1>2, <1>5, <1>7
  <2>2. t[i] = s[j]
    BY <1>5, <2>1 DEF Ends
  <2> QED
    BY <1>4, <1>6, <2>1, <2>2
<1>8. CASE i > Len(t)
  <2>1. ~(j <= Len(s)) /\ j - Len(s) = i - Len(t) /\ (t \o u)[i] = u[i - Len(t)]
    BY <1>1, <1>2, <1>5, <1>8
  <2> QED
    BY <1>4, <1>6, <2>1
<1> QED
  BY <1>1, <1>5, <1>7, <1>8

LEMMA LastUnitsEnd ==
  ASSUME NEW S, NEW s \in Seq(S), NEW n \in Nat
  PROVE  /\ LastUnits(s, n) \in Seq(S) /\ Ends(LastUnits(s, n), s)
         /\ Len(LastUnits(s, n)) = IF Len(s) < n THEN Len(s) ELSE n
<1>1. Len(s) \in Nat /\ \A i \in 1..Len(s) : s[i] \in S
  BY LenProperties, ElementOfSeq
<1>2. PICK m \in 1..Len(s) + 1 :
         m = Max({1, Len(s) - n + 1}) /\ m = IF Len(s) < n THEN 1 ELSE Len(s) - n + 1
  BY <1>1, GreatestOfTwo
<1>3. PICK t : t = SubSeq(s, m, Len(s))
  OBVIOUS
<1>4. /\ t \in Seq(S)
      /\ Len(t) = IF m <= Len(s) THEN Len(s) - m + 1 ELSE 0
      /\ \A i \in 1..Len(s) - m + 1 : t[i] = s[m + i - 1]
  BY <1>1, <1>3, SubSeqProperties
<1>5. Len(t) = Len(s) - m + 1
  BY <1>1, <1>4
<1>6. Ends(t, s)
  <2> SUFFICES ASSUME NEW i \in 1..Len(t)
               PROVE  t[i] = s[Len(s) - Len(t) + i]
    BY <1>1, <1>5 DEF Ends
  <2>1. i \in 1..Len(s) - m + 1 /\ m + i - 1 = Len(s) - Len(t) + i
    BY <1>1, <1>5
  <2> QED
    BY <1>4, <2>1
<1>7. t = LastUnits(s, n)
  BY <1>2, <1>3 DEF LastUnits
<1>8. Len(t) = IF Len(s) < n THEN Len(s) ELSE n
  BY <1>1, <1>2, <1>5
<1> QED
  BY <1>4, <1>6, <1>7, <1>8

-----------------------------------------------------------------------------
(* UsageOf *)

(* The last line with usage is the same in a text and in an end of it that *)
(* holds one.                                                              *)
LEMMA UsageOfEnd ==
  ASSUME NEW S, NEW s \in Seq(S), NEW t \in Seq(S), Ends(t, s), UsageEnds(t) # {}
  PROVE  UsageOf(t) = UsageOf(s)
<1>1. Len(s) \in Nat /\ Len(t) \in Nat /\ Len(t) <= Len(s)
  BY LenProperties DEF Ends
<1>2. PICK o \in Nat : o = Len(s) - Len(t)
  BY <1>1
<1>3. \A i \in 1..Len(t) : t[i] = s[o + i]
  BY <1>2 DEF Ends
<1>4. UsageEnds(t) \subseteq 1..Len(t) /\ UsageEnds(s) \subseteq 1..Len(s)
  BY <1>1 DEF UsageEnds
<1>5. ASSUME NEW i \in 2..Len(t)
      PROVE  i \in UsageEnds(t) <=> o + i \in UsageEnds(s)
  <2>1. i \in 1..Len(t) /\ i - 1 \in 1..Len(t) /\ o + i \in 2..Len(s) /\ o + (i - 1) = o + i - 1
    BY <1>1, <1>2
  <2>2. t[i] = s[o + i] /\ t[i - 1] = s[o + i - 1]
    BY <1>3, <2>1
  <2> QED
    BY <2>1, <2>2 DEF UsageEnds
<1>6. PICK i : i = Max(UsageEnds(t))
  OBVIOUS
<1>7. i \in UsageEnds(t) /\ \A k \in UsageEnds(t) : k <= i
  BY <1>1, <1>4, <1>6, GreatestIndex
<1>8. i \in 2..Len(t) /\ o + i \in UsageEnds(s)
  <2>1. i \in 2..Len(t)
    BY <1>7 DEF UsageEnds
  <2> QED
    BY <1>5, <1>7, <2>1
<1>9. PICK j : j = Max(UsageEnds(s))
  OBVIOUS
<1>10. j \in UsageEnds(s) /\ \A k \in UsageEnds(s) : k <= j
  BY <1>1, <1>4, <1>8, <1>9, GreatestIndex
<1>11. j = o + i
  <2>1. o + i <= j /\ j \in 2..Len(s)
    BY <1>8, <1>10 DEF UsageEnds
  <2>2. PICK k : k = j - o
    OBVIOUS
  <2>3. k \in 2..Len(t) /\ o + k = j
    BY <1>1, <1>2, <1>8, <2>1, <2>2
  <2>4. k \in UsageEnds(t)
    BY <1>5, <1>10, <2>3
  <2>5. k <= i
    BY <1>7, <2>4
  <2> QED
    BY <1>8, <2>1, <2>3, <2>5
<1>12. i \in 1..Len(t)
  BY <1>8
<1>13. t[i].usage = s[j].usage
  BY <1>3, <1>11, <1>12
<1>14. UsageEnds(s) # {}
  BY <1>8
<1> QED
  BY <1>6, <1>9, <1>13, <1>14, Zenon DEF UsageOf

-----------------------------------------------------------------------------
(* Types *)

StreamStates == {"open", "closed", "broken", "cancelled"}

StreamTyped ==
  /\ upstream \in [left : Seq(Units), given : Seq(Units), state : StreamStates]
  /\ upstream.given \o upstream.left \in Streams
  /\ tail \in Seq(Units) /\ Len(tail) <= 2 * UsageTail
  /\ Len(recorded) <= 1
  /\ shown \in Seq(Units)
  /\ between \in Seq(Seq(Units))
  /\ capture \in [text : Seq(Units \cup {Marker}), off : BOOLEAN, done : BOOLEAN]
  /\ readable \in {"open", "closed", "errored"}
  /\ (readable = "open") <=> (upstream.state = "open")

LEMMA StreamAssumptions ==
  /\ Streams \subseteq Seq(Units)
  /\ UsageTail \in Nat /\ UsageTail >= 1 /\ CaptureCap \in Nat
BY StreamAssumption

LEMMA InitStreamTyped == StreamInit => StreamTyped
<1> SUFFICES ASSUME StreamInit
             PROVE  StreamTyped
  OBVIOUS
<1>1. /\ upstream \in [left : Streams, given : {<<>>}, state : {"open"}]
      /\ tail = <<>> /\ recorded = <<>> /\ between = <<>> /\ shown = <<>>
      /\ capture = [text |-> <<>>, off |-> FALSE, done |-> FALSE]
      /\ readable = "open"
  BY DEF StreamInit
<1>2. /\ <<>> \in Seq(Units) /\ <<>> \in Seq(Seq(Units)) /\ <<>> \in Seq(Units \cup {Marker})
      /\ Len(<<>>) = 0
  OBVIOUS
<1>3. upstream \in [left : Seq(Units), given : Seq(Units), state : StreamStates]
  BY <1>1, <1>2, StreamAssumptions DEF StreamStates
<1>4. upstream.given \o upstream.left = upstream.left
  <2>1. upstream.given = <<>> /\ upstream.left \in Seq(Units)
    BY <1>1, <1>3
  <2> QED
    BY <2>1, ConcatEmptySeq
<1>5. upstream.given \o upstream.left \in Streams
  BY <1>1, <1>4
<1>6. Len(tail) <= 2 * UsageTail /\ Len(recorded) <= 1
  BY <1>1, <1>2, StreamAssumptions
<1>7. capture \in [text : Seq(Units \cup {Marker}), off : BOOLEAN, done : BOOLEAN]
  BY <1>1, <1>2
<1>8. upstream.state = "open"
  BY <1>1
<1> QED
  BY <1>1, <1>2, <1>3, <1>5, <1>6, <1>7, <1>8 DEF StreamTyped

(* The buffer after a chunk. *)
LEMMA KeptTyped ==
  ASSUME NEW text \in Seq(Units), NEW chunk \in Seq(Units)
  PROVE  /\ Kept(text, chunk) \in Seq(Units) /\ Len(Kept(text, chunk)) <= 2 * UsageTail
         /\ Ends(Kept(text, chunk), text \o chunk)
         /\ Len(Kept(text, chunk)) = Len(text \o chunk) \/ Len(Kept(text, chunk)) >= UsageTail
<1>1. PICK all \in Seq(Units) : all = text \o chunk
  BY ConcatProperties
<1>2. Len(all) \in Nat
  BY LenProperties
<1>3. CASE Len(all) > 2 * UsageTail
  <2>1. Kept(text, chunk) = LastUnits(all, UsageTail)
    BY <1>1, <1>3 DEF Kept
  <2>2. /\ LastUnits(all, UsageTail) \in Seq(Units) /\ Ends(LastUnits(all, UsageTail), all)
        /\ Len(LastUnits(all, UsageTail)) = IF Len(all) < UsageTail THEN Len(all) ELSE UsageTail
    BY LastUnitsEnd, StreamAssumptions
  <2>3. Len(LastUnits(all, UsageTail)) = UsageTail
    BY <1>2, <1>3, <2>2, StreamAssumptions
  <2>4. UsageTail <= 2 * UsageTail /\ UsageTail >= UsageTail
    BY StreamAssumptions
  <2> QED
    BY <1>1, <2>1, <2>2, <2>3, <2>4
<1>4. CASE ~(Len(all) > 2 * UsageTail)
  <2>1. Kept(text, chunk) = all
    BY <1>1, <1>4 DEF Kept
  <2>2. Ends(all, all)
    BY <1>2 DEF Ends
  <2>3. Len(all) <= 2 * UsageTail
    BY <1>2, <1>4, StreamAssumptions
  <2> QED
    BY <1>1, <2>1, <2>2, <2>3
<1> QED
  BY <1>3, <1>4

(* A chunk of what is left. *)
LEMMA ChunkTyped ==
  ASSUME StreamTyped, NEW n \in Nat, n <= Len(upstream.left)
  PROVE  /\ SubSeq(upstream.left, 1, n) \in Seq(Units)
         /\ SubSeq(upstream.left, n + 1, Len(upstream.left)) \in Seq(Units)
         /\ upstream.given \o SubSeq(upstream.left, 1, n) \in Seq(Units)
         /\ (upstream.given \o SubSeq(upstream.left, 1, n))
              \o SubSeq(upstream.left, n + 1, Len(upstream.left)) \in Streams
<1>1. PICK left \in Seq(Units), given \in Seq(Units) :
         left = upstream.left /\ given = upstream.given
  BY DEF StreamTyped
<1>2. Len(left) \in Nat /\ n <= Len(left) /\ \A i \in 1..Len(left) : left[i] \in Units
  BY <1>1, LenProperties, ElementOfSeq
<1>3. PICK one : one = SubSeq(left, 1, n)
  OBVIOUS
<1>4. PICK two : two = SubSeq(left, n + 1, Len(left))
  OBVIOUS
<1>5. one \in Seq(Units) /\ two \in Seq(Units)
  <2>1. \A i \in 1..n : left[i] \in Units
    BY <1>2
  <2>2. \A i \in n + 1..Len(left) : left[i] \in Units
    BY <1>2
  <2>3. one \in Seq(Units)
    BY <1>3, <2>1, SubSeqProperties
  <2>4. n + 1 \in Int /\ Len(left) \in Int
    BY <1>2
  <2>5. two \in Seq(Units)
    BY <1>4, <2>2, <2>4, SubSeqProperties
  <2> QED
    BY <2>3, <2>5
<1>6. one \o two = left
  <2>1. 1 \in 1..Len(left) + 1 /\ n \in 1 - 1..Len(left) /\ Len(left) \in n..Len(left)
    BY <1>2
  <2>2. one \o two = SubSeq(left, 1, Len(left))
    BY <1>3, <1>4, <2>1, ConcatAdjacentSubSeq
  <2> QED
    BY <2>2, SubSeqFull
<1>7. given \o one \in Seq(Units) /\ (given \o one) \o two = given \o left
  <2>1. given \o one \in Seq(Units)
    BY <1>5, ConcatProperties
  <2>2. (given \o one) \o two = given \o (one \o two)
    BY <1>5, ConcatAssociative
  <2> QED
    BY <1>6, <2>1, <2>2
<1>8. given \o left \in Streams
  BY <1>1 DEF StreamTyped
<1> QED
  BY <1>1, <1>3, <1>4, <1>5, <1>7, <1>8

LEMMA FinishTyped ==
  ASSUME Len(recorded) <= 1, Finish
  PROVE  Len(recorded') <= 1
<1>1. PICK x : x = UsageOf(tail)
  OBVIOUS
<1>2. recorded' = <<x>> \/ recorded' = recorded
  BY <1>1, Zenon DEF Finish
<1>3. CASE recorded' = <<x>>
  BY <1>3
<1>4. CASE recorded' = recorded
  BY <1>4
<1> QED
  BY <1>2, <1>3, <1>4

LEMMA ChunkArrivesTyped ==
  ASSUME StreamTyped, NEW n \in Nat, ChunkArrives(n)
  PROVE  StreamTyped'
<1>1. PICK chunk : chunk = SubSeq(upstream.left, 1, n)
  OBVIOUS
<1>2. PICK left : left = SubSeq(upstream.left, n + 1, Len(upstream.left))
  OBVIOUS
<1>3. /\ n <= Len(upstream.left)
      /\ upstream' = [upstream EXCEPT !.left = left, !.given = @ \o chunk]
      /\ tail' = Kept(tail, chunk) /\ between' = Append(between, chunk)
      /\ UNCHANGED <<recorded, shown, capture, readable>>
  BY <1>1, <1>2 DEF ChunkArrives
<1>4. /\ chunk \in Seq(Units) /\ left \in Seq(Units)
      /\ upstream.given \o chunk \in Seq(Units)
      /\ (upstream.given \o chunk) \o left \in Streams
  BY <1>1, <1>2, <1>3, ChunkTyped
<1>5. /\ upstream' \in [left : Seq(Units), given : Seq(Units), state : StreamStates]
      /\ upstream'.given \o upstream'.left \in Streams
      /\ upstream'.state = upstream.state
  BY <1>3, <1>4 DEF StreamTyped
<1>6. between' \in Seq(Seq(Units))
  BY <1>3, <1>4, AppendProperties DEF StreamTyped
<1>7. tail' \in Seq(Units) /\ Len(tail') <= 2 * UsageTail
  <2>1. tail \in Seq(Units)
    BY DEF StreamTyped
  <2> QED
    BY <1>3, <1>4, <2>1, KeptTyped
<1> QED
  BY <1>3, <1>5, <1>6, <1>7 DEF StreamTyped

(* A step that ends the reading from the provider. *)
LEMMA EndTyped ==
  ASSUME StreamTyped, NEW state \in StreamStates, state # "open",
         upstream' = [upstream EXCEPT !.state = state],
         readable' \in {"closed", "errored"}, Finish,
         between' \in Seq(Seq(Units)), UNCHANGED <<tail, shown>>,
         capture' \in [text : Seq(Units \cup {Marker}), off : BOOLEAN, done : BOOLEAN]
  PROVE  StreamTyped'
<1>1. Len(recorded') <= 1
  BY FinishTyped DEF StreamTyped
<1>2. /\ upstream' \in [left : Seq(Units), given : Seq(Units), state : StreamStates]
      /\ upstream'.given = upstream.given /\ upstream'.left = upstream.left
      /\ upstream'.state = state
  BY DEF StreamTyped
<1> QED
  BY <1>1, <1>2 DEF StreamTyped

LEMMA UpstreamClosesTyped ==
  ASSUME StreamTyped, UpstreamCloses
  PROVE  StreamTyped'
<1>1. /\ upstream' = [upstream EXCEPT !.state = "closed"] /\ readable' = "closed" /\ Finish
      /\ UNCHANGED <<tail, between, shown, capture>>
  BY DEF UpstreamCloses
<1>2. "closed" \in StreamStates /\ "closed" # "open" /\ readable' \in {"closed", "errored"}
  BY <1>1 DEF StreamStates
<1>3. /\ between' \in Seq(Seq(Units))
      /\ capture' \in [text : Seq(Units \cup {Marker}), off : BOOLEAN, done : BOOLEAN]
  BY <1>1 DEF StreamTyped
<1> QED
  BY <1>1, <1>2, <1>3, EndTyped

LEMMA UpstreamBreaksTyped ==
  ASSUME StreamTyped, UpstreamBreaks
  PROVE  StreamTyped'
<1>1. /\ upstream' = [upstream EXCEPT !.state = "broken"] /\ readable' = "errored" /\ Finish
      /\ between' = <<>> /\ UNCHANGED <<tail, shown, capture>>
  BY DEF UpstreamBreaks
<1>2. "broken" \in StreamStates /\ "broken" # "open" /\ readable' \in {"closed", "errored"}
  BY <1>1 DEF StreamStates
<1>3. /\ between' \in Seq(Seq(Units))
      /\ capture' \in [text : Seq(Units \cup {Marker}), off : BOOLEAN, done : BOOLEAN]
  BY <1>1 DEF StreamTyped
<1> QED
  BY <1>1, <1>2, <1>3, EndTyped

(* What the trace holds of a chunk. *)
LEMMA CapturedTyped ==
  ASSUME NEW c \in [text : Seq(Units \cup {Marker}), off : BOOLEAN, done : BOOLEAN],
         NEW chunk \in Seq(Units)
  PROVE  Captured(c, chunk) \in [text : Seq(Units \cup {Marker}), off : BOOLEAN, done : BOOLEAN]
<1> DEFINE U == Units \cup {Marker}
<1>1. chunk \in Seq(U) /\ c.text \in Seq(U) /\ Marker \in U
  BY SeqMonotonic
<1>2. PICK all \in Seq(U) : all = c.text \o chunk
  BY <1>1, ConcatProperties
<1>3. CASE c.off
  BY <1>3 DEF Captured
<1>4. CASE ~c.off /\ Len(all) > CaptureCap
  <2>1. \A i \in 1..CaptureCap : all[i] \in U
    BY <1>4, LenProperties, ElementOfSeq, StreamAssumptions
  <2>2. SubSeq(all, 1, CaptureCap) \in Seq(U)
    BY <2>1, SubSeqProperties, StreamAssumptions
  <2>3. Append(SubSeq(all, 1, CaptureCap), Marker) \in Seq(U)
    BY <1>1, <2>2, AppendProperties
  <2>4. Captured(c, chunk) =
          [c EXCEPT !.text = Append(SubSeq(all, 1, CaptureCap), Marker), !.off = TRUE]
    BY <1>2, <1>4 DEF Captured
  <2> QED
    BY <2>3, <2>4
<1>5. CASE ~c.off /\ ~(Len(all) > CaptureCap)
  <2>1. Captured(c, chunk) = [c EXCEPT !.text = all]
    BY <1>2, <1>5 DEF Captured
  <2> QED
    BY <2>1
<1> QED
  BY <1>3, <1>4, <1>5

LEMMA ChunkShownTyped ==
  ASSUME StreamTyped, ChunkShown
  PROVE  StreamTyped'
<1>1. /\ between # <<>> /\ between \in Seq(Seq(Units))
      /\ shown' = shown \o Head(between) /\ between' = Tail(between)
      /\ capture' = Captured(capture, Head(between))
      /\ UNCHANGED <<upstream, tail, recorded, readable>>
  BY DEF ChunkShown, StreamTyped
<1>2. Head(between) \in Seq(Units) /\ Tail(between) \in Seq(Seq(Units))
  BY <1>1, HeadTailProperties
<1>3. shown' \in Seq(Units)
  BY <1>1, <1>2, ConcatProperties DEF StreamTyped
<1>4. capture' \in [text : Seq(Units \cup {Marker}), off : BOOLEAN, done : BOOLEAN]
  <2>1. capture \in [text : Seq(Units \cup {Marker}), off : BOOLEAN, done : BOOLEAN]
    BY DEF StreamTyped
  <2> QED
    BY <1>1, <1>2, <2>1, CapturedTyped
<1> QED
  BY <1>1, <1>2, <1>3, <1>4 DEF StreamTyped

LEMMA ClientCancelsTyped ==
  ASSUME StreamTyped, ClientCancels
  PROVE  StreamTyped'
<1>1. /\ capture' = [capture EXCEPT !.done = TRUE]
      /\ upstream' = [upstream EXCEPT !.state = IF @ = "open" THEN "cancelled" ELSE @]
      /\ readable' = "errored" /\ between' = <<>> /\ UNCHANGED <<tail, shown>>
      /\ IF readable = "open" THEN Finish ELSE UNCHANGED recorded
  BY DEF ClientCancels
<1>2. capture' \in [text : Seq(Units \cup {Marker}), off : BOOLEAN, done : BOOLEAN]
  BY <1>1 DEF StreamTyped
<1>3. between' \in Seq(Seq(Units))
  BY <1>1
<1>4. CASE readable = "open"
  <2>1. upstream' = [upstream EXCEPT !.state = "cancelled"]
    BY <1>1, <1>4 DEF StreamTyped
  <2>2. "cancelled" \in StreamStates /\ "cancelled" # "open" /\ readable' \in {"closed", "errored"}
    BY <1>1 DEF StreamStates
  <2> QED
    BY <1>1, <1>2, <1>3, <1>4, <2>1, <2>2, EndTyped
<1>5. CASE readable # "open"
  <2>1. upstream' = upstream
    BY <1>1, <1>5 DEF StreamTyped
  <2> QED
    BY <1>1, <1>2, <1>3, <1>5, <2>1 DEF StreamTyped
<1> QED
  BY <1>4, <1>5

LEMMA NextStreamTyped ==
  ASSUME StreamTyped, [StreamNext]_streamVars
  PROVE  StreamTyped'
<1>1. CASE UNCHANGED streamVars
  BY <1>1 DEF StreamTyped, streamVars
<1>2. ASSUME NEW n \in 1..ChunkMax, ChunkArrives(n)
      PROVE  StreamTyped'
  <2>1. n \in Nat
    BY StreamAssumption
  <2> QED
    BY <1>2, <2>1, ChunkArrivesTyped
<1>3. CASE CaptureSettles
  BY <1>3 DEF StreamTyped, CaptureSettles
<1> QED
  BY <1>1, <1>2, <1>3, UpstreamClosesTyped, UpstreamBreaksTyped, ChunkShownTyped,
     ClientCancelsTyped DEF StreamNext

LEMMA TypedStreamTypeOK == StreamTyped => StreamTypeOK
BY DEF StreamTyped, StreamTypeOK, StreamStates

-----------------------------------------------------------------------------
(* The usage *)

(* The buffer is an end of what came, all of it or UsageTail of it at      *)
(* least, and what is recorded is what it holds.                           *)
UsageInv ==
  /\ Ends(tail, upstream.given)
  /\ Len(tail) = Len(upstream.given) \/ Len(tail) >= UsageTail
  /\ IF readable = "open" THEN recorded = <<>> ELSE recorded = <<UsageOf(tail)>>

LEMMA InitUsageInv == StreamInit => UsageInv
<1> SUFFICES ASSUME StreamInit
             PROVE  UsageInv
  OBVIOUS
<1>1. /\ upstream.given = <<>> /\ tail = <<>> /\ recorded = <<>> /\ readable = "open"
  BY DEF StreamInit
<1>2. Ends(<<>>, <<>>)
  BY DEF Ends
<1> QED
  BY <1>1, <1>2 DEF UsageInv

LEMMA FinishRecords ==
  ASSUME UsageInv, readable = "open", readable' # "open", Finish,
         UNCHANGED tail, upstream'.given = upstream.given
  PROVE  UsageInv'
<1>1. recorded = <<>>
  BY DEF UsageInv
<1>2. recorded' = <<UsageOf(tail)>>
  BY <1>1, Zenon DEF Finish
<1>3. UsageOf(tail)' = UsageOf(tail)
  BY Zenon DEF UsageOf, UsageEnds
<1>4. recorded' = <<UsageOf(tail)'>>
  BY <1>2, <1>3, Zenon
<1>5. Ends(tail, upstream.given)'
  BY DEF UsageInv, Ends
<1>6. Len(tail') = Len(upstream'.given) \/ Len(tail') >= UsageTail
  BY DEF UsageInv
<1> QED
  BY <1>4, <1>5, <1>6, Zenon DEF UsageInv

LEMMA SameUsage ==
  ASSUME UsageInv, UNCHANGED <<tail, recorded>>, upstream'.given = upstream.given,
         (readable = "open") <=> (readable' = "open")
  PROVE  UsageInv'
<1>1. UsageOf(tail)' = UsageOf(tail)
  BY Zenon DEF UsageOf, UsageEnds
<1>2. Ends(tail, upstream.given)'
  BY DEF UsageInv, Ends
<1> QED
  BY <1>1, <1>2 DEF UsageInv

LEMMA ChunkArrivesUsage ==
  ASSUME StreamTyped, UsageInv, NEW n \in Nat, ChunkArrives(n)
  PROVE  UsageInv'
<1>1. PICK chunk : chunk = SubSeq(upstream.left, 1, n)
  OBVIOUS
<1>2. PICK before \in Seq(Units), given \in Seq(Units) : before = tail /\ given = upstream.given
  BY DEF StreamTyped
<1>3. /\ n <= Len(upstream.left) /\ readable = "open" /\ readable' = "open"
      /\ upstream'.given = given \o chunk
      /\ tail' = Kept(before, chunk) /\ recorded' = recorded
  BY <1>1, <1>2 DEF ChunkArrives, StreamTyped
<1>4. chunk \in Seq(Units)
  BY <1>1, <1>3, ChunkTyped
<1>5. PICK now \in Seq(Units) : now = Kept(before, chunk)
  BY <1>4, KeptTyped
<1>6. /\ Ends(now, before \o chunk)
      /\ Len(now) = Len(before \o chunk) \/ Len(now) >= UsageTail
  BY <1>4, <1>5, KeptTyped
<1>7. Ends(before, given) /\ (Len(before) = Len(given) \/ Len(before) >= UsageTail)
  BY <1>2 DEF UsageInv
<1>8. /\ before \o chunk \in Seq(Units) /\ given \o chunk \in Seq(Units)
      /\ Len(before \o chunk) = Len(before) + Len(chunk)
      /\ Len(given \o chunk) = Len(given) + Len(chunk)
  BY <1>4, ConcatProperties
<1>9. Ends(now, given \o chunk)
  <2>1. Ends(before \o chunk, given \o chunk)
    BY <1>4, <1>7, EndOfJoin
  <2> QED
    BY <1>6, <1>8, <2>1, EndOfEnd
<1>10. Len(now) = Len(given \o chunk) \/ Len(now) >= UsageTail
  <2>1. Len(before) \in Nat /\ Len(given) \in Nat /\ Len(chunk) \in Nat /\ Len(now) \in Nat
    BY <1>4, LenProperties
  <2> QED
    BY <1>6, <1>7, <1>8, <2>1, StreamAssumptions
<1>11. recorded = <<>>
  BY <1>3 DEF UsageInv
<1>12. tail' = now
  BY <1>3, <1>5
<1>13. Ends(tail, upstream.given)'
  BY <1>3, <1>9, <1>12
<1> QED
  BY <1>3, <1>10, <1>11, <1>12, <1>13, Zenon DEF UsageInv

LEMMA NextUsageInv ==
  ASSUME StreamTyped, UsageInv, [StreamNext]_streamVars
  PROVE  UsageInv'
<1>1. CASE UNCHANGED streamVars
  BY <1>1, SameUsage DEF streamVars
<1>2. ASSUME NEW n \in 1..ChunkMax, ChunkArrives(n)
      PROVE  UsageInv'
  <2>1. n \in Nat
    BY StreamAssumption
  <2> QED
    BY <1>2, <2>1, ChunkArrivesUsage
<1>3. CASE UpstreamCloses
  <2>1. /\ readable = "open" /\ readable' # "open" /\ Finish /\ UNCHANGED tail
        /\ upstream'.given = upstream.given
    BY <1>3 DEF UpstreamCloses, StreamTyped
  <2> QED
    BY <2>1, FinishRecords
<1>4. CASE UpstreamBreaks
  <2>1. /\ readable = "open" /\ readable' # "open" /\ Finish /\ UNCHANGED tail
        /\ upstream'.given = upstream.given
    BY <1>4 DEF UpstreamBreaks, StreamTyped
  <2> QED
    BY <2>1, FinishRecords
<1>5. CASE ClientCancels
  <2>1. /\ readable' # "open" /\ UNCHANGED tail /\ upstream'.given = upstream.given
        /\ IF readable = "open" THEN Finish ELSE UNCHANGED recorded
    BY <1>5 DEF ClientCancels, StreamTyped
  <2>2. CASE readable = "open"
    BY <2>1, <2>2, FinishRecords
  <2>3. CASE readable # "open"
    BY <2>1, <2>3, SameUsage
  <2> QED
    BY <2>2, <2>3
<1>6. CASE ChunkShown
  BY <1>6, SameUsage DEF ChunkShown
<1>7. CASE CaptureSettles
  BY <1>7, SameUsage DEF CaptureSettles
<1> QED
  BY <1>1, <1>2, <1>3, <1>4, <1>5, <1>6, <1>7 DEF StreamNext

LEMMA InvUsageFound == StreamTyped /\ UsageInv => UsageFound
<1> SUFFICES ASSUME StreamTyped, UsageInv
             PROVE  UsageFound
  OBVIOUS
<1>1. PICK buffer \in Seq(Units), given \in Seq(Units) : buffer = tail /\ given = upstream.given
  BY DEF StreamTyped
<1>2. PICK last \in Seq(Units) : last = LastUnits(given, UsageTail)
  BY LastUnitsEnd, StreamAssumptions
<1>3. PICK u : u = UsageOf(buffer)
  OBVIOUS
<1>4. IF readable = "open" THEN recorded = <<>> ELSE recorded = <<u>>
  BY <1>1, <1>3 DEF UsageInv
<1>5. Len(recorded) = IF readable = "open" THEN 0 ELSE 1
  BY <1>4
<1>6. recorded # <<>> => recorded[1] = u
  BY <1>4
<1>7. Ends(buffer, given) /\ (Len(buffer) = Len(given) \/ Len(buffer) >= UsageTail)
  BY <1>1 DEF UsageInv
<1>8. UsageEnds(buffer) # {} => u = UsageOf(given)
  BY <1>3, <1>7, UsageOfEnd
<1>9. UsageEnds(buffer) = {} => u = ""
  BY <1>3, Zenon DEF UsageOf
<1>10. UsageEnds(last) # {} => UsageEnds(buffer) # {}
  <2> SUFFICES ASSUME NEW i \in UsageEnds(last)
               PROVE  UsageEnds(buffer) # {}
    OBVIOUS
  <2>1. /\ Ends(last, given)
        /\ Len(last) = IF Len(given) < UsageTail THEN Len(given) ELSE UsageTail
    BY <1>2, LastUnitsEnd, StreamAssumptions
  <2>2. Len(buffer) \in Nat /\ Len(given) \in Nat /\ Len(last) \in Nat
    BY LenProperties
  <2>3. Len(last) <= Len(buffer)
    BY <1>7, <2>1, <2>2, StreamAssumptions DEF Ends
  <2>4. Ends(last, buffer)
    BY <1>7, <2>1, <2>3, EndOfLonger
  <2>5. i \in 2..Len(last) /\ last[i - 1].half = 1 /\ last[i].half = 2
        /\ last[i - 1].usage = last[i].usage
    BY DEF UsageEnds
  <2>6. PICK o \in Nat : o = Len(buffer) - Len(last)
    BY <2>2, <2>3
  <2>7. \A k \in 1..Len(last) : last[k] = buffer[o + k]
    BY <2>4, <2>6 DEF Ends
  <2>8. /\ i \in 1..Len(last) /\ i - 1 \in 1..Len(last) /\ o + (i - 1) = o + i - 1
        /\ o + i \in 2..Len(buffer)
    BY <2>2, <2>5, <2>6
  <2>9. last[i] = buffer[o + i] /\ last[i - 1] = buffer[o + i - 1]
    BY <2>7, <2>8
  <2>10. o + i \in UsageEnds(buffer)
    BY <2>5, <2>8, <2>9 DEF UsageEnds
  <2> QED
    BY <2>10
<1>11. recorded # <<>> =>
         /\ recorded[1] \in {"", UsageOf(given)}
         /\ UsageEnds(last) # {} => recorded[1] = UsageOf(given)
  BY <1>6, <1>8, <1>9, <1>10, Zenon
<1> QED
  BY <1>1, <1>2, <1>5, <1>11, Zenon DEF UsageFound

-----------------------------------------------------------------------------
(* The capture *)

(* at[i] units of what came are shown once the first i chunks that wait    *)
(* are.                                                                    *)
Queued(at) ==
  /\ at \in [0..Len(between) -> 0..Len(upstream.given)]
  /\ at[0] = Len(shown)
  /\ readable # "errored" => at[Len(between)] = Len(upstream.given)
  /\ \A i \in 1..Len(between) :
       /\ Len(between[i]) = at[i] - at[i - 1]
       /\ \A j \in 1..Len(between[i]) : between[i][j] = upstream.given[at[i - 1] + j]

(* A capture c shows the beginning of a text, and that it is not all of it. *)
Shows(c, text) ==
  /\ c.off <=> Len(text) > CaptureCap
  /\ c.text = IF Len(text) > CaptureCap
                THEN Append(SubSeq(text, 1, CaptureCap), Marker) ELSE text

CaptureInv ==
  /\ Begins(shown, upstream.given)
  /\ IF capture.done THEN readable = "closed" => shown = upstream.given
                     ELSE \E at : Queued(at)
  /\ capture.done => readable # "open"
  /\ Shows(capture, shown)

(* With nothing in between. *)
LEMMA QueueEmpty ==
  ASSUME NEW S, NEW given \in Seq(S), NEW n \in 0..Len(given)
  PROVE  [i \in 0..Len(<<>>) |-> n] \in [0..Len(<<>>) -> 0..Len(given)]
OBVIOUS

LEMMA InitCaptureInv == StreamInit => CaptureInv
<1> SUFFICES ASSUME StreamInit
             PROVE  CaptureInv
  OBVIOUS
<1>1. /\ upstream.given = <<>> /\ between = <<>> /\ shown = <<>> /\ readable = "open"
      /\ capture = [text |-> <<>>, off |-> FALSE, done |-> FALSE]
  BY DEF StreamInit
<1>2. Len(<<>>) = 0
  OBVIOUS
<1>3. Queued([i \in 0..0 |-> 0])
  BY <1>1, <1>2 DEF Queued
<1>4. Begins(shown, upstream.given)
  BY <1>1, <1>2 DEF Begins
<1>5. ~(Len(shown) > CaptureCap) /\ Shows(capture, shown)
  BY <1>1, <1>2, StreamAssumptions DEF Shows
<1> QED
  BY <1>1, <1>3, <1>4, <1>5 DEF CaptureInv

LEMMA WithinChunk ==
  \A a, b, l, j \in Nat : 1 <= j /\ j <= b - a /\ b <= l => a + j \in 1..l
OBVIOUS

LEMMA ChunkArrivesCapture ==
  ASSUME StreamTyped, CaptureInv, NEW n \in Nat, ChunkArrives(n)
  PROVE  CaptureInv'
<1>1. PICK chunk : chunk = SubSeq(upstream.left, 1, n)
  OBVIOUS
<1>2. PICK given \in Seq(Units), queue \in Seq(Seq(Units)) :
         given = upstream.given /\ queue = between
  BY DEF StreamTyped
<1>3. /\ n <= Len(upstream.left) /\ readable = "open"
      /\ upstream'.given = given \o chunk /\ between' = Append(queue, chunk)
      /\ UNCHANGED <<shown, capture, readable>>
  BY <1>1, <1>2 DEF ChunkArrives, StreamTyped
<1>4. chunk \in Seq(Units)
  BY <1>1, <1>3, ChunkTyped
<1>5. PICK longer \in Seq(Units) : longer = given \o chunk
  BY <1>4, ConcatProperties
<1>6. /\ Len(given) \in Nat /\ Len(chunk) \in Nat /\ Len(longer) = Len(given) + Len(chunk)
      /\ \A j \in 1..Len(given) : longer[j] = given[j]
      /\ \A j \in 1..Len(chunk) : longer[Len(given) + j] = chunk[j]
  <2>1. /\ Len(given) \in Nat /\ Len(chunk) \in Nat /\ Len(longer) = Len(given) + Len(chunk)
        /\ \A j \in 1..Len(given) + Len(chunk) :
             longer[j] = IF j <= Len(given) THEN given[j] ELSE chunk[j - Len(given)]
    BY <1>4, <1>5, ConcatProperties, LenProperties
  <2>2. \A j \in 1..Len(given) : longer[j] = given[j]
    BY <2>1
  <2>3. ASSUME NEW j \in 1..Len(chunk)
        PROVE  longer[Len(given) + j] = chunk[j]
    <3>1. Len(given) + j \in 1..Len(given) + Len(chunk) /\ ~(Len(given) + j <= Len(given))
          /\ Len(given) + j - Len(given) = j
      BY <2>1
    <3> QED
      BY <2>1, <3>1
  <2> QED
    BY <2>1, <2>2, <2>3
<1>7. ~capture.done
  BY <1>3 DEF CaptureInv
<1>8. PICK at : Queued(at)
  BY <1>7 DEF CaptureInv
<1>9. PICK m \in Nat : m = Len(queue)
  BY LenProperties
<1>10. /\ at \in [0..m -> 0..Len(given)] /\ at[0] = Len(shown) /\ at[m] = Len(given)
       /\ \A i \in 1..m : /\ Len(queue[i]) = at[i] - at[i - 1]
                          /\ \A j \in 1..Len(queue[i]) : queue[i][j] = given[at[i - 1] + j]
  BY <1>2, <1>3, <1>8, <1>9 DEF Queued
<1>11. PICK more : more = [i \in 0..m + 1 |-> IF i <= m THEN at[i] ELSE Len(longer)]
  OBVIOUS
<1>12. PICK row : row = Append(queue, chunk)
  OBVIOUS
<1>13. Len(row) = m + 1 /\ row[m + 1] = chunk /\ \A i \in 1..m : row[i] = queue[i]
  BY <1>4, <1>9, <1>12, AppendProperties
<1>14. /\ more \in [0..m + 1 -> 0..Len(longer)] /\ more[0] = Len(shown)
       /\ more[m + 1] = Len(longer) /\ more[m] = Len(given) /\ \A i \in 0..m : more[i] = at[i]
  <2>1. \A i \in 0..m : at[i] \in 0..Len(longer)
    BY <1>6, <1>10
  <2> QED
    BY <1>6, <1>10, <1>11, <2>1
<1>15. ASSUME NEW i \in 1..m + 1
       PROVE  /\ Len(row[i]) = more[i] - more[i - 1]
              /\ \A j \in 1..Len(row[i]) : row[i][j] = longer[more[i - 1] + j]
  <2>1. CASE i = m + 1
    <3>1. row[i] = chunk /\ more[i] = Len(longer) /\ more[i - 1] = Len(given)
      <4>1. i - 1 = m
        BY <2>1
      <4> QED
        BY <1>13, <1>14, <2>1, <4>1
    <3>2. Len(chunk) = Len(longer) - Len(given)
      BY <1>6
    <3> QED
      BY <1>6, <3>1, <3>2
  <2>2. CASE i # m + 1
    <3>1. i \in 1..m /\ i - 1 \in 0..m /\ i \in 0..m
      BY <2>2
    <3>2. Len(row[i]) = at[i] - at[i - 1] /\ more[i - 1] = at[i - 1] /\ more[i] = at[i]
      BY <1>10, <1>13, <1>14, <3>1
    <3>3. ASSUME NEW j \in 1..Len(row[i])
          PROVE  row[i][j] = longer[more[i - 1] + j]
      <4>1. row[i][j] = given[at[i - 1] + j]
        BY <1>10, <1>13, <3>1
      <4>2. at[i] \in 0..Len(given) /\ at[i - 1] \in 0..Len(given)
        BY <1>10, <3>1
      <4>3. at[i - 1] + j \in 1..Len(given)
        <5>1. PICK a \in Nat, b \in Nat : a = at[i - 1] /\ b = at[i] /\ b <= Len(given)
          BY <1>6, <4>2
        <5>2. Len(row[i]) = b - a
          BY <3>2, <5>1
        <5>3. j \in Nat /\ 1 <= j /\ j <= b - a
          BY <5>1, <5>2
        <5>4. PICK l \in Nat : l = Len(given)
          BY <1>6
        <5>5. a + j \in 1..l
          BY <5>1, <5>3, <5>4, WithinChunk
        <5> QED
          BY <5>1, <5>4, <5>5
      <4> QED
        BY <1>6, <3>2, <4>1, <4>3
    <3> QED
      BY <3>2, <3>3
  <2> QED
    BY <2>1, <2>2
<1>16. Queued(more)'
  <2>1. /\ between' = row /\ Len(between') = m + 1 /\ upstream'.given = longer
        /\ shown' = shown /\ readable' = readable
    BY <1>2, <1>3, <1>5, <1>12, <1>13
  <2>2. /\ more \in [0..Len(between') -> 0..Len(upstream'.given)] /\ more[0] = Len(shown')
        /\ more[Len(between')] = Len(upstream'.given)
    BY <1>14, <2>1
  <2>3. \A i \in 1..Len(between') :
          /\ Len(between'[i]) = more[i] - more[i - 1]
          /\ \A j \in 1..Len(between'[i]) : between'[i][j] = upstream'.given[more[i - 1] + j]
    BY <1>15, <2>1
  <2> QED
    BY <2>2, <2>3, Zenon DEF Queued
<1>17. Begins(shown, upstream.given)'
  <2>1. Begins(shown, given) /\ Len(shown) \in Nat
    BY <1>2, LenProperties DEF CaptureInv, StreamTyped
  <2>2. Len(shown) <= Len(longer)
    BY <1>6, <2>1 DEF Begins
  <2>3. \A i \in 1..Len(shown) : i \in 1..Len(given) /\ shown[i] = longer[i]
    BY <1>6, <2>1 DEF Begins
  <2> QED
    BY <1>3, <1>5, <2>2, <2>3 DEF Begins
<1> QED
  BY <1>3, <1>7, <1>16, <1>17 DEF CaptureInv

(* What the trace holds, given what the client was. *)
LEMMA CapturedText ==
  ASSUME NEW before \in Seq(Units), NEW chunk \in Seq(Units), NEW all,
         all = before \o chunk,
         NEW c \in [text : Seq(Units \cup {Marker}), off : BOOLEAN, done : BOOLEAN],
         Shows(c, before)
  PROVE  Captured(c, chunk).done = c.done /\ Shows(Captured(c, chunk), all)
<1>1. all \in Seq(Units) /\ all = before \o chunk
  BY ConcatProperties
<1>2. Len(all) = Len(before) + Len(chunk) /\ Len(before) \in Nat /\ Len(chunk) \in Nat
  BY <1>1, ConcatProperties, LenProperties
<1>3. CASE c.off
  <2>1. Captured(c, chunk) = c
    BY <1>3 DEF Captured
  <2>2. Len(before) > CaptureCap /\ Len(all) > CaptureCap
    BY <1>2, <1>3, StreamAssumptions DEF Shows
  <2>3. SubSeq(all, 1, CaptureCap) = SubSeq(before, 1, CaptureCap)
    <3>1. CASE CaptureCap = 0
      BY <3>1, SubSeqEmpty
    <3>2. CASE CaptureCap # 0
      <4>1. 1 \in 1..Len(before) /\ CaptureCap \in 1..Len(before)
        BY <1>2, <2>2, <3>2, StreamAssumptions
      <4> QED
        BY <1>1, <4>1, SubSeqOfConcat1
    <3> QED
      BY <3>1, <3>2
  <2> QED
    BY <1>1, <1>3, <2>1, <2>2, <2>3 DEF Shows
<1>4. CASE ~c.off
  <2>1. c.text = before
    BY <1>4 DEF Shows
  <2>2. CASE Len(all) > CaptureCap
    <3>1. Captured(c, chunk) =
            [c EXCEPT !.text = Append(SubSeq(all, 1, CaptureCap), Marker), !.off = TRUE]
      BY <1>1, <1>4, <2>1, <2>2 DEF Captured
    <3> QED
      BY <1>1, <2>2, <3>1 DEF Shows
  <2>3. CASE ~(Len(all) > CaptureCap)
    <3>1. Captured(c, chunk) = [c EXCEPT !.text = all]
      BY <1>1, <1>4, <2>1, <2>3 DEF Captured
    <3> QED
      BY <1>1, <1>4, <2>3, <3>1 DEF Shows
  <2> QED
    BY <2>2, <2>3
<1> QED
  BY <1>3, <1>4

LEMMA ChunkShownCapture ==
  ASSUME StreamTyped, CaptureInv, ChunkShown
  PROVE  CaptureInv'
<1>1. PICK given \in Seq(Units), queue \in Seq(Seq(Units)), before \in Seq(Units) :
         given = upstream.given /\ queue = between /\ before = shown
  BY DEF StreamTyped
<1>2. /\ ~capture.done /\ queue # <<>>
      /\ shown' = before \o Head(queue) /\ between' = Tail(queue)
      /\ capture' = Captured(capture, Head(queue))
      /\ upstream'.given = given /\ readable' = readable
  BY <1>1 DEF ChunkShown
<1>3. PICK m \in Nat : m + 1 = Len(queue)
  <2>1. Len(queue) \in Nat \ {0}
    BY <1>2, EmptySeq
  <2>2. Len(queue) - 1 \in Nat /\ (Len(queue) - 1) + 1 = Len(queue)
    BY <2>1
  <2> QED
    BY <2>2
<1>4. PICK chunk \in Seq(Units), rest \in Seq(Seq(Units)) :
         chunk = Head(queue) /\ rest = Tail(queue)
  BY <1>2, HeadTailProperties
<1>5. chunk = queue[1] /\ Len(rest) = m /\ \A i \in 1..m : rest[i] = queue[i + 1]
  <2>1. Head(queue) = queue[1]
    BY <1>2, <1>3
  <2> QED
    BY <1>2, <1>3, <1>4, <2>1, HeadTailProperties
<1>6. PICK at : Queued(at)
  BY <1>2 DEF CaptureInv
<1>7. /\ at \in [0..m + 1 -> 0..Len(given)] /\ at[0] = Len(before)
      /\ readable # "errored" => at[m + 1] = Len(given)
      /\ \A i \in 1..m + 1 : /\ Len(queue[i]) = at[i] - at[i - 1]
                             /\ \A j \in 1..Len(queue[i]) : queue[i][j] = given[at[i - 1] + j]
  BY <1>1, <1>3, <1>6, Zenon DEF Queued
<1>8. PICK now \in Seq(Units) : now = before \o chunk
  BY ConcatProperties
<1>9. /\ Len(given) \in Nat /\ Len(before) \in Nat /\ Len(chunk) \in Nat
      /\ Len(now) = Len(before) + Len(chunk)
      /\ \A i \in 1..Len(before) + Len(chunk) :
           now[i] = IF i <= Len(before) THEN before[i] ELSE chunk[i - Len(before)]
  BY <1>8, ConcatProperties, LenProperties
<1>10. /\ Len(chunk) = at[1] - at[0] /\ \A j \in 1..Len(chunk) : chunk[j] = given[at[0] + j]
  <2>1. 1 \in 1..m + 1 /\ 1 - 1 = 0
    OBVIOUS
  <2> QED
    BY <1>5, <1>7, <2>1
<1>11. at[1] = Len(now) /\ at[1] \in 0..Len(given)
  <2>1. at[1] \in 0..Len(given)
    BY <1>7
  <2> QED
    BY <1>7, <1>9, <1>10, <2>1
<1>12. PICK less : less = [i \in 0..m |-> at[i + 1]]
  OBVIOUS
<1>13. /\ less \in [0..m -> 0..Len(given)] /\ less[0] = Len(now) /\ less[m] = at[m + 1]
       /\ \A i \in 0..m : less[i] = at[i + 1]
  <2>1. \A i \in 0..m : at[i + 1] \in 0..Len(given)
    <3>1. \A i \in 0..m : i + 1 \in 0..m + 1
      OBVIOUS
    <3> QED
      BY <1>7, <3>1
  <2>2. 0 \in 0..m /\ m \in 0..m /\ 0 + 1 = 1
    OBVIOUS
  <2> QED
    BY <1>11, <1>12, <2>1, <2>2
<1>14. ASSUME NEW i \in 1..m
       PROVE  /\ Len(rest[i]) = less[i] - less[i - 1]
              /\ \A j \in 1..Len(rest[i]) : rest[i][j] = given[less[i - 1] + j]
  <2>1. i + 1 \in 1..m + 1 /\ i \in 0..m /\ i - 1 \in 0..m /\ (i - 1) + 1 = i /\ (i + 1) - 1 = i
    OBVIOUS
  <2>2. PICK k \in 1..m + 1 : k = i + 1 /\ k - 1 = i
    BY <2>1
  <2>3. rest[i] = queue[k]
    BY <1>5, <2>1, <2>2
  <2>4. less[i] = at[k] /\ less[i - 1] = at[k - 1]
    <3>1. less[i] = at[i + 1]
      BY <1>13, <2>1
    <3>2. less[i - 1] = at[i]
      BY <1>13, <2>1
    <3> QED
      BY <2>2, <3>1, <3>2
  <2>5. /\ Len(queue[k]) = at[k] - at[k - 1]
        /\ \A j \in 1..Len(queue[k]) : queue[k][j] = given[at[k - 1] + j]
    BY <1>7, <2>2
  <2> QED
    BY <2>3, <2>4, <2>5
<1>15. Queued(less)'
  <2>1. /\ between' = rest /\ Len(between') = m /\ upstream'.given = given
        /\ shown' = now /\ readable' = readable
    BY <1>2, <1>4, <1>5, <1>8
  <2> QED
    BY <1>7, <1>13, <1>14, <2>1, Zenon DEF Queued
<1>16. Begins(now, given)
  <2>1. Begins(before, given)
    BY <1>1 DEF CaptureInv
  <2>2. Len(now) <= Len(given)
    BY <1>9, <1>11
  <2>3. ASSUME NEW i \in 1..Len(now)
        PROVE  now[i] = given[i]
    <3>1. CASE i <= Len(before)
      <4>1. i \in 1..Len(before) /\ i \in 1..Len(before) + Len(chunk)
        BY <1>9, <3>1
      <4>2. before[i] = given[i]
        BY <2>1, <4>1 DEF Begins
      <4>3. now[i] = before[i]
        BY <1>9, <3>1, <4>1
      <4> QED
        BY <4>2, <4>3
    <3>2. CASE ~(i <= Len(before))
      <4>1. PICK j \in 1..Len(chunk) : j = i - Len(before)
        BY <1>9, <3>2
      <4>2. now[i] = chunk[j]
        BY <1>9, <3>2, <4>1
      <4>3. at[0] + j = i
        BY <1>7, <1>9, <4>1
      <4> QED
        BY <1>10, <4>2, <4>3
    <3> QED
      BY <3>1, <3>2
  <2> QED
    BY <2>2, <2>3 DEF Begins
<1>17. PICK c : c = capture
  OBVIOUS
<1>18. /\ c \in [text : Seq(Units \cup {Marker}), off : BOOLEAN, done : BOOLEAN]
       /\ Shows(c, before)
  BY <1>1, <1>17 DEF StreamTyped, CaptureInv
<1>19. Captured(c, chunk).done = c.done /\ Shows(Captured(c, chunk), now)
  BY <1>8, <1>18, CapturedText
<1>20. capture' = Captured(c, chunk) /\ shown' = now /\ upstream'.given = given
  BY <1>2, <1>4, <1>8, <1>17
<1>21. ~capture'.done
  BY <1>2, <1>17, <1>19, <1>20
<1> QED
  BY <1>15, <1>16, <1>19, <1>20, <1>21 DEF CaptureInv

(* Nothing is shown, and what is captured stays. *)
LEMMA CaptureEnds ==
  ASSUME CaptureInv, UNCHANGED shown, upstream'.given = upstream.given,
         capture'.text = capture.text, capture'.off = capture.off, capture'.done,
         readable' # "open", readable' = "closed" => shown = upstream.given
  PROVE  CaptureInv'
<1>1. Begins(shown, upstream.given)'
  BY DEF CaptureInv, Begins
<1> QED
  BY <1>1 DEF CaptureInv, Shows

LEMMA CaptureSettlesCapture ==
  ASSUME StreamTyped, CaptureInv, CaptureSettles
  PROVE  CaptureInv'
<1>1. /\ ~capture.done /\ readable # "open" /\ between = <<>>
      /\ capture' = [capture EXCEPT !.done = TRUE]
      /\ UNCHANGED <<upstream, tail, recorded, between, shown, readable>>
  BY DEF CaptureSettles
<1>2. PICK given \in Seq(Units), seen \in Seq(Units) : given = upstream.given /\ seen = shown
  BY DEF StreamTyped
<1>3. PICK at : Queued(at)
  BY <1>1 DEF CaptureInv
<1>4. readable = "closed" => Len(seen) = Len(given)
  BY <1>1, <1>2, <1>3 DEF Queued
<1>5. readable = "closed" => seen = given
  <2> SUFFICES ASSUME readable = "closed"
               PROVE  seen = given
    OBVIOUS
  <2>1. \A i \in 1..Len(seen) : seen[i] = given[i]
    BY <1>2 DEF CaptureInv, Begins
  <2> QED
    BY <1>4, <2>1, SeqEqual
<1>6. capture'.text = capture.text /\ capture'.off = capture.off /\ capture'.done
  BY <1>1 DEF StreamTyped
<1> QED
  BY <1>1, <1>2, <1>5, <1>6, CaptureEnds

LEMMA UpstreamEndsCapture ==
  ASSUME StreamTyped, CaptureInv, UpstreamCloses \/ UpstreamBreaks
  PROVE  CaptureInv'
<1>1. /\ readable = "open" /\ readable' # "open" /\ UNCHANGED <<shown, capture>>
      /\ upstream'.given = upstream.given
      /\ \/ readable' = "closed" /\ between' = between
         \/ readable' = "errored" /\ between' = <<>>
  BY DEF UpstreamCloses, UpstreamBreaks, StreamTyped
<1>2. ~capture.done
  BY <1>1 DEF CaptureInv
<1>3. PICK at : Queued(at)
  BY <1>2 DEF CaptureInv
<1>4. \E now : Queued(now)'
  <2>1. CASE readable' = "closed" /\ between' = between
    <3>1. Queued(at)'
      BY <1>1, <1>3, <2>1 DEF Queued
    <3> QED
      BY <3>1
  <2>2. CASE readable' = "errored" /\ between' = <<>>
    <3>1. PICK now : now = [i \in 0..0 |-> Len(shown)]
      OBVIOUS
    <3>2. Len(shown) \in 0..Len(upstream.given)
      <4>1. Len(shown) <= Len(upstream.given)
        BY DEF CaptureInv, Begins
      <4>2. Len(shown) \in Nat /\ Len(upstream.given) \in Nat
        BY LenProperties DEF StreamTyped
      <4> QED
        BY <4>1, <4>2
    <3>3. Len(between') = 0
      BY <2>2
    <3>4. Queued(now)'
      BY <1>1, <2>2, <3>1, <3>2, <3>3 DEF Queued
    <3> QED
      BY <3>4
  <2> QED
    BY <1>1, <2>1, <2>2
<1>5. Begins(shown, upstream.given)'
  BY <1>1 DEF CaptureInv, Begins
<1> QED
  BY <1>1, <1>2, <1>4, <1>5 DEF CaptureInv

LEMMA NextCaptureInv ==
  ASSUME StreamTyped, CaptureInv, [StreamNext]_streamVars
  PROVE  CaptureInv'
<1>1. CASE UNCHANGED streamVars
  BY <1>1 DEF streamVars, CaptureInv, Queued, Begins, Shows
<1>2. ASSUME NEW n \in 1..ChunkMax, ChunkArrives(n)
      PROVE  CaptureInv'
  <2>1. n \in Nat
    BY StreamAssumption
  <2> QED
    BY <1>2, <2>1, ChunkArrivesCapture
<1>3. CASE ClientCancels
  <2>1. /\ UNCHANGED shown /\ upstream'.given = upstream.given /\ readable' = "errored"
        /\ capture'.text = capture.text /\ capture'.off = capture.off /\ capture'.done
    BY <1>3 DEF ClientCancels, StreamTyped
  <2> QED
    BY <2>1, CaptureEnds
<1> QED
  BY <1>1, <1>2, <1>3, UpstreamEndsCapture, ChunkShownCapture, CaptureSettlesCapture
  DEF StreamNext

LEMMA InvCaptureFaithful == StreamTyped /\ CaptureInv => CaptureFaithful
<1> SUFFICES ASSUME StreamTyped, CaptureInv
             PROVE  CaptureFaithful
  OBVIOUS
<1>1. PICK given \in Seq(Units), seen \in Seq(Units) : given = upstream.given /\ seen = shown
  BY DEF StreamTyped
<1>2. Len(seen) \in Nat /\ Len(given) \in Nat /\ Begins(seen, given)
  BY <1>1, LenProperties DEF CaptureInv
<1>3. PICK one : one = SubSeq(given, 1, Len(seen))
  OBVIOUS
<1>4. /\ one \in Seq(Units) /\ Len(one) = Len(seen)
      /\ \A i \in 1..Len(seen) : one[i] = given[i]
  <2>1. \A i \in 1..Len(seen) : given[i] \in Units
    BY <1>2, ElementOfSeq DEF Begins
  <2>2. /\ one \in Seq(Units)
        /\ Len(one) = IF 1 <= Len(seen) THEN Len(seen) - 1 + 1 ELSE 0
        /\ \A i \in 1..Len(seen) - 1 + 1 : one[i] = given[1 + i - 1]
    BY <1>2, <1>3, <2>1, SubSeqProperties
  <2> QED
    BY <1>2, <2>2
<1>5. one = seen
  <2>1. \A i \in 1..Len(one) : one[i] = seen[i]
    BY <1>2, <1>4 DEF Begins
  <2> QED
    BY <1>4, <2>1, SeqEqual
<1>6. SubSeq(seen, 1, Len(seen)) = seen
  BY SubSeqFull
<1>7. IsPrefix(shown, upstream.given)
  BY <1>1, <1>2, <1>3, <1>5, <1>6 DEF IsPrefix, Begins
<1> QED
  BY <1>7 DEF CaptureInv, CaptureFaithful, Shows

LEMMA StreamInvariant == StreamSpec => [](StreamTyped /\ UsageInv /\ CaptureInv)
<1>1. StreamInit => StreamTyped /\ UsageInv /\ CaptureInv
  BY InitStreamTyped, InitUsageInv, InitCaptureInv
<1>2. /\ StreamTyped /\ UsageInv /\ CaptureInv
      /\ [StreamNext]_streamVars
      => (StreamTyped /\ UsageInv /\ CaptureInv)'
  BY NextStreamTyped, NextUsageInv, NextCaptureInv
<1> QED
  BY <1>1, <1>2, PTL DEF StreamSpec

(* The buffer of the usage stays within twice its end, whatever comes.     *)
THEOREM StreamTypes == StreamSpec => []StreamTypeOK
<1>1. StreamTyped => StreamTypeOK
  BY TypedStreamTypeOK
<1> QED
  BY <1>1, StreamInvariant, PTL

(* However a body is cut into chunks and however it ends, one usage is     *)
(* recorded, that of the last line with usage if it lies within the end    *)
(* that is kept (requests/chat_completions_v2.ts:1057-1108).               *)
THEOREM UsageIsFound == StreamSpec => []UsageFound
<1>1. StreamTyped /\ UsageInv => UsageFound
  BY InvUsageFound
<1> QED
  BY <1>1, StreamInvariant, PTL

(* Whatever waits between the two transforms when a stream ends, the       *)
(* client was given a beginning of the body and the trace a beginning of   *)
(* that (tracing/collector.ts:251-289).                                    *)
THEOREM CaptureIsFaithful == StreamSpec => []CaptureFaithful
<1>1. StreamTyped /\ CaptureInv => CaptureFaithful
  BY InvCaptureFaithful
<1> QED
  BY <1>1, StreamInvariant, PTL


(* Induction up to n, for a set of numbers.                                *)
LEMMA UpTo ==
  ASSUME NEW n \in Nat, NEW S, 0 \in S, \A k \in 1..n : k - 1 \in S => k \in S
  PROVE  \A k \in 0..n : k \in S
<1> DEFINE missing == {k \in 0..n : k \notin S}
<1>1. SUFFICES ASSUME missing # {}
               PROVE  FALSE
  OBVIOUS
<1>2. missing \subseteq Nat
  OBVIOUS
<1>3. PICK k \in missing : \A m \in missing : k <= m
  BY <1>1, <1>2, LeastNatural
<1>4. k \in 1..n /\ k - 1 \in 0..n /\ ~(k <= k - 1)
  BY <1>3
<1> QED
  BY <1>3, <1>4

LEMMA Interval ==
  ASSUME NEW k \in Nat, k # 0
  PROVE  /\ 1..k # {} /\ Max(1..k) = k
         /\ (1..k) \ {k} = 1..(k - 1)
<1>1. 1..k # {} /\ k \in 1..k
  OBVIOUS
<1>2. Max(1..k) \in 1..k /\ \A i \in 1..k : i <= Max(1..k)
  BY <1>1, GreatestIndex
<1>3. Max(1..k) = k
  BY <1>1, <1>2
<1> QED
  BY <1>1, <1>3

-----------------------------------------------------------------------------
(* Folds: a fold over indices goes through one value after the other.      *)

Folding(f, n, base, g) ==
  \A u \in SUBSET (1..n) :
    f[u] = IF u = {} THEN base ELSE g[<<f[u \ {Max(u)}], Max(u)>>]

LEMMA FoldExists ==
  ASSUME NEW n \in Nat, NEW D, NEW base \in D, NEW g \in [D \X (1..n) -> D]
  PROVE  \E f \in [SUBSET (1..n) -> D] : Folding(f, n, base, g)
<1> DEFINE Folds(f, k) == Folding(f, k, base, g)
           S == {k \in 0..n : \E f \in [SUBSET (1..k) -> D] : Folds(f, k)}
<1>1. 0 \in S
  <2>1. SUBSET (1..0) = {{}}
    OBVIOUS
  <2>2. [u \in SUBSET (1..0) |-> base] \in [SUBSET (1..0) -> D]
    OBVIOUS
  <2>3. Folds([u \in SUBSET (1..0) |-> base], 0)
    BY <2>1 DEF Folding
  <2>4. \E f \in [SUBSET (1..0) -> D] : Folds(f, 0)
    <3> HIDE DEF Folds
    <3> QED
      BY <2>2, <2>3
  <2>5. 0 \in 0..n
    OBVIOUS
  <2> HIDE DEF Folds
  <2> QED
    BY <2>4, <2>5
<1>2. ASSUME NEW k \in 1..n, k - 1 \in S
      PROVE  k \in S
  <2>1. PICK f \in [SUBSET (1..(k - 1)) -> D] : Folds(f, k - 1)
    BY <1>2
  <2> DEFINE h == [u \in SUBSET (1..k) |->
                     IF k \in u THEN g[<<f[u \ {k}], k>>] ELSE f[u]]
  <2>2. \A u \in SUBSET (1..k) :
          /\ k \in u => u \ {k} \in SUBSET (1..(k - 1))
          /\ k \notin u => u \in SUBSET (1..(k - 1))
    OBVIOUS
  <2>3. h \in [SUBSET (1..k) -> D]
    BY <2>2
  <2>4. ASSUME NEW u \in SUBSET (1..k)
        PROVE  h[u] = IF u = {} THEN base ELSE g[<<h[u \ {Max(u)}], Max(u)>>]
    <3>1. CASE k \in u
      <4>0. k \in Nat /\ u \subseteq 1..k /\ u # {}
        BY <3>1
      <4>1. Max(u) \in u /\ \A i \in u : i <= Max(u)
        BY <4>0, GreatestIndex
      <4>2. Max(u) = k
        <5>1. Max(u) \in 1..k /\ k <= Max(u)
          BY <3>1, <4>0, <4>1
        <5> QED
          BY <5>1
      <4>3. h[u \ {k}] = f[u \ {k}]
        OBVIOUS
      <4> QED
        BY <3>1, <4>2, <4>3
    <3>2. CASE k \notin u
      <4>1. u \in SUBSET (1..(k - 1)) /\ h[u] = f[u]
        BY <2>2, <3>2
      <4>2. CASE u = {}
        BY <2>1, <4>1, <4>2 DEF Folding
      <4>3. CASE u # {}
        <5>0. k \in Nat /\ u \subseteq 1..k
          OBVIOUS
        <5>1. Max(u) \in u
          BY <4>3, <5>0, GreatestIndex
        <5>2. k \notin u \ {Max(u)} /\ u \ {Max(u)} \in SUBSET (1..k)
          BY <3>2
        <5>3. h[u \ {Max(u)}] = f[u \ {Max(u)}]
          BY <5>2
        <5> QED
          BY <2>1, <4>1, <4>3, <5>3 DEF Folding
      <4> QED
        BY <4>2, <4>3
    <3> QED
      BY <3>1, <3>2
  <2>5. Folds(h, k)
    BY <2>4 DEF Folding
  <2> HIDE DEF h, Folds
  <2> QED
    BY <2>3, <2>5
<1>3. n \in S
  <2> HIDE DEF S
  <2>1. \A k \in 0..n : k \in S
    BY <1>1, <1>2, UpTo
  <2>2. n \in 0..n
    OBVIOUS
  <2> QED
    BY <2>1, <2>2
<1> QED
  BY <1>3

(* F folds as far as its values stay in D. *)
FoldingIn(F, n, D, base, g) ==
  /\ F[{}] = base
  /\ \A u \in SUBSET (1..n) :
       u # {} /\ F[u \ {Max(u)}] \in D => F[u] = g[<<F[u \ {Max(u)}], Max(u)>>]

RunOf(run, F, n, base, g) ==
  /\ run[0] = base /\ run[n] = F[1..n]
  /\ \A k \in 1..n : run[k] = g[<<run[k - 1], k>>]

LEMMA FoldRuns ==
  ASSUME NEW n \in Nat, NEW D, NEW base \in D, NEW g \in [D \X (1..n) -> D], NEW F,
         FoldingIn(F, n, D, base, g)
  PROVE  \E run \in [0..n -> D] : RunOf(run, F, n, base, g)
<1> DEFINE S == {k \in 0..n : F[1..k] \in D}
           run == [k \in 0..n |-> F[1..k]]
<1>1. F[1..0] = base
  <2>1. 1..0 = {}
    OBVIOUS
  <2> QED
    BY <2>1 DEF FoldingIn
<1>2. ASSUME NEW k \in 1..n, F[1..(k - 1)] \in D
      PROVE  F[1..k] = g[<<F[1..(k - 1)], k>>] /\ F[1..k] \in D
  <2>0. k \in Nat /\ k # 0
    OBVIOUS
  <2>1. 1..k # {} /\ Max(1..k) = k /\ (1..k) \ {k} = 1..(k - 1)
    BY <2>0, Interval
  <2>2. 1..k \in SUBSET (1..n)
    OBVIOUS
  <2>3. F[1..k] = g[<<F[1..(k - 1)], k>>]
    BY <1>2, <2>1, <2>2 DEF FoldingIn
  <2> QED
    BY <1>2, <2>3
<1>3. \A k \in 0..n : k \in S
  <2>1. 0 \in S
    BY <1>1
  <2>2. ASSUME NEW k \in 1..n, k - 1 \in S
        PROVE  k \in S
    <3>1. F[1..(k - 1)] \in D /\ k \in 0..n
      BY <2>2
    <3> QED
      BY <1>2, <3>1
  <2> HIDE DEF S
  <2> QED
    BY <2>1, <2>2, UpTo
<1>4. run \in [0..n -> D] /\ run[0] = base /\ run[n] = F[1..n]
  BY <1>1, <1>3
<1>5. ASSUME NEW k \in 1..n
      PROVE  run[k] = g[<<run[k - 1], k>>]
  <2>1. k - 1 \in 0..n /\ k \in 0..n
    OBVIOUS
  <2> QED
    BY <1>2, <1>3, <2>1
<1>6. RunOf(run, F, n, base, g)
  BY <1>4, <1>5 DEF RunOf
<1> HIDE DEF run
<1> QED
  BY <1>4, <1>6

PlainParts == {Part("text"), Part("image")}

(* The calls of a history, one after the other, as NameById takes them.    *)
AllCalls(msgs) == FoldLeft(LAMBDA all, msg : all \o msg.calls, <<>>, msgs)

CallsRun(run, s) ==
  /\ run[0] = <<>> /\ run[Len(s)] = CallsIn(s)
  /\ \A k \in 1..Len(s) :
       run[k] = IF s[k].kind = "call" THEN Append(run[k - 1], s[k]) ELSE run[k - 1]

LEMMA CallsInRuns ==
  ASSUME NEW E, NEW s \in Seq(E)
  PROVE  \E run \in [0..Len(s) -> Seq(E)] : CallsRun(run, s)
<1> DEFINE D == Seq(E)
           op(x, k) == IF s[k].kind = "call" THEN Append(x, s[k]) ELSE x
<1>0. PICK n \in Nat : n = Len(s) /\ DOMAIN s = 1..n
  BY LenProperties
<1> DEFINE g == [y \in D \X (1..n) |-> op(y[1], y[2])]
           Folded(f) == [u \in SUBSET (1..n) |->
                           IF u = {} THEN <<>> ELSE op(f[u \ {Max(u)}], Max(u))]
           F == CHOOSE f : f = Folded(f)
<1>1. CallsIn(s) = F[1..n]
  BY <1>0, Zenon DEF CallsIn, FoldLeft, MapThenFoldSet
<1>2. <<>> \in D
  OBVIOUS
<1>3. \A x \in D, k \in 1..n : op(x, k) \in D
  BY <1>0
<1> HIDE DEF D, op
<1>4. g \in [D \X (1..n) -> D] /\ \A x \in D, k \in 1..n : g[<<x, k>>] = op(x, k)
  BY <1>3
<1> HIDE DEF g
<1>5. PICK f \in [SUBSET (1..n) -> D] : Folding(f, n, <<>>, g)
  BY <1>2, <1>4, FoldExists, Zenon
<1>6. \A u \in SUBSET (1..n) : u # {} => Max(u) \in 1..n /\ u \ {Max(u)} \in SUBSET (1..n)
  BY GreatestIndex
<1>7. f = Folded(f)
  <2>1. ASSUME NEW u \in SUBSET (1..n), u # {}
        PROVE  f[u] = op(f[u \ {Max(u)}], Max(u))
    <3>1. f[u \ {Max(u)}] \in D
      BY <1>6, <2>1
    <3> QED
      BY <1>4, <1>5, <1>6, <2>1, <3>1 DEF Folding
  <2> QED
    BY <1>5, <2>1 DEF Folding
<1>8. F = Folded(F)
  <2> HIDE DEF Folded
  <2> QED
    BY <1>7, Zenon
<1> HIDE DEF F
<1>9. FoldingIn(F, n, D, <<>>, g)
  BY <1>4, <1>6, <1>8 DEF FoldingIn
<1>10. PICK run \in [0..n -> D] : RunOf(run, F, n, <<>>, g)
  BY <1>2, <1>4, <1>9, FoldRuns, Zenon
<1>11. ASSUME NEW k \in 1..n
       PROVE  run[k] = op(run[k - 1], k)
  <2>1. k - 1 \in 0..n
    OBVIOUS
  <2>2. run[k - 1] \in D
    BY <2>1
  <2> QED
    BY <1>4, <1>10, <2>2 DEF RunOf
<1>12. CallsRun(run, s)
  BY <1>0, <1>1, <1>10, <1>11 DEF D, op, RunOf, CallsRun
<1>13. run \in [0..Len(s) -> Seq(E)]
  BY <1>0 DEF D
<1> QED
  BY <1>12, <1>13

FirstsRun(run, s) ==
  /\ run[0] = <<>> /\ run[Len(s)] = FirstCalls(s)
  /\ \A k \in 1..Len(s) :
       run[k] = IF /\ s[k].kind = "call"
                   /\ \A c \in DOMAIN run[k - 1] : run[k - 1][c].name # s[k].name
                  THEN Append(run[k - 1], s[k]) ELSE run[k - 1]

LEMMA FirstCallsRuns ==
  ASSUME NEW E, NEW s \in Seq(E)
  PROVE  \E run \in [0..Len(s) -> Seq(E)] : FirstsRun(run, s)
<1> DEFINE D == Seq(E)
           op(x, k) == IF s[k].kind = "call" /\ \A c \in DOMAIN x : x[c].name # s[k].name
                         THEN Append(x, s[k]) ELSE x
<1>0. PICK n \in Nat : n = Len(s) /\ DOMAIN s = 1..n
  BY LenProperties
<1> DEFINE g == [y \in D \X (1..n) |-> op(y[1], y[2])]
           Folded(f) == [u \in SUBSET (1..n) |->
                           IF u = {} THEN <<>> ELSE op(f[u \ {Max(u)}], Max(u))]
           F == CHOOSE f : f = Folded(f)
<1>1. FirstCalls(s) = F[1..n]
  BY <1>0, Zenon DEF FirstCalls, FoldLeft, MapThenFoldSet
<1>2. <<>> \in D
  OBVIOUS
<1>3. \A x \in D, k \in 1..n : op(x, k) \in D
  BY <1>0
<1> HIDE DEF D, op
<1>4. g \in [D \X (1..n) -> D] /\ \A x \in D, k \in 1..n : g[<<x, k>>] = op(x, k)
  BY <1>3
<1> HIDE DEF g
<1>5. PICK f \in [SUBSET (1..n) -> D] : Folding(f, n, <<>>, g)
  BY <1>2, <1>4, FoldExists, Zenon
<1>6. \A u \in SUBSET (1..n) : u # {} => Max(u) \in 1..n /\ u \ {Max(u)} \in SUBSET (1..n)
  BY GreatestIndex
<1>7. f = Folded(f)
  <2>1. ASSUME NEW u \in SUBSET (1..n), u # {}
        PROVE  f[u] = op(f[u \ {Max(u)}], Max(u))
    <3>1. f[u \ {Max(u)}] \in D
      BY <1>6, <2>1
    <3> QED
      BY <1>4, <1>5, <1>6, <2>1, <3>1 DEF Folding
  <2> QED
    BY <1>5, <2>1 DEF Folding
<1>8. F = Folded(F)
  <2> HIDE DEF Folded
  <2> QED
    BY <1>7, Zenon
<1> HIDE DEF F
<1>9. FoldingIn(F, n, D, <<>>, g)
  BY <1>4, <1>6, <1>8 DEF FoldingIn
<1>10. PICK run \in [0..n -> D] : RunOf(run, F, n, <<>>, g)
  BY <1>2, <1>4, <1>9, FoldRuns, Zenon
<1>11. ASSUME NEW k \in 1..n
       PROVE  run[k] = op(run[k - 1], k)
  <2>1. k - 1 \in 0..n
    OBVIOUS
  <2>2. run[k - 1] \in D
    BY <2>1
  <2> QED
    BY <1>4, <1>10, <2>2 DEF RunOf
<1>12. FirstsRun(run, s)
  BY <1>0, <1>1, <1>10, <1>11 DEF D, op, RunOf, FirstsRun
<1>13. run \in [0..Len(s) -> Seq(E)]
  BY <1>0 DEF D
<1> QED
  BY <1>12, <1>13

PartsRun(run, s) ==
  /\ run[0] = <<>> /\ run[Len(s)] = UserParts(s)
  /\ \A k \in 1..Len(s) :
       run[k] = IF s[k] \in {"blank", "unknown"} THEN run[k - 1]
                ELSE Append(run[k - 1], Part(IF s[k] = "image" THEN s[k] ELSE "text"))

LEMMA UserPartsRuns ==
  ASSUME NEW s \in Seq(ItemKinds)
  PROVE  \E run \in [0..Len(s) -> Seq(PlainParts)] : PartsRun(run, s)
<1> DEFINE D == Seq(PlainParts)
           op(x, k) == IF s[k] \in {"blank", "unknown"} THEN x
                       ELSE Append(x, Part(IF s[k] = "image" THEN s[k] ELSE "text"))
<1>0. PICK n \in Nat : n = Len(s) /\ DOMAIN s = 1..n
  BY LenProperties
<1> DEFINE g == [y \in D \X (1..n) |-> op(y[1], y[2])]
           Folded(f) == [u \in SUBSET (1..n) |->
                           IF u = {} THEN <<>> ELSE op(f[u \ {Max(u)}], Max(u))]
           F == CHOOSE f : f = Folded(f)
<1>1. UserParts(s) = F[1..n]
  BY <1>0, Zenon DEF UserParts, FoldLeft, MapThenFoldSet
<1>2. <<>> \in D
  OBVIOUS
<1>3. \A x \in D, k \in 1..n : op(x, k) \in D
  BY <1>0 DEF PlainParts
<1> HIDE DEF D, op
<1>4. g \in [D \X (1..n) -> D] /\ \A x \in D, k \in 1..n : g[<<x, k>>] = op(x, k)
  BY <1>3
<1> HIDE DEF g
<1>5. PICK f \in [SUBSET (1..n) -> D] : Folding(f, n, <<>>, g)
  BY <1>2, <1>4, FoldExists, Zenon
<1>6. \A u \in SUBSET (1..n) : u # {} => Max(u) \in 1..n /\ u \ {Max(u)} \in SUBSET (1..n)
  BY GreatestIndex
<1>7. f = Folded(f)
  <2>1. ASSUME NEW u \in SUBSET (1..n), u # {}
        PROVE  f[u] = op(f[u \ {Max(u)}], Max(u))
    <3>1. f[u \ {Max(u)}] \in D
      BY <1>6, <2>1
    <3> QED
      BY <1>4, <1>5, <1>6, <2>1, <3>1 DEF Folding
  <2> QED
    BY <1>5, <2>1 DEF Folding
<1>8. F = Folded(F)
  <2> HIDE DEF Folded
  <2> QED
    BY <1>7, Zenon
<1> HIDE DEF F
<1>9. FoldingIn(F, n, D, <<>>, g)
  BY <1>4, <1>6, <1>8 DEF FoldingIn
<1>10. PICK run \in [0..n -> D] : RunOf(run, F, n, <<>>, g)
  BY <1>2, <1>4, <1>9, FoldRuns, Zenon
<1>11. ASSUME NEW k \in 1..n
       PROVE  run[k] = op(run[k - 1], k)
  <2>1. k - 1 \in 0..n
    OBVIOUS
  <2>2. run[k - 1] \in D
    BY <2>1
  <2> QED
    BY <1>4, <1>10, <2>2 DEF RunOf
<1>12. PartsRun(run, s)
  BY <1>0, <1>1, <1>10, <1>11 DEF D, op, RunOf, PartsRun
<1>13. run \in [0..Len(s) -> Seq(PlainParts)]
  BY <1>0 DEF D
<1> QED
  BY <1>12, <1>13

ConcatRun(run, s) ==
  /\ run[0] = <<>> /\ run[Len(s)] = AllCalls(s)
  /\ \A k \in 1..Len(s) :
       run[k] = run[k - 1] \o s[k].calls

LEMMA ConcatRuns ==
  ASSUME NEW s \in Seq(Messages)
  PROVE  \E run \in [0..Len(s) -> Seq(ToolCalls)] : ConcatRun(run, s)
<1> DEFINE D == Seq(ToolCalls)
           op(x, k) == x \o s[k].calls
<1>0. PICK n \in Nat : n = Len(s) /\ DOMAIN s = 1..n
  BY LenProperties
<1> DEFINE g == [y \in D \X (1..n) |-> op(y[1], y[2])]
           Folded(f) == [u \in SUBSET (1..n) |->
                           IF u = {} THEN <<>> ELSE op(f[u \ {Max(u)}], Max(u))]
           F == CHOOSE f : f = Folded(f)
<1>1. AllCalls(s) = F[1..n]
  BY <1>0, Zenon DEF AllCalls, FoldLeft, MapThenFoldSet
<1>2. <<>> \in D
  OBVIOUS
<1>3. \A x \in D, k \in 1..n : op(x, k) \in D
  <2>1. ASSUME NEW k \in 1..n
        PROVE  s[k].calls \in Seq(ToolCalls)
    <3>1. s[k] \in Messages
      BY <1>0
    <3> QED
      BY <3>1 DEF Messages
  <2> QED
    BY <2>1, ConcatProperties
<1> HIDE DEF D, op
<1>4. g \in [D \X (1..n) -> D] /\ \A x \in D, k \in 1..n : g[<<x, k>>] = op(x, k)
  BY <1>3
<1> HIDE DEF g
<1>5. PICK f \in [SUBSET (1..n) -> D] : Folding(f, n, <<>>, g)
  BY <1>2, <1>4, FoldExists, Zenon
<1>6. \A u \in SUBSET (1..n) : u # {} => Max(u) \in 1..n /\ u \ {Max(u)} \in SUBSET (1..n)
  BY GreatestIndex
<1>7. f = Folded(f)
  <2>1. ASSUME NEW u \in SUBSET (1..n), u # {}
        PROVE  f[u] = op(f[u \ {Max(u)}], Max(u))
    <3>1. f[u \ {Max(u)}] \in D
      BY <1>6, <2>1
    <3> QED
      BY <1>4, <1>5, <1>6, <2>1, <3>1 DEF Folding
  <2> QED
    BY <1>5, <2>1 DEF Folding
<1>8. F = Folded(F)
  <2> HIDE DEF Folded
  <2> QED
    BY <1>7, Zenon
<1> HIDE DEF F
<1>9. FoldingIn(F, n, D, <<>>, g)
  BY <1>4, <1>6, <1>8 DEF FoldingIn
<1>10. PICK run \in [0..n -> D] : RunOf(run, F, n, <<>>, g)
  BY <1>2, <1>4, <1>9, FoldRuns, Zenon
<1>11. ASSUME NEW k \in 1..n
       PROVE  run[k] = op(run[k - 1], k)
  <2>1. k - 1 \in 0..n
    OBVIOUS
  <2>2. run[k - 1] \in D
    BY <2>1
  <2> QED
    BY <1>4, <1>10, <2>2 DEF RunOf
<1>12. ConcatRun(run, s)
  BY <1>0, <1>1, <1>10, <1>11 DEF D, op, RunOf, ConcatRun
<1>13. run \in [0..Len(s) -> Seq(ToolCalls)]
  BY <1>0 DEF D
<1> QED
  BY <1>12, <1>13

-----------------------------------------------------------------------------
(* The calls of a sequence of parts                                        *)

LEMMA CallsInAppend ==
  ASSUME NEW E, NEW s \in Seq(E), NEW p \in E
  PROVE  /\ CallsIn(s) \in Seq(E)
         /\ CallsIn(Append(s, p)) = IF p.kind = "call" THEN Append(CallsIn(s), p) ELSE CallsIn(s)
<1>0. PICK n \in Nat : n = Len(s)
  BY LenProperties
<1>t. PICK t : t = Append(s, p)
  OBVIOUS
<1>1. t \in Seq(E) /\ Len(t) = n + 1 /\ t[n + 1] = p /\ \A k \in 1..n : t[k] = s[k]
  BY <1>0, <1>t, AppendProperties
<1>2. PICK run \in [0..Len(s) -> Seq(E)] : CallsRun(run, s)
  BY CallsInRuns, Zenon
<1>3. PICK next \in [0..Len(t) -> Seq(E)] : CallsRun(next, t)
  BY <1>1, CallsInRuns, Zenon
<1>4. \A k \in 0..n : next[k] = run[k]
  <2> DEFINE S == {k \in 0..n : next[k] = run[k]}
  <2>1. 0 \in S
    BY <1>2, <1>3 DEF CallsRun
  <2>2. ASSUME NEW k \in 1..n, k - 1 \in S
        PROVE  k \in S
    <3>1. k \in 1..Len(t) /\ k \in 1..Len(s) /\ k \in 0..n /\ next[k - 1] = run[k - 1] /\ t[k] = s[k]
      BY <1>0, <1>1, <2>2
    <3> QED
      BY <1>2, <1>3, <3>1 DEF CallsRun
  <2>3. \A k \in 0..n : k \in S
    <3> HIDE DEF S
    <3> QED
      BY <2>1, <2>2, UpTo
  <2> QED
    BY <2>3
<1>5. /\ n + 1 \in 1..Len(t) /\ n + 1 - 1 = n /\ n \in 0..n /\ n \in 0..Len(s)
  BY <1>0, <1>1
<1>6. next[n + 1] = IF p.kind = "call" THEN Append(next[n], p) ELSE next[n]
  <2>1. PICK m \in 1..Len(t) : m = n + 1 /\ m - 1 = n
    BY <1>5
  <2>2. next[m] = IF t[m].kind = "call" THEN Append(next[m - 1], t[m]) ELSE next[m - 1]
    BY <1>3 DEF CallsRun
  <2>3. t[m] = p
    BY <1>1, <2>1
  <2> QED
    BY <2>1, <2>2, <2>3
<1>7. run[n] = CallsIn(s) /\ run[n] \in Seq(E) /\ next[n + 1] = CallsIn(t) /\ next[n] = run[n]
  BY <1>0, <1>1, <1>2, <1>3, <1>4, <1>5 DEF CallsRun
<1> QED
  BY <1>t, <1>6, <1>7

LEMMA CallsInEmpty == CallsIn(<<>>) = <<>>
<1>1. <<>> \in Seq(AnswerParts) /\ Len(<<>>) = 0
  OBVIOUS
<1>2. PICK run \in [0..Len(<<>>) -> Seq(AnswerParts)] : CallsRun(run, <<>>)
  BY <1>1, CallsInRuns, Zenon
<1> QED
  BY <1>1, <1>2 DEF CallsRun

(* What is a call in s is in CallsIn(s), and nothing else is. *)
LEMMA CallsInElements ==
  ASSUME NEW E, NEW s \in Seq(E)
  PROVE  /\ \A c \in DOMAIN CallsIn(s) :
              \E i \in DOMAIN s : s[i].kind = "call" /\ CallsIn(s)[c] = s[i]
         /\ \A i \in DOMAIN s :
              s[i].kind = "call" => \E c \in DOMAIN CallsIn(s) : CallsIn(s)[c] = s[i]
<1>0. PICK n \in Nat : n = Len(s) /\ DOMAIN s = 1..n
  BY LenProperties
<1>1. PICK run \in [0..Len(s) -> Seq(E)] : CallsRun(run, s)
  BY CallsInRuns, Zenon
<1> DEFINE Holds(k) ==
             /\ \A c \in DOMAIN run[k] : \E i \in 1..k : s[i].kind = "call" /\ run[k][c] = s[i]
             /\ \A i \in 1..k : s[i].kind = "call" => \E c \in DOMAIN run[k] : run[k][c] = s[i]
           S == {k \in 0..n : Holds(k)}
<1>2. 0 \in S
  BY <1>1 DEF CallsRun
<1>3. ASSUME NEW k \in 1..n, k - 1 \in S
      PROVE  k \in S
  <2>1. PICK before \in Seq(E) : before = run[k - 1]
    BY <1>0
  <2>2. /\ \A c \in DOMAIN before : \E i \in 1..(k - 1) : s[i].kind = "call" /\ before[c] = s[i]
        /\ \A i \in 1..(k - 1) : s[i].kind = "call" => \E c \in DOMAIN before : before[c] = s[i]
    BY <1>3, <2>1
  <2>3. s[k] \in E /\ k \in 1..Len(s) /\ k \in 0..n
    BY <1>0
  <2>4. PICK now : now = run[k]
    OBVIOUS
  <2>5. now = IF s[k].kind = "call" THEN Append(before, s[k]) ELSE before
    BY <1>1, <2>1, <2>3, <2>4 DEF CallsRun
  <2>6. /\ \A c \in DOMAIN now : \E i \in 1..k : s[i].kind = "call" /\ now[c] = s[i]
        /\ \A i \in 1..k : s[i].kind = "call" => \E c \in DOMAIN now : now[c] = s[i]
    <3>1. CASE s[k].kind = "call"
      <4>1. /\ DOMAIN now = 1..(Len(before) + 1) /\ now[Len(before) + 1] = s[k]
            /\ \A c \in 1..Len(before) : now[c] = before[c]
            /\ DOMAIN before = 1..Len(before) /\ Len(before) \in Nat
        BY <2>3, <2>5, <3>1, AppendProperties, LenProperties
      <4>2. ASSUME NEW c \in DOMAIN now
            PROVE  \E i \in 1..k : s[i].kind = "call" /\ now[c] = s[i]
        <5>1. CASE c = Len(before) + 1
          BY <3>1, <4>1, <5>1
        <5>2. CASE c \in 1..Len(before)
          BY <2>2, <4>1, <5>2
        <5> QED
          BY <4>1, <5>1, <5>2
      <4>3. ASSUME NEW i \in 1..k, s[i].kind = "call"
            PROVE  \E c \in DOMAIN now : now[c] = s[i]
        <5>1. CASE i = k
          BY <4>1, <5>1
        <5>2. CASE i \in 1..(k - 1)
          <6>1. PICK c \in DOMAIN before : before[c] = s[i]
            BY <2>2, <4>3, <5>2
          <6> QED
            BY <4>1, <6>1
        <5> QED
          BY <5>1, <5>2
      <4> QED
        BY <4>2, <4>3
    <3>2. CASE s[k].kind # "call"
      <4>1. now = before
        BY <2>5, <3>2
      <4>2. \A i \in 1..k : s[i].kind = "call" => i \in 1..(k - 1)
        BY <3>2
      <4>3. \A i \in 1..(k - 1) : i \in 1..k
        OBVIOUS
      <4> QED
        BY <2>2, <4>1, <4>2, <4>3
    <3> QED
      BY <3>1, <3>2
  <2> QED
    BY <2>3, <2>4, <2>6
<1>4. n \in S
  <2> HIDE DEF S
  <2>1. \A k \in 0..n : k \in S
    BY <1>2, <1>3, UpTo
  <2>2. n \in 0..n
    OBVIOUS
  <2> QED
    BY <2>1, <2>2
<1>5. PICK calls : calls = run[n]
  OBVIOUS
<1>6. CallsIn(s) = calls
  BY <1>0, <1>1, <1>5 DEF CallsRun
<1>7. /\ \A c \in DOMAIN calls : \E i \in 1..n : s[i].kind = "call" /\ calls[c] = s[i]
      /\ \A i \in 1..n : s[i].kind = "call" => \E c \in DOMAIN calls : calls[c] = s[i]
  BY <1>4, <1>5
<1> QED
  BY <1>0, <1>6, <1>7

(* Sequences that agree in kinds and names have calls that agree in names. *)
LEMMA CallsInAlike ==
  ASSUME NEW E, NEW s \in Seq(E), NEW t \in Seq(E), Len(t) = Len(s),
         \A i \in 1..Len(s) : s[i].kind = t[i].kind /\ s[i].name = t[i].name
  PROVE  /\ Len(CallsIn(t)) = Len(CallsIn(s))
         /\ \A c \in 1..Len(CallsIn(s)) : CallsIn(t)[c].name = CallsIn(s)[c].name
<1>0. PICK n \in Nat : n = Len(s) /\ DOMAIN s = 1..n
  BY LenProperties
<1>1. PICK run \in [0..Len(s) -> Seq(E)] : CallsRun(run, s)
  BY CallsInRuns, Zenon
<1>2. PICK other \in [0..Len(t) -> Seq(E)] : CallsRun(other, t)
  BY CallsInRuns, Zenon
<1> DEFINE Alike(a, b) == Len(a) = Len(b) /\ \A c \in 1..Len(b) : a[c].name = b[c].name
           S == {k \in 0..n : Alike(other[k], run[k])}
<1>3. 0 \in S
  BY <1>1, <1>2 DEF CallsRun
<1>4. ASSUME NEW k \in 1..n, k - 1 \in S
      PROVE  k \in S
  <2>1. /\ s[k] \in E /\ t[k] \in E /\ k \in 1..Len(s) /\ k \in 1..Len(t) /\ k \in 0..n
        /\ k - 1 \in 0..Len(s) /\ k - 1 \in 0..Len(t)
    BY <1>0
  <2>a. PICK a \in Seq(E) : a = other[k - 1]
    BY <2>1
  <2>b. PICK b \in Seq(E) : b = run[k - 1]
    BY <2>1
  <2>2. Alike(a, b)
    BY <1>4, <2>a, <2>b
  <2>3. /\ s[k] \in E /\ t[k] \in E /\ k \in 1..Len(s) /\ k \in 1..Len(t) /\ k \in 0..n
        /\ s[k].kind = t[k].kind /\ s[k].name = t[k].name
    BY <1>0
  <2>4. other[k] = (IF s[k].kind = "call" THEN Append(a, t[k]) ELSE a)
        /\ run[k] = (IF s[k].kind = "call" THEN Append(b, s[k]) ELSE b)
    BY <1>1, <1>2, <2>1, <2>a, <2>b, <2>3 DEF CallsRun
  <2>5. Alike(Append(a, t[k]), Append(b, s[k]))
    BY <2>2, <2>3, AppendProperties, LenProperties
  <2> HIDE DEF Alike
  <2> QED
    BY <2>2, <2>3, <2>4, <2>5
<1>5. n \in S
  <2> HIDE DEF S
  <2>1. \A k \in 1..n : k - 1 \in S => k \in S
    BY <1>4
  <2>2. \A k \in 0..n : k \in S
    BY <1>3, <2>1, UpTo, Zenon
  <2> QED
    BY <2>2
<1>6. CallsIn(s) = run[n] /\ CallsIn(t) = other[n]
  BY <1>0, <1>1, <1>2 DEF CallsRun
<1>7. Alike(other[n], run[n])
  BY <1>5
<1> QED
  BY <1>6, <1>7

LEMMA FirstCallsAppend ==
  ASSUME NEW E, NEW s \in Seq(E), NEW p \in E
  PROVE  /\ FirstCalls(s) \in Seq(E)
         /\ FirstCalls(Append(s, p)) =
              IF p.kind = "call" /\ \A c \in DOMAIN FirstCalls(s) : FirstCalls(s)[c].name # p.name
                THEN Append(FirstCalls(s), p) ELSE FirstCalls(s)
<1>0. PICK n \in Nat : n = Len(s)
  BY LenProperties
<1>t. PICK t : t = Append(s, p)
  OBVIOUS
<1>1. t \in Seq(E) /\ Len(t) = n + 1 /\ t[n + 1] = p /\ \A k \in 1..n : t[k] = s[k]
  BY <1>0, <1>t, AppendProperties
<1>2. PICK run \in [0..Len(s) -> Seq(E)] : FirstsRun(run, s)
  BY FirstCallsRuns, Zenon
<1>3. PICK next \in [0..Len(t) -> Seq(E)] : FirstsRun(next, t)
  BY <1>1, FirstCallsRuns, Zenon
<1>4. \A k \in 0..n : next[k] = run[k]
  <2> DEFINE S == {k \in 0..n : next[k] = run[k]}
  <2>1. 0 \in S
    BY <1>2, <1>3 DEF FirstsRun
  <2>2. ASSUME NEW k \in 1..n, k - 1 \in S
        PROVE  k \in S
    <3>1. k \in 1..Len(t) /\ k \in 1..Len(s) /\ k \in 0..n /\ next[k - 1] = run[k - 1] /\ t[k] = s[k]
      BY <1>0, <1>1, <2>2
    <3> QED
      BY <1>2, <1>3, <3>1 DEF FirstsRun
  <2>3. \A k \in 0..n : k \in S
    <3> HIDE DEF S
    <3> QED
      BY <2>1, <2>2, UpTo
  <2> QED
    BY <2>3
<1>5. /\ n + 1 \in 1..Len(t) /\ n + 1 - 1 = n /\ n \in 0..n /\ n \in 0..Len(s)
  BY <1>0, <1>1
<1>6. next[n + 1] =
        IF p.kind = "call" /\ \A c \in DOMAIN next[n] : next[n][c].name # p.name
          THEN Append(next[n], p) ELSE next[n]
  <2>1. PICK m \in 1..Len(t) : m = n + 1 /\ m - 1 = n
    BY <1>5
  <2>2. next[m] =
          IF t[m].kind = "call" /\ \A c \in DOMAIN next[m - 1] : next[m - 1][c].name # t[m].name
            THEN Append(next[m - 1], t[m]) ELSE next[m - 1]
    BY <1>3 DEF FirstsRun
  <2>3. t[m] = p
    BY <1>1, <2>1
  <2> QED
    BY <2>1, <2>2, <2>3
<1>7. run[n] = FirstCalls(s) /\ run[n] \in Seq(E) /\ next[n + 1] = FirstCalls(t) /\ next[n] = run[n]
  BY <1>0, <1>1, <1>2, <1>3, <1>4, <1>5 DEF FirstsRun
<1> QED
  BY <1>t, <1>6, <1>7

LEMMA FirstCallsEmpty == FirstCalls(<<>>) = <<>>
<1>1. <<>> \in Seq(AnswerParts) /\ Len(<<>>) = 0
  OBVIOUS
<1>2. PICK run \in [0..Len(<<>>) -> Seq(AnswerParts)] : FirstsRun(run, <<>>)
  BY <1>1, FirstCallsRuns, Zenon
<1> QED
  BY <1>1, <1>2 DEF FirstsRun

(* Texts and images are all there is in the content of a user. *)
LEMMA UserPartsPlain ==
  ASSUME NEW items \in Seq(ItemKinds)
  PROVE  UserParts(items) \in Seq(PlainParts)
<1>1. PICK run \in [0..Len(items) -> Seq(PlainParts)] : PartsRun(run, items)
  BY UserPartsRuns, Zenon
<1> QED
  BY <1>1, LenProperties DEF PartsRun

(* The signature of a turn is that of one of its parts, the last if it has one. *)
LEMMA TurnSigOfPart ==
  ASSUME NEW s \in Seq(AnswerParts), s # <<>>
  PROVE  \E i \in DOMAIN s : TurnSig(s) = s[i].sig
<1>0. PICK n \in Nat : n = Len(s) /\ DOMAIN s = 1..n /\ 1 \in 1..n
  BY EmptySeq, LenProperties
<1> DEFINE signed == {i \in DOMAIN s : s[i].sig # Empty}
<1>1. CASE signed = {}
  <2>1. s[1].sig = Empty
    BY <1>0, <1>1
  <2> QED
    BY <1>0, <1>1, <2>1 DEF TurnSig
<1>2. CASE signed # {}
  <2>1. signed \subseteq 1..n
    BY <1>0
  <2>2. Max(signed) \in signed
    BY <1>2, <2>1, GreatestIndex
  <2> QED
    BY <1>2, <2>2 DEF TurnSig
<1> QED
  BY <1>1, <1>2

LEMMA TurnSigOfLast ==
  ASSUME NEW s \in Seq(AnswerParts), NEW p \in AnswerParts, p.sig # Empty
  PROVE  TurnSig(Append(s, p)) = p.sig
<1>0. PICK n \in Nat : n = Len(s)
  BY LenProperties
<1>1. PICK t \in Seq(AnswerParts) : t = Append(s, p)
  BY AppendProperties
<1>2. DOMAIN t = 1..(n + 1) /\ t[n + 1] = p /\ n + 1 \in 1..(n + 1) /\ n + 1 \in Nat
  BY <1>0, <1>1, AppendProperties, LenProperties
<1>3. PICK signed : signed = {i \in DOMAIN t : t[i].sig # Empty}
  OBVIOUS
<1>4. signed \subseteq 1..(n + 1) /\ n + 1 \in signed
  BY <1>2, <1>3
<1>5. Max(signed) \in signed /\ \A i \in signed : i <= Max(signed)
  BY <1>2, <1>4, GreatestIndex
<1>6. Max(signed) = n + 1
  <2>1. Max(signed) \in 1..(n + 1) /\ n + 1 <= Max(signed)
    BY <1>4, <1>5
  <2> QED
    BY <2>1
<1>7. TurnSig(t) = t[Max(signed)].sig
  BY <1>3, <1>4 DEF TurnSig
<1> QED
  BY <1>1, <1>2, <1>6, <1>7

-----------------------------------------------------------------------------
(* A streamed answer                                                       *)

ContentItems ==
  [kind : {"text", "thinking", "call"}, name : Texts, args : Seq(Texts), sig : Texts]
SeenCalls == [call : ToolCalls, pieces : Seq(Texts)]
StreamedAnswers ==
  [parts : Seq(AnswerParts), content : Seq(ContentItems), seen : Seq(SeenCalls)]

(* What the client is told of call p of an answer with these parts. *)
Told(item, p, parts) ==
  /\ item.call.name = p.name /\ item.call.id.name = p.name
  /\ item.call.id.sig = item.call.sig
  /\ IF p.sig # Empty THEN item.call.sig = p.sig
     ELSE \E i \in DOMAIN parts : item.call.sig = parts[i].sig
  /\ Parsed(item.pieces) = NoArgs

(* The calls of the answer, of the adapter's content and of the client's   *)
(* view are those of the first parts, one by one.                          *)
SameCalls(firsts, calls, seen, parts) ==
  /\ Len(calls) = Len(firsts) /\ Len(seen) = Len(firsts)
  /\ \A c \in 1..Len(firsts) :
       /\ firsts[c].kind = "call" /\ calls[c].name = firsts[c].name
       /\ Told(seen[c], firsts[c], parts)

StreamSound(a) == SameCalls(FirstCalls(a.parts), CallsIn(a.content), a.seen, a.parts)

LEMMA TextFacts == Empty \in Texts /\ NoArgs \in Texts /\ "t" \in Texts /\ "result" \in Texts
  BY DialogAssumption

LEMMA ToldOfMore ==
  ASSUME NEW item, NEW q, NEW s \in Seq(AnswerParts), NEW p \in AnswerParts, Told(item, q, s)
  PROVE  Told(item, q, Append(s, p))
<1>1. \A i \in DOMAIN s : i \in DOMAIN Append(s, p) /\ Append(s, p)[i] = s[i]
  BY AppendProperties, LenProperties
<1> QED
  BY <1>1 DEF Told

LEMMA StreamPartSound ==
  ASSUME history \in Seq(Messages), NEW a \in StreamedAnswers, NEW p \in AnswerParts, StreamSound(a)
  PROVE  /\ StreamPart(a, p) \in StreamedAnswers /\ StreamSound(StreamPart(a, p))
         /\ StreamPart(a, p).parts = Append(a.parts, p)
<1>1. PICK given \in Seq(AnswerParts), content \in Seq(ContentItems), seen \in Seq(SeenCalls) :
        given = a.parts /\ content = a.content /\ seen = a.seen
  BY DEF StreamedAnswers
<1>2. PICK parts \in Seq(AnswerParts) : parts = Append(given, p)
  BY AppendProperties
<1>3. PICK firsts \in Seq(AnswerParts) : firsts = FirstCalls(given)
  BY FirstCallsAppend
<1>4. PICK calls \in Seq(ContentItems) : calls = CallsIn(content)
  <2>1. CallsIn(content) \in Seq(ContentItems)
    <3>1. PICK run \in [0..Len(content) -> Seq(ContentItems)] : CallsRun(run, content)
      BY CallsInRuns, Zenon
    <3> QED
      BY <3>1, LenProperties DEF CallsRun
  <2> QED
    BY <2>1
<1>e. /\ \A c \in DOMAIN calls :
           \E i \in DOMAIN content : content[i].kind = "call" /\ calls[c] = content[i]
      /\ \A i \in DOMAIN content :
           content[i].kind = "call" => \E c \in DOMAIN calls : calls[c] = content[i]
  BY <1>4, CallsInElements, Zenon
<1>5. PICK m \in Nat : m = Len(firsts)
  BY LenProperties
<1>6. /\ Len(calls) = m /\ Len(seen) = m
      /\ DOMAIN firsts = 1..m /\ DOMAIN calls = 1..m /\ DOMAIN seen = 1..m
      /\ \A c \in 1..m : firsts[c].kind = "call" /\ calls[c].name = firsts[c].name
      /\ \A c \in 1..m : Told(seen[c], firsts[c], parts)
  <2>1. SameCalls(firsts, calls, seen, given)
    BY <1>1, <1>3, <1>4 DEF StreamSound
  <2>2. \A c \in 1..m : Told(seen[c], firsts[c], given)
    BY <1>5, <2>1 DEF SameCalls
  <2>3. \A c \in 1..m : Told(seen[c], firsts[c], parts)
    BY <1>2, <2>2, ToldOfMore
  <2> QED
    BY <1>5, <2>1, <2>3, LenProperties DEF SameCalls
<1>7. PICK sig \in Texts : sig = TurnSig(parts)
  <2>1. parts # <<>> /\ \A i \in DOMAIN parts : parts[i].sig \in Texts
    BY <1>2, AppendProperties DEF AnswerParts
  <2> QED
    BY <2>1, TurnSigOfPart
<1>8. /\ p.sig # Empty => sig = p.sig
      /\ \E i \in DOMAIN parts : sig = parts[i].sig
  <2>1. parts # <<>>
    BY <1>2, AppendProperties
  <2> QED
    BY <1>2, <1>7, <2>1, TurnSigOfPart, TurnSigOfLast
<1>9. PICK call \in ToolCalls : call = NewCall(Len(calls), p, sig)
  <2>1. Len(history) \in Nat /\ m \in Nat /\ p.name \in Texts /\ p.args \in Texts
    BY LenProperties DEF AnswerParts
  <2>2. (IF sig = Empty THEN m + 10 * Len(history) ELSE m) \in Nat
    BY <2>1
  <2> QED
    BY <1>6, <2>1, <2>2 DEF NewCall, EncodeId, ToolCalls, CallIds
<1>10. /\ call.name = p.name /\ call.id.name = p.name /\ call.sig = sig /\ call.id.sig = sig
  BY <1>9 DEF NewCall, EncodeId
<1>11. PICK item \in ContentItems :
         item = [kind |-> p.kind, name |-> p.name, args |-> MergedArgs(<<>>, p.args),
                 sig |-> IF p.kind = "call" THEN call.sig ELSE Empty]
  <2>1. MergedArgs(<<>>, p.args) \in Seq(Texts)
    BY DEF MergedArgs, AnswerParts
  <2>2. (IF p.kind = "call" THEN call.sig ELSE Empty) \in Texts
    BY <1>7, <1>10, TextFacts
  <2>3. p.kind \in {"text", "thinking", "call"} /\ p.name \in Texts
    BY DEF AnswerParts
  <2> QED
    BY <2>1, <2>2, <2>3 DEF ContentItems
<1>12. PICK same : same = Continued(content, p)
  OBVIOUS
<1>13. PICK told \in SeenCalls :
         told = [call |-> call, pieces |-> IF p.args = NoArgs THEN <<NoArgs>>
                                           ELSE <<p.args, p.args, p.args>>]
  <2>1. p.args \in Texts
    BY DEF AnswerParts
  <2>2. <<NoArgs>> \in Seq(Texts) /\ <<p.args, p.args, p.args>> \in Seq(Texts)
    BY <2>1, TextFacts
  <2>3. (IF p.args = NoArgs THEN <<NoArgs>> ELSE <<p.args, p.args, p.args>>) \in Seq(Texts)
    BY <2>2
  <2> QED
    BY <2>3 DEF SeenCalls
<1>14. Told(told, p, parts)
  <2>1. Parsed(told.pieces) = NoArgs
    BY <1>13 DEF Parsed
  <2> QED
    BY <1>8, <1>10, <1>13, <2>1 DEF Told
<1>15. PICK grown : grown = IF same = {} THEN Append(content, item)
                            ELSE IF p.kind # "call" THEN content
                            ELSE [content EXCEPT ![Min(same)].args = MergedArgs(@, p.args)]
  OBVIOUS
<1>16. PICK displayed : displayed = IF same # {} \/ p.kind # "call" THEN seen ELSE Append(seen, told)
  OBVIOUS
<1>17. StreamPart(a, p) = [parts |-> parts, content |-> grown, seen |-> displayed]
  BY <1>1, <1>2, <1>4, <1>7, <1>9, <1>11, <1>12, <1>13, <1>15, <1>16 DEF StreamPart
<1>18. grown \in Seq(ContentItems) /\ displayed \in Seq(SeenCalls)
       /\ SameCalls(FirstCalls(parts), CallsIn(grown), displayed, parts)
  <2>1. FirstCalls(parts) =
          IF p.kind = "call" /\ \A c \in DOMAIN firsts : firsts[c].name # p.name
            THEN Append(firsts, p) ELSE firsts
    <3>1. FirstCalls(Append(given, p)) =
            IF p.kind = "call" /\ \A c \in DOMAIN FirstCalls(given) : FirstCalls(given)[c].name # p.name
              THEN Append(FirstCalls(given), p) ELSE FirstCalls(given)
      BY FirstCallsAppend, Zenon
    <3> QED
      BY <1>2, <1>3, <3>1, Zenon
  <2>2. CallsIn(Append(content, item)) = IF item.kind = "call" THEN Append(calls, item) ELSE calls
    BY <1>4, CallsInAppend
  <2>3. Append(content, item) \in Seq(ContentItems)
    BY AppendProperties
  <2>4. CASE p.kind # "call"
    <3>1. displayed = seen /\ FirstCalls(parts) = firsts
      BY <1>16, <2>1, <2>4
    <3>2. grown \in Seq(ContentItems) /\ CallsIn(grown) = calls
      BY <1>4, <1>11, <1>15, <2>2, <2>3, <2>4
    <3> QED
      BY <1>5, <1>6, <3>1, <3>2 DEF SameCalls
  <2>5. CASE p.kind = "call" /\ same = {}
    <3>1. \A c \in DOMAIN firsts : firsts[c].name # p.name
      <4>1. SUFFICES ASSUME NEW c \in 1..m, firsts[c].name = p.name
                     PROVE  FALSE
        BY <1>6
      <4>2. PICK i \in DOMAIN content : content[i].kind = "call" /\ calls[c] = content[i]
        BY <1>6, <1>e
      <4>3. i \in same
        BY <1>6, <1>12, <2>5, <4>1, <4>2 DEF Continued
      <4> QED
        BY <2>5, <4>3
    <3>2. /\ FirstCalls(parts) = Append(firsts, p) /\ displayed = Append(seen, told)
          /\ grown = Append(content, item) /\ CallsIn(grown) = Append(calls, item)
      BY <1>11, <1>15, <1>16, <2>1, <2>2, <2>5, <3>1
    <3>3. /\ Len(Append(firsts, p)) = m + 1 /\ Len(Append(calls, item)) = m + 1
          /\ Len(Append(seen, told)) = m + 1
      BY <1>5, <1>6, AppendProperties
    <3>4. PICK firsts2, calls2, seen2 :
            firsts2 = Append(firsts, p) /\ calls2 = Append(calls, item) /\ seen2 = Append(seen, told)
      OBVIOUS
    <3>a. /\ firsts2[m + 1] = p /\ calls2[m + 1] = item /\ seen2[m + 1] = told
          /\ \A c \in 1..m : firsts2[c] = firsts[c] /\ calls2[c] = calls[c] /\ seen2[c] = seen[c]
      BY <1>5, <1>6, <3>4, AppendProperties
    <3>b. item.name = p.name
      BY <1>11
    <3>c. ASSUME NEW c \in 1..(m + 1)
          PROVE  /\ firsts2[c].kind = "call" /\ calls2[c].name = firsts2[c].name
                 /\ Told(seen2[c], firsts2[c], parts)
      <4>1. c = m + 1 \/ c \in 1..m
        OBVIOUS
      <4>2. CASE c = m + 1
        BY <1>14, <2>5, <3>a, <3>b, <4>2
      <4>3. CASE c \in 1..m
        BY <1>6, <3>a, <4>3
      <4> QED
        BY <4>1, <4>2, <4>3
    <3>5. SameCalls(firsts2, calls2, seen2, parts)
      BY <3>3, <3>4, <3>c DEF SameCalls
    <3>6. Append(seen, told) \in Seq(SeenCalls)
      BY AppendProperties
    <3> QED
      BY <2>3, <3>2, <3>4, <3>5, <3>6
  <2>6. CASE p.kind = "call" /\ same # {}
    <3>1. PICK i \in DOMAIN content : i \in same /\ content[i].kind = "call" /\ content[i].name = p.name
      BY <1>12, <2>6 DEF Continued
    <3>2. PICK c \in DOMAIN calls : calls[c] = content[i]
      BY <1>e, <3>1
    <3>3. FirstCalls(parts) = firsts /\ displayed = seen
      BY <1>6, <1>16, <2>1, <2>6, <3>1, <3>2
    <3>4. PICK j : j = Min(same)
      OBVIOUS
    <3>5. /\ grown \in Seq(ContentItems) /\ Len(grown) = Len(content)
          /\ \A k \in 1..Len(content) :
               content[k].kind = grown[k].kind /\ content[k].name = grown[k].name
      <4>1. grown = [content EXCEPT ![j].args = MergedArgs(@, p.args)]
        BY <1>15, <2>6, <3>4
      <4>2. PICK n \in Nat : n = Len(content) /\ DOMAIN content = 1..n
        BY LenProperties
      <4>3. \A k \in 1..n : content[k] \in ContentItems
        BY <4>2
      <4>4. DOMAIN grown = 1..n
        BY <4>1, <4>2
      <4>5. ASSUME NEW k \in 1..n
            PROVE  /\ grown[k] \in ContentItems
                   /\ content[k].kind = grown[k].kind /\ content[k].name = grown[k].name
        <5>1. CASE k # j
          BY <4>1, <4>2, <4>3, <5>1
        <5>2. CASE k = j
          <6>1. content[k] \in ContentItems
            BY <4>3
          <6>2. grown[k] = [content[k] EXCEPT !.args = MergedArgs(@, p.args)]
            BY <4>1, <4>2, <5>2
          <6>3. MergedArgs(content[k].args, p.args) \in Seq(Texts)
            BY <6>1 DEF MergedArgs, ContentItems, AnswerParts
          <6> QED
            BY <6>1, <6>2, <6>3 DEF ContentItems
        <5> QED
          BY <5>1, <5>2
      <4>6. grown \in [1..n -> ContentItems]
        BY <4>1, <4>4, <4>5
      <4>7. grown \in Seq(ContentItems) /\ Len(grown) = n
        BY <4>6, LenProperties
      <4> QED
        BY <4>2, <4>5, <4>7
    <3>6. /\ Len(CallsIn(grown)) = Len(calls)
          /\ \A k \in 1..Len(calls) : CallsIn(grown)[k].name = calls[k].name
      BY <1>4, <3>5, CallsInAlike
    <3> QED
      BY <1>5, <1>6, <3>3, <3>5, <3>6 DEF SameCalls
  <2> QED
    BY <2>4, <2>5, <2>6
<1> QED
  BY <1>1, <1>2, <1>17, <1>18 DEF StreamedAnswers, StreamSound

-----------------------------------------------------------------------------
(* The client's history                                                    *)

CallParts(calls) == [c \in DOMAIN calls |-> CallPart(calls[c])]

(* Calls that will be sent as some answer made them. *)
KnownCalls(calls) == \E m \in made : AsMade(CallParts(calls), m)

HistoryInv ==
  /\ history \in Seq(Messages)
  /\ Orderly(history)
  /\ \A i \in DOMAIN history : history[i].calls # <<>> => KnownCalls(history[i].calls)

(* Calls as the adapter hands them to the client: the id says it all. *)
Encoded(calls) ==
  /\ calls \in Seq(ToolCalls)
  /\ \A c \in DOMAIN calls :
       calls[c].name # Empty /\ calls[c].id.name = calls[c].name /\ calls[c].id.sig = calls[c].sig

(* The record m of an answer holds these calls. *)
Remembered(calls, m) ==
  /\ DOMAIN calls = DOMAIN m
  /\ \A c \in DOMAIN m : /\ calls[c].name = m[c].name
                         /\ calls[c].args = m[c].args
                         /\ calls[c].sig \in m[c].sigs

LEMMA MessageTyped ==
  ASSUME NEW role \in {"system", "user", "assistant", "tool"}
  PROVE  /\ Message(role) \in Messages /\ Message(role).role = role
         /\ Message(role).calls = <<>> /\ Message(role).items = <<>>
<1>1. NoId \in CallIds
  BY TextFacts DEF NoId, CallIds
<1>2. <<>> \in Seq(ItemKinds) /\ <<>> \in Seq(ToolCalls)
  OBVIOUS
<1> QED
  BY <1>1, <1>2, TextFacts DEF Message, Messages

(* What the client keeps of the calls: the id still says it all. *)
KeptFrom(calls, kept) ==
  /\ kept \in Seq(ToolCalls) /\ DOMAIN kept = DOMAIN calls /\ Len(kept) = Len(calls)
  /\ \A c \in DOMAIN calls : kept[c].name = calls[c].name /\ kept[c].id = calls[c].id
  /\ \A m : Remembered(calls, m) => AsMade(CallParts(kept), m)

(* Dropping the field of the signature drops nothing. *)
LEMMA KeptAsMade ==
  ASSUME NEW calls, Encoded(calls), NEW keeps \in BOOLEAN, NEW kept,
         kept = [c \in DOMAIN calls |-> IF keeps THEN calls[c] ELSE [calls[c] EXCEPT !.sig = Empty]]
  PROVE  KeptFrom(calls, kept)
<1>1. PICK n \in Nat : n = Len(calls) /\ DOMAIN calls = 1..n
  BY LenProperties DEF Encoded
<1>2. ASSUME NEW c \in 1..n
      PROVE  /\ kept[c] \in ToolCalls
             /\ kept[c].name = calls[c].name /\ kept[c].id = calls[c].id
             /\ kept[c].args = calls[c].args
             /\ OrElse(kept[c].sig, kept[c].id.sig) = calls[c].sig
  <2>1. calls[c] \in ToolCalls /\ calls[c].id.sig = calls[c].sig
    BY <1>1 DEF Encoded
  <2>2. CASE keeps
    BY <1>1, <2>1, <2>2 DEF OrElse
  <2>3. CASE ~keeps
    <3>1. kept[c] = [calls[c] EXCEPT !.sig = Empty]
      BY <1>1, <2>3
    <3>2. [calls[c] EXCEPT !.sig = Empty] \in ToolCalls
      BY <2>1, TextFacts DEF ToolCalls
    <3> QED
      BY <2>1, <3>1, <3>2 DEF OrElse, ToolCalls
  <2> QED
    BY <2>2, <2>3
<1>3. DOMAIN kept = 1..n
  BY <1>1
<1>4. kept \in Seq(ToolCalls) /\ Len(kept) = n
  <2>1. kept = [c \in 1..n |-> kept[c]]
    BY <1>1, <1>3
  <2>2. kept \in [1..n -> ToolCalls]
    BY <1>2, <1>3, <2>1
  <2>3. kept \in Seq(ToolCalls)
    BY <2>2, SeqDef
  <2> QED
    BY <1>3, <2>3, LenProperties
<1>5. ASSUME NEW m, Remembered(calls, m)
      PROVE  AsMade(CallParts(kept), m)
  <2>1. DOMAIN CallParts(kept) = DOMAIN m
    BY <1>1, <1>3, <1>5 DEF CallParts, Remembered
  <2>2. ASSUME NEW c \in DOMAIN m
        PROVE  /\ CallParts(kept)[c].name = m[c].name
               /\ CallParts(kept)[c].args = m[c].args
               /\ CallParts(kept)[c].sig \in m[c].sigs
    <3>1. c \in 1..n
      BY <1>1, <1>5 DEF Remembered
    <3>2. CallParts(kept)[c] = CallPart(kept[c])
      BY <1>3, <3>1 DEF CallParts
    <3>3. /\ CallPart(kept[c]).name = calls[c].name /\ CallPart(kept[c]).args = calls[c].args
          /\ CallPart(kept[c]).sig = calls[c].sig
      BY <1>2, <3>1 DEF CallPart, DecodedSig
    <3> QED
      BY <1>5, <3>1, <3>2, <3>3 DEF Remembered
  <2> QED
    BY <2>1, <2>2 DEF AsMade
<1>6. \A m : Remembered(calls, m) => AsMade(CallParts(kept), m)
  BY <1>5
<1>7. /\ kept \in Seq(ToolCalls) /\ DOMAIN kept = DOMAIN calls /\ Len(kept) = Len(calls)
      /\ \A c \in DOMAIN calls : kept[c].name = calls[c].name /\ kept[c].id = calls[c].id
  BY <1>1, <1>2, <1>3, <1>4
<1> QED
  BY <1>6, <1>7, Zenon DEF KeptFrom

(* The results of call i of a history follow it. *)
CallBlock(msgs, i) ==
  /\ msgs[i].role = "assistant"
  /\ i + Len(msgs[i].calls) <= Len(msgs)
  /\ \A c \in DOMAIN msgs[i].calls :
       /\ msgs[i].calls[c].name # Empty
       /\ msgs[i + c].role = "tool" /\ msgs[i + c].id = msgs[i].calls[c].id
       /\ OrElse(msgs[i + c].name, msgs[i + c].id.name) = msgs[i].calls[c].name

Owned(msgs, i) == \E j \in 1..(i - 1) : i <= j + Len(msgs[j].calls)

LEMMA OrderlyParts ==
  ASSUME NEW msgs
  PROVE  Orderly(msgs) <=>
           /\ \A i \in DOMAIN msgs : msgs[i].calls # <<>> => CallBlock(msgs, i)
           /\ \A i \in DOMAIN msgs : msgs[i].role = "tool" => Owned(msgs, i)
  BY Zenon DEF Orderly, CallBlock, Owned

(* What is orderly stays so when messages are added behind it. *)
LEMMA OrderlyStays ==
  ASSUME NEW h \in Seq(Messages), NEW h2 \in Seq(Messages), Orderly(h),
         Len(h) <= Len(h2), \A i \in 1..Len(h) : h2[i] = h[i]
  PROVE  \A i \in 1..Len(h) : /\ h2[i].calls # <<>> => CallBlock(h2, i)
                              /\ h2[i].role = "tool" => Owned(h2, i)
<1>1. PICK n \in Nat, m \in Nat : n = Len(h) /\ m = Len(h2) /\ n <= m
  BY LenProperties
<1>2. DOMAIN h = 1..n /\ DOMAIN h2 = 1..m
  BY <1>1, LenProperties
<1>3. \A i \in 1..n : h[i].calls # <<>> => CallBlock(h, i)
  BY <1>2, OrderlyParts
<1>4. \A i \in 1..n : h[i].role = "tool" => Owned(h, i)
  BY <1>2, OrderlyParts
<1>5. ASSUME NEW i \in 1..n, h2[i].calls # <<>>
      PROVE  CallBlock(h2, i)
  <2>1. PICK calls \in Seq(ToolCalls) : calls = h[i].calls
    <3>1. h[i] \in Messages
      BY <1>2, ElementOfSeq
    <3> QED
      BY <3>1 DEF Messages
  <2>2. PICK l \in Nat : l = Len(calls) /\ DOMAIN calls = 1..l
    BY LenProperties
  <2>3. h2[i] = h[i] /\ CallBlock(h, i)
    BY <1>1, <1>3, <1>5
  <2>4. i + l <= n /\ i + l <= m
    BY <1>1, <2>1, <2>2, <2>3 DEF CallBlock
  <2>5. ASSUME NEW c \in 1..l
        PROVE  h2[i + c] = h[i + c]
    <3>1. i + c \in 1..n
      BY <2>4
    <3> QED
      BY <1>1, <3>1
  <2>6. \A c \in 1..l :
          /\ calls[c].name # Empty
          /\ h[i + c].role = "tool" /\ h[i + c].id = calls[c].id
          /\ OrElse(h[i + c].name, h[i + c].id.name) = calls[c].name
    BY <2>1, <2>2, <2>3 DEF CallBlock
  <2>7. h2[i].role = "assistant"
    BY <2>3 DEF CallBlock
  <2> QED
    BY <1>1, <2>1, <2>2, <2>3, <2>4, <2>5, <2>6, <2>7 DEF CallBlock
<1>6. ASSUME NEW i \in 1..n, h2[i].role = "tool"
      PROVE  Owned(h2, i)
  <2>1. PICK j \in 1..(i - 1) : i <= j + Len(h[j].calls)
    BY <1>1, <1>4, <1>6 DEF Owned
  <2>2. j \in 1..n
    OBVIOUS
  <2>3. h2[j] = h[j]
    BY <1>1, <2>2
  <2> QED
    BY <2>1, <2>3 DEF Owned
<1> QED
  BY <1>1, <1>5, <1>6

LEMMA JoinedMessages ==
  ASSUME NEW s \in Seq(Messages), NEW u \in Seq(Messages)
  PROVE  /\ Len(s \o u) = Len(s) + Len(u)
         /\ \A i \in 1..Len(s) : (s \o u)[i] = s[i]
         /\ \A c \in 1..Len(u) : (s \o u)[Len(s) + c] = u[c]
<1>1. PICK n \in Nat, m \in Nat : n = Len(s) /\ m = Len(u)
  BY LenProperties
<1>2. /\ Len(s \o u) = n + m
      /\ \A i \in 1..(n + m) : (s \o u)[i] = IF i <= n THEN s[i] ELSE u[i - n]
  BY <1>1, ConcatProperties
<1>3. \A i \in 1..n : i \in 1..(n + m) /\ i <= n
  OBVIOUS
<1>4. ASSUME NEW c \in 1..m
      PROVE  (s \o u)[n + c] = u[c]
  <2>1. n + c \in 1..(n + m) /\ ~(n + c <= n) /\ (n + c) - n = c
    OBVIOUS
  <2> QED
    BY <1>2, <2>1
<1> QED
  BY <1>1, <1>2, <1>3, <1>4

LEMMA HistoryGrows ==
  ASSUME HistoryInv, NEW msg \in Messages, NEW results \in Seq(Messages),
         history' = Append(history, msg) \o results, made \subseteq made',
         NEW calls \in Seq(ToolCalls), calls = msg.calls, Len(results) = Len(calls),
         msg.role \in {"assistant", "user"}, msg.role = "user" => calls = <<>>,
         calls # <<>> => \E m \in made' : AsMade(CallParts(calls), m),
         \A c \in DOMAIN calls :
           /\ calls[c].name # Empty
           /\ results[c].role = "tool" /\ results[c].calls = <<>> /\ results[c].id = calls[c].id
           /\ OrElse(results[c].name, results[c].id.name) = calls[c].name
  PROVE  HistoryInv'
<1>1. PICK h \in Seq(Messages) : h = history /\ Orderly(h)
  BY DEF HistoryInv
<1>2. PICK n \in Nat, l \in Nat : n = Len(h) /\ l = Len(calls)
  BY LenProperties
<1>k. PICK k \in Nat : k = n + 1
  OBVIOUS
<1>3. PICK h1 \in Seq(Messages) : h1 = Append(h, msg)
  BY AppendProperties
<1>4. Len(h1) = k /\ h1[k] = msg /\ \A i \in 1..n : h1[i] = h[i]
  BY <1>2, <1>k, <1>3, AppendProperties
<1>5. PICK h2 \in Seq(Messages) : h2 = h1 \o results /\ h2 = history'
  BY <1>1, <1>3, ConcatProperties
<1>6. /\ Len(h2) = k + l
      /\ \A i \in 1..k : h2[i] = h1[i]
      /\ \A c \in 1..l : h2[k + c] = results[c]
  <2>1. Len(results) = l /\ Len(h1) = k
    BY <1>2, <1>k, <1>4
  <2>2. /\ Len(h1 \o results) = Len(h1) + Len(results)
        /\ \A i \in 1..Len(h1) : (h1 \o results)[i] = h1[i]
        /\ \A c \in 1..Len(results) : (h1 \o results)[Len(h1) + c] = results[c]
    BY JoinedMessages, Zenon
  <2> QED
    BY <1>5, <2>1, <2>2
<1>7. /\ \A i \in 1..n : h2[i] = h[i]
      /\ h2[k] = msg
      /\ \A c \in 1..l : h2[k + c] = results[c]
  <2>1. ASSUME NEW i \in 1..n
        PROVE  h2[i] = h[i]
    <3>1. i \in 1..k
      BY <1>k
    <3>2. h2[i] = h1[i]
      BY <1>6, <3>1
    <3>3. h1[i] = h[i]
      BY <1>4
    <3> QED
      BY <3>2, <3>3
  <2>2. k \in 1..k
    BY <1>k
  <2> QED
    BY <1>4, <1>6, <2>1, <2>2
<1>8. DOMAIN calls = 1..l /\ DOMAIN h2 = 1..(k + l) /\ DOMAIN h = 1..n
  BY <1>2, <1>6, LenProperties
<1>9. ASSUME NEW i \in DOMAIN h2
      PROVE  i \in 1..n \/ i = k \/ \E c \in 1..l : i = k + c
  <2>1. i \in 1..(k + l)
    BY <1>8
  <2>2. CASE i <= k
    BY <1>k, <2>1, <2>2
  <2>3. CASE ~(i <= k)
    <3>1. i - k \in 1..l /\ i = k + (i - k)
      BY <2>1, <2>3
    <3> QED
      BY <3>1
  <2> QED
    BY <2>2, <2>3
<1>10. \A i \in 1..n : /\ h2[i].calls # <<>> => CallBlock(h2, i)
                       /\ h2[i].role = "tool" => Owned(h2, i)
  <2>1. Len(h) <= Len(h2) /\ \A i \in 1..Len(h) : h2[i] = h[i]
    <3>1. n <= k + l
      BY <1>k
    <3> QED
      BY <1>2, <1>6, <1>7, <3>1
  <2> QED
    BY <1>1, <1>2, <2>1, OrderlyStays
<1>11. ASSUME calls # <<>>
       PROVE  CallBlock(h2, k)
  <2>1. h2[k].role = "assistant" /\ h2[k].calls = calls
    BY <1>7, <1>11
  <2>2. k + Len(calls) <= Len(h2)
    BY <1>2, <1>6
  <2>3. \A c \in 1..l :
          /\ calls[c].name # Empty
          /\ h2[k + c].role = "tool" /\ h2[k + c].id = calls[c].id
          /\ OrElse(h2[k + c].name, h2[k + c].id.name) = calls[c].name
    <3>1. SUFFICES ASSUME NEW c \in 1..l
                   PROVE  /\ calls[c].name # Empty
                          /\ h2[k + c].role = "tool" /\ h2[k + c].id = calls[c].id
                          /\ OrElse(h2[k + c].name, h2[k + c].id.name) = calls[c].name
      OBVIOUS
    <3>2. h2[k + c] = results[c] /\ c \in DOMAIN calls
      BY <1>7, <1>8
    <3> QED
      BY <3>2
  <2> QED
    BY <1>8, <2>1, <2>2, <2>3 DEF CallBlock
<1>12. ASSUME NEW c \in 1..l
       PROVE  h2[k + c].calls = <<>> /\ Owned(h2, k + c)
  <2>1. h2[k + c].calls = <<>>
    <3>1. h2[k + c] = results[c] /\ c \in DOMAIN calls
      BY <1>7, <1>8
    <3> QED
      BY <3>1
  <2>2. k \in 1..((k + c) - 1) /\ k + c <= k + l
    BY <1>k
  <2>3. Len(h2[k].calls) = l
    BY <1>2, <1>7
  <2> QED
    BY <2>1, <2>2, <2>3 DEF Owned
<1>13. Orderly(h2)
  <2>1. ASSUME NEW i \in DOMAIN h2, h2[i].calls # <<>>
        PROVE  CallBlock(h2, i)
    <3>1. CASE i = k
      <4>1. calls # <<>>
        BY <1>7, <2>1, <3>1
      <4> QED
        BY <1>11, <3>1, <4>1
    <3>2. CASE i \in 1..n
      BY <1>10, <2>1, <3>2
    <3> QED
      BY <1>9, <1>12, <2>1, <3>1, <3>2
  <2>2. ASSUME NEW i \in DOMAIN h2, h2[i].role = "tool"
        PROVE  Owned(h2, i)
    <3>1. i # k
      BY <1>7, <2>2
    <3> QED
      BY <1>9, <1>10, <1>12, <2>2, <3>1
  <2> QED
    BY <2>1, <2>2, OrderlyParts
<1>14. ASSUME NEW i \in DOMAIN h2, h2[i].calls # <<>>
       PROVE  \E m \in made' : AsMade(CallParts(h2[i].calls), m)
  <2>1. CASE i \in 1..n
    <3>1. h[i].calls # <<>> /\ h2[i].calls = h[i].calls
      BY <1>7, <1>14, <2>1
    <3>2. PICK m \in made : AsMade(CallParts(h[i].calls), m)
      BY <1>1, <1>8, <2>1, <3>1 DEF HistoryInv, KnownCalls
    <3> QED
      BY <3>1, <3>2
  <2>2. CASE i = k
    BY <1>7, <1>14, <2>2
  <2>3. ~\E c \in 1..l : i = k + c
    BY <1>12, <1>14
  <2> QED
    BY <1>9, <2>1, <2>2, <2>3
<1> QED
  BY <1>5, <1>13, <1>14 DEF HistoryInv, KnownCalls

LEMMA KeepsHistory ==
  ASSUME HistoryInv, NEW calls, Encoded(calls), NEW text \in Texts, NEW finish,
         ClientKeeps(calls, text, finish), finish = "tool_calls" <=> calls # <<>>,
         made \subseteq made', calls # <<>> => \E m \in made' : Remembered(calls, m)
  PROVE  HistoryInv'
<1> DEFINE Keeping(keeps) ==
             [c \in DOMAIN calls |-> IF keeps THEN calls[c] ELSE [calls[c] EXCEPT !.sig = Empty]]
           Said(keeps) == [Message("assistant") EXCEPT !.text = text, !.calls = Keeping(keeps)]
           Ran(named, result) ==
             IF finish = "tool_calls"
               THEN [c \in DOMAIN calls |-> Result(calls[c], named, result)] ELSE <<>>
<1>0. PICK keeps \in BOOLEAN, named \in BOOLEAN, result \in {Empty, "result"} :
        history' = Append(history, Said(keeps)) \o Ran(named, result)
  BY DEF ClientKeeps
<1>1. PICK kept, msg, results :
        /\ kept = [c \in DOMAIN calls |-> IF keeps THEN calls[c] ELSE [calls[c] EXCEPT !.sig = Empty]]
        /\ msg = [Message("assistant") EXCEPT !.text = text, !.calls = kept]
        /\ results = IF finish = "tool_calls"
                       THEN [c \in DOMAIN calls |-> Result(calls[c], named, result)] ELSE <<>>
        /\ history' = Append(history, msg) \o results
  BY <1>0
<1> HIDE <1>0 DEF Keeping, Said, Ran
<1>2. /\ kept \in Seq(ToolCalls) /\ DOMAIN kept = DOMAIN calls /\ Len(kept) = Len(calls)
      /\ \A c \in DOMAIN calls : kept[c].name = calls[c].name /\ kept[c].id = calls[c].id
      /\ \A m : Remembered(calls, m) => AsMade(CallParts(kept), m)
  <2>1. kept = [c \in DOMAIN calls |-> IF keeps THEN calls[c] ELSE [calls[c] EXCEPT !.sig = Empty]]
    BY <1>1
  <2>2. KeptFrom(calls, kept)
    BY <2>1, KeptAsMade, Zenon
  <2> QED
    BY <2>2, Zenon DEF KeptFrom
<1>3. PICK n \in Nat : n = Len(calls) /\ DOMAIN calls = 1..n
  BY LenProperties DEF Encoded
<1>4. msg \in Messages /\ msg.role = "assistant" /\ msg.calls = kept
  <2>1. Message("assistant") \in Messages /\ Message("assistant").role = "assistant"
    BY MessageTyped
  <2> QED
    BY <1>1, <1>2, <2>1 DEF Messages
<1>5. ASSUME NEW c \in 1..n
      PROVE  /\ Result(calls[c], named, result) \in Messages
             /\ Result(calls[c], named, result).role = "tool"
             /\ Result(calls[c], named, result).calls = <<>>
             /\ Result(calls[c], named, result).id = calls[c].id
             /\ OrElse(Result(calls[c], named, result).name, Result(calls[c], named, result).id.name)
                  = calls[c].name
  <2>1. Message("tool") \in Messages /\ Message("tool").role = "tool" /\ Message("tool").calls = <<>>
    BY MessageTyped
  <2>2. /\ calls[c] \in ToolCalls /\ calls[c].id.name = calls[c].name
    BY <1>3 DEF Encoded
  <2>3. PICK name \in Texts : name = IF named THEN calls[c].name ELSE Empty
    BY <2>2, TextFacts DEF ToolCalls
  <2>4. Result(calls[c], named, result) =
          [Message("tool") EXCEPT !.id = calls[c].id, !.name = name, !.text = result]
    BY <2>3 DEF Result
  <2>5. calls[c].id \in CallIds /\ result \in Texts
    BY <2>2, TextFacts DEF ToolCalls
  <2>6. Result(calls[c], named, result).name = name
    BY <2>1, <2>4 DEF Messages
  <2>7. Result(calls[c], named, result).id = calls[c].id
    BY <2>1, <2>4 DEF Messages
  <2>8. OrElse(name, calls[c].id.name) = calls[c].name
    BY <2>2, <2>3 DEF OrElse
  <2>9. Result(calls[c], named, result) \in Messages
    BY <2>1, <2>4, <2>5 DEF Messages
  <2>10. /\ Result(calls[c], named, result).role = "tool"
         /\ Result(calls[c], named, result).calls = <<>>
    BY <2>1, <2>4 DEF Messages
  <2> QED
    BY <2>6, <2>7, <2>8, <2>9, <2>10
<1>6. /\ results \in Seq(Messages) /\ Len(results) = n
      /\ \A c \in 1..n : results[c] = Result(calls[c], named, result)
  <2>1. CASE calls # <<>>
    <3>1. results = [c \in 1..n |-> Result(calls[c], named, result)]
      BY <1>1, <1>3, <2>1
    <3>2. results \in [1..n -> Messages]
      BY <1>5, <3>1
    <3>3. results \in Seq(Messages)
      BY <3>2, SeqDef
    <3> QED
      BY <3>1, <3>3, LenProperties
  <2>2. CASE calls = <<>>
    BY <1>1, <1>3, <2>2
  <2> QED
    BY <2>1, <2>2
<1>7. kept # <<>> => \E m \in made' : AsMade(CallParts(kept), m)
  <2>1. kept # <<>> => calls # <<>>
    BY <1>2, <1>3, EmptySeq, LenProperties
  <2> QED
    BY <1>2, <2>1
<1>8. ASSUME NEW c \in DOMAIN kept
      PROVE  /\ kept[c].name # Empty
             /\ results[c].role = "tool" /\ results[c].calls = <<>> /\ results[c].id = kept[c].id
             /\ OrElse(results[c].name, results[c].id.name) = kept[c].name
  <2>1. c \in 1..n /\ kept[c].name = calls[c].name /\ kept[c].id = calls[c].id
    BY <1>2, <1>3
  <2>2. calls[c].name # Empty
    BY <1>3, <2>1 DEF Encoded
  <2> QED
    BY <1>5, <1>6, <2>1, <2>2
<1>9. Len(results) = Len(kept)
  BY <1>2, <1>3, <1>6
<1>10. /\ kept \in Seq(ToolCalls) /\ results \in Seq(Messages)
       /\ msg \in Messages /\ kept = msg.calls
       /\ history' = Append(history, msg) \o results
       /\ msg.role \in {"assistant", "user"} /\ (msg.role = "user" => kept = <<>>)
  BY <1>1, <1>2, <1>4, <1>6
<1> HIDE <1>1, <1>2
<1> QED
  BY <1>7, <1>8, <1>9, <1>10, HistoryGrows, Zenon

LEMMA AsksHistory ==
  ASSUME HistoryInv, NEW items \in UserItems, AskAgain(items)
  PROVE  HistoryInv'
<1>1. PICK msg : msg = [Message("user") EXCEPT !.items = items]
  OBVIOUS
<1>2. msg \in Messages /\ msg.role = "user" /\ msg.calls = <<>>
  <2>1. items \in Seq(ItemKinds)
    BY DialogAssumption
  <2>2. /\ Message("user") \in Messages /\ Message("user").role = "user"
        /\ Message("user").calls = <<>>
    BY MessageTyped
  <2> QED
    BY <1>1, <2>1, <2>2 DEF Messages
<1>3. PICK calls \in Seq(ToolCalls) : calls = <<>> /\ calls = msg.calls /\ DOMAIN calls = {} /\ Len(calls) = 0
  <2>1. <<>> \in Seq(ToolCalls) /\ DOMAIN <<>> = {} /\ Len(<<>>) = 0
    OBVIOUS
  <2> QED
    BY <1>2, <2>1
<1>4. PICK results \in Seq(Messages) : results = <<>> /\ Len(results) = 0
  <2>1. <<>> \in Seq(Messages) /\ Len(<<>>) = 0
    OBVIOUS
  <2> QED
    BY <2>1
<1>5. history' = Append(history, msg) \o results /\ made' = made
  <2>1. history' = Append(history, msg) /\ made' = made
    BY <1>1 DEF AskAgain
  <2>2. Append(history, msg) \in Seq(Messages)
    BY <1>2, AppendProperties DEF HistoryInv
  <2> QED
    BY <1>4, <2>1, <2>2, ConcatEmptySeq
<1> QED
  BY <1>2, <1>3, <1>4, <1>5, HistoryGrows

-----------------------------------------------------------------------------
(* The answers the client keeps                                            *)

LEMMA NewCallTyped ==
  ASSUME history \in Seq(Messages), NEW i \in Nat, NEW p \in AnswerParts, NEW sig \in Texts
  PROVE  /\ NewCall(i, p, sig) \in ToolCalls
         /\ NewCall(i, p, sig).name = p.name /\ NewCall(i, p, sig).id.name = p.name
         /\ NewCall(i, p, sig).args = p.args
         /\ NewCall(i, p, sig).sig = sig /\ NewCall(i, p, sig).id.sig = sig
<1>1. PICK n \in Nat : n = Len(history)
  BY LenProperties
<1>2. PICK nr \in Nat : nr = IF sig = Empty THEN i + 10 * n ELSE i
  <2>1. i + 10 * n \in Nat
    OBVIOUS
  <2> QED
    BY <2>1
<1>3. NewCall(i, p, sig) =
        [id |-> [name |-> p.name, sig |-> sig, nr |-> nr], name |-> p.name, args |-> p.args, sig |-> sig]
  BY <1>1, <1>2, Zenon DEF NewCall, EncodeId
<1>4. p.name \in Texts /\ p.args \in Texts
  BY DEF AnswerParts
<1> QED
  BY <1>3, <1>4 DEF ToolCalls, CallIds

(* The calls in the parts of an answer have names. *)
LEMMA CallsNamed ==
  ASSUME NEW s \in Seq(AnswerParts)
  PROVE  /\ CallsIn(s) \in Seq(AnswerParts)
         /\ \A c \in DOMAIN CallsIn(s) : CallsIn(s)[c] \in AnswerParts /\ CallsIn(s)[c].name # Empty
<1>1. CallsIn(s) \in Seq(AnswerParts)
  <2>1. CASE s = <<>>
    BY <2>1, CallsInEmpty
  <2>2. CASE s # <<>>
    <3>1. PICK p \in AnswerParts : TRUE
      BY <2>2, EmptySeq, LenProperties
    <3> QED
      BY CallsInAppend
  <2> QED
    BY <2>1, <2>2
<1>2. ASSUME NEW c \in DOMAIN CallsIn(s)
      PROVE  CallsIn(s)[c] \in AnswerParts /\ CallsIn(s)[c].name # Empty
  <2>1. PICK i \in DOMAIN s : s[i].kind = "call" /\ CallsIn(s)[c] = s[i]
    BY CallsInElements
  <2>2. s[i] \in AnswerParts
    BY LenProperties, ElementOfSeq
  <2> QED
    BY <2>1, <2>2 DEF AnswerParts
<1> QED
  BY <1>1, <1>2

LEMMA WholeAnswerFaithful ==
  ASSUME history \in Seq(Messages), NEW parts \in Seq(AnswerParts), NEW m,
         m = [c \in DOMAIN CallsIn(parts) |->
                [name |-> CallsIn(parts)[c].name, args |-> CallsIn(parts)[c].args,
                 sigs |-> IF CallsIn(parts)[c].sig # Empty THEN {CallsIn(parts)[c].sig}
                          ELSE {parts[i].sig : i \in DOMAIN parts}]]
  PROVE  /\ Encoded(WholeAnswer(parts)) /\ Remembered(WholeAnswer(parts), m)
         /\ WholeAnswer(parts) # <<>> <=> CallsIn(parts) # <<>>
<1>1. PICK calls \in Seq(AnswerParts) :
        /\ calls = CallsIn(parts)
        /\ \A c \in DOMAIN calls : calls[c] \in AnswerParts /\ calls[c].name # Empty
  BY CallsNamed
<1>2. PICK n \in Nat : n = Len(calls) /\ DOMAIN calls = 1..n
  BY LenProperties
<1>3. PICK answered : answered = WholeAnswer(parts)
  OBVIOUS
<1>4. answered = [c \in 1..n |-> NewCall(c - 1, calls[c], OrElse(calls[c].sig, TurnSig(parts)))]
  BY <1>1, <1>2, <1>3 DEF WholeAnswer
<1>5. ASSUME NEW c \in 1..n
      PROVE  /\ answered[c] \in ToolCalls
             /\ answered[c].name = calls[c].name /\ answered[c].id.name = calls[c].name
             /\ answered[c].args = calls[c].args /\ answered[c].id.sig = answered[c].sig
             /\ IF calls[c].sig # Empty THEN answered[c].sig = calls[c].sig
                ELSE \E i \in DOMAIN parts : answered[c].sig = parts[i].sig
  <2>1. PICK sig : sig = OrElse(calls[c].sig, TurnSig(parts))
    OBVIOUS
  <2>2. calls[c] \in AnswerParts /\ calls[c].sig \in Texts
    BY <1>1, <1>2 DEF AnswerParts
  <2>3. PICK i \in DOMAIN parts : TurnSig(parts) = parts[i].sig
    <3>1. parts # <<>>
      <4>1. calls # <<>>
        BY <1>2, EmptySeq
      <4> QED
        BY <1>1, <4>1, CallsInEmpty
    <3> QED
      BY <3>1, TurnSigOfPart
  <2>4. parts[i].sig \in Texts
    <3>1. parts[i] \in AnswerParts
      BY LenProperties, ElementOfSeq
    <3> QED
      BY <3>1 DEF AnswerParts
  <2>5. /\ sig \in Texts
        /\ IF calls[c].sig # Empty THEN sig = calls[c].sig ELSE sig = parts[i].sig
    BY <2>1, <2>2, <2>3, <2>4 DEF OrElse
  <2>6. PICK j \in Nat : j = c - 1
    OBVIOUS
  <2>7. answered[c] = NewCall(j, calls[c], sig)
    BY <1>4, <2>1, <2>6
  <2>8. /\ NewCall(j, calls[c], sig) \in ToolCalls
        /\ NewCall(j, calls[c], sig).name = calls[c].name /\ NewCall(j, calls[c], sig).id.name = calls[c].name
        /\ NewCall(j, calls[c], sig).args = calls[c].args
        /\ NewCall(j, calls[c], sig).sig = sig /\ NewCall(j, calls[c], sig).id.sig = sig
    BY <2>2, <2>5, NewCallTyped
  <2> QED
    BY <2>5, <2>7, <2>8
<1>6. DOMAIN answered = 1..n
  BY <1>4
<1>7. answered \in Seq(ToolCalls)
  <2>1. answered \in [1..n -> ToolCalls]
    BY <1>4, <1>5
  <2> QED
    BY <2>1, SeqDef
<1>8. Encoded(answered)
  BY <1>1, <1>2, <1>5, <1>6, <1>7 DEF Encoded
<1>9. Remembered(answered, m)
  <2>1. DOMAIN m = 1..n
    BY <1>1, <1>2
  <2>2. ASSUME NEW c \in 1..n
        PROVE  /\ answered[c].name = m[c].name
               /\ answered[c].args = m[c].args
               /\ answered[c].sig \in m[c].sigs
    <3>1. /\ m[c].name = calls[c].name /\ m[c].args = calls[c].args
          /\ m[c].sigs = IF calls[c].sig # Empty THEN {calls[c].sig}
                         ELSE {parts[i].sig : i \in DOMAIN parts}
      BY <1>1, <1>2
    <3>2. calls[c].name = m[c].name /\ calls[c].args = m[c].args
      BY <3>1
    <3>3. answered[c].sig \in m[c].sigs
      BY <1>5, <3>1
    <3> QED
      BY <1>5, <3>2, <3>3
  <2> QED
    BY <1>6, <2>1, <2>2 DEF Remembered
<1>10. answered # <<>> <=> calls # <<>>
  <2>1. Len(answered) = n
    BY <1>6, <1>7, LenProperties
  <2> QED
    BY <1>2, <1>7, <2>1, EmptySeq
<1> QED
  BY <1>1, <1>3, <1>8, <1>9, <1>10

LEMMA StreamedFaithful ==
  ASSUME NEW a \in StreamedAnswers, StreamSound(a), NEW m,
         m = [c \in DOMAIN FirstCalls(a.parts) |->
                [name |-> FirstCalls(a.parts)[c].name,
                 args |-> NoArgs,
                 sigs |-> IF FirstCalls(a.parts)[c].sig # Empty THEN {FirstCalls(a.parts)[c].sig}
                          ELSE {a.parts[i].sig : i \in DOMAIN a.parts}]]
  PROVE  /\ Encoded(StreamedCalls(a)) /\ Remembered(StreamedCalls(a), m)
         /\ StreamedCalls(a) # <<>> <=> CallsIn(a.content) # <<>>
<1>1. PICK parts \in Seq(AnswerParts), content \in Seq(ContentItems), seen \in Seq(SeenCalls) :
        parts = a.parts /\ content = a.content /\ seen = a.seen
  BY DEF StreamedAnswers
<1>2. PICK firsts \in Seq(AnswerParts) : firsts = FirstCalls(parts)
  <2>1. CASE parts = <<>>
    <3>1. <<>> \in Seq(AnswerParts)
      OBVIOUS
    <3> QED
      BY <2>1, <3>1, FirstCallsEmpty
  <2>2. CASE parts # <<>>
    <3>1. PICK p \in AnswerParts : TRUE
      BY <2>2, EmptySeq, LenProperties
    <3> QED
      BY FirstCallsAppend
  <2> QED
    BY <2>1, <2>2
<1>3. PICK n \in Nat : n = Len(firsts) /\ DOMAIN firsts = 1..n
  BY LenProperties
<1>4. /\ Len(CallsIn(content)) = n /\ Len(seen) = n
      /\ \A c \in 1..n : firsts[c].kind = "call" /\ Told(seen[c], firsts[c], parts)
  BY <1>1, <1>2, <1>3 DEF StreamSound, SameCalls
<1>5. DOMAIN seen = 1..n
  BY <1>4, LenProperties
<1>6. PICK answered : answered = StreamedCalls(a)
  OBVIOUS
<1>7. answered = [c \in 1..n |-> [seen[c].call EXCEPT !.args = Parsed(seen[c].pieces)]]
  BY <1>1, <1>5, <1>6 DEF StreamedCalls
<1>8. ASSUME NEW c \in 1..n
      PROVE  /\ answered[c] \in ToolCalls
             /\ answered[c].name = firsts[c].name /\ answered[c].name # Empty
             /\ answered[c].id.name = answered[c].name
             /\ answered[c].args = NoArgs /\ answered[c].id.sig = answered[c].sig
             /\ IF firsts[c].sig # Empty THEN answered[c].sig = firsts[c].sig
                ELSE \E i \in DOMAIN parts : answered[c].sig = parts[i].sig
  <2>1. PICK call \in ToolCalls : call = seen[c].call
    <3>1. seen[c] \in SeenCalls
      BY <1>5, ElementOfSeq, LenProperties
    <3> QED
      BY <3>1 DEF SeenCalls
  <2>2. /\ call.name = firsts[c].name /\ call.id.name = firsts[c].name
        /\ call.id.sig = call.sig
        /\ IF firsts[c].sig # Empty THEN call.sig = firsts[c].sig
           ELSE \E i \in DOMAIN parts : call.sig = parts[i].sig
        /\ Parsed(seen[c].pieces) = NoArgs
    BY <1>4, <2>1 DEF Told
  <2>3. answered[c] = [call EXCEPT !.args = NoArgs]
    BY <1>7, <2>1, <2>2
  <2>4. /\ answered[c] \in ToolCalls /\ answered[c].name = call.name /\ answered[c].id = call.id
        /\ answered[c].sig = call.sig /\ answered[c].args = NoArgs
    BY <2>3, TextFacts DEF ToolCalls
  <2>5. firsts[c].name # Empty
    <3>1. firsts[c] \in AnswerParts /\ firsts[c].kind = "call"
      BY <1>3, <1>4, ElementOfSeq, LenProperties
    <3> QED
      BY <3>1 DEF AnswerParts
  <2> QED
    BY <2>2, <2>4, <2>5
<1>9. DOMAIN answered = 1..n
  BY <1>7
<1>10. answered \in Seq(ToolCalls)
  <2>1. answered \in [1..n -> ToolCalls]
    BY <1>7, <1>8
  <2> QED
    BY <2>1, SeqDef
<1>11. Encoded(answered)
  BY <1>8, <1>9, <1>10 DEF Encoded
<1>12. Remembered(answered, m)
  <2>1. m = [c \in 1..n |->
               [name |-> firsts[c].name, args |-> NoArgs,
                sigs |-> IF firsts[c].sig # Empty THEN {firsts[c].sig}
                         ELSE {parts[i].sig : i \in DOMAIN parts}]]
    BY <1>1, <1>2, <1>3
  <2>2. ASSUME NEW c \in 1..n
        PROVE  /\ answered[c].name = m[c].name
               /\ answered[c].args = m[c].args
               /\ answered[c].sig \in m[c].sigs
    <3>0. PICK sigs : sigs = IF firsts[c].sig # Empty THEN {firsts[c].sig}
                             ELSE {parts[i].sig : i \in DOMAIN parts}
      OBVIOUS
    <3>1. m[c] = [name |-> firsts[c].name, args |-> NoArgs, sigs |-> sigs]
      BY <2>1, <3>0, Zenon
    <3>2. m[c].name = firsts[c].name /\ m[c].args = NoArgs /\ m[c].sigs = sigs
      BY <3>1
    <3>3. answered[c].sig \in sigs
      <4>1. CASE firsts[c].sig # Empty
        BY <1>8, <3>0, <4>1
      <4>2. CASE firsts[c].sig = Empty
        <5>1. sigs = {parts[i].sig : i \in DOMAIN parts}
          BY <3>0, <4>2
        <5>2. \E i \in DOMAIN parts : answered[c].sig = parts[i].sig
          BY <1>8, <4>2
        <5> QED
          BY <5>1, <5>2
      <4> QED
        BY <4>1, <4>2
    <3> QED
      BY <1>8, <3>2, <3>3
  <2>3. DOMAIN m = 1..n
    BY <2>1
  <2> QED
    BY <1>9, <2>2, <2>3 DEF Remembered
<1>13. answered # <<>> <=> CallsIn(content) # <<>>
  <2>1. Len(answered) = n
    BY <1>9, <1>10, LenProperties
  <2>2. CallsIn(content) \in Seq(ContentItems)
    <3>1. CASE content = <<>>
      <4>1. <<>> \in Seq(ContentItems)
        OBVIOUS
      <4> QED
        BY <3>1, <4>1, CallsInEmpty
    <3>2. CASE content # <<>>
      <4>1. PICK p \in ContentItems : TRUE
        BY <3>2, EmptySeq, LenProperties
      <4> QED
        BY CallsInAppend
    <3> QED
      BY <3>1, <3>2
  <2> QED
    BY <1>4, <1>10, <2>1, <2>2, EmptySeq
<1> QED
  BY <1>1, <1>6, <1>11, <1>12, <1>13

LEMMA TextOfParts == ASSUME NEW parts PROVE HasText(parts) \in Texts
  BY TextFacts DEF HasText

LEMMA AnswersHistory ==
  ASSUME HistoryInv, NEW parts \in TurnParts, NEW cut \in BOOLEAN, GoogleAnswers(parts, cut)
  PROVE  HistoryInv'
<1>1. parts \in Seq(AnswerParts) /\ history \in Seq(Messages)
  BY DialogAssumption DEF HistoryInv
<1>2. PICK m :
        m = [c \in DOMAIN CallsIn(parts) |->
               [name |-> CallsIn(parts)[c].name, args |-> CallsIn(parts)[c].args,
                sigs |-> IF CallsIn(parts)[c].sig # Empty THEN {CallsIn(parts)[c].sig}
                         ELSE {parts[i].sig : i \in DOMAIN parts}]]
  OBVIOUS
<1>3. made' = made \cup {m}
  BY <1>2, Zenon DEF GoogleAnswers, Remember
<1>4. PICK calls : calls = WholeAnswer(parts)
  OBVIOUS
<1>5. /\ Encoded(calls) /\ Remembered(calls, m)
      /\ calls # <<>> <=> CallsIn(parts) # <<>>
  BY <1>1, <1>2, <1>4, WholeAnswerFaithful
<1>6. PICK text \in Texts : text = HasText(parts)
  BY TextOfParts
<1>7. PICK finish : finish = FinishReason(CallsIn(parts), cut)
  OBVIOUS
<1>8. ClientKeeps(calls, text, finish)
  BY <1>4, <1>6, <1>7 DEF GoogleAnswers
<1>9. finish = "tool_calls" <=> calls # <<>>
  BY <1>5, <1>7 DEF FinishReason
<1>10. made \subseteq made' /\ (calls # <<>> => \E r \in made' : Remembered(calls, r))
  BY <1>3, <1>5
<1> HIDE <1>2, <1>4, <1>6, <1>7
<1> QED
  BY <1>5, <1>8, <1>9, <1>10, KeepsHistory, Zenon

LEMMA StreamedHistory ==
  ASSUME HistoryInv, answer \in StreamedAnswers, StreamSound(answer), StreamDone
  PROVE  HistoryInv'
<1>2. PICK m :
        m = [c \in DOMAIN FirstCalls(answer.parts) |->
               [name |-> FirstCalls(answer.parts)[c].name,
                args |-> NoArgs,
                sigs |-> IF FirstCalls(answer.parts)[c].sig # Empty
                           THEN {FirstCalls(answer.parts)[c].sig}
                         ELSE {answer.parts[i].sig : i \in DOMAIN answer.parts}]]
  OBVIOUS
<1>3. made' = made \cup {m}
  BY <1>2, Zenon DEF StreamDone, Remember
<1>4. PICK calls : calls = StreamedCalls(answer)
  OBVIOUS
<1>5. /\ Encoded(calls) /\ Remembered(calls, m)
      /\ calls # <<>> <=> CallsIn(answer.content) # <<>>
  BY <1>2, <1>4, StreamedFaithful
<1>6. PICK text \in Texts : text = HasText(answer.parts)
  BY TextOfParts
<1>7. PICK finish : finish = FinishReason(CallsIn(answer.content), FALSE)
  OBVIOUS
<1>8. ClientKeeps(calls, text, finish)
  BY <1>4, <1>6, <1>7 DEF StreamDone
<1>9. finish = "tool_calls" <=> calls # <<>>
  BY <1>5, <1>7 DEF FinishReason
<1>10. made \subseteq made' /\ (calls # <<>> => \E r \in made' : Remembered(calls, r))
  BY <1>3, <1>5
<1> HIDE <1>2, <1>4, <1>6, <1>7
<1> QED
  BY <1>5, <1>8, <1>9, <1>10, KeepsHistory, Zenon

LEMMA PiHistory ==
  ASSUME HistoryInv, PiAnswers
  PROVE  HistoryInv'
<1>1. PICK calls : calls = <<>>
  OBVIOUS
<1>2. Encoded(calls) /\ DOMAIN calls = {}
  <2>1. <<>> \in Seq(ToolCalls) /\ DOMAIN <<>> = {}
    OBVIOUS
  <2> QED
    BY <1>1, <2>1 DEF Encoded
<1>3. PICK text \in Texts : text = "t"
  BY TextFacts
<1>4. PICK finish : finish = FinishReason(<<>>, FALSE)
  OBVIOUS
<1>5. finish # "tool_calls"
  BY <1>4 DEF FinishReason
<1>6. ClientKeeps(calls, text, finish) /\ made' = made
  BY <1>1, <1>3, <1>4 DEF PiAnswers
<1>7. finish = "tool_calls" <=> calls # <<>>
  BY <1>1, <1>5
<1>8. made \subseteq made' /\ (calls # <<>> => \E r \in made' : Remembered(calls, r))
  BY <1>1, <1>6
<1> HIDE <1>1, <1>3, <1>4
<1> QED
  BY <1>2, <1>6, <1>7, <1>8, KeepsHistory, Zenon

LEMMA KeptHistory ==
  ASSUME HistoryInv, UNCHANGED <<history, made>>
  PROVE  HistoryInv'
  BY DEF HistoryInv, KnownCalls

-----------------------------------------------------------------------------
(* The contents for Google                                                 *)

SentParts ==
  [kind : {"text", "image", "call", "response"}, name : Texts \cup {"unknown_tool"},
   args : Texts, sig : Texts]
GoogleTurns == [role : {"user", "model"}, parts : Seq(SentParts)]

LEMMA PartTyped ==
  ASSUME NEW kind \in {"text", "image", "call", "response"}
  PROVE  Part(kind) \in SentParts /\ Part(kind).kind = kind
  BY TextFacts DEF Part, SentParts

LEMMA TurnTyped ==
  ASSUME NEW role \in {"user", "model"}, NEW parts \in Seq(SentParts)
  PROVE  /\ GoogleTurn(role, parts) \in GoogleTurns
         /\ GoogleTurn(role, parts).role = role /\ GoogleTurn(role, parts).parts = parts
  BY DEF GoogleTurn, GoogleTurns

LEMMA CallPartsTyped ==
  ASSUME NEW calls \in Seq(ToolCalls)
  PROVE  /\ CallParts(calls) \in Seq(SentParts) /\ Len(CallParts(calls)) = Len(calls)
         /\ \A c \in 1..Len(calls) : /\ CallParts(calls)[c] = CallPart(calls[c])
                                     /\ CallParts(calls)[c].kind = "call"
                                     /\ CallParts(calls)[c].name = calls[c].name
<1>1. PICK n \in Nat : n = Len(calls) /\ DOMAIN calls = 1..n
  BY LenProperties
<1>2. PICK parts : parts = CallParts(calls)
  OBVIOUS
<1>3. parts = [c \in 1..n |-> CallPart(calls[c])]
  BY <1>1, <1>2 DEF CallParts
<1>4. ASSUME NEW c \in 1..n
      PROVE  /\ CallPart(calls[c]) \in SentParts /\ CallPart(calls[c]).kind = "call"
             /\ CallPart(calls[c]).name = calls[c].name
  <2>1. calls[c] \in ToolCalls
    BY <1>1
  <2> QED
    BY <2>1 DEF ToolCalls, CallIds, CallPart, SentParts, OrElse, DecodedSig
<1>5. parts \in [1..n -> SentParts]
  BY <1>3, <1>4
<1>6. parts \in Seq(SentParts)
  BY <1>5, SeqDef
<1>7. Len(parts) = n
  BY <1>3, <1>6, LenProperties
<1> QED
  BY <1>1, <1>2, <1>3, <1>4, <1>6, <1>7

LEMMA ResponsePartTyped ==
  ASSUME NEW msg \in Messages
  PROVE  /\ ResponsePart(msg) \in SentParts /\ ResponsePart(msg).kind = "response"
         /\ OrElse(msg.name, msg.id.name) # Empty =>
              ResponsePart(msg).name = OrElse(msg.name, msg.id.name)
<1>1. Part("response") \in SentParts /\ Part("response").kind = "response"
  BY PartTyped
<1>2. PICK name \in Texts \cup {"unknown_tool"} :
        /\ name = OrElse(OrElse(msg.name, msg.id.name), "unknown_tool")
        /\ OrElse(msg.name, msg.id.name) # Empty => name = OrElse(msg.name, msg.id.name)
  BY DEF OrElse, Messages, CallIds
<1>3. ResponsePart(msg) = [Part("response") EXCEPT !.name = name]
  BY <1>2 DEF ResponsePart, DecodedName
<1> QED
  BY <1>1, <1>2, <1>3 DEF SentParts

(* What AddGoogleTurn does with a message, case by case. *)
LEMMA ToolTurn ==
  ASSUME NEW turns, NEW i, history[i].role = "tool"
  PROVE  AddGoogleTurn(turns, i) =
           IF i > 1 /\ history[i - 1].role = "tool"
             THEN [turns EXCEPT ![Len(turns)].parts = Append(@, ResponsePart(history[i]))]
             ELSE Append(turns, GoogleTurn("user", <<ResponsePart(history[i])>>))
  BY Zenon DEF AddGoogleTurn

LEMMA UserTurn ==
  ASSUME NEW turns, NEW i, history[i].role = "user"
  PROVE  AddGoogleTurn(turns, i) =
           IF UserParts(history[i].items) = <<>> THEN turns
           ELSE Append(turns, GoogleTurn("user", UserParts(history[i].items)))
  BY DEF AddGoogleTurn

LEMMA AssistantTurn ==
  ASSUME NEW turns, NEW i, history[i].role = "assistant"
  PROVE  AddGoogleTurn(turns, i) =
           IF history[i].calls # <<>>
             THEN Append(turns, GoogleTurn("model", CallParts(history[i].calls)))
           ELSE IF history[i].text = Empty THEN turns
           ELSE Append(turns, GoogleTurn("model", <<Part("text")>>))
  BY DEF AddGoogleTurn, CallParts

LEMMA SystemTurn ==
  ASSUME NEW turns, NEW i, history[i].role = "system"
  PROVE  AddGoogleTurn(turns, i) = turns
  BY DEF AddGoogleTurn

LEMMA GoogleTurnsStay ==
  ASSUME history \in Seq(Messages), NEW turns \in Seq(GoogleTurns), NEW i \in DOMAIN history
  PROVE  AddGoogleTurn(turns, i) \in Seq(GoogleTurns)
<1>1. PICK msg \in Messages : msg = history[i]
  BY ElementOfSeq, LenProperties
<1>2. msg.role \in {"system", "user", "assistant", "tool"}
  BY DEF Messages
<1>3. CASE msg.role = "tool"
  <2>1. PICK part \in SentParts : part = ResponsePart(msg)
    BY ResponsePartTyped
  <2>2. [turns EXCEPT ![Len(turns)].parts = Append(@, part)] \in Seq(GoogleTurns)
    <3>1. PICK n \in Nat : n = Len(turns) /\ DOMAIN turns = 1..n
      BY LenProperties
    <3>2. turns \in [1..n -> GoogleTurns]
      BY <3>1, LenProperties, ElementOfSeq
    <3>3. ASSUME NEW t \in GoogleTurns
          PROVE  [t EXCEPT !.parts = Append(@, part)] \in GoogleTurns
      <4>1. Append(t.parts, part) \in Seq(SentParts)
        BY AppendProperties DEF GoogleTurns
      <4> QED
        BY <4>1 DEF GoogleTurns
    <3>4. [turns EXCEPT ![n].parts = Append(@, part)] \in [1..n -> GoogleTurns]
      <4>1. CASE n \in 1..n
        <5>1. turns[n] \in GoogleTurns
          BY <3>2, <4>1
        <5>2. PICK t \in GoogleTurns : t = [turns[n] EXCEPT !.parts = Append(@, part)]
          BY <3>3, <5>1
        <5>3. [turns EXCEPT ![n].parts = Append(@, part)] = [turns EXCEPT ![n] = t]
          BY <5>2
        <5> QED
          BY <3>2, <5>3
      <4>2. CASE n \notin 1..n
        BY <3>2, <4>2
      <4> QED
        BY <4>1, <4>2
    <3> QED
      BY <3>1, <3>4, SeqDef
  <2>3. Append(turns, GoogleTurn("user", <<part>>)) \in Seq(GoogleTurns)
    <3>1. <<part>> \in Seq(SentParts)
      OBVIOUS
    <3> QED
      BY <3>1, TurnTyped, AppendProperties
  <2> QED
    BY <1>1, <1>3, <2>1, <2>2, <2>3, ToolTurn
<1>4. CASE msg.role = "user"
  <2>1. PICK parts \in Seq(SentParts) : parts = UserParts(msg.items)
    <3>1. msg.items \in Seq(ItemKinds)
      BY DEF Messages
    <3>2. UserParts(msg.items) \in Seq(PlainParts)
      BY <3>1, UserPartsPlain
    <3>3. PlainParts \subseteq SentParts
      BY PartTyped DEF PlainParts
    <3>4. Seq(PlainParts) \subseteq Seq(SentParts)
      BY <3>3
    <3> QED
      BY <3>2, <3>4
  <2>2. Append(turns, GoogleTurn("user", parts)) \in Seq(GoogleTurns)
    BY TurnTyped, AppendProperties
  <2> QED
    BY <1>1, <1>4, <2>1, <2>2, UserTurn
<1>5. CASE msg.role = "assistant"
  <2>1. PICK parts \in Seq(SentParts) : parts = CallParts(msg.calls)
    <3>1. msg.calls \in Seq(ToolCalls)
      BY DEF Messages
    <3> QED
      BY <3>1, CallPartsTyped
  <2>2. Append(turns, GoogleTurn("model", parts)) \in Seq(GoogleTurns)
    BY TurnTyped, AppendProperties
  <2>3. Append(turns, GoogleTurn("model", <<Part("text")>>)) \in Seq(GoogleTurns)
    <3>1. <<Part("text")>> \in Seq(SentParts)
      BY PartTyped
    <3> QED
      BY <3>1, TurnTyped, AppendProperties
  <2> QED
    BY <1>1, <1>5, <2>1, <2>2, <2>3, AssistantTurn
<1>6. CASE msg.role = "system"
  BY <1>1, <1>6, SystemTurn
<1> QED
  BY <1>2, <1>3, <1>4, <1>5, <1>6

GoogleRun(run, n) ==
  /\ run[0] = <<>> /\ run[n] = FoldLeftDomain(AddGoogleTurn, <<>>, history)
  /\ \A k \in 1..n : run[k] = AddGoogleTurn(run[k - 1], k)

LEMMA GoogleRuns ==
  ASSUME history \in Seq(Messages)
  PROVE  \E run \in [0..Len(history) -> Seq(GoogleTurns)] : GoogleRun(run, Len(history))
<1> DEFINE D == Seq(GoogleTurns)
           s == [i \in DOMAIN history |-> i]
           op(x, k) == AddGoogleTurn(x, s[k])
<1>0. PICK n \in Nat : n = Len(history) /\ DOMAIN history = 1..n
  BY LenProperties
<1> DEFINE g == [y \in D \X (1..n) |-> op(y[1], y[2])]
           Folded(f) == [u \in SUBSET (1..n) |->
                           IF u = {} THEN <<>> ELSE op(f[u \ {Max(u)}], Max(u))]
           F == CHOOSE f : f = Folded(f)
<1>s. DOMAIN s = 1..n /\ \A k \in 1..n : s[k] = k
  BY <1>0
<1>1. FoldLeftDomain(AddGoogleTurn, <<>>, history) = F[1..n]
  <2> HIDE DEF s
  <2> QED
    BY <1>s, Zenon DEF FoldLeftDomain, FoldLeft, MapThenFoldSet, s
<1>2. <<>> \in D
  OBVIOUS
<1>3. \A x \in D, k \in 1..n : op(x, k) \in D
  BY <1>0, <1>s, GoogleTurnsStay
<1>op. \A x, k : k \in 1..n => op(x, k) = AddGoogleTurn(x, k)
  BY <1>s
<1> HIDE DEF D, op, s
<1>4. g \in [D \X (1..n) -> D] /\ \A x \in D, k \in 1..n : g[<<x, k>>] = op(x, k)
  BY <1>3
<1> HIDE DEF g
<1>5. PICK f \in [SUBSET (1..n) -> D] : Folding(f, n, <<>>, g)
  BY <1>2, <1>4, FoldExists, Zenon
<1>6. \A u \in SUBSET (1..n) : u # {} => Max(u) \in 1..n /\ u \ {Max(u)} \in SUBSET (1..n)
  BY GreatestIndex
<1>7. f = Folded(f)
  <2>1. ASSUME NEW u \in SUBSET (1..n), u # {}
        PROVE  f[u] = op(f[u \ {Max(u)}], Max(u))
    <3>1. f[u \ {Max(u)}] \in D
      BY <1>6, <2>1
    <3> QED
      BY <1>4, <1>5, <1>6, <2>1, <3>1 DEF Folding
  <2> QED
    BY <1>5, <2>1 DEF Folding
<1>8. F = Folded(F)
  <2> HIDE DEF Folded
  <2> QED
    BY <1>7, Zenon
<1> HIDE DEF F
<1>9. FoldingIn(F, n, D, <<>>, g)
  BY <1>4, <1>6, <1>8 DEF FoldingIn
<1>10. PICK run \in [0..n -> D] : RunOf(run, F, n, <<>>, g)
  BY <1>2, <1>4, <1>9, FoldRuns, Zenon
<1>11. ASSUME NEW k \in 1..n
       PROVE  run[k] = AddGoogleTurn(run[k - 1], k)
  <2>1. k - 1 \in 0..n
    OBVIOUS
  <2>2. run[k - 1] \in D
    BY <2>1
  <2> QED
    BY <1>4, <1>10, <1>op, <2>2 DEF RunOf
<1>12. GoogleRun(run, n)
  BY <1>1, <1>10, <1>11 DEF RunOf, GoogleRun
<1>13. run \in [0..n -> Seq(GoogleTurns)]
  BY DEF D
<1> QED
  BY <1>0, <1>12, <1>13

-----------------------------------------------------------------------------
(* Calls and their results in the history                                  *)

HasCalls(i) == history[i].calls # <<>>

(* What an orderly history says of the calls of message i. *)
LEMMA CallsFollowed ==
  ASSUME HistoryInv, NEW i \in DOMAIN history, HasCalls(i)
  PROVE  /\ history[i].role = "assistant" /\ history[i].calls \in Seq(ToolCalls)
         /\ Len(history[i].calls) \in Nat \ {0}
         /\ i + Len(history[i].calls) <= Len(history)
         /\ \A c \in 1..Len(history[i].calls) :
              /\ i + c \in DOMAIN history
              /\ history[i].calls[c].name # Empty
              /\ history[i + c].role = "tool" /\ history[i + c].id = history[i].calls[c].id
              /\ OrElse(history[i + c].name, history[i + c].id.name) = history[i].calls[c].name
<1>1. PICK n \in Nat : n = Len(history) /\ DOMAIN history = 1..n
  BY LenProperties DEF HistoryInv
<1>2. PICK calls \in Seq(ToolCalls) : calls = history[i].calls
  <2>1. history[i] \in Messages
    BY ElementOfSeq, LenProperties DEF HistoryInv
  <2> QED
    BY <2>1 DEF Messages
<1>3. PICK l \in Nat : l = Len(calls) /\ DOMAIN calls = 1..l
  BY LenProperties
<1>4. l # 0
  BY <1>2, <1>3, EmptySeq DEF HasCalls
<1>5. CallBlock(history, i)
  BY OrderlyParts DEF HistoryInv, HasCalls
<1>6. /\ history[i].role = "assistant" /\ i + l <= n
      /\ \A c \in 1..l :
           /\ calls[c].name # Empty
           /\ history[i + c].role = "tool" /\ history[i + c].id = calls[c].id
           /\ OrElse(history[i + c].name, history[i + c].id.name) = calls[c].name
  BY <1>1, <1>2, <1>3, <1>5 DEF CallBlock
<1>7. \A c \in 1..l : i + c \in 1..n
  BY <1>1, <1>6
<1> QED
  BY <1>1, <1>2, <1>3, <1>4, <1>6, <1>7

(* Message i has calls, and message k is one of their results. *)
Results(i, k) == HasCalls(i) /\ k \in (i + 1)..(i + Len(history[i].calls))

LEMMA OneOwner ==
  ASSUME HistoryInv, NEW i \in DOMAIN history, NEW j \in DOMAIN history, NEW k \in Nat,
         Results(i, k), j = k \/ Results(j, k), HasCalls(j)
  PROVE  i = j
<1>1. PICK n \in Nat : n = Len(history) /\ DOMAIN history = 1..n
  BY LenProperties DEF HistoryInv
<1>2. PICK li \in Nat : li = Len(history[i].calls)
  BY CallsFollowed DEF Results
<1>3. PICK lj \in Nat : lj = Len(history[j].calls)
  BY CallsFollowed
<1>4. /\ history[i].role = "assistant" /\ history[j].role = "assistant"
      /\ \A c \in 1..li : history[i + c].role = "tool"
      /\ \A c \in 1..lj : history[j + c].role = "tool"
  BY <1>2, <1>3, CallsFollowed DEF Results
<1>5. CASE i < j
  <2>1. j - i \in 1..li
    BY <1>1, <1>2, <1>5 DEF Results
  <2>2. i + (j - i) = j
    BY <1>1
  <2> QED
    BY <1>4, <2>1, <2>2
<1>6. CASE j < i
  <2>1. i - j \in 1..lj
    BY <1>1, <1>3, <1>6 DEF Results
  <2>2. j + (i - j) = i
    BY <1>1
  <2> QED
    BY <1>4, <2>1, <2>2
<1> QED
  BY <1>1, <1>5, <1>6

(* A result is one of some message's. *)
LEMMA ResultOfSome ==
  ASSUME HistoryInv, NEW k \in DOMAIN history, history[k].role = "tool"
  PROVE  \E j \in DOMAIN history : j < k /\ Results(j, k)
<1>1. PICK n \in Nat : n = Len(history) /\ DOMAIN history = 1..n
  BY LenProperties DEF HistoryInv
<1>2. PICK j \in 1..(k - 1) : k <= j + Len(history[j].calls)
  BY OrderlyParts DEF HistoryInv, Owned
<1>3. j \in DOMAIN history /\ j < k
  BY <1>1
<1>4. PICK calls \in Seq(ToolCalls) : calls = history[j].calls
  <2>1. history[j] \in Messages
    BY <1>3, ElementOfSeq, LenProperties DEF HistoryInv
  <2> QED
    BY <2>1 DEF Messages
<1>5. PICK l \in Nat : l = Len(calls)
  BY LenProperties
<1>6. k <= j + l /\ l # 0
  BY <1>1, <1>2, <1>3, <1>4, <1>5
<1>7. HasCalls(j)
  BY <1>4, <1>5, <1>6, EmptySeq DEF HasCalls
<1>8. k \in (j + 1)..(j + l)
  BY <1>1, <1>3, <1>6
<1> QED
  BY <1>3, <1>4, <1>5, <1>7, <1>8 DEF Results

-----------------------------------------------------------------------------
(* Every turn is one of texts and images, or calls and their results are   *)
(* one turn each.                                                          *)

CallTurn(i) == GoogleTurn("model", CallParts(history[i].calls))

PlainTurn(turn) ==
  /\ turn.parts # <<>>
  /\ \A p \in DOMAIN turn.parts : turn.parts[p].kind \in {"text", "image"}

(* The first n results of message i. *)
AnsweredTurn(turn, i, n) ==
  /\ turn \in GoogleTurns /\ turn.role = "user" /\ Len(turn.parts) = n
  /\ \A c \in 1..n : /\ turn.parts[c].kind = "response"
                     /\ turn.parts[c].name = history[i].calls[c].name

Pair(calling, answering) ==
  \E i \in DOMAIN history :
    /\ HasCalls(i) /\ calling = CallTurn(i)
    /\ AnsweredTurn(answering, i, Len(history[i].calls))

SettledAt(turns, t) ==
  \/ PlainTurn(turns[t])
  \/ t < Len(turns) /\ Pair(turns[t], turns[t + 1])
  \/ t > 1 /\ Pair(turns[t - 1], turns[t])

Settled(turns) == \A t \in 1..Len(turns) : SettledAt(turns, t)

(* Calls of message i whose results are not complete: n of them are there. *)
Opened(turns, i, n) ==
  \E base \in Seq(GoogleTurns) :
    /\ Settled(base)
    /\ \/ n = 0 /\ turns = Append(base, CallTurn(i))
       \/ /\ n # 0
          /\ \E turn : AnsweredTurn(turn, i, n) /\ turns = Append(Append(base, CallTurn(i)), turn)

(* A sequence with one element more. *)
Longer(more, s, n, e) ==
  Len(more) = n + 1 /\ more[n + 1] = e /\ \A t \in 1..n : more[t] = s[t]

LEMMA OneLonger ==
  ASSUME NEW E, NEW s \in Seq(E), NEW e \in E
  PROVE  Append(s, e) \in Seq(E) /\ Longer(Append(s, e), s, Len(s), e)
<1>1. /\ Append(s, e) \in Seq(E) /\ Len(Append(s, e)) = Len(s) + 1
      /\ \A t \in 1..Len(s) : Append(s, e)[t] = s[t]
      /\ Append(s, e)[Len(s) + 1] = e
  BY AppendProperties
<1> QED
  BY <1>1 DEF Longer

LEMMA SettledGrows ==
  ASSUME NEW base \in Seq(GoogleTurns), Settled(base), NEW turns \in Seq(GoogleTurns),
         Len(base) <= Len(turns), \A t \in 1..Len(base) : turns[t] = base[t]
  PROVE  \A t \in 1..Len(base) : SettledAt(turns, t)
<1>1. PICK n \in Nat, m \in Nat : n = Len(base) /\ m = Len(turns)
  BY LenProperties
<1>2. n <= m /\ \A t \in 1..n : turns[t] = base[t]
  BY <1>1
<1>3. SUFFICES ASSUME NEW t \in 1..n
               PROVE  SettledAt(turns, t)
  BY <1>1
<1>4. SettledAt(base, t)
  BY <1>1 DEF Settled
<1>5. CASE PlainTurn(base[t])
  BY <1>2, <1>5 DEF SettledAt
<1>6. CASE t < n /\ Pair(base[t], base[t + 1])
  <2>1. t + 1 \in 1..n /\ t < m
    BY <1>2, <1>6
  <2>2. turns[t] = base[t] /\ turns[t + 1] = base[t + 1]
    BY <1>2, <2>1
  <2> QED
    BY <1>1, <1>6, <2>1, <2>2 DEF SettledAt
<1>7. CASE t > 1 /\ Pair(base[t - 1], base[t])
  <2>1. t - 1 \in 1..n
    BY <1>7
  <2>2. turns[t] = base[t] /\ turns[t - 1] = base[t - 1]
    BY <1>2, <2>1
  <2> QED
    BY <1>7, <2>2 DEF SettledAt
<1> QED
  BY <1>1, <1>4, <1>5, <1>6, <1>7 DEF SettledAt

LEMMA SettledPlain ==
  ASSUME NEW base \in Seq(GoogleTurns), Settled(base), NEW turn \in GoogleTurns, PlainTurn(turn)
  PROVE  Settled(Append(base, turn))
<1>1. PICK n \in Nat : n = Len(base)
  BY LenProperties
<1>2. PICK turns \in Seq(GoogleTurns) :
        /\ turns = Append(base, turn) /\ Len(turns) = n + 1 /\ turns[n + 1] = turn
        /\ \A t \in 1..n : turns[t] = base[t]
  <2>1. Append(base, turn) \in Seq(GoogleTurns) /\ Longer(Append(base, turn), base, n, turn)
    BY <1>1, OneLonger
  <2> QED
    BY <2>1 DEF Longer
<1>3. \A t \in 1..n : SettledAt(turns, t)
  <2>1. Len(base) <= Len(turns) /\ \A t \in 1..Len(base) : turns[t] = base[t]
    BY <1>1, <1>2
  <2> QED
    BY <1>1, <2>1, SettledGrows
<1>4. SettledAt(turns, n + 1)
  BY <1>2 DEF SettledAt
<1>5. \A t \in 1..(n + 1) : t \in 1..n \/ t = n + 1
  OBVIOUS
<1> QED
  BY <1>2, <1>3, <1>4, <1>5 DEF Settled

LEMMA SettledPair ==
  ASSUME NEW base \in Seq(GoogleTurns), Settled(base),
         NEW calling \in GoogleTurns, NEW answering \in GoogleTurns, Pair(calling, answering)
  PROVE  Settled(Append(Append(base, calling), answering))
<1>1. PICK n \in Nat, k \in Nat, m \in Nat : n = Len(base) /\ k = n + 1 /\ m = k + 1
  BY LenProperties
<1>2. PICK mid \in Seq(GoogleTurns) :
        /\ mid = Append(base, calling) /\ Len(mid) = k /\ mid[k] = calling
        /\ \A t \in 1..n : mid[t] = base[t]
  <2>1. Append(base, calling) \in Seq(GoogleTurns) /\ Longer(Append(base, calling), base, n, calling)
    BY <1>1, OneLonger
  <2> QED
    BY <1>1, <2>1 DEF Longer
<1>3. PICK turns \in Seq(GoogleTurns) :
        /\ turns = Append(mid, answering) /\ Len(turns) = m /\ turns[m] = answering
        /\ \A t \in 1..k : turns[t] = mid[t]
  <2>1. Append(mid, answering) \in Seq(GoogleTurns) /\ Longer(Append(mid, answering), mid, k, answering)
    BY <1>2, OneLonger
  <2> QED
    BY <1>1, <2>1 DEF Longer
<1>4. turns[k] = calling /\ \A t \in 1..n : turns[t] = base[t]
  <2>1. k \in 1..k /\ \A t \in 1..n : t \in 1..k
    BY <1>1
  <2> QED
    BY <1>2, <1>3, <2>1
<1>5. \A t \in 1..n : SettledAt(turns, t)
  <2>1. Len(base) <= Len(turns) /\ \A t \in 1..Len(base) : turns[t] = base[t]
    <3>1. n <= m
      BY <1>1
    <3> QED
      BY <1>1, <1>3, <1>4, <3>1
  <2> QED
    BY <1>1, <2>1, SettledGrows
<1>6. SettledAt(turns, k)
  <2>1. k < Len(turns) /\ turns[k + 1] = answering
    BY <1>1, <1>3
  <2> QED
    BY <1>4, <2>1 DEF SettledAt
<1>7. SettledAt(turns, m)
  <2>1. m > 1 /\ m - 1 = k
    BY <1>1
  <2> QED
    BY <1>3, <1>4, <2>1 DEF SettledAt
<1>8. \A t \in 1..m : t \in 1..n \/ t = k \/ t = m
  BY <1>1
<1>9. Settled(turns)
  BY <1>3, <1>5, <1>6, <1>7, <1>8 DEF Settled
<1> QED
  BY <1>2, <1>3, <1>9

LEMMA CallTurnTyped ==
  ASSUME HistoryInv, NEW i \in DOMAIN history
  PROVE  CallTurn(i) \in GoogleTurns /\ CallTurn(i).role = "model"
         /\ CallTurn(i).parts = CallParts(history[i].calls)
<1>1. history[i].calls \in Seq(ToolCalls)
  <2>1. history[i] \in Messages
    BY ElementOfSeq, LenProperties DEF HistoryInv
  <2> QED
    BY <2>1 DEF Messages
<1>2. CallParts(history[i].calls) \in Seq(SentParts)
  BY <1>1, CallPartsTyped
<1> QED
  BY <1>2, TurnTyped DEF CallTurn

(* Complete results settle the calls. *)
LEMMA OpenedSettles ==
  ASSUME HistoryInv, NEW i \in DOMAIN history, HasCalls(i), NEW turns,
         Opened(turns, i, Len(history[i].calls))
  PROVE  Settled(turns)
<1>1. Len(history[i].calls) # 0
  BY CallsFollowed
<1>2. PICK base \in Seq(GoogleTurns), turn \in GoogleTurns :
        /\ Settled(base) /\ AnsweredTurn(turn, i, Len(history[i].calls))
        /\ turns = Append(Append(base, CallTurn(i)), turn)
  BY <1>1 DEF Opened, AnsweredTurn
<1>3. turn \in GoogleTurns /\ Pair(CallTurn(i), turn)
  BY <1>2 DEF AnsweredTurn, Pair
<1> QED
  BY <1>2, <1>3, CallTurnTyped, SettledPair

-----------------------------------------------------------------------------
(* After k messages the calls are settled, but for those of a message      *)
(* whose results are still to come.                                        *)

Owner(i, k) == HasCalls(i) /\ k \in i..(i + Len(history[i].calls) - 1)

Progress(turns, k) ==
  /\ (\A i \in DOMAIN history : ~Owner(i, k)) => Settled(turns)
  /\ \A i \in DOMAIN history : Owner(i, k) => Opened(turns, i, k - i)

LEMMA OwnerResults ==
  ASSUME HistoryInv, NEW i \in DOMAIN history, NEW k \in Nat
  PROVE  /\ Owner(i, k) <=> (i = k /\ HasCalls(i)) \/
                            (Results(i, k) /\ k # i + Len(history[i].calls))
         /\ k # 0 => (Owner(i, k - 1) <=> Results(i, k))
<1>1. CASE HasCalls(i)
  <2>1. PICK l \in Nat \ {0} : l = Len(history[i].calls)
    BY <1>1, CallsFollowed
  <2>2. i \in Nat
    BY LenProperties DEF HistoryInv
  <2> QED
    BY <1>1, <2>1, <2>2 DEF Owner, Results
<1>2. CASE ~HasCalls(i)
  BY <1>2 DEF Owner, Results
<1> QED
  BY <1>1, <1>2

LEMMA LastChanged ==
  ASSUME NEW s \in Seq(GoogleTurns), NEW r \in GoogleTurns, NEW r2 \in GoogleTurns
  PROVE  /\ [Append(s, r) EXCEPT ![Len(Append(s, r))] = r2] = Append(s, r2)
         /\ Append(s, r)[Len(Append(s, r))] = r
<1>1. PICK n \in Nat, m \in Nat : n = Len(s) /\ m = n + 1
  BY LenProperties
<1>2. PICK u \in Seq(GoogleTurns) : u = Append(s, r) /\ Longer(u, s, n, r)
  BY <1>1, OneLonger
<1>3. PICK v \in Seq(GoogleTurns) : v = Append(s, r2) /\ Longer(v, s, n, r2)
  BY <1>1, OneLonger
<1>4. /\ DOMAIN u = 1..m /\ DOMAIN v = 1..m /\ Len(u) = m /\ u[m] = r /\ v[m] = r2
      /\ u = [t \in 1..m |-> u[t]] /\ v = [t \in 1..m |-> v[t]]
  BY <1>1, <1>2, <1>3, LenProperties DEF Longer
<1>5. \A t \in 1..m : t # m => u[t] = v[t]
  <2>1. \A t \in 1..m : t # m => t \in 1..n
    BY <1>1
  <2> QED
    BY <1>2, <1>3, <2>1 DEF Longer
<1>6. [u EXCEPT ![m] = r2] = v
  <2>1. [u EXCEPT ![m] = r2] = [t \in 1..m |-> IF t = m THEN r2 ELSE u[t]]
    BY <1>4
  <2>2. \A t \in 1..m : v[t] = IF t = m THEN r2 ELSE u[t]
    BY <1>4, <1>5
  <2> QED
    BY <1>4, <2>1, <2>2
<1> QED
  BY <1>2, <1>3, <1>4, <1>6

(* One result more. *)
LEMMA OneMoreResult ==
  ASSUME HistoryInv, NEW j \in DOMAIN history, NEW n \in Nat, NEW c \in Nat, c = n + 1,
         NEW turn, n = 0 => turn.parts = <<>>, n # 0 => AnsweredTurn(turn, j, n),
         NEW part \in SentParts, part.kind = "response", part.name = history[j].calls[c].name,
         NEW more, more = GoogleTurn("user", Append(turn.parts, part))
  PROVE  AnsweredTurn(more, j, c)
<1>1. PICK parts \in Seq(SentParts) : parts = turn.parts /\ Len(parts) = n
  <2>1. CASE n = 0
    <3>1. <<>> \in Seq(SentParts) /\ Len(<<>>) = 0
      OBVIOUS
    <3> QED
      BY <2>1, <3>1
  <2>2. CASE n # 0
    BY <2>2 DEF AnsweredTurn, GoogleTurns
  <2> QED
    BY <2>1, <2>2
<1>2. PICK longer \in Seq(SentParts) : longer = Append(parts, part) /\ Longer(longer, parts, n, part)
  BY <1>1, OneLonger
<1>3. Len(longer) = c /\ longer[c] = part /\ \A t \in 1..n : longer[t] = parts[t]
  BY <1>2 DEF Longer
<1>4. /\ more \in GoogleTurns /\ more.role = "user" /\ more.parts = longer
  <2>1. more = GoogleTurn("user", longer)
    BY <1>1, <1>2
  <2> QED
    BY <2>1, TurnTyped
<1>5. ASSUME NEW t \in 1..c
      PROVE  longer[t].kind = "response" /\ longer[t].name = history[j].calls[t].name
  <2>1. CASE t = c
    BY <1>3, <2>1
  <2>2. CASE t # c
    <3>1. t \in 1..n /\ n # 0
      BY <2>2
    <3>2. parts[t].kind = "response" /\ parts[t].name = history[j].calls[t].name
      BY <1>1, <3>1 DEF AnsweredTurn
    <3> QED
      BY <1>3, <3>1, <3>2
  <2> QED
    BY <2>1, <2>2
<1> QED
  BY <1>3, <1>4, <1>5 DEF AnsweredTurn

LEMMA ResultStep ==
  ASSUME HistoryInv, NEW k \in DOMAIN history, history[k].role = "tool",
         NEW turns \in Seq(GoogleTurns), Progress(turns, k - 1)
  PROVE  Progress(AddGoogleTurn(turns, k), k)
<1>0. k \in Nat /\ k # 0 /\ history[k] \in Messages
  BY LenProperties, ElementOfSeq DEF HistoryInv
<1>1. PICK j \in DOMAIN history : j < k /\ Results(j, k)
  BY ResultOfSome
<1>2. PICK l \in Nat \ {0} : l = Len(history[j].calls)
  BY <1>1, CallsFollowed DEF Results
<1>3. PICK n \in Nat, c \in Nat : n = k - 1 - j /\ c = n + 1 /\ c = k - j
  <2>1. j \in Nat
    BY LenProperties DEF HistoryInv
  <2>2. k - 1 - j \in Nat /\ k - j \in Nat /\ k - j = (k - 1 - j) + 1
    BY <1>0, <1>1, <2>1
  <2> QED
    BY <2>2
<1>4. c \in 1..l /\ j + c = k /\ j + n = k - 1 /\ (n # 0 => n \in 1..l)
  <2>1. j \in Nat
    BY LenProperties DEF HistoryInv
  <2> QED
    BY <1>0, <1>1, <1>2, <1>3, <2>1 DEF Results
<1>5. /\ history[j].role = "assistant"
      /\ history[j].calls[c].name # Empty
      /\ OrElse(history[k].name, history[k].id.name) = history[j].calls[c].name
      /\ n # 0 => history[k - 1].role = "tool"
  <2>1. /\ history[j].role = "assistant"
        /\ \A d \in 1..l : /\ history[j].calls[d].name # Empty
                           /\ history[j + d].role = "tool"
                           /\ OrElse(history[j + d].name, history[j + d].id.name) = history[j].calls[d].name
    BY <1>1, <1>2, CallsFollowed DEF Results
  <2> QED
    BY <1>4, <2>1
<1>6. Opened(turns, j, n)
  <2>1. Owner(j, k - 1)
    BY <1>0, <1>1, OwnerResults
  <2>2. (k - 1) - j = n
    BY <1>3
  <2> QED
    BY <2>1, <2>2 DEF Progress
<1>7. PICK part \in SentParts :
        /\ part = ResponsePart(history[k])
        /\ part.kind = "response" /\ part.name = history[j].calls[c].name
  BY <1>0, <1>5, ResponsePartTyped
<1>8. PICK next : next = AddGoogleTurn(turns, k)
  OBVIOUS
<1>9. next = IF k > 1 /\ history[k - 1].role = "tool"
               THEN [turns EXCEPT ![Len(turns)].parts = Append(@, part)]
               ELSE Append(turns, GoogleTurn("user", <<part>>))
  BY <1>7, <1>8, ToolTurn
<1>10. Opened(next, j, c)
  <2>0. c # 0
    BY <1>4
  <2>1. CASE n = 0
    <3>1. k - 1 = j /\ history[k - 1].role # "tool"
      <4>1. j + 0 = k - 1 /\ j \in Nat
        BY <1>4, <2>1, LenProperties DEF HistoryInv
      <4>2. k - 1 = j
        BY <4>1
      <4> QED
        BY <1>5, <4>2
    <3>2. PICK turn : turn = GoogleTurn("user", <<part>>)
      OBVIOUS
    <3>3. next = Append(turns, turn)
      BY <1>9, <3>1, <3>2
    <3>4. PICK base \in Seq(GoogleTurns) : Settled(base) /\ turns = Append(base, CallTurn(j))
      BY <1>6, <2>1 DEF Opened
    <3>5. AnsweredTurn(turn, j, c)
      <4>1. PICK none : none = GoogleTurn("user", <<>>)
        OBVIOUS
      <4>2. none.parts = <<>>
        BY <4>1 DEF GoogleTurn
      <4>3. turn = GoogleTurn("user", Append(none.parts, part))
        BY <3>2, <4>2
      <4>4. (n = 0 => none.parts = <<>>) /\ (n # 0 => AnsweredTurn(none, j, n))
        BY <2>1, <4>2
      <4>5. j \in DOMAIN history /\ n \in Nat /\ c \in Nat /\ c = n + 1 /\ part \in SentParts
        BY <1>3
      <4> HIDE <1>7
      <4>6. part.kind = "response" /\ part.name = history[j].calls[c].name
        BY <1>7
      <4> QED
        BY <4>3, <4>4, <4>5, <4>6, OneMoreResult
    <3> QED
      BY <2>0, <3>3, <3>4, <3>5 DEF Opened
  <2>2. CASE n # 0
    <3>1. k > 1 /\ history[k - 1].role = "tool"
      <4>1. k > 1
        <5>1. j \in Nat
          BY LenProperties DEF HistoryInv
        <5> QED
          BY <1>0, <1>3, <2>2, <5>1
      <4> QED
        BY <1>5, <2>2, <4>1
    <3>2. next = [turns EXCEPT ![Len(turns)].parts = Append(@, part)]
      BY <1>9, <3>1
    <3>3. PICK base \in Seq(GoogleTurns), turn \in GoogleTurns :
            /\ Settled(base) /\ AnsweredTurn(turn, j, n)
            /\ turns = Append(Append(base, CallTurn(j)), turn)
      BY <1>6, <2>2 DEF Opened, AnsweredTurn
    <3>4. PICK more : more = GoogleTurn("user", Append(turn.parts, part))
      OBVIOUS
    <3>5. AnsweredTurn(more, j, c)
      BY <1>3, <1>7, <2>2, <3>3, <3>4, OneMoreResult
    <3>6. turn \in GoogleTurns /\ turn.role = "user" /\ more \in GoogleTurns
      BY <3>3, <3>5 DEF AnsweredTurn
    <3>7. [turn EXCEPT !.parts = Append(@, part)] = more
      <4>1. PICK longer : longer = Append(turn.parts, part)
        OBVIOUS
      <4>2. more = [role |-> "user", parts |-> longer]
        BY <3>4, <4>1 DEF GoogleTurn
      <4>3. [turn EXCEPT !.parts = longer] = [role |-> "user", parts |-> longer]
        <5>1. turn = [role |-> turn.role, parts |-> turn.parts]
          BY <3>6 DEF GoogleTurns
        <5> QED
          BY <3>6, <5>1
      <4> QED
        BY <4>1, <4>2, <4>3
    <3>8. PICK mid \in Seq(GoogleTurns) : mid = Append(base, CallTurn(j))
      BY CallTurnTyped, AppendProperties
    <3>9. /\ [turns EXCEPT ![Len(turns)] = more] = Append(mid, more)
          /\ turns[Len(turns)] = turn
      <4>1. turns = Append(mid, turn)
        BY <3>3, <3>8
      <4>2. /\ [Append(mid, turn) EXCEPT ![Len(Append(mid, turn))] = more] = Append(mid, more)
            /\ Append(mid, turn)[Len(Append(mid, turn))] = turn
        BY <3>6, LastChanged
      <4> QED
        BY <4>1, <4>2
    <3>10. next = [turns EXCEPT ![Len(turns)] = more]
      BY <3>2, <3>7, <3>9
    <3> QED
      BY <2>0, <3>3, <3>5, <3>8, <3>9, <3>10 DEF Opened
  <2> QED
    BY <2>1, <2>2
<1>11. ASSUME NEW i \in DOMAIN history, Owner(i, k)
       PROVE  i = j
  <2>1. HasCalls(i) /\ (i = k \/ Results(i, k))
    BY <1>0, <1>11, OwnerResults DEF Results
  <2> QED
    BY <1>0, <1>1, <2>1, OneOwner
<1>12. ASSUME \A i \in DOMAIN history : ~Owner(i, k)
       PROVE  Settled(next)
  <2>1. k = j + l
    BY <1>0, <1>1, <1>2, <1>12, OwnerResults
  <2>2. c = l
    <3>1. j \in Nat
      BY LenProperties DEF HistoryInv
    <3> QED
      BY <1>3, <2>1, <3>1
  <2>3. HasCalls(j)
    BY <1>1 DEF Results
  <2> QED
    BY <1>2, <1>10, <2>2, <2>3, OpenedSettles
<1> QED
  BY <1>3, <1>8, <1>10, <1>11, <1>12 DEF Progress

LEMMA OtherStep ==
  ASSUME HistoryInv, NEW k \in DOMAIN history, history[k].role # "tool",
         NEW turns \in Seq(GoogleTurns), Progress(turns, k - 1)
  PROVE  Progress(AddGoogleTurn(turns, k), k)
<1>0. k \in Nat /\ k # 0 /\ history[k] \in Messages
  BY LenProperties, ElementOfSeq DEF HistoryInv
<1>1. ASSUME NEW i \in DOMAIN history
      PROVE  ~Results(i, k)
  <2>1. SUFFICES ASSUME Results(i, k)
                 PROVE  FALSE
    OBVIOUS
  <2>2. PICK l \in Nat : /\ l = Len(history[i].calls)
                         /\ \A c \in 1..l : history[i + c].role = "tool"
    BY <2>1, CallsFollowed DEF Results
  <2>3. k - i \in 1..l /\ i + (k - i) = k
    <3>1. i \in Nat
      BY LenProperties DEF HistoryInv
    <3> QED
      BY <1>0, <2>1, <2>2, <3>1 DEF Results
  <2> QED
    BY <2>2, <2>3
<1>2. Settled(turns)
  BY <1>0, <1>1, OwnerResults DEF Progress
<1>3. \A i \in DOMAIN history : Owner(i, k) <=> i = k /\ HasCalls(k)
  BY <1>0, <1>1, OwnerResults
<1>4. PICK next : next = AddGoogleTurn(turns, k)
  OBVIOUS
<1>5. CASE HasCalls(k)
  <2>1. history[k].role = "assistant"
    BY <1>5, CallsFollowed
  <2>2. next = Append(turns, CallTurn(k))
    BY <1>4, <1>5, <2>1, AssistantTurn DEF HasCalls, CallTurn
  <2>3. Opened(next, k, 0)
    BY <1>2, <2>2 DEF Opened
  <2>4. k - k = 0 /\ Owner(k, k)
    BY <1>0, <1>3, <1>5
  <2> QED
    BY <1>3, <1>4, <2>3, <2>4 DEF Progress
<1>6. CASE ~HasCalls(k)
  <2>1. Settled(next)
    <3>1. CASE history[k].role = "user"
      <4>1. history[k].items \in Seq(ItemKinds)
        BY <1>0 DEF Messages
      <4>2. PICK parts \in Seq(PlainParts) : parts = UserParts(history[k].items)
        BY <4>1, UserPartsPlain
      <4>3. CASE parts = <<>>
        BY <1>2, <1>4, <3>1, <4>2, <4>3, UserTurn
      <4>4. CASE parts # <<>>
        <5>1. PlainParts \subseteq SentParts
              /\ \A p \in PlainParts : p.kind \in {"text", "image"}
          BY PartTyped DEF PlainParts
        <5>2. parts \in Seq(SentParts)
          <6>1. Seq(PlainParts) \subseteq Seq(SentParts)
            BY <5>1
          <6> QED
            BY <6>1
        <5>3. PICK turn \in GoogleTurns : turn = GoogleTurn("user", parts) /\ turn.parts = parts
          BY <5>2, TurnTyped
        <5>4. \A p \in DOMAIN parts : parts[p] \in PlainParts
          BY LenProperties, ElementOfSeq
        <5>5. PlainTurn(turn)
          BY <4>4, <5>1, <5>3, <5>4 DEF PlainTurn
        <5>6. next = Append(turns, turn)
          BY <1>4, <3>1, <4>2, <4>4, <5>3, UserTurn
        <5> QED
          BY <1>2, <5>5, <5>6, SettledPlain
      <4> QED
        BY <4>3, <4>4
    <3>2. CASE history[k].role = "assistant"
      <4>1. CASE history[k].text = Empty
        BY <1>2, <1>4, <1>6, <3>2, <4>1, AssistantTurn DEF HasCalls
      <4>2. CASE history[k].text # Empty
        <5>1. PICK part \in SentParts : part = Part("text") /\ part.kind = "text"
          BY PartTyped
        <5>2. PICK parts \in Seq(SentParts) :
                parts = <<part>> /\ parts # <<>> /\ DOMAIN parts = {1} /\ parts[1] = part
          <6>1. <<part>> \in Seq(SentParts) /\ <<part>> # <<>> /\ <<part>>[1] = part
            OBVIOUS
          <6>2. DOMAIN <<part>> = {1}
            OBVIOUS
          <6> QED
            BY <6>1, <6>2
        <5>3. PICK turn \in GoogleTurns : turn = GoogleTurn("model", parts) /\ turn.parts = parts
          BY TurnTyped
        <5>4. PlainTurn(turn)
          BY <5>1, <5>2, <5>3 DEF PlainTurn
        <5>5. next = Append(turns, turn)
          BY <1>4, <1>6, <3>2, <4>2, <5>1, <5>2, <5>3, AssistantTurn DEF HasCalls
        <5> QED
          BY <1>2, <5>4, <5>5, SettledPlain
      <4> QED
        BY <4>1, <4>2
    <3>3. CASE history[k].role = "system"
      BY <1>2, <1>4, <3>3, SystemTurn
    <3> QED
      BY <1>0, <3>1, <3>2, <3>3 DEF Messages
  <2> QED
    BY <1>3, <1>4, <1>6, <2>1 DEF Progress
<1> QED
  BY <1>5, <1>6

LEMMA ContentsSettled ==
  ASSUME HistoryInv
  PROVE  \E turns \in Seq(GoogleTurns) :
           turns = FoldLeftDomain(AddGoogleTurn, <<>>, history) /\ Settled(turns)
<1>1. PICK n \in Nat : n = Len(history) /\ DOMAIN history = 1..n
  BY LenProperties DEF HistoryInv
<1>2. PICK run \in [0..n -> Seq(GoogleTurns)] : GoogleRun(run, n)
  BY <1>1, GoogleRuns DEF HistoryInv
<1> DEFINE S == {k \in 0..n : Progress(run[k], k)}
<1>3. Progress(run[0], 0)
  <2>1. run[0] = <<>>
    BY <1>2 DEF GoogleRun
  <2>2. Settled(<<>>)
    <3>1. Len(<<>>) = 0 /\ 1..0 = {}
      OBVIOUS
    <3> QED
      BY <3>1 DEF Settled
  <2>3. \A i \in DOMAIN history : ~Owner(i, 0)
    <3>1. ASSUME NEW i \in DOMAIN history, Owner(i, 0)
          PROVE  FALSE
      <4>1. HasCalls(i) /\ 0 \in i..(i + Len(history[i].calls) - 1)
        BY <3>1 DEF Owner
      <4>2. Len(history[i].calls) \in Nat
        BY <4>1, CallsFollowed
      <4> QED
        BY <1>1, <4>1, <4>2
    <3> QED
      BY <3>1
  <2> QED
    BY <2>1, <2>2, <2>3 DEF Progress
<1>4. ASSUME NEW k \in 1..n, Progress(run[k - 1], k - 1)
      PROVE  Progress(run[k], k)
  <2>1. run[k] = AddGoogleTurn(run[k - 1], k)
    BY <1>2 DEF GoogleRun
  <2>2. k - 1 \in 0..n
    OBVIOUS
  <2>3. PICK turns \in Seq(GoogleTurns) : turns = run[k - 1]
    BY <2>2
  <2>4. k \in DOMAIN history
    BY <1>1
  <2> QED
    BY <1>4, <2>1, <2>3, <2>4, ResultStep, OtherStep
<1>5. \A k \in 0..n : k \in S
  <2>1. 0 \in S
    BY <1>3
  <2>2. ASSUME NEW k \in 1..n, k - 1 \in S
        PROVE  k \in S
    <3>1. k \in 0..n /\ Progress(run[k - 1], k - 1)
      BY <2>2
    <3> QED
      BY <1>4, <3>1
  <2> HIDE DEF S
  <2> QED
    BY <2>1, <2>2, UpTo
<1>6. Progress(run[n], n)
  BY <1>5
<1>7. \A i \in DOMAIN history : ~Owner(i, n)
  <2>1. ASSUME NEW i \in DOMAIN history, Owner(i, n)
        PROVE  FALSE
    <3>1. HasCalls(i) /\ n \in i..(i + Len(history[i].calls) - 1)
      BY <2>1 DEF Owner
    <3>2. Len(history[i].calls) \in Nat /\ i + Len(history[i].calls) <= n
      BY <1>1, <3>1, CallsFollowed
    <3> QED
      BY <1>1, <3>1, <3>2
  <2> QED
    BY <2>1
<1>8. Settled(run[n])
  BY <1>6, <1>7 DEF Progress
<1>9. run[n] \in Seq(GoogleTurns) /\ run[n] = FoldLeftDomain(AddGoogleTurn, <<>>, history)
  BY <1>2 DEF GoogleRun
<1> QED
  BY <1>8, <1>9

-----------------------------------------------------------------------------
(* What is sent after the ends are cut off                                 *)

WellFormed(turns) ==
  /\ turns[1].role = "user" /\ turns[Len(turns)].role = "user"
  /\ \A i \in DOMAIN turns :
       /\ turns[i].parts # <<>>
       /\ "response" \in Kinds(turns[i]) /\ i > 1 =>
            Kinds(turns[i - 1]) = {"call"} /\ Names(turns[i - 1]) = Names(turns[i])
       /\ "call" \in Kinds(turns[i]) => Kinds(turns[i + 1]) = {"response"}

CallsKnown(turns) ==
  \A i \in DOMAIN turns :
    "call" \in Kinds(turns[i]) => \E m \in made : AsMade(turns[i].parts, m)

LEMMA LeastIndex ==
  ASSUME NEW n \in Nat, NEW T, T \subseteq 1..n, T # {}
  PROVE  Min(T) \in T /\ \A i \in T : Min(T) <= i
<1>1. T \subseteq Nat
  OBVIOUS
<1>2. PICK x \in T : \A y \in T : x <= y
  BY <1>1, LeastNatural
<1> QED
  BY <1>2, Zenon DEF Min

LEMMA PlainKinds ==
  ASSUME NEW turn \in GoogleTurns, PlainTurn(turn)
  PROVE  "call" \notin Kinds(turn) /\ "response" \notin Kinds(turn) /\ turn.parts # <<>>
  BY DEF PlainTurn, Kinds

LEMMA PairKinds ==
  ASSUME HistoryInv, NEW a, NEW b, Pair(a, b)
  PROVE  /\ Kinds(a) = {"call"} /\ Kinds(b) = {"response"} /\ Names(a) = Names(b)
         /\ a.parts # <<>> /\ b.parts # <<>> /\ a.role = "model" /\ b.role = "user"
         /\ \E m \in made : AsMade(a.parts, m)
<1>1. PICK i \in DOMAIN history :
        HasCalls(i) /\ a = CallTurn(i) /\ AnsweredTurn(b, i, Len(history[i].calls))
  BY DEF Pair
<1>2. PICK calls \in Seq(ToolCalls), n \in Nat \ {0} : calls = history[i].calls /\ n = Len(calls)
  BY <1>1, CallsFollowed
<1>3. PICK parts \in Seq(SentParts) :
        /\ a.parts = parts /\ parts = CallParts(calls) /\ Len(parts) = n
        /\ \A c \in 1..n : parts[c].kind = "call" /\ parts[c].name = calls[c].name
        /\ a.role = "model"
  <2>1. a.role = "model" /\ a.parts = CallParts(calls)
    BY <1>1, <1>2, CallTurnTyped
  <2>2. /\ CallParts(calls) \in Seq(SentParts) /\ Len(CallParts(calls)) = n
        /\ \A c \in 1..n : /\ CallParts(calls)[c].kind = "call"
                           /\ CallParts(calls)[c].name = calls[c].name
    BY <1>2, CallPartsTyped
  <2> QED
    BY <2>1, <2>2
<1>4. PICK results \in Seq(SentParts) :
        /\ b.parts = results /\ Len(results) = n /\ b.role = "user"
        /\ \A c \in 1..n : results[c].kind = "response" /\ results[c].name = calls[c].name
  BY <1>1, <1>2 DEF AnsweredTurn, GoogleTurns
<1>5. DOMAIN parts = 1..n /\ DOMAIN results = 1..n /\ 1 \in 1..n
  BY <1>3, <1>4, LenProperties
<1>6. Kinds(a) = {"call"} /\ Kinds(b) = {"response"}
  <2>1. Kinds(a) = {parts[c].kind : c \in 1..n}
    BY <1>3, <1>5 DEF Kinds
  <2>2. Kinds(b) = {results[c].kind : c \in 1..n}
    BY <1>4, <1>5 DEF Kinds
  <2>3. {parts[c].kind : c \in 1..n} = {"call"}
    BY <1>3, <1>5
  <2>4. {results[c].kind : c \in 1..n} = {"response"}
    BY <1>4, <1>5
  <2> QED
    BY <2>1, <2>2, <2>3, <2>4
<1>7. Names(a) = Names(b)
  <2>1. Names(a) = [c \in 1..n |-> parts[c].name] /\ Names(b) = [c \in 1..n |-> results[c].name]
    BY <1>3, <1>4, <1>5 DEF Names
  <2>2. \A c \in 1..n : parts[c].name = results[c].name
    BY <1>3, <1>4
  <2> QED
    BY <2>1, <2>2
<1>8. parts # <<>> /\ results # <<>>
  BY <1>3, <1>4, EmptySeq
<1>9. \E m \in made : AsMade(a.parts, m)
  <2>1. KnownCalls(calls)
    BY <1>1, <1>2 DEF HistoryInv, HasCalls
  <2> QED
    BY <1>3, <2>1, Zenon DEF KnownCalls
<1> QED
  BY <1>3, <1>4, <1>6, <1>7, <1>8, <1>9

LEMMA TrimmedWellFormed ==
  ASSUME HistoryInv, NEW turns \in Seq(GoogleTurns), Settled(turns), Trimmed(turns) # <<>>
  PROVE  WellFormed(Trimmed(turns)) /\ CallsKnown(Trimmed(turns))
<1>1. PICK n \in Nat : n = Len(turns) /\ DOMAIN turns = 1..n
  BY LenProperties
<1>2. PICK users : users = {i \in 1..n : turns[i].role = "user"}
  OBVIOUS
<1>3. Trimmed(turns) = IF users = {} THEN <<>> ELSE SubSeq(turns, Min(users), Max(users))
  BY <1>1, <1>2, Zenon DEF Trimmed
<1>4. users # {} /\ users \subseteq 1..n
  BY <1>2, <1>3
<1>5. PICK lo \in users : lo = Min(users) /\ \A i \in users : lo <= i
  BY <1>4, LeastIndex
<1>6. PICK hi \in users : hi = Max(users) /\ \A i \in users : i <= hi
  BY <1>4, GreatestIndex
<1>7. /\ lo \in 1..n /\ hi \in 1..n /\ lo <= hi
      /\ turns[lo].role = "user" /\ turns[hi].role = "user"
  BY <1>2, <1>5, <1>6
<1>8. PICK m \in Nat : m = hi - lo + 1 /\ m # 0
  <2>1. hi - lo + 1 \in Nat /\ hi - lo + 1 # 0
    BY <1>7
  <2> QED
    BY <2>1
<1>9. PICK sent \in Seq(GoogleTurns) :
        /\ sent = Trimmed(turns) /\ Len(sent) = m
        /\ \A i \in 1..m : sent[i] = turns[lo + i - 1]
  <2>1. \A i \in lo..hi : turns[i] \in GoogleTurns
    BY <1>1, <1>7, LenProperties, ElementOfSeq
  <2>2. lo \in Int /\ hi \in Int
    BY <1>7
  <2>3. /\ SubSeq(turns, lo, hi) \in Seq(GoogleTurns)
        /\ Len(SubSeq(turns, lo, hi)) = IF lo <= hi THEN hi - lo + 1 ELSE 0
        /\ \A i \in 1..hi - lo + 1 : SubSeq(turns, lo, hi)[i] = turns[lo + i - 1]
    BY <2>1, <2>2, SubSeqProperties
  <2> QED
    BY <1>3, <1>4, <1>5, <1>6, <1>7, <1>8, <2>3
<1>10. DOMAIN sent = 1..m
  BY <1>9, LenProperties
<1>11. sent[1].role = "user" /\ sent[m].role = "user"
  <2>1. 1 \in 1..m /\ m \in 1..m /\ lo + 1 - 1 = lo /\ lo + m - 1 = hi
    BY <1>7, <1>8
  <2>2. sent[1] = turns[lo] /\ sent[m] = turns[hi]
    BY <1>9, <2>1
  <2> QED
    BY <1>7, <2>2
<1>12. ASSUME NEW i \in 1..m
       PROVE  /\ sent[i].parts # <<>>
              /\ "response" \in Kinds(sent[i]) /\ i > 1 =>
                   Kinds(sent[i - 1]) = {"call"} /\ Names(sent[i - 1]) = Names(sent[i])
              /\ "call" \in Kinds(sent[i]) => Kinds(sent[i + 1]) = {"response"}
              /\ "call" \in Kinds(sent[i]) => \E r \in made : AsMade(sent[i].parts, r)
  <2>1. PICK t \in 1..n : t = lo + i - 1 /\ t <= hi /\ (t = hi <=> i = m)
    <3>1. lo + i - 1 \in 1..n /\ lo + i - 1 <= hi /\ (lo + i - 1 = hi <=> i = m)
      BY <1>7, <1>8
    <3> QED
      BY <3>1
  <2>2. sent[i] = turns[t]
    BY <1>9, <2>1
  <2>3. SettledAt(turns, t)
    BY <1>1 DEF Settled
  <2>4. CASE PlainTurn(turns[t])
    <3>1. turns[t] \in GoogleTurns
      BY <1>1, LenProperties, ElementOfSeq
    <3> QED
      BY <2>2, <2>4, <3>1, PlainKinds
  <2>5. CASE Pair(turns[t], turns[t + 1])
    <3>1. /\ Kinds(turns[t]) = {"call"} /\ Kinds(turns[t + 1]) = {"response"}
          /\ turns[t].parts # <<>> /\ turns[t].role = "model"
          /\ \E r \in made : AsMade(turns[t].parts, r)
      BY <2>5, PairKinds
    <3>2. i # m
      BY <1>7, <2>1, <3>1
    <3>3. i + 1 \in 1..m /\ lo + (i + 1) - 1 = t + 1
      <4>1. i \in Int /\ m \in Int /\ lo \in Int /\ 1 <= i /\ i <= m /\ t = lo + i - 1
        BY <1>7, <1>8, <2>1
      <4>2. i + 1 \in 1..m
        BY <3>2, <4>1
      <4>3. lo + (i + 1) - 1 = t + 1
        BY <4>1
      <4> QED
        BY <4>2, <4>3
    <3>4. sent[i + 1] = turns[t + 1]
      BY <1>9, <3>3
    <3> QED
      BY <2>2, <3>1, <3>4
  <2>6. CASE t > 1 /\ Pair(turns[t - 1], turns[t])
    <3>1. /\ Kinds(turns[t - 1]) = {"call"} /\ Kinds(turns[t]) = {"response"}
          /\ Names(turns[t - 1]) = Names(turns[t]) /\ turns[t].parts # <<>>
      BY <2>6, PairKinds
    <3>2. i > 1 => sent[i - 1] = turns[t - 1]
      <4>1. SUFFICES ASSUME i > 1
                     PROVE  sent[i - 1] = turns[t - 1]
        OBVIOUS
      <4>2. i - 1 \in 1..m /\ lo + (i - 1) - 1 = t - 1
        BY <1>7, <2>1, <4>1
      <4> QED
        BY <1>9, <4>2
    <3> QED
      BY <2>2, <3>1, <3>2
  <2> QED
    BY <2>3, <2>4, <2>5, <2>6 DEF SettledAt
<1>13. WellFormed(sent)
  BY <1>9, <1>10, <1>11, <1>12 DEF WellFormed
<1>14. CallsKnown(sent)
  BY <1>10, <1>12 DEF CallsKnown
<1> QED
  BY <1>9, <1>13, <1>14

LEMMA GoogleContentsSound ==
  ASSUME HistoryInv, GoogleContents # <<>>
  PROVE  WellFormed(GoogleContents) /\ CallsKnown(GoogleContents)
<1>1. PICK turns \in Seq(GoogleTurns) :
        turns = FoldLeftDomain(AddGoogleTurn, <<>>, history) /\ Settled(turns)
  BY ContentsSettled
<1>2. GoogleContents = Trimmed(turns)
  BY <1>1, Zenon DEF GoogleContents
<1> QED
  BY <1>1, <1>2, TrimmedWellFormed

-----------------------------------------------------------------------------
(* The context for pi-ai                                                   *)

PiMessages ==
  [role : {"user", "assistant", "toolResult"}, id : CallIds, name : Texts \cup {"tool"},
   calls : Seq(SentParts)]

(* The calls of message j of s, as NameById gathers them. *)
CallOf(call, s, n) == \E j \in 1..n : \E d \in DOMAIN s[j].calls : call = s[j].calls[d]

Gathered(calls, s, n) ==
  /\ \A c \in DOMAIN calls : CallOf(calls[c], s, n)
  /\ \A j \in 1..n : \A d \in DOMAIN s[j].calls : \E c \in DOMAIN calls : calls[c] = s[j].calls[d]

LEMMA GatheredMore ==
  ASSUME NEW n \in Nat, NEW m \in Nat, n = m + 1, NEW s, NEW calls \in Seq(ToolCalls),
         NEW more \in Seq(ToolCalls), more = s[n].calls, Gathered(calls, s, m)
  PROVE  Gathered(calls \o more, s, n)
<1>1. PICK l \in Nat, k \in Nat : l = Len(calls) /\ k = Len(more)
  BY LenProperties
<1>2. PICK all \in Seq(ToolCalls) :
        /\ all = calls \o more /\ Len(all) = l + k
        /\ \A i \in 1..(l + k) : all[i] = IF i <= l THEN calls[i] ELSE more[i - l]
  <2>1. /\ calls \o more \in Seq(ToolCalls) /\ Len(calls \o more) = Len(calls) + Len(more)
        /\ \A i \in 1..(Len(calls) + Len(more)) :
             (calls \o more)[i] = IF i <= Len(calls) THEN calls[i] ELSE more[i - Len(calls)]
    BY ConcatProperties
  <2> QED
    BY <1>1, <2>1
<1>3. DOMAIN all = 1..(l + k) /\ DOMAIN calls = 1..l /\ DOMAIN more = 1..k
  BY <1>1, <1>2, LenProperties
<1>4. ASSUME NEW c \in 1..(l + k)
      PROVE  CallOf(all[c], s, n)
  <2>1. CASE c <= l
    <3>1. all[c] = calls[c] /\ c \in 1..l
      BY <1>2, <2>1
    <3>2. PICK j \in 1..m : \E d \in DOMAIN s[j].calls : calls[c] = s[j].calls[d]
      BY <1>3, <3>1 DEF Gathered, CallOf
    <3>3. j \in 1..n
      OBVIOUS
    <3> QED
      BY <3>1, <3>2, <3>3 DEF CallOf
  <2>2. CASE ~(c <= l)
    <3>1. all[c] = more[c - l] /\ c - l \in 1..k
      BY <1>2, <2>2
    <3>2. n \in 1..n
      OBVIOUS
    <3> QED
      BY <1>3, <3>1, <3>2 DEF CallOf
  <2> QED
    BY <2>1, <2>2
<1>5. ASSUME NEW j \in 1..n, NEW d \in DOMAIN s[j].calls
      PROVE  \E c \in 1..(l + k) : all[c] = s[j].calls[d]
  <2>1. CASE j = n
    <3>1. PICK c : c = l + d
      OBVIOUS
    <3>2. d \in 1..k
      BY <1>3, <2>1
    <3>3. c \in 1..(l + k) /\ ~(c <= l) /\ c - l = d
      BY <3>1, <3>2
    <3>4. all[c] = more[d]
      BY <1>2, <3>3
    <3> QED
      BY <2>1, <3>3, <3>4
  <2>2. CASE j # n
    <3>1. j \in 1..m
      BY <2>2
    <3>2. PICK c \in 1..l : calls[c] = s[j].calls[d]
      BY <1>3, <3>1 DEF Gathered
    <3>3. c \in 1..(l + k) /\ c <= l
      OBVIOUS
    <3> QED
      BY <1>2, <3>2, <3>3
  <2> QED
    BY <2>1, <2>2
<1>6. Gathered(all, s, n)
  <2>1. \A c \in DOMAIN all : CallOf(all[c], s, n)
    BY <1>3, <1>4
  <2>2. \A j \in 1..n : \A d \in DOMAIN s[j].calls : \E c \in DOMAIN all : all[c] = s[j].calls[d]
    BY <1>3, <1>5
  <2> QED
    BY <2>1, <2>2 DEF Gathered
<1> QED
  BY <1>2, <1>6

LEMMA AllGathered ==
  ASSUME NEW s \in Seq(Messages)
  PROVE  AllCalls(s) \in Seq(ToolCalls) /\ Gathered(AllCalls(s), s, Len(s))
<1>1. PICK n \in Nat : n = Len(s) /\ DOMAIN s = 1..n
  BY LenProperties
<1>2. PICK run \in [0..n -> Seq(ToolCalls)] : ConcatRun(run, s)
  BY <1>1, ConcatRuns
<1> DEFINE S == {k \in 0..n : Gathered(run[k], s, k)}
<1>3. Gathered(run[0], s, 0)
  <2>1. run[0] = <<>> /\ DOMAIN <<>> = {} /\ 1..0 = {}
    BY <1>2 DEF ConcatRun
  <2> QED
    BY <2>1 DEF Gathered
<1>4. ASSUME NEW k \in 1..n, Gathered(run[k - 1], s, k - 1)
      PROVE  Gathered(run[k], s, k)
  <2>1. PICK j \in Nat : j = k - 1 /\ k = j + 1
    OBVIOUS
  <2>2. j \in 0..n
    BY <2>1
  <2>3. PICK calls \in Seq(ToolCalls) : calls = run[j]
    BY <2>2
  <2>4. PICK more \in Seq(ToolCalls) : more = s[k].calls
    <3>1. s[k] \in Messages
      BY <1>1, ElementOfSeq, LenProperties
    <3> QED
      BY <3>1 DEF Messages
  <2>5. run[k] = calls \o more
    BY <1>1, <1>2, <2>1, <2>3, <2>4 DEF ConcatRun
  <2>6. Gathered(calls, s, j)
    BY <1>4, <2>1, <2>3
  <2> QED
    <3>1. k \in Nat
      OBVIOUS
    <3>2. Gathered(calls \o more, s, k)
      BY <2>1, <2>4, <2>6, <3>1, GatheredMore, Zenon
    <3> QED
      BY <2>5, <3>2
<1>5. \A k \in 0..n : k \in S
  <2>1. 0 \in S
    BY <1>3
  <2>2. ASSUME NEW k \in 1..n, k - 1 \in S
        PROVE  k \in S
    <3>1. k \in 0..n /\ Gathered(run[k - 1], s, k - 1)
      BY <2>2
    <3> QED
      BY <1>4, <3>1
  <2> HIDE DEF S
  <2> QED
    BY <2>1, <2>2, UpTo
<1>6. run[n] = AllCalls(s) /\ run[n] \in Seq(ToolCalls)
  BY <1>1, <1>2 DEF ConcatRun
<1> QED
  BY <1>1, <1>5, <1>6

(* The name found for an id is that of some call before. *)
LEMMA NameFound ==
  ASSUME HistoryInv, NEW k \in DOMAIN history, NEW id
  PROVE  LET calls == AllCalls(SubSeq(history, 1, k))
         IN  /\ NameById(id, k) \in Texts
             /\ (\E c \in DOMAIN calls : calls[c].id = id) =>
                  \E c \in DOMAIN calls : NameById(id, k) = calls[c].name
<1>1. PICK s \in Seq(Messages) : s = SubSeq(history, 1, k)
  <2>1. \A i \in 1..k : history[i] \in Messages
    <3>1. k \in 1..Len(history) /\ Len(history) \in Nat /\ history \in Seq(Messages)
      BY LenProperties DEF HistoryInv
    <3>2. \A i \in 1..k : i \in 1..Len(history)
      BY <3>1
    <3> QED
      BY <3>1, <3>2, ElementOfSeq
  <2>2. k \in Int /\ 1 \in Int
    BY LenProperties DEF HistoryInv
  <2> QED
    BY <2>1, <2>2, SubSeqProperties
<1>2. PICK calls \in Seq(ToolCalls) : calls = AllCalls(s)
  BY AllGathered
<1>3. PICK n \in Nat : DOMAIN calls = 1..n
  BY LenProperties
<1>4. PICK last : last = {c \in 1..n : calls[c].id = id}
  OBVIOUS
<1>5. NameById(id, k) = IF last = {} THEN Empty ELSE calls[Max(last)].name
  BY <1>1, <1>2, <1>3, <1>4, Zenon DEF NameById, AllCalls
<1>6. CASE last = {}
  BY <1>1, <1>2, <1>3, <1>4, <1>5, <1>6, TextFacts
<1>7. CASE last # {}
  <2>1. Max(last) \in last /\ last \subseteq 1..n
    <3>1. last \subseteq 1..n
      BY <1>4
    <3> QED
      BY <1>7, <3>1, GreatestIndex
  <2>2. PICK c \in 1..n : c = Max(last)
    BY <2>1
  <2>3. calls[c] \in ToolCalls
    BY <1>3, LenProperties, ElementOfSeq
  <2>4. NameById(id, k) = calls[c].name
    BY <1>5, <1>7, <2>2
  <2> QED
    BY <1>1, <1>2, <1>3, <2>3, <2>4 DEF ToolCalls
<1> QED
  BY <1>6, <1>7

PiEntry(role, id, calls, name) == [role |-> role, id |-> id, calls |-> calls, name |-> name]

LEMMA PiEntryTyped ==
  ASSUME NEW role \in {"user", "assistant", "toolResult"}, NEW id \in CallIds,
         NEW calls \in Seq(SentParts), NEW name \in Texts \cup {"tool"}
  PROVE  /\ PiEntry(role, id, calls, name) \in PiMessages
         /\ PiEntry(role, id, calls, name).role = role
         /\ PiEntry(role, id, calls, name).calls = calls
         /\ PiEntry(role, id, calls, name).name = name
  BY DEF PiEntry, PiMessages

ResultName(k) ==
  OrElse(OrElse(NameById(history[k].id, k), history[k].name),
         OrElse(DecodedName(history[k].id), "tool"))

LEMMA ResultEntry ==
  ASSUME NEW msgs, NEW i, history[i].role = "tool"
  PROVE  AddPiMessage(msgs, i) =
           IF history[i].text = Empty THEN msgs
           ELSE Append(msgs, PiEntry("toolResult", history[i].id, <<>>, ResultName(i)))
  BY Zenon DEF AddPiMessage, PiEntry, ResultName

LEMMA TalkEntry ==
  ASSUME NEW msgs, NEW i, history[i].role \in {"user", "assistant"}
  PROVE  AddPiMessage(msgs, i) =
           Append(msgs, PiEntry(history[i].role, NoId, CallParts(history[i].calls), Empty))
  BY DEF AddPiMessage, PiEntry, CallParts

LEMMA SystemEntry ==
  ASSUME NEW msgs, NEW i, history[i].role = "system"
  PROVE  AddPiMessage(msgs, i) = msgs
  BY DEF AddPiMessage

LEMMA ResultNameTyped ==
  ASSUME HistoryInv, NEW k \in DOMAIN history
  PROVE  ResultName(k) \in Texts \cup {"tool"}
<1>1. NameById(history[k].id, k) \in Texts
  BY NameFound
<1>2. history[k] \in Messages
  BY LenProperties, ElementOfSeq DEF HistoryInv
<1>3. history[k].name \in Texts /\ history[k].id.name \in Texts
  BY <1>2 DEF Messages, CallIds
<1> QED
  BY <1>1, <1>3 DEF ResultName, OrElse, DecodedName

LEMMA PiMessagesStay ==
  ASSUME HistoryInv, NEW msgs \in Seq(PiMessages), NEW i \in DOMAIN history
  PROVE  AddPiMessage(msgs, i) \in Seq(PiMessages)
<1>1. history[i] \in Messages
  BY ElementOfSeq, LenProperties DEF HistoryInv
<1>2. /\ history[i].role \in {"system", "user", "assistant", "tool"}
      /\ history[i].calls \in Seq(ToolCalls) /\ history[i].id \in CallIds
  BY <1>1 DEF Messages
<1>3. CASE history[i].role = "tool"
  <2>1. <<>> \in Seq(SentParts)
    OBVIOUS
  <2>2. PiEntry("toolResult", history[i].id, <<>>, ResultName(i)) \in PiMessages
    BY <1>2, <2>1, ResultNameTyped, PiEntryTyped
  <2>3. Append(msgs, PiEntry("toolResult", history[i].id, <<>>, ResultName(i))) \in Seq(PiMessages)
    BY <2>2, AppendProperties
  <2> QED
    BY <1>3, <2>3, ResultEntry
<1>4. CASE history[i].role \in {"user", "assistant"}
  <2>1. CallParts(history[i].calls) \in Seq(SentParts)
    BY <1>2, CallPartsTyped
  <2>2. NoId \in CallIds /\ Empty \in Texts
    BY TextFacts DEF NoId, CallIds
  <2>3. PiEntry(history[i].role, NoId, CallParts(history[i].calls), Empty) \in PiMessages
    BY <1>4, <2>1, <2>2, PiEntryTyped
  <2>4. Append(msgs, PiEntry(history[i].role, NoId, CallParts(history[i].calls), Empty))
          \in Seq(PiMessages)
    BY <2>3, AppendProperties
  <2> QED
    BY <1>4, <2>4, TalkEntry
<1>5. CASE history[i].role = "system"
  BY <1>5, SystemEntry
<1> QED
  BY <1>2, <1>3, <1>4, <1>5

PiRun(run, n) ==
  /\ run[0] = <<>> /\ run[n] = FoldLeftDomain(AddPiMessage, <<>>, history)
  /\ \A k \in 1..n : run[k] = AddPiMessage(run[k - 1], k)

LEMMA PiRuns ==
  ASSUME HistoryInv
  PROVE  \E run \in [0..Len(history) -> Seq(PiMessages)] : PiRun(run, Len(history))
<1> DEFINE D == Seq(PiMessages)
           s == [i \in DOMAIN history |-> i]
           op(x, k) == AddPiMessage(x, s[k])
<1>0. PICK n \in Nat : n = Len(history) /\ DOMAIN history = 1..n
  BY LenProperties DEF HistoryInv
<1> DEFINE g == [y \in D \X (1..n) |-> op(y[1], y[2])]
           Folded(f) == [u \in SUBSET (1..n) |->
                           IF u = {} THEN <<>> ELSE op(f[u \ {Max(u)}], Max(u))]
           F == CHOOSE f : f = Folded(f)
<1>s. DOMAIN s = 1..n /\ \A k \in 1..n : s[k] = k
  BY <1>0
<1>1. FoldLeftDomain(AddPiMessage, <<>>, history) = F[1..n]
  <2> HIDE DEF s
  <2> QED
    BY <1>s, Zenon DEF FoldLeftDomain, FoldLeft, MapThenFoldSet, s
<1>2. <<>> \in D
  OBVIOUS
<1>3. \A x \in D, k \in 1..n : op(x, k) \in D
  BY <1>0, <1>s, PiMessagesStay
<1>op. \A x, k : k \in 1..n => op(x, k) = AddPiMessage(x, k)
  BY <1>s
<1> HIDE DEF D, op, s
<1>4. g \in [D \X (1..n) -> D] /\ \A x \in D, k \in 1..n : g[<<x, k>>] = op(x, k)
  BY <1>3
<1> HIDE DEF g
<1>5. PICK f \in [SUBSET (1..n) -> D] : Folding(f, n, <<>>, g)
  BY <1>2, <1>4, FoldExists, Zenon
<1>6. \A u \in SUBSET (1..n) : u # {} => Max(u) \in 1..n /\ u \ {Max(u)} \in SUBSET (1..n)
  BY GreatestIndex
<1>7. f = Folded(f)
  <2>1. ASSUME NEW u \in SUBSET (1..n), u # {}
        PROVE  f[u] = op(f[u \ {Max(u)}], Max(u))
    <3>1. f[u \ {Max(u)}] \in D
      BY <1>6, <2>1
    <3> QED
      BY <1>4, <1>5, <1>6, <2>1, <3>1 DEF Folding
  <2> QED
    BY <1>5, <2>1 DEF Folding
<1>8. F = Folded(F)
  <2> HIDE DEF Folded
  <2> QED
    BY <1>7, Zenon
<1> HIDE DEF F
<1>9. FoldingIn(F, n, D, <<>>, g)
  BY <1>4, <1>6, <1>8 DEF FoldingIn
<1>10. PICK run \in [0..n -> D] : RunOf(run, F, n, <<>>, g)
  BY <1>2, <1>4, <1>9, FoldRuns, Zenon
<1>11. ASSUME NEW k \in 1..n
       PROVE  run[k] = AddPiMessage(run[k - 1], k)
  <2>1. k - 1 \in 0..n
    OBVIOUS
  <2>2. run[k - 1] \in D
    BY <2>1
  <2> QED
    BY <1>4, <1>10, <1>op, <2>2 DEF RunOf
<1>12. PiRun(run, n)
  BY <1>1, <1>10, <1>11 DEF RunOf, PiRun
<1>13. run \in [0..n -> Seq(PiMessages)]
  BY DEF D
<1> QED
  BY <1>0, <1>12, <1>13

-----------------------------------------------------------------------------
(* Calls come back, and results carry the name of a call before them.      *)

NamedBefore(msgs, n, name) ==
  \E j \in 1..n : \E c \in DOMAIN msgs[j].calls : msgs[j].calls[c].name = name

PiSound(msgs) ==
  \A i \in DOMAIN msgs :
    /\ msgs[i].calls # <<>> => \E m \in made : AsMade(msgs[i].calls, m)
    /\ msgs[i].role = "toolResult" => NamedBefore(msgs, i - 1, msgs[i].name)

Sent(msgs, k) ==
  \A j \in 1..k : HasCalls(j) => \E e \in DOMAIN msgs : msgs[e].calls = CallParts(history[j].calls)

LEMMA PiSoundMore ==
  ASSUME NEW msgs \in Seq(PiMessages), PiSound(msgs), NEW entry \in PiMessages,
         entry.calls # <<>> => \E m \in made : AsMade(entry.calls, m),
         entry.role = "toolResult" => NamedBefore(msgs, Len(msgs), entry.name)
  PROVE  PiSound(Append(msgs, entry))
<1>1. PICK n \in Nat, m \in Nat : n = Len(msgs) /\ m = n + 1
  BY LenProperties
<1>2. PICK more \in Seq(PiMessages) : more = Append(msgs, entry) /\ Longer(more, msgs, n, entry)
  BY <1>1, OneLonger
<1>3. /\ DOMAIN more = 1..m /\ more[m] = entry /\ \A t \in 1..n : more[t] = msgs[t]
      /\ DOMAIN msgs = 1..n
  BY <1>1, <1>2, LenProperties DEF Longer
<1>4. ASSUME NEW i \in 0..n, NEW name, NamedBefore(msgs, i, name)
      PROVE  NamedBefore(more, i, name)
  <2>1. \A j \in 1..i : more[j] = msgs[j]
    <3>1. \A j \in 1..i : j \in 1..n
      OBVIOUS
    <3> QED
      BY <1>3, <3>1
  <2> QED
    BY <1>4, <2>1 DEF NamedBefore
<1>5. ASSUME NEW i \in 1..m
      PROVE  /\ more[i].calls # <<>> => \E r \in made : AsMade(more[i].calls, r)
             /\ more[i].role = "toolResult" => NamedBefore(more, i - 1, more[i].name)
  <2>1. CASE i = m
    <3>1. more[i] = entry /\ i - 1 = n /\ n \in 0..n
      BY <1>1, <1>3, <2>1
    <3>2. entry.role = "toolResult" => NamedBefore(more, n, entry.name)
      BY <1>1, <1>4, <3>1
    <3> QED
      BY <3>1, <3>2
  <2>2. CASE i # m
    <3>1. i \in 1..n /\ i - 1 \in 0..n
      BY <1>1, <2>2
    <3>2. more[i] = msgs[i]
      BY <1>3, <3>1
    <3>3. /\ msgs[i].calls # <<>> => \E r \in made : AsMade(msgs[i].calls, r)
          /\ msgs[i].role = "toolResult" => NamedBefore(msgs, i - 1, msgs[i].name)
      BY <1>3, <3>1 DEF PiSound
    <3> QED
      BY <1>4, <3>1, <3>2, <3>3
  <2> QED
    BY <2>1, <2>2
<1>6. PiSound(more)
  BY <1>3, <1>5 DEF PiSound
<1> QED
  BY <1>2, <1>6

LEMMA SentMore ==
  ASSUME NEW msgs \in Seq(PiMessages), NEW entry \in PiMessages, NEW k \in Nat \ {0},
         Sent(msgs, k - 1), HasCalls(k) => entry.calls = CallParts(history[k].calls)
  PROVE  Sent(Append(msgs, entry), k)
<1>1. PICK n \in Nat, m \in Nat : n = Len(msgs) /\ m = n + 1
  BY LenProperties
<1>2. PICK more \in Seq(PiMessages) : more = Append(msgs, entry) /\ Longer(more, msgs, n, entry)
  BY <1>1, OneLonger
<1>3. /\ DOMAIN more = 1..m /\ m \in 1..m /\ more[m] = entry /\ \A t \in 1..n : more[t] = msgs[t]
      /\ DOMAIN msgs = 1..n /\ \A t \in 1..n : t \in 1..m
  BY <1>1, <1>2, LenProperties DEF Longer
<1>4. ASSUME NEW j \in 1..k, HasCalls(j)
      PROVE  \E e \in DOMAIN more : more[e].calls = CallParts(history[j].calls)
  <2>1. CASE j = k
    BY <1>3, <1>4, <2>1
  <2>2. CASE j # k
    <3>1. j \in 1..(k - 1)
      BY <2>2
    <3>2. PICK e \in DOMAIN msgs : msgs[e].calls = CallParts(history[j].calls)
      BY <1>4, <3>1 DEF Sent
    <3> QED
      BY <1>3, <3>2
  <2> QED
    BY <2>1, <2>2
<1> QED
  BY <1>2, <1>4 DEF Sent

(* The name of a result is that of a call among the messages before. *)
LEMMA ResultNamed ==
  ASSUME HistoryInv, NEW k \in DOMAIN history, history[k].role = "tool",
         NEW msgs \in Seq(PiMessages), Sent(msgs, k - 1)
  PROVE  NamedBefore(msgs, Len(msgs), ResultName(k))
<1>1. PICK n \in Nat : n = Len(history) /\ DOMAIN history = 1..n /\ history \in Seq(Messages)
  BY LenProperties DEF HistoryInv
<1>2. PICK s \in Seq(Messages) : s = SubSeq(history, 1, k) /\ Len(s) = k /\ \A i \in 1..k : s[i] = history[i]
  <2>1. \A i \in 1..k : history[i] \in Messages
    <3>1. \A i \in 1..k : i \in 1..n
      BY <1>1
    <3> QED
      BY <1>1, <3>1, ElementOfSeq
  <2>2. k \in Int /\ 1 \in Int /\ 1 <= k
    BY <1>1
  <2>3. /\ SubSeq(history, 1, k) \in Seq(Messages)
        /\ Len(SubSeq(history, 1, k)) = IF 1 <= k THEN k - 1 + 1 ELSE 0
        /\ \A i \in 1..k - 1 + 1 : SubSeq(history, 1, k)[i] = history[1 + i - 1]
    BY <2>1, <2>2, SubSeqProperties
  <2>4. k - 1 + 1 = k /\ \A i \in 1..k : 1 + i - 1 = i
    BY <2>2
  <2>5. PICK part \in Seq(Messages) : part = SubSeq(history, 1, k)
    BY <2>3
  <2>6. Len(part) = k
    BY <2>2, <2>3, <2>4, <2>5
  <2>7. \A i \in 1..k : part[i] = history[i]
    BY <2>3, <2>4, <2>5
  <2> QED
    BY <2>5, <2>6, <2>7
<1>3. PICK calls \in Seq(ToolCalls) : calls = AllCalls(s) /\ Gathered(calls, s, k)
  BY <1>2, AllGathered
<1>4. PICK j \in DOMAIN history : j < k /\ Results(j, k)
  BY ResultOfSome
<1>5. PICK d \in DOMAIN history[j].calls : history[j].calls[d].id = history[k].id
  <2>1. PICK l \in Nat : /\ l = Len(history[j].calls) /\ DOMAIN history[j].calls = 1..l
                         /\ \A c \in 1..l : history[j + c].id = history[j].calls[c].id
    BY <1>4, CallsFollowed, LenProperties DEF Results
  <2>2. k - j \in 1..l /\ j + (k - j) = k
    BY <1>1, <1>4, <2>1 DEF Results
  <2> QED
    BY <2>1, <2>2
<1>6. \E c \in DOMAIN calls : calls[c].id = history[k].id
  <2>1. j \in 1..k /\ s[j] = history[j]
    BY <1>1, <1>2, <1>4
  <2>2. PICK c \in DOMAIN calls : calls[c] = s[j].calls[d]
    BY <1>3, <1>5, <2>1 DEF Gathered
  <2> QED
    BY <1>5, <2>1, <2>2
<1>7. PICK c \in DOMAIN calls : NameById(history[k].id, k) = calls[c].name
  BY <1>2, <1>3, <1>6, NameFound
<1>8. PICK i \in 1..k : \E e \in DOMAIN s[i].calls : calls[c] = s[i].calls[e]
  BY <1>3 DEF Gathered, CallOf
<1>9. PICK e \in DOMAIN history[i].calls : calls[c] = history[i].calls[e]
  BY <1>2, <1>8
<1>10. i \in DOMAIN history /\ HasCalls(i)
  <2>1. i \in DOMAIN history
    BY <1>1
  <2>2. DOMAIN <<>> = {}
    OBVIOUS
  <2> QED
    BY <1>9, <2>1, <2>2 DEF HasCalls
<1>11. PICK l \in Nat : /\ l = Len(history[i].calls) /\ DOMAIN history[i].calls = 1..l
                        /\ history[i].calls \in Seq(ToolCalls) /\ history[i].role = "assistant"
                        /\ \A x \in 1..l : history[i].calls[x].name # Empty
  BY <1>10, CallsFollowed, LenProperties
<1>12. i \in 1..(k - 1)
  <2>1. i # k
    BY <1>11
  <2> QED
    BY <1>1, <2>1
<1>13. PICK x \in DOMAIN msgs : msgs[x].calls = CallParts(history[i].calls)
  BY <1>10, <1>12 DEF Sent
<1>14. ResultName(k) = history[i].calls[e].name
  <2>1. NameById(history[k].id, k) = history[i].calls[e].name
    BY <1>7, <1>9
  <2>2. NameById(history[k].id, k) # Empty
    BY <1>11, <2>1
  <2> QED
    BY <2>1, <2>2, Zenon DEF ResultName, OrElse
<1>15. e \in DOMAIN msgs[x].calls /\ msgs[x].calls[e].name = history[i].calls[e].name
  <2>1. /\ CallParts(history[i].calls) \in Seq(SentParts) /\ Len(CallParts(history[i].calls)) = l
        /\ CallParts(history[i].calls)[e].name = history[i].calls[e].name
    BY <1>11, CallPartsTyped
  <2>2. DOMAIN CallParts(history[i].calls) = 1..l
    BY <2>1, LenProperties
  <2> QED
    BY <1>11, <1>13, <2>1, <2>2
<1>16. x \in 1..Len(msgs)
  BY LenProperties
<1> QED
  BY <1>14, <1>15, <1>16 DEF NamedBefore

LEMMA PiStep ==
  ASSUME HistoryInv, NEW k \in DOMAIN history, NEW msgs \in Seq(PiMessages),
         PiSound(msgs), Sent(msgs, k - 1)
  PROVE  PiSound(AddPiMessage(msgs, k)) /\ Sent(AddPiMessage(msgs, k), k)
<1>1. /\ k \in Nat \ {0} /\ history[k] \in Messages
  BY LenProperties, ElementOfSeq DEF HistoryInv
<1>2. PICK calls \in Seq(ToolCalls), id \in CallIds :
        /\ calls = history[k].calls /\ id = history[k].id
        /\ history[k].role \in {"system", "user", "assistant", "tool"}
  BY <1>1 DEF Messages
<1>3. HasCalls(k) => history[k].role = "assistant"
  BY CallsFollowed
<1>4. ASSUME ~HasCalls(k)
      PROVE  Sent(msgs, k)
  <2>1. ASSUME NEW j \in 1..k, HasCalls(j)
        PROVE  \E e \in DOMAIN msgs : msgs[e].calls = CallParts(history[j].calls)
    <3>1. j # k
      BY <1>4, <2>1
    <3>2. j \in 1..(k - 1)
      BY <1>1, <3>1
    <3> QED
      BY <2>1, <3>2 DEF Sent
  <2> QED
    BY <2>1 DEF Sent
<1>5. PICK next : next = AddPiMessage(msgs, k)
  OBVIOUS
<1>6. CASE history[k].role = "tool"
  <2>1. CASE history[k].text = Empty
    BY <1>3, <1>4, <1>5, <1>6, <2>1, ResultEntry
  <2>2. CASE history[k].text # Empty
    <3>1. <<>> \in Seq(SentParts)
      OBVIOUS
    <3>2. PICK entry \in PiMessages :
            /\ entry = PiEntry("toolResult", id, <<>>, ResultName(k))
            /\ entry.calls = <<>> /\ entry.name = ResultName(k)
      <4>1. PICK none \in Seq(SentParts) : none = <<>>
        BY <3>1
      <4>2. PICK name \in Texts \cup {"tool"} : name = ResultName(k)
        BY ResultNameTyped
      <4>3. /\ PiEntry("toolResult", id, none, name) \in PiMessages
            /\ PiEntry("toolResult", id, none, name).calls = none
            /\ PiEntry("toolResult", id, none, name).name = name
        BY PiEntryTyped
      <4> QED
        BY <4>1, <4>2, <4>3
    <3>3. next = Append(msgs, entry)
      BY <1>2, <1>5, <1>6, <2>2, <3>2, ResultEntry
    <3>4. NamedBefore(msgs, Len(msgs), entry.name)
      BY <1>6, <3>2, ResultNamed
    <3>5. PiSound(next)
      BY <3>2, <3>3, <3>4, PiSoundMore
    <3>6. Sent(next, k)
      BY <1>1, <1>3, <1>6, <3>3, SentMore
    <3> QED
      BY <1>5, <3>5, <3>6
  <2> QED
    BY <2>1, <2>2
<1>7. CASE history[k].role \in {"user", "assistant"}
  <2>1. CallParts(calls) \in Seq(SentParts) /\ Len(CallParts(calls)) = Len(calls)
    BY CallPartsTyped
  <2>2. NoId \in CallIds /\ Empty \in Texts
    BY TextFacts DEF NoId, CallIds
  <2>3. PICK entry \in PiMessages :
          /\ entry = PiEntry(history[k].role, NoId, CallParts(calls), Empty)
          /\ entry.calls = CallParts(calls) /\ entry.role # "toolResult"
    BY <1>7, <2>1, <2>2, PiEntryTyped
  <2>4. next = Append(msgs, entry)
    BY <1>2, <1>5, <1>7, <2>3, TalkEntry
  <2>5. entry.calls # <<>> => \E m \in made : AsMade(entry.calls, m)
    <3>1. SUFFICES ASSUME entry.calls # <<>>
                   PROVE  \E m \in made : AsMade(entry.calls, m)
      OBVIOUS
    <3>2. calls # <<>>
      BY <2>1, <2>3, <3>1, EmptySeq
    <3>3. KnownCalls(calls)
      BY <1>2, <3>2 DEF HistoryInv
    <3> QED
      BY <2>3, <3>3, Zenon DEF KnownCalls
  <2>6. PiSound(next)
    BY <2>3, <2>4, <2>5, PiSoundMore
  <2>7. Sent(next, k)
    BY <1>1, <1>2, <2>3, <2>4, SentMore
  <2> QED
    BY <1>5, <2>6, <2>7
<1>8. CASE history[k].role = "system"
  BY <1>3, <1>4, <1>8, SystemEntry
<1> QED
  BY <1>2, <1>6, <1>7, <1>8

LEMMA PiContextSound ==
  ASSUME HistoryInv
  PROVE  PiSound(PiContext)
<1>1. PICK n \in Nat : n = Len(history) /\ DOMAIN history = 1..n
  BY LenProperties DEF HistoryInv
<1>2. PICK run \in [0..n -> Seq(PiMessages)] : PiRun(run, n)
  BY <1>1, PiRuns
<1> DEFINE S == {k \in 0..n : PiSound(run[k]) /\ Sent(run[k], k)}
<1>3. PiSound(run[0]) /\ Sent(run[0], 0)
  <2>1. run[0] = <<>> /\ DOMAIN <<>> = {} /\ 1..0 = {}
    BY <1>2 DEF PiRun
  <2> QED
    BY <2>1 DEF PiSound, Sent
<1>4. ASSUME NEW k \in 1..n, PiSound(run[k - 1]), Sent(run[k - 1], k - 1)
      PROVE  PiSound(run[k]) /\ Sent(run[k], k)
  <2>1. run[k] = AddPiMessage(run[k - 1], k)
    BY <1>2 DEF PiRun
  <2>2. k - 1 \in 0..n
    OBVIOUS
  <2>3. PICK msgs \in Seq(PiMessages) : msgs = run[k - 1]
    BY <2>2
  <2>4. k \in DOMAIN history
    BY <1>1
  <2> QED
    BY <1>4, <2>1, <2>3, <2>4, PiStep
<1>5. \A k \in 0..n : k \in S
  <2>1. 0 \in S
    BY <1>3
  <2>2. ASSUME NEW k \in 1..n, k - 1 \in S
        PROVE  k \in S
    <3>1. k \in 0..n /\ PiSound(run[k - 1]) /\ Sent(run[k - 1], k - 1)
      BY <2>2
    <3> QED
      BY <1>4, <3>1
  <2> HIDE DEF S
  <2> QED
    BY <2>1, <2>2, UpTo
<1>6. run[n] = PiContext
  BY <1>2 DEF PiRun, PiContext
<1> QED
  BY <1>5, <1>6

-----------------------------------------------------------------------------
(* The inductive invariant                                                 *)

DialogInv ==
  /\ DialogTypeOK
  /\ answer \in StreamedAnswers /\ StreamSound(answer)
  /\ HistoryInv
  /\ phase = "google" => WellFormed(request.contents) /\ CallsKnown(request.contents)
  /\ phase = "pi" => PiSound(request.contents)

LEMMA NothingStreamed == NoAnswer \in StreamedAnswers /\ StreamSound(NoAnswer)
<1>1. <<>> \in Seq(AnswerParts) /\ <<>> \in Seq(ContentItems) /\ <<>> \in Seq(SeenCalls)
      /\ Len(<<>>) = 0 /\ 1..0 = {}
  OBVIOUS
<1>2. NoAnswer \in StreamedAnswers
  BY <1>1 DEF NoAnswer, StreamedAnswers
<1>3. /\ FirstCalls(NoAnswer.parts) = <<>> /\ CallsIn(NoAnswer.content) = <<>>
      /\ NoAnswer.seen = <<>>
  BY FirstCallsEmpty, CallsInEmpty DEF NoAnswer
<1>4. StreamSound(NoAnswer)
  BY <1>1, <1>3 DEF StreamSound, SameCalls
<1> QED
  BY <1>2, <1>4

LEMMA OpensHistory ==
  ASSUME DialogInit
  PROVE  HistoryInv
<1>1. history \in Seq(Messages) /\ Orderly(history)
  BY DialogAssumption DEF DialogInit
<1>2. ASSUME NEW i \in DOMAIN history, history[i].calls # <<>>
      PROVE  KnownCalls(history[i].calls)
  <2>1. PICK calls \in Seq(ToolCalls) : calls = history[i].calls
    <3>1. history[i] \in Messages
      BY <1>1, ElementOfSeq, LenProperties
    <3> QED
      BY <3>1 DEF Messages
  <2>2. PICK m : m = [c \in DOMAIN calls |->
                        [name |-> calls[c].name, args |-> calls[c].args,
                         sigs |-> {OrElse(calls[c].sig, calls[c].id.sig)}]]
    OBVIOUS
  <2>3. m \in made
    BY <2>1, <2>2, Zenon DEF DialogInit
  <2>4. DOMAIN CallParts(calls) = DOMAIN m
    BY <2>2 DEF CallParts
  <2>5. ASSUME NEW c \in DOMAIN m
        PROVE  /\ CallParts(calls)[c].name = m[c].name
               /\ CallParts(calls)[c].args = m[c].args
               /\ CallParts(calls)[c].sig \in m[c].sigs
    <3>1. c \in DOMAIN calls
      BY <2>2
    <3>2. CallParts(calls)[c] = CallPart(calls[c])
      BY <3>1 DEF CallParts
    <3>3. m[c] = [name |-> calls[c].name, args |-> calls[c].args,
                  sigs |-> {OrElse(calls[c].sig, calls[c].id.sig)}]
      BY <2>2, <3>1
    <3>4. /\ CallPart(calls[c]).name = calls[c].name /\ CallPart(calls[c]).args = calls[c].args
          /\ CallPart(calls[c]).sig = OrElse(calls[c].sig, calls[c].id.sig)
      BY DEF CallPart, DecodedSig
    <3> QED
      BY <3>2, <3>3, <3>4
  <2>6. AsMade(CallParts(calls), m)
    BY <2>4, <2>5 DEF AsMade
  <2> QED
    BY <2>1, <2>3, <2>6 DEF KnownCalls
<1> QED
  BY <1>1, <1>2 DEF HistoryInv

LEMMA RolesKnown ==
  ASSUME HistoryInv
  PROVE  \A i \in DOMAIN history : history[i].role \in {"system", "user", "assistant", "tool"}
<1>1. \A i \in DOMAIN history : history[i] \in Messages
  BY ElementOfSeq, LenProperties DEF HistoryInv
<1> QED
  BY <1>1 DEF Messages

LEMMA DialogStarts ==
  ASSUME DialogInit
  PROVE  DialogInv
<1>1. HistoryInv
  BY OpensHistory
<1>2. answer = NoAnswer /\ phase = "client" /\ request = NoRequest
  BY DEF DialogInit
<1>3. answer \in StreamedAnswers /\ StreamSound(answer)
  BY <1>2, NothingStreamed
<1>4. DialogTypeOK
  BY <1>1, <1>2, RolesKnown DEF DialogTypeOK, NoRequest
<1> QED
  BY <1>1, <1>2, <1>3, <1>4 DEF DialogInv

LEMMA StreamGoesOn ==
  ASSUME DialogInv, NEW parts \in TurnParts, GoogleStreams(parts)
  PROVE  answer' \in StreamedAnswers /\ StreamSound(answer') /\ answer' # NoAnswer
<1>1. parts \in Seq(AnswerParts) /\ history \in Seq(Messages)
  BY DialogAssumption DEF DialogInv, HistoryInv
<1>2. PICK given \in Seq(AnswerParts) : given = answer.parts
  BY DEF DialogInv, StreamedAnswers
<1>3. PICK p \in AnswerParts : p = parts[Len(given) + 1]
  <2>1. Len(given) \in Nat /\ Len(parts) \in Nat /\ Len(given) < Len(parts)
    BY <1>1, <1>2, LenProperties DEF GoogleStreams
  <2>2. Len(given) + 1 \in 1..Len(parts)
    BY <2>1
  <2> QED
    BY <1>1, <2>2, ElementOfSeq
<1>4. answer' = StreamPart(answer, p)
  BY <1>2, <1>3 DEF GoogleStreams
<1>5. /\ StreamPart(answer, p) \in StreamedAnswers /\ StreamSound(StreamPart(answer, p))
      /\ StreamPart(answer, p).parts = Append(answer.parts, p)
  BY <1>1, StreamPartSound DEF DialogInv
<1>6. StreamPart(answer, p) # NoAnswer
  <2>1. Append(given, p) # <<>>
    BY AppendProperties, LenProperties, EmptySeq
  <2> QED
    BY <1>2, <1>5, <2>1 DEF NoAnswer
<1> QED
  BY <1>4, <1>5, <1>6

LEMMA DialogMoves ==
  ASSUME DialogInv, [DialogNext]_dialogVars
  PROVE  DialogInv'
<1>0. DialogTypeOK /\ HistoryInv /\ answer \in StreamedAnswers /\ StreamSound(answer)
  BY DEF DialogInv
<1>1. ASSUME NEW items \in UserItems, AskAgain(items)
      PROVE  DialogInv'
  <2>1. HistoryInv' /\ UNCHANGED <<phase, request, answer, made>> /\ phase = "client"
    BY <1>0, <1>1, AsksHistory DEF AskAgain
  <2>2. (\A i \in DOMAIN history : history[i].role \in {"system", "user", "assistant", "tool"})'
    BY <2>1, RolesKnown, PTL
  <2> QED
    BY <1>0, <2>1, <2>2 DEF DialogInv, DialogTypeOK
<1>2. CASE SendGoogle
  <2>1. HistoryInv' /\ UNCHANGED <<history, answer, made>> /\ phase = "client"
    BY <1>0, <1>2, KeptHistory DEF SendGoogle
  <2>2. CASE GoogleContents = <<>>
    <3>1. phase' = "over" /\ request' = request
      BY <1>2, <2>2 DEF SendGoogle
    <3> QED
      BY <1>0, <2>1, <3>1 DEF DialogInv, DialogTypeOK
  <2>3. CASE GoogleContents # <<>>
    <3>1. /\ phase' = "google" /\ request'.route = "google"
          /\ request'.contents = GoogleContents
      BY <1>2, <2>3 DEF SendGoogle
    <3>2. WellFormed(request'.contents) /\ CallsKnown(request'.contents)
      BY <1>0, <2>3, <3>1, GoogleContentsSound
    <3>3. (CallsKnown(request.contents))'
      BY <2>1, <3>2 DEF CallsKnown
    <3> QED
      BY <1>0, <2>1, <3>1, <3>2, <3>3 DEF DialogInv, DialogTypeOK
  <2> QED
    BY <2>2, <2>3
<1>3. CASE SendPi
  <2>1. HistoryInv' /\ UNCHANGED <<history, answer, made>> /\ phase = "client"
    BY <1>0, <1>3, KeptHistory DEF SendPi
  <2>2. /\ phase' = "pi" /\ request'.route = "pi" /\ request'.contents = PiContext
    BY <1>3 DEF SendPi
  <2>3. PiSound(request'.contents)
    BY <1>0, <2>2, PiContextSound
  <2>4. (PiSound(request.contents))'
    BY <2>1, <2>3 DEF PiSound
  <2> QED
    BY <1>0, <2>1, <2>2, <2>4 DEF DialogInv, DialogTypeOK
<1>4. CASE SendFailed
  <2>1. HistoryInv' /\ UNCHANGED <<history, request, made>> /\ phase' = "client" /\ answer' = NoAnswer
    BY <1>0, <1>4, KeptHistory DEF SendFailed
  <2>2. (answer \in StreamedAnswers)' /\ StreamSound(answer')
    BY <2>1, NothingStreamed
  <2> QED
    BY <1>0, <2>1, <2>2 DEF DialogInv, DialogTypeOK, StreamSound
<1>5. CASE StreamDone
  <2>1. HistoryInv' /\ UNCHANGED request /\ phase' = "client" /\ answer' = NoAnswer
    BY <1>0, <1>5, StreamedHistory DEF StreamDone
  <2>2. (answer \in StreamedAnswers)' /\ StreamSound(answer')
    BY <2>1, NothingStreamed
  <2>3. (\A i \in DOMAIN history : history[i].role \in {"system", "user", "assistant", "tool"})'
    BY <2>1, RolesKnown, PTL
  <2> QED
    BY <1>0, <2>1, <2>2, <2>3 DEF DialogInv, DialogTypeOK, StreamSound
<1>6. CASE PiAnswers
  <2>1. HistoryInv' /\ UNCHANGED <<request, answer>> /\ phase' = "client" /\ phase = "pi"
    BY <1>0, <1>6, PiHistory DEF PiAnswers
  <2>2. (\A i \in DOMAIN history : history[i].role \in {"system", "user", "assistant", "tool"})'
    BY <2>1, RolesKnown, PTL
  <2> QED
    BY <1>0, <2>1, <2>2 DEF DialogInv, DialogTypeOK
<1>7. ASSUME NEW parts \in TurnParts, GoogleStreams(parts)
      PROVE  DialogInv'
  <2>1. /\ HistoryInv' /\ UNCHANGED <<history, request, made>> /\ phase' = "streaming"
        /\ phase \in {"google", "streaming"}
    BY <1>0, <1>7, KeptHistory DEF GoogleStreams
  <2>2. (answer \in StreamedAnswers)' /\ StreamSound(answer') /\ answer' # NoAnswer
    BY <1>7, StreamGoesOn
  <2> QED
    BY <1>0, <2>1, <2>2 DEF DialogInv, DialogTypeOK, StreamSound
<1>8. ASSUME NEW parts \in TurnParts, NEW cut \in BOOLEAN, GoogleAnswers(parts, cut)
      PROVE  DialogInv'
  <2>1. HistoryInv' /\ UNCHANGED <<request, answer>> /\ phase' = "client" /\ phase = "google"
    BY <1>0, <1>8, AnswersHistory DEF GoogleAnswers
  <2>2. (\A i \in DOMAIN history : history[i].role \in {"system", "user", "assistant", "tool"})'
    BY <2>1, RolesKnown, PTL
  <2> QED
    BY <1>0, <2>1, <2>2 DEF DialogInv, DialogTypeOK
<1>9. CASE UNCHANGED dialogVars
  <2>1. UNCHANGED <<history, phase, request, answer, made>>
    BY <1>9 DEF dialogVars
  <2>2. HistoryInv'
    BY <1>0, <2>1, KeptHistory
  <2>3. (WellFormed(request.contents) <=> WellFormed(request'.contents))
        /\ (CallsKnown(request.contents) <=> (CallsKnown(request.contents))')
        /\ (PiSound(request.contents) <=> (PiSound(request.contents))')
    BY <2>1 DEF CallsKnown, PiSound
  <2> QED
    BY <1>0, <2>1, <2>2, <2>3 DEF DialogInv, DialogTypeOK, StreamSound
<1> QED
  BY <1>1, <1>2, <1>3, <1>4, <1>5, <1>6, <1>7, <1>8, <1>9 DEF DialogNext

(* The inductive invariant holds of every conversation: messages and       *)
(* stream as they must be, calls and results in order, and what is sent    *)
(* to a provider fit for it.                                               *)
THEOREM DialogKeeps == DialogSpec => []DialogInv
<1>1. DialogInit => DialogInv
  BY DialogStarts
<1>2. DialogInv /\ [DialogNext]_dialogVars => DialogInv'
  BY DialogMoves
<1> QED
  BY <1>1, <1>2, PTL DEF DialogSpec

(* A conversation is in one of its phases, its messages are of one of the  *)
(* four roles, and a stream is in progress while there is one.             *)
THEOREM DialogTypes == DialogSpec => []DialogTypeOK
<1>1. DialogInv => DialogTypeOK
  BY DEF DialogInv
<1> QED
  BY <1>1, DialogKeeps, PTL

(* Whatever the client began with, offered and kept, what Google is sent   *)
(* begins and ends with the user and has the results of calls in one turn  *)
(* after them (convertMessagesToGoogleFormat).                             *)
THEOREM ContentsAreWellFormed == DialogSpec => []ContentsWellFormed
<1>1. DialogInv => ContentsWellFormed
  BY DEF DialogInv, ContentsWellFormed, WellFormed
<1> QED
  BY <1>1, DialogKeeps, PTL

(* Every call a provider is sent is one some answer made, under its name   *)
(* and with its signature, with its arguments if that answer was whole and *)
(* with none if it was streamed, and every result has the name of a call   *)
(* before it, in conversations of any length (decodeToolCallId,            *)
(* toPiContext).                                                           *)
THEOREM CallsComeBackSigned == DialogSpec => []CallsReturnSigned
<1>1. DialogInv => CallsReturnSigned
  BY DEF DialogInv, CallsReturnSigned, CallsKnown, PiSound, NamedBefore
<1> QED
  BY <1>1, DialogKeeps, PTL

-----------------------------------------------------------------------------
(* A stream tells the client of the same calls                             *)

(* Of calls alone all are calls. *)
LEMMA CallsInAll ==
  ASSUME NEW E, NEW s \in Seq(E), \A i \in 1..Len(s) : s[i].kind = "call"
  PROVE  Len(CallsIn(s)) = Len(s) /\ \A i \in 1..Len(s) : CallsIn(s)[i] = s[i]
<1>1. PICK n \in Nat : n = Len(s) /\ DOMAIN s = 1..n
  BY LenProperties
<1>2. PICK run \in [0..n -> Seq(E)] : CallsRun(run, s)
  BY <1>1, CallsInRuns
<1> DEFINE Copied(k) == Len(run[k]) = k /\ \A i \in 1..k : run[k][i] = s[i]
           S == {k \in 0..n : Copied(k)}
<1>3. Copied(0)
  <2>1. run[0] = <<>> /\ Len(<<>>) = 0 /\ 1..0 = {}
    BY <1>2 DEF CallsRun
  <2> QED
    BY <2>1
<1>4. ASSUME NEW k \in 1..n, Copied(k - 1)
      PROVE  Copied(k)
  <2>1. PICK j \in Nat : j = k - 1 /\ k = j + 1
    OBVIOUS
  <2>2. j \in 0..n
    BY <2>1
  <2>3. PICK u \in Seq(E) : u = run[j] /\ Len(u) = j /\ \A i \in 1..j : u[i] = s[i]
    BY <1>4, <2>1, <2>2
  <2>4. s[k] \in E
    BY <1>1, ElementOfSeq
  <2>5. run[k] = Append(u, s[k])
    BY <1>1, <1>2, <2>1, <2>3 DEF CallsRun
  <2>6. Longer(run[k], u, j, s[k])
    BY <2>3, <2>4, <2>5, OneLonger
  <2>7. \A i \in 1..k : i \in 1..j \/ i = k
    BY <2>1
  <2> QED
    BY <2>1, <2>3, <2>6, <2>7 DEF Longer
<1>5. \A k \in 0..n : k \in S
  <2>1. 0 \in S
    BY <1>3
  <2>2. ASSUME NEW k \in 1..n, k - 1 \in S
        PROVE  k \in S
    <3>1. k \in 0..n /\ Copied(k - 1)
      BY <2>2
    <3> QED
      BY <1>4, <3>1
  <2> HIDE DEF S
  <2> QED
    BY <2>1, <2>2, UpTo
<1>6. run[n] = CallsIn(s) /\ Copied(n)
  BY <1>1, <1>2, <1>5 DEF CallsRun
<1> QED
  BY <1>1, <1>6

LEMMA SoundAgrees ==
  ASSUME answer \in StreamedAnswers, StreamSound(answer)
  PROVE  StreamAgrees
<1>1. PICK parts \in Seq(AnswerParts), content \in Seq(ContentItems), seen \in Seq(SeenCalls) :
        parts = answer.parts /\ content = answer.content /\ seen = answer.seen
  BY DEF StreamedAnswers
<1>2. PICK firsts \in Seq(AnswerParts) : firsts = FirstCalls(parts)
  <2>1. CASE parts = <<>>
    <3>1. <<>> \in Seq(AnswerParts)
      OBVIOUS
    <3> QED
      BY <2>1, <3>1, FirstCallsEmpty
  <2>2. CASE parts # <<>>
    <3>1. PICK p \in AnswerParts : TRUE
      BY <2>2, EmptySeq, LenProperties
    <3> QED
      BY FirstCallsAppend
  <2> QED
    BY <2>1, <2>2
<1>3. PICK n \in Nat : n = Len(firsts)
  BY LenProperties
<1>4. PICK calls \in Seq(ContentItems) : calls = CallsIn(content)
  <2>1. CASE content = <<>>
    <3>1. <<>> \in Seq(ContentItems)
      OBVIOUS
    <3> QED
      BY <2>1, <3>1, CallsInEmpty
  <2>2. CASE content # <<>>
    <3>1. PICK p \in ContentItems : TRUE
      BY <2>2, EmptySeq, LenProperties
    <3> QED
      BY CallsInAppend
  <2> QED
    BY <2>1, <2>2
<1>5. /\ Len(calls) = n /\ Len(seen) = n
      /\ \A c \in 1..n : /\ firsts[c].kind = "call" /\ calls[c].name = firsts[c].name
                         /\ Told(seen[c], firsts[c], parts)
  BY <1>1, <1>2, <1>3, <1>4 DEF StreamSound, SameCalls
<1>6. PICK all \in Seq(AnswerParts) : all = CallsIn(firsts) /\ Len(all) = n /\ \A c \in 1..n : all[c] = firsts[c]
  <2>1. CallsIn(firsts) \in Seq(AnswerParts)
    BY CallsNamed
  <2>2. Len(CallsIn(firsts)) = n /\ \A c \in 1..n : CallsIn(firsts)[c] = firsts[c]
    BY <1>3, <1>5, CallsInAll
  <2> QED
    BY <2>1, <2>2
<1>7. DOMAIN calls = 1..n /\ DOMAIN seen = 1..n /\ DOMAIN all = 1..n
  BY <1>5, <1>6, LenProperties
<1>8. \A c \in 1..n : /\ all[c].name = firsts[c].name
                      /\ seen[c].call.name = firsts[c].name
                      /\ firsts[c].sig \in {Empty, seen[c].call.sig}
  BY <1>5, <1>6 DEF Told
<1>9. [c \in DOMAIN calls |-> calls[c].name] = [c \in DOMAIN all |-> all[c].name]
  BY <1>5, <1>7, <1>8
<1>10. [c \in DOMAIN seen |-> seen[c].call.name] = [c \in DOMAIN calls |-> calls[c].name]
  BY <1>5, <1>7, <1>8
<1> QED
  BY <1>1, <1>2, <1>4, <1>6, <1>7, <1>8, <1>9, <1>10 DEF StreamAgrees

(* However an answer is cut into parts, its stream holds its calls, one    *)
(* for each name, and the client is told of each once                      *)
(* (streamGenerateContent).                                                *)
THEOREM StreamTellsTheSame == DialogSpec => []StreamAgrees
<1>1. DialogInv => StreamAgrees
  BY SoundAgrees DEF DialogInv
<1> QED
  BY <1>1, DialogKeeps, PTL

=============================================================================
