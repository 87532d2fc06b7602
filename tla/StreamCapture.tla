----------------------------- MODULE StreamCapture -----------------------------
(***************************************************************************)
(* A stream of the OpenAI-compatible route on its way to the client: the   *)
(* body of the provider goes through usageCapturingTransform               *)
(* (requests/chat_completions_v2.ts), which keeps the end of it to find    *)
(* the usage, and, of a traced request, through textCaptureTransform       *)
(* (tracing/collector.ts), which keeps the beginning.                      *)
(*                                                                         *)
(* A body is a sequence of units: the two halves of a line that carries    *)
(* usage, or anything else.  Chunks are cut anywhere.  The streams         *)
(* themselves are the runtime's: a transform is told once of its end, by   *)
(* flush, or by cancel when its reader goes away or its source breaks off. *)
(***************************************************************************)
EXTENDS Integers, Sequences, FiniteSets, SequencesExt

CONSTANTS
  Streams,      \* bodies, sequences of units [usage, half]
  ChunkMax,     \* bound: units in a chunk
  UsageTail,    \* USAGE_TAIL_BYTES
  CaptureCap    \* MAX_FIELD_BYTES

VARIABLES
  upstream,  \* [left, given, state]: what the provider still has to send, has sent
  tail,      \* the buffer of usageCapturingTransform
  recorded,  \* what it recorded, one entry for each call of record
  between,   \* chunks that wait between the two transforms
  shown,     \* what the client was given
  capture,   \* [text, off, done]: the state of textCaptureTransform
  readable   \* "open", "closed", "errored": the usage transform's output

streamVars == <<upstream, tail, recorded, between, shown, capture, readable>>

Units == [usage : STRING, half : 0..2]
Marker == [usage |-> "", half |-> 3]

ASSUME StreamAssumption ==
  /\ Streams \subseteq Seq(Units)
  /\ ChunkMax \in Nat /\ UsageTail \in Nat \ {0} /\ CaptureCap \in Nat

StreamInit ==
  /\ upstream \in [left : Streams, given : {<<>>}, state : {"open"}]
  /\ tail = <<>> /\ recorded = <<>> /\ between = <<>> /\ shown = <<>>
  /\ capture = [text |-> <<>>, off |-> FALSE, done |-> FALSE]
  /\ readable = "open"

-----------------------------------------------------------------------------
(* usageCapturingTransform *)

LastUnits(text, n) == SubSeq(text, Max({1, Len(text) - n + 1}), Len(text))

(* sseUsageOf: the usage of the last line of the text that is whole; ""    *)
(* for null.                                                               *)
UsageEnds(text) ==
  {i \in 2..Len(text) : /\ text[i - 1].half = 1 /\ text[i].half = 2
                        /\ text[i - 1].usage = text[i].usage}

UsageOf(text) == IF UsageEnds(text) = {} THEN "" ELSE text[Max(UsageEnds(text))].usage

(* A mutant that looks at whole chunks only. *)
Kept_OneChunk(text, chunk) == IF Len(chunk) > 1 THEN chunk ELSE text

(* A mutant that never cuts. *)
Kept_Unbounded(text, chunk) == text \o chunk

Kept(text, chunk) ==
  LET all == text \o chunk
  IN  IF Len(all) > 2 * UsageTail THEN LastUnits(all, UsageTail) ELSE all

ChunkArrives(n) ==
  LET chunk == SubSeq(upstream.left, 1, n) IN
  /\ upstream.state = "open" /\ readable = "open"
  /\ n <= Len(upstream.left)
  /\ upstream' = [upstream EXCEPT !.left = SubSeq(@, n + 1, Len(@)), !.given = @ \o chunk]
  /\ tail' = Kept(tail, chunk)
  /\ between' = Append(between, chunk)
  /\ UNCHANGED <<recorded, shown, capture, readable>>

(* finish(): done is set before record is called. *)
Finish == recorded' = IF recorded = <<>> THEN <<UsageOf(tail)>> ELSE recorded

(* flush, at the end of the body. *)
UpstreamCloses ==
  /\ upstream.state = "open" /\ readable = "open" /\ upstream.left = <<>>
  /\ upstream' = [upstream EXCEPT !.state = "closed"]
  /\ readable' = "closed"
  /\ Finish
  /\ UNCHANGED <<tail, between, shown, capture>>

(* cancel: the provider breaks off, and what waits in between is dropped.  *)
UpstreamBreaks ==
  /\ upstream.state = "open" /\ readable = "open"
  /\ upstream' = [upstream EXCEPT !.state = "broken"]
  /\ readable' = "errored" /\ between' = <<>>
  /\ Finish
  /\ UNCHANGED <<tail, shown, capture>>

-----------------------------------------------------------------------------
(* textCaptureTransform *)

(* A mutant that caps again with every chunk. *)
Captured_AgainAndAgain(c, chunk) ==
  LET all == c.text \o chunk
  IN  IF Len(all) > CaptureCap
        THEN [c EXCEPT !.text = Append(SubSeq(all, 1, CaptureCap + 1), Marker)]
        ELSE [c EXCEPT !.text = all]

Captured(c, chunk) ==
  LET all == c.text \o chunk
  IN  IF c.off THEN c
      ELSE IF Len(all) > CaptureCap
        THEN [c EXCEPT !.text = Append(SubSeq(all, 1, CaptureCap), Marker), !.off = TRUE]
        ELSE [c EXCEPT !.text = all]

ChunkShown ==
  /\ ~capture.done /\ between # <<>>
  /\ shown' = shown \o Head(between)
  /\ between' = Tail(between)
  /\ capture' = Captured(capture, Head(between))
  /\ UNCHANGED <<upstream, tail, recorded, readable>>

(* settle(): the trace is submitted with what is captured. *)
CaptureSettles ==
  /\ ~capture.done /\ readable # "open" /\ between = <<>>
  /\ capture' = [capture EXCEPT !.done = TRUE]
  /\ UNCHANGED <<upstream, tail, recorded, between, shown, readable>>

(* The client goes away: both transforms are told. *)
ClientCancels ==
  /\ ~capture.done
  /\ capture' = [capture EXCEPT !.done = TRUE]
  /\ upstream' = [upstream EXCEPT !.state = IF @ = "open" THEN "cancelled" ELSE @]
  /\ readable' = "errored" /\ between' = <<>>
  /\ IF readable = "open" THEN Finish ELSE UNCHANGED recorded
  /\ UNCHANGED <<tail, shown>>

StreamNext ==
  \/ \E n \in 1..ChunkMax : ChunkArrives(n)
  \/ UpstreamCloses \/ UpstreamBreaks \/ ChunkShown \/ CaptureSettles \/ ClientCancels

StreamSpec == StreamInit /\ [][StreamNext]_streamVars

-----------------------------------------------------------------------------
StreamTypeOK ==
  /\ upstream.state \in {"open", "closed", "broken", "cancelled"}
  /\ upstream.given \o upstream.left \in Streams
  /\ Len(tail) <= 2 * UsageTail
  /\ Len(recorded) <= 1
  /\ readable \in {"open", "closed", "errored"}
  /\ (readable = "open") <=> (upstream.state = "open")

(* However the body is cut into chunks and however it ends, exactly one    *)
(* usage is recorded; it is that of the last line with usage that came, or *)
(* none, and it is that one if the line lies within the last UsageTail     *)
(* units (requests/chat_completions_v2.ts:1057-1108).                      *)
UsageFound ==
  /\ Len(recorded) = IF readable = "open" THEN 0 ELSE 1
  /\ recorded # <<>> =>
       /\ recorded[1] \in {"", UsageOf(upstream.given)}
       /\ UsageEnds(LastUnits(upstream.given, UsageTail)) # {} =>
            recorded[1] = UsageOf(upstream.given)

(* The client is given a beginning of what the provider sent, all of it if *)
(* nobody broke off; the trace holds a beginning of what the client was    *)
(* given, and says so where it is not all of it                            *)
(* (tracing/collector.ts:251-289).                                         *)
CaptureFaithful ==
  /\ IsPrefix(shown, upstream.given)
  /\ capture.done /\ readable = "closed" => shown = upstream.given
  /\ capture.text = IF Len(shown) > CaptureCap
                      THEN Append(SubSeq(shown, 1, CaptureCap), Marker) ELSE shown

=============================================================================
