------------------------------ MODULE ToolDialog ------------------------------
(***************************************************************************)
(* A conversation with tools through the proxy: the client holds the whole *)
(* history in the OpenAI format and sends it with every turn, the adapters *)
(* keep nothing between turns.  GoogleDirectAdapter (llm/google-direct-    *)
(* adapter.ts) converts it to Google's contents and back, and hides the    *)
(* name and the thought signature of a call in its id; toPiContext and the *)
(* other half of llm/openai-adapter.ts serve the providers of pi-ai.       *)
(*                                                                         *)
(* A text, an argument object or a signature is a value; NoArgs is the     *)
(* empty object.  Names have no white space, as OpenAI demands, so that    *)
(* encodeToolCallId keeps them.                                            *)
(***************************************************************************)
EXTENDS Integers, Sequences, FiniteSets, SequencesExt

CONSTANTS
  Openings,    \* message sequences a client may begin with
  UserItems,   \* contents of a user message: sequences of item kinds
  TurnParts,   \* answers of Google: sequences of parts
  DialogTools, \* the tools the client offers
  Texts,       \* texts, names, argument objects and signatures
  MaxAnswers   \* bound: answers in one conversation

VARIABLES
  history,  \* the client's messages
  phase,    \* "client", "google", "streaming", "pi", "over"
  request,  \* what the provider was sent last
  answer,   \* a stream in progress: parts so far, the adapter's content, the client's view
  made      \* history: the calls of each answer, as they are to come back

dialogVars == <<history, phase, request, answer, made>>

Empty == ""
NoArgs == "{}"
ItemKinds == {"text", "blank", "image", "link", "unknown"}
NoId == [name |-> Empty, sig |-> Empty, nr |-> 0]
NoRequest == [route |-> Empty, tools |-> {}, contents |-> <<>>]
NoAnswer == [parts |-> <<>>, content |-> <<>>, seen |-> <<>>]

Message(role) ==
  [role |-> role, items |-> <<>>, text |-> Empty, calls |-> <<>>, id |-> NoId, name |-> Empty]

CallIds == [name : Texts, sig : Texts, nr : Nat]
ToolCalls == [id : CallIds, name : Texts, args : Texts, sig : Texts]
Messages ==
  [role : {"system", "user", "assistant", "tool"}, items : Seq(ItemKinds), text : Texts,
   calls : Seq(ToolCalls), id : CallIds, name : Texts]
AnswerParts ==
  {p \in [kind : {"text", "thinking", "call"}, name : Texts, args : Texts, sig : Texts] :
     p.kind = "call" => p.name # Empty}

OrElse(a, b) == IF a # Empty THEN a ELSE b

(* What OpenAI demands of a history: the calls of an answer are followed   *)
(* by their results, in order, and a result names its call, by itself or   *)
(* in its id.                                                              *)
Orderly(msgs) ==
  /\ \A i \in DOMAIN msgs :
       msgs[i].calls # <<>> =>
         /\ msgs[i].role = "assistant"
         /\ i + Len(msgs[i].calls) <= Len(msgs)
         /\ \A c \in DOMAIN msgs[i].calls :
              LET call == msgs[i].calls[c]
                  result == msgs[i + c]
              IN  /\ call.name # Empty
                  /\ result.role = "tool" /\ result.id = call.id
                  /\ OrElse(result.name, result.id.name) = call.name
  /\ \A i \in DOMAIN msgs :
       msgs[i].role = "tool" => \E j \in 1..(i - 1) : i <= j + Len(msgs[j].calls)

ASSUME DialogAssumption ==
  /\ Openings \subseteq Seq(Messages) /\ \A msgs \in Openings : Orderly(msgs)
  /\ UserItems \subseteq Seq(ItemKinds)
  /\ TurnParts \subseteq Seq(AnswerParts)
  /\ {Empty, NoArgs, "t", "result"} \subseteq Texts
  /\ MaxAnswers \in Nat

DialogInit ==
  /\ history \in Openings
  /\ phase = "client"
  /\ request = NoRequest
  /\ answer = NoAnswer
  /\ made = {[c \in DOMAIN history[i].calls |->
                [name |-> history[i].calls[c].name, args |-> history[i].calls[c].args,
                 sigs |-> {OrElse(history[i].calls[c].sig, history[i].calls[c].id.sig)}]] :
            i \in DOMAIN history}

-----------------------------------------------------------------------------
(* Ids of calls *)

(* Without a signature the id ends in random digits: nr is the round.      *)
EncodeId(i, name, sig) ==
  [name |-> name, sig |-> sig, nr |-> IF sig = Empty THEN i + 10 * Len(history) ELSE i]

(* decodeToolCallId: "" where the id holds no name or no signature, as ids *)
(* of other providers do.                                                  *)
DecodedName(id) == id.name
DecodedSig(id) == id.sig

-----------------------------------------------------------------------------
(* convertMessagesToGoogleFormat *)

Part(kind) == [kind |-> kind, name |-> Empty, args |-> NoArgs, sig |-> Empty]

(* Blank texts and unknown items leave nothing, a link to an image its     *)
(* address as text.                                                        *)
UserParts(items) ==
  FoldLeft(LAMBDA parts, kind : IF kind \in {"blank", "unknown"} THEN parts
                                ELSE Append(parts, Part(IF kind = "image" THEN kind ELSE "text")),
           <<>>, items)

(* A mutant that relies on the field the client may drop. *)
CallPart_FieldOnly(call) ==
  [kind |-> "call", name |-> call.name, args |-> call.args, sig |-> call.sig]

CallPart(call) ==
  [kind |-> "call", name |-> call.name, args |-> call.args,
   sig |-> OrElse(call.sig, DecodedSig(call.id))]

ResponsePart(msg) ==
  [Part("response") EXCEPT !.name = OrElse(OrElse(msg.name, DecodedName(msg.id)), "unknown_tool")]

GoogleTurn(role, parts) == [role |-> role, parts |-> parts]

(* The results of one answer are one turn of the user; calls go without    *)
(* the text beside them.                                                   *)
AddGoogleTurn(turns, i) ==
  LET msg == history[i] IN
  CASE msg.role = "tool" ->
         IF i > 1 /\ history[i - 1].role = "tool"
           THEN [turns EXCEPT ![Len(turns)].parts = Append(@, ResponsePart(msg))]
           ELSE Append(turns, GoogleTurn("user", <<ResponsePart(msg)>>))
    [] msg.role = "user" ->
         IF UserParts(msg.items) = <<>> THEN turns
         ELSE Append(turns, GoogleTurn("user", UserParts(msg.items)))
    [] msg.role = "assistant" ->
         IF msg.calls # <<>>
           THEN Append(turns, GoogleTurn("model", [c \in DOMAIN msg.calls |-> CallPart(msg.calls[c])]))
         ELSE IF msg.text = Empty THEN turns
         ELSE Append(turns, GoogleTurn("model", <<Part("text")>>))
    [] OTHER -> turns

(* A mutant that leaves the end alone. *)
Trimmed_FrontOnly(turns) ==
  LET users == {i \in DOMAIN turns : turns[i].role = "user"}
  IN  IF users = {} THEN <<>> ELSE SubSeq(turns, Min(users), Len(turns))

(* Turns of the model at either end are cut off. *)
Trimmed(turns) ==
  LET users == {i \in DOMAIN turns : turns[i].role = "user"}
  IN  IF users = {} THEN <<>> ELSE SubSeq(turns, Min(users), Max(users))

GoogleContents == Trimmed(FoldLeftDomain(AddGoogleTurn, <<>>, history))

-----------------------------------------------------------------------------
(* toPiContext *)

NameById(id, i) ==
  LET calls == FoldLeft(LAMBDA all, msg : all \o msg.calls, <<>>, SubSeq(history, 1, i))
      last == {c \in DOMAIN calls : calls[c].id = id}
  IN  IF last = {} THEN Empty ELSE calls[Max(last)].name

(* Empty results are left out, system messages go into the prompt. *)
AddPiMessage(msgs, i) ==
  LET msg == history[i] IN
  CASE msg.role = "tool" ->
         IF msg.text = Empty THEN msgs
         ELSE Append(msgs, [role |-> "toolResult", id |-> msg.id, calls |-> <<>>,
                            name |-> OrElse(OrElse(NameById(msg.id, i), msg.name),
                                            OrElse(DecodedName(msg.id), "tool"))])
    [] msg.role \in {"user", "assistant"} ->
         Append(msgs, [role |-> msg.role, id |-> NoId, name |-> Empty,
                       calls |-> [c \in DOMAIN msg.calls |-> CallPart(msg.calls[c])]])
    [] OTHER -> msgs

PiContext == FoldLeftDomain(AddPiMessage, <<>>, history)

-----------------------------------------------------------------------------
(* The answer, whole or in events *)

(* convertToAssistantMessage: a call without a signature takes the last of *)
(* the turn.                                                               *)
TurnSig(parts) ==
  LET signed == {i \in DOMAIN parts : parts[i].sig # Empty}
  IN  IF signed = {} THEN Empty ELSE parts[Max(signed)].sig

CallsIn(parts) ==
  FoldLeft(LAMBDA calls, p : IF p.kind = "call" THEN Append(calls, p) ELSE calls, <<>>, parts)

FirstCalls(parts) ==
  FoldLeft(LAMBDA calls, p : IF p.kind = "call" /\ \A c \in DOMAIN calls : calls[c].name # p.name
                               THEN Append(calls, p) ELSE calls, <<>>, parts)

NewCall(i, p, sig) ==
  [id |-> EncodeId(i, p.name, sig), name |-> p.name, args |-> p.args, sig |-> sig]

WholeAnswer(parts) ==
  LET calls == CallsIn(parts)
  IN  [c \in DOMAIN calls |->
         NewCall(c - 1, calls[c], OrElse(calls[c].sig, TurnSig(parts)))]

(* The arguments of a call whose parts are merged, {...a, ...b}: those     *)
(* that were merged, in order.                                             *)
MergedArgs(merged, args) == IF args = NoArgs THEN merged ELSE Append(merged, args)

(* A mutant that looks the call up by its kind alone. *)
Continued_AnyCall(content, p) == {i \in DOMAIN content : content[i].kind = p.kind}

(* The item of the content that part p goes on with. *)
Continued(content, p) ==
  {i \in DOMAIN content : /\ content[i].kind = p.kind
                          /\ p.kind = "call" => content[i].name = p.name}

(* streamGenerateContent, one part: thoughts and texts gather in one item  *)
(* each, a call of a name that has been called in this stream only merges  *)
(* its arguments.  The client sees the arguments of a new call once with   *)
(* toolcall_start, once more as a delta, and with toolcall_end; the empty  *)
(* object only with the latter.                                            *)
StreamPart(a, p) ==
  LET parts == Append(a.parts, p)
      same == Continued(a.content, p)
      call == NewCall(Len(CallsIn(a.content)), p, TurnSig(parts))
      item == [kind |-> p.kind, name |-> p.name, args |-> MergedArgs(<<>>, p.args),
               sig |-> IF p.kind = "call" THEN call.sig ELSE Empty]
  IN  [parts |-> parts,
       content |-> IF same = {} THEN Append(a.content, item)
                   ELSE IF p.kind # "call" THEN a.content
                   ELSE [a.content EXCEPT ![Min(same)].args = MergedArgs(@, p.args)],
       seen |-> IF same # {} \/ p.kind # "call" THEN a.seen
                ELSE Append(a.seen, [call |-> call,
                                     pieces |-> IF p.args = NoArgs THEN <<NoArgs>>
                                                ELSE <<p.args, p.args, p.args>>])]

(* What JSON.parse makes of the pieces the client has put together: the    *)
(* adapter takes arguments that do not parse for {}.                       *)
Parsed(pieces) == IF Len(pieces) = 1 THEN pieces[1] ELSE NoArgs

StreamedCalls(a) ==
  [c \in DOMAIN a.seen |-> [a.seen[c].call EXCEPT !.args = Parsed(a.seen[c].pieces)]]

-----------------------------------------------------------------------------
(* finish_reason: of an answer cut off at max_tokens "length", unless it   *)
(* holds calls.                                                            *)
FinishReason(calls, cut) ==
  IF calls # <<>> THEN "tool_calls" ELSE IF cut THEN "length" ELSE "stop"

(* The client: keeps the answer, with or without the signature field       *)
(* OpenAI does not know, if told to runs the calls and appends a result    *)
(* for each in order, with or without the tool's name, and may ask         *)
(* something new.                                                          *)

Result(call, named, text) ==
  [Message("tool") EXCEPT !.id = call.id, !.name = IF named THEN call.name ELSE Empty, !.text = text]

ClientKeeps(calls, text, finish) ==
  \E keeps, named \in BOOLEAN, result \in {Empty, "result"} :
    LET kept == [c \in DOMAIN calls |-> IF keeps THEN calls[c] ELSE [calls[c] EXCEPT !.sig = Empty]]
        msg == [Message("assistant") EXCEPT !.text = text, !.calls = kept]
    IN  history' = Append(history, msg) \o
                     (IF finish = "tool_calls"
                        THEN [c \in DOMAIN calls |-> Result(calls[c], named, result)] ELSE <<>>)

Answers == Cardinality({i \in DOMAIN history : history[i].role = "assistant"})

AskAgain(items) ==
  /\ phase = "client" /\ Answers <= MaxAnswers
  /\ history # <<>> => history[Len(history)].role # "user"
  /\ history' = Append(history, [Message("user") EXCEPT !.items = items])
  /\ UNCHANGED <<phase, request, answer, made>>

(* generateContent and streamGenerateContent up to the call of the SDK; a  *)
(* conversation without a user's turn is refused.                          *)
SendGoogle ==
  /\ phase = "client" /\ Answers < MaxAnswers
  /\ IF GoogleContents = <<>>
       THEN phase' = "over" /\ UNCHANGED request
       ELSE /\ phase' = "google"
            /\ request' = [route |-> "google", tools |-> DialogTools, contents |-> GoogleContents]
  /\ UNCHANGED <<history, answer, made>>

(* createTenantModels, toPiContext and models.complete or models.stream:   *)
(* the context holds the messages alone.                                   *)
SendPi ==
  /\ phase = "client" /\ Answers < MaxAnswers
  /\ phase' = "pi"
  /\ request' = [route |-> "pi", tools |-> {}, contents |-> PiContext]
  /\ UNCHANGED <<history, answer, made>>

(* The provider fails: the client may send the same again. *)
SendFailed ==
  /\ phase \in {"google", "streaming", "pi"}
  /\ phase' = "client" /\ answer' = NoAnswer
  /\ UNCHANGED <<history, request, made>>

(* A call must come back with its name and signature, or a signature of    *)
(* the same answer where it has none; with its arguments if the answer was *)
(* whole, without any if it was streamed.                                  *)
Remember(calls, parts, streamed) ==
  made' = made \cup {[c \in DOMAIN calls |->
            [name |-> calls[c].name, args |-> IF streamed THEN NoArgs ELSE calls[c].args,
             sigs |-> IF calls[c].sig # Empty THEN {calls[c].sig}
                      ELSE {parts[i].sig : i \in DOMAIN parts}]]}

HasText(parts) == IF \E i \in DOMAIN parts : parts[i].kind = "text" THEN "t" ELSE Empty

GoogleAnswers(parts, cut) ==
  /\ phase = "google"
  /\ ClientKeeps(WholeAnswer(parts), HasText(parts), FinishReason(CallsIn(parts), cut))
  /\ Remember(CallsIn(parts), parts, FALSE)
  /\ phase' = "client"
  /\ UNCHANGED <<request, answer>>

(* The same answer in chunks: the next part of it arrives. *)
GoogleStreams(parts) ==
  /\ phase \in {"google", "streaming"}
  /\ Len(answer.parts) < Len(parts)
  /\ SubSeq(parts, 1, Len(answer.parts)) = answer.parts
  /\ answer' = StreamPart(answer, parts[Len(answer.parts) + 1])
  /\ phase' = "streaming"
  /\ UNCHANGED <<history, request, made>>

StreamDone ==
  /\ phase = "streaming"
  /\ ClientKeeps(StreamedCalls(answer), HasText(answer.parts),
                 FinishReason(CallsIn(answer.content), FALSE))
  /\ Remember(FirstCalls(answer.parts), answer.parts, TRUE)
  /\ phase' = "client" /\ answer' = NoAnswer
  /\ UNCHANGED request

(* A provider that is offered no tools answers with text. *)
PiAnswers ==
  /\ phase = "pi"
  /\ ClientKeeps(<<>>, "t", FinishReason(<<>>, FALSE))
  /\ phase' = "client"
  /\ UNCHANGED <<request, answer, made>>

DialogNext ==
  \/ \E items \in UserItems : AskAgain(items)
  \/ SendGoogle \/ SendPi \/ SendFailed \/ StreamDone \/ PiAnswers
  \/ \E parts \in TurnParts :
       GoogleStreams(parts) \/ \E cut \in BOOLEAN : GoogleAnswers(parts, cut)

DialogSpec == DialogInit /\ [][DialogNext]_dialogVars

-----------------------------------------------------------------------------
DialogTypeOK ==
  /\ phase \in {"client", "google", "streaming", "pi", "over"}
  /\ request.route \in {Empty, "google", "pi"}
  /\ phase \in {"google", "streaming"} => request.route = "google"
  /\ \A i \in DOMAIN history : history[i].role \in {"system", "user", "assistant", "tool"}
  /\ phase = "streaming" <=> answer # NoAnswer

Kinds(turn) == {turn.parts[i].kind : i \in DOMAIN turn.parts}
Names(turn) == [i \in DOMAIN turn.parts |-> turn.parts[i].name]

(* What Google is sent begins and ends with the user, has no empty turn,   *)
(* and the results of calls are one turn after the calls, in their order   *)
(* and under their names, unless the calls came before the first turn of   *)
(* the user that is left (llm/google-direct-adapter.ts:360-506).           *)
ContentsWellFormed ==
  phase = "google" =>
    LET turns == request.contents IN
      /\ turns[1].role = "user" /\ turns[Len(turns)].role = "user"
      /\ \A i \in DOMAIN turns :
           /\ turns[i].parts # <<>>
           /\ "response" \in Kinds(turns[i]) /\ i > 1 =>
                Kinds(turns[i - 1]) = {"call"} /\ Names(turns[i - 1]) = Names(turns[i])
           /\ "call" \in Kinds(turns[i]) => Kinds(turns[i + 1]) = {"response"}

(* Calls sent to a provider are those of an answer. *)
AsMade(calls, m) ==
  /\ DOMAIN calls = DOMAIN m
  /\ \A c \in DOMAIN m : /\ calls[c].name = m[c].name
                         /\ calls[c].args = m[c].args
                         /\ calls[c].sig \in m[c].sigs

(* Whichever client sends them back, with or without the fields OpenAI     *)
(* does not know, and whichever provider answered in between, the calls of *)
(* an answer come back under their names and with their signatures, and    *)
(* results carry the name of their call (llm/google-direct-adapter.ts:     *)
(* 34-52).  The calls of a whole answer come back with their arguments;    *)
(* those of a streamed one with none, as the client is sent the arguments  *)
(* more than once and what it puts together does not parse (876-942).      *)
CallsReturnSigned ==
  /\ phase = "google" =>
       \A i \in DOMAIN request.contents :
         "call" \in Kinds(request.contents[i]) =>
           \E m \in made : AsMade(request.contents[i].parts, m)
  /\ phase = "pi" =>
       \A i \in DOMAIN request.contents :
         LET msg == request.contents[i] IN
           /\ msg.calls # <<>> => \E m \in made : AsMade(msg.calls, m)
           /\ msg.role = "toolResult" =>
                \E j \in 1..(i - 1) : \E c \in DOMAIN request.contents[j].calls :
                  request.contents[j].calls[c].name = msg.name

(* An answer that is streamed holds the calls of the same answer when it   *)
(* is not, one for each name, whatever comes between them, and the client  *)
(* is told of each once, with its signature if it has one of its own       *)
(* (llm/google-direct-adapter.ts:763-969).                                 *)
StreamAgrees ==
  LET Calls(content) == LET calls == CallsIn(content)
                        IN  [c \in DOMAIN calls |-> calls[c].name]
      seen == [c \in DOMAIN answer.seen |-> answer.seen[c].call.name]
  IN  /\ Calls(answer.content) = Calls(FirstCalls(answer.parts))
      /\ seen = Calls(answer.content)
      /\ \A c \in DOMAIN answer.seen :
           FirstCalls(answer.parts)[c].sig \in {Empty, answer.seen[c].call.sig}

(* README.md:29-30: Google AI Studio and Anthropic support tool calls: the *)
(* tools the client offers are offered to the provider.                    *)
ToolsOffered == phase \in {"google", "pi"} => request.tools = DialogTools

=============================================================================
