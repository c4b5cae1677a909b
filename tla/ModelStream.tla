---------------------------- MODULE ModelStream ----------------------------
(***************************************************************************)
(* One model call on the wire: the endpoint's answer comes whole or as a    *)
(* stream of pieces that a collector puts together again, text pieces are   *)
(* passed on to the user as they come, and a failed attempt is repeated     *)
(* with the next provider of the failover sequence.  Circuit, rate limit    *)
(* and client pool of a provider are ProviderRoute's.                       *)
(*                                                                          *)
(* An answer is [text, calls]: a sequence of text fragments, and a sequence *)
(* of [id, name, args] with args a sequence of fragments of the JSON.  Text *)
(* and each call arrive in order, in any order to each other.               *)
(***************************************************************************)
EXTENDS Naturals, SequencesExt, Selection

CONSTANTS
  Answers,    \* what an endpoint may answer; it names its calls
  Blank,      \* the text fragment of white space only
  Attempts,   \* length of the failover sequence
  Wires,      \* settings of a behaviour: [listens, stream, tools, toolStream]
  NoOutput

ASSUME StreamAssumption ==
  /\ Attempts \in Nat \ {0}
  /\ Wires \subseteq [listens : BOOLEAN, stream : BOOLEAN, tools : BOOLEAN,
                      toolStream : BOOLEAN]
  /\ Answers \subseteq
       [text : Seq(STRING), calls : Seq([id : STRING, name : STRING, args : Seq(STRING)])]

VARIABLES
  wire,       \* whether somebody listens, and the provider's parameters
  attempt,    \* position in the failover sequence
  link,       \* "closed", "open" (a stream is read) or "ended"
  answer,     \* what the endpoint answers
  left,       \* pieces of it still to come
  slots,      \* the collector's slots by index: id, name and arguments
  heard,      \* text pieces of this attempt, passed to on_delta as they came
  partial,    \* history: pieces shown by attempts that failed later
  output      \* ModelOutput of the call

streamVars == <<wire, attempt, link, answer, left, slots, heard, partial, output>>

Silence == [text |-> <<>>, calls |-> <<>>]
NoSlot == [id |-> "", name |-> "", args |-> <<>>]

StreamInit ==
  /\ wire \in Wires
  /\ attempt = 1
  /\ link = "closed"
  /\ answer = Silence
  /\ left = Silence
  /\ slots = <<>>
  /\ heard = <<>>
  /\ partial = <<>>
  /\ output = NoOutput

\* A stream is read only when somebody listens, and with tools only when the
\* provider says its endpoint can stream tool calls.
UseStream == wire.listens /\ wire.stream /\ (wire.tools => wire.toolStream)

IsBlank(text) == \A i \in 1..Len(text) : text[i] = Blank

TextOutput(text) == [kind |-> "text", text |-> text, call |-> NoSlot]
CallOutput(c) == [kind |-> "tool_call", text |-> <<>>, call |-> c]

\* Every failure is a text with one of the markers of openai_failure.py.
Failure == [kind |-> "failed", text |-> <<>>, call |-> NoSlot]

\* openai_message_to_model_output: the first call wins over the text.
Parse(message) ==
  IF message.calls # <<>> /\ Head(message.calls).name # ""
  THEN CallOutput(Head(message.calls))
  ELSE TextOutput(message.text)

\* build_assistant_message: slots by index, nameless ones left out.
Message(text, opened) ==
  [text |-> text,
   calls |-> Selected(opened, {i \in 1..Len(opened) : opened[i].name # ""})]

\* Mutation: the arguments of a piece replace those before.
MergeLast(slot, piece) ==
  [id |-> IF piece.id # "" THEN piece.id ELSE slot.id,
   name |-> IF piece.name # "" THEN piece.name ELSE slot.name,
   args |-> piece.args]

\* _merge_tool_deltas: id and name are set, arguments appended.
MergeDelta(slot, piece) ==
  [id |-> IF piece.id # "" THEN piece.id ELSE slot.id,
   name |-> IF piece.name # "" THEN piece.name ELSE slot.name,
   args |-> slot.args \o piece.args]

\* The first piece of a call carries id and name, the next ones arguments.
FirstPiece(c) == [c EXCEPT !.args = <<>>]
ArgsPiece(c) == [NoSlot EXCEPT !.args = <<Head(c.args)>>]

-----------------------------------------------------------------------------
(* One attempt                                                              *)

\* The POST is answered whole.
AnswerWhole(a) ==
  /\ link = "closed"
  /\ ~UseStream
  /\ a.calls # <<>> => wire.tools
  /\ answer' = a
  /\ output' = Parse(a)
  /\ link' = "ended"
  /\ UNCHANGED <<wire, attempt, left, slots, heard, partial>>

\* The stream is open; the endpoint has decided what it will say.
OpenStream(a) ==
  /\ link = "closed"
  /\ UseStream
  /\ a.calls # <<>> => wire.tools
  /\ answer' = a
  /\ left' = a
  /\ slots' = [i \in 1..Len(a.calls) |-> NoSlot]
  /\ link' = "open"
  /\ UNCHANGED <<wire, attempt, heard, partial, output>>

TextPiece ==
  /\ link = "open"
  /\ left.text # <<>>
  /\ heard' = Append(heard, Head(left.text))
  /\ left' = [left EXCEPT !.text = Tail(@)]
  /\ UNCHANGED <<wire, attempt, link, answer, slots, partial, output>>

\* Calls are numbered from 0; a call is over when nothing of it is left.
CallPiece(i) ==
  /\ link = "open"
  /\ LET c == left.calls[i]
         opens == slots[i].name = ""
     IN /\ opens \/ c.args # <<>>
        /\ slots' = [slots EXCEPT ![i] =
                       MergeDelta(@, IF opens THEN FirstPiece(c) ELSE ArgsPiece(c))]
        /\ left' = IF opens THEN left
                   ELSE [left EXCEPT !.calls[i].args = Tail(@)]
  /\ UNCHANGED <<wire, attempt, link, answer, heard, partial, output>>

AllHere ==
  /\ left.text = <<>>
  /\ \A i \in 1..Len(slots) : slots[i].name # "" /\ left.calls[i].args = <<>>

\* [DONE]: without calls a blank text counts as a failure.
StreamEnds ==
  /\ link = "open"
  /\ AllHere
  /\ LET message == Message(heard, slots)
     IN output' = IF message.calls = <<>> /\ IsBlank(heard) THEN Failure
                  ELSE Parse(message)
  /\ link' = "ended"
  /\ UNCHANGED <<wire, attempt, answer, left, slots, heard, partial>>

\* Refused, timed out, or broken in the middle.
AttemptFails ==
  /\ link \in {"closed", "open"}
  /\ output' = Failure
  /\ link' = "ended"
  /\ UNCHANGED <<wire, attempt, answer, left, slots, heard, partial>>

-----------------------------------------------------------------------------
(* The failover sequence                                                    *)

\* What was shown of a failed attempt stays shown.
NextProvider ==
  /\ link = "ended"
  /\ output = Failure
  /\ attempt < Attempts
  /\ attempt' = attempt + 1
  /\ partial' = partial \o heard
  /\ link' = "closed"
  /\ answer' = Silence
  /\ left' = Silence
  /\ slots' = <<>>
  /\ heard' = <<>>
  /\ output' = NoOutput
  /\ UNCHANGED wire

\* The call has an output the loop can take: an answer, or the last failure.
Answered == link = "ended" /\ (output # Failure \/ attempt = Attempts)

\* The loop takes it.
TakeOutput ==
  /\ Answered
  /\ attempt' = 1
  /\ link' = "closed"
  /\ answer' = Silence
  /\ left' = Silence
  /\ slots' = <<>>
  /\ heard' = <<>>
  /\ partial' = <<>>
  /\ output' = NoOutput
  /\ UNCHANGED wire

StreamStep ==
  \/ \E a \in Answers : AnswerWhole(a) \/ OpenStream(a)
  \/ TextPiece \/ (\E i \in 1..Len(slots) : CallPiece(i))
  \/ StreamEnds \/ AttemptFails \/ NextProvider

-----------------------------------------------------------------------------
(* Properties                                                               *)

\* Streaming changes nothing: whatever the order its pieces came in, the
\* output is the one the whole message would have given (a blank text, which
\* counts as a failure of the stream only, excepted), and what the user saw
\* of this attempt is the text of that message.
StreamAgrees ==
  (link = "ended" /\ output # Failure) =>
    /\ output = Parse(answer)
    /\ UseStream => heard = answer.text /\ (output.kind = "text" => ~IsBlank(heard))
=============================================================================
