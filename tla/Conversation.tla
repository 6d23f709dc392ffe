---------------------------- MODULE Conversation ----------------------------
(***************************************************************************)
(* A client's conversation with a model through the gateway: it builds a   *)
(* transcript, validate_turn lets it pass or not, the adapter answers, the *)
(* answer joins the transcript and its calls wait for their results.       *)
(***************************************************************************)
EXTENDS ProviderStream

CONSTANTS
  Inputs,       \* messages a client may add by itself
  MaxInputs     \* bound: messages of a turn the client sends

ASSUME ConversationAssumption == Inputs \subseteq Messages /\ MaxInputs \in Nat

VARIABLE messages

conversationVars == <<messages, streamVars>>

ConversationInit == messages = <<>> /\ StreamInit

Say(m) ==
  /\ status = "ready"
  /\ Len(messages) < MaxInputs
  /\ messages' = Append(messages, m)
  /\ UNCHANGED streamVars

(* start_turn hands a valid transcript to infer, which needs an address.   *)
Submit ==
  /\ status = "ready"
  /\ Len(messages) <= MaxInputs
  /\ ValidTurn(messages)
  /\ status' = IF HasEndpoint(model) THEN "working" ELSE "unsent"
  /\ UNCHANGED <<messages, model, wire, sent, parse, answer>>

(* The client reads the terminal event and goes on.                        *)
Continue ==
  /\ status \in {"answered", "failed"}
  /\ messages' = IF status = "answered" THEN Append(messages, answer.message) ELSE messages
  /\ status' = "ready"
  /\ wire' = <<>> /\ sent' = 0 /\ parse' = NoParse /\ answer' = NoAnswer
  /\ UNCHANGED model

ConversationNext ==
  \/ \E m \in Inputs : Say(m)
  \/ Submit \/ Continue
  \/ StreamNext /\ UNCHANGED messages

ConversationSpec == ConversationInit /\ [][ConversationNext]_conversationVars

-----------------------------------------------------------------------------
Charged == {None} \cup {Some(n) : n \in I64}

ConversationTypeOK ==
  /\ messages \in Seq(Messages)
  /\ model \in {m \in Models : ModelValid(m)}
  /\ status \in {"ready", "working", "answered", "failed", "unsent"}
  /\ wire \in Seq(Lines)
  /\ sent \in {2 * Len(wire) - 1, 2 * Len(wire)} \cap Nat
  /\ parse \in [text : Strings, calls : [DOMAIN parse.calls -> CallParts],
                charge : Charged, finished : BOOLEAN, done : BOOLEAN, failed : BOOLEAN]
  /\ DOMAIN parse.calls \subseteq 0..MaxCalls - 1
  /\ answer \in [message : Messages, text : Strings, charge : Charged]

(* A model that passed validation always has an adapter that knows its     *)
(* provider's address: the pairs ModelConfig::validate accepts and the     *)
(* matches of infer, anthropic and responses were written apart.           *)
ValidModelsAreReachable == status # "unsent"

(* validate_turn, message by message, accepts exactly the conversations in *)
(* which every call has its one result in its place (README: "with matched *)
(* call/result pairs").                                                    *)
ValidationIsExact == ValidTurn(messages) <=> WellPaired(messages)

(* What the stream said, read at once: its text, the indices it named, the *)
(* id and the arguments of an index.                                       *)
Whole == SubSeq(wire, 1, sent \div 2)
Said(l) == l.kind = "event"
CallsOf(l) == IF Said(l) THEN l.calls ELSE <<>>
IdIn(deltas, i) ==
  FlattenSeq([k \in DOMAIN deltas |-> IF deltas[k].index = i THEN deltas[k].id ELSE <<>>])
ArgsIn(deltas, i) ==
  FlattenSeq([k \in DOMAIN deltas |-> IF deltas[k].index = i THEN deltas[k].args ELSE <<>>])

Text(lines) == FlattenSeq([n \in DOMAIN lines |-> IF Said(lines[n]) THEN lines[n].text ELSE <<>>])
Named(lines) == UNION {{d.index : d \in ToSet(CallsOf(lines[n]))} : n \in DOMAIN lines}
Id(lines, i) == FlattenSeq([n \in DOMAIN lines |-> IdIn(CallsOf(lines[n]), i)])
Args(lines, i) == FlattenSeq([n \in DOMAIN lines |-> ArgsIn(CallsOf(lines[n]), i)])

Finishes == {"none", "stop", "tool_calls"}
Place(i, indices) == Cardinality({j \in indices : j <= i})

(* An answer is all of what the provider said and only that, however its   *)
(* bytes were cut: it finished, it said [DONE], no line was an error, the  *)
(* text and each call are their parts in order, the calls by their index.  *)
AnswersAreWhole ==
  status = "answered" /\ AdapterOf(model) = "chat_completions" =>
    /\ \E n \in DOMAIN Whole : Whole[n].kind = "done"
    /\ \E n \in DOMAIN Whole : Said(Whole[n]) /\ Whole[n].finish # "none"
    /\ \A n \in DOMAIN Whole :
         Whole[n].kind # "broken" /\ (Said(Whole[n]) => Whole[n].finish \in Finishes)
    /\ answer.text = Text(Whole)
    /\ Len(answer.message.calls) = Cardinality(Named(Whole))
    /\ \A i \in Named(Whole) :
         answer.message.calls[Place(i, Named(Whole))] =
           [id |-> Id(Whole, i), object |-> Parsed(Args(Whole, i)) = "object"]

(* The bill of an answer is the last usage the provider reported, to the   *)
(* micro and rounded up, in arithmetic that cannot overflow; where the     *)
(* tokens stay within the model's limits it is covered by the reservation, *)
(* cached input included ("charge all input tokens at uncached rate,       *)
(* including cached input").                                               *)
FairPrice(m, u, bill) ==
  LET input == u.input[1] + OrZero(u.written) + OrZero(u.read)
      micros == input * m.inputPrice + u.output[1] * m.outputPrice
  IN IF Costed(m, u) THEN 2 * bill - u.cost[1] \in {0, 1}
     ELSE /\ OrZero(u.written) >= 0 /\ OrZero(u.read) >= 0 =>
               (bill - 1) * Million < micros /\ micros <= bill * Million
          /\ input <= m.maxInput /\ u.output[1] <= m.maxOutput => bill <= Reservation(m)[1]

BillsAreFair ==
  status = "answered" /\ AdapterOf(model) = "chat_completions" =>
    LET metered == {n \in DOMAIN Whole : Said(Whole[n]) /\ Whole[n].usage # None}
    IN metered # {} /\ FairPrice(model, Whole[Max(metered)].usage[1], answer.charge[1])

(* Calls with ids of their own and objects for arguments can be answered,  *)
(* in any order, and the conversation goes on while there is room for it:  *)
(* no adapter joins, loses or swaps what makes the next turn valid.        *)
AnswersCanBeContinued ==
  /\ status = "answered" /\ CallsProper(answer.message)
  /\ Len(messages) + 1 + Len(answer.message.calls) <= MaxMessages
  =>
    \A results \in SetToSeqs({Result(id) : id \in IdsOf(answer.message)}) :
      ValidTurn(messages \o <<answer.message>> \o results)

(* The adapters are the provider that the turn pipeline counts on.         *)
Provider == INSTANCE Inference WITH
  stage <- IF status = "unsent" THEN "ready" ELSE status,
  pieces <- parse.text,
  text <- answer.text

AdaptersAnswerOnce == Provider!Spec
=============================================================================
