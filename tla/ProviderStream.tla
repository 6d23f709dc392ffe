--------------------------- MODULE ProviderStream ---------------------------
(***************************************************************************)
(* The provider adapters (src/provider.rs): infer reads a stream of server *)
(* sent events as its bytes arrive; anthropic and responses read a whole   *)
(* body and then look at it.                                               *)
(*                                                                         *)
(* A line arrives in two fragments, the second with its newline, and a     *)
(* chunk is any number of fragments, so lines are cut anywhere and several *)
(* come at once.  What a line says is a record: its kind; for an event the *)
(* usage it carries, if any, its finish reason, text and tool call deltas. *)
(* Text, ids and arguments are sequences of the parts they come in; a name *)
(* is treated as an id is, and left out.                                   *)
(***************************************************************************)
EXTENDS Charges, Transcript

CONSTANTS
  Models,       \* configured models
  Lines,        \* what a provider may send on a line
  Bodies,       \* what it may send as a whole body
  JsonOf,       \* "object" or "other" for the parts that are JSON
  MaxBytes,     \* fragments accepted of one stream (2 000 000 bytes)
  MaxCalls,     \* call indices (16)
  MaxChunk,     \* bound: lines begun by one chunk
  MaxLines      \* bound: lines of one stream

(* What serde makes of a line and of a body: numbers that are there or not *)
(* and strings, of any length and in any number.                           *)
CallParts == [id : Strings, args : Strings]
Deltas == [index : Nat, id : Strings, args : Strings]
Items == [kind : STRING, text : Strings, id : Strings, args : Strings]
IsUsage(u) ==
  {u.cost, u.input, u.output, u.written, u.read} \subseteq {o \in Seq(Int) : Len(o) <= 1}

ASSUME StreamAssumption ==
  /\ \A m \in Models :
       /\ m.provider \in Providers /\ m.wire \in WireApis
       /\ m.inputPrice \in I64 /\ m.outputPrice \in I64
       /\ m.maxInput \in Nat /\ m.maxOutput \in Nat
  /\ \A l \in Lines :
       \/ l.kind \in {"noise", "done", "broken"}
       \/ /\ l.kind = "event" /\ l.text \in Strings /\ l.calls \in Seq(Deltas)
          /\ l.usage # None => Len(l.usage) = 1 /\ IsUsage(l.usage[1])
  /\ \A b \in Bodies : b.items \in Seq(Items) /\ IsUsage(b.usage)
  /\ MaxBytes \in Nat /\ MaxCalls \in Nat /\ MaxChunk \in Nat /\ MaxLines \in Nat

VARIABLES
  model,        \* the model asked
  status,       \* of the adapter's future
  wire,         \* history: the lines the provider has begun
  sent,         \* fragments of them that arrived
  parse,        \* what infer made of the lines that are complete
  answer        \* the message and the charge it returned

streamVars == <<model, status, wire, sent, parse, answer>>

NoParse == [text |-> <<>>, calls |-> <<>>, charge |-> None,
            finished |-> FALSE, done |-> FALSE, failed |-> FALSE]
NoAnswer == [message |-> Message("none", <<>>, NoId), text |-> <<>>, charge |-> None]

StreamInit ==
  /\ model \in {m \in Models : ModelValid(m)} /\ status = "ready"
  /\ wire = <<>> /\ sent = 0 /\ parse = NoParse /\ answer = NoAnswer

-----------------------------------------------------------------------------
Parsed(args) == IF args \in DOMAIN JsonOf THEN JsonOf[args] ELSE "broken"

(* One tool call delta: its parts are appended to what its index has.      *)
AddDelta(calls, delta) ==
  [i \in DOMAIN calls \cup {delta.index} |->
     LET old == IF i \in DOMAIN calls THEN calls[i] ELSE [id |-> <<>>, args |-> <<>>]
     IN IF i = delta.index THEN [id |-> old.id \o delta.id, args |-> old.args \o delta.args]
        ELSE old]

(* A fault: indices have no bound.                                         *)
ReadUnbounded(p, line) ==
  [p EXCEPT !.charge = IF line.usage = None THEN @ ELSE UsageCharge(model, line.usage[1]),
            !.failed = line.finish \notin {"none", "stop", "tool_calls"},
            !.finished = @ \/ line.finish # "none",
            !.text = @ \o line.text,
            !.calls = FoldLeft(AddDelta, @, line.calls)]

(* An event: usage, finish reason, text and call deltas, in this order;    *)
(* what comes after an error is not read.                                  *)
ReadEvent(p, line) ==
  LET metered == [p EXCEPT !.charge = IF line.usage = None THEN @
                                      ELSE UsageCharge(model, line.usage[1])]
      spoken == [metered EXCEPT !.finished = @ \/ line.finish # "none", !.text = @ \o line.text]
  IN IF line.finish \notin {"none", "stop", "tool_calls"} THEN [metered EXCEPT !.failed = TRUE]
     ELSE IF \E d \in ToSet(line.calls) : d.index >= MaxCalls THEN [spoken EXCEPT !.failed = TRUE]
     ELSE [spoken EXCEPT !.calls = FoldLeft(AddDelta, @, line.calls)]

ReadLine(p, line) ==
  CASE p.failed \/ line.kind = "noise" -> p
    [] ~p.failed /\ line.kind = "done" -> [p EXCEPT !.done = TRUE]
    [] ~p.failed /\ line.kind = "broken" -> [p EXCEPT !.failed = TRUE]
    [] ~p.failed /\ line.kind = "event" -> ReadEvent(p, line)

(* A fault: a line cut by the end of a chunk is read as it is.             *)
ReceiveCut(more, upto) ==
  /\ status = "working" /\ AdapterOf(model) = "chat_completions"
  /\ upto > sent /\ upto \in {2 * Len(wire \o more) - 1, 2 * Len(wire \o more)}
  /\ wire' = wire \o more /\ sent' = upto
  /\ parse' = FoldLeft(ReadLine, parse, SubSeq(wire', sent \div 2 + 1, (upto + 1) \div 2))
  /\ status' = IF parse'.failed \/ upto > MaxBytes THEN "failed" ELSE "working"
  /\ UNCHANGED <<model, answer>>

(* A chunk ends the line begun before, if any, and brings more lines, the  *)
(* last of them perhaps cut short.                                         *)
Receive(more, upto) ==
  /\ status = "working" /\ AdapterOf(model) = "chat_completions"
  /\ upto > sent /\ upto \in {2 * Len(wire \o more) - 1, 2 * Len(wire \o more)}
  /\ wire' = wire \o more /\ sent' = upto
  /\ parse' = IF upto > MaxBytes THEN parse
              ELSE FoldLeft(ReadLine, parse, SubSeq(wire', sent \div 2 + 1, upto \div 2))
  /\ status' = IF parse'.failed \/ upto > MaxBytes THEN "failed" ELSE "working"
  /\ UNCHANGED <<model, answer>>

Return(calls, text, charge) ==
  /\ status' = "answered"
  /\ answer' = [message |-> Message("assistant", calls, NoId), text |-> text, charge |-> charge]

AddCall(list, slot) ==
  IF slot = None THEN list
  ELSE Append(list, [id |-> slot[1].id, object |-> Parsed(slot[1].args) = "object"])

(* The map of calls gives its values by index, upwards.                    *)
CallsInOrder(calls) ==
  FoldLeft(AddCall, <<>>, [n \in 1..MaxCalls |-> IF n - 1 \in DOMAIN calls THEN Some(calls[n - 1])
                                                ELSE None])

(* The provider closes the stream.  A line without its newline is lost.    *)
Close ==
  /\ status = "working" /\ AdapterOf(model) = "chat_completions"
  /\ IF /\ parse.finished /\ parse.done /\ parse.charge # None
        /\ \A i \in DOMAIN parse.calls : Parsed(parse.calls[i].args) # "broken"
     THEN Return(CallsInOrder(parse.calls), parse.text, parse.charge)
     ELSE status' = "failed" /\ UNCHANGED answer
  /\ UNCHANGED <<model, wire, sent, parse>>

(* anthropic and responses: a body of bounded size, complete by its own    *)
(* account.  Responses spells arguments as text; in messages they are a    *)
(* value, null when they are missing.                                      *)
BodyAccepted(b) ==
  /\ b.complete
  /\ \A item \in ToSet(b.items) :
       /\ item.kind # "broken"
       /\ item.kind = "call" /\ AdapterOf(model) = "responses" => Parsed(item.args) # "broken"
  /\ UsageCharge(model, b.usage) # None

ReadItem(said, item) ==
  CASE item.kind = "text" -> [said EXCEPT !.text = @ \o item.text]
    [] item.kind = "call" -> [said EXCEPT !.calls = AddCall(@, Some(item))]
    [] OTHER -> said

ReceiveBody(b) ==
  LET said == FoldLeft(ReadItem, [text |-> <<>>, calls |-> <<>>], b.items)
  IN /\ status = "working" /\ AdapterOf(model) # "chat_completions"
     /\ IF BodyAccepted(b)
        THEN Return(said.calls, said.text, UsageCharge(model, b.usage))
        ELSE status' = "failed" /\ UNCHANGED answer
     /\ UNCHANGED <<model, wire, sent, parse>>

(* A fault: a broken connection is opened again.                           *)
Reconnect ==
  /\ status = "working"
  /\ wire' = <<>> /\ sent' = 0 /\ parse' = NoParse
  /\ UNCHANGED <<model, status, answer>>

(* The request fails, a status is not 2xx, the connection breaks, a body   *)
(* is too long, or the turn's deadline drops the future.                   *)
Break ==
  /\ status = "working"
  /\ status' = "failed"
  /\ UNCHANGED <<model, wire, sent, parse, answer>>

StreamNext ==
  \/ \E n \in 0..MaxChunk :
       /\ Len(wire) + n <= MaxLines
       /\ \E more \in [1..n -> Lines], cut \in {0, 1} :
            Receive(more, 2 * (Len(wire) + n) - cut)
  \/ Close
  \/ \E b \in Bodies : ReceiveBody(b)
  \/ Break
=============================================================================
