----------------------------- MODULE Transcript -----------------------------
(***************************************************************************)
(* The conversations a turn may carry (src/service.rs, validate_turn).  A  *)
(* message is a record [role, calls, callId]; a call has an id and         *)
(* arguments that are a JSON object or not.  Ids are sequences of parts,   *)
(* since streams spell them in parts; content, and the length of a request *)
(* id, are left out.                                                       *)
(***************************************************************************)
EXTENDS Integers, FiniteSets, SequencesExt

CONSTANTS
  MaxMessages,  \* messages of a turn (256)
  Roles,        \* what a role may say, any string; "none" while there is no message
  Parts         \* what text, ids and arguments come in

ASSUME TranscriptAssumption ==
  MaxMessages \in Nat \ {0} /\ {"user", "assistant", "tool", "none"} \subseteq Roles

NoId == <<>>

Strings == Seq(Parts)
ToolCalls == [id : Strings, object : BOOLEAN]
Messages == [role : Roles, calls : Seq(ToolCalls), callId : Strings]

Message(role, calls, callId) == [role |-> role, calls |-> calls, callId |-> callId]
Result(id) == Message("tool", <<>>, id)

IdsOf(m) == {c.id : c \in ToSet(m.calls)}

(* Calls with ids of their own, and arguments an object.                   *)
CallsProper(m) ==
  /\ Cardinality(IdsOf(m)) = Len(m.calls)
  /\ \A c \in ToSet(m.calls) : c.id # NoId /\ c.object

-----------------------------------------------------------------------------
(* The loop of validate_turn: whether it goes on, and the calls that have  *)
(* no result yet.                                                          *)
Start == [ok |-> TRUE, pending |-> {}]

(* A fault: the user may speak while results are missing.                  *)
ReadLenient(state, m) ==
  LET ok == \/ m.role = "user" /\ m.calls = <<>>
            \/ m.role = "assistant" /\ state.pending = {} /\ CallsProper(m)
            \/ m.role = "tool" /\ m.calls = <<>> /\ m.callId \in state.pending
  IN [ok |-> state.ok /\ ok,
      pending |-> CASE m.role = "assistant" -> IdsOf(m)
                    [] m.role = "tool" -> state.pending \ {m.callId}
                    [] OTHER -> {}]

(* A fault: the first result closes the round.                             *)
ReadOneResult(state, m) ==
  LET ok == \/ m.role = "user" /\ state.pending = {} /\ m.calls = <<>>
            \/ m.role = "assistant" /\ state.pending = {} /\ CallsProper(m)
            \/ m.role = "tool" /\ m.calls = <<>> /\ m.callId \in state.pending
  IN [ok |-> state.ok /\ ok, pending |-> IF m.role = "assistant" THEN IdsOf(m) ELSE {}]

ReadMessage(state, m) ==
  LET ok == \/ m.role = "user" /\ state.pending = {} /\ m.calls = <<>>
            \/ m.role = "assistant" /\ state.pending = {} /\ CallsProper(m)
            \/ m.role = "tool" /\ m.calls = <<>> /\ m.callId \in state.pending
  IN [ok |-> state.ok /\ ok,
      pending |-> CASE m.role = "assistant" -> IdsOf(m)
                    [] m.role = "tool" -> state.pending \ {m.callId}
                    [] OTHER -> state.pending]

ValidTurn(messages) ==
  /\ Len(messages) \in 1..MaxMessages
  /\ FoldLeft(ReadMessage, Start, messages) = Start

-----------------------------------------------------------------------------
(* The same said of the whole conversation at once: after every message    *)
(* that is not a result stand exactly the results of its calls, one each.  *)
ResultsAfter(messages, i) ==
  {k \in i + 1 .. Len(messages) : \A j \in i + 1 .. k : messages[j].role = "tool"}

WellPaired(messages) ==
  /\ Len(messages) \in 1..MaxMessages
  /\ messages[1].role # "tool"
  /\ \A i \in DOMAIN messages :
       LET m == messages[i]
           results == ResultsAfter(messages, i)
       IN /\ m.role \in {"user", "assistant", "tool"}
          /\ m.role # "assistant" => m.calls = <<>>
          /\ m.role # "tool" =>
               /\ CallsProper(m)
               /\ {messages[k].callId : k \in results} = IdsOf(m)
               /\ Cardinality(results) = Len(m.calls)
=============================================================================
