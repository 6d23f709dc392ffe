----------------------------- MODULE Inference ------------------------------
(***************************************************************************)
(* What the turn pipeline may count on when it asks a provider (module     *)
(* Turns: Delta, ProviderAnswers, ProviderFails): pieces of text that are  *)
(* never taken back, then one end, an answer with a bill or a failure.     *)
(* The pieces are the beginning of the answer's text.                      *)
(***************************************************************************)
EXTENDS Naturals, Sequences

VARIABLES
  stage,        \* "ready", "working", "answered" or "failed"
  pieces,       \* text events offered to the channel
  text          \* the text of the message that answers

Begins(s, t) == Len(s) <= Len(t) /\ SubSeq(t, 1, Len(s)) = s

Init == stage = "ready" /\ pieces = <<>> /\ text = <<>>

Ask == stage = "ready" /\ stage' = "working" /\ UNCHANGED <<pieces, text>>

Delta ==
  /\ stage = "working"
  /\ Begins(pieces, pieces')
  /\ UNCHANGED <<stage, text>>

Answer == stage = "working" /\ stage' = "answered" /\ Begins(pieces, text') /\ UNCHANGED pieces

(* The event that breaks a stream may come with the last piece.            *)
Fail ==
  /\ stage = "working" /\ stage' = "failed"
  /\ Begins(pieces, pieces')
  /\ UNCHANGED text

(* The client asks again in a turn of its own.                             *)
Again == stage \in {"answered", "failed"} /\ Init'

Next == Ask \/ Delta \/ Answer \/ Fail \/ Again

Spec == Init /\ [][Next]_<<stage, pieces, text>>
=============================================================================
