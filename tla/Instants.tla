------------------------------ MODULE Instants ------------------------------
(***************************************************************************)
(* What the guards of the process keep: lists of instants and tables keyed *)
(* by peer or token.  Later is SelectSeq of an instant's test, written out *)
(* as the function it computes, so that theorems can reason about it.      *)
(***************************************************************************)
EXTENDS Integers, Sequences

(* Vec::retain: the instants after t, in their order.                      *)
Later(times, t) ==
  LET kept[i \in 0..Len(times)] ==
        IF i = 0 THEN <<>>
        ELSE IF times[i] > t THEN Append(kept[i - 1], times[i]) ELSE kept[i - 1]
  IN kept[Len(times)]

(* HashMap::insert.                                                        *)
With(table, key, value) ==
  [k \in {key} \cup DOMAIN table |-> IF k = key THEN value ELSE table[k]]
=============================================================================
