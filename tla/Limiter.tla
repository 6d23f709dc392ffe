------------------------------ MODULE Limiter -------------------------------
(***************************************************************************)
(* What a rate limit promises, however it is kept: of each kind of thing,  *)
(* at most LimitOf[k] in any SpanOf[k] ticks of one process's life.  The   *)
(* tables of src/admission.rs and the lists of src/admin/mod.rs implement  *)
(* it.                                                                     *)
(***************************************************************************)
EXTENDS Instants

CONSTANTS
  Kinds,
  SpanOf,       \* \in [Kinds -> Nat \ {0}]
  LimitOf       \* \in [Kinds -> Nat \ {0}]

VARIABLES
  now,
  granted       \* the instants within the last span at which each was granted

Nothing == [k \in Kinds |-> <<>>]

Init == granted = Nothing

Grant(k) ==
  /\ Len(granted[k]) < LimitOf[k]
  /\ granted' = [granted EXCEPT ![k] = Append(@, now)]
  /\ UNCHANGED now

Wait ==
  /\ now' > now
  /\ granted' = [k \in Kinds |-> Later(granted[k], now' - SpanOf[k])]

(* Limits are kept in memory.                                              *)
Restart == granted' = Nothing /\ UNCHANGED now

Next == (\E k \in Kinds : Grant(k)) \/ Wait \/ Restart

Spec == Init /\ [][Next]_<<now, granted>>
=============================================================================
