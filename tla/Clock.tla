------------------------------- MODULE Clock --------------------------------
(* The monotonic clock of the process (std::time::Instant), in ticks.      *)
EXTENDS Integers

CONSTANT LastTick     \* bound: the clock stops here

ASSUME LastTickAssumption == LastTick \in Nat

VARIABLE now

ClockInit == now = 0

ClockTick == now < LastTick /\ now' = now + 1
=============================================================================
