------------------------------ MODULE MCLedger ------------------------------
(* Two users of one tenant and one of another, two days, and limits that   *)
(* a policy save may change, with charges below, at and above the          *)
(* reservation.                                                            *)
EXTENDS Ledger, TLC

CONSTANTS r1, r2, r3, tA, tB, ann, bob, cid

MCRequests == {r1, r2, r3}
MCTenants == {tA, tB}
MCUsers == {ann, bob, cid}
MCTenantOf == (ann :> tA) @@ (bob :> tA) @@ (cid :> tB)
MCDays == 1..2
MCAmounts == {-1, 0, 1, 2}
MCCharges == {-1, 0, 1, 4}
MCLimitsOf == [o \in MCTenants \cup MCUsers |-> IF o \in MCTenants THEN {2, 3} ELSE {2}]
MCMaxMicros == 6

(* Requests are keys of one table: only equality tells them apart.         *)
RequestSymmetry == Permutations(MCRequests)
=============================================================================
