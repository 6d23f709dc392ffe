------------------------------ MODULE MCTurns -------------------------------
(* Attempts that compete for two permits and for the request ids of one    *)
(* user, a retried id among them, over channels of one or two places.      *)
EXTENDS Turns, TLC

CONSTANTS r1, r2, tA, ann, a1, a2, a3

MCRequests == {r1, r2}
MCTenants == {tA}
MCUsers == {ann}
MCTenantOf == ann :> tA
MCOwnerOf == [r \in Requests |-> ann]
MCDays == {1}
MCAmounts == {2}
MCCharges == {-1, 1, 3}
MCLimitsOf == [o \in MCTenants \cup MCUsers |-> IF o \in MCTenants THEN {4} ELSE {2, 4}]

Symmetry == Permutations(Attempts) \cup Permutations(Requests)
=============================================================================
