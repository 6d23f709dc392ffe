--------------------------- MODULE MCSqliteLedger ---------------------------
(* Two requests of two users of one tenant, contended by concurrent        *)
(* writers; limits that let one reservation or both through.               *)
EXTENDS SqliteLedger, TLC

CONSTANTS r1, r2, tA, ann, bob, w1, w2, w3

MCRequests == {r1, r2}
MCTenants == {tA}
MCUsers == {ann, bob}
MCTenantOf == (ann :> tA) @@ (bob :> tA)
MCOneUser == {ann}
MCTenantOfOne == ann :> tA
(* Amounts and charges that reach the accounts, and those at the edge of   *)
(* what the first test of each call refuses.                               *)
MCAmounts == {2}
MCCharges == {1, 3}
MCEdgeAmounts == {0, 1}
MCEdgeCharges == {-1, 0}
MCLimitsOf == [o \in MCTenants \cup MCUsers |-> IF o \in MCTenants THEN {3} ELSE {2}]
MCOneLimit == [o \in MCTenants \cup MCOneUser |-> {2}]
MCDays == 1..LastDay

(* Requests and writers are told apart by equality only.                   *)
Symmetry == Permutations(MCRequests) \cup Permutations(Writers)
=============================================================================
