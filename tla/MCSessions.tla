----------------------------- MODULE MCSessions -----------------------------
(* Two tickets of one login with keys of their own, a replay of the first  *)
(* key with later dates, a ticket of another login, and one that claims    *)
(* too long a life.                                                        *)
EXTENDS Sessions, TLC

CONSTANTS k1, k2, k3, alice, zoe, e1, e2, e3, c1, c2

MCClaimsOf ==
  [first  |-> [login |-> alice, key |-> k1, iat |-> 0, exp |-> 2, sessionExp |-> 2],
   second |-> [login |-> alice, key |-> k2, iat |-> 1, exp |-> 2, sessionExp |-> 4],
   replay |-> [login |-> alice, key |-> k1, iat |-> 1, exp |-> 3, sessionExp |-> 4],
   other  |-> [login |-> zoe,   key |-> k3, iat |-> 1, exp |-> 3, sessionExp |-> 9],
   long   |-> [login |-> zoe,   key |-> k3, iat |-> 0, exp |-> 4, sessionExp |-> 9]]
MCTickets == DOMAIN MCClaimsOf

Symmetry == Permutations(Exchanges) \cup Permutations(Calls)
=============================================================================
