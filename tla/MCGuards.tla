------------------------------ MODULE MCGuards ------------------------------
(* Three keys of two peers over a table of two windows, judged by two      *)
(* workers; three sign-ins for two live sessions, and two form posts.      *)
EXTENDS Guards, TLC

CONSTANTS p1, p2, w1, w2, s1, s2, s3, r1, r2

MCPeerKeys == {<<p1, "exchange">>, <<p1, "other">>, <<p2, "exchange">>}
MCQuotaOf == [exchange |-> 1, other |-> 2]

Symmetry ==
  Permutations(Workers) \cup Permutations(Requests) \cup Permutations(Sessions)
=============================================================================
