--------------------------- MODULE MCPolicyStore --------------------------
(* One product with two customers: the first may choose between models and *)
(* its user has a budget of its own, the second has a user with a rule of  *)
(* its own.  One edit of each kind that is accepted and, of the origins,   *)
(* one that is refused.                                                    *)
EXTENDS PolicyStore, TLC

CONSTANTS shop, acme, bolt, ann, m1, m2, s1, s2

MCTenants == {acme, bolt}
MCNormalOf == [home |-> "home", HOME |-> "home", desk |-> "desk", path |-> Refused]
MCSpellings == DOMAIN MCNormalOf

MCLimits == [maxInput |-> 2, maxOutput |-> 1]
MCProduct ==
  [models |-> {m1}, default |-> m1, tenantLimit |-> 5, userLimit |-> 3,
   clients |-> (<<acme, NoSubject>> :> [models |-> {m1}, default |-> m1, selection |-> TRUE])
            @@ (<<bolt, ann>> :> [models |-> {m1}, default |-> m1, selection |-> FALSE]),
   budgets |-> <<acme, ann>> :> 1]
(* The registry the service starts with, and one that has lost m1.         *)
MCFull == [models |-> (m1 :> MCLimits) @@ (m2 :> MCLimits), origins |-> {"home"},
           products |-> shop :> MCProduct]
MCShrunk == [models |-> m2 :> MCLimits, origins |-> {},
             products |-> shop :> [MCProduct EXCEPT !.models = {m2}, !.default = m2,
                                                    !.clients = <<>>]]
MCEnvironments == {MCFull, MCShrunk}

(* A document from before origins were managed in the panel.               *)
MCLegacy == [FromConfig(MCFull) EXCEPT !.listed = FALSE, !.origins = {}]
MCSavedPolicies == {NoPolicy, MCLegacy}
MCOnlyNoPolicy == {NoPolicy}

MCProductEdit(m) ==
  [kind |-> "product", issuer |-> shop, model |-> m, tenantLimit |-> 4, userLimit |-> 2]
MCClientEdit(tenant, m, limit) ==
  [kind |-> "client", issuer |-> shop, tenant |-> tenant, model |-> m, tenantLimit |-> limit]
MCEdits ==
  {MCProductEdit(m2), MCClientEdit(acme, m2, 0),
   [kind |-> "inherit", issuer |-> shop, tenant |-> acme],
   [kind |-> "model", model |-> m2, maxInput |-> 1, maxOutput |-> 1],
   [kind |-> "origin_add", origin |-> "desk"], [kind |-> "origin_add", origin |-> "path"],
   [kind |-> "origin_remove", origin |-> "HOME"]}
MCPreferences == {{}, {m2}}

(* Edits of the origins, and edits that move a product to another model.   *)
MCOriginEdits == {[kind |-> "origin_add", origin |-> "desk"],
                  [kind |-> "origin_remove", origin |-> "home"]}
MCMoves == {MCProductEdit(m2), MCClientEdit(acme, m2, 1),
            [kind |-> "inherit", issuer |-> shop, tenant |-> acme]}
MCPlainProduct == [MCProduct EXCEPT !.clients = <<>>, !.budgets = <<>>]
MCMoveEnvironments == {[MCFull EXCEPT !.products = shop :> MCPlainProduct], MCShrunk}

Symmetry == Permutations(Saves)
=============================================================================
