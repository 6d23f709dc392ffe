------------------------------- MODULE Policy -------------------------------
(***************************************************************************)
(* What the gateway may do for whom: the configuration of src/config.rs,   *)
(* the policy administration saves over it and the edits of the panel      *)
(* (src/admin/model.rs).                                                   *)
(*                                                                         *)
(* A configuration is a record [models, products, origins]: the registry   *)
(* of models, a product per issuer, and the browser origins.  Vectors      *)
(* whose keys Config::validate keeps unique are functions or sets here,    *)
(* and a product without a default has its first model as default, which   *)
(* is how model_policy and Policy::from_config both read it.  Secrets,     *)
(* provider addresses and prices belong to the environment alone.          *)
(***************************************************************************)
EXTENDS Integers, FiniteSets

CONSTANTS
  Issuers,      \* products
  Tenants,      \* customers of a product: names that are not blank
  Subjects,     \* users of a customer
  ModelIds,     \* aliases a registry may hold
  Spellings,    \* what may be typed or configured as an origin
  NormalOf,     \* the url crate's normal form of a spelling
  MaxOrigins,   \* origins::MAX_ORIGINS (64)
  MaxInput,     \* largest max_input_tokens (1 000 000)
  MaxOutput     \* largest max_output_tokens (32 768)

NoSubject == "none"
Refused == "refused"

ASSUME NamesAssumption == NoSubject \notin Subjects /\ IsFiniteSet(Spellings)
ASSUME NormalFormAssumption ==
  /\ Refused \notin Spellings
  /\ NormalOf \in [Spellings -> Spellings \cup {Refused}]
  /\ \A s \in Spellings : NormalOf[s] # Refused => NormalOf[NormalOf[s]] = NormalOf[s]
ASSUME BoundsAssumption == MaxOrigins \in Nat /\ MaxInput \in Nat /\ MaxOutput \in Nat

Keys == Tenants \X (Subjects \cup {NoSubject})
Customers == Issuers \X Tenants \X Subjects
Origins == {s \in Spellings : NormalOf[s] = s}

(* What a configuration and a policy document look like.                   *)
Limits == [maxInput : Nat, maxOutput : Nat]
Rules == [models : SUBSET ModelIds, default : ModelIds, selection : BOOLEAN]

IsProduct(p) ==
  /\ p \in [models : SUBSET ModelIds, default : ModelIds, tenantLimit : Int, userLimit : Int,
            clients : {p.clients}, budgets : {p.budgets}]
  /\ DOMAIN p.clients \subseteq Keys /\ \A k \in DOMAIN p.clients : p.clients[k] \in Rules
  /\ DOMAIN p.budgets \subseteq Keys /\ \A k \in DOMAIN p.budgets : p.budgets[k] \in Int

HoldsTypes(x) ==
  /\ x.origins \subseteq Origins
  /\ DOMAIN x.models \subseteq ModelIds /\ \A m \in DOMAIN x.models : x.models[m] \in Limits
  /\ DOMAIN x.products \subseteq Issuers /\ \A i \in DOMAIN x.products : IsProduct(x.products[i])

(* What the form of POST /admin/policy may hold: the names are any text,   *)
(* the amounts are numbers.                                                *)
IsEdit(e) ==
  /\ e.kind \in {"origin_add", "origin_remove", "model", "product", "client", "inherit"}
  /\ e.kind \in {"origin_add", "origin_remove"} => e.origin \in Spellings
  /\ e.kind = "product" => e.tenantLimit \in Int /\ e.userLimit \in Int
  /\ e.kind = "client" => e.tenantLimit \in Int

-----------------------------------------------------------------------------
(* A fault: an origin is kept as it was typed.                             *)
Verbatim(spelling) == spelling

(* origins::normalize: lower case, no path, no default port; anything that *)
(* is not an origin a browser sends is refused.                            *)
Normalize(spelling) == NormalOf[spelling]

(* ModelConfig::validate and Config::validate.  Prices are positive and    *)
(* low enough for the largest limits to reserve within 64 bits.            *)
LimitsValid(m) == m.maxInput \in 1..MaxInput /\ m.maxOutput \in 1..MaxOutput

ProductValid(p, registry) ==
  /\ p.default \in p.models
  /\ p.models \subseteq registry
  /\ \A k \in DOMAIN p.clients :
       /\ p.clients[k].default \in p.clients[k].models
       /\ p.clients[k].models \subseteq p.models
  /\ \A k \in DOMAIN p.budgets : p.budgets[k] >= 0
  /\ p.tenantLimit > 0 /\ p.userLimit > 0

OriginsValid(origins) ==
  /\ Cardinality(origins) <= MaxOrigins
  /\ \A o \in origins : o \in Spellings /\ Normalize(o) = o

Valid(config) ==
  /\ DOMAIN config.products # {} /\ DOMAIN config.models # {}
  /\ \A m \in DOMAIN config.models : LimitsValid(config.models[m])
  /\ \A i \in DOMAIN config.products :
       ProductValid(config.products[i], DOMAIN config.models)
  /\ OriginsValid(config.origins)

-----------------------------------------------------------------------------
(* Product::model_policy: a user's rule, else its customer's, else the     *)
(* product's own models, which may all be chosen.                          *)
Unlocked(p) == [models |-> p.models, default |-> p.default, selection |-> TRUE]

Narrowed(rule) ==
  IF rule.selection THEN rule ELSE [rule EXCEPT !.models = {rule.default}]

ModelPolicy(p, tenant, subject) ==
  IF <<tenant, subject>> \in DOMAIN p.clients
  THEN Narrowed(p.clients[<<tenant, subject>>])
  ELSE IF <<tenant, NoSubject>> \in DOMAIN p.clients
       THEN Narrowed(p.clients[<<tenant, NoSubject>>]) ELSE Unlocked(p)

Permits(rule, model) == model \in rule.models /\ (rule.selection \/ model = rule.default)

(* Product::limits.                                                        *)
TenantLimit(p, tenant) ==
  IF <<tenant, NoSubject>> \in DOMAIN p.budgets THEN p.budgets[<<tenant, NoSubject>>]
                                                ELSE p.tenantLimit
UserLimit(p, tenant, subject) ==
  IF <<tenant, subject>> \in DOMAIN p.budgets THEN p.budgets[<<tenant, subject>>]
                                              ELSE p.userLimit

(* A fault: the caller's preferences are offered whatever the rule says.   *)
OfferedAll(p, rule, requested) == {rule.default} \cup (requested \cap p.models)

(* What register_with_policy puts into a manifest.                         *)
Offered(p, rule, requested) ==
  {rule.default} \cup
  (IF rule.selection
   THEN IF requested = {} THEN rule.models ELSE rule.models \cap requested
   ELSE {})

-----------------------------------------------------------------------------
(* A policy document: the nonsecret part of a configuration.  One saved    *)
(* before origins were managed in the panel does not list them; where      *)
(* nothing is saved, load_policy reads the default one, which says nothing *)
(* at all.                                                                 *)
NoPolicy == [listed |-> FALSE, origins |-> {}, models |-> <<>>, products |-> <<>>]

FromConfig(config) ==
  [listed |-> TRUE, origins |-> config.origins,
   models |-> config.models, products |-> config.products]

(* Policy::apply, before it validates: what the document says replaces     *)
(* what the environment says of the products and models it still has.      *)
Override(saved, base) ==
  [k \in DOMAIN base |-> IF k \in DOMAIN saved THEN saved[k] ELSE base[k]]

Apply(policy, env) ==
  [models   |-> Override(policy.models, env.models),
   products |-> Override(policy.products, env.products),
   origins  |-> IF policy.listed THEN policy.origins ELSE env.origins]

Loads(policy, env) == Valid(Apply(policy, env))

(* What every document that was ever saved satisfies, whatever environment *)
(* it was saved under: it was taken from a configuration that validated.   *)
WellFormed(policy) ==
  /\ \A m \in DOMAIN policy.models : LimitsValid(policy.models[m])
  /\ \A i \in DOMAIN policy.products :
       ProductValid(policy.products[i], DOMAIN policy.models)
  /\ OriginsValid(policy.origins)

-----------------------------------------------------------------------------
Without(f, k) == [j \in DOMAIN f \ {k} |-> f[j]]
With(f, k, value) == [j \in DOMAIN f \cup {k} |-> IF j = k THEN value ELSE f[j]]

(* A fault: the rules of the customer's users go with the customer's.      *)
WithoutTenant(f, tenant) == [j \in {k \in DOMAIN f : k[1] # tenant} |-> f[j]]

(* A product as an edit of kind "product", "client" or "inherit" leaves it.*)
EnableModel(p, e) ==
  [p EXCEPT !.models = @ \cup {e.model}, !.default = e.model,
            !.tenantLimit = e.tenantLimit, !.userLimit = e.userLimit]

LockCustomer(p, e) ==
  LET key == <<e.tenant, NoSubject>>
  IN [p EXCEPT !.clients = With(@, key, [models |-> {e.model}, default |-> e.model,
                                         selection |-> FALSE]),
               !.budgets = With(@, key, e.tenantLimit)]

ForgetCustomer(p, e) ==
  [p EXCEPT !.clients = WithoutTenant(@, e.tenant),
            !.budgets = WithoutTenant(@, e.tenant)]

RestoreCustomer(p, e) ==
  [p EXCEPT !.clients = Without(@, <<e.tenant, NoSubject>>),
            !.budgets = Without(@, <<e.tenant, NoSubject>>)]

(* EditPolicy::apply: the early returns, then what the edit makes of a     *)
(* configuration, which must validate.                                     *)
Understood(config, e) ==
  CASE e.kind = "origin_add" ->
         /\ Normalize(e.origin) # Refused
         /\ \/ Normalize(e.origin) \in config.origins
            \/ Cardinality(config.origins) < MaxOrigins
    [] e.kind = "origin_remove" -> Normalize(e.origin) # Refused
    [] e.kind = "model" -> e.model \in DOMAIN config.models
    [] e.kind = "product" ->
         e.issuer \in DOMAIN config.products /\ e.model \in DOMAIN config.models
    [] e.kind = "client" -> e.issuer \in DOMAIN config.products /\ e.tenant \in Tenants
    [] e.kind = "inherit" -> e.issuer \in DOMAIN config.products

Edited(config, e) ==
  CASE e.kind = "origin_add" -> [config EXCEPT !.origins = @ \cup {Normalize(e.origin)}]
    [] e.kind = "origin_remove" -> [config EXCEPT !.origins = @ \ {Normalize(e.origin)}]
    [] e.kind = "model" ->
         [config EXCEPT !.models[e.model] = [maxInput |-> e.maxInput, maxOutput |-> e.maxOutput]]
    [] e.kind = "product" -> [config EXCEPT !.products[e.issuer] = EnableModel(@, e)]
    [] e.kind = "client" -> [config EXCEPT !.products[e.issuer] = LockCustomer(@, e)]
    [] e.kind = "inherit" -> [config EXCEPT !.products[e.issuer] = RestoreCustomer(@, e)]

Accepts(config, e) == Understood(config, e) /\ Valid(Edited(config, e))
=============================================================================
