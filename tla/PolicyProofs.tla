---------------------------- MODULE PolicyProofs ----------------------------
(* Theorems about the policy and its administration, for every set of      *)
(* issuers, customers, models and origins, every normal form of origins,   *)
(* every set of environments that validate, of documents that were saved   *)
(* and of edits, and any number of saves under way.                        *)
EXTENDS PolicyStore, TLAPS

(***************************************************************************)
(* The operators of module Policy.                                         *)
(***************************************************************************)

(* A configuration as Policy::apply and the edits build it.                *)
IsConfig(config) ==
  /\ config \in [models : {config.models}, products : {config.products}, origins : {config.origins}]
  /\ HoldsTypes(config)

LEMMA OverrideDomain ==
  ASSUME NEW saved, NEW base
  PROVE  /\ DOMAIN Override(saved, base) = DOMAIN base
         /\ \A k \in DOMAIN base :
              Override(saved, base)[k] = IF k \in DOMAIN saved THEN saved[k] ELSE base[k]
BY DEF Override

(* Merging a document with an environment makes a configuration.           *)
LEMMA ApplyTypes ==
  ASSUME NEW doc, NEW base, doc.listed \in BOOLEAN, HoldsTypes(doc), HoldsTypes(base)
  PROVE  IsConfig(Apply(doc, base))
<1> DEFINE new == Apply(doc, base)
<1>1. /\ new \in [models : {new.models}, products : {new.products}, origins : {new.origins}]
      /\ new.models = Override(doc.models, base.models)
      /\ new.products = Override(doc.products, base.products)
      /\ new.origins = IF doc.listed THEN doc.origins ELSE base.origins
  BY DEF Apply
<1> HIDE DEF new
<1>2. HoldsTypes(new)
  BY <1>1, OverrideDomain DEF HoldsTypes
<1> QED
  BY <1>1, <1>2 DEF IsConfig, new

(* A document that was saved validates over another environment, unless a  *)
(* product that both have lists a model that the environment lost.         *)
LEMMA LoadsUnlessShrunk ==
  ASSUME NEW doc, NEW base, doc.listed \in BOOLEAN, WellFormed(doc), Valid(base),
         \A i \in DOMAIN doc.products \cap DOMAIN base.products :
           doc.products[i].models \subseteq DOMAIN base.models
  PROVE  Loads(doc, base)
<1> DEFINE new == Apply(doc, base)
<1>1. /\ new.models = Override(doc.models, base.models)
      /\ new.products = Override(doc.products, base.products)
      /\ new.origins = IF doc.listed THEN doc.origins ELSE base.origins
  BY DEF Apply
<1> HIDE DEF new
<1>2. DOMAIN new.products = DOMAIN base.products /\ DOMAIN new.models = DOMAIN base.models
  BY <1>1, OverrideDomain
<1>3. \A m \in DOMAIN new.models : LimitsValid(new.models[m])
  BY <1>1, <1>2, OverrideDomain DEF WellFormed, Valid
<1>4. ASSUME NEW i \in DOMAIN new.products
      PROVE  ProductValid(new.products[i], DOMAIN new.models)
  <2>1. CASE i \in DOMAIN doc.products
    <3>1. new.products[i] = doc.products[i] /\ i \in DOMAIN base.products
      BY <1>1, <1>2, <1>4, <2>1, OverrideDomain
    <3>2. ProductValid(doc.products[i], DOMAIN doc.models)
      BY <2>1 DEF WellFormed
    <3>3. doc.products[i].models \subseteq DOMAIN new.models
      BY <1>2, <2>1, <3>1
    <3> QED
      BY <3>1, <3>2, <3>3 DEF ProductValid
  <2>2. CASE i \notin DOMAIN doc.products
    BY <1>1, <1>2, <1>4, <2>2, OverrideDomain DEF Valid
  <2> QED
    BY <2>1, <2>2
<1>5. OriginsValid(new.origins)
  BY <1>1 DEF WellFormed, Valid
<1>6. DOMAIN new.products # {} /\ DOMAIN new.models # {}
  BY <1>2 DEF Valid
<1> QED
  BY <1>3, <1>4, <1>5, <1>6 DEF Loads, Valid, new

(* What is saved is taken from a configuration that validated.             *)
LEMMA SavedIsWellFormed ==
  ASSUME NEW config, Valid(config)
  PROVE  WellFormed(FromConfig(config))
BY DEF Valid, WellFormed, FromConfig

(* An edit changes one part of a configuration.                            *)
EditOf(product, e) ==
  IF e.kind = "product" THEN EnableModel(product, e)
  ELSE IF e.kind = "client" THEN LockCustomer(product, e) ELSE RestoreCustomer(product, e)

LEMMA EditShape ==
  ASSUME NEW config, IsConfig(config), NEW e, IsEdit(e), Understood(config, e)
  PROVE  LET new == Edited(config, e)
         IN /\ new \in [models : {new.models}, products : {new.products}, origins : {new.origins}]
            /\ \/ /\ e.kind \in {"origin_add", "origin_remove"}
                  /\ new.models = config.models /\ new.products = config.products
                  /\ new.origins \in {config.origins \cup {Normalize(e.origin)},
                                      config.origins \ {Normalize(e.origin)}}
               \/ /\ e.kind = "model" /\ e.model \in DOMAIN config.models
                  /\ new.models = [config.models EXCEPT ![e.model] =
                                     [maxInput |-> e.maxInput, maxOutput |-> e.maxOutput]]
                  /\ new.products = config.products /\ new.origins = config.origins
               \/ /\ e.kind \in {"product", "client", "inherit"}
                  /\ e.issuer \in DOMAIN config.products
                  /\ new.models = config.models /\ new.origins = config.origins
                  /\ new.products = [config.products EXCEPT ![e.issuer] =
                                       EditOf(config.products[e.issuer], e)]
<1> DEFINE new == Edited(config, e)
<1>0. config \in [models : {config.models}, products : {config.products}, origins : {config.origins}]
  BY DEF IsConfig
<1>1. CASE e.kind = "origin_add"
  <2>1. new = [config EXCEPT !.origins = @ \cup {Normalize(e.origin)}]
    BY <1>1 DEF Edited
  <2> QED
    BY <1>0, <1>1, <2>1
<1>2. CASE e.kind = "origin_remove"
  <2>1. new = [config EXCEPT !.origins = @ \ {Normalize(e.origin)}]
    BY <1>2 DEF Edited
  <2> QED
    BY <1>0, <1>2, <2>1
<1>3. CASE e.kind = "model"
  <2>1. /\ new = [config EXCEPT !.models[e.model] =
                    [maxInput |-> e.maxInput, maxOutput |-> e.maxOutput]]
        /\ e.model \in DOMAIN config.models
    BY <1>3 DEF Edited, Understood
  <2> QED
    BY <1>0, <1>3, <2>1
<1>4. CASE e.kind \in {"product", "client", "inherit"}
  <2>1. e.issuer \in DOMAIN config.products
    BY <1>4 DEF Understood
  <2>2. new = [config EXCEPT !.products[e.issuer] = EditOf(config.products[e.issuer], e)]
    BY <1>4 DEF Edited, EditOf
  <2> QED
    BY <1>0, <1>4, <2>1, <2>2
<1> QED
  BY <1>1, <1>2, <1>3, <1>4 DEF IsEdit

(* A product that an edit leaves valid has the types of a product.         *)
LEMMA EditedProductTypes ==
  ASSUME NEW p, IsProduct(p), NEW e, IsEdit(e),
         e.kind \in {"product", "client", "inherit"}, e.kind = "client" => e.tenant \in Tenants,
         NEW registry, registry \subseteq ModelIds, ProductValid(EditOf(p, e), registry)
  PROVE  IsProduct(EditOf(p, e))
<1> DEFINE q == EditOf(p, e)
           key == <<e.tenant, NoSubject>>
           rule == [models |-> {e.model}, default |-> e.model, selection |-> FALSE]
<1>0. p \in [models : SUBSET ModelIds, default : ModelIds, tenantLimit : Int, userLimit : Int,
            clients : {p.clients}, budgets : {p.budgets}]
  BY DEF IsProduct
<1>1. CASE e.kind = "product"
  <2>1. /\ q.models = p.models \cup {e.model} /\ q.default = e.model
        /\ q.tenantLimit = e.tenantLimit /\ q.userLimit = e.userLimit
        /\ q.clients = p.clients /\ q.budgets = p.budgets
        /\ q \in [models : {q.models}, default : {q.default}, tenantLimit : {q.tenantLimit},
                  userLimit : {q.userLimit}, clients : {q.clients}, budgets : {q.budgets}]
    BY <1>0, <1>1 DEF EditOf, EnableModel
  <2> HIDE DEF q
  <2>2. q.models \subseteq ModelIds /\ q.default \in ModelIds
    BY DEF ProductValid, q
  <2>3. q.tenantLimit \in Int /\ q.userLimit \in Int
    BY <1>1, <2>1 DEF IsEdit
  <2>4. IsProduct(q)
    BY <2>1, <2>2, <2>3 DEF IsProduct
  <2> QED
    BY <2>4 DEF q
<1>2. CASE e.kind = "client"
  <2>0. e.tenant \in Tenants /\ key \in Keys /\ e.tenantLimit \in Int
    BY <1>2 DEF Keys, IsEdit
  <2>1. /\ q.models = p.models /\ q.default = p.default
        /\ q.tenantLimit = p.tenantLimit /\ q.userLimit = p.userLimit
        /\ q.clients = With(p.clients, key, rule) /\ q.budgets = With(p.budgets, key, e.tenantLimit)
        /\ q \in [models : {q.models}, default : {q.default}, tenantLimit : {q.tenantLimit},
                  userLimit : {q.userLimit}, clients : {q.clients}, budgets : {q.budgets}]
    BY <1>0, <1>2 DEF EditOf, LockCustomer
  <2> HIDE DEF q
  <2>2. /\ DOMAIN q.clients = DOMAIN p.clients \cup {key}
        /\ \A k \in DOMAIN q.clients : q.clients[k] = IF k = key THEN rule ELSE p.clients[k]
        /\ DOMAIN q.budgets = DOMAIN p.budgets \cup {key}
        /\ \A k \in DOMAIN q.budgets : q.budgets[k] = IF k = key THEN e.tenantLimit ELSE p.budgets[k]
    BY <2>1 DEF With
  <2>3. rule \in Rules
    <3>1. q.clients[key] = rule /\ key \in DOMAIN q.clients
      BY <2>2
    <3>2. e.model \in q.models
      BY <3>1 DEF ProductValid, q
    <3>3. e.model \in ModelIds
      BY <1>0, <2>1, <3>2
    <3> QED
      BY <3>3 DEF Rules
  <2> HIDE DEF rule, key
  <2>4. IsProduct(q)
    BY <1>0, <2>0, <2>1, <2>2, <2>3 DEF IsProduct
  <2> QED
    BY <2>4 DEF q
<1>3. CASE e.kind = "inherit"
  <2>1. /\ q.models = p.models /\ q.default = p.default
        /\ q.tenantLimit = p.tenantLimit /\ q.userLimit = p.userLimit
        /\ q.clients = Without(p.clients, key) /\ q.budgets = Without(p.budgets, key)
        /\ q \in [models : {q.models}, default : {q.default}, tenantLimit : {q.tenantLimit},
                  userLimit : {q.userLimit}, clients : {q.clients}, budgets : {q.budgets}]
    BY <1>0, <1>3 DEF EditOf, RestoreCustomer
  <2> HIDE DEF q
  <2>2. /\ DOMAIN q.clients = DOMAIN p.clients \ {key}
        /\ \A k \in DOMAIN q.clients : q.clients[k] = p.clients[k]
        /\ DOMAIN q.budgets = DOMAIN p.budgets \ {key}
        /\ \A k \in DOMAIN q.budgets : q.budgets[k] = p.budgets[k]
    BY <2>1 DEF Without
  <2> HIDE DEF key
  <2>3. IsProduct(q)
    BY <1>0, <2>1, <2>2 DEF IsProduct
  <2> QED
    BY <2>3 DEF q
<1> QED
  BY <1>1, <1>2, <1>3

(* What an accepted edit leaves is a configuration with the same models    *)
(* and the same products.                                                  *)
LEMMA AcceptedEdit ==
  ASSUME NEW config, IsConfig(config), NEW e, IsEdit(e), Accepts(config, e)
  PROVE  LET new == Edited(config, e)
         IN /\ IsConfig(new) /\ Valid(new)
            /\ DOMAIN new.models = DOMAIN config.models
            /\ DOMAIN new.products = DOMAIN config.products
<1> DEFINE new == Edited(config, e)
<1>0. Understood(config, e) /\ Valid(new) /\ HoldsTypes(config)
  BY DEF Accepts, IsConfig
<1>1. new \in [models : {new.models}, products : {new.products}, origins : {new.origins}]
  BY <1>0, EditShape
<1>2. CASE e.kind \in {"origin_add", "origin_remove"}
  <2>1. new.models = config.models /\ new.products = config.products
    BY <1>0, <1>2, EditShape
  <2> HIDE DEF new
  <2>2. new.origins \subseteq Origins
    BY <1>0 DEF Valid, OriginsValid, Origins, Normalize
  <2> QED
    BY <1>0, <1>1, <2>1, <2>2 DEF HoldsTypes, IsConfig, new
<1>3. CASE e.kind = "model"
  <2> DEFINE limits == [maxInput |-> e.maxInput, maxOutput |-> e.maxOutput]
  <2>1. /\ e.model \in DOMAIN config.models
        /\ new.models = [config.models EXCEPT ![e.model] = limits]
        /\ new.products = config.products /\ new.origins = config.origins
    BY <1>0, <1>3, EditShape
  <2>2. limits \in Limits
    <3>1. LimitsValid(new.models[e.model]) /\ new.models[e.model] = limits
      BY <1>0, <2>1 DEF Valid
    <3> QED
      BY <3>1, BoundsAssumption DEF LimitsValid, Limits
  <2> HIDE DEF new, limits
  <2> QED
    BY <1>0, <1>1, <2>1, <2>2 DEF HoldsTypes, IsConfig, new
<1>4. CASE e.kind \in {"product", "client", "inherit"}
  <2>1. /\ e.issuer \in DOMAIN config.products
        /\ new.models = config.models /\ new.origins = config.origins
        /\ new.products = [config.products EXCEPT ![e.issuer] = EditOf(config.products[e.issuer], e)]
    BY <1>0, <1>4, EditShape
  <2>2. IsProduct(EditOf(config.products[e.issuer], e))
    <3>1. IsProduct(config.products[e.issuer]) /\ DOMAIN config.models \subseteq ModelIds
      BY <1>0, <2>1 DEF HoldsTypes
    <3>2. e.kind = "client" => e.tenant \in Tenants
      BY <1>0 DEF Understood
    <3>3. ProductValid(EditOf(config.products[e.issuer], e), DOMAIN config.models)
      <4>1. e.issuer \in DOMAIN new.products
        BY <2>1
      <4>2. ProductValid(new.products[e.issuer], DOMAIN new.models)
        BY <1>0, <4>1 DEF Valid
      <4>3. new.products[e.issuer] = EditOf(config.products[e.issuer], e)
        BY <2>1
      <4> QED
        BY <2>1, <4>2, <4>3
    <3> QED
      BY <1>4, <3>1, <3>2, <3>3, EditedProductTypes
  <2> HIDE DEF new
  <2>3. /\ DOMAIN new.products = DOMAIN config.products
        /\ \A i \in DOMAIN new.products : IsProduct(new.products[i])
    BY <1>0, <2>1, <2>2 DEF HoldsTypes
  <2> QED
    BY <1>0, <1>1, <2>1, <2>3 DEF HoldsTypes, IsConfig, new
<1> QED
  BY <1>2, <1>3, <1>4 DEF IsEdit

(* What was saved and is read again under the same environment is what the *)
(* edit made.                                                              *)
LEMMA ReadBack ==
  ASSUME NEW doc, NEW base, doc.listed \in BOOLEAN, HoldsTypes(doc), HoldsTypes(base),
         NEW e, IsEdit(e), Accepts(Apply(doc, base), e)
  PROVE  LET config == Apply(doc, base)
             new    == Edited(config, e)
         IN Apply(FromConfig(new), base) = new
<1> DEFINE config == Apply(doc, base)
           new == Edited(config, e)
<1>1. IsConfig(config)
  BY ApplyTypes
<1>2. /\ DOMAIN config.models = DOMAIN base.models /\ DOMAIN config.products = DOMAIN base.products
      /\ config.models = [m \in DOMAIN config.models |-> config.models[m]]
      /\ config.products = [i \in DOMAIN config.products |-> config.products[i]]
  <2>1. config.models = Override(doc.models, base.models)
        /\ config.products = Override(doc.products, base.products)
    BY DEF Apply
  <2> HIDE DEF config
  <2> QED
    BY <2>1 DEF Override
<1> HIDE DEF config
<1>3. /\ new \in [models : {new.models}, products : {new.products}, origins : {new.origins}]
      /\ DOMAIN new.models = DOMAIN base.models /\ DOMAIN new.products = DOMAIN base.products
      /\ Understood(config, e)
  BY <1>1, <1>2, AcceptedEdit DEF IsConfig, Accepts, config
<1>4. /\ new.models = [m \in DOMAIN new.models |-> new.models[m]]
      /\ new.products = [i \in DOMAIN new.products |-> new.products[i]]
  <2>1. /\ \/ new.models = config.models
           \/ new.models = [config.models EXCEPT ![e.model] =
                              [maxInput |-> e.maxInput, maxOutput |-> e.maxOutput]]
        /\ \/ new.products = config.products
           \/ new.products = [config.products EXCEPT ![e.issuer] =
                                EditOf(config.products[e.issuer], e)]
    BY <1>1, <1>3, EditShape
  <2> HIDE DEF new
  <2>2. new.models = [m \in DOMAIN new.models |-> new.models[m]]
    BY <1>2, <2>1
  <2>3. new.products = [i \in DOMAIN new.products |-> new.products[i]]
    BY <1>2, <2>1
  <2> QED
    BY <2>2, <2>3
<1> HIDE DEF new
<1>5. /\ FromConfig(new).listed = TRUE /\ FromConfig(new).origins = new.origins
      /\ FromConfig(new).models = new.models /\ FromConfig(new).products = new.products
  BY DEF FromConfig
<1>6. Override(new.models, base.models) = new.models
  BY <1>3, <1>4 DEF Override
<1>7. Override(new.products, base.products) = new.products
  BY <1>3, <1>4 DEF Override
<1> QED
  BY <1>3, <1>5, <1>6, <1>7 DEF Apply, new, config

(***************************************************************************)
(* Rules and offers.                                                       *)
(***************************************************************************)

(* The rule that speaks of a customer stays within a valid product.        *)
LEMMA RuleStaysInside ==
  ASSUME NEW p, NEW registry, IsProduct(p), ProductValid(p, registry), NEW t, NEW u
  PROVE  LET rule == ModelPolicy(p, t, u)
         IN /\ rule.default \in rule.models /\ rule.models \subseteq p.models
            /\ p.models \subseteq registry
            /\ rule.selection \in BOOLEAN
            /\ Permits(rule, rule.default)
            /\ \A m : Permits(rule, m) => m \in p.models
<1> DEFINE rule == ModelPolicy(p, t, u)
<1>1. ASSUME NEW k \in DOMAIN p.clients
      PROVE  LET r == Narrowed(p.clients[k])
             IN r.default \in r.models /\ r.models \subseteq p.models /\ r.selection \in BOOLEAN
  <2>1. /\ p.clients[k] \in Rules
        /\ p.clients[k].default \in p.clients[k].models /\ p.clients[k].models \subseteq p.models
    BY DEF IsProduct, ProductValid
  <2> QED
    BY <2>1 DEF Narrowed, Rules
<1>2. LET r == Unlocked(p)
      IN r.default \in r.models /\ r.models \subseteq p.models /\ r.selection \in BOOLEAN
  BY DEF Unlocked, ProductValid
<1>3. rule.default \in rule.models /\ rule.models \subseteq p.models /\ rule.selection \in BOOLEAN
  BY <1>1, <1>2 DEF ModelPolicy
<1> HIDE DEF rule
<1> QED
  BY <1>3 DEF Permits, ProductValid, rule

(* A registration offers only models that the rule it read permits.        *)
LEMMA OffersArePermitted ==
  ASSUME NEW p, NEW registry, IsProduct(p), ProductValid(p, registry), NEW t, NEW u,
         NEW requested
  PROVE  \A m \in Offered(p, ModelPolicy(p, t, u), requested) : Permits(ModelPolicy(p, t, u), m)
<1> DEFINE rule == ModelPolicy(p, t, u)
<1>1. rule.default \in rule.models /\ rule.selection \in BOOLEAN
  BY RuleStaysInside
<1> HIDE DEF rule
<1>2. \A m \in Offered(p, rule, requested) : Permits(rule, m)
  BY <1>1 DEF Offered, Permits
<1> QED
  BY <1>2 DEF rule

(***************************************************************************)
(* The inductive invariant.                                                *)
(***************************************************************************)

(* What is in the database was taken from a configuration that validated.  *)
Documented ==
  /\ env \in Environments
  /\ policy.listed \in BOOLEAN /\ HoldsTypes(policy) /\ WellFormed(policy)

(* A save that was committed and is still to be answered has seen the list *)
(* in effect, and the list it read.                                        *)
Refreshes(s) ==
  /\ save[s] \in {"updated", "loaded"} => policy.listed /\ policy.origins \in since[s]
  /\ save[s] = "loaded" => loaded[s] \in since[s]

(* An update that may still run has an edit to make.                       *)
Asks(s) == save[s] \in {"updating", "orphaned"} => edit[s] \in Edits

(* A manifest offers what the rules it was computed from permit.           *)
Honours(entry, c) ==
  \A m \in entry.models : Permits(ModelPolicy(entry.rules, c[2], c[3]), m)

HonoursAll(c) == \A entry \in manifests[c] \cup {registering[c]} : Honours(entry, c)

(* A turn under way has met the configuration in effect, and the one it    *)
(* read, whose products were valid.                                        *)
Sound(config) ==
  \A i \in DOMAIN config.products :
    IsProduct(config.products[i]) /\ ProductValid(config.products[i], DOMAIN config.models)

Consults(c) ==
  /\ turn[c].stage \in {"reading", "deciding"} => Consulted(Effective) \in met[c]
  /\ turn[c].stage = "deciding" => turn[c].config \in met[c] /\ Sound(turn[c].config)

PolicyInv ==
  /\ TypeOK /\ Documented
  /\ \A s \in Saves : Asks(s) /\ Refreshes(s)
  /\ \A c \in Customers : HonoursAll(c) /\ Consults(c)

(***************************************************************************)
(* The effective configuration.                                            *)
(***************************************************************************)
LEMMA EnvironmentTypes ==
  ASSUME NEW e \in Environments
  PROVE  IsConfig(e) /\ HoldsTypes(e) /\ Valid(e)
BY EnvironmentsAssumption DEF IsConfig

LEMMA EffectiveTypes ==
  ASSUME Documented
  PROVE  IsConfig(Effective) /\ HoldsTypes(Effective) /\ Effective.origins \subseteq Origins
<1>1. IsConfig(Effective)
  BY EnvironmentTypes, ApplyTypes DEF Documented, Effective
<1> QED
  BY <1>1 DEF IsConfig, HoldsTypes

LEMMA StartTypes ==
  ASSUME Documented, NEW e \in Environments
  PROVE  OriginsAtStart(policy, e) \subseteq Origins
<1>1. IsConfig(Apply(policy, e)) /\ HoldsTypes(e)
  BY EnvironmentTypes, ApplyTypes DEF Documented
<1> QED
  BY <1>1 DEF OriginsAtStart, IsConfig, HoldsTypes

(* While neither the database nor the environment changes, the effective   *)
(* configuration does not.                                                 *)
LEMMA SameEffective ==
  ASSUME UNCHANGED <<env, policy>>
  PROVE  Effective' = Effective /\ Readable' = Readable
BY DEF Effective, Readable, Apply, Override, Loads, Valid

(* A transaction that writes.                                              *)
LEMMA UpdateWrites ==
  ASSUME PolicyInv, NEW s \in Saves, RunUpdate(s), policy' # policy
  PROVE  /\ Readable /\ edit[s] \in Edits /\ IsEdit(edit[s]) /\ Accepts(Effective, edit[s])
         /\ policy' = FromConfig(Edited(Effective, edit[s]))
         /\ env' = env
         /\ IsConfig(Edited(Effective, edit[s])) /\ Valid(Edited(Effective, edit[s]))
         /\ Effective' = Edited(Effective, edit[s])
<1>1. /\ Readable /\ Accepts(Effective, edit[s]) /\ env' = env
      /\ policy' = FromConfig(Edited(Effective, edit[s]))
  BY DEF RunUpdate
<1>2. edit[s] \in Edits /\ IsEdit(edit[s])
  BY EditsAssumption DEF RunUpdate, PolicyInv, Asks
<1>3. IsConfig(Edited(Effective, edit[s])) /\ Valid(Edited(Effective, edit[s]))
  BY <1>1, <1>2, EffectiveTypes, AcceptedEdit DEF PolicyInv
<1>4. Apply(FromConfig(Edited(Effective, edit[s])), env) = Edited(Effective, edit[s])
  BY <1>1, <1>2, EnvironmentTypes, ReadBack DEF PolicyInv, Documented, Effective
<1>5. Effective' = Apply(policy', env')
  BY DEF Effective
<1>6. Effective' = Edited(Effective, edit[s])
  BY <1>1, <1>4, <1>5
<1> QED
  BY <1>1, <1>2, <1>3, <1>6

(***************************************************************************)
(* The steps.                                                              *)
(***************************************************************************)
LEMMA DocumentedStep ==
  ASSUME PolicyInv, [Next]_vars
  PROVE  Documented'
<1>0. Documented
  BY DEF PolicyInv
<1>1. CASE UNCHANGED <<env, policy>>
  BY <1>0, <1>1 DEF Documented, HoldsTypes, WellFormed, Origins, Limits, Rules, IsProduct, Keys,
                    LimitsValid, ProductValid, OriginsValid, Normalize
<1>2. ASSUME NEW s \in Saves, RunUpdate(s), policy' # policy
      PROVE  Documented'
  <2> DEFINE new == Edited(Effective, edit[s])
  <2>1. /\ policy' = FromConfig(new) /\ env' = env
        /\ IsConfig(new) /\ Valid(new)
    BY <1>2, UpdateWrites
  <2> HIDE DEF new
  <2>2. WellFormed(FromConfig(new))
    BY <2>1, SavedIsWellFormed
  <2>3. HoldsTypes(FromConfig(new)) /\ FromConfig(new).listed \in BOOLEAN
    BY <2>1 DEF IsConfig, HoldsTypes, FromConfig
  <2>4. HoldsTypes(policy') /\ WellFormed(policy') /\ policy'.listed \in BOOLEAN
    BY <2>1, <2>2, <2>3
  <2> QED
    BY <1>0, <2>1, <2>4 DEF Documented
<1>3. ASSUME NEW e \in Environments, Redeploy(e)
      PROVE  Documented'
  BY <1>0, <1>3 DEF Redeploy, Documented
<1>4. ASSUME NEW s \in Saves, RunUpdate(s)
      PROVE  env' = env
  BY <1>4 DEF RunUpdate
<1> QED
  BY <1>1, <1>2, <1>3, <1>4
     DEF Next, vars, SubmitSave, FailUpdate, LoadOrigins, FailLoad, ReplaceOrigins, DropSave,
         ComputeManifest, Register, FailRegister, Expire, FindManifest, ReadPolicy,
         Decide, LeaveTurn

LEMMA AsksStep ==
  ASSUME PolicyInv, [Next]_vars, NEW x \in Saves
  PROVE  Asks(x)'
<1>0. Asks(x) /\ DOMAIN save = Saves /\ DOMAIN edit = Saves
  BY DEF PolicyInv, TypeOK
<1>1. CASE UNCHANGED <<save, edit>>
  BY <1>0, <1>1 DEF Asks
<1>2. ASSUME NEW s \in Saves, NEW e \in Edits, SubmitSave(s, e)
      PROVE  Asks(x)'
  BY <1>0, <1>2 DEF SubmitSave, Goto, Asks
<1>3. ASSUME NEW s \in Saves, RunUpdate(s) \/ FailUpdate(s)
      PROVE  Asks(x)'
  <2>1. PICK label \in {"updated", "failed"} : Updated(s, label)
    BY <1>3 DEF RunUpdate, FailUpdate
  <2> QED
    BY <1>0, <2>1 DEF Updated, Goto, Asks
<1>4. ASSUME NEW s \in Saves, LoadOrigins(s) \/ FailLoad(s) \/ ReplaceOrigins(s) \/ DropSave(s)
      PROVE  Asks(x)'
  BY <1>0, <1>4 DEF LoadOrigins, FailLoad, ReplaceOrigins, DropSave, Goto, Asks
<1>5. ASSUME NEW e \in Environments, Redeploy(e)
      PROVE  Asks(x)'
  BY <1>0, <1>5 DEF Redeploy, Asks
<1> QED
  BY <1>1, <1>2, <1>3, <1>4, <1>5
     DEF Next, vars, saves, ComputeManifest, Register, FailRegister, Expire, FindManifest, ReadPolicy,
         Decide, LeaveTurn

(* A product that serves a customer is valid under the registry.           *)
LEMMA ServedProduct ==
  ASSUME PolicyInv, NEW c \in Customers, Served(c)
  PROVE  IsProduct(ProductOf(c)) /\ ProductValid(ProductOf(c), DOMAIN Effective.models)
<1>1. c[1] \in DOMAIN Effective.products /\ Valid(Effective)
  BY DEF Served, Readable, Loads, Effective
<1>2. HoldsTypes(Effective)
  BY EffectiveTypes DEF PolicyInv
<1> HIDE DEF Effective
<1> QED
  BY <1>1, <1>2 DEF ProductOf, Valid, HoldsTypes

LEMMA HonoursStep ==
  ASSUME PolicyInv, [Next]_vars, NEW c \in Customers
  PROVE  HonoursAll(c)'
<1>0. /\ \A d \in Customers : HonoursAll(d)
      /\ DOMAIN registering = Customers /\ DOMAIN manifests = Customers
  BY DEF PolicyInv, TypeOK
<1>1. Honours(NoManifest, c)
  BY DEF Honours, NoManifest
<1>2. CASE UNCHANGED <<registering, manifests>>
  BY <1>0, <1>2 DEF HonoursAll, Honours
<1>3. ASSUME NEW d \in Customers, NEW requested \in Preferences, ComputeManifest(d, requested)
      PROVE  HonoursAll(c)'
  <2> DEFINE entry == [models |-> Offered(ProductOf(d), RuleOf(d), requested),
                       rules |-> ProductOf(d)]
  <2>1. /\ registering' = [registering EXCEPT ![d] = entry] /\ manifests' = manifests
        /\ Served(d)
    BY <1>3 DEF ComputeManifest
  <2>2. Honours(entry, d)
    BY <2>1, ServedProduct, OffersArePermitted DEF Honours, RuleOf
  <2> HIDE DEF entry
  <2>3. c # d => registering'[c] = registering[c]
    BY <1>0, <2>1
  <2>4. c = d => registering'[c] = entry
    BY <1>0, <2>1
  <2> QED
    BY <1>0, <2>1, <2>2, <2>3, <2>4 DEF HonoursAll, Honours
<1>4. ASSUME NEW d \in Customers, Register(d) \/ FailRegister(d) \/ Expire(d)
      PROVE  HonoursAll(c)'
  <2>1. /\ registering'[c] \in {registering[c], NoManifest}
        /\ manifests'[c] \subseteq manifests[c] \cup {registering[c]}
    BY <1>0, <1>4 DEF Register, FailRegister, Expire
  <2> QED
    BY <1>0, <1>1, <2>1 DEF HonoursAll, Honours
<1>5. ASSUME NEW e \in Environments, Redeploy(e)
      PROVE  HonoursAll(c)'
  BY <1>0, <1>1, <1>5 DEF Redeploy, HonoursAll, Honours
<1> QED
  BY <1>2, <1>3, <1>4, <1>5
     DEF Next, vars, clients, SubmitSave, RunUpdate, FailUpdate, LoadOrigins, FailLoad,
         ReplaceOrigins, DropSave, FindManifest, ReadPolicy, Decide, LeaveTurn

(* A save that is under way meets every document that is written.          *)
LEMMA RefreshesStep ==
  ASSUME PolicyInv, [Next]_vars, NEW x \in Saves
  PROVE  Refreshes(x)'
<1>0. /\ Refreshes(x) /\ Documented
      /\ DOMAIN save = Saves /\ DOMAIN loaded = Saves /\ DOMAIN since = Saves
  BY DEF PolicyInv, TypeOK
<1>1. CASE UNCHANGED <<policy, saves>>
  BY <1>0, <1>1 DEF Refreshes, saves
<1>2. ASSUME NEW s \in Saves, RunUpdate(s)
      PROVE  Refreshes(x)'
  <2>1. /\ loaded' = loaded
        /\ save'[x] = "loaded" => save[x] = "loaded"
        /\ x # s => save'[x] = save[x]
    BY <1>0, <1>2 DEF RunUpdate, Updated, Goto
  <2>2. CASE Readable /\ Accepts(Effective, edit[s])
    <3>1. policy' = FromConfig(Edited(Effective, edit[s])) /\ Witnessed(s)
      BY <1>2, <2>2 DEF RunUpdate
    <3>2. policy'.listed
      BY <3>1 DEF FromConfig
    <3>3. since'[x] = IF save'[x] \in {"updated", "loaded"}
                      THEN since[x] \cup {policy'.origins} ELSE since[x]
      BY <3>1 DEF Witnessed
    <3> QED
      BY <1>0, <2>1, <3>2, <3>3 DEF Refreshes
  <2>3. CASE ~ (Readable /\ Accepts(Effective, edit[s]))
    <3>1. policy' = policy /\ since' = since /\ save'[s] = "failed"
      BY <1>0, <1>2, <2>3 DEF RunUpdate, Updated, Goto
    <3> QED
      BY <1>0, <2>1, <3>1 DEF Refreshes
  <2> QED
    BY <2>2, <2>3
<1>3. ASSUME NEW s \in Saves, LoadOrigins(s)
      PROVE  Refreshes(x)'
  <2>1. policy' = policy /\ since' = since
    BY <1>3 DEF LoadOrigins
  <2>2. CASE x = s
    <3>1. policy.listed /\ policy.origins \in since[x]
      BY <1>0, <1>3, <2>2 DEF LoadOrigins, Refreshes
    <3>2. loaded'[x] = policy.origins
      BY <1>0, <1>3, <2>2, <3>1 DEF LoadOrigins, Effective, Apply
    <3> QED
      BY <2>1, <3>1, <3>2 DEF Refreshes
  <2>3. CASE x # s
    BY <1>0, <1>3, <2>1, <2>3 DEF LoadOrigins, Goto, Refreshes
  <2> QED
    BY <2>2, <2>3
<1>4. ASSUME NEW s \in Saves,
             \/ \E e \in Edits : SubmitSave(s, e)
             \/ FailUpdate(s) \/ FailLoad(s) \/ ReplaceOrigins(s) \/ DropSave(s)
      PROVE  Refreshes(x)'
  <2>1. policy' = policy
    BY <1>4 DEF SubmitSave, FailUpdate, FailLoad, ReplaceOrigins, DropSave
  <2>2. CASE x = s
    <3>1. save'[x] \notin {"updated", "loaded"}
      BY <1>0, <1>4, <2>2
         DEF SubmitSave, FailUpdate, FailLoad, ReplaceOrigins, DropSave, Updated, Goto
    <3> QED
      BY <3>1 DEF Refreshes
  <2>3. CASE x # s
    <3>1. save'[x] = save[x] /\ loaded'[x] = loaded[x] /\ since'[x] = since[x]
      BY <1>0, <1>4, <2>3
         DEF SubmitSave, FailUpdate, FailLoad, ReplaceOrigins, DropSave, Updated, Goto, Forget
    <3> QED
      BY <1>0, <2>1, <3>1 DEF Refreshes
  <2> QED
    BY <2>2, <2>3
<1>5. ASSUME NEW e \in Environments, Redeploy(e)
      PROVE  Refreshes(x)'
  BY <1>0, <1>5 DEF Redeploy, Refreshes
<1> QED
  BY <1>1, <1>2, <1>3, <1>4, <1>5
     DEF Next, vars, ComputeManifest, Register, FailRegister, Expire, FindManifest, ReadPolicy,
         Decide, LeaveTurn

(* A turn meets every document that is written, and reads one of them.     *)
LEMMA ConsultsStep ==
  ASSUME PolicyInv, [Next]_vars, NEW x \in Customers
  PROVE  Consults(x)'
<1>0. Consults(x) /\ DOMAIN turn = Customers /\ DOMAIN met = Customers
  BY DEF PolicyInv, TypeOK
<1>1. ASSUME turn'[x] = turn[x], met[x] \subseteq met'[x],
             turn[x].stage \in {"reading", "deciding"} => Consulted(Effective') \in met'[x]
      PROVE  Consults(x)'
  BY <1>0, <1>1 DEF Consults, Consulted, Sound, IsProduct, ProductValid, Rules, Keys
<1>2. CASE UNCHANGED <<env, policy, turn, met>>
  <2>1. Effective' = Effective
    BY <1>2, SameEffective
  <2> QED
    BY <1>0, <1>1, <1>2, <2>1 DEF Consults
<1>3. ASSUME NEW s \in Saves, RunUpdate(s)
      PROVE  Consults(x)'
  <2>1. turn' = turn /\ env' = env
    BY <1>3 DEF RunUpdate
  <2>2. CASE Readable /\ Accepts(Effective, edit[s])
    <3>1. Witnessed(s)
      BY <1>3, <2>2 DEF RunUpdate
    <3>2. met'[x] = IF turn[x].stage \in {"reading", "deciding"}
                    THEN met[x] \cup {Consulted(Apply(policy', env))} ELSE met[x]
      BY <3>1 DEF Witnessed
    <3>3. Effective' = Apply(policy', env)
      BY <2>1 DEF Effective
    <3> QED
      BY <1>1, <2>1, <3>2, <3>3
  <2>3. CASE ~ (Readable /\ Accepts(Effective, edit[s]))
    BY <1>2, <1>3, <2>1, <2>3 DEF RunUpdate
  <2> QED
    BY <2>2, <2>3
<1>4. ASSUME NEW c \in Customers, UNCHANGED <<env, policy>>,
             \/ \E m \in ModelIds : FindManifest(c, m)
             \/ ReadPolicy(c) \/ Decide(c) \/ LeaveTurn(c)
      PROVE  Consults(x)'
  <2>1. Effective' = Effective
    BY <1>4, SameEffective
  <2>2. CASE x # c
    <3>1. turn'[x] = turn[x] /\ met'[x] = met[x]
      BY <1>0, <1>4, <2>2 DEF FindManifest, ReadPolicy, Decide, LeaveTurn
    <3> QED
      BY <1>0, <1>1, <2>1, <3>1 DEF Consults
  <2>3. CASE x = c
    <3>1. ASSUME NEW m \in ModelIds, FindManifest(c, m)
          PROVE  Consults(x)'
      <4>1. turn'[x] = [stage |-> "reading", model |-> m] /\ met'[x] = {Consulted(Effective)}
        BY <1>0, <2>3, <3>1 DEF FindManifest
      <4> QED
        BY <2>1, <4>1 DEF Consults, Consulted
    <3>2. CASE ReadPolicy(c)
      <4>1. /\ turn'[x] = [stage |-> "deciding", model |-> turn[x].model,
                           config |-> Consulted(Effective)]
            /\ met'[x] = met[x] /\ Consulted(Effective) \in met[x] /\ Readable
        BY <1>0, <2>3, <3>2 DEF ReadPolicy, Consults
      <4>2. Sound(Consulted(Effective))
        <5>1. HoldsTypes(Effective) /\ Valid(Effective)
          BY <4>1, EffectiveTypes DEF PolicyInv, Readable, Loads, Effective
        <5> HIDE DEF Effective
        <5> QED
          BY <5>1 DEF HoldsTypes, Valid, Sound, Consulted
      <4>3. Sound(Consulted(Effective))'
        BY <2>1, <4>2 DEF Consulted, Sound, IsProduct, ProductValid, Rules, Keys
      <4>4. turn'[x].stage = "deciding" /\ turn'[x].config = Consulted(Effective)
        BY <4>1
      <4>5. Consulted(Effective') = Consulted(Effective)
        BY <2>1
      <4> HIDE DEF Effective
      <4> QED
        BY <4>1, <4>3, <4>4, <4>5 DEF Consults
    <3>3. CASE Decide(c) \/ LeaveTurn(c)
      <4>1. turn'[x].stage \in {"reserving", "none"}
        BY <1>0, <2>3, <3>3 DEF Decide, LeaveTurn, NoTurn
      <4> QED
        BY <4>1 DEF Consults
    <3> QED
      BY <1>4, <3>1, <3>2, <3>3
  <2> QED
    BY <2>2, <2>3
<1>5. ASSUME NEW e \in Environments, Redeploy(e)
      PROVE  Consults(x)'
  BY <1>5 DEF Redeploy, Consults, NoTurn
<1>6. ASSUME NEW c \in Customers,
             \/ \E m \in ModelIds : FindManifest(c, m)
             \/ ReadPolicy(c) \/ Decide(c) \/ LeaveTurn(c)
      PROVE  UNCHANGED <<env, policy>>
  BY <1>6 DEF FindManifest, ReadPolicy, Decide, LeaveTurn
<1> QED
  BY <1>2, <1>3, <1>4, <1>5, <1>6
     DEF Next, vars, clients, SubmitSave, FailUpdate, LoadOrigins, FailLoad, ReplaceOrigins,
         DropSave, ComputeManifest, Register, FailRegister, Expire

(* What the saves keep.                                                    *)
LEMMA SaveTypesStep ==
  ASSUME PolicyInv, [Next]_vars, Documented'
  PROVE  LET Labels == {"idle", "updating", "orphaned", "updated", "loaded", "answered", "failed"}
         IN /\ live' \subseteq Origins /\ save' \in [Saves -> Labels]
            /\ edit' \in [Saves -> Edits \cup {NoEdit}] /\ loaded' \in [Saves -> SUBSET Origins]
            /\ since' \in [Saves -> SUBSET SUBSET Origins]
<1> DEFINE Labels == {"idle", "updating", "orphaned", "updated", "loaded", "answered", "failed"}
           Goal == /\ live' \subseteq Origins /\ save' \in [Saves -> Labels]
                   /\ edit' \in [Saves -> Edits \cup {NoEdit}]
                   /\ loaded' \in [Saves -> SUBSET Origins]
                   /\ since' \in [Saves -> SUBSET SUBSET Origins]
<1>0. /\ live \subseteq Origins /\ save \in [Saves -> Labels]
      /\ edit \in [Saves -> Edits \cup {NoEdit}] /\ loaded \in [Saves -> SUBSET Origins]
      /\ since \in [Saves -> SUBSET SUBSET Origins]
  BY DEF PolicyInv, TypeOK
<1>1. CASE UNCHANGED <<live, saves>>
  BY <1>0, <1>1 DEF saves
<1>2. ASSUME NEW s \in Saves, NEW e \in Edits, SubmitSave(s, e)
      PROVE  Goal
  BY <1>0, <1>2 DEF SubmitSave, Goto
<1>3. ASSUME NEW s \in Saves, RunUpdate(s) \/ FailUpdate(s)
      PROVE  Goal
  <2>1. PICK label \in {"updated", "failed"} :
          Updated(s, label) /\ live' = live /\ loaded' = loaded /\ (since' = since \/ Witnessed(s))
    BY <1>3 DEF RunUpdate, FailUpdate
  <2>2. policy'.origins \subseteq Origins
    BY DEF Documented, HoldsTypes, Origins
  <2>3. since' \in [Saves -> SUBSET SUBSET Origins]
    BY <1>0, <2>1, <2>2 DEF Witnessed
  <2> QED
    BY <1>0, <2>1, <2>3 DEF Updated, Goto
<1>4. ASSUME NEW s \in Saves, LoadOrigins(s)
      PROVE  Goal
  <2>1. Effective.origins \subseteq Origins
    BY EffectiveTypes DEF PolicyInv
  <2> QED
    BY <1>0, <1>4, <2>1 DEF LoadOrigins, Goto
<1>5. ASSUME NEW s \in Saves, FailLoad(s) \/ ReplaceOrigins(s) \/ DropSave(s)
      PROVE  Goal
  BY <1>0, <1>5 DEF FailLoad, ReplaceOrigins, DropSave, Goto, Forget
<1>6. ASSUME NEW e \in Environments, Redeploy(e)
      PROVE  Goal
  <2>1. OriginsAtStart(policy, e) \subseteq Origins
    BY <1>6, StartTypes DEF PolicyInv
  <2> QED
    BY <1>0, <1>6, <2>1 DEF Redeploy
<1> QED
  BY <1>1, <1>2, <1>3, <1>4, <1>5, <1>6
     DEF Next, vars, ComputeManifest, Register, FailRegister, Expire, FindManifest, ReadPolicy,
         Decide, LeaveTurn

(* What the registrations keep.                                            *)
ManifestTypes ==
  /\ DOMAIN registering = Customers /\ DOMAIN manifests = Customers
  /\ \A c \in Customers : \A entry \in manifests[c] \cup {registering[c]} :
       entry.models \subseteq ModelIds

LEMMA ManifestTypesStep ==
  ASSUME PolicyInv, [Next]_vars
  PROVE  ManifestTypes'
<1>0. ManifestTypes
  BY DEF PolicyInv, TypeOK, ManifestTypes
<1>1. CASE UNCHANGED <<registering, manifests>>
  BY <1>0, <1>1 DEF ManifestTypes
<1>2. ASSUME NEW d \in Customers, NEW requested \in Preferences, ComputeManifest(d, requested)
      PROVE  ManifestTypes'
  <2> DEFINE entry == [models |-> Offered(ProductOf(d), RuleOf(d), requested),
                       rules |-> ProductOf(d)]
  <2>1. /\ registering' = [registering EXCEPT ![d] = entry] /\ manifests' = manifests
        /\ Served(d)
    BY <1>2 DEF ComputeManifest
  <2>2. entry.models \subseteq ModelIds
    <3>1. IsProduct(ProductOf(d)) /\ ProductValid(ProductOf(d), DOMAIN Effective.models)
      BY <2>1, ServedProduct
    <3>2. \A m \in entry.models : Permits(RuleOf(d), m)
      BY <3>1, OffersArePermitted DEF RuleOf
    <3>3. \A m \in entry.models : m \in ProductOf(d).models
      BY <3>1, <3>2, RuleStaysInside DEF RuleOf
    <3> QED
      BY <3>1, <3>3 DEF IsProduct
  <2> HIDE DEF entry
  <2> QED
    BY <1>0, <2>1, <2>2 DEF ManifestTypes
<1>3. ASSUME NEW d \in Customers, Register(d) \/ FailRegister(d) \/ Expire(d)
      PROVE  ManifestTypes'
  <2>1. /\ DOMAIN registering' = Customers /\ DOMAIN manifests' = Customers
        /\ \A c \in Customers :
             /\ registering'[c] \in {registering[c], NoManifest}
             /\ manifests'[c] \subseteq manifests[c] \cup {registering[c]}
    BY <1>0, <1>3 DEF Register, FailRegister, Expire, ManifestTypes
  <2> QED
    BY <1>0, <2>1 DEF ManifestTypes, NoManifest
<1>4. ASSUME NEW e \in Environments, Redeploy(e)
      PROVE  ManifestTypes'
  BY <1>0, <1>4 DEF Redeploy, ManifestTypes, NoManifest
<1> QED
  BY <1>1, <1>2, <1>3, <1>4
     DEF Next, vars, clients, SubmitSave, RunUpdate, FailUpdate, LoadOrigins, FailLoad,
         ReplaceOrigins, DropSave, FindManifest, ReadPolicy, Decide, LeaveTurn

(* What the turns keep.                                                    *)
TurnTypes ==
  /\ DOMAIN turn = Customers /\ DOMAIN met = Customers
  /\ \A c \in Customers :
       /\ turn[c].stage \in {"none", "reading", "deciding", "reserving"}
       /\ turn[c] # NoTurn => turn[c].model \in ModelIds

LEMMA TurnTypesStep ==
  ASSUME PolicyInv, [Next]_vars
  PROVE  TurnTypes'
<1>0. TurnTypes
  BY DEF PolicyInv, TypeOK, TurnTypes
<1>1. ASSUME NEW s \in Saves, RunUpdate(s)
      PROVE  TurnTypes'
  BY <1>0, <1>1 DEF RunUpdate, Witnessed, TurnTypes
<1>2. CASE UNCHANGED <<turn, met>>
  BY <1>0, <1>2 DEF TurnTypes
<1>3. ASSUME NEW c \in Customers,
             \/ \E m \in ModelIds : FindManifest(c, m)
             \/ ReadPolicy(c) \/ Decide(c) \/ LeaveTurn(c)
      PROVE  TurnTypes'
  <2>1. DOMAIN turn' = Customers /\ DOMAIN met' = Customers
    BY <1>0, <1>3 DEF FindManifest, ReadPolicy, Decide, LeaveTurn, TurnTypes
  <2>2. \A x \in Customers : x # c => turn'[x] = turn[x]
    BY <1>0, <1>3 DEF FindManifest, ReadPolicy, Decide, LeaveTurn, TurnTypes
  <2>3. /\ turn'[c].stage \in {"none", "reading", "deciding", "reserving"}
        /\ turn'[c] # NoTurn => turn'[c].model \in ModelIds
    BY <1>0, <1>3 DEF FindManifest, ReadPolicy, Decide, LeaveTurn, TurnTypes, NoTurn
  <2> QED
    BY <1>0, <2>1, <2>2, <2>3 DEF TurnTypes
<1>4. ASSUME NEW e \in Environments, Redeploy(e)
      PROVE  TurnTypes'
  BY <1>4 DEF Redeploy, TurnTypes, NoTurn
<1> QED
  BY <1>1, <1>2, <1>3, <1>4
     DEF Next, vars, clients, SubmitSave, FailUpdate, LoadOrigins, FailLoad, ReplaceOrigins,
         DropSave, ComputeManifest, Register, FailRegister, Expire

LEMMA TypeStep ==
  ASSUME PolicyInv, [Next]_vars, Documented'
  PROVE  TypeOK'
<1>1. ManifestTypes' /\ TurnTypes'
  BY ManifestTypesStep, TurnTypesStep
<1> QED
  BY <1>1, SaveTypesStep DEF TypeOK, Documented, ManifestTypes, TurnTypes

LEMMA PolicyInitially ==
  Init => PolicyInv
<1> SUFFICES ASSUME Init PROVE PolicyInv
  OBVIOUS
<1>1. Documented
  BY SavedAssumption DEF Init, Documented
<1>2. live \subseteq Origins
  BY <1>1, StartTypes DEF Init, Documented
<1>3. TypeOK
  BY <1>1, <1>2 DEF Init, TypeOK, Documented, NoManifest, NoTurn
<1>4. \A s \in Saves : Asks(s) /\ Refreshes(s)
  BY DEF Init, Asks, Refreshes
<1>5. \A c \in Customers : HonoursAll(c) /\ Consults(c)
  BY DEF Init, HonoursAll, Honours, NoManifest, Consults, NoTurn
<1> QED
  BY <1>1, <1>3, <1>4, <1>5 DEF PolicyInv

LEMMA PolicyInvStep ==
  ASSUME PolicyInv, [Next]_vars
  PROVE  PolicyInv'
<1>1. Documented'
  BY DocumentedStep
<1>2. TypeOK'
  BY <1>1, TypeStep
<1>3. \A s \in Saves : Asks(s)' /\ Refreshes(s)'
  BY AsksStep, RefreshesStep
<1>4. \A c \in Customers : HonoursAll(c)' /\ Consults(c)'
  BY HonoursStep, ConsultsStep
<1> QED
  BY <1>1, <1>2, <1>3, <1>4 DEF PolicyInv

(***************************************************************************)
(* The theorems.                                                           *)
(***************************************************************************)

(* The database holds only documents taken from configurations that        *)
(* validated, saves and turns under way have met every policy written      *)
(* meanwhile, and manifests offer what their rules permit                  *)
(* (src/admin/repository.rs, save; src/service.rs, register_with_policy    *)
(* and start_turn).                                                        *)
THEOREM PoliciesStayConsistent == Spec => []PolicyInv
<1>1. Init => PolicyInv
  BY PolicyInitially
<1>2. PolicyInv /\ [Next]_vars => PolicyInv'
  BY PolicyInvStep
<1> QED
  BY <1>1, <1>2, PTL DEF Spec

(* Every document, manifest and list has the shape its readers expect.     *)
THEOREM PolicyTypes == Spec => []TypeOK
<1>1. PolicyInv => TypeOK
  BY DEF PolicyInv
<1> QED
  BY <1>1, PoliciesStayConsistent, PTL

(* No sequence of edits and redeployments leaves a policy that does not    *)
(* load, unless the environment loses a model that a product of the policy *)
(* still lists (src/service.rs, effective_config).                         *)
THEOREM SavedPoliciesLoad == Spec => []PolicyKeepsLoading
<1>1. PolicyInv => PolicyKeepsLoading
  <2> SUFFICES ASSUME PolicyInv,
                      \A i \in DOMAIN policy.products \cap DOMAIN env.products :
                        policy.products[i].models \subseteq DOMAIN env.models
               PROVE  Readable
    BY DEF PolicyKeepsLoading
  <2>1. policy.listed \in BOOLEAN /\ WellFormed(policy) /\ Valid(env)
    BY EnvironmentTypes DEF PolicyInv, Documented
  <2> QED
    BY <2>1, LoadsUnlessShrunk DEF Readable
<1> QED
  BY <1>1, PoliciesStayConsistent, PTL

(* A save answered with success leaves live a list that was in effect at   *)
(* some time since it was committed, however saves, failed refreshes and   *)
(* dropped connections interleave (src/admin/mod.rs, save; src/service.rs, *)
(* refresh_origins).                                                       *)
THEOREM AnswersAlwaysFollowARefresh == Spec => AnswersFollowARefresh
<1>1. ASSUME PolicyInv, [Next]_vars, NEW x \in Saves, save[x] # "answered", save'[x] = "answered"
      PROVE  live' \in since[x]
  <2>0. DOMAIN save = Saves /\ Refreshes(x)
    BY <1>1 DEF PolicyInv, TypeOK
  <2>1. PICK s \in Saves : ReplaceOrigins(s)
    <3>1. ASSUME NEW s \in Saves,
                 \/ \E e \in Edits : SubmitSave(s, e)
                 \/ RunUpdate(s) \/ FailUpdate(s) \/ LoadOrigins(s) \/ FailLoad(s) \/ DropSave(s)
          PROVE  FALSE
      BY <1>1, <2>0, <3>1 DEF SubmitSave, RunUpdate, FailUpdate, LoadOrigins, FailLoad, DropSave,
                              Updated, Goto
    <3> QED
      BY <1>1, <2>0, <3>1
         DEF Next, vars, saves, ComputeManifest, Register, FailRegister, Expire, FindManifest,
             ReadPolicy, Decide, LeaveTurn, Redeploy
  <2>2. x = s /\ save[x] = "loaded" /\ live' = loaded[x]
    BY <1>1, <2>0, <2>1 DEF ReplaceOrigins, Goto
  <2> QED
    BY <2>0, <2>2 DEF Refreshes
<1>2. PolicyInv /\ [Next]_vars =>
        [\A s \in Saves : save[s] # "answered" /\ save'[s] = "answered" => live' \in since[s]]_vars
  BY <1>1
<1> QED
  BY <1>2, PoliciesStayConsistent, PTL DEF Spec, AnswersFollowARefresh

(* Every model a registration offers is one a turn may use while its       *)
(* product's rules stay as they were read (src/service.rs,                 *)
(* register_with_policy and start_turn).                                   *)
THEOREM RegistrationsOfferWhatTurnsAllow == Spec => []OffersAreHonoured
<1>1. PolicyInv => OffersAreHonoured
  <2> SUFFICES ASSUME PolicyInv, NEW c \in Customers, NEW entry \in manifests[c], Served(c),
                      entry.rules = ProductOf(c), NEW m \in entry.models
               PROVE  m \in DOMAIN Effective.models /\ Permits(RuleOf(c), m)
    BY DEF OffersAreHonoured
  <2>1. IsProduct(ProductOf(c)) /\ ProductValid(ProductOf(c), DOMAIN Effective.models)
    BY ServedProduct
  <2>2. Permits(RuleOf(c), m)
    BY DEF PolicyInv, HonoursAll, Honours, RuleOf
  <2>3. m \in ProductOf(c).models /\ ProductOf(c).models \subseteq DOMAIN Effective.models
    BY <2>1, <2>2, RuleStaysInside DEF RuleOf
  <2> QED
    BY <2>2, <2>3
<1> QED
  BY <1>1, PoliciesStayConsistent, PTL

(* Where a turn is let through, the closest rule that speaks of the        *)
(* customer permits the model.                                             *)
LEMMA LetsFollowTheRules ==
  ASSUME NEW config, Sound(config), NEW c \in Customers, NEW m, Lets(config, c, m)
  PROVE  FollowsTheRules(config.products[c[1]], c, m)
<1> DEFINE p == config.products[c[1]]
           rule == ModelPolicy(p, c[2], c[3])
           Near == {k \in DOMAIN p.clients : k[1] = c[2] /\ k[2] \in {c[3], NoSubject}}
<1>1. /\ IsProduct(p) /\ ProductValid(p, DOMAIN config.models)
      /\ Permits(rule, m)
  BY DEF Lets, Sound
<1> HIDE DEF p
<1>2. m \in p.models
  BY <1>1, RuleStaysInside
<1>3. ASSUME NEW k \in Near, k[2] = c[3] \/ <<c[2], c[3]>> \notin Near
      PROVE  IF p.clients[k].selection THEN m \in p.clients[k].models
                                       ELSE m = p.clients[k].default
  <2>1. k = <<c[2], c[3]>> \/ k = <<c[2], NoSubject>>
    BY <1>1, <1>3 DEF IsProduct, Keys
  <2>2. c[3] # NoSubject /\ NoSubject \notin Subjects
    BY NamesAssumption DEF Customers
  <2>3. rule = Narrowed(p.clients[k])
    <3>1. CASE k = <<c[2], c[3]>>
      BY <1>3, <3>1 DEF ModelPolicy
    <3>2. CASE k = <<c[2], NoSubject>>
      <4>1. <<c[2], c[3]>> \notin DOMAIN p.clients
        BY <1>3, <2>2, <3>2
      <4> QED
        BY <1>3, <3>2, <4>1 DEF ModelPolicy
    <3> QED
      BY <2>1, <3>1, <3>2
  <2>4. p.clients[k] \in Rules
    BY <1>1, <1>3 DEF IsProduct
  <2> HIDE DEF rule
  <2> QED
    BY <1>1, <2>3, <2>4 DEF Permits, Narrowed, Rules
<1>4. FollowsTheRules(p, c, m)
  BY <1>2, <1>3 DEF FollowsTheRules, ClosestRules
<1> QED
  BY <1>4 DEF p

(* A turn is let through by the closest rule and reserves by the limits of *)
(* one policy, which was in effect at some time after its registration was *)
(* found, however many saves commit between its steps (src/service.rs,     *)
(* start_turn; src/config.rs, Product::model_policy and Product::limits).  *)
THEOREM TurnsKeepToOnePolicy == Spec => TurnsFollowOnePolicy
<1>1. ASSUME PolicyInv, [Next]_vars, NEW c \in Customers,
             turn[c].stage # "reserving", turn'[c].stage = "reserving"
      PROVE  \E config \in met[c] :
               /\ FollowsTheRules(config.products[c[1]], c, turn'[c].model)
               /\ turn'[c].terms = TermsOf(config, c, turn'[c].model)
  <2>0. DOMAIN turn = Customers /\ Consults(c)
    BY <1>1 DEF PolicyInv, TypeOK
  <2>1. PICK d \in Customers : Decide(d)
    <3>1. ASSUME NEW d \in Customers,
                 (\E m \in ModelIds : FindManifest(d, m)) \/ ReadPolicy(d) \/ LeaveTurn(d)
          PROVE  FALSE
      BY <1>1, <2>0, <3>1 DEF FindManifest, ReadPolicy, LeaveTurn, NoTurn
    <3>2. ASSUME NEW e \in Environments, Redeploy(e)
          PROVE  FALSE
      BY <1>1, <3>2 DEF Redeploy, NoTurn
    <3>3. turn' # turn
      BY <1>1
    <3> QED
      BY <1>1, <3>1, <3>2, <3>3
         DEF Next, vars, clients, SubmitSave, RunUpdate, FailUpdate, LoadOrigins, FailLoad,
             ReplaceOrigins, DropSave, ComputeManifest, Register, FailRegister, Expire
  <2>2. d = c
    BY <1>1, <2>0, <2>1 DEF Decide
  <2> DEFINE config == turn[c].config
             m == turn[c].model
  <2>3. /\ turn[c].stage = "deciding" /\ Lets(config, c, m)
        /\ turn'[c] = [stage |-> "reserving", model |-> m, terms |-> TermsOf(config, c, m)]
    BY <1>1, <2>0, <2>1, <2>2 DEF Decide, NoTurn
  <2>4. config \in met[c] /\ Sound(config)
    BY <2>0, <2>3 DEF Consults
  <2>5. FollowsTheRules(config.products[c[1]], c, m)
    BY <2>3, <2>4, LetsFollowTheRules
  <2> HIDE DEF config, m
  <2>6. turn'[c].model = m /\ turn'[c].terms = TermsOf(config, c, m)
    BY <2>3
  <2> QED
    BY <2>4, <2>5, <2>6
<1>2. PolicyInv /\ [Next]_vars =>
        [\A c \in Customers : turn[c].stage # "reserving" /\ turn'[c].stage = "reserving" =>
           \E config \in met[c] :
             /\ FollowsTheRules(config.products[c[1]], c, turn'[c].model)
             /\ turn'[c].terms = TermsOf(config, c, turn'[c].model)]_vars
  BY <1>1
<1> QED
  BY <1>2, PoliciesStayConsistent, PTL DEF Spec, TurnsFollowOnePolicy

(* How far an edit of a product reaches into its rules and its budgets.    *)
LEMMA EditReaches ==
  ASSUME NEW p, IsProduct(p), NEW e, e.kind \in {"product", "client", "inherit"},
         NEW t \in Tenants, NEW u \in Subjects
  PROVE  LET q == EditOf(p, e)
         IN /\ ModelPolicy(q, t, u) # ModelPolicy(p, t, u) =>
                 /\ <<t, u>> \notin DOMAIN p.clients
                 /\ IF e.kind = "product" THEN <<t, NoSubject>> \notin DOMAIN p.clients
                                          ELSE e.tenant = t
            /\ UserLimit(q, t, u) # UserLimit(p, t, u) =>
                 e.kind = "product" /\ <<t, u>> \notin DOMAIN p.budgets
            /\ TenantLimit(q, t) # TenantLimit(p, t) =>
                 \/ e.kind \in {"client", "inherit"} /\ e.tenant = t
                 \/ e.kind = "product" /\ <<t, NoSubject>> \notin DOMAIN p.budgets
<1> DEFINE q == EditOf(p, e)
           key == <<e.tenant, NoSubject>>
           rule == [models |-> {e.model}, default |-> e.model, selection |-> FALSE]
<1>0. p \in [models : SUBSET ModelIds, default : ModelIds, tenantLimit : Int, userLimit : Int,
            clients : {p.clients}, budgets : {p.budgets}]
  BY DEF IsProduct
<1>1. <<t, u>> # key /\ (<<t, NoSubject>> = key <=> e.tenant = t)
  BY NamesAssumption
<1>2. CASE e.kind = "product"
  <2>1. q.clients = p.clients /\ q.budgets = p.budgets
    BY <1>0, <1>2 DEF EditOf, EnableModel
  <2> HIDE DEF q
  <2>2. ModelPolicy(q, t, u) # ModelPolicy(p, t, u) =>
          <<t, u>> \notin DOMAIN p.clients /\ <<t, NoSubject>> \notin DOMAIN p.clients
    BY <2>1 DEF ModelPolicy
  <2>3. UserLimit(q, t, u) # UserLimit(p, t, u) => <<t, u>> \notin DOMAIN p.budgets
    BY <2>1 DEF UserLimit
  <2>4. TenantLimit(q, t) # TenantLimit(p, t) => <<t, NoSubject>> \notin DOMAIN p.budgets
    BY <2>1 DEF TenantLimit
  <2> QED
    BY <1>2, <2>2, <2>3, <2>4 DEF q
<1>3. CASE e.kind \in {"client", "inherit"}
  <2>1. /\ q.models = p.models /\ q.default = p.default
        /\ q.tenantLimit = p.tenantLimit /\ q.userLimit = p.userLimit
    BY <1>0, <1>3 DEF EditOf, LockCustomer, RestoreCustomer
  <2>2. \A k : k # key =>
          /\ k \in DOMAIN q.clients <=> k \in DOMAIN p.clients
          /\ k \in DOMAIN p.clients => q.clients[k] = p.clients[k]
          /\ k \in DOMAIN q.budgets <=> k \in DOMAIN p.budgets
          /\ k \in DOMAIN p.budgets => q.budgets[k] = p.budgets[k]
    <3>1. CASE e.kind = "client"
      <4>1. /\ q.clients = With(p.clients, key, rule)
            /\ q.budgets = With(p.budgets, key, e.tenantLimit)
        BY <1>0, <3>1 DEF EditOf, LockCustomer
      <4> HIDE DEF q, key, rule
      <4> QED
        BY <4>1 DEF With
    <3>2. CASE e.kind = "inherit"
      <4>1. q.clients = Without(p.clients, key) /\ q.budgets = Without(p.budgets, key)
        BY <1>0, <3>2 DEF EditOf, RestoreCustomer
      <4> HIDE DEF q, key
      <4> QED
        BY <4>1 DEF Without
    <3> QED
      BY <1>3, <3>1, <3>2
  <2> HIDE DEF q, key
  <2>3. ModelPolicy(q, t, u) # ModelPolicy(p, t, u) =>
          <<t, u>> \notin DOMAIN p.clients /\ e.tenant = t
    BY <1>1, <2>1, <2>2 DEF ModelPolicy, Unlocked
  <2>4. UserLimit(q, t, u) = UserLimit(p, t, u)
    BY <1>1, <2>1, <2>2 DEF UserLimit
  <2>5. TenantLimit(q, t) # TenantLimit(p, t) => e.tenant = t
    BY <1>1, <2>1, <2>2 DEF TenantLimit
  <2> QED
    BY <1>3, <2>3, <2>4, <2>5 DEF q
<1> QED
  BY <1>2, <1>3

(* A save that is written reaches only those it is addressed to: rules and *)
(* budgets of other customers, rules and budgets of users of their own,    *)
(* origins and models' limits change by their own edits only               *)
(* (src/admin/model.rs, EditPolicy::apply; docs/admin-panel.md: "Existing  *)
(* user-specific policies take precedence").                               *)
THEOREM SavesStayOnTarget == Spec => SavesReachTheirTarget
<1>1. ASSUME PolicyInv, NEW s \in Saves, RunUpdate(s), policy' # policy
      PROVE  StaysOnTarget(edit[s], Effective, Effective')
  <2> DEFINE e == edit[s]
             old == Effective
             new == Edited(Effective, edit[s])
  <2>1. IsEdit(e) /\ Accepts(old, e) /\ Effective' = new
    BY <1>1, UpdateWrites
  <2>2. IsConfig(old) /\ HoldsTypes(old) /\ Understood(old, e)
    BY <1>1, <2>1, EffectiveTypes DEF PolicyInv, Accepts
  <2> HIDE DEF e, old
  <2> DEFINE changed == Edited(old, e)
  <2>3. \/ /\ e.kind \in {"origin_add", "origin_remove"}
           /\ changed.models = old.models /\ changed.products = old.products
        \/ /\ e.kind = "model"
           /\ changed.products = old.products /\ changed.origins = old.origins
        \/ /\ e.kind \in {"product", "client", "inherit"}
           /\ changed.models = old.models /\ changed.origins = old.origins
           /\ changed.products = [old.products EXCEPT ![e.issuer] =
                                    EditOf(old.products[e.issuer], e)]
    BY <2>1, <2>2, EditShape
  <2> HIDE DEF changed
  <2>4. ASSUME NEW c \in Customers, c[1] \in DOMAIN old.products
        PROVE  LET p == old.products[c[1]]
                   q == changed.products[c[1]]
               IN \/ q = p
                  \/ /\ e.kind \in {"product", "client", "inherit"} /\ e.issuer = c[1]
                     /\ q = EditOf(p, e) /\ IsProduct(p) /\ c[2] \in Tenants /\ c[3] \in Subjects
    BY <2>2, <2>3, <2>4 DEF HoldsTypes, Customers
  <2>5. StaysOnTarget(e, old, changed)
    BY <2>3, <2>4, EditReaches DEF StaysOnTarget, Reaches
  <2> QED
    BY <2>1, <2>5 DEF e, old, changed
<1>2. ASSUME PolicyInv, [Next]_vars, policy' # policy
      PROVE  \E s \in Saves : /\ save[s] \in {"updating", "orphaned"} /\ save'[s] # save[s]
                             /\ StaysOnTarget(edit[s], Effective, Effective')
  <2>1. PICK s \in Saves : RunUpdate(s)
    BY <1>2 DEF Next, vars, SubmitSave, FailUpdate, LoadOrigins, FailLoad, ReplaceOrigins,
                DropSave, ComputeManifest, Register, FailRegister, Expire, FindManifest,
                ReadPolicy, Decide, LeaveTurn, Redeploy
  <2>2. save[s] \in {"updating", "orphaned"} /\ save'[s] # save[s]
    BY <1>2, <2>1 DEF RunUpdate, Updated, Goto, PolicyInv, TypeOK
  <2> QED
    BY <1>1, <1>2, <2>1, <2>2
<1>3. PolicyInv /\ [Next]_vars =>
        [policy' # policy =>
           \E s \in Saves : /\ save[s] \in {"updating", "orphaned"} /\ save'[s] # save[s]
                           /\ StaysOnTarget(edit[s], Effective, Effective')]_vars
  BY <1>2
<1> QED
  BY <1>3, PoliciesStayConsistent, PTL DEF Spec, SavesReachTheirTarget
=============================================================================
