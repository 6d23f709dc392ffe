---------------------------- MODULE PolicyStore -----------------------------
(***************************************************************************)
(* The life of the policy of module Policy (src/admin/repository.rs, save  *)
(* of src/admin/mod.rs, load_origins, refresh_origins, effective_config    *)
(* and register_with_policy of src/service.rs): administrators save edits  *)
(* in one transaction each and then refresh the origins that the CORS      *)
(* layer reads; registrations and turns read the policy in one step and    *)
(* act on what they read in another; a redeployment brings another         *)
(* environment.                                                            *)
(*                                                                         *)
(* Every database call runs on a blocking thread while its handler waits,  *)
(* and a handler is dropped with its connection wherever it waits.         *)
(***************************************************************************)
EXTENDS Policy

CONSTANTS
  Environments,  \* configurations the service may be deployed with
  SavedPolicies, \* what an earlier version may have left in the database
  Saves,         \* POST /admin/policy calls, signed in and CSRF-checked
  Edits,         \* what they may ask
  Preferences,   \* model preferences an app may register with
  MaxRegistrations, \* bound: rows of table registrations and those on their way
  MaxTurns          \* bound: turns on their way to their reservations

ASSUME EnvironmentsAssumption ==
  \A env \in Environments :
    /\ env \in [models : {env.models}, products : {env.products}, origins : {env.origins}]
    /\ HoldsTypes(env) /\ Valid(env)
ASSUME SavedAssumption ==
  \A policy \in SavedPolicies :
    policy.listed \in BOOLEAN /\ HoldsTypes(policy) /\ WellFormed(policy)
ASSUME EditsAssumption == \A e \in Edits : IsEdit(e)
ASSUME SavesAssumption == IsFiniteSet(Saves)

VARIABLES
  env,          \* the environment's configuration
  policy,       \* table admin_policy
  live,         \* AllowedOrigins
  save,         \* where each save is
  edit,         \* what it asks
  loaded,       \* the origins it has read and will publish
  since,        \* history: the origin lists in effect since it was committed
  registering,  \* the manifest a customer's registration is about to insert
  manifests,    \* table registrations: the manifests of a customer
  turn,         \* what a customer's turn has read, up to its reservation
  met           \* history: the configurations in effect while it was checked

saves == <<save, edit, loaded, since>>
clients == <<registering, manifests, turn, met>>
vars == <<env, policy, live, saves, clients>>

NoEdit == [kind |-> "none"]
NoManifest == [models |-> {}, rules |-> <<>>]
NoTurn == [stage |-> "none"]

Effective == Apply(policy, env)
Readable == Loads(policy, env)

(* load_origins: the environment's list when the policy does not load.     *)
OriginsAtStart(p, e) == IF Loads(p, e) THEN Apply(p, e).origins ELSE e.origins

-----------------------------------------------------------------------------
Init ==
  /\ env \in Environments
  /\ policy \in SavedPolicies
  /\ live = OriginsAtStart(policy, env)
  /\ save = [s \in Saves |-> "idle"]
  /\ edit = [s \in Saves |-> NoEdit]
  /\ loaded = [s \in Saves |-> {}]
  /\ since = [s \in Saves |-> {}]
  /\ registering = [c \in Customers |-> NoManifest]
  /\ manifests = [c \in Customers |-> {}]
  /\ turn = [c \in Customers |-> NoTurn]
  /\ met = [c \in Customers |-> {}]

Goto(s, label) == save' = [save EXCEPT ![s] = label]

SubmitSave(s, e) ==
  /\ save[s] = "idle"
  /\ edit' = [edit EXCEPT ![s] = e]
  /\ Goto(s, "updating")
  /\ UNCHANGED <<env, policy, live, loaded, since, clients>>

(* What a handler that waits for its update does next, if it still waits.  *)
Updated(s, label) ==
  /\ Goto(s, IF save[s] = "updating" THEN label ELSE "failed")
  /\ edit' = [edit EXCEPT ![s] = NoEdit]

(* What a turn takes from the configuration it reads.                      *)
Consulted(config) == [models |-> config.models, products |-> config.products]

(* Histories: a document that is written is in effect for the saves still  *)
(* to be answered and the turns still to be decided.                       *)
Witnessed(s) ==
  /\ since' = [t \in Saves |->
       IF save'[t] \in {"updated", "loaded"} THEN since[t] \cup {policy'.origins} ELSE since[t]]
  /\ met' = [c \in Customers |->
       IF turn[c].stage \in {"reading", "deciding"} THEN met[c] \cup {Consulted(Apply(policy', env))}
                                                   ELSE met[c]]

(* A fault: the edited configuration is saved without being validated.     *)
RunUnvalidated(s) ==
  /\ save[s] \in {"updating", "orphaned"}
  /\ IF Readable /\ Understood(Effective, edit[s])
     THEN /\ policy' = FromConfig(Edited(Effective, edit[s]))
          /\ Updated(s, "updated")
          /\ Witnessed(s)
     ELSE UNCHANGED <<policy, since, met>> /\ Updated(s, "failed")
  /\ UNCHANGED <<env, live, loaded, registering, manifests, turn>>

(* update_policy, one IMMEDIATE transaction: read, merge with the          *)
(* environment, edit, validate, write.                                     *)
RunUpdate(s) ==
  /\ save[s] \in {"updating", "orphaned"}
  /\ IF Readable /\ Accepts(Effective, edit[s])
     THEN /\ policy' = FromConfig(Edited(Effective, edit[s]))
          /\ Updated(s, "updated")
          /\ Witnessed(s)
     ELSE UNCHANGED <<policy, since, met>> /\ Updated(s, "failed")
  /\ UNCHANGED <<env, live, loaded, registering, manifests, turn>>

FailUpdate(s) ==
  /\ save[s] \in {"updating", "orphaned"}
  /\ Updated(s, "failed")
  /\ UNCHANGED <<env, policy, live, loaded, since, clients>>

(* refresh_origins reads the policy again, outside the transaction ...     *)
LoadOrigins(s) ==
  /\ save[s] = "updated"
  /\ Readable
  /\ loaded' = [loaded EXCEPT ![s] = Effective.origins]
  /\ Goto(s, "loaded")
  /\ UNCHANGED <<env, policy, live, edit, since, clients>>

(* What a handler leaves behind when it ends.                              *)
Forget(s) ==
  /\ loaded' = [loaded EXCEPT ![s] = {}]
  /\ since' = [since EXCEPT ![s] = {}]

(* ... and publishes what it read when the handler runs again.             *)
ReplaceOrigins(s) ==
  /\ save[s] = "loaded"
  /\ live' = loaded[s]
  /\ Goto(s, "answered")
  /\ Forget(s)
  /\ UNCHANGED <<env, policy, edit, clients>>

(* A fault: a refresh that fails is passed over, as it is at startup.      *)
AnswerUnrefreshed(s) ==
  /\ save[s] = "updated"
  /\ Goto(s, "answered")
  /\ Forget(s)
  /\ UNCHANGED <<env, policy, live, edit, clients>>

(* No connection in time: the answer is 503 though the policy is saved.    *)
FailLoad(s) ==
  /\ save[s] = "updated"
  /\ Goto(s, "failed")
  /\ Forget(s)
  /\ UNCHANGED <<env, policy, live, edit, clients>>

(* The administrator's connection goes away while the handler waits; an    *)
(* update already handed to the blocking pool runs all the same.           *)
DropSave(s) ==
  /\ save[s] \in {"updating", "updated", "loaded"}
  /\ Goto(s, IF save[s] = "updating" THEN "orphaned" ELSE "failed")
  /\ Forget(s)
  /\ UNCHANGED <<env, policy, live, edit, clients>>

-----------------------------------------------------------------------------
ProductOf(c) == Effective.products[c[1]]
RuleOf(c) == ModelPolicy(ProductOf(c), c[2], c[3])
Served(c) == Readable /\ c[1] \in DOMAIN Effective.products

(* Bounds of the checks.                                                   *)
RegistrationsFit ==
  Cardinality(UNION {{c} \X manifests[c] : c \in Customers})
    + Cardinality({c \in Customers : registering[c] # NoManifest}) < MaxRegistrations
TurnsFit == Cardinality({c \in Customers : turn[c] # NoTurn}) < MaxTurns

(* register_with_policy computes the manifest from one reading of the      *)
(* policy and hands it to the blocking pool, which inserts it later.  The  *)
(* rules it read are kept beside it as history.                            *)
ComputeManifest(c, requested) ==
  /\ registering[c] = NoManifest
  /\ RegistrationsFit
  /\ Served(c)
  /\ registering' = [registering EXCEPT ![c] =
       [models |-> Offered(ProductOf(c), RuleOf(c), requested), rules |-> ProductOf(c)]]
  /\ UNCHANGED <<env, policy, live, saves, manifests, turn, met>>

Register(c) ==
  /\ registering[c] # NoManifest
  /\ manifests' = [manifests EXCEPT ![c] = @ \cup {registering[c]}]
  /\ registering' = [registering EXCEPT ![c] = NoManifest]
  /\ UNCHANGED <<env, policy, live, saves, turn, met>>

FailRegister(c) ==
  /\ registering[c] # NoManifest
  /\ registering' = [registering EXCEPT ![c] = NoManifest]
  /\ UNCHANGED <<env, policy, live, saves, manifests, turn, met>>

(* Its 24 hours are over.                                                  *)
Expire(c) ==
  /\ \E entry \in manifests[c] : manifests' = [manifests EXCEPT ![c] = @ \ {entry}]
  /\ UNCHANGED <<env, policy, live, saves, registering, turn, met>>

(* start_turn finds the registration that the request names, any of the    *)
(* customer's, which must list the model ...                               *)
FindManifest(c, m) ==
  /\ turn[c] = NoTurn /\ TurnsFit
  /\ \E entry \in manifests[c] : m \in entry.models
  /\ turn' = [turn EXCEPT ![c] = [stage |-> "reading", model |-> m]]
  /\ met' = [met EXCEPT ![c] = {Consulted(Effective)}]
  /\ UNCHANGED <<env, policy, live, saves, registering, manifests>>

(* ... waits for the policy, which a blocking thread reads ...             *)
ReadPolicy(c) ==
  /\ turn[c].stage = "reading"
  /\ Readable
  /\ turn' = [turn EXCEPT ![c] =
       [stage |-> "deciding", model |-> turn[c].model, config |-> Consulted(Effective)]]
  /\ UNCHANGED <<env, policy, live, saves, registering, manifests, met>>

(* ... and decides by what was read, whatever has been saved since: the    *)
(* model is registered, the product is known, its rule permits the model.  *)
(* What the reservation takes and its two limits are of the same reading.  *)
Lets(config, c, m) ==
  /\ m \in DOMAIN config.models /\ c[1] \in DOMAIN config.products
  /\ Permits(ModelPolicy(config.products[c[1]], c[2], c[3]), m)

TermsOf(config, c, m) ==
  [reserves |-> config.models[m],
   tenantLimit |-> TenantLimit(config.products[c[1]], c[2]),
   userLimit |-> UserLimit(config.products[c[1]], c[2], c[3])]

(* A fault: the limits are looked up when the reservation is made.         *)
DecideTwice(c) ==
  LET read == turn[c]
  IN /\ read.stage = "deciding"
     /\ turn' = [turn EXCEPT ![c] =
          IF Lets(read.config, c, read.model)
          THEN [stage |-> "reserving", model |-> read.model,
                terms |-> TermsOf(Effective, c, read.model)]
          ELSE NoTurn]
     /\ met' = [met EXCEPT ![c] = {}]
     /\ UNCHANGED <<env, policy, live, saves, registering, manifests>>

Decide(c) ==
  LET read == turn[c]
  IN /\ read.stage = "deciding"
     /\ turn' = [turn EXCEPT ![c] =
          IF Lets(read.config, c, read.model)
          THEN [stage |-> "reserving", model |-> read.model,
                terms |-> TermsOf(read.config, c, read.model)]
          ELSE NoTurn]
     /\ met' = [met EXCEPT ![c] = {}]
     /\ UNCHANGED <<env, policy, live, saves, registering, manifests>>

(* The turn is reserved, or refused by the ledger, which module Turns      *)
(* models, or it cannot read the policy, or its client has gone.           *)
LeaveTurn(c) ==
  /\ turn[c] # NoTurn
  /\ turn' = [turn EXCEPT ![c] = NoTurn]
  /\ met' = [met EXCEPT ![c] = {}]
  /\ UNCHANGED <<env, policy, live, saves, registering, manifests>>

(* The process ends, or is redeployed with another environment: what was   *)
(* in progress is gone, the database stays, load_origins runs before the   *)
(* server listens.                                                         *)
Redeploy(e) ==
  /\ env' = e
  /\ live' = OriginsAtStart(policy, e)
  /\ save' = [s \in Saves |-> IF save[s] \in {"idle", "answered"} THEN save[s] ELSE "failed"]
  /\ edit' = [s \in Saves |-> NoEdit]
  /\ loaded' = [s \in Saves |-> {}]
  /\ since' = [s \in Saves |-> {}]
  /\ registering' = [c \in Customers |-> NoManifest]
  /\ turn' = [c \in Customers |-> NoTurn]
  /\ met' = [c \in Customers |-> {}]
  /\ UNCHANGED <<policy, manifests>>

Next ==
  \/ \E s \in Saves :
       \/ \E e \in Edits : SubmitSave(s, e)
       \/ RunUpdate(s) \/ FailUpdate(s)
       \/ LoadOrigins(s) \/ FailLoad(s) \/ ReplaceOrigins(s)
       \/ DropSave(s)
  \/ \E c \in Customers :
       \/ \E requested \in Preferences : ComputeManifest(c, requested)
       \/ Register(c) \/ FailRegister(c) \/ Expire(c)
       \/ \E m \in ModelIds : FindManifest(c, m)
       \/ ReadPolicy(c) \/ Decide(c) \/ LeaveTurn(c)
  \/ \E e \in Environments : Redeploy(e)

Spec == Init /\ [][Next]_vars

-----------------------------------------------------------------------------
TypeOK ==
  /\ env \in Environments
  /\ policy.listed \in BOOLEAN /\ HoldsTypes(policy)
  /\ live \subseteq Origins
  /\ save \in [Saves -> {"idle", "updating", "orphaned", "updated", "loaded", "answered",
                         "failed"}]
  /\ edit \in [Saves -> Edits \cup {NoEdit}]
  /\ loaded \in [Saves -> SUBSET Origins]
  /\ since \in [Saves -> SUBSET SUBSET Origins]
  /\ DOMAIN registering = Customers /\ DOMAIN manifests = Customers
  /\ \A c \in Customers : \A entry \in manifests[c] \cup {registering[c]} :
       entry.models \subseteq ModelIds
  /\ DOMAIN turn = Customers /\ DOMAIN met = Customers
  /\ \A c \in Customers :
       /\ turn[c].stage \in {"none", "reading", "deciding", "reserving"}
       /\ turn[c] # NoTurn => turn[c].model \in ModelIds

(* No sequence of edits and redeployments can leave a policy that does not *)
(* load, short of a redeployment that takes a model out of the registry    *)
(* while a product of the policy still lists it (src/service.rs,           *)
(* effective_config: everything but revoking and exchanging needs it).     *)
PolicyKeepsLoading ==
  \/ Readable
  \/ \E i \in DOMAIN policy.products \cap DOMAIN env.products :
       ~ (policy.products[i].models \subseteq DOMAIN env.models)

(* The customers whose rule a save may change, and what a save with edit e *)
(* may change of the effective configuration.                              *)
Reaches(e, rules, c) ==
  /\ e.kind \in {"product", "client", "inherit"} /\ e.issuer = c[1]
  /\ <<c[2], c[3]>> \notin DOMAIN rules
  /\ IF e.kind = "product" THEN <<c[2], NoSubject>> \notin DOMAIN rules ELSE e.tenant = c[2]

StaysOnTarget(e, old, new) ==
  /\ new.origins # old.origins => e.kind \in {"origin_add", "origin_remove"}
  /\ new.models # old.models => e.kind = "model"
  /\ \A c \in {d \in Customers : d[1] \in DOMAIN old.products} :
       LET p == old.products[c[1]]
           q == new.products[c[1]]
       IN /\ ModelPolicy(q, c[2], c[3]) # ModelPolicy(p, c[2], c[3])
               => Reaches(e, p.clients, c)
          /\ UserLimit(q, c[2], c[3]) # UserLimit(p, c[2], c[3])
               => /\ e.kind = "product" /\ e.issuer = c[1]
                  /\ <<c[2], c[3]>> \notin DOMAIN p.budgets
          /\ TenantLimit(q, c[2]) # TenantLimit(p, c[2])
               => /\ e.issuer = c[1]
                  /\ \/ e.kind \in {"client", "inherit"} /\ e.tenant = c[2]
                     \/ e.kind = "product" /\ <<c[2], NoSubject>> \notin DOMAIN p.budgets

(* A save reaches only those it is addressed to: a customer's edit changes *)
(* nothing for other customers nor for its users with rules of their own,  *)
(* a product's nothing for customers with rules of their own; a budget of  *)
(* a user changes with its product's only, and of a customer with its own  *)
(* or, where it has none, its product's; origins and limits of models      *)
(* change by their own edits only (docs/admin-panel.md: "Existing          *)
(* user-specific policies take precedence").                               *)
SavesReachTheirTarget ==
  [][policy' # policy =>
       \E s \in Saves : /\ save[s] \in {"updating", "orphaned"} /\ save'[s] # save[s]
                       /\ StaysOnTarget(edit[s], Effective, Effective')]_vars

(* A save that is answered with success leaves live a list that was in     *)
(* effect at some time since it was committed: one with its own edit, or   *)
(* with what later saves made of it, and with every edit committed before, *)
(* those of saves whose refresh failed included (src/service.rs: "Reload   *)
(* the allowed origins from the effective policy, at startup and after     *)
(* every administration change").                                          *)
AnswersFollowARefresh ==
  [][\A s \in Saves : save[s] # "answered" /\ save'[s] = "answered" => live' \in since[s]]_vars

(* While its product's rules stay as they were read, every model that a    *)
(* registration offers is one a turn may use: registering and checking     *)
(* read the same rules the same way (README: "Fixed assignments expose     *)
(* only the assigned model").                                              *)
OffersAreHonoured ==
  \A c \in Customers : \A entry \in manifests[c] :
    Served(c) /\ entry.rules = ProductOf(c) =>
      \A m \in entry.models : m \in DOMAIN Effective.models /\ Permits(RuleOf(c), m)

(* The rule of the user, or else that of its customer.                     *)
ClosestRules(rules, c) ==
  LET near == {k \in DOMAIN rules : k[1] = c[2] /\ k[2] \in {c[3], NoSubject}}
  IN {rules[k] : k \in {j \in near : j[2] = c[3] \/ <<c[2], c[3]>> \notin near}}

FollowsTheRules(product, c, m) ==
  /\ m \in product.models
  /\ \A rule \in ClosestRules(product.clients, c) :
       IF rule.selection THEN m \in rule.models ELSE m = rule.default

(* A turn is let through by the closest rule that speaks of the customer,  *)
(* and reserves by the limits of that same policy: one that was in effect  *)
(* at some time after the turn's registration was found, whatever was      *)
(* registered before and however many saves commit between its steps       *)
(* (README: "User rules override tenant rules, which override product      *)
(* defaults"; docs/admin-panel.md: "inference rechecks policy before every *)
(* new turn", "using the policy snapshot they already reserved").          *)
TurnsFollowOnePolicy ==
  [][\A c \in Customers : turn[c].stage # "reserving" /\ turn'[c].stage = "reserving" =>
       \E config \in met[c] :
         /\ FollowsTheRules(config.products[c[1]], c, turn'[c].model)
         /\ turn'[c].terms = TermsOf(config, c, turn'[c].model)]_vars

(* What docs/admin-panel.md promises: "Changes apply at once to new        *)
(* browser requests".  Once every save that began has been answered with   *)
(* success, the CORS layer allows the origins of the saved policy.         *)
AnsweredSavesAreLive ==
  (\A s \in Saves : save[s] \in {"idle", "answered"}) /\ Readable
    => live = Effective.origins

(* What docs/admin-panel.md says makes it safe to remove a model: "first   *)
(* move every affected assignment to another registered model".  When no   *)
(* product and no customer is assigned a model the environment does not    *)
(* register, the policy loads.                                             *)
AssignedModels ==
  UNION {{policy.products[i].default} \cup
         UNION {policy.products[i].clients[k].models : k \in DOMAIN policy.products[i].clients}
         : i \in DOMAIN policy.products}

MovedModelsCanBeRemoved == AssignedModels \subseteq DOMAIN env.models => Readable
=============================================================================
