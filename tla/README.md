# Verification of the Asystant gateway

TLA+ models of the gateway, the TLC runs that check them on small instances, and TLAPS proofs of
the properties that matter most. Everything is translated from the Rust and SQL sources; docs and
tests supply the claims that are checked. Source paths below are relative to the repository.

The gateway sells inference on credit it controls: a product's backend signs tickets for its
logins, a ticket buys a short-lived credential, a credential registers tools and runs inference
turns, and every turn first reserves money from two daily budgets and then settles what the
provider charged. An administration panel edits the policy that says who may use which model and
spend how much, while all of this goes on.

Contents: [inventory](#inventory) · [modules](#modules) · [runs](#runs) · [bounds](#bounds) ·
[fairness](#fairness) · [proofs](#proofs) · [findings](#findings) ·
[abstractions](#abstractions) · [not modelled](#not-modelled) · [plan](#plan) ·
[running](#running)

## Inventory

| Component | State | Operations | Talks to |
| --- | --- | --- | --- |
| Budget ledger (`src/repository.rs`) | tables `accounts` (micros held per owner and UTC day) and `requests` | `reserve`, `settle` | turn pipeline above; SQLite below |
| SQLite pool (`src/repository.rs`, `src/error.rs`) | 8 pooled connections, one write lock, WAL | `conn`, `immediate_transaction`, rollback | blocking threads of every component |
| Turn pipeline (`src/service.rs`, `src/handler.rs`) | 32 permits; per turn a handler future, blocking jobs, a spawned task, a channel of 128 events | `start_turn`, its task, the SSE response | ledger, policy, provider, client |
| Sessions (`src/service.rs`, `src/model.rs`, `src/repository.rs`) | tables `sessions`, `consumed_tickets`, `revoked_sessions` | `exchange`, `authenticate`, `revoke` | product backends (tickets), every authenticated call |
| Policy (`src/config.rs`, `src/admin/model.rs`, `src/origins.rs`) | environment configuration; table `admin_policy`; list `AllowedOrigins` | `EditPolicy::apply`, `Policy::apply`, `model_policy`, `limits`, `refresh_origins`, `load_origins` | panel, registrations, turns, CORS layer |
| Registrations (`src/service.rs`, `src/repository.rs`) | table `registrations` | `register_with_policy`, ownership and expiry test | policy, turns |
| Panel sign-in (`src/admin/mod.rs`) | one mutex over sessions, failed attempts, last test | `login`, `authenticate`, `check_csrf`, `logout`, `test_model` | policy saves |
| Admission (`src/admission.rs`) | a mutex over at most 10 000 per-peer windows | `check` | HTTP layer |
| Charges (`src/config.rs`, `src/provider.rs`) | none | `reservation`, `usage_charge` | turns, ledger |
| Provider adapters (`src/provider.rs`) | a parser's buffers per stream | `infer`, `anthropic`, `responses` | turns |
| Transcript validation (`src/service.rs`) | none | `validate_turn`, `validate_manifest` | turns, registrations |
| Connection test (`src/admin/playground.rs`) | none | `run` | sessions, registrations, turns |
| Startup, routing, views, prompts | none of their own | | |

What is hard here, and what makes each part correct:

* **Ledger and pool.** Concurrent writers, two accounts and a row per reservation, failures between
  any two statements, process death, midnight between choosing the day and committing, 64-bit ends.
  Correct when the transactions are atomic, an account equals the sum of its rows, spending passes a
  limit only by what providers charged above their reservations, a request id is won once, and no
  thread waits forever.
* **Turns.** A handler future is dropped at any `await` when its connection goes away, while a job it
  gave to the blocking pool runs on; the spawned task outlives handler and client; the client may
  stop reading; the provider may be silent; the process may die. Correct when no path loses or
  doubles a permit, the provider is asked only for what is reserved and once per request id, and what
  the client hears agrees with the ledger.
* **Sessions.** Two reads that are not one transaction, claims checked before the transaction waits
  for its connection, races for one ticket, revocation racing both. Correct when revoked logins stay
  out, a ticket buys one credential, and none outlives its bounds.
* **Policy.** Edits committed in one transaction but published by another step, readers that act on
  what they read earlier, saved documents meeting an environment that has changed. Correct when no
  sequence of edits breaks loading, edits reach only their target, a turn follows one
  policy that was in effect since it began, and a success answer to an edit means that it was published.
* **Panel and admission.** Every request takes a mutex once or twice and reads the clock, sometimes before the
  mutex; tables and lists are bounded and pruned in passing. Correct when no interleaving grants more than the limit,
  nobody is refused for what others did, and a form acts for its own live session.
* **Providers and transcripts.** A stream is cut into chunks anywhere; usage, finish reason, calls and `[DONE]` come in any order and
  the connection breaks anywhere; what a provider says becomes the next turn's input and a bill. Correct when an
  answer is all of what was said, its bill is fair and within 64 bits, and the transcript it joins is valid.

`PROJECT.json` lists the hazards with their lines and the properties that would catch each.

## Modules

| Module | What it is |
| --- | --- |
| `Ledger` | the ledger's promise: `Reserve` and `Settle` as atomic steps, its invariants and action properties |
| `SqliteLedger` | the two transactions statement by statement; implements `Ledger` |
| `Turns` | the turn pipeline over `Ledger` |
| `Sessions` | credentials and registrations |
| `Policy` | configuration, policy documents, edits and rules as pure operators |
| `PolicyStore` | saves, refreshes, registrations, the policy steps of turns and redeployments over `Policy` |
| `Limiter` | the promise of a rate limit, however it is kept |
| `Clock`, `Admission`, `AdminPanel` | the process's clock, the admission guard, the panel's sign-in; each guard implements `Limiter` |
| `Guards` | both guards over one clock, with restarts |
| `Charges` | prices, reservation, validation and usage charge in checked arithmetic, as pure operators |
| `Transcript` | `validate_turn`, message by message, and its reference definition |
| `Inference` | the promise of a provider that `Turns` counts on |
| `ProviderStream` | the three adapters over `Charges` and `Transcript` |
| `Conversation` | a client, validation and an adapter in turns; implements `Inference` |
| `SumTheorems` | lemmas on sums of functions over finite sets |
| `Instants` | lists of instants and tables of the guards: `Vec::retain`, `HashMap::insert` |
| `LedgerProofs`, `SqliteProofs`, `TurnProofs` | theorems about `Ledger`, `SqliteLedger` and `Turns` |
| `SessionProofs`, `PolicyProofs`, `GuardProofs` | theorems about `Sessions`, `Policy` with `PolicyStore`, and `Guards` with both limiters |
| `ConversationProofs` | theorems about `Charges`, `Transcript`, `ProviderStream` and `Conversation` |
| `MC*` | constants for TLC |

An operator introduced as "A fault" or "Faults" is a mutated form of the operator that follows it. It is
part of no specification; it exists so that each property can be shown to notice a plausible bug.

### Ledger (`src/repository.rs` 169-252, `migrations/0001_gateway/up.sql`)

| TLA+ | Code |
| --- | --- |
| `held[<<owner, day>>]` | `accounts.held_micros`; an account without a row holds 0, since `reserve` inserts a row of 0 before it adds |
| `rows[r]` | a row of `requests`, keyed by the hash of identity and request id; `NoRow` where there is none; `charged` is 0 where the column is NULL |
| `Reserve` | `reserve` when it returns Ok: the insert, both `checked_add`s and limit tests, both updates |
| `Settle` | `settle` when it returns Ok: status test, `checked_sub`/`checked_add` on both accounts, row update |
| `LimitsOf[o]` | limits an owner may meet: the policy can change them between calls |

Refusals change nothing and are stuttering steps. That this is how the code behaves is what
`SqliteLedger` shows: its `Answer`, `Fail`, `BusyTimeout` and `Crash` throw the transaction's view away.

### SqliteLedger (`src/repository.rs`)

`held` and `rows` are the committed tables. `pc[w]` follows a blocking thread through its call: `conn` (waiting
for the pool), `begin` (holding a connection, waiting for the write lock), then one label per statement, `commit`
and `done`. `tx[w]` is the private view of the transaction. `BEGIN IMMEDIATE` lets one writer in (`Busy`);
`PoolTimeout` and `BusyTimeout` are the 6 and 5 second timeouts; `Fail` is any statement or commit that fails.
`CallReserve` fixes the day before it waits, as the code does. `ImplementsLedger` is `Ledger!Spec` itself: `held`
and `rows` have the same names, so the refinement mapping is the identity on them.

### Turns (`src/service.rs` 226-328, `src/handler.rs`)

| TLA+ | Code |
| --- | --- |
| `slots` | permits left in `inference_slots` |
| `phase` `manifest`, `policy`, `reserving` | the handler future waiting in `start_turn` for the registration, the policy, the reservation |
| `phase` `inferring`, `settling` | the spawned task waiting for the provider, for the settlement |
| `job` | the closure given to `spawn_blocking`; it runs whether or not anyone waits for it |
| `plan` | price and limits taken from the policy snapshot |
| `queue`, `client`, `seen` | the `mpsc` channel, the receiving end, the last terminal event it got |
| `asked` | history: calls of `provider.infer` per request id |
| `DropHandler` | actix drops the future; the permit it owns goes with it |
| `Crash` | everything in memory is gone; the tables stay |

`RunReserve` and `RunSettle` are `Ledger`'s actions, so a job takes effect at one instant; `JobFails` is every way
in which it changes nothing. A conflict, a spent budget and an I/O error are all `JobFails`: the pipeline treats
them alike. `ProviderAnswers` carries any charge of `Charges`, negative ones included, which `settle` refuses.

### Sessions (`src/service.rs` 61-157, `src/model.rs`, `src/repository.rs` 97-168)

Time is a counter that stops at `LastTick`. `SubmitExchange` checks the claims and fixes the expiry;
`RunExchange` is the transaction, possibly many ticks later. `FindSession` and `CheckRevoked` are the two reads of
`authenticate`. `Revoke` is a granted call. A ticket is one that an issuer really signed: signatures are external.
`late` is history: whether the login was revoked before the call arrived. A granted call may also `Register`, which makes
a row that lives for `RegistrationLife`, or name a registration in a turn (`FindRegistration`): the row is found by its
id and the identity of the login, which is the same key that revocations use. Both statements take `Utc::now()` before they
wait for their connection, which is `ReadClock`; what they do, they do by that `clock`, however late. `asked` is history.

### Policy and PolicyStore (`src/config.rs`, `src/admin/`, `src/origins.rs`, `src/service.rs`)

`Policy` has no state: `Valid` is `Config::validate`, `ModelPolicy` and `Permits` are the choice of a rule, `Apply` is
`Policy::apply`, `Understood`, `Edited` and `Accepts` are `EditPolicy::apply`. `PolicyStore` adds the life around it:
`RunUpdate` is the transaction of `update_policy`, `LoadOrigins` and `ReplaceOrigins` the two halves of
`refresh_origins`, `FailLoad` a refresh that fails, `DropSave` the loss of the administrator's connection, `ComputeManifest` and
`Register` the two halves of `register_with_policy`, `Redeploy` a restart with any environment of `Environments`.

`start_turn` up to its reservation is three steps, for it awaits twice: `FindManifest` reads the registration that the request
names, any of the customer's that has not expired (`manifests`); `ReadPolicy` is the blocking job of `effective_config`; `Decide` runs
when the handler is woken, by the snapshot it got, and fixes what it reserves and the two limits (`TermsOf`). Saves commit
and registrations come and go between them, so a turn may be decided by rules that a save has just replaced: that is how
the code is meant ("using the policy snapshot they already reserved", `docs/admin-panel.md`), and `TurnsFollowOnePolicy` asks for
one configuration, in effect at some time since the registration was found, that gives both the rule and the terms. From the reservation on a turn
is `Turns`' matter (`LeaveTurn`).

`since` and `met` are history: the lists of origins in effect since a save committed, the configurations in effect while a turn is checked.
`AnswersFollowARefresh` says that a success answer leaves live a list of `since`: a refresh that failed must not be answered as a success.
It allows two saves to publish in the wrong order; that they do is the finding `policy_origins`.

### Admission (`src/admission.rs`)

`check` reads the clock, then takes the lock. `Arrive` is the reading, `Turnaway` and `LetThrough` are the whole of what
happens under the lock, with a clock that may have gone on by up to `MaxLag` ticks. `Retained` is the pruning of
windows that have ended by the *reading*; a window opened by a late worker starts in the past, ends early, and so
weakens the limit a little: `QuotaIsKept` is `Limiter` with spans of `Window - MaxLag` and limits of twice the quota less
one. `admitted` is history.

The docs speak of "ten session exchange attempts per minute" (`SECURITY.md` 30). The windows are fixed from their first
request, so a minute that straddles two of them admits up to nineteen: the property states what the code keeps.

### AdminPanel (`src/admin/mod.rs`)

| TLA+ | Code |
| --- | --- |
| `attempts`, `sessions`, `lastTest` | the fields of `State`, all behind one mutex |
| `RefuseUnread`, `WrongToken`, `SignIn` | the outcomes of `login` under the lock: locked, a wrong token counted, the right one with or without room for a session |
| `CheckCsrf` | `check_csrf` with `authenticate`: the first lock of every form post |
| `SignOut`, `StartTest` | the second lock of `logout` and of `test_model` |
| `CommitSave` | the job of `save`, which runs without a lock, later; `PolicyStore` models what it does |
| `PanelRestart` | sessions and attempts are in memory only |
| `judged`, `minted`, `signedIn` | history: recent wrong tokens and tests, tokens handed out, who is signed in |

`docs/admin-panel.md` 24 says that five failures lock sign-in for fifteen minutes. Attempts expire one by one, so the lock
opens for one more attempt when the oldest of the five is fifteen minutes old; `PanelIsThrottled` and `SignInOpensAgain` state that.
`Guards` follows one guard at a time (`focus`): they share the clock and the restarts and no other variable.

### Charges, Transcript, ProviderStream, Conversation (`src/provider.rs`, `src/config.rs` 139-185, `src/service.rs` 184-234)

| TLA+ | Code |
| --- | --- |
| `Reservation`, `UsageCharge` | `ModelConfig::reservation`, `usage_charge`: `None` where a checked step overflows or a count is missing |
| `ModelValid`; `AdapterOf`, `HasEndpoint` | `validate`; the choice of an adapter and its match on providers |
| `ReadMessage`, `ValidTurn` | the loop of `validate_turn` and the tests around it |
| `wire`, `sent` | history of the stream: lines begun, fragments arrived; two fragments make a line |
| `parse` | `text`, `calls`, `charge`, `finished`, `done` of `infer`, and whether it returned an error |
| `Receive` | one chunk: the size limit, then every line that is now complete |
| `ReadLine`, `ReadEvent`, `AddDelta` | the body of the inner loop |
| `Close`, `CallsInOrder`, `AddCall` | the end of the stream, the map of calls by index, and what `infer` returns |
| `ReceiveBody`, `ReadItem` | `anthropic` and `responses` once their body is there, item by item |
| `Break` | a failed request, another status than 2xx, a broken connection, a body that is too long, the deadline |
| `Say`, `Submit`, `Continue` | the client adds a message, sends the transcript, takes the answer into it |

`parse.charge` and `parse.text` are what the code holds, so the order of its tests shows: usage is taken before the finish reason is
judged, text before calls; a usage that says nothing erases an earlier one, and such a turn fails; a last line without a newline is
lost; a call whose arguments never came fails the turn. `AnswersAreWhole` compares all this with the stream read at once.

An adapter does not check the ids of calls nor that arguments are objects. Such an answer is settled and sent, and the next
turn cannot carry it: `AnswersCanBeContinued` is therefore conditional on `CallsProper`. Only the streaming adapter limits the
indices of calls.

`AdaptersAnswerOnce` is the refinement `Inference!Spec` with `stage <- status`, `pieces <- parse.text`, `text <- answer.text`: pieces
are never taken back, the answer begins with them, and one end follows, which is what `Delta`, `ProviderAnswers` and `ProviderFails` of
`Turns` assume.

## Runs

| Run | Question |
| --- | --- |
| `ledger_promise` | Does any sequence of reservations and settlements lose a micro, pass a limit other than by excess charges, refund twice or rewrite a row? (16 541 states) |
| `sqlite_transactions` | Do the transactions keep the ledger's promise with every interleaving, failed statement, timeout, midnight and crash, and does one caller win each id? (704 661) |
| `sqlite_calls_return` | With fewer connections than threads, does every call return? (17 639) |
| `turns` | Do permits, reservations, provider calls and answers agree through dropped handlers, failures and crashes? (895 560) |
| `turns_end` | Does every admitted turn end? (74 695) |
| `turn_errors` | A violation: see [findings](#findings). |
| `sessions` | Do races between exchange, authentication, revocation, the clock and crashes let anything through, and does a registration follow its login? (999 205) |
| `guards` | Do quotas, the lockout, the test throttle and the authority of forms hold however workers, posts, ticks and restarts interleave? (658 703) |
| `conversation` | Is every answer whole, fairly billed and fit for the next turn, however its stream is ordered, cut or broken, and is validation exact? (1 705 970) |
| `policy` | Do racing saves of every kind, registrations, turns and redeployments keep the policy loadable, edits on target and offers honoured, does a turn follow one policy, and is a save only answered once refreshed? (1 330 086) |
| `policy_origins`, `policy_removal` | Violations: see [findings](#findings). |

Every property of a passing run has a mutant in `PROJECT.json`: an operator of the model replaced by a
faulty form, under which TLC finds the property violated.

## Bounds

* `ledger_promise`: three requests, so that a pending, a settled and an absent row coexist; two users of one tenant
  and one of another, so that accounts are shared and separate; two days; amounts and charges below, at and above
  zero, the reservation, the limits and `MaxMicros` (6).
* `sqlite_transactions`: two writers and two requests suffice for the races of two transactions, which exclude
  each other; a third writer would only queue. Limits of 3 and 2 let one reservation or both through; two days put
  midnight between choosing the day and committing. Refusals at the first test of a call are left to
  `sqlite_calls_return`, which has three writers over two connections so that the pool runs out.
* `turns`: three attempts over two permits, so that one is refused while two run; two request ids, so that a retry
  races its original and a third attempt is independent; channels of two places, so that a delta fills half; a
  tenant limit for two reservations. `turns_end` and `turn_errors` have channels of one place, so that a delta fills them.
* `sessions`: three exchanges and two calls over two logins; tickets that are fresh, replayed with later dates, of a
  second key, and too long; a clock of five instants with lives of two ticks, so that everything expires in time, and three
  for registrations, which outlive credentials and still expire.
* `guards`: two workers, so that one judges late while another admits; a table of two windows for more keys, so that it fills;
  windows of three ticks and a clock of six instants, so that two windows meet; three sessions for a map of two; two
  posts, so that two tests race; a lockout longer than a session. `MaxLag` (1) bounds the wait for the lock.
* `conversation`: streams of four lines in eight fragments, seven of them accepted, chunks of up to two lines: every order of usage, finish, calls and
  `[DONE]`, a call in two parts and one line of two. Call indices up to 1, with one beyond. Half micros, 20 for the largest integer and 2 for the
  million make charges overflow, round and go negative. Three messages, so that an answer with a call is followed by its
  result and a second turn; four are allowed, so that a transcript may be full. Six models, two of them refused by `validate`.
* `policy`: one product with two customers, one locked per user, two models, an environment that loses one of
  them, saved documents with and without origins, seven edits of all six kinds, two overlapping saves, which is what it takes for one to
  commit between two steps of the other. `MaxRegistrations` (2): a customer has an older registration beside a newer one, or one on its way; `MaxTurns` (1): turns
  read the policy and write nothing of it, so they do not meet; a customer has one turn and one registration on their way at a time for the same reason. `policy_origins` and
  `policy_removal` are about saves alone and have neither.

Symmetry is declared only for sets whose members the model compares by equality alone, and in no run that
checks a liveness property.

## Fairness

* `SqlSpec`: weak fairness of `Progress(w)`, a blocking thread that has been called. The runtime's blocking pool
  keeps running its threads; a thread that waits for a connection or for the lock wakes at its timeout at the latest
  (6 s, 5 s), which is why `PoolTimeout` and `BusyTimeout` are part of `Progress`. Nobody has to call, no day has to pass.
* `TurnSpec`: weak fairness of `HandlerRuns`, `JobRuns` and `TaskRuns` of each attempt. tokio polls a woken future;
  blocking calls return (`EveryCallReturns`, checked one level below); the provider call has a deadline of 120 s, so
  a silent provider ends in `ProviderFails`. The provider owes no answer and no delta, the client owes neither
  reading nor leaving, and crashes are never fair.

No liveness is claimed of `Sessions`, `PolicyStore`, `Guards` and `Conversation`: that a provider call ends is the deadline's doing,
which `Turns` models, and everything else there is the client's or the clock's choice. Their runs do not look for
deadlocks, since clocks stop at their bound and clients may stop.

## Proofs

TLAPS proves the following for all values of the constants that satisfy the assumptions named below.
TLC finds each inductive invariant invariant on the instance of the component's run. `PROJECT.json` lists the theorems.

### Ledger

`SumTheorems` proves what `LedgerProofs` needs of the community operator `SumFunctionOnSet`: it has the type of its
summands and it changes by the change of one summand. The library's induction theorems take an operator as a
parameter, which the provers cannot instantiate, so the module argues by least counterexample: strict inclusion is
well founded on the subsets of a finite set (`MinimalSubset`).

| Theorem | Argument |
| --- | --- |
| `Typing` | inductive by itself; the arithmetic of `Fits` and of `next` keeps totals in range |
| `ConservationHolds` | relative to `TypeOK`: a step changes one row, and an account by the change of that row's weight (`StepHeld`, `StepSums`) |
| `BudgetCapHolds` | relative to `TypeOK`: a reservation ends at or below a limit of its account; a settlement moves total and excess together (`SettleExcess`). No limit is remembered: some limit the policy may hold bounds the account |
| `RowsAreFinalHolds`, `RefundBySettlementOnlyHolds` | from `TypeOK`, one case per action |

### Transactions

`SqliteProofs` shows that the transactions implement the ledger. `SqlInv` says what a half-finished transaction has done:

* `View`: its view is the committed tables changed by exactly the statements behind it, and the totals it wrote were
  tested (`TenantFits`, `UserFits`);
* `OneTransaction`: only one writer is between `BEGIN IMMEDIATE` and its end, so the committed tables do not move under a view;
* `Called`: the arguments are ones a caller may give and passed the first test;
* `TwoAccounts`: no row names one account twice, without which the second update would have to see the first;
* `Proven`: for every Ok that was given, the row shows the reservation or the settlement.

A commit then replaces the tables by the view, which is the whole of `Reserve` or `Settle`; every other step leaves the tables alone. From
the refinement (`TransactionsKeepThePromise`) the ledger's theorems hold of the committed tables under failed statements,
timeouts and crashes (`CommittedTablesBalance`, `CommittedRowsAreFinal`). `OneCallerWins` follows from `Proven`.

### Turns

The safety properties of the `turns` run are not inductive. That the row of a working attempt is its own needs
to be known from the moment its reservation commits, when nobody has been told yet; that no provider call is repeated
needs the attempt that made the first to be still known. The inductive invariant `TurnInv` says:

* `Stage`: how phase, job, client and outcome of an attempt go together;
* `Asks`: what its job asks of the ledger is something a caller may ask;
* `OwnRow` and `OwnersDiffer`: from the commit of its reservation on, an attempt owns its row, the row is in the state
  its own jobs left it in, and no other attempt owns it;
* `Asked`: a request id that reached the provider has a started attempt;
* `Told`: a terminal event in the channel or with the client is the outcome;
* the type invariant and `PermitsConserved`, the latter by cardinality of the set of holders.

`OwnersDiffer` and `OwnRow` support each other: a reservation succeeds only on an absent row, and owners have a row.
Five theorems derive the run's invariants; `TurnsKeepLedger` derives from `Asks` that every step of the pipeline is a step of `Ledger` or
leaves it alone, and with it `TurnsConserve` and `TurnsKeepWithinBudget` carry the ledger's theorems over to any number of
concurrent turns and crashes.

### Sessions

`SessionInv` follows a credential from its claims to the call that presents it: what an exchange is about to insert was fixed from claims
that were good when it was submitted (`Drafted`); a session is the draft of its exchange and its key is spent (`Paid`); a token that is
presented was told to somebody, so its row is there to stay (`Presents`); a call that arrived after a revocation still finds that
revocation at its second read (`Refused`); a registration is of the login that made it, and a clock that was read is not ahead of the time (`Registered`). All six properties of the run are theorems,
`NoCredentialAfterRevoke` as an action property.

### Policy

`PolicyProofs` first shows what the operators do: merging keeps types (`ApplyTypes`), a document that was saved validates over any environment that
has the models its products list (`LoadsUnlessShrunk`), a rule stays inside its product, a registration offers only what its rule permits.
`PolicyInv` adds that the database holds only what was taken from a configuration that validated (`Documented`), that a save between its commit and its answer
has seen the list in effect, and the one it read, in effect since its commit (`Refreshes`), that a turn has met the configuration in effect and the one it read (`Consults`), and that
manifests honour the rules they read (`HonoursAll`). `AnswersAlwaysFollowARefresh` and `TurnsKeepToOnePolicy` follow, the latter because the rule chosen in a product that validated is the closest one
(`LetsFollowTheRules`). `SavesStayOnTarget` is one case per kind of edit.

### Guards

Both guards keep lists that are pruned in passing, by clock readings that may be late, so what a list holds and what was granted agree only
from some instant on. The invariant of a key without a window is `Closed`: the request a quota ago is `Least` (= `Window - MaxLag`) ticks old. That
of a key with a window is `Opened`: the window counts the last requests, the first of them came up to the lag after the window's start, and
`Least` ticks after the request a quota before. `WindowOpens`, `WindowIsUsed`, `WindowCloses` lead from one to the other and keep
`Spread`: of twice a quota of requests in a row, the last comes `Least` ticks after the first. `Spread` is the limit of `Limiter`, and `QuotaIsAlwaysKept` the
refinement. For the panel `Attempted` says that the unexpired attempts are, one for one, the tokens judged wrong within the lockout, which makes
`PanelIsAlwaysThrottled` immediate; `SignedIn` and the invariants `SignInOpensAgain` and `FormsActForTheirSession` are inductive with it.

### Conversations

The code's loops are folds in the model (`FoldLeft`), whose definition is a recursive function over sets of indices. `FoldExists` shows that this
function exists and `FoldEnds` that a fold is the last state of a run: a function on `0..Len(s)` that starts at the base and makes one
step per element. A fact about a loop is then an invariant of its run (`AlongTheRun`).

* `ValidMeansPaired`: for every transcript, of any length, `validate_turn` accepts it exactly when it is well paired. Along the run, the calls that wait are
  the calls of the message whose round it is, less those heard, each heard once (`Waits`); conversely a round that is over has
  as many results as calls, so the ids differ (`ResultsCounted`, by cardinality).
* Prices: the quotient of a rounded sum is exact to a micro, monotonic and within `i64` (`RoundedUp`, `QuotientIsMonotonic`, `QuotientFits`); so a
  usage within the model's limits costs no more than the reservation (`ChargesAreFair`), which turns `BudgetCap` into the plain daily limit for
  providers that keep to the limits and report tokens.
* `ConversationInv`: what was submitted is valid (`Submitted`); an answer is an assistant's and, of a stream, has all that was read (`Answered`,
  `Complete`); a stream that has not failed has read what its whole lines said (`SaidBy`) and the price of the last usage on them (`Streamed`, kept
  by any chunk: `ChunkRead`, a line at a time).
* `AnswersAlwaysWhole`: the left side reads line by line, delta by delta; the right side joins the parts of the whole stream. Joining is a run as well
  (`FlattenRuns`), so one more line appends what it says to both (`LinesSay`, `LineReads`), one more delta to its index only (`DeltasSpell`, by
  associativity). The map then gives as many calls as indices, the call of an index at its rank (`CallsComeInOrder`, by cardinality).
* `BillsAlwaysFair` and `AnswersAlwaysContinued` follow, the latter because a paired transcript, an answer and its results in any order are
  paired (`PairedGoesOn`).
* `AdaptersAlwaysAnswerOnce`: the text read along a chunk only grows (`Begins`), so every step is one of `Inference`.

### Assumptions

Besides those that say that a constant is a natural number, a finite set or a function of its type: tenants and users are disjoint; limits and
amounts are micros; days begin at 1 and there is one at least (`LastDay`); `MaxLag < Window`; environments validate, as `Config::from_env` refuses others
(`EnvironmentsAssumption`); documents that are in the database before the first step have the shape that `save` gives them (`SavedAssumption`),
which `PoliciesStayConsistent` shows of all later ones; normal forms of origins are fixed points. Lines and bodies have the types that
`serde_json` gives: a count is an integer or missing, text and arguments are strings of any length, calls come in any number (`StreamAssumption`). Inputs of
a client are messages. A believed cost is below `MaxInt`: a million dollars in micros is 10^12.

### Model-checked only

Liveness (`EveryCallReturns`, `EveryTurnEnds`) and `ENABLED` are out of the prover's reach; every other property of the passing runs has a
theorem. The three violations are TLC's.
No module has a `RECURSIVE` operator; `Later` and `With` in `Instants` and the folds of `ProviderStream` are written as
functions so that the modules that use them can be reasoned about.

## Findings

* `turn_errors`: `openapi.yaml` line 945 says that once streaming starts, errors arrive as `failed` events. The event is
  sent with `try_send` into a bounded channel and the result is ignored (`src/service.rs` 322): a client that has fallen
  behind reads a stream that just ends. (The same document calls a truncated connection an uncertain outcome, so a
  careful client is not misled about money; `OutcomeMatchesLedger` confirms that nothing false is sent.)
* `policy_origins`: two saves may publish the origins they read in the opposite order of their commits (`src/service.rs`
  38-46). Both are answered with success and the CORS layer keeps the older list until the next save or restart, against
  `docs/admin-panel.md` line 59.
* `policy_removal`: choosing another model for a product never takes the former one out of its list
  (`src/admin/model.rs` 142-152). Following `docs/admin-panel.md` line 92, moving every assignment and then removing the
  model from the environment, leaves a policy that does not load; saving cannot repair it, since a save loads first.

Two more differences between docs and code follow from properties that hold; they have no run of their own, for the passing properties
state what the code does keep:

* `SECURITY.md` line 30 speaks of "ten session exchange attempts per minute". Windows are fixed from their first request (`src/admission.rs`
  29-41), so a minute that straddles two of them admits up to nineteen exchanges, and up to 239 other requests. `QuotaIsKept` proves that bound and no better one.
* `docs/admin-panel.md` lines 24-25 say that five failed attempts lock sign-in for 15 minutes. Attempts expire one by one (`src/admin/mod.rs`
  148-152), so a panel locked by the fifth opens again for one attempt when the first is 15 minutes old, which may be a moment after the fifth.
  `SignInOpensAgain` states it.

## Abstractions

* An account without a row is an account of 0, a NULL charge a charge of 0, a database without a policy one with
  `NoPolicy`, a product without `default_model` one whose first model is the default. The code cannot tell these apart
  where the models use them.
* Micros are integers up to `MaxMicros`, the largest `i64`: every sum of the code is checked, so a sum past it is a
  refusal and never a wrap-around.
* Request ids are the hashed keys; two identities never share one. Tokens are named by the exchange that made them.
* JWT signatures, URL parsing (`NormalOf`), JSON, SQL and HTTP are external; what the code relies on is an assumption
  (`NormalFormAssumption`: normal forms are fixed points).
* A cost in dollars is a number of half micros and is rounded up exactly. The code multiplies and rounds in `f64` (`src/provider.rs` 247-251),
  so a reported cost within a rounding error of a whole number of micros may be charged a micro more or less than `UsageCharge` says; such a cost is the provider's own figure and
  no property bounds it by the reservation.
* Prices are positive and low enough that the largest limits reserve within 64 bits, which `ModelConfig::validate` tests.
* Text, ids and arguments of a stream are sequences of the parts they come in, so that joining them is visible; `JsonOf` says which sequences
  are JSON. Names of calls are joined as ids are, and left out. UTF-8 and JSON errors, a missing index and a reported error are one kind of line.
* A mutex is never poisoned: no code under it panics.
* SQLite is serialised writers over committed states (WAL, `synchronous = FULL`): a crash keeps what was committed.

## Not modelled

HTTP routes, status codes and headers, OpenAPI, HTML views, the prompt baseline, logging and the parsing of environment variables keep no
state and hold no decision that the properties depend on. The request bodies the adapters send are data conversion, and so are the size
estimate of a turn and `validate_manifest`: refusals without effect, whose inputs the models leave out. The playground is a
client of operations that are modelled, in sequence; its throttle is `StartTest`. The models never meet all at once:
`Turns` takes from `Conversation` only what `Inference` promises and from `SqliteLedger` only what `Ledger` promises.

## Plan

Done, in this order: `Ledger`, its proofs, `SqliteLedger`, `Turns`, `Sessions`, `Policy` and `PolicyStore`, `TurnProofs`; then
`Limiter`, `Admission`, `AdminPanel` and `Guards`; `Charges`, `Transcript`, `ProviderStream` and `Conversation`; registrations in `Sessions`.

Left to model: `Gateway`, a composition of `Sessions`, `PolicyStore` and `Turns`: what a turn that was let in may rely on while the policy is edited
and its login is revoked.

Next theorems:

1. Properties that no run states yet but the invariants already carry, such as that money held for an attempt is
   given back only by its own settlement (`TurnInv` with `RefundBySettlementOnly`).
2. Types of `Turns` seen from `Inference`: that the pipeline's deltas and answers are steps of `Inference`.

## Running

In the directory of these files, with TLC and the TLA+ community modules on the path:

    tlc -workers 2 -config MCTurns.cfg MCTurns
    tlapm TurnProofs.tla

`PROJECT.json` names module, configuration and properties of every run, the mutants, and the source lines of every definition.
