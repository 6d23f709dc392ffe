------------------------------- MODULE Turns --------------------------------
(***************************************************************************)
(* One inference turn from admission to its last event (src/service.rs,    *)
(* start_turn), over the ledger of module Ledger: a permit of the          *)
(* inference semaphore, two reads, a reservation that runs on a blocking   *)
(* thread, a task that outlives the HTTP handler, the provider, the        *)
(* settlement, and a bounded event stream to a client that may leave.      *)
(*                                                                         *)
(* A handler future is dropped wherever it waits when its connection goes  *)
(* away; a job already handed to the blocking pool runs all the same.  A   *)
(* crash forgets everything but the ledger.                                *)
(***************************************************************************)
EXTENDS Ledger, Sequences

CONSTANTS
  Attempts,     \* POST /v1/turns calls that reach start_turn
  OwnerOf,      \* the user whose identity is hashed into a request id
  Slots,        \* permits of the inference semaphore (32)
  Capacity      \* places in an event channel (128)

ASSUME AttemptsAssumption == IsFiniteSet(Attempts)
ASSUME OwnerAssumption == OwnerOf \in [Requests -> Users]
ASSUME SlotsAssumption == Slots \in Nat \ {0} /\ Capacity \in Nat \ {0}

VARIABLES
  slots,        \* permits left
  phase,        \* where each attempt is
  request,      \* its request id, hashed
  plan,         \* the price and limits of the policy snapshot it works from
  job,          \* its reserve or settle job on the blocking pool
  bill,         \* what the provider said it costs
  outcome,      \* how it ended for the gateway
  queue,        \* its event channel
  client,       \* the receiving end
  seen,         \* the last terminal event the client received
  asked         \* history: provider calls made for a request id

turnVars == <<held, rows, slots, phase, request, plan, job, bill, outcome,
              queue, client, seen, asked>>
store == <<held, rows>>
stream == <<queue, client, seen>>

NoPlan == [amount |-> 0, tenantLimit |-> 0, userLimit |-> 0]
NoRequest == "none"

(* Phases in which a handler future owns the permit, and those in which    *)
(* the spawned task does.                                                  *)
InHandler == {"manifest", "policy", "reserving"}
InTask == {"inferring", "settling"}
HoldsPermit(t) == phase[t] \in InHandler \cup InTask

-----------------------------------------------------------------------------
TurnInit ==
  /\ Init
  /\ slots = Slots
  /\ phase = [t \in Attempts |-> "idle"]
  /\ request = [t \in Attempts |-> NoRequest]
  /\ plan = [t \in Attempts |-> NoPlan]
  /\ job = [t \in Attempts |-> "none"]
  /\ bill = [t \in Attempts |-> 0]
  /\ outcome = [t \in Attempts |-> "none"]
  /\ queue = [t \in Attempts |-> <<>>]
  /\ client = [t \in Attempts |-> "none"]
  /\ seen = [t \in Attempts |-> "none"]
  /\ asked = [r \in Requests |-> 0]

Goto(t, label) == phase' = [phase EXCEPT ![t] = label]

(* A handler that owns a permit ends: the permit goes back with it.        *)
Leave(t, how) ==
  /\ Goto(t, "over")
  /\ outcome' = [outcome EXCEPT ![t] = how]
  /\ slots' = slots + 1

(* try_acquire_owned: a permit or an immediate refusal.                    *)
Admit(t, r) ==
  /\ phase[t] = "idle"
  /\ request' = [request EXCEPT ![t] = r]
  /\ IF slots = 0
     THEN /\ Goto(t, "over")
          /\ outcome' = [outcome EXCEPT ![t] = "refused"]
          /\ UNCHANGED slots
     ELSE /\ Goto(t, "manifest")
          /\ slots' = slots - 1
          /\ UNCHANGED outcome
  /\ UNCHANGED <<store, plan, job, bill, stream, asked>>

(* The registration is this identity's, unexpired, and lists the model.    *)
ReadManifest(t) ==
  /\ phase[t] = "manifest"
  /\ Goto(t, "policy")
  /\ UNCHANGED <<store, slots, request, plan, job, bill, outcome, stream, asked>>

(* The effective policy permits the model and the input fits; price and    *)
(* limits are fixed here and the reservation goes to the blocking pool.    *)
ReadPolicy(t, amount) ==
  /\ phase[t] = "policy"
  /\ LET user == OwnerOf[request[t]]
     IN \E tl \in LimitsOf[TenantOf[user]], ul \in LimitsOf[user] :
          plan' = [plan EXCEPT ![t] = [amount |-> amount, tenantLimit |-> tl,
                                       userLimit |-> ul]]
  /\ job' = [job EXCEPT ![t] = "reserve"]
  /\ Goto(t, "reserving")
  /\ UNCHANGED <<store, slots, request, bill, outcome, stream, asked>>

(* Any early return before the reservation.                                *)
Refuse(t) ==
  /\ phase[t] \in {"manifest", "policy"}
  /\ Leave(t, "refused")
  /\ UNCHANGED <<store, request, plan, job, bill, stream, asked>>

(* The blocking thread runs the reservation, whether or not the handler    *)
(* still waits for it.                                                     *)
RunReserve(t, d) ==
  /\ job[t] = "reserve"
  /\ Reserve(request[t], OwnerOf[request[t]], d, plan[t].amount,
             plan[t].tenantLimit, plan[t].userLimit)
  /\ job' = [job EXCEPT ![t] = "reserved"]
  /\ UNCHANGED <<slots, phase, request, plan, bill, outcome, stream, asked>>

(* A reserve or settle job that changes nothing: the id is taken, the      *)
(* budget is spent, the charge is out of range, or SQLite fails.           *)
JobFails(t) ==
  /\ job[t] \in {"reserve", "settle"}
  /\ job' = [job EXCEPT ![t] = "failed"]
  /\ UNCHANGED <<store, slots, phase, request, plan, bill, outcome, stream, asked>>

(* A fault: a refused reservation forgets the permit.                      *)
RejectAndForget(t) ==
  /\ phase[t] = "reserving"
  /\ job[t] = "failed"
  /\ Goto(t, "over")
  /\ outcome' = [outcome EXCEPT ![t] = "refused"]
  /\ UNCHANGED <<slots, store, request, plan, job, bill, stream, asked>>

RejectReservation(t) ==
  /\ phase[t] = "reserving"
  /\ job[t] = "failed"
  /\ Leave(t, "refused")
  /\ UNCHANGED <<store, request, plan, job, bill, stream, asked>>

(* Faults: the task starts without waiting for the reservation; a conflict *)
(* is taken for a reservation made by an earlier try.                      *)
StartBeforeReserved(t) ==
  /\ phase[t] = "reserving"
  /\ job[t] \in {"reserve", "reserved"}
  /\ Goto(t, "inferring")
  /\ client' = [client EXCEPT ![t] = "reading"]
  /\ asked' = [asked EXCEPT ![request[t]] = @ + 1]
  /\ UNCHANGED <<store, slots, request, plan, job, bill, outcome, queue, seen>>

StartOnConflict(t) ==
  /\ phase[t] = "reserving"
  /\ job[t] = "reserved" \/ (job[t] = "failed" /\ rows[request[t]] # NoRow)
  /\ Goto(t, "inferring")
  /\ client' = [client EXCEPT ![t] = "reading"]
  /\ asked' = [asked EXCEPT ![request[t]] = @ + 1]
  /\ UNCHANGED <<store, slots, request, plan, job, bill, outcome, queue, seen>>

(* The reservation is there: open the channel, spawn the task (which calls *)
(* the provider) and hand the receiver to the HTTP response.               *)
StartInference(t) ==
  /\ phase[t] = "reserving"
  /\ job[t] = "reserved"
  /\ Goto(t, "inferring")
  /\ client' = [client EXCEPT ![t] = "reading"]
  /\ asked' = [asked EXCEPT ![request[t]] = @ + 1]
  /\ UNCHANGED <<store, slots, request, plan, job, bill, outcome, queue, seen>>

(* The connection goes away while the handler waits.                       *)
DropHandler(t) ==
  /\ phase[t] \in InHandler
  /\ Leave(t, "cancelled")
  /\ UNCHANGED <<store, request, plan, job, bill, stream, asked>>

(* A fault: the channel has no bound.                                      *)
SendUnbounded(t, event) ==
  queue' = IF client[t] = "reading" THEN [queue EXCEPT ![t] = Append(@, event)] ELSE queue

(* try_send: an event that finds the channel full or the client gone is    *)
(* lost.                                                                   *)
TrySend(t, event) ==
  queue' = IF client[t] = "reading" /\ Len(queue[t]) < Capacity
           THEN [queue EXCEPT ![t] = Append(@, event)] ELSE queue

(* A piece of text from the provider.                                      *)
Delta(t) ==
  /\ phase[t] = "inferring"
  /\ TrySend(t, "delta")
  /\ UNCHANGED <<store, slots, phase, request, plan, job, bill, outcome, client, seen, asked>>

(* The provider answered in full, usage included, within the deadline.     *)
ProviderAnswers(t, charge) ==
  /\ phase[t] = "inferring"
  /\ bill' = [bill EXCEPT ![t] = charge]
  /\ job' = [job EXCEPT ![t] = "settle"]
  /\ Goto(t, "settling")
  /\ UNCHANGED <<store, slots, request, plan, outcome, stream, asked>>

(* The task's last statements run without a pause: event, permit, sender.  *)
EndTask(t, event) ==
  /\ Leave(t, event)
  /\ TrySend(t, event)

(* A fault: only a client that leaves ends a silent provider's turn.       *)
FailsOnceLeft(t) ==
  /\ phase[t] = "inferring" /\ client[t] = "left"
  /\ EndTask(t, "failed")
  /\ UNCHANGED <<store, request, plan, job, bill, client, seen, asked>>

(* An error, an incomplete stream, or the 120 second deadline.             *)
ProviderFails(t) ==
  /\ phase[t] = "inferring"
  /\ EndTask(t, "failed")
  /\ UNCHANGED <<store, request, plan, job, bill, client, seen, asked>>

RunSettle(t) ==
  /\ job[t] = "settle"
  /\ Settle(request[t], bill[t])
  /\ job' = [job EXCEPT ![t] = "settled"]
  /\ UNCHANGED <<slots, phase, request, plan, bill, outcome, stream, asked>>

(* A fault: the answer is completed whatever became of the settlement.     *)
FinishRegardless(t) ==
  /\ phase[t] = "settling"
  /\ job[t] \in {"settled", "failed"}
  /\ EndTask(t, "completed")
  /\ UNCHANGED <<store, request, plan, job, bill, client, seen, asked>>

Finish(t) ==
  /\ phase[t] = "settling"
  /\ job[t] \in {"settled", "failed"}
  /\ EndTask(t, IF job[t] = "settled" THEN "completed" ELSE "failed")
  /\ UNCHANGED <<store, request, plan, job, bill, client, seen, asked>>

(* The client takes the next event.                                        *)
Deliver(t) ==
  /\ client[t] = "reading"
  /\ queue[t] # <<>>
  /\ queue' = [queue EXCEPT ![t] = Tail(@)]
  /\ seen' = [seen EXCEPT ![t] = IF Head(queue[t]) = "delta" THEN @ ELSE Head(queue[t])]
  /\ UNCHANGED <<store, slots, phase, request, plan, job, bill, outcome, client, asked>>

(* The sender is dropped and the channel drained: the response body ends.  *)
EndStream(t) ==
  /\ client[t] = "reading"
  /\ phase[t] = "over" /\ queue[t] = <<>>
  /\ client' = [client EXCEPT ![t] = "ended"]
  /\ UNCHANGED <<store, slots, phase, request, plan, job, bill, outcome, queue, seen, asked>>

(* The client leaves; only the receiver is dropped.                        *)
Disconnect(t) ==
  /\ client[t] = "reading"
  /\ client' = [client EXCEPT ![t] = "left"]
  /\ queue' = [queue EXCEPT ![t] = <<>>]
  /\ UNCHANGED <<store, slots, phase, request, plan, job, bill, outcome, seen, asked>>

(* The process dies and starts again with a full semaphore.                *)
Crash ==
  /\ \E t \in Attempts : HoldsPermit(t) \/ job[t] \in {"reserve", "settle"}
                         \/ client[t] = "reading"
  /\ slots' = Slots
  /\ phase' = [t \in Attempts |-> IF HoldsPermit(t) THEN "over" ELSE phase[t]]
  /\ outcome' = [t \in Attempts |-> IF HoldsPermit(t) THEN "crashed" ELSE outcome[t]]
  /\ job' = [t \in Attempts |-> IF job[t] \in {"reserve", "settle"} THEN "lost" ELSE job[t]]
  /\ client' = [t \in Attempts |-> IF client[t] = "reading" THEN "left" ELSE client[t]]
  /\ queue' = [t \in Attempts |-> <<>>]
  /\ UNCHANGED <<store, request, plan, bill, seen, asked>>

(* What the runtime, the blocking pool and the provider's deadline make    *)
(* happen without the client.                                              *)
HandlerRuns(t) ==
  \/ ReadManifest(t) \/ \E amount \in Amounts : ReadPolicy(t, amount)
  \/ Refuse(t) \/ RejectReservation(t) \/ StartInference(t)
JobRuns(t) == (\E d \in Days : RunReserve(t, d)) \/ RunSettle(t) \/ JobFails(t)
TaskRuns(t) == ProviderFails(t) \/ Finish(t)

TurnNext ==
  \/ \E t \in Attempts :
       \/ \E r \in Requests : Admit(t, r)
       \/ HandlerRuns(t) \/ JobRuns(t) \/ TaskRuns(t)
       \/ Delta(t) \/ \E charge \in Charges : ProviderAnswers(t, charge)
       \/ Deliver(t) \/ EndStream(t)
       \/ DropHandler(t) \/ Disconnect(t)
  \/ Crash

(* The runtime polls a woken handler or task, blocking calls return (see   *)
(* SqliteLedger's EveryCallReturns), and the deadline of the provider call *)
(* passes.  The provider and the clients owe nothing.                      *)
TurnSpec ==
  /\ TurnInit /\ [][TurnNext]_turnVars
  /\ \A t \in Attempts : WF_turnVars(HandlerRuns(t)) /\ WF_turnVars(JobRuns(t))
                         /\ WF_turnVars(TaskRuns(t))

-----------------------------------------------------------------------------
TurnTypeOK ==
  /\ TypeOK
  /\ slots \in 0..Slots
  /\ phase \in [Attempts -> {"idle", "over"} \cup InHandler \cup InTask]
  /\ request \in [Attempts -> Requests \cup {NoRequest}]
  /\ plan \in [Attempts -> [amount : Int, tenantLimit : Nat, userLimit : Nat]]
  /\ job \in [Attempts -> {"none", "reserve", "reserved", "settle", "settled", "failed", "lost"}]
  /\ bill \in [Attempts -> Int]
  /\ outcome \in [Attempts -> {"none", "refused", "cancelled", "completed", "failed", "crashed"}]
  /\ queue \in [Attempts -> Seq({"delta", "completed", "failed"})]
  /\ \A t \in Attempts : Len(queue[t]) <= Capacity
  /\ client \in [Attempts -> {"none", "reading", "left", "ended"}]
  /\ seen \in [Attempts -> {"none", "completed", "failed"}]
  /\ asked \in [Requests -> Nat]

(* No path loses a permit or returns one twice: early returns, dropped     *)
(* handlers, tasks that outlive their client and restarts keep the permits *)
(* left and the permits in use at Slots (SECURITY.md: "32 concurrent       *)
(* inferences per process").                                               *)
PermitsConserved == slots + Cardinality({t \in Attempts : HoldsPermit(t)}) = Slots

(* The provider works for an attempt only on that attempt's own committed  *)
(* reservation: the row is pending, or settled by its own settlement, at   *)
(* its own price, and no other live attempt works on the same row          *)
(* (README: "Request IDs are unique per identity/inference").              *)
InferenceIsReserved ==
  \A t \in Attempts : phase[t] \in InTask =>
    LET row == rows[request[t]]
    IN /\ row.status = IF job[t] = "settled" THEN "settled" ELSE "pending"
       /\ row.reservation = plan[t].amount
       /\ \A s \in Attempts \ {t} :
            phase[s] \in InTask => request[s] # request[t]

(* A request id reaches the provider once at most, retries, dropped        *)
(* connections and restarts included, and never before it is paid for      *)
(* (SECURITY.md: "no automatic replay of uncertain writes").               *)
AskedOnce == \A r \in Requests : asked[r] <= 1 /\ (asked[r] = 1 => rows[r] # NoRow)

(* What an attempt ends with is what the ledger says: completed only with  *)
(* its charge settled, failed only with its reservation still held, and a  *)
(* client is never told anything else (README: "Unknown usage, timeout or  *)
(* incomplete streaming leaves the reservation pending").                  *)
OutcomeMatchesLedger ==
  \A t \in Attempts :
    LET row == rows[request[t]]
    IN /\ outcome[t] = "completed" => row.status = "settled" /\ row.charged = bill[t]
       /\ outcome[t] = "failed" => row.status = "pending" /\ row.reservation = plan[t].amount
       /\ seen[t] # "none" => seen[t] = outcome[t]

(* Every admitted attempt ends, and with it its hold on a permit, whatever *)
(* the provider and the client do.                                         *)
EveryTurnEnds == \A t \in Attempts : HoldsPermit(t) ~> phase[t] = "over"

(* What openapi.yaml promises: "Once HTTP streaming starts, errors arrive  *)
(* as failed events."  A client that reads its stream to the end of a      *)
(* failed turn has received the failed event.                              *)
ErrorsArriveAsFailedEvents ==
  \A t \in Attempts :
    client[t] = "ended" /\ outcome[t] = "failed" => seen[t] = "failed"
=============================================================================
