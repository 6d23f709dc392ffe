----------------------------- MODULE TurnProofs -----------------------------
(* Theorems about the turn pipeline, for every set of attempts, request    *)
(* ids, owners, amounts, charges and limits, every number of permits and   *)
(* every channel capacity.                                                 *)
EXTENDS Turns, LedgerProofs, FiniteSetTheorems

(***************************************************************************)
(* The inductive invariant.                                                *)
(***************************************************************************)

(* The reservation was answered and the provider asked.                    *)
Started(t) == client[t] # "none"

(* The row of its request id is this attempt's.                            *)
Owns(t) == job[t] = "reserved" \/ Started(t)

(* How the phase, the job, the client and the outcome of an attempt go     *)
(* together.                                                               *)
Stage(t) ==
  /\ phase[t] # "idle" => request[t] \in Requests
  /\ phase[t] \in {"idle", "manifest", "policy"} => job[t] = "none" /\ ~ Started(t)
  /\ phase[t] = "reserving" => job[t] \in {"reserve", "reserved", "failed"} /\ ~ Started(t)
  /\ phase[t] = "inferring" => job[t] = "reserved" /\ Started(t)
  /\ phase[t] = "settling" => job[t] \in {"settle", "settled", "failed"} /\ Started(t)
  /\ phase[t] = "over" => job[t] # "settle"
  /\ job[t] = "settled" => Started(t)
  /\ Started(t) => job[t] \notin {"none", "reserve"}
  /\ phase[t] = "over" <=> outcome[t] # "none"
  /\ outcome[t] = "completed" => job[t] = "settled"
  /\ outcome[t] = "failed" => Started(t) /\ job[t] # "settled"

(* What an attempt asks of the ledger is something its callers may ask.    *)
Asks(t) ==
  /\ job[t] # "none" =>
       /\ plan[t].amount \in Amounts
       /\ plan[t].tenantLimit \in LimitsOf[TenantOf[OwnerOf[request[t]]]]
       /\ plan[t].userLimit \in LimitsOf[OwnerOf[request[t]]]
  /\ job[t] \in {"settle", "settled"} => bill[t] \in Charges

(* The row of an attempt is in the state that its own jobs left it in ...  *)
OwnRow(t) ==
  Owns(t) =>
    /\ rows[request[t]] # NoRow
    /\ rows[request[t]].status = IF job[t] = "settled" THEN "settled" ELSE "pending"
    /\ rows[request[t]].reservation = plan[t].amount
    /\ job[t] = "settled" => rows[request[t]].charged = bill[t]

(* ... because no other attempt owns it.                                   *)
OwnersDiffer ==
  \A s, t \in Attempts : s # t /\ Owns(s) /\ Owns(t) => request[s] # request[t]

(* Whoever asked the provider for a request id is still known.             *)
Asked(r) ==
  /\ asked[r] \in {0, 1}
  /\ asked[r] = 1 => \E t \in Attempts : Started(t) /\ request[t] = r

(* The terminal event, in the channel or with the client, is the outcome.  *)
Told(t) ==
  /\ \A i \in 1..Len(queue[t]) : queue[t][i] # "delta" => queue[t][i] = outcome[t]
  /\ seen[t] # "none" => seen[t] = outcome[t]

TurnInv ==
  /\ TurnTypeOK
  /\ PermitsConserved
  /\ \A t \in Attempts : Stage(t) /\ Asks(t) /\ OwnRow(t) /\ Told(t)
  /\ OwnersDiffer
  /\ \A r \in Requests : Asked(r)

(* What most steps leave alone: the books, and who works on which row.     *)
Quiet == UNCHANGED <<held, rows, request, plan, job, bill, client, asked>>

(***************************************************************************)
(* The stages of an attempt.                                               *)
(***************************************************************************)
LEMMA StageStep ==
  ASSUME TurnInv, [TurnNext]_turnVars, NEW t \in Attempts
  PROVE  Stage(t)'
<1> DEFINE Fns == /\ phase \in [Attempts -> {"idle", "over"} \cup InHandler \cup InTask]
                  /\ request \in [Attempts -> Requests \cup {NoRequest}]
                  /\ job \in [Attempts -> {"none", "reserve", "reserved", "settle",
                                         "settled", "failed", "lost"}]
                  /\ outcome \in [Attempts -> {"none", "refused", "cancelled", "completed",
                                             "failed", "crashed"}]
                  /\ client \in [Attempts -> {"none", "reading", "left", "ended"}]
<1>0. Fns /\ \A s \in Attempts : Stage(s)
  BY DEF TurnInv, TurnTypeOK
<1>1. CASE UNCHANGED turnVars
  BY <1>0, <1>1 DEF turnVars, Stage, Started
<1>2. ASSUME NEW s \in Attempts, NEW r \in Requests, Admit(s, r)
      PROVE  Stage(t)'
  BY <1>2, <1>0 DEF Admit, Goto, Stage, Started, stream, store
<1>3. ASSUME NEW s \in Attempts, ReadManifest(s)
      PROVE  Stage(t)'
  BY <1>3, <1>0 DEF ReadManifest, Goto, Stage, Started, stream, store
<1>4. ASSUME NEW s \in Attempts, NEW amount \in Amounts, ReadPolicy(s, amount)
      PROVE  Stage(t)'
  BY <1>4, <1>0 DEF ReadPolicy, Goto, Stage, Started, stream, store
<1>5. ASSUME NEW s \in Attempts, Refuse(s)
      PROVE  Stage(t)'
  BY <1>5, <1>0 DEF Refuse, Leave, Goto, Stage, Started, stream, store
<1>6. ASSUME NEW s \in Attempts, RejectReservation(s)
      PROVE  Stage(t)'
  BY <1>6, <1>0 DEF RejectReservation, Leave, Goto, Stage, Started, stream, store
<1>7. ASSUME NEW s \in Attempts, StartInference(s)
      PROVE  Stage(t)'
  BY <1>7, <1>0 DEF StartInference, Goto, Stage, Started, stream, store
<1>8. ASSUME NEW s \in Attempts, NEW d \in Days, RunReserve(s, d)
      PROVE  Stage(t)'
  BY <1>8, <1>0 DEF RunReserve, Stage, Started, stream, store
<1>9. ASSUME NEW s \in Attempts, RunSettle(s)
      PROVE  Stage(t)'
  BY <1>9, <1>0 DEF RunSettle, Stage, Started, stream, store, InHandler, InTask
<1>10. ASSUME NEW s \in Attempts, JobFails(s)
      PROVE  Stage(t)'
  BY <1>10, <1>0 DEF JobFails, Stage, Started, stream, store
<1>11. ASSUME NEW s \in Attempts, ProviderFails(s)
      PROVE  Stage(t)'
  BY <1>11, <1>0 DEF ProviderFails, EndTask, Leave, Goto, Stage, Started, stream, store
<1>12. ASSUME NEW s \in Attempts, Finish(s)
      PROVE  Stage(t)'
  BY <1>12, <1>0 DEF Finish, EndTask, Leave, Goto, Stage, Started, stream, store
<1>13. ASSUME NEW s \in Attempts, Delta(s)
      PROVE  Stage(t)'
  BY <1>13, <1>0 DEF Delta, Stage, Started, stream, store
<1>14. ASSUME NEW s \in Attempts, NEW charge \in Charges, ProviderAnswers(s, charge)
      PROVE  Stage(t)'
  BY <1>14, <1>0 DEF ProviderAnswers, Goto, Stage, Started, stream, store
<1>15. ASSUME NEW s \in Attempts, Deliver(s)
      PROVE  Stage(t)'
  BY <1>15, <1>0 DEF Deliver, Stage, Started, stream, store
<1>16. ASSUME NEW s \in Attempts, EndStream(s)
      PROVE  Stage(t)'
  BY <1>16, <1>0 DEF EndStream, Stage, Started, stream, store
<1>17. ASSUME NEW s \in Attempts, DropHandler(s)
      PROVE  Stage(t)'
  BY <1>17, <1>0 DEF DropHandler, Leave, Goto, Stage, Started, stream, store, InHandler
<1>18. ASSUME NEW s \in Attempts, Disconnect(s)
      PROVE  Stage(t)'
  BY <1>18, <1>0 DEF Disconnect, Stage, Started, stream, store
<1>19. CASE Crash
  BY <1>19, <1>0 DEF Crash, HoldsPermit, InHandler, InTask, Stage, Started, stream, store
<1> QED
  BY <1>1, <1>2, <1>3, <1>4, <1>5, <1>6, <1>7, <1>8, <1>9, <1>10, <1>11, <1>12, <1>13,
     <1>14, <1>15, <1>16, <1>17, <1>18, <1>19
  DEF TurnNext, HandlerRuns, JobRuns, TaskRuns

(***************************************************************************)
(* The books: which rows the attempts own.                                 *)
(***************************************************************************)

(* The steps that touch the books, request ids and jobs, and the rest.     *)
LEMMA BookSteps ==
  ASSUME [TurnNext]_turnVars
  PROVE  \/ Quiet \/ Crash
         \/ \E s \in Attempts :
              \/ \E r \in Requests : Admit(s, r)
              \/ \E amount \in Amounts : ReadPolicy(s, amount)
              \/ \E d \in Days : RunReserve(s, d)
              \/ \E charge \in Charges : ProviderAnswers(s, charge)
              \/ StartInference(s) \/ RunSettle(s) \/ JobFails(s)
              \/ EndStream(s) \/ Disconnect(s)
<1>1. CASE UNCHANGED turnVars
  BY <1>1 DEF turnVars, Quiet
<1>2. ASSUME NEW s \in Attempts,
             \/ ReadManifest(s) \/ Refuse(s) \/ RejectReservation(s) \/ ProviderFails(s)
             \/ Finish(s) \/ Delta(s) \/ Deliver(s) \/ DropHandler(s)
      PROVE  Quiet
  BY <1>2 DEF ReadManifest, Refuse, RejectReservation, ProviderFails, Finish, Delta,
              Deliver, DropHandler, Quiet, store, stream
<1> QED
  BY <1>1, <1>2 DEF TurnNext, HandlerRuns, JobRuns, TaskRuns

(* What the lemmas below use of the invariant.                             *)
LEMMA Books ==
  ASSUME TurnInv
  PROVE  /\ request \in [Attempts -> Requests \cup {NoRequest}]
         /\ plan \in [Attempts -> [amount : Int, tenantLimit : Nat, userLimit : Nat]]
         /\ job \in [Attempts -> {"none", "reserve", "reserved", "settle", "settled",
                                "failed", "lost"}]
         /\ bill \in [Attempts -> Int]
         /\ client \in [Attempts -> {"none", "reading", "left", "ended"}]
         /\ asked \in [Requests -> Nat]
         /\ TypeOK
         /\ \A t \in Attempts : Stage(t) /\ Asks(t) /\ OwnRow(t)
         /\ \A t \in Attempts : job[t] # "none" =>
              request[t] \in Requests /\ OwnerOf[request[t]] \in Users
<1>1. \A t \in Attempts : Stage(t) /\ job[t] # "none" => request[t] \in Requests
  BY DEF TurnInv, Stage
<1> QED
  BY <1>1, OwnerAssumption DEF TurnInv, TurnTypeOK

(* A job asks the ledger for what its callers may ask.                     *)
LEMMA AsksStep ==
  ASSUME TurnInv, [TurnNext]_turnVars, NEW t \in Attempts
  PROVE  Asks(t)'
<1>1. CASE Quiet
  BY <1>1, Books DEF Quiet, Asks
<1>2. ASSUME NEW s \in Attempts, NEW r \in Requests, Admit(s, r)
      PROVE  Asks(t)'
  BY <1>2, Books DEF Admit, Asks, Stage, stream
<1>3. ASSUME NEW s \in Attempts, NEW amount \in Amounts, ReadPolicy(s, amount)
      PROVE  Asks(t)'
  BY <1>3, Books DEF ReadPolicy, Asks
<1>4. ASSUME NEW s \in Attempts, NEW charge \in Charges, ProviderAnswers(s, charge)
      PROVE  Asks(t)'
  BY <1>4, Books DEF ProviderAnswers, Asks, Stage
<1>5. ASSUME NEW s \in Attempts,
             \/ \E d \in Days : RunReserve(s, d)
             \/ RunSettle(s) \/ JobFails(s)
             \/ StartInference(s) \/ EndStream(s) \/ Disconnect(s)
      PROVE  Asks(t)'
  BY <1>5, Books DEF RunReserve, RunSettle, JobFails, StartInference, EndStream, Disconnect, Asks
<1>6. CASE Crash
  BY <1>6, Books DEF Crash, Asks
<1> QED
  BY <1>1, <1>2, <1>3, <1>4, <1>5, <1>6, BookSteps

(* What the turns do to the ledger is what the ledger lets its callers do. *)
LEMMA LedgerStep ==
  ASSUME TurnInv, [TurnNext]_turnVars
  PROVE  [Next]_vars
<1>1. ASSUME NEW s \in Attempts, NEW d \in Days, RunReserve(s, d)
      PROVE  Next
  <2> DEFINE r == request[s]
             u == OwnerOf[r]
  <2>1. /\ r \in Requests /\ u \in Users /\ plan[s].amount \in Amounts
        /\ plan[s].tenantLimit \in LimitsOf[TenantOf[u]] /\ plan[s].userLimit \in LimitsOf[u]
    BY <1>1, Books DEF RunReserve, Asks
  <2>2. Reserve(r, u, d, plan[s].amount, plan[s].tenantLimit, plan[s].userLimit)
    BY <1>1 DEF RunReserve
  <2> QED
    BY <2>1, <2>2 DEF Next
<1>2. ASSUME NEW s \in Attempts, RunSettle(s)
      PROVE  Next
  <2>1. request[s] \in Requests /\ bill[s] \in Charges
    BY <1>2, Books DEF RunSettle, Asks
  <2> QED
    BY <1>2, <2>1 DEF RunSettle, Next
<1>3. ASSUME NEW s \in Attempts,
             \/ \E r \in Requests : Admit(s, r)
             \/ \E amount \in Amounts : ReadPolicy(s, amount)
             \/ \E charge \in Charges : ProviderAnswers(s, charge)
             \/ StartInference(s) \/ JobFails(s) \/ EndStream(s) \/ Disconnect(s)
      PROVE  UNCHANGED vars
  BY <1>3 DEF Admit, ReadPolicy, ProviderAnswers, StartInference, JobFails, EndStream,
              Disconnect, store, vars
<1>4. CASE Quiet \/ Crash
  BY <1>4 DEF Quiet, Crash, store, vars
<1> QED
  BY <1>1, <1>2, <1>3, <1>4, BookSteps

(* Reserving takes a row nobody owns; settling is its owner's.             *)
LEMMA OwnRowStep ==
  ASSUME TurnInv, [TurnNext]_turnVars, NEW t \in Attempts
  PROVE  OwnRow(t)'
<1>0. \A s \in Attempts : s # t /\ Owns(s) /\ Owns(t) => request[s] # request[t]
  BY DEF TurnInv, OwnersDiffer
<1>1. CASE Quiet
  BY <1>1, Books DEF Quiet, OwnRow, Owns, Started
<1>2. ASSUME NEW s \in Attempts,
             \/ \E r \in Requests : Admit(s, r)
             \/ \E amount \in Amounts : ReadPolicy(s, amount)
             \/ \E charge \in Charges : ProviderAnswers(s, charge)
             \/ StartInference(s) \/ JobFails(s) \/ EndStream(s) \/ Disconnect(s)
      PROVE  OwnRow(t)'
  <2>1. rows' = rows
    BY <1>2 DEF Admit, ReadPolicy, ProviderAnswers, StartInference, JobFails, EndStream,
                Disconnect, store
  <2>2. Owns(t)' => /\ Owns(t)
                    /\ request'[t] = request[t] /\ plan'[t] = plan[t]
                    /\ job'[t] = "settled" <=> job[t] = "settled"
                    /\ job'[t] = "settled" => bill'[t] = bill[t]
    BY <1>2, Books DEF Admit, ReadPolicy, ProviderAnswers, StartInference, JobFails, EndStream,
                Disconnect, Owns, Started, Stage, stream
  <2> QED
    BY <2>1, <2>2, Books DEF OwnRow
<1>3. ASSUME NEW s \in Attempts, NEW d \in Days, RunReserve(s, d)
      PROVE  OwnRow(t)'
  <2> DEFINE r == request[s]
             u == OwnerOf[r]
  <2>1. /\ r \in Requests /\ u \in Users /\ plan[s].amount \in Amounts /\ TypeOK
        /\ Reserve(r, u, d, plan[s].amount, plan[s].tenantLimit, plan[s].userLimit)
    BY <1>3, Books DEF RunReserve, Asks
  <2>2. /\ rows'[r] \in Row /\ rows'[r].status = "pending"
        /\ rows'[r].reservation = plan[s].amount
        /\ \A q \in Requests \ {r} : rows'[q] = rows[q]
        /\ rows[r] = NoRow
    BY <2>1, ReserveRow DEF Reserve
  <2>3. CASE t = s
    BY <1>3, <2>2, <2>3, Books DEF RunReserve, OwnRow, Row, NoRow
  <2>4. CASE t # s
    <3>1. Owns(t)' <=> Owns(t)
      BY <1>3, <2>4, Books DEF RunReserve, Owns, Started, stream
    <3>2. Owns(t) => request[t] \in Requests \ {r}
      BY <2>2, Books DEF OwnRow, Owns, Started, Stage
    <3> QED
      BY <1>3, <2>2, <2>4, <3>1, <3>2, Books DEF RunReserve, OwnRow
  <2> QED
    BY <2>3, <2>4
<1>4. ASSUME NEW s \in Attempts, RunSettle(s)
      PROVE  OwnRow(t)'
  <2> DEFINE r == request[s]
  <2>1. /\ r \in Requests /\ bill[s] \in Charges /\ TypeOK /\ Settle(r, bill[s])
    BY <1>4, Books DEF RunSettle, Asks
  <2>2. /\ rows[r] \in Row /\ rows'[r] \in Row /\ rows'[r].status = "settled"
        /\ rows'[r].charged = bill[s]
        /\ rows'[r].reservation = rows[r].reservation
        /\ \A q \in Requests \ {r} : rows'[q] = rows[q]
    BY <2>1, SettleRow
  <2>3. Owns(s)
    BY <1>4, Books DEF RunSettle, Owns, Started, Stage, InHandler, InTask, TurnInv, TurnTypeOK
  <2>4. CASE t = s
    BY <1>4, <2>2, <2>3, <2>4, Books DEF RunSettle, OwnRow, Row, NoRow
  <2>5. CASE t # s
    <3>1. Owns(t)' <=> Owns(t)
      BY <1>4, <2>5, Books DEF RunSettle, Owns, Started, stream
    <3>2. Owns(t) => request[t] \in Requests \ {r}
      BY <1>0, <2>3, <2>5, Books DEF Owns, Started, Stage
    <3> QED
      BY <1>4, <2>2, <2>5, <3>1, <3>2, Books DEF RunSettle, OwnRow
  <2> QED
    BY <2>4, <2>5
<1>5. CASE Crash
  BY <1>5, Books DEF Crash, OwnRow, Owns, Started, store
<1> QED
  BY <1>1, <1>2, <1>3, <1>4, <1>5, BookSteps

LEMMA OwnersDifferStep ==
  ASSUME TurnInv, [TurnNext]_turnVars
  PROVE  OwnersDiffer'
<1>0. OwnersDiffer
  BY DEF TurnInv
<1>1. CASE Quiet
  BY <1>0, <1>1 DEF Quiet, OwnersDiffer, Owns, Started
<1>2. ASSUME NEW s \in Attempts, NEW d \in Days, RunReserve(s, d)
      PROVE  OwnersDiffer'
  <2>1. rows[request[s]] = NoRow
    BY <1>2 DEF RunReserve, Reserve
  <2>2. \A t \in Attempts : Owns(t) => request[t] # request[s]
    BY <2>1, Books DEF OwnRow
  <2>3. \A t \in Attempts \ {s} : Owns(t)' <=> Owns(t)
    BY <1>2, Books DEF RunReserve, Owns, Started, stream
  <2> QED
    BY <1>0, <1>2, <2>2, <2>3 DEF RunReserve, OwnersDiffer
<1>3. ASSUME NEW s \in Attempts,
             \/ \E r \in Requests : Admit(s, r)
             \/ \E amount \in Amounts : ReadPolicy(s, amount)
             \/ \E charge \in Charges : ProviderAnswers(s, charge)
             \/ StartInference(s) \/ RunSettle(s) \/ JobFails(s)
             \/ EndStream(s) \/ Disconnect(s)
      PROVE  OwnersDiffer'
  <2>1. \A t \in Attempts : Owns(t)' => Owns(t) /\ request'[t] = request[t]
    BY <1>3, Books DEF Admit, ReadPolicy, ProviderAnswers, StartInference, RunSettle, JobFails,
                EndStream, Disconnect, Owns, Started, Stage, stream
  <2> QED
    BY <1>0, <2>1 DEF OwnersDiffer
<1>4. CASE Crash
  BY <1>0, <1>4, Books DEF Crash, OwnersDiffer, Owns, Started
<1> QED
  BY <1>1, <1>2, <1>3, <1>4, BookSteps

(* The attempt that asked the provider stays known; a second one would own *)
(* the same row.                                                           *)
LEMMA AskedStep ==
  ASSUME TurnInv, [TurnNext]_turnVars, NEW r \in Requests
  PROVE  Asked(r)'
<1>0. Asked(r)
  BY DEF TurnInv
<1>1. ASSUME NEW s \in Attempts, StartInference(s)
      PROVE  Asked(r)'
  <2>1. /\ job[s] = "reserved" /\ Owns(s) /\ ~ Started(s)
        /\ asked' = [asked EXCEPT ![request[s]] = @ + 1]
        /\ request' = request
        /\ client' = [client EXCEPT ![s] = "reading"]
    BY <1>1, Books DEF StartInference, Owns, Stage
  <2>2. \A t \in Attempts : Started(t) => request[t] # request[s] /\ Started(t)'
    BY <2>1, Books DEF TurnInv, OwnersDiffer, Owns, Started
  <2>3. Started(s)'
    BY <2>1, Books DEF Started
  <2>4. CASE request[s] = r
    BY <1>0, <2>1, <2>2, <2>3, <2>4, Books DEF Asked
  <2>5. CASE request[s] # r
    BY <1>0, <2>1, <2>2, <2>5, Books DEF Asked
  <2> QED
    BY <2>4, <2>5
<1>2. ASSUME NEW s \in Attempts,
             \/ \E q \in Requests : Admit(s, q)
             \/ \E amount \in Amounts : ReadPolicy(s, amount)
             \/ \E d \in Days : RunReserve(s, d)
             \/ \E charge \in Charges : ProviderAnswers(s, charge)
             \/ RunSettle(s) \/ JobFails(s) \/ EndStream(s) \/ Disconnect(s)
      PROVE  Asked(r)'
  <2>1. /\ asked' = asked
        /\ \A t \in Attempts : Started(t) => Started(t)' /\ request'[t] = request[t]
    BY <1>2, Books DEF Admit, ReadPolicy, ProviderAnswers, RunReserve, RunSettle, JobFails,
                EndStream, Disconnect, Started, Stage, stream
  <2> QED
    BY <1>0, <2>1 DEF Asked
<1>3. CASE Quiet
  BY <1>0, <1>3 DEF Quiet, Asked, Started
<1>4. CASE Crash
  BY <1>0, <1>4, Books DEF Crash, Asked, Started
<1> QED
  BY <1>1, <1>2, <1>3, <1>4, BookSteps

(***************************************************************************)
(* The event channel.                                                      *)
(***************************************************************************)
Events == {"delta", "completed", "failed"}

(* Whatever a turn sends, it sends before its outcome is known or with it. *)
LEMMA SendKeeps ==
  ASSUME NEW q \in Seq(Events), Len(q) <= Capacity,
         \A i \in 1..Len(q) : q[i] = "delta",
         NEW event \in Events, NEW p, p = Append(q, event) \/ p = q, Len(p) <= Capacity
  PROVE  /\ p \in Seq(Events) /\ Len(p) <= Capacity
         /\ \A i \in 1..Len(p) : p[i] # "delta" => p[i] = event
<1>1. CASE p = q
  BY <1>1
<1>2. CASE p = Append(q, event)
  BY <1>2
<1> QED
  BY <1>1, <1>2

LEMMA TakeKeeps ==
  ASSUME NEW q \in Seq(Events), q # <<>>
  PROVE  /\ Tail(q) \in Seq(Events) /\ Len(Tail(q)) = Len(q) - 1
         /\ Head(q) = q[1] /\ Len(q) \in Nat /\ Len(q) >= 1
         /\ \A i \in 1..Len(Tail(q)) : Tail(q)[i] = q[i + 1]
OBVIOUS

(* What the lemmas below use of the invariant.                             *)
LEMMA Channels ==
  ASSUME TurnInv
  PROVE  /\ queue \in [Attempts -> Seq(Events)]
         /\ seen \in [Attempts -> {"none", "completed", "failed"}]
         /\ outcome \in [Attempts -> {"none", "refused", "cancelled", "completed",
                                      "failed", "crashed"}]
         /\ \A t \in Attempts : Told(t) /\ Len(queue[t]) <= Capacity
         /\ \A t \in Attempts : phase[t] # "over" =>
              /\ outcome[t] = "none" /\ seen[t] = "none"
              /\ \A i \in 1..Len(queue[t]) : queue[t][i] = "delta"
<1>1. /\ queue \in [Attempts -> Seq(Events)]
      /\ seen \in [Attempts -> {"none", "completed", "failed"}]
      /\ outcome \in [Attempts -> {"none", "refused", "cancelled", "completed",
                                   "failed", "crashed"}]
      /\ \A t \in Attempts : Told(t) /\ Stage(t) /\ Len(queue[t]) <= Capacity
  BY DEF TurnInv, TurnTypeOK, Events
<1>2. \A t \in Attempts : phase[t] # "over" => outcome[t] = "none" /\ seen[t] = "none"
  BY <1>1 DEF Stage, Told
<1>3. ASSUME NEW t \in Attempts, phase[t] # "over", NEW i \in 1..Len(queue[t])
      PROVE  queue[t][i] = "delta"
  <2>1. queue[t][i] \in Events
    BY <1>1
  <2> QED
    BY <1>1, <1>2, <1>3, <2>1 DEF Told, Events
<1> QED
  BY <1>1, <1>2, <1>3

(* A client is told the outcome, or nothing.                               *)
LEMMA ToldStep ==
  ASSUME TurnInv, [TurnNext]_turnVars, NEW t \in Attempts
  PROVE  Told(t)' /\ Len(queue'[t]) <= Capacity
<1> DEFINE Goal == Told(t)' /\ Len(queue'[t]) <= Capacity
<1>1. CASE UNCHANGED <<queue, seen, outcome>>
  BY <1>1, Channels DEF Told
<1>2. ASSUME NEW s \in Attempts, UNCHANGED <<queue, seen>>, phase[s] # "over",
             NEW how, outcome' = [outcome EXCEPT ![s] = how]
      PROVE  Goal
  BY <1>2, Channels DEF Told
<1>3. ASSUME NEW s \in Attempts, phase[s] # "over", NEW event \in Events, TrySend(s, event),
             seen' = seen,
             \/ outcome' = [outcome EXCEPT ![s] = event]
             \/ event = "delta" /\ outcome' = outcome
      PROVE  Goal
  <2>1. /\ queue[s] \in Seq(Events) /\ Len(queue[s]) <= Capacity
        /\ \A i \in 1..Len(queue[s]) : queue[s][i] = "delta"
        /\ seen[s] = "none"
    BY <1>3, Channels
  <2>2. \/ queue' = queue
        \/ Len(queue[s]) < Capacity /\ queue' = [queue EXCEPT ![s] = Append(queue[s], event)]
    BY <1>3 DEF TrySend
  <2>3. queue'[s] = queue[s] \/ queue'[s] = Append(queue[s], event)
    BY <2>2, Channels
  <2>4. Len(queue'[s]) <= Capacity
    <3>1. Len(Append(queue[s], event)) = Len(queue[s]) + 1 /\ Len(queue[s]) \in Nat
      BY <2>1
    <3> QED
      BY <2>1, <2>2, <3>1, Channels, SlotsAssumption
  <2>5. /\ queue'[s] \in Seq(Events)
        /\ \A i \in 1..Len(queue'[s]) : queue'[s][i] # "delta" => queue'[s][i] = event
    BY <1>3, <2>1, <2>3, <2>4, SendKeeps
  <2>6. \A u \in Attempts \ {s} : queue'[u] = queue[u]
    BY <2>2, Channels
  <2>7. CASE t = s
    BY <1>3, <2>1, <2>4, <2>5, <2>6, <2>7, Channels DEF Told
  <2>8. CASE t # s
    BY <1>3, <2>6, <2>8, Channels DEF Told
  <2> QED
    BY <2>7, <2>8
<1>4. ASSUME NEW s \in Attempts, Deliver(s)
      PROVE  Goal
  <2>1. /\ queue[s] \in Seq(Events) /\ queue[s] # <<>> /\ Len(queue[s]) <= Capacity
        /\ queue' = [queue EXCEPT ![s] = Tail(queue[s])]
        /\ seen' = [seen EXCEPT ![s] = IF Head(queue[s]) = "delta" THEN seen[s] ELSE Head(queue[s])]
        /\ outcome' = outcome
    BY <1>4, Channels DEF Deliver
  <2>2. /\ Tail(queue[s]) \in Seq(Events) /\ Len(Tail(queue[s])) = Len(queue[s]) - 1
        /\ Head(queue[s]) = queue[s][1] /\ Len(queue[s]) \in Nat /\ Len(queue[s]) >= 1
        /\ \A i \in 1..Len(Tail(queue[s])) : Tail(queue[s])[i] = queue[s][i + 1]
    BY <2>1, TakeKeeps
  <2>3. CASE t = s
    <3>1. /\ queue'[s] = Tail(queue[s])
          /\ seen'[s] = IF queue[s][1] = "delta" THEN seen[s] ELSE queue[s][1]
      BY <2>1, <2>2, Channels
    <3>2. \A i \in 1..Len(queue[s]) : queue[s][i] # "delta" => queue[s][i] = outcome[s]
      BY Channels DEF Told
    <3>3. \A i \in 1..Len(Tail(queue[s])) : Tail(queue[s])[i] # "delta" => Tail(queue[s])[i] = outcome[s]
      BY <2>2, <3>2
    <3>4. seen'[s] # "none" => seen'[s] = outcome[s]
      BY <2>2, <3>1, <3>2, Channels DEF Told
    <3>5. Len(Tail(queue[s])) <= Capacity
      BY <2>1, <2>2, SlotsAssumption
    <3> QED
      BY <2>1, <2>2, <2>3, <3>1, <3>3, <3>4, <3>5 DEF Told
  <2>4. CASE t # s
    BY <2>1, <2>4, Channels DEF Told
  <2> QED
    BY <2>3, <2>4
<1>5. ASSUME queue'[t] = queue[t] \/ queue'[t] = <<>>, seen' = seen,
             outcome'[t] = outcome[t] \/ (queue'[t] = <<>> /\ seen[t] = "none")
      PROVE  Goal
  <2>1. <<>> \in Seq(Events) /\ Len(<<>>) = 0
    OBVIOUS
  <2>2. CASE queue'[t] = <<>>
    <3>1. Len(queue'[t]) = 0 /\ queue'[t] \in Seq(Events)
      BY <2>1, <2>2
    <3>2. 0 <= Capacity
      BY SlotsAssumption
    <3> QED
      BY <1>5, <3>1, <3>2, Channels DEF Told
  <2>3. CASE queue'[t] = queue[t] /\ outcome'[t] = outcome[t]
    BY <1>5, <2>3, Channels DEF Told
  <2> QED
    BY <1>5, <2>2, <2>3
<1>6. CASE Crash
  <2>1. phase[t] = "over" => ~ HoldsPermit(t)
    BY DEF HoldsPermit, InHandler, InTask
  <2> QED
    BY <1>5, <1>6, <2>1, Channels DEF Crash
<1>7. CASE \E s \in Attempts : Disconnect(s)
  BY <1>5, <1>7, Channels DEF Disconnect
<1>8. ASSUME NEW s \in Attempts,
             \/ Refuse(s) \/ RejectReservation(s) \/ DropHandler(s)
             \/ \E r \in Requests : Admit(s, r)
      PROVE  Goal
  <2>1. /\ UNCHANGED <<queue, seen>> /\ phase[s] # "over"
        /\ \/ outcome' = outcome
           \/ \E how \in {"refused", "cancelled"} : outcome' = [outcome EXCEPT ![s] = how]
    BY <1>8 DEF Refuse, RejectReservation, DropHandler, Admit, Leave, stream, InHandler
  <2> QED
    BY <1>1, <1>2, <2>1
<1>9. ASSUME NEW s \in Attempts, Delta(s) \/ ProviderFails(s) \/ Finish(s)
      PROVE  Goal
  <2>1. /\ seen' = seen /\ phase[s] # "over"
        /\ \E event \in Events :
             /\ TrySend(s, event)
             /\ \/ outcome' = [outcome EXCEPT ![s] = event]
                \/ event = "delta" /\ outcome' = outcome
    BY <1>9 DEF Delta, ProviderFails, Finish, EndTask, Leave, Events
  <2> QED
    BY <1>3, <2>1
<1>10. ASSUME NEW s \in Attempts,
             \/ ReadManifest(s) \/ StartInference(s) \/ RunSettle(s) \/ JobFails(s) \/ EndStream(s)
             \/ \E amount \in Amounts : ReadPolicy(s, amount)
             \/ \E d \in Days : RunReserve(s, d)
             \/ \E charge \in Charges : ProviderAnswers(s, charge)
      PROVE  UNCHANGED <<queue, seen, outcome>>
  BY <1>10 DEF ReadManifest, StartInference, RunSettle, JobFails, EndStream, ReadPolicy, RunReserve,
              ProviderAnswers, stream
<1>11. CASE UNCHANGED turnVars
  BY <1>1, <1>11 DEF turnVars
<1> QED
  BY <1>1, <1>4, <1>6, <1>7, <1>8, <1>9, <1>10, <1>11 DEF TurnNext, HandlerRuns, JobRuns, TaskRuns

(***************************************************************************)
(* The permits.                                                            *)
(***************************************************************************)
Holders == {t \in Attempts : HoldsPermit(t)}

LEMMA HoldersFinite ==
  /\ IsFiniteSet(Holders) /\ Cardinality(Holders) \in Nat
  /\ IsFiniteSet(Holders') /\ Cardinality(Holders') \in Nat
BY AttemptsAssumption, FS_Subset, FS_CardinalityType DEF Holders

(* A permit leaves the semaphore with an attempt that comes to hold it and *)
(* comes back with one that ceases to.                                     *)
LEMMA PermitsStep ==
  ASSUME TurnInv, [TurnNext]_turnVars
  PROVE  PermitsConserved'
<1>0. /\ slots + Cardinality(Holders) = Slots /\ slots \in Int /\ Slots \in Nat
      /\ phase \in [Attempts -> {"idle", "over"} \cup InHandler \cup InTask]
      /\ PermitsConserved' <=> slots' + Cardinality(Holders') = Slots
  BY SlotsAssumption DEF TurnInv, TurnTypeOK, PermitsConserved, Holders
<1>1. CASE UNCHANGED slots /\ Holders' = Holders
  BY <1>0, <1>1
<1>2. ASSUME NEW s \in Attempts, HoldsPermit(s), NEW how, Leave(s, how)
      PROVE  PermitsConserved'
  <2>1. Holders' = Holders \ {s} /\ s \in Holders
    BY <1>0, <1>2 DEF Leave, Goto, Holders, HoldsPermit, InHandler, InTask
  <2>2. Cardinality(Holders') = Cardinality(Holders) - 1
    BY <2>1, HoldersFinite, FS_RemoveElement
  <2> QED
    BY <1>0, <1>2, <2>2, HoldersFinite DEF Leave
<1>3. ASSUME NEW s \in Attempts, NEW r \in Requests, Admit(s, r)
      PROVE  PermitsConserved'
  <2>1. CASE slots = 0
    <3>1. Holders' = Holders
      BY <1>0, <1>3, <2>1 DEF Admit, Goto, Holders, HoldsPermit, InHandler, InTask
    <3> QED
      BY <1>1, <1>3, <2>1, <3>1 DEF Admit
  <2>2. CASE slots # 0
    <3>1. Holders' = Holders \cup {s} /\ s \notin Holders
      BY <1>0, <1>3, <2>2 DEF Admit, Goto, Holders, HoldsPermit, InHandler, InTask
    <3>2. Cardinality(Holders') = Cardinality(Holders) + 1
      BY <3>1, HoldersFinite, FS_AddElement
    <3> QED
      BY <1>0, <1>3, <2>2, <3>2, HoldersFinite DEF Admit
  <2> QED
    BY <2>1, <2>2
<1>4. ASSUME NEW s \in Attempts,
             \/ ReadManifest(s) \/ StartInference(s)
             \/ \E amount \in Amounts : ReadPolicy(s, amount)
             \/ \E charge \in Charges : ProviderAnswers(s, charge)
      PROVE  UNCHANGED slots /\ Holders' = Holders
  BY <1>0, <1>4 DEF ReadManifest, StartInference, ReadPolicy, ProviderAnswers, Goto, Holders,
                    HoldsPermit, InHandler, InTask
<1>5. ASSUME NEW s \in Attempts,
             \/ RunSettle(s) \/ JobFails(s) \/ Delta(s) \/ Deliver(s) \/ EndStream(s)
             \/ Disconnect(s) \/ \E d \in Days : RunReserve(s, d)
      PROVE  UNCHANGED slots /\ Holders' = Holders
  BY <1>5 DEF RunSettle, JobFails, Delta, Deliver, EndStream, Disconnect, RunReserve, Holders,
              HoldsPermit
<1>6. ASSUME NEW s \in Attempts,
             \/ Refuse(s) \/ RejectReservation(s) \/ DropHandler(s)
             \/ ProviderFails(s) \/ Finish(s)
      PROVE  HoldsPermit(s) /\ \E how : Leave(s, how)
  BY <1>6 DEF Refuse, RejectReservation, DropHandler, ProviderFails, Finish, EndTask, HoldsPermit,
              InHandler, InTask
<1>7. CASE Crash
  <2>1. Holders' = {} /\ slots' = Slots
    BY <1>0, <1>7 DEF Crash, Holders, HoldsPermit, InHandler, InTask
  <2>2. Cardinality({}) = 0
    BY FS_EmptySet
  <2> QED
    BY <1>0, <2>1, <2>2
<1>8. CASE UNCHANGED turnVars
  BY <1>1, <1>8 DEF turnVars, Holders, HoldsPermit
<1> QED
  BY <1>1, <1>2, <1>3, <1>4, <1>5, <1>6, <1>7, <1>8 DEF TurnNext, HandlerRuns, JobRuns, TaskRuns

(***************************************************************************)
(* The invariant.                                                          *)
(***************************************************************************)
LEMMA TypeStep ==
  ASSUME TurnInv, [TurnNext]_turnVars, PermitsConserved'
  PROVE  TurnTypeOK'
<1> DEFINE Marks == /\ phase \in [Attempts -> {"idle", "over"} \cup InHandler \cup InTask]
                    /\ job \in [Attempts -> {"none", "reserve", "reserved", "settle",
                                           "settled", "failed", "lost"}]
                    /\ outcome \in [Attempts -> {"none", "refused", "cancelled", "completed",
                                               "failed", "crashed"}]
                    /\ client \in [Attempts -> {"none", "reading", "left", "ended"}]
           Rest == /\ Marks
                   /\ request \in [Attempts -> Requests \cup {NoRequest}]
                   /\ plan \in [Attempts -> [amount : Int, tenantLimit : Nat, userLimit : Nat]]
                   /\ bill \in [Attempts -> Int]
                   /\ seen \in [Attempts -> {"none", "completed", "failed"}]
                   /\ asked \in [Requests -> Nat]
<1>0. Rest /\ slots \in Nat
  BY DEF TurnInv, TurnTypeOK
<1>1. TypeOK'
  BY LedgerStep, TypingStep DEF TurnInv, TurnTypeOK
<1>2. queue' \in [Attempts -> Seq(Events)]
  <2>1. \/ queue' = queue
        \/ queue' = [t \in Attempts |-> <<>>]
        \/ \E s \in Attempts : \E q \in Seq(Events) : queue' = [queue EXCEPT ![s] = q]
    <3>0. queue \in [Attempts -> Seq(Events)] /\ <<>> \in Seq(Events)
      BY Channels
    <3>1. ASSUME NEW s \in Attempts, NEW event \in Events, TrySend(s, event)
          PROVE  queue' = queue \/ \E q \in Seq(Events) : queue' = [queue EXCEPT ![s] = q]
      <4>1. Append(queue[s], event) \in Seq(Events)
        BY <3>0
      <4> QED
        BY <3>1, <4>1 DEF TrySend
    <3>2. ASSUME NEW s \in Attempts, Delta(s) \/ ProviderFails(s) \/ Finish(s)
          PROVE  \E event \in Events : TrySend(s, event)
      BY <3>2 DEF Delta, ProviderFails, Finish, EndTask, Events
    <3>3. ASSUME NEW s \in Attempts, Deliver(s) \/ Disconnect(s)
          PROVE  \E q \in Seq(Events) : queue' = [queue EXCEPT ![s] = q]
      BY <3>0, <3>3, TakeKeeps DEF Deliver, Disconnect
    <3>4. ASSUME NEW s \in Attempts,
                 \/ \E r \in Requests : Admit(s, r)
                 \/ \E amount \in Amounts : ReadPolicy(s, amount)
                 \/ \E d \in Days : RunReserve(s, d)
                 \/ \E charge \in Charges : ProviderAnswers(s, charge)
                 \/ ReadManifest(s) \/ Refuse(s) \/ RejectReservation(s) \/ DropHandler(s)
                 \/ StartInference(s) \/ RunSettle(s) \/ JobFails(s) \/ EndStream(s)
          PROVE  queue' = queue
      BY <3>4 DEF Admit, ReadPolicy, RunReserve, ProviderAnswers, ReadManifest, Refuse,
                  RejectReservation, DropHandler, StartInference, RunSettle, JobFails, EndStream, stream
    <3> QED
      BY <3>1, <3>2, <3>3, <3>4 DEF TurnNext, HandlerRuns, JobRuns, TaskRuns, Crash, turnVars
  <2>2. queue \in [Attempts -> Seq(Events)] /\ <<>> \in Seq(Events)
    BY Channels
  <2>3. CASE queue' = [t \in Attempts |-> <<>>]
    BY <2>2, <2>3
  <2>4. ASSUME NEW s \in Attempts, NEW q \in Seq(Events), queue' = [queue EXCEPT ![s] = q]
        PROVE  queue' \in [Attempts -> Seq(Events)]
    BY <2>2, <2>4
  <2> QED
    BY <2>1, <2>2, <2>3, <2>4
<1>3. slots' \in 0..Slots
  <2>1. slots' \in Nat
    <3>1. ASSUME NEW s \in Attempts,
                 \/ \E r \in Requests : Admit(s, r)
                 \/ Refuse(s) \/ RejectReservation(s) \/ DropHandler(s)
                 \/ ProviderFails(s) \/ Finish(s)
          PROVE  slots' \in {slots, slots + 1} \/ (slots # 0 /\ slots' = slots - 1)
      BY <3>1 DEF Admit, Refuse, RejectReservation, DropHandler, ProviderFails, Finish, EndTask, Leave
    <3>2. ASSUME NEW s \in Attempts,
                 \/ \E amount \in Amounts : ReadPolicy(s, amount)
                 \/ \E charge \in Charges : ProviderAnswers(s, charge)
                 \/ ReadManifest(s) \/ StartInference(s) \/ Deliver(s) \/ Delta(s)
                 \/ (\E d \in Days : RunReserve(s, d)) \/ RunSettle(s) \/ JobFails(s)
                 \/ EndStream(s) \/ Disconnect(s)
          PROVE  slots' = slots
      BY <3>2 DEF ReadPolicy, ProviderAnswers, ReadManifest, StartInference, Deliver, Delta,
                  RunReserve, RunSettle, JobFails, EndStream, Disconnect
    <3>3. slots' \in {slots, slots + 1, Slots} \/ (slots # 0 /\ slots' = slots - 1)
      BY <3>1, <3>2 DEF TurnNext, HandlerRuns, JobRuns, TaskRuns, Crash, turnVars
    <3> QED
      BY <1>0, <3>3, SlotsAssumption
  <2>2. slots' + Cardinality(Holders') = Slots /\ Cardinality(Holders') \in Nat
    BY HoldersFinite DEF PermitsConserved, Holders
  <2> QED
    BY <2>1, <2>2, SlotsAssumption
<1>4. \A t \in Attempts : Len(queue'[t]) <= Capacity
  BY ToldStep
<1>5. Rest'
  <2>1. ASSUME NEW s \in Attempts, NEW r \in Requests, Admit(s, r)
        PROVE  Rest'
    BY <2>1, <1>0 DEF Admit, Goto, InHandler, stream
  <2>2. ASSUME NEW s \in Attempts, NEW amount \in Amounts, ReadPolicy(s, amount)
        PROVE  Rest'
    <3>1. /\ request[s] \in Requests /\ OwnerOf[request[s]] \in Users
          /\ TenantOf[OwnerOf[request[s]]] \in Tenants
      BY <2>2, OwnerAssumption, OwnersAssumption DEF ReadPolicy, TurnInv, Stage
    <3>2. PICK tl \in LimitsOf[TenantOf[OwnerOf[request[s]]]], ul \in LimitsOf[OwnerOf[request[s]]] :
            plan' = [plan EXCEPT ![s] = [amount |-> amount, tenantLimit |-> tl, userLimit |-> ul]]
      BY <2>2 DEF ReadPolicy
    <3>3. amount \in Int /\ tl \in Nat /\ ul \in Nat
      BY <3>1, MicrosAssumption, LimitsAssumption DEF Owners
    <3> QED
      BY <1>0, <2>2, <3>2, <3>3 DEF ReadPolicy, Goto, InHandler, stream
  <2>3. ASSUME NEW s \in Attempts, NEW charge \in Charges, ProviderAnswers(s, charge)
        PROVE  Rest'
    BY <2>3, <1>0, MicrosAssumption DEF ProviderAnswers, Goto, InTask, stream
  <2>4. ASSUME NEW s \in Attempts, StartInference(s)
        PROVE  Rest'
    BY <2>4, <1>0 DEF StartInference, Goto, InTask, TurnInv, Stage
  <2>5. ASSUME NEW s \in Attempts, Deliver(s)
        PROVE  Rest'
    <3>1. Head(queue[s]) \in Events
      BY <2>5, Channels, TakeKeeps DEF Deliver
    <3> QED
      BY <1>0, <2>5, <3>1 DEF Deliver, Events
  <2>6. ASSUME NEW s \in Attempts, ReadManifest(s) \/ Refuse(s) \/ RejectReservation(s) \/ DropHandler(s)
        PROVE  Rest'
    BY <2>6, <1>0 DEF ReadManifest, Refuse, RejectReservation, DropHandler, Leave, Goto, InHandler, stream
  <2>7. ASSUME NEW s \in Attempts, ProviderFails(s) \/ Finish(s)
        PROVE  Rest'
    BY <2>7, <1>0 DEF ProviderFails, Finish, EndTask, Leave, Goto
  <2>8. ASSUME NEW s \in Attempts, (\E d \in Days : RunReserve(s, d)) \/ RunSettle(s) \/ JobFails(s)
        PROVE  Rest'
    BY <2>8, <1>0 DEF RunReserve, RunSettle, JobFails, stream
  <2>9. ASSUME NEW s \in Attempts, Delta(s) \/ EndStream(s) \/ Disconnect(s)
        PROVE  Rest'
    BY <2>9, <1>0 DEF Delta, EndStream, Disconnect
  <2>10. CASE Crash
    BY <1>0, <2>10 DEF Crash
  <2>11. CASE UNCHANGED turnVars
    BY <1>0, <2>11 DEF turnVars
  <2> QED
    BY <2>1, <2>2, <2>3, <2>4, <2>5, <2>6, <2>7, <2>8, <2>9, <2>10, <2>11
    DEF TurnNext, HandlerRuns, JobRuns, TaskRuns
<1> QED
  BY <1>1, <1>2, <1>3, <1>4, <1>5 DEF TurnTypeOK, Events

(***************************************************************************)
(* The invariant holds in every reachable state.                           *)
(***************************************************************************)
LEMMA TurnInvStart == TurnInit => TurnInv
<1> SUFFICES ASSUME TurnInit PROVE TurnInv
  OBVIOUS
<1>1. TurnTypeOK
  <2>1. TypeOK
    BY MicrosAssumption DEF TurnInit, Init, TypeOK
  <2>2. <<>> \in Seq({"delta", "completed", "failed"}) /\ Len(<<>>) = 0
    OBVIOUS
  <2>3. /\ queue \in [Attempts -> Seq({"delta", "completed", "failed"})]
        /\ \A t \in Attempts : Len(queue[t]) <= Capacity
    BY <2>2, SlotsAssumption DEF TurnInit
  <2>4. plan \in [Attempts -> [amount : Int, tenantLimit : Nat, userLimit : Nat]]
    BY DEF TurnInit, NoPlan
  <2>5. /\ slots \in 0..Slots
        /\ bill \in [Attempts -> Int] /\ asked \in [Requests -> Nat]
    BY SlotsAssumption DEF TurnInit
  <2>6. /\ phase \in [Attempts -> {"idle", "over"} \cup InHandler \cup InTask]
        /\ request \in [Attempts -> Requests \cup {NoRequest}]
        /\ job \in [Attempts -> {"none", "reserve", "reserved", "settle", "settled", "failed", "lost"}]
        /\ outcome \in [Attempts -> {"none", "refused", "cancelled", "completed", "failed", "crashed"}]
        /\ client \in [Attempts -> {"none", "reading", "left", "ended"}]
        /\ seen \in [Attempts -> {"none", "completed", "failed"}]
    BY DEF TurnInit
  <2> QED
    BY <2>1, <2>3, <2>4, <2>5, <2>6 DEF TurnTypeOK
<1>2. PermitsConserved
  <2>1. {t \in Attempts : HoldsPermit(t)} = {}
    BY DEF TurnInit, HoldsPermit, InHandler, InTask
  <2>2. Cardinality({t \in Attempts : HoldsPermit(t)}) = 0
    BY <2>1, FS_EmptySet
  <2>3. slots = Slots
    BY DEF TurnInit
  <2> QED
    BY <2>2, <2>3, SlotsAssumption DEF PermitsConserved
<1>3. /\ \A t \in Attempts : Stage(t) /\ Asks(t) /\ OwnRow(t)
      /\ OwnersDiffer
      /\ \A r \in Requests : Asked(r)
  BY DEF TurnInit, Stage, Asks, OwnRow, OwnersDiffer, Asked, Owns, Started
<1>4. \A t \in Attempts : Told(t)
  BY DEF TurnInit, Told
<1> QED
  BY <1>1, <1>2, <1>3, <1>4 DEF TurnInv

LEMMA TurnInvStep == TurnInv /\ [TurnNext]_turnVars => TurnInv'
BY PermitsStep, TypeStep, StageStep, AsksStep, OwnRowStep, ToldStep, OwnersDifferStep, AskedStep
   DEF TurnInv

LEMMA TurnInvHolds == TurnSpec => []TurnInv
BY TurnInvStart, TurnInvStep, PTL DEF TurnSpec

(* The variables keep their types: permits between none and all, channels  *)
(* within their capacity.                                                  *)
THEOREM TurnTyping == TurnSpec => []TurnTypeOK
<1>1. TurnInv => TurnTypeOK
  BY DEF TurnInv
<1> QED
  BY <1>1, TurnInvHolds, PTL

(* No path through start_turn loses a permit or gives one back twice.      *)
THEOREM PermitsHold == TurnSpec => []PermitsConserved
<1>1. TurnInv => PermitsConserved
  BY DEF TurnInv
<1> QED
  BY <1>1, TurnInvHolds, PTL

(* The provider works only on reservations of its own attempt.             *)
THEOREM ReservedHolds == TurnSpec => []InferenceIsReserved
<1>1. TurnInv => InferenceIsReserved
  <2> SUFFICES ASSUME TurnInv, NEW t \in Attempts, phase[t] \in InTask
               PROVE  /\ rows[request[t]].status
                           = IF job[t] = "settled" THEN "settled" ELSE "pending"
                      /\ rows[request[t]].reservation = plan[t].amount
                      /\ \A s \in Attempts \ {t} :
                           phase[s] \in InTask => request[s] # request[t]
    BY DEF InferenceIsReserved
  <2>1. \A s \in Attempts : phase[s] \in InTask => Owns(s)
    BY Books DEF Stage, Owns, InTask
  <2> QED
    BY <2>1, Books DEF OwnRow, TurnInv, OwnersDiffer
<1> QED
  BY <1>1, TurnInvHolds, PTL

(* No request id reaches the provider twice, or unpaid.                    *)
THEOREM AskedOnceHolds == TurnSpec => []AskedOnce
<1>1. TurnInv => AskedOnce
  <2> SUFFICES ASSUME TurnInv, NEW r \in Requests
               PROVE  asked[r] <= 1 /\ (asked[r] = 1 => rows[r] # NoRow)
    BY DEF AskedOnce
  <2>1. Asked(r)
    BY DEF TurnInv
  <2> QED
    BY <2>1, Books DEF Asked, OwnRow, Owns
<1> QED
  BY <1>1, TurnInvHolds, PTL

(* An attempt ends with what the ledger says, and its client hears that.   *)
THEOREM OutcomeHolds == TurnSpec => []OutcomeMatchesLedger
<1>1. TurnInv => OutcomeMatchesLedger
  <2> SUFFICES ASSUME TurnInv, NEW t \in Attempts
               PROVE  /\ outcome[t] = "completed" =>
                           /\ rows[request[t]].status = "settled"
                           /\ rows[request[t]].charged = bill[t]
                      /\ outcome[t] = "failed" =>
                           /\ rows[request[t]].status = "pending"
                           /\ rows[request[t]].reservation = plan[t].amount
                      /\ seen[t] # "none" => seen[t] = outcome[t]
    BY DEF OutcomeMatchesLedger
  <2>1. seen[t] # "none" => seen[t] = outcome[t]
    BY DEF TurnInv, Told
  <2>2. outcome[t] = "completed" => Owns(t) /\ job[t] = "settled"
    BY Books DEF Stage, Owns
  <2>3. outcome[t] = "failed" => Owns(t) /\ job[t] # "settled"
    BY Books DEF Stage, Owns
  <2> QED
    BY <2>1, <2>2, <2>3, Books DEF OwnRow
<1> QED
  BY <1>1, TurnInvHolds, PTL

(* Turns use the ledger as its callers may: whatever start_turn, its jobs, *)
(* its tasks and restarts do, the ledger below sees reservations and       *)
(* settlements it allows, so every promise of the ledger is kept.          *)
THEOREM TurnsKeepLedger == TurnSpec => Spec
<1>1. TurnInit => Init
  BY DEF TurnInit
<1>2. TurnInv /\ [TurnNext]_turnVars => [Next]_vars
  BY LedgerStep
<1> QED
  BY <1>1, <1>2, TurnInvHolds, PTL DEF TurnSpec, Spec

(* In particular no interleaving of turns loses or invents a micro ...     *)
THEOREM TurnsConserve == TurnSpec => []Conservation
BY TurnsKeepLedger, ConservationHolds, PTL

(* ... and none spends past a limit but by charges above reservations.     *)
THEOREM TurnsKeepWithinBudget == TurnSpec => []BudgetCap
BY TurnsKeepLedger, BudgetCapHolds, PTL

=============================================================================
