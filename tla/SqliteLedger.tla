---------------------------- MODULE SqliteLedger ----------------------------
(***************************************************************************)
(* How src/repository.rs keeps the ledger's promise: reserve and settle    *)
(* run on blocking threads over a pool of SQLite connections, each as one  *)
(* BEGIN IMMEDIATE transaction whose statements this module takes one by   *)
(* one.  held and rows are the committed tables; a writer inside a         *)
(* transaction works on a private view (WAL) that a commit publishes and   *)
(* that a rollback, a failed statement or a crash throws away.             *)
(***************************************************************************)
EXTENDS Ledger

CONSTANTS
  Writers,      \* blocking threads that may be inside reserve or settle
  PoolSize,     \* connections of the pool (8)
  LastDay       \* bound: the clock stops here

ASSUME DaysAssumption == LastDay \in Nat \ {0} /\ Days = 1..LastDay
ASSUME PoolAssumption == PoolSize \in Nat \ {0}

VARIABLES
  today,        \* the UTC date
  pc,           \* where each writer is
  call,         \* the arguments of its call
  tx,           \* its transaction's view of the tables
  reply,        \* what its call returns
  answers       \* history: the successful answers callers have received

sqlVars == <<held, rows, today, pc, call, tx, reply, answers>>

NoCall == [op |-> "none"]
NoTx == [view |-> "none"]
Replies == {"none", "Ok", "Invalid", "Conflict", "Budget", "Internal"}

ReserveCall == [op : {"reserve"}, request : Requests, user : Users, day : Days,
                amount : Amounts, tenantLimit : Nat, userLimit : Nat]
SettleCall == [op : {"settle"}, request : Requests, charge : Charges]

InTx(w) == pc[w] \in {"insert", "find", "tenant", "user", "close", "commit"}
HasConn(w) == pc[w] = "begin" \/ InTx(w)
Busy(w) == \E v \in Writers \ {w} : InTx(v)
Exhausted == Cardinality({v \in Writers : HasConn(v)}) >= PoolSize

-----------------------------------------------------------------------------
SqlInit ==
  /\ Init
  /\ today = 1
  /\ pc = [w \in Writers |-> "idle"]
  /\ call = [w \in Writers |-> NoCall]
  /\ tx = [w \in Writers |-> NoTx]
  /\ reply = [w \in Writers |-> "none"]
  /\ answers = {}

Goto(w, label) == pc' = [pc EXCEPT ![w] = label]

(* The call ends with this answer, and with it its transaction, if any.    *)
Answer(w, value) ==
  /\ Goto(w, "done")
  /\ reply' = [reply EXCEPT ![w] = value]
  /\ tx' = [tx EXCEPT ![w] = NoTx]

(* reserve fixes the day of the accounts before it waits for a connection. *)
CallReserve(w, r, u, amount, tenantLimit, userLimit) ==
  /\ pc[w] = "idle"
  /\ call' = [call EXCEPT ![w] =
       [op |-> "reserve", request |-> r, user |-> u, day |-> today,
        amount |-> amount, tenantLimit |-> tenantLimit, userLimit |-> userLimit]]
  /\ IF amount <= 0 THEN Answer(w, "Invalid")
                    ELSE Goto(w, "conn") /\ UNCHANGED <<tx, reply>>
  /\ UNCHANGED <<held, rows, today, answers>>

CallSettle(w, r, charge) ==
  /\ pc[w] = "idle"
  /\ call' = [call EXCEPT ![w] = [op |-> "settle", request |-> r, charge |-> charge]]
  /\ IF charge < 0 THEN Answer(w, "Invalid")
                   ELSE Goto(w, "conn") /\ UNCHANGED <<tx, reply>>
  /\ UNCHANGED <<held, rows, today, answers>>

GetConn(w) ==
  /\ pc[w] = "conn"
  /\ ~ Exhausted
  /\ Goto(w, "begin")
  /\ UNCHANGED <<held, rows, today, call, tx, reply, answers>>

(* No connection came free within the pool's six seconds.                  *)
PoolTimeout(w) ==
  /\ pc[w] = "conn"
  /\ Exhausted
  /\ Answer(w, "Internal")
  /\ UNCHANGED <<held, rows, today, call, answers>>

(* A fault: a deferred transaction reads before it holds the write lock.   *)
BeginDeferred(w) ==
  /\ pc[w] = "begin"
  /\ Goto(w, IF call[w].op = "reserve" THEN "insert" ELSE "find")
  /\ tx' = [tx EXCEPT ![w] = [held |-> held, rows |-> rows]]
  /\ UNCHANGED <<held, rows, today, call, reply, answers>>

(* BEGIN IMMEDIATE takes SQLite's only write lock before anything is read. *)
Begin(w) ==
  /\ pc[w] = "begin"
  /\ ~ Busy(w)
  /\ Goto(w, IF call[w].op = "reserve" THEN "insert" ELSE "find")
  /\ tx' = [tx EXCEPT ![w] = [held |-> held, rows |-> rows]]
  /\ UNCHANGED <<held, rows, today, call, reply, answers>>

(* A fault: no busy_timeout, the thread polls for the lock forever.        *)
BusyForever(w) ==
  /\ pc[w] = "begin"
  /\ Busy(w)
  /\ UNCHANGED sqlVars

(* The lock stayed taken for the five seconds of busy_timeout.             *)
BusyTimeout(w) ==
  /\ pc[w] = "begin"
  /\ Busy(w)
  /\ Answer(w, "Internal")
  /\ UNCHANGED <<held, rows, today, call, answers>>

NewRow(c) ==
  [tenant |-> TenantAccount(c.user, c.day), user |-> UserAccount(c.user, c.day),
   reservation |-> c.amount, charged |-> 0, status |-> "pending"]

(* The primary key refuses a request id that was ever used.                *)
InsertRequest(w) ==
  /\ pc[w] = "insert"
  /\ IF tx[w].rows[call[w].request] # NoRow
     THEN Answer(w, "Conflict")
     ELSE /\ tx' = [tx EXCEPT ![w].rows[call[w].request] = NewRow(call[w])]
          /\ Goto(w, "tenant")
          /\ UNCHANGED reply
  /\ UNCHANGED <<held, rows, today, call, answers>>

(* A fault: a settlement does not look at the status of its row.           *)
FindAnyRequest(w) ==
  /\ pc[w] = "find"
  /\ IF tx[w].rows[call[w].request].status = "none"
     THEN Answer(w, "Internal") ELSE Goto(w, "tenant") /\ UNCHANGED <<tx, reply>>
  /\ UNCHANGED <<held, rows, today, call, answers>>

FindRequest(w) ==
  /\ pc[w] = "find"
  /\ LET status == tx[w].rows[call[w].request].status
     IN CASE status = "none"    -> Answer(w, "Internal")
          [] status = "settled" -> Answer(w, "Conflict")
          [] status = "pending" -> Goto(w, "tenant") /\ UNCHANGED <<tx, reply>>
  /\ UNCHANGED <<held, rows, today, call, answers>>

(* A fault: the arithmetic is not checked.                                 *)
UpdateUnchecked(w, a, limit, then) ==
  LET c == call[w]
      next == IF c.op = "reserve"
              THEN tx[w].held[a] + c.amount
              ELSE tx[w].held[a] - tx[w].rows[c.request].reservation + c.charge
  IN /\ IF c.op = "reserve" /\ next > limit
        THEN Answer(w, "Budget")
        ELSE /\ tx' = [tx EXCEPT ![w].held[a] = next]
             /\ Goto(w, then)
             /\ UNCHANGED reply
     /\ UNCHANGED <<held, rows, today, call, answers>>

(* The loop body of both calls, for one account: upsert, read, check and   *)
(* update.  The statements touch the private view only.                    *)
UpdateAccount(w, a, limit, then) ==
  LET c == call[w]
      next == IF c.op = "reserve"
              THEN tx[w].held[a] + c.amount
              ELSE tx[w].held[a] - tx[w].rows[c.request].reservation + c.charge
      refusal == IF c.op = "reserve" THEN "Budget" ELSE "Internal"
  IN /\ IF next > MaxMicros \/ next < 0 \/ (c.op = "reserve" /\ next > limit)
        THEN Answer(w, refusal)
        ELSE /\ tx' = [tx EXCEPT ![w].held[a] = next]
             /\ Goto(w, then)
             /\ UNCHANGED reply
     /\ UNCHANGED <<held, rows, today, call, answers>>

UpdateTenant(w) ==
  /\ pc[w] = "tenant"
  /\ UpdateAccount(w, tx[w].rows[call[w].request].tenant,
                   IF call[w].op = "reserve" THEN call[w].tenantLimit ELSE 0, "user")

UpdateUser(w) ==
  /\ pc[w] = "user"
  /\ UpdateAccount(w, tx[w].rows[call[w].request].user,
                   IF call[w].op = "reserve" THEN call[w].userLimit ELSE 0,
                   IF call[w].op = "reserve" THEN "commit" ELSE "close")

(* settle's last statement.                                                *)
CloseRequest(w) ==
  /\ pc[w] = "close"
  /\ tx' = [tx EXCEPT ![w].rows[call[w].request].charged = call[w].charge,
                      ![w].rows[call[w].request].status = "settled"]
  /\ Goto(w, "commit")
  /\ UNCHANGED <<held, rows, today, call, reply, answers>>

Commit(w) ==
  /\ pc[w] = "commit"
  /\ held' = tx[w].held
  /\ rows' = tx[w].rows
  /\ Answer(w, "Ok")
  /\ UNCHANGED <<today, call, answers>>

(* A statement or the commit itself fails; the transaction rolls back.     *)
Fail(w) ==
  /\ InTx(w)
  /\ Answer(w, "Internal")
  /\ UNCHANGED <<held, rows, today, call, answers>>

Return(w) ==
  /\ pc[w] = "done"
  /\ answers' = IF reply[w] = "Ok"
                THEN answers \cup {<<call[w].op, call[w].request>>} ELSE answers
  /\ Goto(w, "idle")
  /\ call' = [call EXCEPT ![w] = NoCall]
  /\ reply' = [reply EXCEPT ![w] = "none"]
  /\ UNCHANGED <<held, rows, today, tx>>

NextDay ==
  /\ today < LastDay
  /\ today' = today + 1
  /\ UNCHANGED <<held, rows, pc, call, tx, reply, answers>>

(* The process dies: calls and transactions are gone, the file stays       *)
(* (synchronous = FULL).                                                   *)
Crash ==
  /\ \E w \in Writers : pc[w] # "idle"
  /\ pc' = [w \in Writers |-> "idle"]
  /\ call' = [w \in Writers |-> NoCall]
  /\ tx' = [w \in Writers |-> NoTx]
  /\ reply' = [w \in Writers |-> "none"]
  /\ UNCHANGED <<held, rows, today, answers>>

(* What a blocking thread does once its caller has called it.              *)
Progress(w) ==
  \/ GetConn(w) \/ PoolTimeout(w)
  \/ Begin(w) \/ BusyTimeout(w)
  \/ InsertRequest(w) \/ FindRequest(w)
  \/ UpdateTenant(w) \/ UpdateUser(w) \/ CloseRequest(w)
  \/ Commit(w) \/ Fail(w)
  \/ Return(w)

Calls(w) ==
  \/ \E r \in Requests, u \in Users, amount \in Amounts :
       \E tl \in LimitsOf[TenantOf[u]], ul \in LimitsOf[u] :
         CallReserve(w, r, u, amount, tl, ul)
  \/ \E r \in Requests, charge \in Charges : CallSettle(w, r, charge)

SqlNext ==
  \/ \E w \in Writers : Calls(w) \/ Progress(w)
  \/ NextDay
  \/ Crash

(* Threads of the blocking pool keep running; nobody has to call them.     *)
SqlSpec == SqlInit /\ [][SqlNext]_sqlVars /\ \A w \in Writers : WF_sqlVars(Progress(w))

-----------------------------------------------------------------------------
Tables == [held : [Accounts -> 0..MaxMicros], rows : [Requests -> Row \cup {NoRow}]]

SqlTypeOK ==
  /\ TypeOK
  /\ today \in Days
  /\ pc \in [Writers -> {"idle", "conn", "begin", "insert", "find", "tenant",
                         "user", "close", "commit", "done"}]
  /\ call \in [Writers -> ReserveCall \cup SettleCall \cup {NoCall}]
  /\ tx \in [Writers -> Tables \cup {NoTx}]
  /\ reply \in [Writers -> Replies]
  /\ answers \subseteq {"reserve", "settle"} \X Requests

(* The transactions keep the ledger's promise: whatever the interleaving   *)
(* of writers, failed statements, timeouts and crashes, the committed      *)
(* tables change only by whole reservations and whole settlements          *)
(* (src/repository.rs: "Both account updates and the request record commit *)
(* or roll back together").                                                *)
ImplementsLedger == Spec

(* One request id has one winner: among all the callers that ever reserve  *)
(* it, and among all that ever settle it, one at most is told Ok, and then *)
(* the row is there, or is settled, to prove it.                           *)
OneWinner ==
  \A w \in Writers : pc[w] = "done" /\ reply[w] = "Ok" =>
    LET answer == <<call[w].op, call[w].request>>
        status == rows[call[w].request].status
    IN /\ answer \notin answers
       /\ \A v \in Writers \ {w} :
            pc[v] = "done" /\ reply[v] = "Ok" => <<call[v].op, call[v].request>> # answer
       /\ status \in IF call[w].op = "reserve" THEN {"pending", "settled"} ELSE {"settled"}

(* Every call returns: the pool's and SQLite's timeouts leave no thread    *)
(* waiting forever for a connection or for the write lock.                 *)
EveryCallReturns == \A w \in Writers : pc[w] # "idle" ~> pc[w] = "idle"
=============================================================================
