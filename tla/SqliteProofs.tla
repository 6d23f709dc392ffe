--------------------------- MODULE SqliteProofs ---------------------------
(* Theorems about the transactions of the store, for every set of writers, *)
(* requests, owners, amounts and limits, every pool size and every last    *)
(* day: they keep the ledger's promise, so what LedgerProofs shows of the  *)
(* promise is true of the committed tables.                                *)
EXTENDS SqliteLedger, LedgerProofs

(***************************************************************************)
(* The inductive invariant.                                                *)
(***************************************************************************)

(* What a call under way asks for is something its callers may ask for,    *)
(* and it passed the first test of reserve or settle.                      *)
Called(w) ==
  LET c == call[w]
  IN /\ pc[w] # "idle" => c # NoCall
     /\ c.op = "reserve" =>
          /\ c.tenantLimit \in LimitsOf[TenantOf[c.user]]
          /\ c.userLimit \in LimitsOf[c.user]
          /\ pc[w] # "done" => c.amount > 0
     /\ c.op = "settle" /\ pc[w] # "done" => c.charge >= 0

(* What a call works on: its row, its accounts, what it makes of a total,  *)
(* and whether that total is allowed.                                      *)
RowOf(w) == rows[call[w].request]
TenantAt(w) ==
  IF call[w].op = "reserve" THEN TenantAccount(call[w].user, call[w].day) ELSE RowOf(w).tenant
UserAt(w) ==
  IF call[w].op = "reserve" THEN UserAccount(call[w].user, call[w].day) ELSE RowOf(w).user
Total(w, a) ==
  IF call[w].op = "reserve" THEN held[a] + call[w].amount
                            ELSE held[a] - RowOf(w).reservation + call[w].charge
TenantFits(w) ==
  /\ Total(w, TenantAt(w)) \in 0..MaxMicros
  /\ call[w].op = "reserve" => Total(w, TenantAt(w)) <= call[w].tenantLimit
UserFits(w) ==
  /\ Total(w, UserAt(w)) \in 0..MaxMicros
  /\ call[w].op = "reserve" => Total(w, UserAt(w)) <= call[w].userLimit

(* A transaction's view of the tables is the committed tables and exactly  *)
(* the statements made so far.                                             *)
ViewOfRows(w) ==
  /\ pc[w] \in {"insert", "find"} => tx[w].rows = rows
  /\ pc[w] \in {"tenant", "user", "commit"} /\ call[w].op = "reserve" =>
       /\ RowOf(w) = NoRow
       /\ tx[w].rows = [rows EXCEPT ![call[w].request] = NewRow(call[w])]
  /\ pc[w] \in {"tenant", "user", "close", "commit"} /\ call[w].op = "settle" =>
       RowOf(w).status = "pending"
  /\ pc[w] \in {"tenant", "user", "close"} /\ call[w].op = "settle" => tx[w].rows = rows
  /\ pc[w] = "commit" /\ call[w].op = "settle" =>
       tx[w].rows = [rows EXCEPT ![call[w].request].charged = call[w].charge,
                                 ![call[w].request].status = "settled"]

ViewOfTotals(w) ==
  /\ pc[w] \in {"insert", "find", "tenant"} => tx[w].held = held
  /\ pc[w] = "user" =>
       /\ TenantFits(w)
       /\ tx[w].held = [held EXCEPT ![TenantAt(w)] = Total(w, TenantAt(w))]
  /\ pc[w] \in {"close", "commit"} =>
       /\ TenantFits(w) /\ UserFits(w)
       /\ tx[w].held = [held EXCEPT ![TenantAt(w)] = Total(w, TenantAt(w)),
                                    ![UserAt(w)] = Total(w, UserAt(w))]

View(w) ==
  /\ InTx(w) => tx[w] \in Tables
  /\ pc[w] = "insert" => call[w].op = "reserve"
  /\ pc[w] \in {"find", "close"} => call[w].op = "settle"
  /\ ViewOfRows(w) /\ ViewOfTotals(w)

(* SQLite has one write lock.                                              *)
OneTransaction == \A v, w \in Writers : InTx(v) /\ InTx(w) => v = w

(* No row names one account twice.                                         *)
TwoAccounts == \A r \in Requests : rows[r] # NoRow => rows[r].tenant # rows[r].user

(* Whoever was told Ok, the row proves it.                                 *)
Proves(op, r) ==
  /\ rows[r] # NoRow
  /\ op = "settle" => rows[r].status = "settled"
Proven ==
  /\ \A w \in Writers : pc[w] = "done" /\ reply[w] = "Ok" => Proves(call[w].op, call[w].request)
  /\ \A op \in {"reserve", "settle"}, r \in Requests : <<op, r>> \in answers => Proves(op, r)

SqlInv ==
  /\ SqlTypeOK
  /\ OneTransaction /\ TwoAccounts /\ Proven /\ OneWinner
  /\ \A w \in Writers : Called(w) /\ View(w)

(***************************************************************************)
(* Frames: what a writer leaves alone keeps its part of the invariant.     *)
(***************************************************************************)

(* A writer that does not move, while the tables stay as they are or it is *)
(* in no transaction.                                                      *)
LEMMA Waiting ==
  ASSUME NEW v \in Writers, Called(v), View(v),
         pc'[v] = pc[v], call'[v] = call[v], tx'[v] = tx[v],
         InTx(v) => held' = held /\ rows' = rows
  PROVE  Called(v)' /\ View(v)'
<1>1. Called(v)'
  BY DEF Called
<1>2. CASE InTx(v)
  <2>1. held' = held /\ rows' = rows
    BY <1>2
  <2>2. /\ RowOf(v)' = RowOf(v) /\ TenantAt(v)' = TenantAt(v) /\ UserAt(v)' = UserAt(v)
        /\ \A a : Total(v, a)' = Total(v, a)
    BY <2>1 DEF RowOf, TenantAt, UserAt, Total, TenantAccount, UserAccount
  <2>3. Total(v, TenantAt(v))' = Total(v, TenantAt(v)) /\ Total(v, UserAt(v))' = Total(v, UserAt(v))
    BY <2>1, <2>2 DEF Total, RowOf
  <2>4. ViewOfRows(v)'
    BY <2>1, <2>2 DEF View, ViewOfRows, NewRow, TenantAccount, UserAccount
  <2>5. ViewOfTotals(v)'
    BY <2>1, <2>2, <2>3 DEF View, ViewOfTotals, TenantFits, UserFits
  <2>6. Tables' = Tables
    BY DEF Tables, Accounts, Owners, Row, NoRow
  <2> QED
    BY <1>1, <2>4, <2>5, <2>6 DEF View, InTx
<1>3. CASE ~ InTx(v)
  BY <1>1, <1>3 DEF View, ViewOfRows, ViewOfTotals, InTx
<1> QED
  BY <1>2, <1>3

(* Only writer w moves, and the tables stay as they are.                   *)
Moves(w) ==
  /\ pc' \in [Writers -> {"idle", "conn", "begin", "insert", "find", "tenant",
                          "user", "close", "commit", "done"}]
  /\ call' \in [Writers -> ReserveCall \cup SettleCall \cup {NoCall}]
  /\ tx' \in [Writers -> Tables \cup {NoTx}]
  /\ reply' \in [Writers -> Replies]
  /\ \A v \in Writers \ {w} : /\ pc'[v] = pc[v] /\ call'[v] = call[v]
                              /\ tx'[v] = tx[v] /\ reply'[v] = reply[v]
  /\ UNCHANGED <<held, rows, today>>

(* A move that tells nobody Ok, and begins a transaction only when nobody  *)
(* is in one.                                                              *)
LEMMA Moved ==
  ASSUME SqlInv, NEW w \in Writers, Moves(w), UNCHANGED answers,
         Called(w)', View(w)', InTx(w)' => InTx(w) \/ ~ Busy(w),
         ~ (pc'[w] = "done" /\ reply'[w] = "Ok")
  PROVE  SqlInv'
<1>1. SqlTypeOK'
  BY DEF SqlInv, SqlTypeOK, Moves, TypeOK
<1>2. \A v \in Writers : Called(v)' /\ View(v)'
  BY Waiting DEF SqlInv, Moves
<1>3. OneTransaction'
  <2>1. \A v \in Writers \ {w} : InTx(v)' <=> InTx(v)
    BY DEF InTx, Moves
  <2> QED
    BY <2>1 DEF SqlInv, OneTransaction, Busy
<1>4. TwoAccounts' /\ Proven'
  BY DEF SqlInv, TwoAccounts, Proven, Proves, Moves
<1>5. OneWinner'
  BY DEF SqlInv, OneWinner, Moves
<1> QED
  BY <1>1, <1>2, <1>3, <1>4, <1>5 DEF SqlInv

(* Every answer but Ok gives up the transaction.                           *)
LEMMA Refuses ==
  ASSUME SqlInv, NEW w \in Writers, NEW value \in Replies \ {"Ok"}, Answer(w, value),
         call' \in [Writers -> ReserveCall \cup SettleCall \cup {NoCall}],
         \A v \in Writers \ {w} : call'[v] = call[v],
         UNCHANGED <<held, rows, today, answers>>,
         call'[w] # NoCall,
         call'[w].op = "reserve" => /\ call'[w].tenantLimit \in LimitsOf[TenantOf[call'[w].user]]
                                    /\ call'[w].userLimit \in LimitsOf[call'[w].user]
  PROVE  SqlInv'
<1>1. pc'[w] = "done" /\ reply'[w] = value
  BY DEF SqlInv, SqlTypeOK, Answer, Goto
<1>2. Moves(w)
  BY DEF SqlInv, SqlTypeOK, Answer, Goto, Moves
<1>3. Called(w)' /\ View(w)' /\ ~ InTx(w)'
  BY <1>1 DEF Called, View, ViewOfRows, ViewOfTotals, InTx
<1> QED
  BY <1>1, <1>2, <1>3, Moved

(* The same, when the call was under way.                                  *)
LEMMA GivesUp ==
  ASSUME SqlInv, NEW w \in Writers, NEW value \in Replies \ {"Ok"}, Answer(w, value),
         pc[w] # "idle", UNCHANGED <<held, rows, today, call, answers>>
  PROVE  SqlInv'
<1>1. /\ call[w] # NoCall
      /\ call[w].op = "reserve" => /\ call[w].tenantLimit \in LimitsOf[TenantOf[call[w].user]]
                                   /\ call[w].userLimit \in LimitsOf[call[w].user]
  BY DEF SqlInv, Called
<1>2. call \in [Writers -> ReserveCall \cup SettleCall \cup {NoCall}]
  BY DEF SqlInv, SqlTypeOK
<1> QED
  BY <1>1, <1>2, Refuses

(***************************************************************************)
(* Before the first statement.                                             *)
(***************************************************************************)
LEMMA CallReserveStep ==
  ASSUME SqlInv, NEW w \in Writers, NEW r \in Requests, NEW u \in Users, NEW amount \in Amounts,
         NEW tl \in LimitsOf[TenantOf[u]], NEW ul \in LimitsOf[u],
         CallReserve(w, r, u, amount, tl, ul)
  PROVE  SqlInv'
<1> DEFINE c == [op |-> "reserve", request |-> r, user |-> u, day |-> today,
                 amount |-> amount, tenantLimit |-> tl, userLimit |-> ul]
<1>1. c \in ReserveCall
  <2>1. TenantOf[u] \in Tenants
    BY OwnersAssumption
  <2>2. tl \in Nat /\ ul \in Nat
    BY <2>1, LimitsAssumption
  <2> QED
    BY <2>2 DEF SqlInv, SqlTypeOK, ReserveCall
<1>2. /\ call' = [call EXCEPT ![w] = c] /\ call'[w] = c /\ c # NoCall
      /\ call' \in [Writers -> ReserveCall \cup SettleCall \cup {NoCall}]
  BY <1>1 DEF CallReserve, SqlInv, SqlTypeOK, ReserveCall, NoCall
<1>3. CASE amount <= 0
  <2>1. Answer(w, "Invalid") /\ UNCHANGED <<held, rows, today, answers>>
    BY <1>3 DEF CallReserve
  <2>2. \A v \in Writers \ {w} : call'[v] = call[v]
    BY <1>2 DEF SqlInv, SqlTypeOK
  <2>3. "Invalid" \in Replies \ {"Ok"}
    BY DEF Replies
  <2> HIDE DEF c
  <2>4. c.tenantLimit = tl /\ c.userLimit = ul /\ c.user = u
    BY DEF c
  <2> QED
    BY <1>2, <2>1, <2>2, <2>3, <2>4, Refuses
<1>4. CASE amount > 0
  <2>1. Goto(w, "conn") /\ UNCHANGED <<tx, reply, held, rows, today, answers>>
    BY <1>4, MicrosAssumption DEF CallReserve
  <2>2. Moves(w) /\ pc'[w] = "conn"
    BY <1>2, <2>1 DEF SqlInv, SqlTypeOK, Goto, Moves
  <2>3. Called(w)' /\ View(w)' /\ ~ InTx(w)'
    BY <1>2, <1>4, <2>2 DEF Called, View, ViewOfRows, ViewOfTotals, InTx
  <2> QED
    BY <2>1, <2>2, <2>3, Moved
<1> QED
  BY <1>3, <1>4, MicrosAssumption

LEMMA CallSettleStep ==
  ASSUME SqlInv, NEW w \in Writers, NEW r \in Requests, NEW charge \in Charges,
         CallSettle(w, r, charge)
  PROVE  SqlInv'
<1> DEFINE c == [op |-> "settle", request |-> r, charge |-> charge]
<1>1. /\ call' = [call EXCEPT ![w] = c] /\ call'[w] = c /\ c # NoCall
      /\ call' \in [Writers -> ReserveCall \cup SettleCall \cup {NoCall}]
  BY DEF CallSettle, SqlInv, SqlTypeOK, SettleCall, NoCall
<1>2. CASE charge < 0
  <2>1. Answer(w, "Invalid") /\ UNCHANGED <<held, rows, today, answers>>
    BY <1>2 DEF CallSettle
  <2>2. \A v \in Writers \ {w} : call'[v] = call[v]
    BY <1>1 DEF SqlInv, SqlTypeOK
  <2>3. "Invalid" \in Replies \ {"Ok"}
    BY DEF Replies
  <2> QED
    BY <1>1, <2>1, <2>2, <2>3, Refuses
<1>3. CASE charge >= 0
  <2>1. Goto(w, "conn") /\ UNCHANGED <<tx, reply, held, rows, today, answers>>
    BY <1>3, MicrosAssumption DEF CallSettle
  <2>2. Moves(w) /\ pc'[w] = "conn"
    BY <1>1, <2>1 DEF SqlInv, SqlTypeOK, Goto, Moves
  <2>3. Called(w)' /\ View(w)' /\ ~ InTx(w)'
    BY <1>1, <1>3, <2>2 DEF Called, View, ViewOfRows, ViewOfTotals, InTx
  <2> QED
    BY <2>1, <2>2, <2>3, Moved
<1> QED
  BY <1>2, <1>3, MicrosAssumption

(* A writer that waits for a connection or for the lock, or stops waiting. *)
LEMMA ConnectionStep ==
  ASSUME SqlInv, NEW w \in Writers,
         GetConn(w) \/ PoolTimeout(w) \/ BusyTimeout(w) \/ Fail(w)
  PROVE  SqlInv'
<1>1. CASE GetConn(w)
  <2>1. /\ pc[w] = "conn" /\ Goto(w, "begin")
        /\ UNCHANGED <<held, rows, today, call, tx, reply, answers>>
    BY <1>1 DEF GetConn
  <2>2. Moves(w) /\ pc'[w] = "begin"
    BY <2>1 DEF SqlInv, SqlTypeOK, Goto, Moves
  <2>3. Called(w)' /\ View(w)' /\ ~ InTx(w)'
    BY <2>1, <2>2 DEF SqlInv, Called, View, ViewOfRows, ViewOfTotals, InTx
  <2> QED
    BY <2>1, <2>2, <2>3, Moved
<1>2. CASE PoolTimeout(w) \/ BusyTimeout(w) \/ Fail(w)
  <2>1. /\ pc[w] # "idle" /\ Answer(w, "Internal")
        /\ UNCHANGED <<held, rows, today, call, answers>>
    BY <1>2 DEF PoolTimeout, BusyTimeout, Fail, InTx
  <2>2. "Internal" \in Replies \ {"Ok"}
    BY DEF Replies
  <2> QED
    BY <2>1, <2>2, GivesUp
<1> QED
  BY <1>1, <1>2

(* BEGIN IMMEDIATE: nobody is in a transaction, and the view is the tables. *)
LEMMA BeginStep ==
  ASSUME SqlInv, NEW w \in Writers, Begin(w)
  PROVE  SqlInv'
<1>1. /\ pc[w] = "begin" /\ ~ Busy(w)
      /\ UNCHANGED <<held, rows, today, call, reply, answers>>
  BY DEF Begin
<1>2. /\ pc'[w] = IF call[w].op = "reserve" THEN "insert" ELSE "find"
      /\ tx'[w] = [held |-> held, rows |-> rows]
      /\ Moves(w)
  BY DEF Begin, SqlInv, SqlTypeOK, TypeOK, Goto, Moves, Tables
<1>3. call[w].op = "reserve" \/ call[w].op = "settle"
  BY <1>1 DEF SqlInv, SqlTypeOK, Called, ReserveCall, SettleCall
<1>4. Called(w)' /\ View(w)'
  <2>1. tx'[w].held = held /\ tx'[w].rows = rows
    BY <1>2
  <2>2. tx'[w] \in Tables'
    BY <1>2 DEF Moves, SqlInv, SqlTypeOK, TypeOK, Tables, Accounts, Owners, Row, NoRow
  <2> QED
    BY <1>1, <1>2, <1>3, <2>1, <2>2
       DEF SqlInv, Called, View, ViewOfRows, ViewOfTotals
<1> QED
  BY <1>1, <1>2, <1>4, Moved

(***************************************************************************)
(* The statements of a transaction.                                        *)
(***************************************************************************)

LEMMA Micros ==
  /\ \A n \in Amounts : n \in Int /\ n <= MaxMicros
  /\ \A n \in Charges : n \in Int /\ n <= MaxMicros
  /\ MaxMicros \in Int
BY MicrosAssumption

(* What the call of a transaction looks like.                              *)
LEMMA CallTypes ==
  ASSUME SqlInv, NEW w \in Writers, InTx(w)
  PROVE  LET c == call[w]
         IN /\ c.request \in Requests
            /\ \/ /\ c \in ReserveCall /\ c.op = "reserve"
                  /\ c.user \in Users /\ c.day \in Days
                  /\ c.amount \in 1..MaxMicros
                  /\ TenantAccount(c.user, c.day) \in Accounts
                  /\ UserAccount(c.user, c.day) \in Accounts
                  /\ TenantAccount(c.user, c.day) # UserAccount(c.user, c.day)
                  /\ c.tenantLimit \in LimitsOf[TenantOf[c.user]]
                  /\ c.userLimit \in LimitsOf[c.user]
                  /\ c.tenantLimit \in Nat /\ c.userLimit \in Nat
                  /\ c.amount \in Amounts
               \/ c \in SettleCall /\ c.op = "settle" /\ c.charge \in Charges /\ c.charge \in 0..MaxMicros
<1> DEFINE c == call[w]
<1>1. c \in ReserveCall \cup SettleCall /\ Called(w) /\ pc[w] \notin {"idle", "done"}
  BY DEF SqlInv, SqlTypeOK, Called, InTx
<1>2. CASE c \in ReserveCall
  <2>1. /\ c.op = "reserve" /\ c.user \in Users /\ c.day \in Days /\ c.amount \in Amounts
        /\ c.request \in Requests /\ c.tenantLimit \in Nat /\ c.userLimit \in Nat
    BY <1>2 DEF ReserveCall
  <2>2. /\ c.amount > 0 /\ c.tenantLimit \in LimitsOf[TenantOf[c.user]]
        /\ c.userLimit \in LimitsOf[c.user]
    BY <1>1, <2>1 DEF Called
  <2>3. c.amount \in 1..MaxMicros
    <3>1. c.amount \in Int /\ c.amount <= MaxMicros /\ MaxMicros \in Int
      BY <2>1, Micros
    <3> QED
      BY <2>2, <3>1
  <2> HIDE DEF c
  <2> QED
    BY <1>2, <2>1, <2>2, <2>3, AccountTypes DEF c
<1>3. CASE c \in SettleCall
  <2>1. c.op = "settle" /\ c.charge \in Charges /\ c.request \in Requests
    BY <1>3 DEF SettleCall
  <2>2. c.charge \in 0..MaxMicros
    <3>1. c.charge \in Int /\ c.charge <= MaxMicros /\ MaxMicros \in Int
      BY <2>1, Micros
    <3>2. c.charge >= 0
      BY <1>1, <2>1 DEF Called
    <3> QED
      BY <3>1, <3>2
  <2> QED
    BY <1>3, <2>1, <2>2
<1> QED
  BY <1>1, <1>2, <1>3

(* A settlement's row is one that was reserved.                            *)
LEMMA PendingRow ==
  ASSUME SqlInv, NEW r \in Requests, rows[r].status # "none"
  PROVE  /\ rows[r] \in Row /\ rows[r] # NoRow
         /\ rows[r].tenant \in Accounts /\ rows[r].user \in Accounts
         /\ rows[r].tenant # rows[r].user
         /\ rows[r].reservation \in 1..MaxMicros
<1>1. rows[r] # NoRow /\ rows[r] \in Row
  BY DEF SqlInv, SqlTypeOK, TypeOK, NoRow
<1> QED
  BY <1>1 DEF SqlInv, TwoAccounts, Row

(* The update of one account: refused, or one total changed in the view.   *)
LEMMA UpdateAccountStep ==
  ASSUME SqlInv, NEW w \in Writers, InTx(w), tx[w].rows[call[w].request] \in Row,
         NEW a \in Accounts, NEW limit \in Nat,
         NEW then \in {"user", "close", "commit"}, UpdateAccount(w, a, limit, then)
  PROVE  LET next == IF call[w].op = "reserve"
                     THEN tx[w].held[a] + call[w].amount
                     ELSE tx[w].held[a] - tx[w].rows[call[w].request].reservation + call[w].charge
         IN \/ SqlInv'
            \/ /\ next \in 0..MaxMicros
               /\ call[w].op = "reserve" => next <= limit
               /\ tx'[w] \in Tables
               /\ tx'[w].held = [tx[w].held EXCEPT ![a] = next]
               /\ tx'[w].rows = tx[w].rows
               /\ pc'[w] = then
               /\ Moves(w)
               /\ UNCHANGED <<call, answers>>
<1> DEFINE c == call[w]
           next == IF c.op = "reserve"
                   THEN tx[w].held[a] + c.amount
                   ELSE tx[w].held[a] - tx[w].rows[c.request].reservation + c.charge
<1>1. /\ tx[w] \in Tables /\ tx[w].held \in [Accounts -> 0..MaxMicros]
      /\ tx[w].rows \in [Requests -> Row \cup {NoRow}]
  BY DEF SqlInv, View, Tables
<1>2. next \in Int
  <2>1. tx[w].rows[c.request].reservation \in Int
    BY DEF Row
  <2> QED
    BY <1>1, <2>1, CallTypes
<1>3. CASE next > MaxMicros \/ next < 0 \/ (c.op = "reserve" /\ next > limit)
  <2>1. PICK value \in {"Budget", "Internal"} : Answer(w, value)
    BY <1>3 DEF UpdateAccount
  <2>2. UNCHANGED <<held, rows, today, call, answers>>
    BY DEF UpdateAccount
  <2>3. value \in Replies \ {"Ok"} /\ pc[w] # "idle"
    BY DEF Replies, InTx
  <2> QED
    BY <2>1, <2>2, <2>3, GivesUp
<1>4. CASE ~ (next > MaxMicros \/ next < 0 \/ (c.op = "reserve" /\ next > limit))
  <2>1. /\ tx' = [tx EXCEPT ![w].held[a] = next]
        /\ Goto(w, then)
        /\ UNCHANGED <<held, rows, today, call, answers, reply>>
    BY <1>4 DEF UpdateAccount
  <2>2. next \in 0..MaxMicros /\ (c.op = "reserve" => next <= limit)
    BY <1>2, <1>4, MicrosAssumption
  <2> HIDE DEF next
  <2>3. [tx[w].held EXCEPT ![a] = next] \in [Accounts -> 0..MaxMicros]
    BY <1>1, <2>2
  <2>4. tx'[w] = [held |-> [tx[w].held EXCEPT ![a] = next], rows |-> tx[w].rows]
    BY <1>1, <2>1 DEF SqlInv, SqlTypeOK, Tables
  <2>5. tx'[w] \in Tables
    BY <1>1, <2>3, <2>4 DEF Tables
  <2>6. pc'[w] = then /\ Moves(w)
    BY <2>1, <2>5 DEF SqlInv, SqlTypeOK, Goto, Moves
  <2> QED
    BY <2>1, <2>2, <2>4, <2>5, <2>6 DEF next
<1> QED
  BY <1>3, <1>4

(* While the tables and the call stay, so does what the call works on.     *)
LEMMA SameWork ==
  ASSUME NEW w \in Writers, UNCHANGED <<held, rows, call>>
  PROVE  /\ RowOf(w)' = RowOf(w) /\ TenantAt(w)' = TenantAt(w) /\ UserAt(w)' = UserAt(w)
         /\ \A a : Total(w, a)' = Total(w, a)
         /\ Total(w, TenantAt(w))' = Total(w, TenantAt(w))
         /\ Total(w, UserAt(w))' = Total(w, UserAt(w))
         /\ NewRow(call[w])' = NewRow(call[w])
         /\ Tables' = Tables
         /\ Called(w) /\ pc[w] \notin {"idle", "done"} /\ pc'[w] # "done" => Called(w)'
<1>1. RowOf(w)' = RowOf(w) /\ TenantAt(w)' = TenantAt(w) /\ UserAt(w)' = UserAt(w)
  BY DEF RowOf, TenantAt, UserAt, TenantAccount, UserAccount
<1>2. /\ \A a : Total(w, a)' = Total(w, a)
      /\ Total(w, TenantAt(w))' = Total(w, TenantAt(w))
      /\ Total(w, UserAt(w))' = Total(w, UserAt(w))
  BY <1>1 DEF Total, RowOf
<1>3. NewRow(call[w])' = NewRow(call[w]) /\ Tables' = Tables
  BY DEF NewRow, TenantAccount, UserAccount, Tables, Accounts, Owners, Row, NoRow
<1>4. Called(w) /\ pc[w] \notin {"idle", "done"} /\ pc'[w] # "done" => Called(w)'
  BY DEF Called
<1> QED
  BY <1>1, <1>2, <1>3, <1>4

(* The accounts that a transaction updates.                                *)
LEMMA WorkTypes ==
  ASSUME SqlInv, NEW w \in Writers, pc[w] \in {"tenant", "user", "close", "commit"}
  PROVE  /\ TenantAt(w) \in Accounts /\ UserAt(w) \in Accounts /\ TenantAt(w) # UserAt(w)
         /\ held \in [Accounts -> 0..MaxMicros] /\ rows \in [Requests -> Row \cup {NoRow}]
         /\ call[w].op = "settle" => RowOf(w) \in Row /\ RowOf(w).status = "pending"
<1>1. held \in [Accounts -> 0..MaxMicros] /\ rows \in [Requests -> Row \cup {NoRow}]
  BY DEF SqlInv, SqlTypeOK, TypeOK
<1>2. InTx(w)
  BY DEF InTx
<1>3. CASE call[w].op = "reserve"
  <2>1. call[w].op # "settle"
    BY <1>3
  <2> QED
    BY <1>1, <1>2, <1>3, <2>1, CallTypes DEF TenantAt, UserAt
<1>4. CASE call[w].op = "settle"
  <2>1. RowOf(w).status = "pending" /\ call[w].request \in Requests
    BY <1>2, <1>4, CallTypes DEF SqlInv, View, ViewOfRows
  <2> QED
    BY <1>1, <1>4, <2>1, PendingRow DEF TenantAt, UserAt, RowOf
<1> QED
  BY <1>2, <1>3, <1>4, CallTypes

(* The primary key: the request id is new to the committed tables.         *)
LEMMA InsertStep ==
  ASSUME SqlInv, NEW w \in Writers, InsertRequest(w)
  PROVE  SqlInv'
<1> DEFINE c == call[w]
<1>1. /\ pc[w] = "insert" /\ InTx(w) /\ c.op = "reserve" /\ c.request \in Requests
      /\ tx[w] \in Tables /\ tx[w].rows = rows /\ tx[w].held = held /\ Called(w)
      /\ UNCHANGED <<held, rows, today, call, answers>>
  <2>1. pc[w] = "insert" /\ InTx(w) /\ UNCHANGED <<held, rows, today, call, answers>>
    BY DEF InsertRequest, InTx
  <2> QED
    BY <2>1, CallTypes DEF SqlInv, View, ViewOfRows, ViewOfTotals
<1>2. CASE rows[c.request] # NoRow
  <2>1. Answer(w, "Conflict") /\ "Conflict" \in Replies \ {"Ok"} /\ pc[w] # "idle"
    BY <1>1, <1>2 DEF InsertRequest, Replies
  <2> QED
    BY <1>1, <2>1, GivesUp
<1>3. CASE rows[c.request] = NoRow
  <2>1. NewRow(c) \in Row
    BY <1>1, CallTypes, MicrosAssumption DEF NewRow, Row
  <2>2. /\ tx' = [tx EXCEPT ![w].rows[c.request] = NewRow(c)]
        /\ Goto(w, "tenant") /\ reply' = reply
    BY <1>1, <1>3 DEF InsertRequest
  <2> HIDE DEF c
  <2>3. tx'[w] = [held |-> held, rows |-> [rows EXCEPT ![c.request] = NewRow(c)]]
    BY <1>1, <2>2 DEF SqlInv, SqlTypeOK, Tables
  <2>4. tx'[w] \in Tables
    BY <1>1, <2>1, <2>3 DEF SqlInv, SqlTypeOK, TypeOK, Tables
  <2>5. Moves(w) /\ pc'[w] = "tenant"
    BY <1>1, <2>2, <2>4 DEF SqlInv, SqlTypeOK, Goto, Moves
  <2>6. Called(w)'
    BY <1>1, <2>5, SameWork
  <2>7. View(w)'
    BY <1>1, <1>3, <2>3, <2>4, <2>5, SameWork
       DEF View, ViewOfRows, ViewOfTotals, RowOf, c
  <2> QED
    BY <1>1, <2>5, <2>6, <2>7, Moved
<1> QED
  BY <1>2, <1>3

(* settle's first statement: a pending row, or no transaction.             *)
LEMMA FindStep ==
  ASSUME SqlInv, NEW w \in Writers, FindRequest(w)
  PROVE  SqlInv'
<1> DEFINE status == rows[call[w].request].status
<1>1. /\ pc[w] = "find" /\ InTx(w) /\ call[w].op = "settle" /\ call[w].request \in Requests
      /\ tx[w] \in Tables /\ tx[w].rows = rows /\ tx[w].held = held /\ Called(w)
      /\ UNCHANGED <<held, rows, today, call, answers>>
  <2>1. pc[w] = "find" /\ InTx(w) /\ UNCHANGED <<held, rows, today, call, answers>>
    BY DEF FindRequest, InTx
  <2> QED
    BY <2>1, CallTypes DEF SqlInv, View, ViewOfRows, ViewOfTotals
<1>2. status \in {"none", "pending", "settled"}
  BY <1>1 DEF SqlInv, SqlTypeOK, TypeOK, Row, NoRow
<1>3. CASE status # "pending"
  <2>1. PICK value \in {"Internal", "Conflict"} : Answer(w, value)
    BY <1>1, <1>2, <1>3 DEF FindRequest
  <2>2. value \in Replies \ {"Ok"} /\ pc[w] # "idle"
    BY <1>1 DEF Replies
  <2> QED
    BY <1>1, <2>1, <2>2, GivesUp
<1>4. CASE status = "pending"
  <2>1. Goto(w, "tenant") /\ UNCHANGED <<tx, reply>>
    BY <1>1, <1>4 DEF FindRequest
  <2>2. Moves(w) /\ pc'[w] = "tenant"
    BY <1>1, <2>1 DEF SqlInv, SqlTypeOK, Goto, Moves
  <2>3. Called(w)'
    BY <1>1, <2>2, SameWork
  <2>4. View(w)'
    BY <1>1, <1>4, <2>1, <2>2, SameWork DEF View, ViewOfRows, ViewOfTotals, RowOf
  <2> QED
    BY <1>1, <2>2, <2>3, <2>4, Moved
<1> QED
  BY <1>3, <1>4

(* The first account.                                                      *)
LEMMA TenantStep ==
  ASSUME SqlInv, NEW w \in Writers, UpdateTenant(w)
  PROVE  SqlInv'
<1> DEFINE a == tx[w].rows[call[w].request].tenant
           limit == IF call[w].op = "reserve" THEN call[w].tenantLimit ELSE 0
<1>1. /\ pc[w] = "tenant" /\ InTx(w) /\ tx[w].held = held /\ Called(w) /\ View(w)
      /\ UpdateAccount(w, a, limit, "user")
      /\ UNCHANGED <<held, rows, today, call, answers>>
  BY DEF UpdateTenant, UpdateAccount, InTx, SqlInv, View, ViewOfTotals
<1>2. a = TenantAt(w) /\ a \in Accounts /\ limit \in Nat /\ tx[w].rows[call[w].request] \in Row
  <2>1. CASE call[w].op = "reserve"
    <3>1. tx[w].rows[call[w].request] = NewRow(call[w])
      BY <1>1, <2>1, CallTypes DEF View, ViewOfRows, SqlInv, SqlTypeOK, TypeOK
    <3>2. NewRow(call[w]) \in Row
      BY <1>1, <2>1, CallTypes, MicrosAssumption DEF NewRow, Row
    <3> QED
      BY <1>1, <2>1, <3>1, <3>2, CallTypes DEF NewRow, TenantAt
  <2>2. CASE call[w].op = "settle"
    BY <1>1, <2>2, WorkTypes DEF View, ViewOfRows, TenantAt, RowOf
  <2> QED
    BY <1>1, <2>1, <2>2, CallTypes
<1>3. (IF call[w].op = "reserve" THEN tx[w].held[a] + call[w].amount
       ELSE tx[w].held[a] - tx[w].rows[call[w].request].reservation + call[w].charge)
        = Total(w, a)
  <2>1. call[w].op = "reserve" \/ tx[w].rows = rows
    BY <1>1, CallTypes DEF View, ViewOfRows
  <2> QED
    BY <1>1, <2>1 DEF Total, RowOf
<1> HIDE DEF a, limit
<1>4. CASE /\ Total(w, a) \in 0..MaxMicros
           /\ call[w].op = "reserve" => Total(w, a) <= limit
           /\ tx'[w] \in Tables
           /\ tx'[w].held = [tx[w].held EXCEPT ![a] = Total(w, a)]
           /\ tx'[w].rows = tx[w].rows
           /\ pc'[w] = "user"
           /\ Moves(w)
  <2>1. Called(w)'
    BY <1>1, <1>4, SameWork
  <2>2. TenantFits(w)'
    BY <1>1, <1>2, <1>4, SameWork DEF TenantFits, limit
  <2>3. ViewOfRows(w)'
    BY <1>1, <1>4, SameWork DEF View, ViewOfRows
  <2>4. ViewOfTotals(w)'
    BY <1>1, <1>2, <1>4, <2>2, SameWork DEF ViewOfTotals
  <2>5. View(w)'
    BY <1>4, <2>3, <2>4, <1>1, SameWork DEF View
  <2> QED
    BY <1>1, <1>4, <2>1, <2>5, Moved
<1> QED
  BY <1>1, <1>2, <1>3, <1>4, UpdateAccountStep

(* The second account, which is not the first.                             *)
LEMMA UserStep ==
  ASSUME SqlInv, NEW w \in Writers, UpdateUser(w)
  PROVE  SqlInv'
<1> DEFINE a == tx[w].rows[call[w].request].user
           limit == IF call[w].op = "reserve" THEN call[w].userLimit ELSE 0
           then == IF call[w].op = "reserve" THEN "commit" ELSE "close"
<1>1. /\ pc[w] = "user" /\ InTx(w) /\ Called(w) /\ View(w)
      /\ TenantFits(w) /\ tx[w].held = [held EXCEPT ![TenantAt(w)] = Total(w, TenantAt(w))]
      /\ UpdateAccount(w, a, limit, then)
      /\ UNCHANGED <<held, rows, today, call, answers>>
  BY DEF UpdateUser, UpdateAccount, InTx, SqlInv, View, ViewOfTotals
<1>2. a = UserAt(w) /\ a \in Accounts /\ limit \in Nat /\ tx[w].rows[call[w].request] \in Row
  <2>1. CASE call[w].op = "reserve"
    <3>1. tx[w].rows[call[w].request] = NewRow(call[w])
      BY <1>1, <2>1, CallTypes DEF View, ViewOfRows, SqlInv, SqlTypeOK, TypeOK
    <3>2. NewRow(call[w]) \in Row
      BY <1>1, <2>1, CallTypes, MicrosAssumption DEF NewRow, Row
    <3> QED
      BY <1>1, <2>1, <3>1, <3>2, CallTypes DEF NewRow, UserAt
  <2>2. CASE call[w].op = "settle"
    BY <1>1, <2>2, WorkTypes DEF View, ViewOfRows, UserAt, RowOf
  <2> QED
    BY <1>1, <2>1, <2>2, CallTypes
<1> DEFINE next == IF call[w].op = "reserve" THEN tx[w].held[a] + call[w].amount
                   ELSE tx[w].held[a] - tx[w].rows[call[w].request].reservation + call[w].charge
<1>3. next = Total(w, a)
  <2>1. call[w].op = "reserve" \/ tx[w].rows = rows
    BY <1>1, CallTypes DEF View, ViewOfRows
  <2>2. tx[w].held[a] = held[a]
    BY <1>1, <1>2, WorkTypes
  <2> QED
    BY <1>1, <2>1, <2>2 DEF Total, RowOf
<1> HIDE DEF a, limit
<1>4. CASE /\ Total(w, a) \in 0..MaxMicros
           /\ call[w].op = "reserve" => Total(w, a) <= limit
           /\ tx'[w] \in Tables
           /\ tx'[w].held = [tx[w].held EXCEPT ![a] = Total(w, a)]
           /\ tx'[w].rows = tx[w].rows
           /\ pc'[w] = then
           /\ Moves(w)
  <2>0. call[w].op = "reserve" \/ call[w].op = "settle"
    BY <1>1, CallTypes
  <2>1. Called(w)'
    BY <1>1, <1>4, SameWork
  <2>2. TenantFits(w)' /\ UserFits(w)'
    BY <1>1, <1>2, <1>4, SameWork DEF TenantFits, UserFits, limit
  <2>3. ViewOfRows(w)'
    BY <1>1, <1>4, <2>0, SameWork DEF View, ViewOfRows
  <2>4. ViewOfTotals(w)'
    <3>1. tx'[w].held = [held EXCEPT ![TenantAt(w)] = Total(w, TenantAt(w)),
                                     ![UserAt(w)] = Total(w, UserAt(w))]
      BY <1>1, <1>2, <1>4
    <3> QED
      BY <1>1, <1>4, <2>2, <3>1, SameWork DEF ViewOfTotals
  <2>5. View(w)'
    BY <1>1, <1>4, <2>0, <2>3, <2>4, SameWork DEF View
  <2> QED
    BY <1>1, <1>4, <2>0, <2>1, <2>5, Moved
<1>5. then \in {"user", "close", "commit"}
  OBVIOUS
<1> HIDE DEF then
<1>6. \/ SqlInv'
      \/ /\ next \in 0..MaxMicros
         /\ call[w].op = "reserve" => next <= limit
         /\ tx'[w] \in Tables
         /\ tx'[w].held = [tx[w].held EXCEPT ![a] = next]
         /\ tx'[w].rows = tx[w].rows
         /\ pc'[w] = then
         /\ Moves(w)
  <2>1. InTx(w) /\ UpdateAccount(w, a, limit, then)
    BY <1>1
  <2> QED
    BY <1>2, <1>5, <2>1, UpdateAccountStep
<1> HIDE DEF next
<1> QED
  BY <1>3, <1>4, <1>6

(* settle's last statement.                                                *)
LEMMA CloseStep ==
  ASSUME SqlInv, NEW w \in Writers, CloseRequest(w)
  PROVE  SqlInv'
<1> DEFINE r == call[w].request
<1>1. /\ pc[w] = "close" /\ InTx(w) /\ Called(w) /\ View(w) /\ call[w].op = "settle"
      /\ tx[w].rows = rows /\ tx[w] \in Tables
      /\ Goto(w, "commit") /\ UNCHANGED <<held, rows, today, call, reply, answers>>
  BY DEF CloseRequest, InTx, SqlInv, View, ViewOfRows
<1>2. /\ r \in Requests /\ rows[r] \in Row /\ rows[r].status = "pending"
      /\ call[w].charge \in 0..MaxMicros
  BY <1>1, CallTypes, WorkTypes DEF RowOf
<1> DEFINE closed == [rows EXCEPT ![r].charged = call[w].charge, ![r].status = "settled"]
<1>3. closed \in [Requests -> Row \cup {NoRow}]
  <2>1. [rows[r] EXCEPT !.charged = call[w].charge, !.status = "settled"] \in Row
    BY <1>2 DEF Row
  <2> QED
    BY <1>2, <2>1 DEF SqlInv, SqlTypeOK, TypeOK
<1>4. tx' = [tx EXCEPT ![w].rows[r].charged = call[w].charge, ![w].rows[r].status = "settled"]
  BY DEF CloseRequest
<1>5. tx'[w] = [held |-> tx[w].held, rows |-> closed]
  BY <1>1, <1>2, <1>4 DEF SqlInv, SqlTypeOK, Tables
<1> HIDE DEF closed
<1>6. tx'[w] \in Tables
  BY <1>1, <1>3, <1>5 DEF Tables
<1>7. Moves(w) /\ pc'[w] = "commit"
  BY <1>1, <1>4, <1>6 DEF SqlInv, SqlTypeOK, Goto, Moves
<1>8. Called(w)'
  BY <1>1, <1>7, SameWork
<1>9. View(w)'
  <2>1. tx'[w].held = tx[w].held /\ tx'[w].rows = closed
    BY <1>5
  <2>2. ViewOfTotals(w)'
    BY <1>1, <1>7, <2>1, SameWork DEF View, ViewOfTotals, TenantFits, UserFits
  <2>3. ViewOfRows(w)'
    BY <1>1, <1>2, <1>7, <2>1, SameWork DEF ViewOfRows, RowOf, closed
  <2> QED
    BY <1>1, <1>6, <1>7, <2>2, <2>3, SameWork DEF View
<1> QED
  BY <1>1, <1>7, <1>8, <1>9, Moved

(***************************************************************************)
(* The commit is the step of the ledger, and no other step is.             *)
(***************************************************************************)
LEMMA CommitIsReserveOrSettle ==
  ASSUME SqlInv, NEW w \in Writers, Commit(w)
  PROVE  LET c == call[w]
         IN \/ /\ c.op = "reserve"
               /\ Reserve(c.request, c.user, c.day, c.amount, c.tenantLimit, c.userLimit)
            \/ c.op = "settle" /\ Settle(c.request, c.charge)
<1> DEFINE c == call[w]
<1>1. /\ pc[w] = "commit" /\ InTx(w) /\ View(w) /\ TenantFits(w) /\ UserFits(w)
      /\ held' = [held EXCEPT ![TenantAt(w)] = Total(w, TenantAt(w)),
                              ![UserAt(w)] = Total(w, UserAt(w))]
      /\ rows' = tx[w].rows
  BY DEF Commit, InTx, SqlInv, View, ViewOfTotals
<1>2. /\ TenantAt(w) \in Accounts /\ UserAt(w) \in Accounts /\ TenantAt(w) # UserAt(w)
      /\ held \in [Accounts -> 0..MaxMicros]
  BY <1>1, WorkTypes
<1>3. CASE c.op = "reserve"
  <2> DEFINE t == TenantAccount(c.user, c.day)
             a == UserAccount(c.user, c.day)
  <2>1. t = TenantAt(w) /\ a = UserAt(w) /\ c.amount > 0
    BY <1>1, <1>3, CallTypes DEF TenantAt, UserAt, SqlInv, Called
  <2>2. rows[c.request] = NoRow /\ rows' = [rows EXCEPT ![c.request] = NewRow(c)]
    BY <1>1, <1>3 DEF View, ViewOfRows, RowOf
  <2>3. Total(w, t) = held[t] + c.amount /\ Total(w, a) = held[a] + c.amount
    BY <1>3 DEF Total
  <2>4. Fits(t, c.amount, c.tenantLimit) /\ Fits(a, c.amount, c.userLimit)
    BY <1>1, <1>3, <2>1, <2>3, MicrosAssumption DEF TenantFits, UserFits, Fits
  <2>5. held' = [held EXCEPT ![t] = @ + c.amount, ![a] = @ + c.amount]
    BY <1>1, <1>2, <2>1, <2>3
  <2> QED
    BY <1>3, <2>1, <2>2, <2>4, <2>5 DEF Reserve, NewRow
<1>4. CASE c.op = "settle"
  <2> DEFINE row == rows[c.request]
  <2>1. row.tenant = TenantAt(w) /\ row.user = UserAt(w) /\ c.charge >= 0 /\ row.status = "pending"
    BY <1>1, <1>4, CallTypes, WorkTypes DEF TenantAt, UserAt, RowOf
  <2>2. rows' = [rows EXCEPT ![c.request].charged = c.charge, ![c.request].status = "settled"]
    BY <1>1, <1>4 DEF View, ViewOfRows
  <2>3. \A a : Total(w, a) = held[a] - row.reservation + c.charge
    BY <1>4 DEF Total, RowOf
  <2>4. \A a \in AccountsOf(row) : held[a] - row.reservation + c.charge \in 0..MaxMicros
    BY <1>1, <2>1, <2>3 DEF TenantFits, UserFits, AccountsOf
  <2>5. held' = [a \in Accounts |-> IF a \in AccountsOf(row)
                                    THEN held[a] - row.reservation + c.charge ELSE held[a]]
    BY <1>1, <1>2, <2>1, <2>3 DEF AccountsOf
  <2> QED
    BY <1>4, <2>1, <2>2, <2>4, <2>5 DEF Settle
<1> QED
  BY <1>1, <1>3, <1>4, CallTypes

LEMMA CommitIsLedgerStep ==
  ASSUME SqlInv, NEW w \in Writers, Commit(w)
  PROVE  Next
<1>1. InTx(w)
  BY DEF Commit, InTx
<1> QED
  BY <1>1, CommitIsReserveOrSettle, CallTypes DEF Next

(* What a commit does to the rows: one row is inserted or settled, and it  *)
(* was not before.                                                         *)
LEMMA CommitRows ==
  ASSUME SqlInv, NEW w \in Writers, Commit(w)
  PROVE  LET c == call[w]
         IN /\ TypeOK' /\ TwoAccounts'
            /\ c.op \in {"reserve", "settle"} /\ c.request \in Requests
            /\ ~ Proves(c.op, c.request) /\ Proves(c.op, c.request)'
            /\ \A op \in {"reserve", "settle"}, r \in Requests : Proves(op, r) => Proves(op, r)'
<1> DEFINE c == call[w]
<1>0. InTx(w) /\ TypeOK /\ TwoAccounts
  BY DEF Commit, InTx, SqlInv, SqlTypeOK
<1>1. TypeOK'
  BY <1>0, CommitIsLedgerStep, TypingStep
<1>2. CASE c.op = "reserve"
  <2>1. Reserve(c.request, c.user, c.day, c.amount, c.tenantLimit, c.userLimit)
    BY <1>2, CommitIsReserveOrSettle
  <2>2. /\ c.request \in Requests /\ c.user \in Users /\ c.day \in Days /\ c.amount \in Amounts
        /\ TenantAccount(c.user, c.day) # UserAccount(c.user, c.day)
    BY <1>0, <1>2, CallTypes
  <2>3. /\ rows'[c.request] \in Row
        /\ rows'[c.request].tenant # rows'[c.request].user
        /\ \A q \in Requests \ {c.request} : rows'[q] = rows[q]
    BY <1>0, <2>1, <2>2, ReserveRow
  <2>4. rows[c.request] = NoRow /\ rows'[c.request] # NoRow
    BY <2>1, <2>3 DEF Reserve, Row, NoRow
  <2> HIDE DEF c
  <2>5. TwoAccounts'
    BY <1>0, <2>2, <2>3 DEF TwoAccounts
  <2>6. ~ Proves(c.op, c.request)
    BY <2>4 DEF Proves
  <2>7. \A op \in {"reserve", "settle"}, r \in Requests : Proves(op, r) => Proves(op, r)'
    BY <2>3, <2>4 DEF Proves
  <2>8. Proves(c.op, c.request)'
    BY <1>2, <2>4 DEF Proves, c, Commit
  <2> QED
    BY <1>1, <1>2, <2>2, <2>5, <2>6, <2>7, <2>8 DEF c
<1>3. CASE c.op = "settle"
  <2>1. Settle(c.request, c.charge) /\ c.request \in Requests /\ c.charge \in Charges
    BY <1>0, <1>3, CommitIsReserveOrSettle, CallTypes
  <2>2. /\ rows[c.request] \in Row /\ rows'[c.request] \in Row
        /\ rows[c.request].status = "pending" /\ rows'[c.request].status = "settled"
        /\ rows'[c.request].tenant = rows[c.request].tenant
        /\ rows'[c.request].user = rows[c.request].user
        /\ \A q \in Requests \ {c.request} : rows'[q] = rows[q]
    BY <1>0, <2>1, SettleRow
  <2>3. rows[c.request] # NoRow /\ rows'[c.request] # NoRow
    BY <2>2 DEF NoRow
  <2> HIDE DEF c
  <2>4. TwoAccounts'
    BY <1>0, <2>1, <2>2, <2>3 DEF TwoAccounts
  <2>5. ~ Proves(c.op, c.request)
    BY <1>3, <2>2 DEF Proves
  <2>6. \A op \in {"reserve", "settle"}, r \in Requests : Proves(op, r) => Proves(op, r)'
    BY <2>2, <2>3 DEF Proves
  <2>7. Proves(c.op, c.request)'
    BY <1>3, <2>2, <2>3 DEF Proves, c, Commit
  <2> QED
    BY <1>1, <1>3, <2>1, <2>4, <2>5, <2>6, <2>7 DEF c
<1> QED
  BY <1>0, <1>2, <1>3, CallTypes

LEMMA CommitStep ==
  ASSUME SqlInv, NEW w \in Writers, Commit(w)
  PROVE  SqlInv'
<1>1. /\ pc'[w] = "done" /\ reply'[w] = "Ok" /\ call' = call /\ answers' = answers
      /\ \A v \in Writers \ {w} : pc'[v] = pc[v] /\ tx'[v] = tx[v] /\ reply'[v] = reply[v]
  BY DEF Commit, Answer, Goto, SqlInv, SqlTypeOK
<1>2. \A v \in Writers \ {w} : ~ InTx(v)
  BY DEF Commit, InTx, SqlInv, OneTransaction
<1>3. \A v \in Writers : Called(v)' /\ View(v)'
  <2>1. ASSUME NEW v \in Writers \ {w} PROVE Called(v)' /\ View(v)'
    BY <1>1, <1>2, Waiting DEF SqlInv
  <2>2. Called(w)' /\ View(w)'
    BY <1>1 DEF Called, View, ViewOfRows, ViewOfTotals, InTx, SqlInv, Commit
  <2> QED
    BY <2>1, <2>2
<1>4. SqlTypeOK'
  <2>1. pc' \in [Writers -> {"idle", "conn", "begin", "insert", "find", "tenant",
                             "user", "close", "commit", "done"}]
    BY DEF Commit, Answer, Goto, SqlInv, SqlTypeOK
  <2>2. tx' \in [Writers -> Tables \cup {NoTx}] /\ reply' \in [Writers -> Replies]
    BY DEF Commit, Answer, SqlInv, SqlTypeOK, Replies
  <2> QED
    BY <1>1, <2>1, <2>2, CommitRows DEF SqlInv, SqlTypeOK, Commit
<1>5. OneTransaction'
  BY <1>1, <1>2 DEF OneTransaction, InTx
<1>6. \A v \in Writers \ {w} : pc'[v] = "done" /\ reply'[v] = "Ok" =>
        /\ Proves(call[v].op, call[v].request)
        /\ call[v].op \in {"reserve", "settle"} /\ call[v].request \in Requests
  BY <1>1 DEF SqlInv, SqlTypeOK, Proven, Called, ReserveCall, SettleCall
<1>7. Proven'
  <2>1. \A v \in Writers \ {w} :
          pc'[v] = "done" /\ reply'[v] = "Ok" => Proves(call[v].op, call[v].request)'
    BY <1>1, <1>6, CommitRows DEF Proves
  <2>2. \A op \in {"reserve", "settle"}, r \in Requests : <<op, r>> \in answers' => Proves(op, r)'
    BY <1>1, CommitRows DEF SqlInv, Proven
  <2> QED
    BY <1>1, <2>1, <2>2, CommitRows DEF Proven
<1>8. OneWinner'
  <2>1. <<call[w].op, call[w].request>> \notin answers
    BY CommitRows DEF SqlInv, Proven
  <2>2. \A v \in Writers \ {w} : pc'[v] = "done" /\ reply'[v] = "Ok" =>
           <<call[v].op, call[v].request>> # <<call[w].op, call[w].request>>
    BY <1>6, CommitRows
  <2>3. \A v \in Writers : pc'[v] = "done" /\ reply'[v] = "Ok" =>
          rows'[call[v].request].status
            \in IF call[v].op = "reserve" THEN {"pending", "settled"} ELSE {"settled"}
    <3>1. \A v \in Writers : pc'[v] = "done" /\ reply'[v] = "Ok" =>
            /\ Proves(call[v].op, call[v].request)'
            /\ call[v].op \in {"reserve", "settle"} /\ call[v].request \in Requests
      BY <1>1, <1>6, <1>7, CommitRows DEF Proven
    <3>2. \A r \in Requests : rows'[r] # NoRow => rows'[r].status \in {"pending", "settled"}
      BY CommitRows DEF TypeOK, Row
    <3> QED
      BY <1>1, <3>1, <3>2 DEF Proves
  <2> QED
    BY <1>1, <2>1, <2>2, <2>3 DEF SqlInv, OneWinner
<1> QED
  BY <1>3, <1>4, <1>5, <1>7, <1>8, CommitRows DEF SqlInv

(***************************************************************************)
(* Returns, days and crashes.                                              *)
(***************************************************************************)
LEMMA ReturnStep ==
  ASSUME SqlInv, NEW w \in Writers, Return(w)
  PROVE  SqlInv'
<1>1. /\ pc[w] = "done" /\ pc'[w] = "idle" /\ call'[w] = NoCall /\ reply'[w] = "none"
      /\ Moves(w)
  BY DEF Return, Goto, SqlInv, SqlTypeOK, Moves, Replies
<1>2. /\ call[w].op \in {"reserve", "settle"} /\ call[w].request \in Requests
      /\ answers' = IF reply[w] = "Ok"
                    THEN answers \cup {<<call[w].op, call[w].request>>} ELSE answers
  BY <1>1 DEF Return, SqlInv, SqlTypeOK, Called, ReserveCall, SettleCall
<1>3. SqlTypeOK'
  <2>1. answers' \subseteq {"reserve", "settle"} \X Requests
    BY <1>2 DEF SqlInv, SqlTypeOK
  <2> QED
    BY <1>1, <2>1 DEF SqlInv, SqlTypeOK, TypeOK, Moves
<1>4. \A v \in Writers : Called(v)' /\ View(v)'
  <2>1. Called(w)' /\ View(w)'
    BY <1>1 DEF Called, View, ViewOfRows, ViewOfTotals, InTx, NoCall
  <2> QED
    BY <1>1, <2>1, Waiting DEF SqlInv, Moves
<1>5. OneTransaction' /\ TwoAccounts'
  BY <1>1 DEF SqlInv, OneTransaction, TwoAccounts, InTx, Moves
<1>6. Proven'
  BY <1>1, <1>2 DEF SqlInv, Proven, Proves, Moves
<1>7. OneWinner'
  BY <1>1, <1>2 DEF SqlInv, OneWinner, Moves
<1> QED
  BY <1>3, <1>4, <1>5, <1>6, <1>7 DEF SqlInv

LEMMA NextDayStep ==
  ASSUME SqlInv, NextDay
  PROVE  SqlInv'
<1>1. today' \in Days /\ UNCHANGED <<held, rows, pc, call, tx, reply, answers>>
  BY DaysAssumption DEF NextDay, SqlInv, SqlTypeOK
<1>2. \A v \in Writers : Called(v)' /\ View(v)'
  BY <1>1, Waiting DEF SqlInv
<1> QED
  BY <1>1, <1>2 DEF SqlInv, SqlTypeOK, TypeOK, OneTransaction, TwoAccounts, Proven, Proves,
                    OneWinner, InTx

LEMMA CrashStep ==
  ASSUME SqlInv, Crash
  PROVE  SqlInv'
<1>1. /\ \A w \in Writers : pc'[w] = "idle" /\ call'[w] = NoCall
      /\ UNCHANGED <<held, rows, today, answers>>
  BY DEF Crash
<1>2. SqlTypeOK'
  BY DEF SqlInv, SqlTypeOK, TypeOK, Crash, Replies
<1>3. \A w \in Writers : Called(w)' /\ View(w)' /\ ~ InTx(w)'
  BY <1>1 DEF Called, View, ViewOfRows, ViewOfTotals, InTx, NoCall
<1> QED
  BY <1>1, <1>2, <1>3 DEF SqlInv, OneTransaction, TwoAccounts, Proven, Proves, OneWinner

(***************************************************************************)
(* The theorems.                                                           *)
(***************************************************************************)
LEMMA SqlInitially == SqlInit => SqlInv
<1> SUFFICES ASSUME SqlInit PROVE SqlInv
  OBVIOUS
<1>1. SqlTypeOK
  BY MicrosAssumption, DaysAssumption DEF SqlInit, Init, SqlTypeOK, TypeOK, Replies
<1>2. \A w \in Writers : Called(w) /\ View(w) /\ ~ InTx(w)
  BY DEF SqlInit, Called, View, ViewOfRows, ViewOfTotals, InTx, NoCall
<1> QED
  BY <1>1, <1>2 DEF SqlInit, Init, SqlInv, OneTransaction, TwoAccounts, Proven, OneWinner

LEMMA SqlInvStep == SqlInv /\ [SqlNext]_sqlVars => SqlInv'
<1> SUFFICES ASSUME SqlInv, [SqlNext]_sqlVars
             PROVE  SqlInv'
  OBVIOUS
<1>1. CASE UNCHANGED sqlVars
  <2>1. \A v \in Writers : Called(v)' /\ View(v)'
    BY <1>1, Waiting DEF SqlInv, sqlVars
  <2> QED
    BY <1>1, <2>1 DEF SqlInv, SqlTypeOK, TypeOK, OneTransaction, TwoAccounts, Proven, Proves,
                      OneWinner, InTx, sqlVars
<1>2. ASSUME NEW w \in Writers, Calls(w)
      PROVE  SqlInv'
  BY <1>2, CallReserveStep, CallSettleStep DEF Calls
<1>3. ASSUME NEW w \in Writers, Progress(w)
      PROVE  SqlInv'
  BY <1>3, ConnectionStep, BeginStep, InsertStep, FindStep, TenantStep, UserStep, CloseStep,
     CommitStep, ReturnStep DEF Progress
<1> QED
  BY <1>1, <1>2, <1>3, NextDayStep, CrashStep DEF SqlNext

(* Whatever the interleaving of writers, failed statements, timeouts and   *)
(* crashes, a transaction's view is the tables and its own statements.     *)
THEOREM ViewsAreExact == SqlSpec => []SqlInv
BY SqlInitially, SqlInvStep, PTL DEF SqlSpec

(* Tables, transactions, calls and answers keep their types.               *)
THEOREM SqlTypes == SqlSpec => []SqlTypeOK
<1>1. SqlInv => SqlTypeOK
  BY DEF SqlInv
<1> QED
  BY <1>1, ViewsAreExact, PTL

(* Of all callers that ever reserve a request id, and of all that ever     *)
(* settle it, one at most is told Ok, and the row is there to prove it.    *)
THEOREM OneCallerWins == SqlSpec => []OneWinner
<1>1. SqlInv => OneWinner
  BY DEF SqlInv
<1> QED
  BY <1>1, ViewsAreExact, PTL

(* The transactions implement the ledger: a commit is a whole reservation  *)
(* or a whole settlement, and no other step touches the tables             *)
(* (src/repository.rs: "Both account updates and the request record commit *)
(* or roll back together").                                                *)
THEOREM TransactionsKeepThePromise == SqlSpec => ImplementsLedger
<1>1. SqlInit => Init
  BY DEF SqlInit
<1>2. SqlInv /\ [SqlNext]_sqlVars => [Next]_vars
  <2> SUFFICES ASSUME SqlInv, SqlNext PROVE [Next]_vars
    BY DEF sqlVars, vars
  <2>1. ASSUME NEW w \in Writers, Commit(w) PROVE Next
    BY <2>1, CommitIsLedgerStep
  <2>2. ASSUME NEW w \in Writers, Calls(w) \/ (Progress(w) /\ ~ Commit(w)) PROVE UNCHANGED vars
    BY <2>2 DEF Calls, CallReserve, CallSettle, Progress, GetConn, PoolTimeout, Begin, BusyTimeout,
                InsertRequest, FindRequest, UpdateTenant, UpdateUser, UpdateAccount, CloseRequest,
                Fail, Return, vars
  <2>3. CASE NextDay \/ Crash
    BY <2>3 DEF NextDay, Crash, vars
  <2> QED
    BY <2>1, <2>2, <2>3 DEF SqlNext
<1> QED
  BY <1>1, <1>2, ViewsAreExact, PTL DEF SqlSpec, ImplementsLedger, Spec

(* So the committed tables balance: every account holds exactly what its   *)
(* rows account for, and passes its limits only by excess charges.         *)
THEOREM CommittedTablesBalance == SqlSpec => [](Conservation /\ BudgetCap)
BY TransactionsKeepThePromise, ConservationHolds, BudgetCapHolds, PTL DEF ImplementsLedger

(* And the rows are final, whatever the writers race for.                  *)
THEOREM CommittedRowsAreFinal == SqlSpec => RowsAreFinal /\ RefundBySettlementOnly
BY TransactionsKeepThePromise, RowsAreFinalHolds, RefundBySettlementOnlyHolds, PTL
   DEF ImplementsLedger
=============================================================================
