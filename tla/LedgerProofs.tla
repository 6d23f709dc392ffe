---------------------------- MODULE LedgerProofs ----------------------------
(* Theorems about the ledger's promise, for every set of requests, owners, *)
(* days, amounts and limits.                                               *)
EXTENDS Ledger, SumTheorems, TLAPS

(***************************************************************************)
(* Helper facts: the accounts of a user, weights and excesses.             *)
(***************************************************************************)
LEMMA AccountTypes ==
  ASSUME NEW u \in Users, NEW d \in Days
  PROVE  /\ TenantAccount(u, d) \in Accounts /\ UserAccount(u, d) \in Accounts
         /\ TenantAccount(u, d) # UserAccount(u, d)
BY OwnersAssumption DEF TenantAccount, UserAccount, Accounts, Owners

LEMMA WeightType ==
  ASSUME TypeOK, NEW r \in Requests, NEW a \in Accounts
  PROVE  /\ Weight(rows[r], a) \in Nat
         /\ Excess(rows[r], a) \in Nat
BY MicrosAssumption DEF TypeOK, Row, NoRow, Weight, Excess

LEMMA WeightTypeNext ==
  ASSUME TypeOK', NEW r \in Requests, NEW a \in Accounts
  PROVE  /\ Weight(rows'[r], a) \in Nat
         /\ Excess(rows'[r], a) \in Nat
BY MicrosAssumption DEF TypeOK, Row, NoRow, Weight, Excess

(* The next row of a successful reservation.                               *)
LEMMA ReserveRow ==
  ASSUME TypeOK, NEW r \in Requests, NEW u \in Users, NEW d \in Days,
         NEW amount \in Amounts, NEW tl, NEW ul, Reserve(r, u, d, amount, tl, ul)
  PROVE  /\ rows'[r] \in Row /\ rows'[r].status = "pending"
         /\ rows'[r].reservation = amount
         /\ rows'[r].tenant = TenantAccount(u, d)
         /\ rows'[r].user = UserAccount(u, d)
         /\ \A q \in Requests \ {r} : rows'[q] = rows[q]
         /\ rows' \in [Requests -> Row \cup {NoRow}]
BY AccountTypes, MicrosAssumption DEF Reserve, TypeOK, Row

(* The next row of a successful settlement.                                *)
LEMMA SettleRow ==
  ASSUME TypeOK, NEW r \in Requests, NEW charge \in Charges, Settle(r, charge)
  PROVE  /\ rows[r] \in Row /\ rows'[r] \in Row
         /\ rows[r].status = "pending" /\ rows'[r].status = "settled"
         /\ rows'[r].charged = charge
         /\ rows'[r].reservation = rows[r].reservation
         /\ rows'[r].tenant = rows[r].tenant
         /\ rows'[r].user = rows[r].user
         /\ \A q \in Requests \ {r} : rows'[q] = rows[q]
         /\ rows' \in [Requests -> Row \cup {NoRow}]
BY MicrosAssumption DEF Settle, TypeOK, Row, NoRow

(***************************************************************************)
(* Type correctness.                                                       *)
(***************************************************************************)

LEMMA TypingStep ==
  ASSUME TypeOK, [Next]_vars
  PROVE  TypeOK'
<1>1. CASE UNCHANGED vars
  BY <1>1 DEF TypeOK, vars
<1>2. ASSUME NEW r \in Requests, NEW u \in Users, NEW d \in Days, NEW amount \in Amounts,
             NEW tl, NEW ul, Reserve(r, u, d, amount, tl, ul)
      PROVE  TypeOK'
  <2>1. held' \in [Accounts -> 0..MaxMicros]
    BY <1>2, AccountTypes, MicrosAssumption DEF Reserve, TypeOK, Fits
  <2> QED
    BY <1>2, <2>1, ReserveRow DEF TypeOK
<1>3. ASSUME NEW r \in Requests, NEW charge \in Charges, Settle(r, charge)
      PROVE  TypeOK'
  <2>1. held' \in [Accounts -> 0..MaxMicros]
    BY <1>3 DEF Settle, TypeOK
  <2> QED
    BY <1>3, <2>1, SettleRow DEF TypeOK
<1> QED
  BY <1>1, <1>2, <1>3 DEF Next

(* Totals stay between zero and the largest i64 and rows keep the shape    *)
(* the schema gives them (migrations/.../up.sql, CHECK held_micros >= 0).  *)
THEOREM Typing == Spec => []TypeOK
<1>1. Init => TypeOK
  BY MicrosAssumption DEF Init, TypeOK
<1>2. TypeOK /\ [Next]_vars => TypeOK'
  BY TypingStep
<1> QED
  BY <1>1, <1>2, PTL DEF Spec

(***************************************************************************)
(* Conservation.                                                           *)
(***************************************************************************)
Weights(a) == [r \in Requests |-> Weight(rows[r], a)]
Excesses(a) == [r \in Requests |-> Excess(rows[r], a)]

LEMMA StepSums ==
  ASSUME TypeOK, TypeOK', NEW r \in Requests, NEW a \in Accounts,
         \A q \in Requests \ {r} : rows'[q] = rows[q]
  PROVE  /\ TotalWeight(a) \in Int /\ TotalExcess(a) \in Int
         /\ TotalWeight(a)' = TotalWeight(a) - Weight(rows[r], a) + Weight(rows'[r], a)
         /\ TotalExcess(a)' = TotalExcess(a) - Excess(rows[r], a) + Excess(rows'[r], a)
<1>1. Weights(a) \in [Requests -> Int] /\ Excesses(a) \in [Requests -> Int]
  BY WeightType DEF Weights, Excesses
<1>2. Weights(a)' \in [Requests -> Int] /\ Excesses(a)' \in [Requests -> Int]
  <2>1. \A q \in Requests : Weight(rows[q], a)' \in Nat /\ Excess(rows[q], a)' \in Nat
    BY MicrosAssumption DEF TypeOK, Row, NoRow, Weight, Excess
  <2> QED
    BY <2>1 DEF Weights, Excesses
<1>3. \A q \in Requests \ {r} : Weights(a)[q] = (Weights(a)')[q] /\ Excesses(a)[q] = (Excesses(a)')[q]
  BY DEF Weights, Excesses, Weight, Excess
<1>4. /\ SumFunctionOnSet(Weights(a)', Requests)
           = SumFunctionOnSet(Weights(a), Requests) - Weights(a)[r] + (Weights(a)')[r]
      /\ SumFunctionOnSet(Excesses(a)', Requests)
           = SumFunctionOnSet(Excesses(a), Requests) - Excesses(a)[r] + (Excesses(a)')[r]
  <2> HIDE DEF Weights, Excesses
  <2> QED
    BY <1>1, <1>2, <1>3, RequestsAssumption, SumUpdate
<1>5. SumFunctionOnSet(Weights(a), Requests) \in Int /\ SumFunctionOnSet(Excesses(a), Requests) \in Int
  BY <1>1, RequestsAssumption, SumInt
<1> QED
  BY <1>4, <1>5 DEF Weights, Excesses, TotalWeight, TotalExcess, Weight, Excess

(* How one step changes an account: by exactly the change of the weight of *)
(* the row it touches.                                                     *)
LEMMA ReserveHeld ==
  ASSUME TypeOK, NEW r \in Requests, NEW u \in Users, NEW d \in Days,
         NEW amount \in Amounts, NEW tl, NEW ul, Reserve(r, u, d, amount, tl, ul),
         NEW a \in Accounts
  PROVE  held'[a] = held[a] - Weight(rows[r], a) + Weight(rows'[r], a)
<1>1. Weight(rows[r], a) = 0
  BY DEF Reserve, Weight, NoRow
<1>2. Weight(rows'[r], a)
        = IF a \in {TenantAccount(u, d), UserAccount(u, d)} THEN amount ELSE 0
  BY ReserveRow DEF Weight, AccountsOf
<1>3. held'[a] = IF a \in {TenantAccount(u, d), UserAccount(u, d)}
                 THEN held[a] + amount ELSE held[a]
  BY AccountTypes DEF Reserve, TypeOK
<1>4. amount \in Int /\ held[a] \in Int
  BY MicrosAssumption DEF TypeOK
<1> QED
  BY <1>1, <1>2, <1>3, <1>4

LEMMA SettleHeld ==
  ASSUME TypeOK, NEW r \in Requests, NEW charge \in Charges, Settle(r, charge),
         NEW a \in Accounts
  PROVE  held'[a] = held[a] - Weight(rows[r], a) + Weight(rows'[r], a)
<1>1. AccountsOf(rows'[r]) = AccountsOf(rows[r])
  BY SettleRow DEF AccountsOf
<1>2. held'[a] = IF a \in AccountsOf(rows[r])
                 THEN held[a] - rows[r].reservation + charge ELSE held[a]
  BY DEF Settle
<1>3. /\ Weight(rows[r], a) = IF a \in AccountsOf(rows[r]) THEN rows[r].reservation ELSE 0
      /\ Weight(rows'[r], a) = IF a \in AccountsOf(rows[r]) THEN charge ELSE 0
  BY <1>1, SettleRow DEF Weight
<1>4. charge \in Int /\ held[a] \in Int /\ rows[r].reservation \in Int
  BY SettleRow, MicrosAssumption DEF TypeOK, Row
<1> QED
  BY <1>2, <1>3, <1>4

LEMMA StepHeld ==
  ASSUME TypeOK, Next
  PROVE  \E r \in Requests :
           /\ \A q \in Requests \ {r} : rows'[q] = rows[q]
           /\ \A a \in Accounts :
                held'[a] = held[a] - Weight(rows[r], a) + Weight(rows'[r], a)
<1>1. CASE \E r \in Requests, u \in Users, d \in Days, amount \in Amounts :
             \E tl \in LimitsOf[TenantOf[u]], ul \in LimitsOf[u] :
               Reserve(r, u, d, amount, tl, ul)
  BY <1>1, ReserveHeld, ReserveRow
<1>2. CASE \E r \in Requests, charge \in Charges : Settle(r, charge)
  BY <1>2, SettleHeld, SettleRow
<1> QED
  BY <1>1, <1>2 DEF Next

LEMMA StutterSums ==
  ASSUME UNCHANGED vars, NEW a \in Accounts
  PROVE  TotalWeight(a)' = TotalWeight(a) /\ TotalExcess(a)' = TotalExcess(a)
BY DEF vars, TotalWeight, TotalExcess, Weight, Excess

LEMMA InitSums ==
  ASSUME Init, NEW a \in Accounts
  PROVE  TotalWeight(a) = 0 /\ TotalExcess(a) = 0
<1>1. \A r \in Requests : Weights(a)[r] = 0 /\ Excesses(a)[r] = 0
  BY DEF Init, Weights, Excesses, Weight, Excess, NoRow
<1>2. SumFunctionOnSet(Weights(a), Requests) = 0 /\ SumFunctionOnSet(Excesses(a), Requests) = 0
  <2> HIDE DEF Weights, Excesses
  <2> QED
    BY <1>1, RequestsAssumption, SumZero
<1> QED
  BY <1>2 DEF TotalWeight, TotalExcess, Weights, Excesses

(* Every account holds exactly what its rows account for.                  *)
THEOREM ConservationHolds == Spec => []Conservation
<1>1. Init => Conservation
  BY InitSums DEF Init, Conservation
<1>2. TypeOK /\ TypeOK' /\ Conservation /\ [Next]_vars => Conservation'
  <2> SUFFICES ASSUME TypeOK, TypeOK', Conservation, [Next]_vars, NEW a \in Accounts
               PROVE  held'[a] = TotalWeight(a)'
    BY DEF Conservation
  <2>1. CASE UNCHANGED vars
    BY <2>1, StutterSums DEF Conservation, vars
  <2>2. CASE Next
    <3>1. PICK r \in Requests :
            /\ \A q \in Requests \ {r} : rows'[q] = rows[q]
            /\ \A b \in Accounts :
                 held'[b] = held[b] - Weight(rows[r], b) + Weight(rows'[r], b)
      BY <2>2, StepHeld
    <3>2. TotalWeight(a)' = TotalWeight(a) - Weight(rows[r], a) + Weight(rows'[r], a)
      BY <3>1, StepSums
    <3> QED
      BY <3>1, <3>2 DEF Conservation
  <2> QED
    BY <2>1, <2>2
<1> QED
  BY <1>1, <1>2, Typing, PTL DEF Spec

(***************************************************************************)
(* The budget cap.                                                         *)
(***************************************************************************)

LEMMA ExcessNonNegative ==
  ASSUME TypeOK, NEW a \in Accounts
  PROVE  TotalExcess(a) \in Nat
<1>1. Excesses(a) \in [Requests -> Nat]
  BY WeightType DEF Excesses
<1>2. SumFunctionOnSet(Excesses(a), Requests) \in Nat
  <2> HIDE DEF Excesses
  <2> QED
    BY <1>1, RequestsAssumption, SumNat
<1> QED
  BY <1>2 DEF TotalExcess, Excesses

(* A pending row grows its account past a limit only by its excess.        *)
LEMMA SettleExcess ==
  ASSUME TypeOK, TypeOK', NEW r \in Requests, NEW charge \in Charges, Settle(r, charge),
         NEW a \in Accounts
  PROVE  Weight(rows'[r], a) - Weight(rows[r], a) <= Excess(rows'[r], a) - Excess(rows[r], a)
<1>1. AccountsOf(rows'[r]) = AccountsOf(rows[r])
  BY SettleRow DEF AccountsOf
<1>2. rows[r].reservation \in Int /\ charge \in Int
  BY SettleRow, MicrosAssumption DEF Row
<1> QED
  BY <1>1, <1>2, SettleRow DEF Weight, Excess

(* No account passes the limit in force by more than its excess charges.   *)
THEOREM BudgetCapHolds == Spec => []BudgetCap
<1>1. Init => BudgetCap
  <2> SUFFICES ASSUME Init, NEW a \in Accounts
               PROVE  \E limit \in LimitsOf[a[1]] : held[a] <= limit + TotalExcess(a)
    BY DEF BudgetCap
  <2>1. PICK limit \in LimitsOf[a[1]] : limit \in Nat
    BY LimitsAssumption DEF Accounts, Owners
  <2>2. held[a] = 0 /\ TotalExcess(a) = 0
    BY InitSums DEF Init
  <2> QED
    BY <2>1, <2>2
<1>2. TypeOK /\ TypeOK' /\ BudgetCap /\ [Next]_vars => BudgetCap'
  <2> SUFFICES ASSUME TypeOK, TypeOK', BudgetCap, [Next]_vars, NEW a \in Accounts
               PROVE  \E limit \in LimitsOf[a[1]] : held'[a] <= limit + TotalExcess(a)'
    BY DEF BudgetCap
  <2>0. PICK old \in LimitsOf[a[1]] : held[a] <= old + TotalExcess(a)
    BY DEF BudgetCap
  <2>a. old \in Nat /\ held[a] \in Nat /\ held'[a] \in Nat
    BY LimitsAssumption, MicrosAssumption DEF Accounts, Owners, TypeOK
  <2>1. CASE UNCHANGED vars
    BY <2>0, <2>1, StutterSums DEF vars
  <2>2. ASSUME NEW r \in Requests, NEW u \in Users, NEW d \in Days, NEW amount \in Amounts,
               NEW tl \in LimitsOf[TenantOf[u]], NEW ul \in LimitsOf[u],
               Reserve(r, u, d, amount, tl, ul)
        PROVE  \E limit \in LimitsOf[a[1]] : held'[a] <= limit + TotalExcess(a)'
    <3>1. \A q \in Requests \ {r} : rows'[q] = rows[q]
      BY <2>2, ReserveRow
    <3>2. TotalExcess(a)' = TotalExcess(a) /\ TotalExcess(a) \in Int
      <4>1. Excess(rows[r], a) = 0 /\ Excess(rows'[r], a) = 0
        BY <2>2, ReserveRow DEF Reserve, Excess, NoRow
      <4> QED
        BY <3>1, <4>1, StepSums
    <3>3. TotalExcess(a) >= 0
      BY ExcessNonNegative
    <3>4. CASE a = TenantAccount(u, d)
      <4>1. held'[a] = held[a] + amount /\ held[a] + amount <= tl
        BY <2>2, <3>4, AccountTypes DEF Reserve, Fits, TypeOK
      <4>2. tl \in LimitsOf[a[1]] /\ tl \in Nat
        BY <3>4, LimitsAssumption, OwnersAssumption DEF TenantAccount, Owners
      <4> QED
        BY <2>a, <3>2, <3>3, <4>1, <4>2
    <3>5. CASE a = UserAccount(u, d)
      <4>1. held'[a] = held[a] + amount /\ held[a] + amount <= ul
        BY <2>2, <3>5, AccountTypes DEF Reserve, Fits, TypeOK
      <4>2. ul \in LimitsOf[a[1]] /\ ul \in Nat
        BY <3>5, LimitsAssumption, OwnersAssumption DEF UserAccount, Owners
      <4> QED
        BY <2>a, <3>2, <3>3, <4>1, <4>2
    <3>6. CASE a # TenantAccount(u, d) /\ a # UserAccount(u, d)
      BY <2>2, <2>0, <3>2, <3>6 DEF Reserve, TypeOK
    <3> QED
      BY <3>4, <3>5, <3>6
  <2>3. ASSUME NEW r \in Requests, NEW charge \in Charges, Settle(r, charge)
        PROVE  \E limit \in LimitsOf[a[1]] : held'[a] <= limit + TotalExcess(a)'
    <3>1. \A q \in Requests \ {r} : rows'[q] = rows[q]
      BY <2>3, SettleRow
    <3>2. /\ TotalExcess(a)' = TotalExcess(a) - Excess(rows[r], a) + Excess(rows'[r], a)
          /\ TotalExcess(a) \in Int
      BY <3>1, StepSums
    <3>3. held'[a] = held[a] - Weight(rows[r], a) + Weight(rows'[r], a)
      BY <2>3, SettleHeld
    <3>4. Weight(rows'[r], a) - Weight(rows[r], a) <= Excess(rows'[r], a) - Excess(rows[r], a)
      BY <2>3, SettleExcess
    <3>5. /\ Weight(rows[r], a) \in Int /\ Weight(rows'[r], a) \in Int
          /\ Excess(rows[r], a) \in Int /\ Excess(rows'[r], a) \in Int
      BY WeightType, WeightTypeNext
    <3> QED
      BY <2>0, <2>a, <3>2, <3>3, <3>4, <3>5
  <2> QED
    BY <2>1, <2>2, <2>3 DEF Next
<1> QED
  BY <1>1, <1>2, Typing, PTL DEF Spec

(***************************************************************************)
(* What a step may never do.                                               *)
(***************************************************************************)

(* A request id is spent for good, and its row changes once at most.       *)
THEOREM RowsAreFinalHolds == Spec => RowsAreFinal
<1> DEFINE Final == \A r \in Requests : rows[r] # NoRow /\ rows'[r] # rows[r] =>
               /\ rows[r].status = "pending" /\ rows'[r].status = "settled"
               /\ AccountsOf(rows'[r]) = AccountsOf(rows[r])
               /\ rows'[r].reservation = rows[r].reservation
<1>1. TypeOK /\ [Next]_vars => [Final]_vars
  <2> SUFFICES ASSUME TypeOK, Next PROVE Final
    OBVIOUS
  <2>1. ASSUME NEW r \in Requests, NEW u \in Users, NEW d \in Days, NEW amount \in Amounts,
               NEW tl, NEW ul, Reserve(r, u, d, amount, tl, ul)
        PROVE  Final
    <3>1. rows[r] = NoRow
      BY <2>1 DEF Reserve
    <3>2. \A q \in Requests \ {r} : rows'[q] = rows[q]
      BY <2>1, ReserveRow
    <3> QED
      BY <3>1, <3>2
  <2>2. ASSUME NEW r \in Requests, NEW charge \in Charges, Settle(r, charge)
        PROVE  Final
    BY <2>2, SettleRow DEF AccountsOf
  <2> QED
    BY <2>1, <2>2 DEF Next
<1> QED
  BY <1>1, Typing, PTL DEF Spec, RowsAreFinal

(* Budget comes back only when a pending row on the account settles, and   *)
(* never more of it than that row reserved.                                *)
THEOREM RefundBySettlementOnlyHolds == Spec => RefundBySettlementOnly
<1> DEFINE Refund == \A a \in Accounts : held'[a] < held[a] =>
               \E r \in Requests :
                 /\ rows[r].status = "pending" /\ rows'[r].status = "settled"
                 /\ a \in AccountsOf(rows[r])
                 /\ held[a] - held'[a] <= rows[r].reservation
<1>1. TypeOK /\ [Next]_vars => [Refund]_vars
  <2> SUFFICES ASSUME TypeOK, Next, NEW a \in Accounts, held'[a] < held[a]
               PROVE  \E r \in Requests :
                        /\ rows[r].status = "pending" /\ rows'[r].status = "settled"
                        /\ a \in AccountsOf(rows[r])
                        /\ held[a] - held'[a] <= rows[r].reservation
    OBVIOUS
  <2>0. held[a] \in Int
    BY DEF TypeOK
  <2>1. ASSUME NEW r \in Requests, NEW u \in Users, NEW d \in Days, NEW amount \in Amounts,
               NEW tl, NEW ul, Reserve(r, u, d, amount, tl, ul)
        PROVE  FALSE
    <3>1. held'[a] = held[a] \/ held'[a] = held[a] + amount
      BY <2>1, AccountTypes DEF Reserve, TypeOK
    <3> QED
      BY <2>0, <2>1, <3>1, MicrosAssumption DEF Reserve
  <2>2. ASSUME NEW r \in Requests, NEW charge \in Charges, Settle(r, charge)
        PROVE  /\ rows[r].status = "pending" /\ rows'[r].status = "settled"
               /\ a \in AccountsOf(rows[r])
               /\ held[a] - held'[a] <= rows[r].reservation
    <3>1. a \in AccountsOf(rows[r]) /\ held'[a] = held[a] - rows[r].reservation + charge
      BY <2>0, <2>2 DEF Settle
    <3>2. charge \in Int /\ charge >= 0
      BY <2>2, MicrosAssumption DEF Settle
    <3>3. rows[r].reservation \in Int
      BY <2>2, SettleRow, MicrosAssumption DEF Row
    <3> QED
      BY <2>0, <2>2, <3>1, <3>2, <3>3, SettleRow
  <2> QED
    BY <2>1, <2>2 DEF Next
<1> QED
  BY <1>1, Typing, PTL DEF Spec, RefundBySettlementOnly
=============================================================================
