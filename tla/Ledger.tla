------------------------------- MODULE Ledger -------------------------------
(***************************************************************************)
(* What the gateway's budget store promises (src/repository.rs, reserve    *)
(* and settle): each call takes effect at one instant, completely or not   *)
(* at all.  Two running totals, one for the tenant and one for the user of *)
(* the day on which the reservation was made, bound what requests may      *)
(* spend; a request row remembers what it put into them.                   *)
(*                                                                         *)
(* SqliteLedger shows that the transactions of the code keep this promise; *)
(* Turns uses it as the store below the inference pipeline.                *)
(***************************************************************************)
EXTENDS Integers, FiniteSets, Functions

CONSTANTS
  Requests,     \* keys of table requests: hashes of [identity, request_id]
  Tenants,      \* [issuer, tenant] pairs
  Users,        \* [issuer, tenant, subject] triples
  TenantOf,     \* the first two components of a user
  Days,         \* UTC dates
  Amounts,      \* what callers may ask to reserve, in micros
  Charges,      \* what callers may ask to settle at, in micros
  LimitsOf,     \* the daily limits the policy may hold for an owner
  MaxMicros     \* the largest i64

ASSUME RequestsAssumption == IsFiniteSet(Requests)
ASSUME OwnersAssumption ==
  /\ Tenants \cap Users = {}
  /\ TenantOf \in [Users -> Tenants]
ASSUME MicrosAssumption ==
  /\ MaxMicros \in Nat
  /\ Amounts \subseteq Int /\ Charges \subseteq Int
  /\ \A n \in Amounts \cup Charges : n <= MaxMicros
ASSUME LimitsAssumption ==
  LimitsOf \in [Tenants \cup Users -> (SUBSET Nat) \ {{}}]

VARIABLES
  held,         \* accounts.held_micros; an account without a row holds 0
  rows          \* table requests

vars == <<held, rows>>

-----------------------------------------------------------------------------
Owners == Tenants \cup Users
Accounts == Owners \X Days

(* The two keys reserve derives from the session and the day.              *)
TenantAccount(u, d) == <<TenantOf[u], d>>
UserAccount(u, d) == <<u, d>>

Row == [tenant      : Accounts,
        user        : Accounts,
        reservation : 1..MaxMicros,
        charged     : 0..MaxMicros,
        status      : {"pending", "settled"}]

NoRow == [status |-> "none"]

AccountsOf(row) == {row.tenant, row.user}

(* What a request row contributes to account a.                            *)
Weight(row, a) ==
  IF row.status = "none" \/ a \notin AccountsOf(row) THEN 0
  ELSE IF row.status = "pending" THEN row.reservation ELSE row.charged

(* By how much a settled row went over what it had reserved.               *)
Excess(row, a) ==
  IF row.status = "settled" /\ a \in AccountsOf(row)
     /\ row.charged > row.reservation
  THEN row.charged - row.reservation ELSE 0

TotalWeight(a) == SumFunctionOnSet([r \in Requests |-> Weight(rows[r], a)], Requests)
TotalExcess(a) == SumFunctionOnSet([r \in Requests |-> Excess(rows[r], a)], Requests)

-----------------------------------------------------------------------------
Init ==
  /\ held = [a \in Accounts |-> 0]
  /\ rows = [r \in Requests |-> NoRow]

(* A fault: the limit is tested before the amount is added.                *)
FitsBefore(a, amount, limit) == held[a] <= limit

(* checked_add and the limit test of reserve, for one account.             *)
Fits(a, amount, limit) ==
  /\ held[a] + amount <= MaxMicros
  /\ held[a] + amount <= limit

(* A fault: a request id may be reserved again.                            *)
ReserveAgain(r, u, d, amount, tenantLimit, userLimit) ==
  LET t == TenantAccount(u, d)
      a == UserAccount(u, d)
  IN /\ amount > 0
     /\ Fits(t, amount, tenantLimit) /\ Fits(a, amount, userLimit)
     /\ held' = [held EXCEPT ![t] = @ + amount, ![a] = @ + amount]
     /\ rows' = [rows EXCEPT ![r] = [tenant |-> t, user |-> a,
                                     reservation |-> amount, charged |-> 0,
                                     status |-> "pending"]]

(* A reservation that succeeds.  Every refusal leaves the store unchanged. *)
Reserve(r, u, d, amount, tenantLimit, userLimit) ==
  LET t == TenantAccount(u, d)
      a == UserAccount(u, d)
  IN /\ amount > 0
     /\ rows[r] = NoRow
     /\ Fits(t, amount, tenantLimit)
     /\ Fits(a, amount, userLimit)
     /\ held' = [held EXCEPT ![t] = @ + amount, ![a] = @ + amount]
     /\ rows' = [rows EXCEPT ![r] = [tenant |-> t, user |-> a,
                                     reservation |-> amount, charged |-> 0,
                                     status |-> "pending"]]

(* Faults: the reservation is not given back, the totals are not checked,  *)
(* the row stays pending.                                                  *)
SettleWithoutRefund(r, charge) ==
  /\ charge >= 0
  /\ rows[r].status = "pending"
  /\ \A a \in AccountsOf(rows[r]) : held[a] + charge <= MaxMicros
  /\ held' = [a \in Accounts |-> held[a] + IF a \in AccountsOf(rows[r]) THEN charge ELSE 0]
  /\ rows' = [rows EXCEPT ![r].charged = charge, ![r].status = "settled"]

SettleUnchecked(r, charge) ==
  /\ charge >= 0
  /\ rows[r].status = "pending"
  /\ held' = [a \in Accounts |-> held[a] +
        IF a \in AccountsOf(rows[r]) THEN charge - rows[r].reservation ELSE 0]
  /\ rows' = [rows EXCEPT ![r].charged = charge, ![r].status = "settled"]

SettleLeavesPending(r, charge) ==
  /\ charge >= 0
  /\ rows[r].status = "pending"
  /\ \A a \in AccountsOf(rows[r]) : held[a] - rows[r].reservation + charge \in 0..MaxMicros
  /\ held' = [a \in Accounts |-> held[a] +
        IF a \in AccountsOf(rows[r]) THEN charge - rows[r].reservation ELSE 0]
  /\ rows' = [rows EXCEPT ![r].charged = charge]

(* A settlement that succeeds: the reservation is replaced by the charge.  *)
Settle(r, charge) ==
  LET row == rows[r]
      next(a) == held[a] - row.reservation + charge
  IN /\ charge >= 0
     /\ row.status = "pending"
     /\ \A a \in AccountsOf(row) : next(a) \in 0..MaxMicros
     /\ held' = [a \in Accounts |-> IF a \in AccountsOf(row) THEN next(a) ELSE held[a]]
     /\ rows' = [rows EXCEPT ![r].charged = charge, ![r].status = "settled"]

Next ==
  \/ \E r \in Requests, u \in Users, d \in Days, amount \in Amounts :
       \E tl \in LimitsOf[TenantOf[u]], ul \in LimitsOf[u] :
         Reserve(r, u, d, amount, tl, ul)
  \/ \E r \in Requests, charge \in Charges : Settle(r, charge)

Spec == Init /\ [][Next]_vars

-----------------------------------------------------------------------------
TypeOK ==
  /\ held \in [Accounts -> 0..MaxMicros]
  /\ rows \in [Requests -> Row \cup {NoRow}]

(* An account holds exactly what the rows charged to it account for: the   *)
(* reservation of a pending row, the charge of a settled one.  No sequence *)
(* of reservations and settlements, whatever their days and amounts, loses *)
(* or invents a micro (src/repository.rs, reserve and settle).             *)
Conservation == \A a \in Accounts : held[a] = TotalWeight(a)

(* Spending passes a limit of the account only by what providers charged   *)
(* above their reservations (README: "A known charge above the reserve is  *)
(* recorded in full and blocks future spending if it exhausts the limit"). *)
BudgetCap ==
  \A a \in Accounts : \E limit \in LimitsOf[a[1]] : held[a] <= limit + TotalExcess(a)

(* Only a settlement gives budget back, and only its own reservation: an   *)
(* account falls in a step only if a row on it leaves pending in that step *)
(* (SECURITY.md: uncertain accounting retains the reservation).            *)
RefundBySettlementOnly ==
  [][\A a \in Accounts : held'[a] < held[a] =>
       \E r \in Requests :
         /\ rows[r].status = "pending" /\ rows'[r].status = "settled"
         /\ a \in AccountsOf(rows[r])
         /\ held[a] - held'[a] <= rows[r].reservation]_vars

(* A request id is spent for good: its row is never removed or rewritten,  *)
(* except that a pending row settles, once (README: "Known costs settle    *)
(* once; a second settlement is rejected").                                *)
RowsAreFinal ==
  [][\A r \in Requests : rows[r] # NoRow /\ rows'[r] # rows[r] =>
       /\ rows[r].status = "pending" /\ rows'[r].status = "settled"
       /\ AccountsOf(rows'[r]) = AccountsOf(rows[r])
       /\ rows'[r].reservation = rows[r].reservation]_vars
=============================================================================
