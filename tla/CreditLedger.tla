---------------------------- MODULE CreditLedger ----------------------------
(***************************************************************************)
(* The call credits of a workspace: the columns credit_balance and         *)
(* lifetime_credits of its one row of tenant_plans, and the three writers  *)
(* of that row.                                                            *)
(*                                                                         *)
(*  - an inbound call takes one credit: deduct_credit, one guarded UPDATE  *)
(*    (src/src/handlers/telnyx_handler.rs);                                *)
(*  - the operator grants credits: add_credits, a SELECT of the balance    *)
(*    and then an UPDATE that writes back an absolute number, with nothing *)
(*    holding the row in between (src/src/handlers/admin_handler.rs);      *)
(*  - a plan is seated on the workspace: seat_plan_for_tenant, an upsert   *)
(*    that never touches the two columns (src/src/handlers/               *)
(*    plans_handler.rs).                                                   *)
(*                                                                         *)
(* Every statement commits on its own, so one statement is one action.     *)
(***************************************************************************)
EXTENDS Integers

CONSTANTS
  Tenants,         \* workspaces
  Grants,          \* slots for add_credits requests being served at once
  Amounts,         \* the amounts an operator may grant
  StarterCredits,  \* what create_account seats a new workspace with (50)
  MaxInt,          \* the largest value of a Postgres INTEGER
  NoGrant          \* a slot that serves no request

GrantRequest ==
  [tenant : Tenants, amount : Amounts, found : BOOLEAN,
   seen : 0..MaxInt, overlapped : BOOLEAN]

ASSUME WidthAssumption   == MaxInt \in Nat
ASSUME StarterAssumption == StarterCredits \in 0..MaxInt
ASSUME AmountAssumption  == Amounts \subseteq 1..MaxInt
ASSUME NoGrantAssumption == NoGrant \notin GrantRequest

VARIABLES
  planRow,    \* the workspaces that have a row in tenant_plans
  balance,    \* tenant_plans.credit_balance (0 where there is no row)
  lifetime,   \* tenant_plans.lifetime_credits (0 where there is no row)
  grant,      \* what each add_credits request in flight has read
  \* history, for the properties only
  granted,    \* credits ever put on the row, the starter credits included
  spent,      \* credits ever taken by a call
  drifted     \* workspaces one of whose grants wrote over another write

ledgerVars == <<planRow, balance, lifetime, grant, granted, spent, drifted>>

LedgerTypeOK ==
  /\ planRow \subseteq Tenants
  /\ balance \in [Tenants -> 0..MaxInt]
  /\ lifetime \in [Tenants -> 0..MaxInt]
  /\ grant \in [Grants -> GrantRequest \cup {NoGrant}]
  /\ granted \in [Tenants -> Nat]
  /\ spent \in [Tenants -> Nat]
  /\ drifted \subseteq Tenants

LedgerInit ==
  /\ planRow \in SUBSET Tenants
  /\ balance = [t \in Tenants |-> IF t \in planRow THEN StarterCredits ELSE 0]
  /\ lifetime = balance
  /\ grant = [g \in Grants |-> NoGrant]
  /\ granted = balance
  /\ spent = [t \in Tenants |-> 0]
  /\ drifted = {}

-----------------------------------------------------------------------------

\* Every other grant that has read t's balance now holds a number that a
\* later write has replaced.
Overlap(t) ==
  [g \in Grants |->
     IF grant[g] # NoGrant /\ grant[g].tenant = t
     THEN [grant[g] EXCEPT !.overlapped = TRUE]
     ELSE grant[g]]

\* Mutant: the statement before 2026-10-17, which decremented first and only
\* then answered whether there was anything to take.
TakeCreditUnguarded(t) ==
  /\ lifetime[t] < MaxInt
  /\ balance' = [balance EXCEPT ![t] = @ - 1]
  /\ lifetime' = [lifetime EXCEPT ![t] = @ + 1]
  /\ spent' = [spent EXCEPT ![t] = @ + 1]
  /\ grant' = Overlap(t)
  /\ UNCHANGED <<planRow, granted, drifted>>

\* deduct_credit found a credit: the UPDATE's own WHERE takes the last one for
\* the last call it can pay for. A lifetime_credits at the column's limit makes
\* the statement an error, which its caller reports (nothing is written).
TakeCredit(t) ==
  /\ balance[t] > 0
  /\ lifetime[t] < MaxInt
  /\ balance' = [balance EXCEPT ![t] = @ - 1]
  /\ lifetime' = [lifetime EXCEPT ![t] = @ + 1]
  /\ spent' = [spent EXCEPT ![t] = @ + 1]
  /\ grant' = Overlap(t)
  /\ UNCHANGED <<planRow, granted, drifted>>

\* deduct_credit matched no row: nothing is written and the call is hung up.
NoCreditLeft(t) == balance[t] = 0

\* Mutant: the upsert's ON CONFLICT arm also resets the balance.
SeatPlanResetting(t) ==
  /\ planRow' = planRow \cup {t}
  /\ balance' = [balance EXCEPT ![t] = 0]
  /\ UNCHANGED <<lifetime, grant, granted, spent, drifted>>

\* seat_plan_for_tenant on a workspace without a row: the INSERT arm, both
\* credit columns at their default 0. The ON CONFLICT arm writes neither.
SeatPlan(t) ==
  /\ t \notin planRow
  /\ planRow' = planRow \cup {t}
  /\ UNCHANGED <<balance, lifetime, grant, granted, spent, drifted>>

\* add_credits, its SELECT.
GrantRead(g, t, amount) ==
  /\ grant[g] = NoGrant
  /\ grant' = [grant EXCEPT ![g] =
       [tenant |-> t, amount |-> amount, found |-> t \in planRow,
        seen |-> balance[t], overlapped |-> FALSE]]
  /\ UNCHANGED <<planRow, balance, lifetime, granted, spent, drifted>>

\* current.checked_add(amount).unwrap_or(i32::MAX)
NewBalance(r) == IF r.seen + r.amount > MaxInt THEN MaxInt ELSE r.seen + r.amount

\* Mutant: the grant does not reach lifetime_credits.
GrantUpdateBalanceOnly(g) ==
  LET r == grant[g] IN
  /\ r # NoGrant
  /\ r.found
  /\ balance' = [balance EXCEPT ![r.tenant] = NewBalance(r)]
  /\ granted' = [granted EXCEPT ![r.tenant] = @ + r.amount]
  /\ drifted' = IF r.overlapped THEN drifted \cup {r.tenant} ELSE drifted
  /\ grant' = [Overlap(r.tenant) EXCEPT ![g] = NoGrant]
  /\ UNCHANGED <<planRow, lifetime, spent>>

\* add_credits found a row: the UPDATE writes the number computed from what the
\* SELECT saw, and adds to lifetime_credits in place.
GrantUpdate(g) ==
  LET r == grant[g] IN
  /\ r # NoGrant
  /\ r.found
  /\ lifetime[r.tenant] + r.amount <= MaxInt
  /\ balance' = [balance EXCEPT ![r.tenant] = NewBalance(r)]
  /\ lifetime' = [lifetime EXCEPT ![r.tenant] = @ + r.amount]
  /\ granted' = [granted EXCEPT ![r.tenant] = @ + r.amount]
  /\ drifted' = IF r.overlapped THEN drifted \cup {r.tenant} ELSE drifted
  /\ grant' = [Overlap(r.tenant) EXCEPT ![g] = NoGrant]
  /\ UNCHANGED <<planRow, spent>>

\* Mutant: the inserted row leaves lifetime_credits at its default.
GrantInsertBalanceOnly(g) ==
  LET r == grant[g] IN
  /\ r # NoGrant
  /\ ~r.found
  /\ r.tenant \notin planRow
  /\ planRow' = planRow \cup {r.tenant}
  /\ balance' = [balance EXCEPT ![r.tenant] = r.amount]
  /\ granted' = [granted EXCEPT ![r.tenant] = @ + r.amount]
  /\ grant' = [Overlap(r.tenant) EXCEPT ![g] = NoGrant]
  /\ UNCHANGED <<lifetime, spent, drifted>>

\* add_credits found no row: it inserts one with the credits on it. The unique
\* constraint on tenant_id lets it through only if there still is none.
GrantInsert(g) ==
  LET r == grant[g] IN
  /\ r # NoGrant
  /\ ~r.found
  /\ r.tenant \notin planRow
  /\ planRow' = planRow \cup {r.tenant}
  /\ balance' = [balance EXCEPT ![r.tenant] = r.amount]
  /\ lifetime' = [lifetime EXCEPT ![r.tenant] = r.amount]
  /\ granted' = [granted EXCEPT ![r.tenant] = @ + r.amount]
  /\ grant' = [Overlap(r.tenant) EXCEPT ![g] = NoGrant]
  /\ UNCHANGED <<spent, drifted>>

\* add_credits ends with nothing written: a database error, no active plan to
\* seat, the unique constraint, lifetime_credits out of range, or a caller that
\* hung up.
GrantFail(g) ==
  /\ grant[g] # NoGrant
  /\ grant' = [grant EXCEPT ![g] = NoGrant]
  /\ UNCHANGED <<planRow, balance, lifetime, granted, spent, drifted>>

\* The process restarts: every request in flight is gone, the rows are not.
LedgerRestart ==
  /\ grant' = [g \in Grants |-> NoGrant]
  /\ UNCHANGED <<planRow, balance, lifetime, granted, spent, drifted>>

GrantStep(g) ==
  \/ \E t \in Tenants, amount \in Amounts : GrantRead(g, t, amount)
  \/ GrantUpdate(g)
  \/ GrantInsert(g)
  \/ GrantFail(g)

LedgerNext ==
  \/ \E t \in Tenants : TakeCredit(t) \/ SeatPlan(t)
  \/ \E g \in Grants : GrantStep(g)
  \/ LedgerRestart

LedgerSpec == LedgerInit /\ [][LedgerNext]_ledgerVars

-----------------------------------------------------------------------------

\* The balance a workspace can spend never exceeds what its lifetime counter
\* has counted, although add_credits writes the balance from a number it read
\* earlier and only the lifetime counter is added to in place.
WithinLifetime == \A t \in Tenants : balance[t] <= lifetime[t]

\* A grant is paid out in full. The cap at i32::MAX in add_credits is never
\* what lands in the row: lifetime_credits, which no stale read can lower,
\* reaches its own limit first and refuses the statement.
GrantPaidInFull ==
  [][\A g \in Grants :
       GrantUpdate(g) => balance'[grant[g].tenant] = grant[g].seen + grant[g].amount
    ]_ledgerVars

\* Every credit is accounted for: the balance is what was granted less what was
\* spent, on every workspace none of whose grants overlapped another write.
ExactUnlessOverlapped ==
  \A t \in Tenants : t \notin drifted => balance[t] = granted[t] - spent[t]

\* What add_credits announces ("Upsert tenant_plan with credit increase",
\* "Added {} credits") and deduct_credit ("Take ONE credit for this call"):
\* the balance is exactly what was granted less what was spent.
LedgerExact ==
  \A t \in Tenants : balance[t] = granted[t] - spent[t]
=============================================================================
