------------------------- MODULE CreditLedgerProofs -------------------------
(***************************************************************************)
(* What the run credit_ledger checks on a small instance, proved for every *)
(* set of workspaces and requests, every amount and every integer width.   *)
(*                                                                         *)
(* Neither WithinLifetime nor ExactUnlessOverlapped is inductive: an       *)
(* add_credits request carries the balance it read into a later UPDATE, so *)
(* the invariant has to say what such a request may still hold.            *)
(***************************************************************************)
EXTENDS CreditLedger, TLAPS

\* A request that found a row holds a balance the lifetime counter covers, and
\* as long as nothing wrote the row since, it holds the row's balance.
ReadsCovered ==
  \A g \in Grants : grant[g] # NoGrant /\ grant[g].found =>
    /\ grant[g].tenant \in planRow
    /\ grant[g].seen <= lifetime[grant[g].tenant]
    /\ ~grant[g].overlapped => grant[g].seen = balance[grant[g].tenant]

\* Credits live on rows.
NoRowNoCredits ==
  \A t \in Tenants : t \notin planRow =>
    balance[t] = 0 /\ lifetime[t] = 0 /\ granted[t] = 0 /\ spent[t] = 0

LedgerIInv ==
  /\ LedgerTypeOK
  /\ WithinLifetime
  /\ ExactUnlessOverlapped
  /\ ReadsCovered
  /\ NoRowNoCredits

-----------------------------------------------------------------------------

\* Overlap only marks requests: it changes nothing else that they hold.
LEMMA OverlapMarks ==
  ASSUME LedgerTypeOK, NEW t \in Tenants
  PROVE  /\ Overlap(t) \in [Grants -> GrantRequest \cup {NoGrant}]
         /\ \A k \in Grants :
              /\ Overlap(t)[k] = NoGrant <=> grant[k] = NoGrant
              /\ grant[k] # NoGrant =>
                   /\ Overlap(t)[k].tenant = grant[k].tenant
                   /\ Overlap(t)[k].amount = grant[k].amount
                   /\ Overlap(t)[k].found = grant[k].found
                   /\ Overlap(t)[k].seen = grant[k].seen
                   /\ ~Overlap(t)[k].overlapped =>
                        ~grant[k].overlapped /\ grant[k].tenant # t
<1> DEFINE R == GrantRequest \cup {NoGrant}
<1>1. ASSUME NEW k \in Grants, grant[k] # NoGrant
      PROVE  [grant[k] EXCEPT !.overlapped = TRUE] \in GrantRequest
  BY <1>1 DEF LedgerTypeOK, GrantRequest
<1>2. Overlap(t) \in [Grants -> R]
  BY <1>1 DEF Overlap, LedgerTypeOK
<1>3. ASSUME NEW k \in Grants, grant[k] = NoGrant
      PROVE  Overlap(t)[k] = NoGrant
  BY <1>3 DEF Overlap
<1>4. ASSUME NEW k \in Grants, grant[k] # NoGrant
      PROVE  /\ Overlap(t)[k] # NoGrant
             /\ Overlap(t)[k].tenant = grant[k].tenant
             /\ Overlap(t)[k].amount = grant[k].amount
             /\ Overlap(t)[k].found = grant[k].found
             /\ Overlap(t)[k].seen = grant[k].seen
             /\ ~Overlap(t)[k].overlapped =>
                  ~grant[k].overlapped /\ grant[k].tenant # t
  <2>1. grant[k] \in GrantRequest
    BY <1>4 DEF LedgerTypeOK
  <2>2. CASE grant[k].tenant = t
    <3>1. Overlap(t)[k] = [grant[k] EXCEPT !.overlapped = TRUE]
      BY <1>4, <2>2 DEF Overlap
    <3>2. Overlap(t)[k] # NoGrant
      BY <1>1, <1>4, <3>1, NoGrantAssumption
    <3> QED BY <2>1, <2>2, <3>1, <3>2 DEF GrantRequest
  <2>3. CASE grant[k].tenant # t
    <3>1. Overlap(t)[k] = grant[k]
      BY <2>3 DEF Overlap
    <3> QED BY <1>4, <2>1, <2>3, <3>1 DEF GrantRequest
  <2> QED BY <2>2, <2>3
<1> QED BY <1>2, <1>3, <1>4

\* The two facts every writer of the row relies on.
LEMMA AmountsFit ==
  /\ MaxInt \in Nat
  /\ \A amount \in Amounts : amount \in Nat /\ 1 <= amount /\ amount <= MaxInt
BY WidthAssumption, AmountAssumption

\* The invariant holds initially: create_account's seat.
LEMMA LedgerInitIInv == LedgerInit => LedgerIInv
<1> SUFFICES ASSUME LedgerInit PROVE LedgerIInv
  OBVIOUS
<1> USE WidthAssumption, StarterAssumption
<1>1. LedgerTypeOK
  BY DEF LedgerInit, LedgerTypeOK
<1>2. WithinLifetime /\ ExactUnlessOverlapped /\ NoRowNoCredits
  BY <1>1 DEF LedgerInit, LedgerTypeOK, WithinLifetime, ExactUnlessOverlapped, NoRowNoCredits
<1>3. ReadsCovered
  BY DEF LedgerInit, ReadsCovered
<1> QED BY <1>1, <1>2, <1>3 DEF LedgerIInv

\* deduct_credit's UPDATE preserves the invariant.
LEMMA TakeCreditStep ==
  ASSUME LedgerIInv, NEW t \in Tenants, TakeCredit(t)
  PROVE  LedgerIInv'
<1> USE AmountsFit
<1>1. LedgerTypeOK'
  BY OverlapMarks DEF LedgerIInv, LedgerTypeOK, TakeCredit
<1>2. (WithinLifetime /\ ExactUnlessOverlapped)'
  BY DEF LedgerIInv, LedgerTypeOK, TakeCredit, WithinLifetime, ExactUnlessOverlapped
<1>3. t \in planRow
  BY DEF LedgerIInv, LedgerTypeOK, TakeCredit, NoRowNoCredits
<1>4. NoRowNoCredits'
  BY <1>3 DEF LedgerIInv, LedgerTypeOK, TakeCredit, NoRowNoCredits
<1>5. ReadsCovered'
  <2> SUFFICES ASSUME NEW g \in Grants, grant'[g] # NoGrant, grant'[g].found
               PROVE  /\ grant'[g].tenant \in planRow'
                      /\ grant'[g].seen <= lifetime'[grant'[g].tenant]
                      /\ ~grant'[g].overlapped =>
                           grant'[g].seen = balance'[grant'[g].tenant]
    BY DEF ReadsCovered
  <2>1. grant' = Overlap(t) /\ LedgerTypeOK
    BY DEF TakeCredit, LedgerIInv
  <2>2. /\ grant[g] \in GrantRequest /\ grant[g].found
        /\ grant'[g].tenant = grant[g].tenant /\ grant'[g].seen = grant[g].seen
        /\ ~grant'[g].overlapped => ~grant[g].overlapped /\ grant[g].tenant # t
    BY <2>1, OverlapMarks DEF LedgerTypeOK
  <2>3. /\ grant[g].tenant \in planRow /\ grant[g].seen <= lifetime[grant[g].tenant]
        /\ ~grant[g].overlapped => grant[g].seen = balance[grant[g].tenant]
    BY <2>2, NoGrantAssumption DEF LedgerIInv, ReadsCovered
  <2> QED BY <2>2, <2>3 DEF TakeCredit, LedgerIInv, LedgerTypeOK, GrantRequest
<1> QED BY <1>1, <1>2, <1>4, <1>5 DEF LedgerIInv

\* seat_plan_for_tenant preserves the invariant.
LEMMA SeatPlanStep ==
  ASSUME LedgerIInv, NEW t \in Tenants, SeatPlan(t)
  PROVE  LedgerIInv'
<1>1. LedgerTypeOK'
  BY DEF LedgerIInv, LedgerTypeOK, SeatPlan
<1>2. (WithinLifetime /\ ExactUnlessOverlapped /\ NoRowNoCredits)'
  BY DEF LedgerIInv, LedgerTypeOK, SeatPlan, WithinLifetime, ExactUnlessOverlapped,
         NoRowNoCredits
<1>3. ReadsCovered'
  BY DEF LedgerIInv, SeatPlan, ReadsCovered
<1> QED BY <1>1, <1>2, <1>3 DEF LedgerIInv

\* add_credits' SELECT preserves the invariant.
LEMMA GrantReadStep ==
  ASSUME LedgerIInv, NEW g \in Grants, NEW t \in Tenants, NEW amount \in Amounts,
         GrantRead(g, t, amount)
  PROVE  LedgerIInv'
<1> DEFINE r == [tenant |-> t, amount |-> amount, found |-> t \in planRow,
                 seen |-> balance[t], overlapped |-> FALSE]
<1>1. r \in GrantRequest
  BY DEF GrantRequest, LedgerIInv, LedgerTypeOK
<1>2. LedgerTypeOK'
  BY <1>1 DEF LedgerIInv, LedgerTypeOK, GrantRead
<1>3. (WithinLifetime /\ ExactUnlessOverlapped /\ NoRowNoCredits)'
  BY DEF LedgerIInv, GrantRead, WithinLifetime, ExactUnlessOverlapped, NoRowNoCredits
<1>4. ReadsCovered'
  <2> SUFFICES ASSUME NEW k \in Grants, grant'[k] # NoGrant, grant'[k].found
               PROVE  /\ grant'[k].tenant \in planRow'
                      /\ grant'[k].seen <= lifetime'[grant'[k].tenant]
                      /\ ~grant'[k].overlapped =>
                           grant'[k].seen = balance'[grant'[k].tenant]
    BY DEF ReadsCovered
  <2>1. UNCHANGED <<planRow, balance, lifetime>>
    BY DEF GrantRead
  <2>2. CASE k = g
    <3>1. grant'[k] = r
      BY <2>2 DEF GrantRead, LedgerIInv, LedgerTypeOK
    <3>2. grant'[k].tenant = t /\ grant'[k].seen = balance[t]
      BY <3>1
    <3>3. t \in planRow
      <4> SUFFICES ASSUME t \notin planRow PROVE FALSE
        OBVIOUS
      <4>1. (t \in planRow) = FALSE
        OBVIOUS
      <4>2. r = [tenant |-> t, amount |-> amount, found |-> FALSE,
                 seen |-> balance[t], overlapped |-> FALSE]
        BY <4>1, Zenon
      <4> HIDE DEF r
      <4> QED BY <3>1, <4>2
    <3>4. balance[t] <= lifetime[t]
      BY DEF LedgerIInv, WithinLifetime
    <3> HIDE DEF r
    <3> QED BY <2>1, <3>2, <3>3, <3>4
  <2>3. CASE k # g
    <3>1. grant'[k] = grant[k]
      BY <2>3 DEF GrantRead, LedgerIInv, LedgerTypeOK
    <3> QED BY <2>1, <3>1 DEF LedgerIInv, ReadsCovered
  <2> QED BY <2>2, <2>3
<1> QED BY <1>2, <1>3, <1>4 DEF LedgerIInv

\* The cap of checked_add is out of reach: the balance read is covered by the
\* lifetime counter, which has to have room for the amount.
LEMMA NewBalanceIsSum ==
  ASSUME LedgerIInv, NEW g \in Grants, GrantUpdate(g)
  PROVE  /\ grant[g] \in GrantRequest
         /\ grant[g].tenant \in planRow
         /\ NewBalance(grant[g]) = grant[g].seen + grant[g].amount
         /\ grant[g].seen <= lifetime[grant[g].tenant]
<1> USE AmountsFit
<1>1. grant[g] # NoGrant /\ grant[g].found
  BY DEF GrantUpdate
<1>2. grant[g] \in GrantRequest
  BY <1>1 DEF LedgerIInv, LedgerTypeOK
<1>3. grant[g].tenant \in planRow /\ grant[g].seen <= lifetime[grant[g].tenant]
  BY <1>1 DEF LedgerIInv, ReadsCovered
<1>4. lifetime[grant[g].tenant] + grant[g].amount <= MaxInt
  BY DEF GrantUpdate
<1>5. lifetime[grant[g].tenant] \in Nat
  BY <1>2 DEF LedgerIInv, LedgerTypeOK, GrantRequest
<1> QED BY <1>2, <1>3, <1>4, <1>5 DEF NewBalance, GrantRequest

\* A request ends and a write of t's row marks the others on t.
LEMMA EndedAndMarked ==
  ASSUME LedgerTypeOK, NEW g \in Grants, NEW t \in Tenants,
         grant' = [k \in Grants |-> IF k = g THEN NoGrant ELSE Overlap(t)[k]]
  PROVE  /\ grant' \in [Grants -> GrantRequest \cup {NoGrant}]
         /\ \A k \in Grants : grant'[k] # NoGrant =>
              /\ k # g
              /\ grant[k] \in GrantRequest
              /\ grant[k] # NoGrant
              /\ grant'[k].tenant = grant[k].tenant
              /\ grant'[k].found => grant[k].found
              /\ grant'[k].seen = grant[k].seen
              /\ ~grant'[k].overlapped => ~grant[k].overlapped /\ grant[k].tenant # t
<1>1. Overlap(t) \in [Grants -> GrantRequest \cup {NoGrant}]
  BY OverlapMarks
<1>2. grant' \in [Grants -> GrantRequest \cup {NoGrant}]
  BY <1>1
<1>3. ASSUME NEW k \in Grants, grant'[k] # NoGrant
      PROVE  k # g /\ grant'[k] = Overlap(t)[k] /\ grant[k] # NoGrant
  BY <1>1, <1>3, OverlapMarks
<1> QED BY <1>2, <1>3, OverlapMarks DEF LedgerTypeOK

\* add_credits' UPDATE preserves the invariant.
LEMMA GrantUpdateStep ==
  ASSUME LedgerIInv, NEW g \in Grants, GrantUpdate(g)
  PROVE  LedgerIInv'
<1> USE AmountsFit
<1> DEFINE r == grant[g]
           t == r.tenant
<1>1. /\ r \in GrantRequest /\ t \in planRow /\ t \in Tenants
      /\ r.seen \in Nat /\ r.amount \in Nat
      /\ NewBalance(r) = r.seen + r.amount /\ r.seen <= lifetime[t]
  BY NewBalanceIsSum DEF GrantRequest
<1>2. /\ balance' = [balance EXCEPT ![t] = r.seen + r.amount]
      /\ lifetime' = [lifetime EXCEPT ![t] = @ + r.amount]
      /\ lifetime[t] + r.amount <= MaxInt
      /\ granted' = [granted EXCEPT ![t] = @ + r.amount]
      /\ drifted' = IF r.overlapped THEN drifted \cup {t} ELSE drifted
      /\ grant' = [k \in Grants |-> IF k = g THEN NoGrant ELSE Overlap(t)[k]]
      /\ UNCHANGED <<planRow, spent>>
  BY <1>1, OverlapMarks DEF GrantUpdate, LedgerIInv
<1> HIDE DEF r, t
<1>3. LedgerTypeOK'
  <2>1. grant' \in [Grants -> GrantRequest \cup {NoGrant}]
    BY <1>1, <1>2, EndedAndMarked DEF LedgerIInv
  <2> QED BY <1>1, <1>2, <2>1 DEF LedgerIInv, LedgerTypeOK
<1>4. WithinLifetime'
  BY <1>1, <1>2 DEF LedgerIInv, LedgerTypeOK, WithinLifetime
<1>5. ExactUnlessOverlapped'
  <2>1. ~r.overlapped => r.seen = balance[t]
    BY DEF LedgerIInv, ReadsCovered, GrantUpdate, r, t
  <2> QED BY <1>1, <1>2, <2>1 DEF LedgerIInv, LedgerTypeOK, ExactUnlessOverlapped
<1>6. NoRowNoCredits'
  BY <1>1, <1>2 DEF LedgerIInv, LedgerTypeOK, NoRowNoCredits
<1>7. ReadsCovered'
  <2> SUFFICES ASSUME NEW k \in Grants, grant'[k] # NoGrant, grant'[k].found
               PROVE  /\ grant'[k].tenant \in planRow'
                      /\ grant'[k].seen <= lifetime'[grant'[k].tenant]
                      /\ ~grant'[k].overlapped =>
                           grant'[k].seen = balance'[grant'[k].tenant]
    BY DEF ReadsCovered
  <2>1. /\ grant[k] \in GrantRequest /\ grant[k].found /\ grant[k] # NoGrant
        /\ grant'[k].tenant = grant[k].tenant /\ grant'[k].seen = grant[k].seen
        /\ ~grant'[k].overlapped => ~grant[k].overlapped /\ grant[k].tenant # t
    <3>1. LedgerTypeOK
      BY DEF LedgerIInv
    <3> QED BY <1>1, <1>2, <3>1, EndedAndMarked
  <2>2. /\ grant[k].tenant \in planRow /\ grant[k].seen <= lifetime[grant[k].tenant]
        /\ ~grant[k].overlapped => grant[k].seen = balance[grant[k].tenant]
    BY <2>1 DEF LedgerIInv, ReadsCovered
  <2>3. grant[k].tenant \in Tenants /\ grant[k].seen \in Nat
    BY <2>1 DEF GrantRequest
  <2>4. balance' \in [Tenants -> Int] /\ lifetime' \in [Tenants -> Int]
        /\ lifetime \in [Tenants -> Int]
    BY <1>3 DEF LedgerTypeOK, LedgerIInv
  <2>5. CASE grant[k].tenant = t
    <3>1. lifetime'[t] = lifetime[t] + r.amount
      BY <1>1, <1>2, <2>4
    <3> QED BY <1>1, <1>2, <2>1, <2>2, <2>3, <2>4, <2>5, <3>1
  <2>6. CASE grant[k].tenant # t
    <3>1. /\ lifetime'[grant[k].tenant] = lifetime[grant[k].tenant]
          /\ balance'[grant[k].tenant] = balance[grant[k].tenant]
      BY <1>2, <2>3, <2>4, <2>6 DEF LedgerIInv, LedgerTypeOK
    <3> QED BY <1>2, <2>1, <2>2, <2>6, <3>1
  <2> QED BY <2>5, <2>6
<1> QED BY <1>3, <1>4, <1>5, <1>6, <1>7 DEF LedgerIInv

\* add_credits' INSERT preserves the invariant.
LEMMA GrantInsertStep ==
  ASSUME LedgerIInv, NEW g \in Grants, GrantInsert(g)
  PROVE  LedgerIInv'
<1> USE AmountsFit
<1> DEFINE r == grant[g]
           t == r.tenant
<1>1. r \in GrantRequest /\ t \in Tenants /\ t \notin planRow /\ r.amount \in 0..MaxInt
  BY DEF GrantInsert, LedgerIInv, LedgerTypeOK, GrantRequest
<1>2. /\ planRow' = planRow \cup {t}
      /\ balance' = [balance EXCEPT ![t] = r.amount]
      /\ lifetime' = [lifetime EXCEPT ![t] = r.amount]
      /\ granted' = [granted EXCEPT ![t] = @ + r.amount]
      /\ grant' = [k \in Grants |-> IF k = g THEN NoGrant ELSE Overlap(t)[k]]
      /\ UNCHANGED <<spent, drifted>>
  BY <1>1, OverlapMarks DEF GrantInsert, LedgerIInv
<1> HIDE DEF r, t
<1>3. LedgerTypeOK'
  <2>1. grant' \in [Grants -> GrantRequest \cup {NoGrant}]
    BY <1>1, <1>2, EndedAndMarked DEF LedgerIInv
  <2> QED BY <1>1, <1>2, <2>1 DEF LedgerIInv, LedgerTypeOK
<1>4. (WithinLifetime /\ ExactUnlessOverlapped /\ NoRowNoCredits)'
  BY <1>1, <1>2 DEF LedgerIInv, LedgerTypeOK, WithinLifetime, ExactUnlessOverlapped,
                    NoRowNoCredits
<1>5. ReadsCovered'
  <2> SUFFICES ASSUME NEW k \in Grants, grant'[k] # NoGrant, grant'[k].found
               PROVE  /\ grant'[k].tenant \in planRow'
                      /\ grant'[k].seen <= lifetime'[grant'[k].tenant]
                      /\ ~grant'[k].overlapped =>
                           grant'[k].seen = balance'[grant'[k].tenant]
    BY DEF ReadsCovered
  <2>1. /\ grant[k] \in GrantRequest /\ grant[k].found /\ grant[k] # NoGrant
        /\ grant'[k].tenant = grant[k].tenant /\ grant'[k].seen = grant[k].seen
        /\ ~grant'[k].overlapped => ~grant[k].overlapped /\ grant[k].tenant # t
    <3>1. LedgerTypeOK
      BY DEF LedgerIInv
    <3> QED BY <1>1, <1>2, <3>1, EndedAndMarked
  <2>2. /\ grant[k].tenant \in planRow /\ grant[k].seen <= lifetime[grant[k].tenant]
        /\ ~grant[k].overlapped => grant[k].seen = balance[grant[k].tenant]
    BY <2>1 DEF LedgerIInv, ReadsCovered
  <2>3. grant[k].tenant # t
    BY <1>1, <2>2
  <2> QED BY <1>1, <1>2, <2>1, <2>2, <2>3 DEF LedgerIInv, LedgerTypeOK, GrantRequest
<1> QED BY <1>3, <1>4, <1>5 DEF LedgerIInv

\* A grant that ends with nothing written, or a restart, preserves it.
LEMMA RequestsEndStep ==
  ASSUME LedgerIInv, (\E g \in Grants : GrantFail(g)) \/ LedgerRestart
  PROVE  LedgerIInv'
<1>1. UNCHANGED <<planRow, balance, lifetime, granted, spent, drifted>>
  BY DEF GrantFail, LedgerRestart
<1>2. /\ grant' \in [Grants -> GrantRequest \cup {NoGrant}]
      /\ \A k \in Grants : grant'[k] # NoGrant => grant'[k] = grant[k]
  BY DEF GrantFail, LedgerRestart, LedgerIInv, LedgerTypeOK
<1>3. LedgerTypeOK'
  BY <1>1, <1>2 DEF LedgerIInv, LedgerTypeOK
<1>4. (WithinLifetime /\ ExactUnlessOverlapped /\ NoRowNoCredits)'
  BY <1>1 DEF LedgerIInv, WithinLifetime, ExactUnlessOverlapped, NoRowNoCredits
<1>5. ReadsCovered'
  BY <1>1, <1>2 DEF LedgerIInv, ReadsCovered
<1> QED BY <1>3, <1>4, <1>5 DEF LedgerIInv

\* Every step of the ledger preserves the invariant.
LEMMA LedgerStepIInv == LedgerIInv /\ [LedgerNext]_ledgerVars => LedgerIInv'
<1> SUFFICES ASSUME LedgerIInv, [LedgerNext]_ledgerVars PROVE LedgerIInv'
  OBVIOUS
<1>1. ASSUME NEW t \in Tenants, TakeCredit(t) PROVE LedgerIInv'
  BY <1>1, TakeCreditStep
<1>2. ASSUME NEW t \in Tenants, SeatPlan(t) PROVE LedgerIInv'
  BY <1>2, SeatPlanStep
<1>3. ASSUME NEW g \in Grants, GrantStep(g) PROVE LedgerIInv'
  <2>1. ASSUME NEW t \in Tenants, NEW amount \in Amounts, GrantRead(g, t, amount)
        PROVE  LedgerIInv'
    BY <2>1, GrantReadStep
  <2>2. CASE GrantUpdate(g)
    BY <2>2, GrantUpdateStep
  <2>3. CASE GrantInsert(g)
    BY <2>3, GrantInsertStep
  <2>4. CASE GrantFail(g)
    BY <2>4, RequestsEndStep
  <2> QED BY <1>3, <2>1, <2>2, <2>3, <2>4 DEF GrantStep
<1>4. CASE LedgerRestart
  BY <1>4, RequestsEndStep
<1>5. CASE UNCHANGED ledgerVars
  <2>1. LedgerTypeOK'
    BY <1>5 DEF LedgerIInv, LedgerTypeOK, ledgerVars
  <2>2. (WithinLifetime /\ ExactUnlessOverlapped /\ NoRowNoCredits)'
    BY <1>5 DEF LedgerIInv, WithinLifetime, ExactUnlessOverlapped, NoRowNoCredits, ledgerVars
  <2>3. ReadsCovered'
    BY <1>5 DEF LedgerIInv, ReadsCovered, ledgerVars
  <2> QED BY <2>1, <2>2, <2>3 DEF LedgerIInv
<1> QED BY <1>1, <1>2, <1>3, <1>4, <1>5 DEF LedgerNext

-----------------------------------------------------------------------------

\* The inductive invariant holds in every reachable state of the ledger.
THEOREM LedgerInvariant == LedgerSpec => []LedgerIInv
BY LedgerInitIInv, LedgerStepIInv, PTL DEF LedgerSpec

\* The row keeps its types: above all, deduct_credit and add_credits never take
\* credit_balance below zero or either column past the integer width.
THEOREM LedgerTypeCorrect == LedgerSpec => []LedgerTypeOK
<1>1. LedgerIInv => LedgerTypeOK
  BY DEF LedgerIInv
<1> QED BY <1>1, LedgerInvariant, PTL

\* Whatever grants, calls and restarts overlap, the balance never exceeds what
\* the lifetime counter has counted.
THEOREM LedgerWithinLifetime == LedgerSpec => []WithinLifetime
<1>1. LedgerIInv => WithinLifetime
  BY DEF LedgerIInv
<1> QED BY <1>1, LedgerInvariant, PTL

\* No credit is lost or made up on a workspace none of whose grants overlapped
\* another write of its row.
THEOREM LedgerExactUnlessOverlapped == LedgerSpec => []ExactUnlessOverlapped
<1>1. LedgerIInv => ExactUnlessOverlapped
  BY DEF LedgerIInv
<1> QED BY <1>1, LedgerInvariant, PTL

\* The saturation in add_credits never decides a balance: a grant that lands is
\* paid in full, on top of what it read.
THEOREM LedgerGrantPaidInFull == LedgerSpec => GrantPaidInFull
<1>1. ASSUME LedgerIInv, NEW g \in Grants, GrantUpdate(g)
      PROVE  balance'[grant[g].tenant] = grant[g].seen + grant[g].amount
  <2>1. grant[g].tenant \in Tenants
    BY <1>1, NewBalanceIsSum DEF GrantRequest
  <2> QED BY <1>1, <2>1, NewBalanceIsSum DEF GrantUpdate, LedgerIInv, LedgerTypeOK
<1>2. LedgerIInv /\ [LedgerNext]_ledgerVars =>
        [\A g \in Grants :
           GrantUpdate(g) => balance'[grant[g].tenant] = grant[g].seen + grant[g].amount
        ]_ledgerVars
  BY <1>1
<1> QED BY <1>2, LedgerInvariant, PTL DEF LedgerSpec, GrantPaidInFull
=============================================================================
