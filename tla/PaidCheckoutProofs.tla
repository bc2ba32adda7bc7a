-------------------------- MODULE PaidCheckoutProofs --------------------------
(***************************************************************************)
(* What the run checkout checks on two sessions, proved for every set of   *)
(* sessions, handlers, addresses and plans (its liveness property aside).  *)
(*                                                                         *)
(* SeatedOnce and PaidIsSeated are not inductive: the claim is a statement *)
(* of its own, so the invariant says what a handler may still do with the  *)
(* session it has claimed.                                                 *)
(***************************************************************************)
EXTENDS PaidCheckout, TLAPS

\* The provider knows a session only once its row is there.
OpenedHasRow == \A s \in Sessions : provider[s] # "none" => rows[s] # NoRow

\* The handler has claimed a session.
Busy(w) == at[w] # "idle"

\* A handler that is serving has claimed its session, and nobody else has.
ClaimIsExclusive ==
  \A w \in Workers : Busy(w) =>
    /\ job[w] \in Sessions
    /\ Completed(job[w])
    /\ \A v \in Workers : Busy(v) /\ job[v] = job[w] => v = w

\* Before it gets to its answer.
Serving(w) == at[w] \in {"claimed", "find", "seat", "mint"}

\* Nothing is seated before the claim, nor between the claim and the seat.
NothingSeatedYet ==
  /\ \A s \in Sessions : ~Completed(s) => seatings[s] = 0
  /\ \A w \in Workers : Serving(w) => seatings[job[w]] = 0

\* What a handler holds is what its session was opened for; it holds no plan only
\* when there is none to seat.
HoldsPurchase ==
  \A w \in Workers : at[w] \in {"find", "seat", "mint"} =>
    /\ rows[job[w]].email # NoAddress
    /\ purchased[w] # NoPlan => purchased[w] = rows[job[w]].plan
    /\ purchased[w] = NoPlan => rows[job[w]].plan = NoPlan \/ job[w] \in unsold
    /\ at[w] # "find" => purchased[w] # NoPlan

\* Between its two reads a plan that nobody edits stays on sale under the slug that
\* was read.
StillAsRead ==
  \A w \in Workers :
    at[w] \in {"find", "mint"} /\ purchased[w] # NoPlan /\ job[w] \notin edited
      => named[w] = slug[purchased[w]] /\ purchased[w] \in active

\* PaidIsSeated, without the excuse of a handler that has only its answer to give.
PaidIsSettled ==
  \A s \in Sessions : Completed(s) =>
    \/ seatings[s] = 1
    \/ \E w \in Workers : Serving(w) /\ job[w] = s
    \/ rows[s].email = NoAddress
    \/ rows[s].plan = NoPlan
    \/ s \in unsold \cup edited \cup faulted \cup outrun

\* The inductive invariant.
IInv ==
  /\ TypeOK
  /\ OpenedHasRow
  /\ ClaimIsExclusive
  /\ NothingSeatedYet
  /\ HoldsPurchase
  /\ StillAsRead
  /\ SeatedOnce
  /\ PaidIsSettled

-----------------------------------------------------------------------------

\* A row that is there has the columns of one.
LEMMA RowsAreRows ==
  ASSUME TypeOK, NEW s \in Sessions, rows[s] # NoRow
  PROVE  rows[s] \in Row
BY DEF TypeOK

\* Every step keeps the state well typed.
LEMMA TypeStep ==
  ASSUME IInv, [Next]_vars
  PROVE  TypeOK'
<1> USE DEF TypeOK, handlers, catalogue, accounts, history
<1>0. ASSUME NEW w \in Workers, Busy(w) PROVE job[w] \in Sessions /\ rows[job[w]] \in Row
  BY <1>0 DEF IInv, ClaimIsExclusive, Completed
<1>1. ASSUME NEW s \in Sessions, Open(s) PROVE TypeOK'
  BY <1>1 DEF IInv, Open, Row
<1>2. ASSUME NEW s \in Sessions, Pay(s) \/ Lapse(s) PROVE TypeOK'
  BY <1>2 DEF IInv, Pay, Lapse, ProviderStep
<1>3. ASSUME NEW s \in Sessions, Expire(s) PROVE TypeOK'
  BY <1>3 DEF IInv, Expire, Row
<1>4. ASSUME NEW w \in Workers, NEW s \in Sessions, Claim(w, s) PROVE TypeOK'
  <2>1. rows[s] \in Row
    BY <1>4 DEF IInv, Claim, Dispatched, OpenedHasRow
  <2>2. [rows[s] EXCEPT !.status = "completed"] \in Row
    BY <2>1 DEF Row
  <2> QED BY <1>4, <2>2 DEF IInv, Claim, Goto, Steps
<1>5. ASSUME NEW w \in Workers, NEW s \in Sessions, AckClaimed(w, s) PROVE TypeOK'
  BY <1>5 DEF IInv, AckClaimed
<1>6. ASSUME NEW w \in Workers, ResolvePlan(w) PROVE TypeOK'
  <2>1. rows[job[w]].plan \in active => slug[rows[job[w]].plan] \in Slugs
    BY DEF IInv, Injection
  <2> QED BY <1>0, <1>6, <2>1 DEF IInv, ResolvePlan, Goto, Steps, Busy
<1>7. ASSUME NEW w \in Workers, RefuseUnresolved(w) \/ FindAccount(w) \/ FindNobody(w) PROVE TypeOK'
  BY <1>7 DEF IInv, RefuseUnresolved, FindAccount, FindNobody, HandlerStep, Goto, Steps
<1>8. ASSUME NEW w \in Workers, Seat(w) PROVE TypeOK'
  <2>1. seatings[job[w]] + 1 \in Nat
    BY <1>0, <1>8 DEF IInv, Seat, Busy
  <2>2. seat' \in [Addresses -> Plans \cup {Free, NoPlan}] /\ seatings' \in [Sessions -> Nat]
    BY <1>8, <2>1 DEF IInv, Seat, Seated
  <2> QED BY <1>8, <2>2 DEF IInv, Seat, Goto, Steps
<1>9. ASSUME NEW w \in Workers, Mint(w) PROVE TypeOK'
  <2>1. rows[job[w]].email \in Addresses
    BY <1>0, <1>9 DEF IInv, Mint, HoldsPurchase, Row, Busy
  <2>2. seatings[job[w]] + 1 \in Nat
    BY <1>0, <1>9 DEF IInv, Mint, Busy
  <2>3. seat' \in [Addresses -> Plans \cup {Free, NoPlan}] /\ seatings' \in [Sessions -> Nat]
    BY <1>9, <2>1, <2>2 DEF IInv, Mint, OnSaleAs, Seated
  <2>4. job[w] \in Sessions
    BY <1>0, <1>9 DEF Mint, Busy
  <2> QED BY <1>9, <2>1, <2>3, <2>4 DEF IInv, Mint, Goto, Steps
<1>10. ASSUME NEW w \in Workers, MintOutrun(w) \/ DeliveryError(w) PROVE TypeOK'
  BY <1>0, <1>10 DEF IInv, MintOutrun, DeliveryError, Goto, Steps, Busy
<1>11. ASSUME NEW w \in Workers, Answer(w) \/ Fail(w) PROVE TypeOK'
  BY <1>0, <1>11 DEF IInv, Answer, Fail, Release, Steps, Busy
<1>12. ASSUME NEW p \in Plans, EditPlan(p) PROVE TypeOK'
  <2>1. PICK n \in Slugs \ {slug[q] : q \in Plans \ {p}} : slug' = [slug EXCEPT ![p] = n]
    BY <1>12 DEF EditPlan
  <2>2. slug' \in Injection(Plans, Slugs)
    BY <2>1 DEF IInv, Injection, IsInjective
  <2>3. active' \subseteq Plans
    BY <1>12 DEF IInv, EditPlan
  <2>4. edited' \subseteq Sessions
    BY <1>0, <1>12 DEF IInv, EditPlan, BetweenReads, Busy
  <2> QED BY <1>12, <2>2, <2>3, <2>4 DEF IInv, EditPlan
<1>13. ASSUME NEW e \in Addresses, SignUp(e) PROVE TypeOK'
  BY <1>13 DEF IInv, SignUp
<1>14. ASSUME Crash PROVE TypeOK'
  BY <1>0, <1>14 DEF IInv, Crash, Steps, Busy
<1>15. ASSUME UNCHANGED vars PROVE TypeOK'
  BY <1>15 DEF IInv, vars
<1> HIDE DEF TypeOK
<1>16. ASSUME NEW w \in Workers, Handler(w) PROVE TypeOK'
  BY <1>6, <1>7, <1>8, <1>9, <1>10, <1>11, <1>16 DEF Handler
<1> QED
  BY <1>1, <1>2, <1>3, <1>4, <1>5, <1>12, <1>13, <1>14, <1>15, <1>16 DEF Next

\* The steps after the claim that leave the table of sessions alone.
RowsUntouched == UNCHANGED <<rows, provider>>

\* Whatever a handler does after its claim, the table of sessions stays.
LEMMA HandlersLeaveRows ==
  ASSUME NEW w \in Workers, Handler(w)
  PROVE  RowsUntouched
BY DEF RowsUntouched, Handler, ResolvePlan, RefuseUnresolved, FindAccount, FindNobody,
       HandlerStep, Seat, Mint, MintOutrun, DeliveryError, Answer, Fail

\* A session's row stays, with what it was opened for; only a claim completes it.
LEMMA RowsKept ==
  ASSUME IInv, [Next]_vars, NEW s \in Sessions
  PROVE  /\ rows[s] # NoRow =>
              /\ rows'[s] # NoRow
              /\ rows'[s].email = rows[s].email /\ rows'[s].plan = rows[s].plan
         /\ Completed(s) => Completed(s)'
         /\ Completed(s)' /\ ~Completed(s) => \E w \in Workers : Claim(w, s)
         /\ provider'[s] # "none" => rows'[s] # NoRow
<1> DEFINE Goal == /\ rows[s] # NoRow =>
                        /\ rows'[s] # NoRow
                        /\ rows'[s].email = rows[s].email /\ rows'[s].plan = rows[s].plan
                   /\ Completed(s) => Completed(s)'
                   /\ Completed(s)' /\ ~Completed(s) => \E w \in Workers : Claim(w, s)
                   /\ provider'[s] # "none" => rows'[s] # NoRow
<1>1. rows \in [Sessions -> Row \cup {NoRow}] /\ provider \in [Sessions -> {"none", "open", "paid", "lapsed"}]
  BY DEF IInv, TypeOK
<1>2. \A k \in Sessions : provider[k] # "none" => rows[k] # NoRow
  BY DEF IInv, OpenedHasRow
<1>3. ASSUME RowsUntouched PROVE Goal
  BY <1>2, <1>3 DEF RowsUntouched, Completed
<1>4. ASSUME NEW k \in Sessions, Open(k) PROVE Goal
  <2>1. rows'[k] \in Row /\ rows'[k].status = "pending"
    BY <1>1, <1>4 DEF Open, Row
  <2>2. k # s => rows'[s] = rows[s] /\ provider'[s] = provider[s]
    BY <1>1, <1>4 DEF Open
  <2> QED BY <1>2, <1>4, <2>1, <2>2, NoRowAssumption DEF Open, Completed
<1>5. ASSUME NEW k \in Sessions, Pay(k) \/ Lapse(k) PROVE Goal
  BY <1>1, <1>2, <1>5 DEF Pay, Lapse, ProviderStep, Completed
<1>6. ASSUME NEW k \in Sessions, Expire(k) PROVE Goal
  <2>1. rows'[k] = [rows[k] EXCEPT !.status = "expired"] /\ rows[k] \in Row /\ rows[k].status = "pending"
    BY <1>1, <1>6 DEF Expire
  <2>2. rows'[k] \in Row /\ rows'[k].status = "expired"
           /\ rows'[k].email = rows[k].email /\ rows'[k].plan = rows[k].plan
    BY <2>1 DEF Row
  <2>3. (k # s => rows'[s] = rows[s]) /\ provider' = provider
    BY <1>1, <1>6 DEF Expire
  <2> QED BY <1>2, <2>1, <2>2, <2>3, NoRowAssumption DEF Completed
<1>7. ASSUME NEW w \in Workers, NEW k \in Sessions, Claim(w, k) PROVE Goal
  <2>1. rows'[k] = [rows[k] EXCEPT !.status = "completed"] /\ rows[k] \in Row
    BY <1>1, <1>2, <1>7 DEF Claim, Dispatched
  <2>2. rows'[k] \in Row /\ rows'[k].status = "completed"
           /\ rows'[k].email = rows[k].email /\ rows'[k].plan = rows[k].plan
    BY <2>1 DEF Row
  <2>3. (k # s => rows'[s] = rows[s]) /\ provider' = provider
    BY <1>1, <1>7 DEF Claim
  <2>4. k = s => \E v \in Workers : Claim(v, s)
    BY <1>7
  <2> QED BY <1>2, <2>1, <2>2, <2>3, <2>4, NoRowAssumption DEF Completed
<1>8. ASSUME \E w \in Workers, k \in Sessions : AckClaimed(w, k) PROVE Goal
  BY <1>3, <1>8 DEF AckClaimed, RowsUntouched
<1>9. ASSUME \E p \in Plans : EditPlan(p) PROVE Goal
  BY <1>3, <1>9 DEF EditPlan, RowsUntouched
<1>10. ASSUME \E e \in Addresses : SignUp(e) PROVE Goal
  BY <1>3, <1>10 DEF SignUp, RowsUntouched
<1>11. ASSUME Crash \/ UNCHANGED vars PROVE Goal
  BY <1>3, <1>11 DEF Crash, vars, RowsUntouched
<1>12. ASSUME \E w \in Workers : Handler(w) PROVE Goal
  BY <1>3, <1>12, HandlersLeaveRows
<1> HIDE DEF Goal
<1>13. Goal
  BY <1>4, <1>5, <1>6, <1>7, <1>8, <1>9, <1>10, <1>11, <1>12 DEF Next
<1> QED BY <1>13 DEF Goal

\* A step of a handler is its own: it moves no other, and it keeps its session
\* until it is done.
LEMMA HandlersKeepApart ==
  ASSUME IInv, NEW w \in Workers, Handler(w)
  PROVE  /\ Busy(w)
         /\ \A v \in Workers \ {w} :
              /\ at'[v] = at[v] /\ job'[v] = job[v]
              /\ purchased'[v] = purchased[v] /\ named'[v] = named[v]
         /\ at'[w] = "idle" \/ job'[w] = job[w]
<1>1. /\ at \in [Workers -> Steps] /\ job \in [Workers -> Sessions \cup {NoSession}]
      /\ purchased \in [Workers -> Plans \cup {NoPlan}]
      /\ named \in [Workers -> Slugs \cup {NoPlan}]
  BY DEF IInv, TypeOK
<1>2. CASE ResolvePlan(w)
  BY <1>1, <1>2 DEF ResolvePlan, Goto, Busy
<1>3. CASE RefuseUnresolved(w) \/ FindAccount(w) \/ FindNobody(w)
  BY <1>1, <1>3 DEF RefuseUnresolved, FindAccount, FindNobody, HandlerStep, Goto, Busy
<1>4. CASE Seat(w) \/ Mint(w)
  BY <1>1, <1>4 DEF Seat, Mint, Goto, Busy
<1>5. CASE MintOutrun(w) \/ DeliveryError(w)
  BY <1>1, <1>5 DEF MintOutrun, DeliveryError, Goto, Busy
<1>6. CASE Answer(w) \/ Fail(w)
  BY <1>1, <1>6 DEF Answer, Fail, Release, Busy
<1> QED BY <1>2, <1>3, <1>4, <1>5, <1>6 DEF Handler

\* The environment's steps and the acknowledgements leave the handlers alone.
Bystander ==
  \/ \E s \in Sessions : Open(s) \/ Pay(s) \/ Lapse(s) \/ Expire(s)
  \/ \E w \in Workers, s \in Sessions : AckClaimed(w, s)
  \/ \E p \in Plans : EditPlan(p)
  \/ \E e \in Addresses : SignUp(e)
  \/ UNCHANGED vars

\* What the environment does is not about the handlers, nor about the history, save
\* that the plan editor leaves its mark on the sessions it crosses.
LEMMA BystandersStandBy ==
  ASSUME Bystander
  PROVE  UNCHANGED <<at, job, purchased, named, seatings, faulted, outrun, unsold, minted>>
BY DEF Bystander, Open, Pay, Lapse, ProviderStep, Expire, AckClaimed, EditPlan, SignUp,
       handlers, accounts, history, vars

\* A step is the environment's, a claim, a handler's, or a restart.
LEMMA StepKinds ==
  ASSUME [Next]_vars
  PROVE  \/ Bystander
         \/ \E w \in Workers, s \in Sessions : Claim(w, s)
         \/ \E w \in Workers : Handler(w)
         \/ Crash
BY DEF Next, Bystander

\* The claim is exclusive: a session that a handler serves is completed, and no
\* other handler can claim it again.
LEMMA ExclusiveStep ==
  ASSUME IInv, [Next]_vars
  PROVE  ClaimIsExclusive'
<1>1. /\ at \in [Workers -> Steps] /\ job \in [Workers -> Sessions \cup {NoSession}]
      /\ ClaimIsExclusive
  BY DEF IInv, TypeOK
<1>2. \A s \in Sessions : Completed(s) => Completed(s)'
  BY RowsKept
<1>3. ASSUME Bystander PROVE ClaimIsExclusive'
  BY <1>1, <1>2, <1>3, BystandersStandBy DEF ClaimIsExclusive, Busy
<1>4. ASSUME NEW w \in Workers, NEW s \in Sessions, Claim(w, s) PROVE ClaimIsExclusive'
  <2>1. ~Completed(s) /\ Completed(s)'
    <3>1. rows \in [Sessions -> Row \cup {NoRow}] /\ rows[s] # NoRow
      BY <1>4 DEF IInv, TypeOK, OpenedHasRow, Claim, Dispatched
    <3>2. rows'[s] = [rows[s] EXCEPT !.status = "completed"] /\ rows[s] \in Row
      BY <1>4, <3>1 DEF Claim
    <3>3. rows'[s] \in Row /\ rows'[s].status = "completed"
      BY <3>2 DEF Row
    <3> QED BY <1>4, <3>3, NoRowAssumption DEF Claim, Completed
  <2>2. /\ at'[w] = "claimed" /\ job'[w] = s
        /\ \A v \in Workers \ {w} : at'[v] = at[v] /\ job'[v] = job[v]
    BY <1>1, <1>4 DEF Claim, Goto
  <2>3. \A v \in Workers : Busy(v) => job[v] # s
    BY <1>1, <2>1 DEF ClaimIsExclusive
  <2> QED BY <1>1, <1>2, <2>1, <2>2, <2>3 DEF ClaimIsExclusive, Busy
<1>5. ASSUME NEW w \in Workers, Handler(w) PROVE ClaimIsExclusive'
  <2>1. /\ Busy(w)
        /\ \A v \in Workers \ {w} : at'[v] = at[v] /\ job'[v] = job[v]
        /\ at'[w] = "idle" \/ job'[w] = job[w]
    BY <1>5, HandlersKeepApart
  <2>2. \A v \in Workers : Busy(v)' => Busy(v) /\ job'[v] = job[v]
    BY <2>1 DEF Busy
  <2> QED BY <1>1, <1>2, <2>2 DEF ClaimIsExclusive
<1>6. ASSUME Crash PROVE ClaimIsExclusive'
  BY <1>6 DEF Crash, ClaimIsExclusive, Busy
<1> QED BY <1>3, <1>4, <1>5, <1>6, StepKinds

\* Only a seat or a mint counts, for the session its handler has claimed.
LEMMA SeatingsStep ==
  ASSUME IInv, [Next]_vars, NEW s \in Sessions
  PROVE  \/ seatings'[s] = seatings[s]
         \/ \E w \in Workers :
              /\ Seat(w) \/ Mint(w)
              /\ Serving(w) /\ job[w] = s
              /\ seatings'[s] = seatings[s] + 1
<1>1. seatings \in [Sessions -> Nat]
  BY DEF IInv, TypeOK
<1>2. CASE Bystander
  BY <1>2, BystandersStandBy
<1>3. CASE Crash \/ \E w \in Workers, k \in Sessions : Claim(w, k)
  BY <1>3 DEF Crash, Claim, history
<1>4. ASSUME NEW w \in Workers, Seat(w) \/ Mint(w), seatings'[s] # seatings[s]
      PROVE  Serving(w) /\ job[w] = s /\ seatings'[s] = seatings[s] + 1
  BY <1>1, <1>4 DEF Seat, Mint, Seated, Serving
<1>5. ASSUME NEW w \in Workers, Handler(w), ~(Seat(w) \/ Mint(w))
      PROVE  seatings' = seatings
  BY <1>5 DEF Handler, ResolvePlan, RefuseUnresolved, FindAccount, FindNobody, HandlerStep,
              MintOutrun, DeliveryError, Answer, Fail, history
<1> QED BY <1>2, <1>3, <1>4, <1>5, StepKinds

\* A seat is counted from nought: its handler was serving, and nothing was seated.
LEMMA SeatedOnceStep ==
  ASSUME IInv, [Next]_vars
  PROVE  SeatedOnce'
<1>1. /\ seatings \in [Sessions -> Nat]
      /\ SeatedOnce /\ NothingSeatedYet
  BY DEF IInv, TypeOK
<1>2. SUFFICES ASSUME NEW s \in Sessions PROVE seatings'[s] <= 1
  BY DEF SeatedOnce
<1>3. CASE seatings'[s] = seatings[s]
  BY <1>1, <1>3 DEF SeatedOnce
<1>4. ASSUME NEW w \in Workers, Serving(w), job[w] = s, seatings'[s] = seatings[s] + 1
      PROVE  seatings'[s] <= 1
  BY <1>1, <1>4 DEF NothingSeatedYet
<1> QED BY <1>3, <1>4, SeatingsStep

\* Who serves after a step: the handler that has just claimed, or one that was
\* serving the same session before and has not seated.
LEMMA ServingStep ==
  ASSUME IInv, [Next]_vars, NEW w \in Workers, Serving(w)'
  PROVE  \/ Serving(w) /\ job'[w] = job[w] /\ ~Seat(w) /\ ~Mint(w)
         \/ job'[w] \in Sessions /\ Claim(w, job'[w])
<1>1. at \in [Workers -> Steps] /\ job \in [Workers -> Sessions \cup {NoSession}]
  BY DEF IInv, TypeOK
<1>2. ~Seat(w) /\ ~Mint(w)
  BY <1>1 DEF Serving, Seat, Mint, Goto
<1>3. CASE Bystander
  BY <1>2, <1>3, BystandersStandBy DEF Serving
<1>4. ASSUME NEW v \in Workers, NEW s \in Sessions, Claim(v, s)
      PROVE  \/ Serving(w) /\ job'[w] = job[w]
             \/ job'[w] \in Sessions /\ Claim(w, job'[w])
  <2>1. CASE v = w
    <3>1. job'[w] = s
      BY <1>1, <1>4, <2>1 DEF Claim
    <3> QED BY <1>4, <2>1, <3>1
  <2>2. CASE v # w
    BY <1>1, <1>4, <2>2 DEF Claim, Goto, Serving
  <2> QED BY <2>1, <2>2
<1>5. ASSUME NEW v \in Workers, Handler(v)
      PROVE  Serving(w) /\ job'[w] = job[w]
  <2>1. CASE v # w
    BY <1>5, <2>1, HandlersKeepApart DEF Serving
  <2>2. CASE v = w
    <3>1. at'[w] # "idle" /\ at'[w] # "answer"
      BY DEF Serving
    <3>2. ResolvePlan(w) \/ FindAccount(w) \/ FindNobody(w)
      BY <1>1, <1>2, <1>5, <2>2, <3>1
         DEF Handler, RefuseUnresolved, HandlerStep, MintOutrun, DeliveryError, Answer, Fail,
             Release, Goto
    <3> QED BY <3>2 DEF ResolvePlan, FindAccount, FindNobody, HandlerStep, Serving
  <2> QED BY <2>1, <2>2
<1>6. ~Crash
  BY DEF Crash, Serving
<1> QED BY <1>2, <1>3, <1>4, <1>5, <1>6, StepKinds

\* Neither before the claim nor while it is being served has a session seated.
LEMMA NothingSeatedStep ==
  ASSUME IInv, [Next]_vars
  PROVE  NothingSeatedYet'
<1>1. ClaimIsExclusive /\ NothingSeatedYet
  BY DEF IInv
<1>2. ASSUME NEW s \in Sessions, ~Completed(s)'
      PROVE  seatings'[s] = 0
  <2>1. ~Completed(s)
    BY <1>2, RowsKept
  <2>2. \A w \in Workers : Serving(w) => job[w] # s
    BY <1>1, <2>1 DEF ClaimIsExclusive, Serving, Busy
  <2>3. seatings'[s] = seatings[s]
    BY <2>2, SeatingsStep
  <2> QED BY <1>1, <2>1, <2>3 DEF NothingSeatedYet
<1>3. ASSUME NEW w \in Workers, Serving(w)'
      PROVE  seatings'[job'[w]] = 0
  <2>1. CASE job'[w] \in Sessions /\ Claim(w, job'[w])
    <3>1. rows[job'[w]].status = "pending" /\ UNCHANGED seatings
      BY <2>1 DEF Claim, history
    <3> QED BY <1>1, <2>1, <3>1 DEF NothingSeatedYet, Completed
  <2>2. CASE Serving(w) /\ job'[w] = job[w] /\ ~Seat(w) /\ ~Mint(w)
    <3>1. job[w] \in Sessions
      BY <1>1, <2>2 DEF ClaimIsExclusive, Serving, Busy
    <3>2. ASSUME NEW v \in Workers, Seat(v) \/ Mint(v), Serving(v), job[v] = job[w]
          PROVE  FALSE
      BY <1>1, <2>2, <3>2 DEF ClaimIsExclusive, Serving, Busy
    <3>3. seatings'[job[w]] = seatings[job[w]]
      BY <3>1, <3>2, SeatingsStep
    <3> QED BY <1>1, <2>2, <3>3 DEF NothingSeatedYet
  <2> QED BY <1>3, <2>1, <2>2, ServingStep
<1> QED BY <1>2, <1>3 DEF NothingSeatedYet

\* What went wrong for a session is never forgotten.
LEMMA HistoryGrows ==
  ASSUME [Next]_vars
  PROVE  /\ unsold \subseteq unsold' /\ edited \subseteq edited'
         /\ faulted \subseteq faulted' /\ outrun \subseteq outrun'
<1>1. CASE \/ \E s \in Sessions : Open(s) \/ Pay(s) \/ Lapse(s) \/ Expire(s)
           \/ \E w \in Workers, s \in Sessions : Claim(w, s) \/ AckClaimed(w, s)
           \/ \E e \in Addresses : SignUp(e)
           \/ UNCHANGED vars
  BY <1>1 DEF Open, Pay, Lapse, ProviderStep, Expire, Claim, AckClaimed, SignUp, vars, history
<1>2. CASE \E w \in Workers : Handler(w)
  BY <1>2 DEF Handler, ResolvePlan, RefuseUnresolved, FindAccount, FindNobody, HandlerStep,
              Seat, Mint, MintOutrun, DeliveryError, Answer, Fail, history
<1>3. CASE Crash \/ \E p \in Plans : EditPlan(p)
  BY <1>3 DEF Crash, EditPlan
<1> QED BY <1>1, <1>2, <1>3 DEF Next

\* A handler's plan is its session's, or none because there is none to seat.
LEMMA HoldsStep ==
  ASSUME IInv, [Next]_vars
  PROVE  HoldsPurchase'
<1>1. /\ HoldsPurchase /\ ClaimIsExclusive
      /\ at \in [Workers -> Steps] /\ purchased \in [Workers -> Plans \cup {NoPlan}]
      /\ rows \in [Sessions -> Row \cup {NoRow}]
  BY DEF IInv, TypeOK
<1>2. SUFFICES ASSUME NEW w \in Workers, at'[w] \in {"find", "seat", "mint"}
               PROVE  /\ rows'[job'[w]].email # NoAddress
                      /\ purchased'[w] # NoPlan => purchased'[w] = rows'[job'[w]].plan
                      /\ purchased'[w] = NoPlan =>
                           rows'[job'[w]].plan = NoPlan \/ job'[w] \in unsold'
                      /\ at'[w] # "find" => purchased'[w] # NoPlan
  BY DEF HoldsPurchase
<1>3. ~Claim(w, job'[w])
  BY <1>1, <1>2 DEF Claim, Goto
<1>4. Serving(w) /\ job'[w] = job[w]
  BY <1>2, <1>3, ServingStep DEF Serving
<1>5. job[w] \in Sessions /\ Completed(job[w])
  BY <1>1, <1>4 DEF ClaimIsExclusive, Serving, Busy
<1>6. /\ rows'[job'[w]].email = rows[job[w]].email
      /\ rows'[job'[w]].plan = rows[job[w]].plan
      /\ rows[job[w]] \in Row
  BY <1>1, <1>4, <1>5, RowsKept DEF Completed
<1>7. unsold \subseteq unsold'
  BY HistoryGrows
<1>8. CASE at'[w] = at[w] /\ purchased'[w] = purchased[w]
  BY <1>1, <1>2, <1>4, <1>6, <1>7, <1>8 DEF HoldsPurchase
<1>9. CASE ResolvePlan(w)
  BY <1>1, <1>2, <1>5, <1>6, <1>7, <1>9, NamesAssumption
     DEF ResolvePlan, Goto, Row
<1>10. CASE FindAccount(w) \/ FindNobody(w)
  BY <1>1, <1>2, <1>6, <1>7, <1>10 DEF FindAccount, FindNobody, HandlerStep, HoldsPurchase
<1>11. CASE Bystander
  BY <1>8, <1>11, BystandersStandBy
<1>12. ASSUME NEW v \in Workers, NEW s \in Sessions, Claim(v, s)
       PROVE  at'[w] = at[w] /\ purchased'[w] = purchased[w]
  BY <1>1, <1>2, <1>12 DEF Claim, Goto
<1>13. ASSUME NEW v \in Workers, Handler(v), v # w
       PROVE  at'[w] = at[w] /\ purchased'[w] = purchased[w]
  BY <1>13, HandlersKeepApart
<1>14. ASSUME Handler(w) PROVE ResolvePlan(w) \/ FindAccount(w) \/ FindNobody(w)
  BY <1>1, <1>2, <1>14
     DEF Handler, RefuseUnresolved, HandlerStep, Seat, Mint, MintOutrun, DeliveryError, Answer,
         Fail, Release, Goto
<1>15. ~Crash
  BY <1>2 DEF Crash
<1> QED BY <1>8, <1>9, <1>10, <1>11, <1>12, <1>13, <1>14, <1>15, StepKinds

\* Who stands between the two reads after a step stood there before it, or has just
\* done the first.
LEMMA ReadingStep ==
  ASSUME IInv, [Next]_vars, NEW w \in Workers, at'[w] \in {"find", "mint"}
  PROVE  /\ job'[w] = job[w] /\ job[w] \in Sessions
         /\ \/ ResolvePlan(w)
            \/ /\ at[w] \in {"find", "mint"}
               /\ purchased'[w] = purchased[w] /\ named'[w] = named[w]
<1>1. /\ ClaimIsExclusive /\ at \in [Workers -> Steps]
      /\ job \in [Workers -> Sessions \cup {NoSession}]
  BY DEF IInv, TypeOK
<1>2. ~Claim(w, job'[w])
  BY <1>1 DEF Claim, Goto
<1>3. Serving(w) /\ job'[w] = job[w] /\ job[w] \in Sessions
  BY <1>1, <1>2, ServingStep DEF Serving, ClaimIsExclusive, Busy
<1>4. CASE Bystander
  BY <1>3, <1>4, BystandersStandBy
<1>5. ASSUME NEW v \in Workers, NEW s \in Sessions, Claim(v, s)
      PROVE  at'[w] = at[w] /\ purchased' = purchased /\ named' = named
  BY <1>1, <1>5 DEF Claim, Goto
<1>6. ASSUME NEW v \in Workers, Handler(v), v # w
      PROVE  at'[w] = at[w] /\ purchased'[w] = purchased[w] /\ named'[w] = named[w]
  BY <1>6, HandlersKeepApart
<1>7. ASSUME Handler(w)
      PROVE  \/ ResolvePlan(w)
             \/ at[w] = "find" /\ purchased' = purchased /\ named' = named
  BY <1>1, <1>7
     DEF Handler, FindAccount, FindNobody, RefuseUnresolved, HandlerStep, Seat, Mint, MintOutrun,
         DeliveryError, Answer, Fail, Release, Goto
<1>8. ~Crash
  BY DEF Crash
<1> QED BY <1>3, <1>4, <1>5, <1>6, <1>7, <1>8, StepKinds

\* Nothing but the plan editor comes between the two reads of a plan.
LEMMA StillAsReadStep ==
  ASSUME IInv, [Next]_vars
  PROVE  StillAsRead'
<1>1. /\ StillAsRead /\ HoldsPurchase
      /\ purchased \in [Workers -> Plans \cup {NoPlan}]
      /\ named \in [Workers -> Slugs \cup {NoPlan}]
  BY DEF IInv, TypeOK
<1>2. SUFFICES ASSUME NEW w \in Workers, at'[w] \in {"find", "mint"},
                      purchased'[w] # NoPlan, job'[w] \notin edited'
               PROVE  named'[w] = slug'[purchased'[w]] /\ purchased'[w] \in active'
  BY DEF StillAsRead
<1>3. job[w] \notin edited /\ job'[w] = job[w]
  BY <1>2, ReadingStep, HistoryGrows
<1>4. CASE ResolvePlan(w)
  BY <1>1, <1>2, <1>4 DEF ResolvePlan, catalogue
<1>5. CASE /\ at[w] \in {"find", "mint"}
           /\ purchased'[w] = purchased[w] /\ named'[w] = named[w]
  <2>1. named[w] = slug[purchased[w]] /\ purchased[w] \in active
    BY <1>1, <1>2, <1>3, <1>5 DEF StillAsRead
  <2>2. ASSUME NEW p \in Plans, EditPlan(p)
        PROVE  slug'[purchased[w]] = slug[purchased[w]] /\ purchased[w] \in active'
    <3>1. w \notin BetweenReads(p)
      BY <1>2, <1>3, <2>2 DEF EditPlan
    <3>2. purchased[w] # p
      BY <1>5, <3>1 DEF BetweenReads
    <3>3. slug \in [Plans -> Slugs]
      BY DEF IInv, TypeOK, Injection
    <3> QED BY <1>1, <1>2, <1>5, <2>1, <2>2, <3>2, <3>3 DEF EditPlan
  <2>3. CASE UNCHANGED catalogue
    BY <1>5, <2>1, <2>3 DEF catalogue
  <2>4. UNCHANGED catalogue \/ \E p \in Plans : EditPlan(p)
    BY DEF Next, Open, Pay, Lapse, ProviderStep, Expire, Claim, AckClaimed, SignUp, Crash, Handler,
           ResolvePlan, RefuseUnresolved, FindAccount, FindNobody, HandlerStep, Seat, Mint,
           MintOutrun, DeliveryError, Answer, Fail, vars
  <2> QED BY <1>5, <2>1, <2>2, <2>3, <2>4
<1> QED BY <1>2, <1>4, <1>5, ReadingStep

\* The slug is a key: as long as nobody edits it, the second read of a plan finds
\* the plan that the first one found, and no other.
LEMMA SecondReadAgrees ==
  ASSUME IInv, NEW w \in Workers, Mint(w), job[w] \notin edited
  PROVE  OnSaleAs(named[w]) = {purchased[w]}
<1>1. purchased[w] # NoPlan /\ purchased[w] \in Plans
  BY DEF IInv, TypeOK, HoldsPurchase, Mint
<1>2. named[w] = slug[purchased[w]] /\ purchased[w] \in active
  BY <1>1 DEF IInv, StillAsRead, Mint
<1>3. slug \in Injection(Plans, Slugs) /\ active \subseteq Plans
  BY DEF IInv, TypeOK
<1> QED BY <1>1, <1>2, <1>3 DEF OnSaleAs, Injection, IsInjective

\* A handler leaves off serving only with a reason that PaidIsSettled names.
LEMMA SettledStep ==
  ASSUME IInv, [Next]_vars
  PROVE  PaidIsSettled'
<1>1. /\ PaidIsSettled /\ ClaimIsExclusive /\ HoldsPurchase /\ StillAsRead
      /\ NothingSeatedYet
      /\ at \in [Workers -> Steps] /\ purchased \in [Workers -> Plans \cup {NoPlan}]
      /\ rows \in [Sessions -> Row \cup {NoRow}] /\ seatings \in [Sessions -> Nat]
  BY DEF IInv, TypeOK
<1>2. SUFFICES ASSUME NEW s \in Sessions, Completed(s)'
               PROVE  \/ seatings'[s] = 1
                      \/ \E w \in Workers : Serving(w)' /\ job'[w] = s
                      \/ rows'[s].email = NoAddress
                      \/ rows'[s].plan = NoPlan
                      \/ s \in unsold' \cup edited' \cup faulted' \cup outrun'
  BY DEF PaidIsSettled
<1>3. CASE ~Completed(s)
  <2>1. PICK w \in Workers : Claim(w, s)
    BY <1>2, <1>3, RowsKept
  <2>2. Serving(w)' /\ job'[w] = s
    <3>1. job \in [Workers -> Sessions \cup {NoSession}]
      BY DEF IInv, TypeOK
    <3> QED BY <1>1, <2>1, <3>1 DEF Claim, Goto, Serving
  <2> QED BY <2>2
<1>4. CASE Completed(s)
  <2>1. rows'[s].email = rows[s].email /\ rows'[s].plan = rows[s].plan
    BY <1>4, RowsKept DEF Completed
  <2>2. unsold \cup edited \cup faulted \cup outrun
          \subseteq unsold' \cup edited' \cup faulted' \cup outrun'
    BY HistoryGrows
  <2>3. CASE \/ rows[s].email = NoAddress
             \/ rows[s].plan = NoPlan
             \/ s \in unsold \cup edited \cup faulted \cup outrun
    BY <2>1, <2>2, <2>3
  <2>4. CASE seatings[s] = 1
    <3>1. ASSUME NEW w \in Workers, Serving(w), job[w] = s PROVE FALSE
      BY <1>1, <2>4, <3>1 DEF NothingSeatedYet
    <3> QED BY <2>4, <3>1, SeatingsStep
  <2>5. ASSUME NEW w \in Workers, Serving(w), job[w] = s,
               rows[s].email # NoAddress, rows[s].plan # NoPlan,
               s \notin unsold \cup edited
        PROVE  \/ seatings'[s] = 1
               \/ Serving(w)' /\ job'[w] = s
               \/ s \in faulted' \cup outrun'
    <3>0. seatings[s] = 0
      BY <1>1, <2>5 DEF NothingSeatedYet
    <3>1. CASE Bystander
      BY <2>5, <3>1, BystandersStandBy DEF Serving
    <3>2. ASSUME NEW v \in Workers, NEW k \in Sessions, Claim(v, k)
          PROVE  Serving(w)' /\ job'[w] = s
      <4>1. v # w
        BY <2>5, <3>2 DEF Claim, Dispatched, Serving
      <4> QED BY <1>1, <2>5, <3>2, <4>1 DEF Claim, Goto, Serving, IInv, TypeOK
    <3>3. ASSUME NEW v \in Workers, Handler(v), v # w
          PROVE  Serving(w)' /\ job'[w] = s
      BY <2>5, <3>3, HandlersKeepApart DEF Serving
    <3>4. CASE Crash
      BY <2>5, <3>4 DEF Crash, Serving
    <3>5. CASE ResolvePlan(w)
      BY <1>1, <2>5, <3>5 DEF ResolvePlan, Goto, Serving
    <3>6. CASE RefuseUnresolved(w)
      BY <1>1, <2>5, <3>6 DEF RefuseUnresolved, HandlerStep, HoldsPurchase
    <3>7. CASE FindAccount(w) \/ FindNobody(w)
      BY <1>1, <2>5, <3>7 DEF FindAccount, FindNobody, HandlerStep, Goto, Serving
    <3>8. CASE Seat(w)
      BY <1>1, <2>5, <3>0, <3>8 DEF Seat, Seated
    <3>9. CASE Mint(w)
      <4>1. OnSaleAs(named[w]) = {purchased[w]}
        BY <2>5, <3>9, SecondReadAgrees
      <4> QED BY <1>1, <2>5, <3>0, <3>9, <4>1 DEF Mint, Seated
    <3>10. CASE MintOutrun(w) \/ DeliveryError(w)
      BY <2>5, <3>10 DEF MintOutrun, DeliveryError
    <3>11. CASE Fail(w)
      BY <2>5, <3>11 DEF Fail, Serving
    <3>12. ~Answer(w)
      BY <2>5 DEF Answer, Serving
    <3> QED BY <3>1, <3>2, <3>3, <3>4, <3>5, <3>6, <3>7, <3>8, <3>9, <3>10, <3>11, <3>12,
               StepKinds DEF Handler
  <2> QED BY <1>1, <1>4, <2>1, <2>3, <2>4, <2>5 DEF PaidIsSettled
<1> QED BY <1>3, <1>4

-----------------------------------------------------------------------------

\* The invariant holds at the start ...
LEMMA InitIInv ==
  ASSUME Init
  PROVE  IInv
<1> USE NoRowAssumption DEF Init
<1>1. TypeOK
  BY PayersAssumption DEF TypeOK, Steps
<1>2. OpenedHasRow /\ ClaimIsExclusive /\ NothingSeatedYet
  BY DEF OpenedHasRow, ClaimIsExclusive, NothingSeatedYet, Busy, Serving, Completed
<1>3. HoldsPurchase /\ StillAsRead /\ SeatedOnce /\ PaidIsSettled
  BY DEF HoldsPurchase, StillAsRead, SeatedOnce, PaidIsSettled, Completed
<1> QED BY <1>1, <1>2, <1>3 DEF IInv

\* ... and every step keeps it.
LEMMA StepIInv ==
  ASSUME IInv, [Next]_vars
  PROVE  IInv'
<1>1. OpenedHasRow'
  BY RowsKept DEF OpenedHasRow
<1> QED BY <1>1, TypeStep, ExclusiveStep, NothingSeatedStep, HoldsStep, StillAsReadStep,
           SeatedOnceStep, SettledStep DEF IInv

\* The invariant above holds of every behaviour.
THEOREM Invariance == Spec => []IInv
<1>1. Init => IInv
  BY InitIInv
<1>2. IInv /\ [Next]_vars => IInv'
  BY StepIInv
<1> QED BY <1>1, <1>2, PTL DEF Spec

\* The state is always well typed.
THEOREM TypeCorrect == Spec => []TypeOK
<1>1. IInv => TypeOK
  BY DEF IInv
<1> QED BY <1>1, Invariance, PTL

\* However many deliveries and handlers there are, a session seats its plan at
\* most once (the guarded UPDATE of handle_checkout_completed).
THEOREM AtMostOneSeat == Spec => []SeatedOnce
<1>1. IInv => SeatedOnce
  BY DEF IInv
<1> QED BY <1>1, Invariance, PTL

\* A completed session has seated a plan, or is being served, or one of the six
\* causes that PaidIsSeated lists applies to it: there is no seventh.
THEOREM PaidSessionsSeated == Spec => []PaidIsSeated
<1>1. IInv => PaidIsSeated
  BY DEF IInv, PaidIsSettled, PaidIsSeated, AtWork, Serving
<1> QED BY <1>1, Invariance, PTL

-----------------------------------------------------------------------------

\* What a change of an account's plan may be.
BoughtOrSignedUp(e) ==
  \/ e \notin users /\ e \in users' /\ seat'[e] = Free
  \/ \E s \in Sessions :
       /\ seatings'[s] = seatings[s] + 1
       /\ Completed(s)
       /\ rows[s].email = e /\ seat'[e] # NoPlan
       /\ \/ rows[s].plan = seat'[e]
          \/ s \in edited /\ e \notin users

\* The only writers of a seat: a signup, for a new account, and a handler, for the
\* purchase it has claimed.
LEMMA SeatStep ==
  ASSUME IInv, [Next]_vars, NEW e \in Addresses, seat'[e] # seat[e]
  PROVE  BoughtOrSignedUp(e)
<1>1. /\ ClaimIsExclusive /\ HoldsPurchase /\ seatings \in [Sessions -> Nat]
      /\ seat \in [Addresses -> Plans \cup {Free, NoPlan}]
      /\ active \subseteq Plans
  BY DEF IInv, TypeOK
<1>2. ASSUME NEW a \in Addresses, SignUp(a)
      PROVE  BoughtOrSignedUp(e)
  BY <1>1, <1>2 DEF SignUp, BoughtOrSignedUp
<1>3. ASSUME NEW w \in Workers, Seat(w) \/ Mint(w)
      PROVE  BoughtOrSignedUp(e)
  <2>1. Busy(w) /\ at[w] \in {"seat", "mint"}
    BY <1>3 DEF Seat, Mint, Busy
  <2>2. job[w] \in Sessions /\ Completed(job[w]) /\ purchased[w] = rows[job[w]].plan
          /\ purchased[w] # NoPlan
    BY <1>1, <2>1 DEF ClaimIsExclusive, HoldsPurchase
  <2>3. rows[job[w]].email = e /\ seatings' = [seatings EXCEPT ![job[w]] = @ + 1]
    BY <1>1, <1>3 DEF Seat, Mint, Seated
  <2>4. seatings'[job[w]] = seatings[job[w]] + 1
    BY <1>1, <2>2, <2>3
  <2>5. CASE Seat(w)
    BY <1>1, <2>2, <2>3, <2>4, <2>5 DEF Seat, BoughtOrSignedUp
  <2>6. CASE Mint(w)
    <3>1. PICK p \in OnSaleAs(named[w]) : seat' = [seat EXCEPT ![e] = p]
      BY <2>3, <2>6 DEF Mint
    <3>2. seat'[e] = p /\ p # NoPlan
      BY <1>1, <3>1, NamesAssumption DEF OnSaleAs
    <3>3. job[w] \notin edited => p = purchased[w]
      BY <2>6, <3>1, SecondReadAgrees
    <3>4. e \notin users
      BY <2>3, <2>6 DEF Mint
    <3> QED BY <2>2, <2>3, <2>4, <3>2, <3>3, <3>4 DEF BoughtOrSignedUp
  <2> QED BY <1>3, <2>5, <2>6
<1>4. ASSUME NEW w \in Workers, Handler(w), ~(Seat(w) \/ Mint(w))
      PROVE  FALSE
  BY <1>4 DEF Handler, ResolvePlan, RefuseUnresolved, FindAccount, FindNobody, HandlerStep,
              MintOutrun, DeliveryError, Answer, Fail, accounts
<1>5. ASSUME \/ \E s \in Sessions : Open(s) \/ Pay(s) \/ Lapse(s) \/ Expire(s)
             \/ \E w \in Workers, s \in Sessions : Claim(w, s) \/ AckClaimed(w, s)
             \/ \E p \in Plans : EditPlan(p)
             \/ Crash \/ UNCHANGED vars
      PROVE  FALSE
  BY <1>5 DEF Open, Pay, Lapse, ProviderStep, Expire, Claim, AckClaimed, EditPlan, Crash,
              accounts, vars
<1> QED BY <1>2, <1>3, <1>4, <1>5 DEF Next

\* A plan moves only on the account it was bought for, to the plan that was
\* bought, or to one that took over its slug between the two reads of it
\* (seat_plan_for_tenant, create_account); never on the payer's.
THEOREM OnlyBoughtSeats == Spec => SeatsAsBought
<1>1. IInv /\ [Next]_vars => [\A e \in Addresses : seat'[e] # seat[e] => BoughtOrSignedUp(e)]_vars
  BY SeatStep
<1>2. [\A e \in Addresses : seat'[e] # seat[e] => BoughtOrSignedUp(e)]_vars
        => [\A e \in Addresses : seat'[e] # seat[e] =>
              \/ e \notin users /\ e \in users' /\ seat'[e] = Free
              \/ \E s \in Sessions :
                   /\ seatings'[s] = seatings[s] + 1
                   /\ Completed(s)
                   /\ rows[s].email = e /\ seat'[e] # NoPlan
                   /\ \/ rows[s].plan = seat'[e]
                      \/ s \in edited /\ e \notin users]_vars
  BY DEF BoughtOrSignedUp
<1> QED BY <1>1, <1>2, Invariance, PTL DEF Spec, SeatsAsBought

\* The address that a session created an account for keeps it.
MintsExist == \A s \in minted : Completed(s) /\ rows[s].email \in users

\* The further invariant about minted accounts.
MintedIInv == MintsExist /\ MintedOnPlan

\* Only a mint adds to the accounts that sessions created, and no account goes.
LEMMA MintingStep ==
  ASSUME [Next]_vars
  PROVE  /\ users \subseteq users'
         /\ \/ minted' = minted
            \/ \E w \in Workers : /\ Mint(w)
                                  /\ minted' = minted \cup {job[w]}
                                  /\ users' = users \cup {rows[job[w]].email}
<1>1. ASSUME NEW w \in Workers, Handler(w), ~Mint(w)
      PROVE  minted' = minted /\ users' = users
  BY <1>1 DEF Handler, ResolvePlan, RefuseUnresolved, FindAccount, FindNobody, HandlerStep,
              Seat, MintOutrun, DeliveryError, Answer, Fail, accounts, history
<1>2. ASSUME NEW w \in Workers, Mint(w)
      PROVE  /\ minted' = minted \cup {job[w]}
             /\ users' = users \cup {rows[job[w]].email}
  BY <1>2 DEF Mint
<1>3. ASSUME \/ \E s \in Sessions : Open(s) \/ Pay(s) \/ Lapse(s) \/ Expire(s)
             \/ \E w \in Workers, s \in Sessions : Claim(w, s) \/ AckClaimed(w, s)
             \/ \E p \in Plans : EditPlan(p)
             \/ \E e \in Addresses : SignUp(e)
             \/ Crash \/ UNCHANGED vars
      PROVE  minted' = minted /\ users \subseteq users'
  BY <1>3 DEF Open, Pay, Lapse, ProviderStep, Expire, Claim, AckClaimed, EditPlan, SignUp,
              Crash, accounts, history, vars
<1> QED BY <1>1, <1>2, <1>3 DEF Next

\* What MintedOnPlan says of one session that created an account.
OnBoughtPlan(s) ==
  \E t \in Sessions :
    /\ rows[t] # NoRow /\ rows[t].email = rows[s].email
    /\ rows[t].plan = seat[rows[s].email] /\ rows[t].plan # NoPlan

\* A minted account keeps a plan that was bought for its address.
LEMMA MintedStep ==
  ASSUME IInv, MintedIInv, [Next]_vars
  PROVE  MintedIInv'
<1>1. /\ ClaimIsExclusive /\ HoldsPurchase
      /\ minted \subseteq Sessions
      /\ seat \in [Addresses -> Plans \cup {Free, NoPlan}]
      /\ purchased \in [Workers -> Plans \cup {NoPlan}]
      /\ users \subseteq Addresses
  BY DEF IInv, TypeOK
<1>2. edited \subseteq edited' /\ users \subseteq users'
  BY HistoryGrows, MintingStep
<1>3. ASSUME NEW s \in minted
      PROVE  Completed(s)' /\ rows'[s].email = rows[s].email /\ rows'[s].email \in users'
  BY <1>1, <1>2, <1>3, RowsKept DEF MintedIInv, MintsExist, Completed
<1>4. ASSUME NEW s \in minted \ edited
      PROVE  OnBoughtPlan(s)'
  <2>1. PICK t \in Sessions : /\ rows[t] # NoRow /\ rows[t].email = rows[s].email
                              /\ rows[t].plan = seat[rows[s].email] /\ rows[t].plan # NoPlan
    BY <1>4 DEF MintedIInv, MintedOnPlan
  <2>2. PICK e \in users : e = rows[s].email
    BY <1>4 DEF MintedIInv, MintsExist
  <2>3. rows'[s].email = e /\ e \in Addresses
    BY <1>1, <1>3, <1>4, <2>2
  <2>4. CASE seat'[e] = seat[e]
    <3>1. /\ rows'[t] # NoRow
          /\ rows'[t].email = rows[t].email /\ rows'[t].plan = rows[t].plan
      BY <2>1, RowsKept
    <3> QED BY <2>1, <2>2, <2>3, <2>4, <3>1 DEF OnBoughtPlan
  <2>5. CASE seat'[e] # seat[e]
    <3>1. BoughtOrSignedUp(e)
      BY <2>3, <2>5, SeatStep
    <3>2. PICK k \in Sessions : /\ Completed(k) /\ rows[k].email = e
                                /\ rows[k].plan = seat'[e] /\ seat'[e] # NoPlan
      BY <2>2, <3>1 DEF BoughtOrSignedUp
    <3>3. /\ rows'[k] # NoRow
          /\ rows'[k].email = rows[k].email /\ rows'[k].plan = rows[k].plan
      BY <3>2, RowsKept DEF Completed
    <3> QED BY <2>3, <3>2, <3>3 DEF OnBoughtPlan
  <2> QED BY <2>4, <2>5
<1>5. ASSUME NEW w \in Workers, Mint(w), NEW s, s = job[w]
      PROVE  /\ s \in Sessions /\ Completed(s) /\ rows' = rows
             /\ s \notin edited => OnBoughtPlan(s)'
  <2>1. s \in Sessions /\ Completed(s) /\ purchased[w] = rows[s].plan /\ purchased[w] # NoPlan
    BY <1>1, <1>5 DEF ClaimIsExclusive, HoldsPurchase, Mint, Busy
  <2>2. rows[s].email \in Addresses /\ rows' = rows /\ rows[s] # NoRow
    BY <1>1, <1>5, <2>1, RowsAreRows DEF HoldsPurchase, Mint, Completed, Row, IInv
  <2>3. CASE s \notin edited
    <3>1. OnSaleAs(named[w]) = {purchased[w]}
      BY <1>5, <2>3, SecondReadAgrees
    <3>2. seat'[rows[s].email] = purchased[w]
      BY <1>1, <1>5, <2>2, <3>1 DEF Mint
    <3> QED BY <2>1, <2>2, <3>2 DEF OnBoughtPlan
  <2> QED BY <2>1, <2>2, <2>3
<1>6. MintsExist'
  <2>1. CASE minted' = minted
    BY <1>3, <2>1 DEF MintsExist
  <2>2. ASSUME NEW w \in Workers, Mint(w), minted' = minted \cup {job[w]},
               users' = users \cup {rows[job[w]].email}
        PROVE  MintsExist'
    <3>1. PICK s : s = job[w]
      OBVIOUS
    <3> QED BY <1>3, <1>5, <2>2, <3>1 DEF MintsExist, Completed
  <2> QED BY <2>1, <2>2, MintingStep
<1>7. ASSUME NEW s \in minted' \ edited'
      PROVE  OnBoughtPlan(s)'
  BY <1>2, <1>4, <1>5, <1>7, MintingStep
<1>8. MintedOnPlan'
  BY <1>7 DEF MintedOnPlan, OnBoughtPlan
<1> QED BY <1>6, <1>8 DEF MintedIInv

\* An account that a paid session creates is on a plan that was bought for its
\* address, whatever the plan editor does outside that session's two reads
\* (deliver_credentials, create_account).
THEOREM MintsAreSeated == Spec => []MintedOnPlan
<1>1. Init => MintedIInv
  BY DEF Init, MintedIInv, MintsExist, MintedOnPlan
<1>2. IInv /\ MintedIInv /\ [Next]_vars => MintedIInv'
  BY MintedStep
<1>3. MintedIInv => MintedOnPlan
  BY DEF MintedIInv
<1> QED BY <1>1, <1>2, <1>3, Invariance, PTL DEF Spec
=============================================================================
