----------------------------- MODULE PaidCheckout -----------------------------
(***************************************************************************)
(* A paid checkout, from the session to the seat                           *)
(* (src/src/handlers/checkout_handler.rs): create_checkout_session opens a *)
(* session at Stripe or PayPal and stores it as pending; the provider takes*)
(* the money and delivers a completion event, again and again until it is  *)
(* answered 2xx; stripe_webhook and paypal_webhook hand a verified event   *)
(* to handle_checkout_completed, which claims the session and has          *)
(* deliver_credentials seat the plan or mint the account.                  *)
(*                                                                         *)
(* The claim, the reads and the seat are separate statements, so handlers  *)
(* of several deliveries, the operator's plan editor and the public signup *)
(* interleave with them: one action per statement. A delivery that does    *)
(* not verify changes nothing and is delivered again: it is no step here.  *)
(***************************************************************************)
EXTENDS Naturals, Functions

CONSTANTS
  Sessions, Workers,   \* sessions to open; webhook requests served at a time
  Addresses,           \* e-mail addresses; each one's account is its own tenant
  Payers,              \* those that are logged in and buy
  Plans, Free,         \* the plans on sale; the one a signup is seated on
  Slugs,               \* what a plan may be called in plans.slug
  NoAddress, NoPlan, NoSession, NoRow

ASSUME PayersAssumption == Payers \subseteq Addresses
ASSUME NamesAssumption ==
  /\ NoAddress \notin Addresses
  /\ Free \notin Plans /\ NoPlan \notin Plans \cup {Free}
  /\ NoPlan \notin Slugs /\ NoSession \notin Sessions
\* A row of checkout_sessions: what was opened, by whom and for which address
\* (metadata.customer_email, which the request may leave out). The plan is named
\* by its id, as the dashboard does; a caller that writes the plan's slug into
\* purchasable_type is left out.
Row == [status : {"pending", "completed", "expired"}, payer : Payers,
        email : Addresses \cup {NoAddress}, plan : Plans \cup {NoPlan}]

ASSUME NoRowAssumption == NoRow \notin Row

VARIABLES
  rows,      \* the table checkout_sessions
  provider,  \* what the payment provider has made of each session
  acked,     \* sessions whose completion event has been answered 2xx
  at,        \* where each webhook handler is
  job,       \* the session it has claimed
  purchased, \* the plan it resolved for it ...
  named,     \* ... and the slug it read along with it
  active,    \* plans.is_active
  slug,      \* plans.slug
  users,     \* addresses that have an account
  seat,      \* the plan of each account (tenant_plans)
  \* history, for the properties only
  seatings,  \* how often each session has seated its plan
  faulted,   \* sessions whose handler failed or died between claim and seat
  outrun,    \* sessions that found their address taken by a racing signup
  unsold,    \* sessions whose handler found their plan off sale
  edited,    \* sessions whose plan was edited between their handler's two reads
  minted     \* sessions that created an account

handlers == <<at, job, purchased, named>>
catalogue == <<active, slug>>
accounts == <<users, seat>>
history  == <<seatings, faulted, outrun, unsold, edited, minted>>
vars == <<rows, provider, acked, handlers, catalogue, accounts, history>>

Steps == {"idle", "claimed", "find", "seat", "mint", "answer"}

TypeOK ==
  /\ rows \in [Sessions -> Row \cup {NoRow}]
  /\ provider \in [Sessions -> {"none", "open", "paid", "lapsed"}]
  /\ acked \subseteq Sessions
  /\ at \in [Workers -> Steps]
  /\ job \in [Workers -> Sessions \cup {NoSession}]
  /\ purchased \in [Workers -> Plans \cup {NoPlan}]
  /\ named \in [Workers -> Slugs \cup {NoPlan}]
  /\ active \subseteq Plans
  /\ slug \in Injection(Plans, Slugs)  \* the column is UNIQUE
  /\ users \subseteq Addresses
  /\ seat \in [Addresses -> Plans \cup {Free, NoPlan}]
  /\ seatings \in [Sessions -> Nat]
  /\ faulted \subseteq Sessions /\ outrun \subseteq Sessions
  /\ unsold \subseteq Sessions /\ edited \subseteq Sessions /\ minted \subseteq Sessions

Init ==
  /\ rows = [s \in Sessions |-> NoRow]
  /\ provider = [s \in Sessions |-> "none"]
  /\ acked = {}
  /\ at = [w \in Workers |-> "idle"]
  /\ job = [w \in Workers |-> NoSession]
  /\ purchased = [w \in Workers |-> NoPlan]
  /\ named = [w \in Workers |-> NoPlan]
  /\ active = Plans
  /\ slug \in Injection(Plans, Slugs)
  /\ users = Payers
  /\ seat = [e \in Addresses |-> IF e \in Payers THEN Free ELSE NoPlan]
  /\ seatings = [s \in Sessions |-> 0]
  /\ faulted = {} /\ outrun = {} /\ unsold = {}
  /\ edited = {} /\ minted = {}

-----------------------------------------------------------------------------
(* The buyer, the provider, the operator and the public signup.             *)

\* create_checkout_session, once a provider that can charge is found: the
\* provider's session, then the row. Nothing checks that the plan is active,
\* and a purchase need not be of a plan.
Open(s) ==
  /\ rows[s] = NoRow
  /\ \E payer \in Payers, email \in Addresses \cup {NoAddress}, plan \in Plans \cup {NoPlan} :
       rows' = [rows EXCEPT ![s] = [status |-> "pending", payer |-> payer,
                                    email |-> email, plan |-> plan]]
  /\ provider' = [provider EXCEPT ![s] = "open"]
  /\ UNCHANGED <<acked, handlers, catalogue, accounts, history>>

ProviderStep(s, to) ==
  /\ provider[s] = "open"
  /\ provider' = [provider EXCEPT ![s] = to]
  /\ UNCHANGED <<rows, acked, handlers, catalogue, accounts, history>>

Pay(s)   == ProviderStep(s, "paid")
Lapse(s) == ProviderStep(s, "lapsed")

\* The requests that stand between resolve_purchased_plan, which reads the plan by
\* its id, and create_account, which reads it again by its slug.
BetweenReads(p) == {w \in Workers : at[w] \in {"find", "mint"} /\ purchased[w] = p}

\* update_plan, where it matters here: one UPDATE that may take the plan off sale
\* or put it back, and may give it another slug that is free.
EditPlan(p) ==
  /\ \E n \in Slugs \ {slug[q] : q \in Plans \ {p}} : slug' = [slug EXCEPT ![p] = n]
  /\ active' \in {active \cup {p}, active \ {p}}
  /\ catalogue' # catalogue
  /\ edited' = edited \cup {job[w] : w \in BetweenReads(p)}
  /\ UNCHANGED <<rows, provider, acked, handlers, accounts,
                 seatings, faulted, outrun, unsold, minted>>

\* register: somebody signs the address up on the free plan.
SignUp(e) ==
  /\ e \notin users
  /\ users' = users \cup {e}
  /\ seat' = [seat EXCEPT ![e] = Free]
  /\ UNCHANGED <<rows, provider, acked, handlers, catalogue, history>>

Completed(s) == rows[s] # NoRow /\ rows[s].status = "completed"

\* mark_session_expired
Expire(s) ==
  /\ provider[s] = "lapsed"
  /\ rows[s] # NoRow /\ rows[s].status = "pending"
  /\ rows' = [rows EXCEPT ![s].status = "expired"]
  /\ UNCHANGED <<provider, acked, handlers, catalogue, accounts, history>>

-----------------------------------------------------------------------------
(* The webhook handler.                                                     *)

Goto(w, step) == at' = [at EXCEPT ![w] = step]

\* stripe_webhook and paypal_webhook, with an event that verifies.
Dispatched(w, s) == at[w] = "idle" /\ provider[s] = "paid"

\* Mutant: the claim does not ask for a pending session.
ClaimAgain(w, s) ==
  /\ Dispatched(w, s)
  /\ rows' = [rows EXCEPT ![s].status = "completed"]
  /\ Goto(w, "claimed")
  /\ job' = [job EXCEPT ![w] = s]
  /\ UNCHANGED <<provider, acked, purchased, named, catalogue, accounts, history>>

\* Mutant: the claim writes the event's own word into the row.
ClaimAsPaid(w, s) ==
  /\ Dispatched(w, s)
  /\ rows[s].status = "pending"
  /\ rows' = [rows EXCEPT ![s].status = provider[s]]
  /\ Goto(w, "claimed")
  /\ job' = [job EXCEPT ![w] = s]
  /\ UNCHANGED <<provider, acked, purchased, named, catalogue, accounts, history>>

\* UPDATE ... SET status = 'completed' WHERE
\* status = 'pending', which lets one of any number of deliveries through.
Claim(w, s) ==
  /\ Dispatched(w, s)
  /\ rows[s].status = "pending"
  /\ rows' = [rows EXCEPT ![s].status = "completed"]
  /\ Goto(w, "claimed")
  /\ job' = [job EXCEPT ![w] = s]
  /\ UNCHANGED <<provider, acked, purchased, named, catalogue, accounts, history>>

\* Mutant: the event is acknowledged before it has been dispatched.
AckUnseen(w, s) ==
  /\ Dispatched(w, s)
  /\ acked' = acked \cup {s}
  /\ UNCHANGED <<rows, provider, handlers, catalogue, accounts, history>>

\* No pending session: 200, and nothing is done.
AckClaimed(w, s) ==
  /\ Dispatched(w, s)
  /\ rows[s].status # "pending"
  /\ acked' = acked \cup {s}
  /\ UNCHANGED <<rows, provider, handlers, catalogue, accounts, history>>

\* The session's own columns and resolve_purchased_plan, for which a plan off
\* sale is no plan. Without an address there is nobody to deliver to.
ResolvePlan(w) ==
  LET row == rows[job[w]]
      found == row.plan \in active IN
    /\ at[w] = "claimed"
    /\ purchased' = [purchased EXCEPT ![w] = IF found THEN row.plan ELSE NoPlan]
    /\ named' = [named EXCEPT ![w] = IF found THEN slug[row.plan] ELSE NoPlan]
    /\ unsold' = IF row.plan \in Plans \ active THEN unsold \cup {job[w]} ELSE unsold
    /\ Goto(w, IF row.email = NoAddress THEN "answer" ELSE "find")
    /\ UNCHANGED <<rows, provider, acked, job, catalogue, accounts,
                   seatings, faulted, outrun, edited, minted>>

HandlerStep(w, from, to) ==
  /\ at[w] = from
  /\ Goto(w, to)
  /\ UNCHANGED <<rows, provider, acked, job, purchased, named, catalogue, accounts, history>>

\* deliver_credentials with no plan: nothing is seated, nobody is minted, an
\* error is logged.
RefuseUnresolved(w) == purchased[w] = NoPlan /\ HandlerStep(w, "find", "answer")

\* Mutant: an existing customer gets a receipt and nothing else.
FindAccountOnly(w) ==
  /\ purchased[w] # NoPlan
  /\ rows[job[w]].email \in users
  /\ HandlerStep(w, "find", "answer")

\* SELECT ... FROM users WHERE email = $1
FindAccount(w) ==
  /\ purchased[w] # NoPlan
  /\ rows[job[w]].email \in users
  /\ HandlerStep(w, "find", "seat")

\* Mutant: an address without an account is minted one, plan or no plan.
FindNobodyUnrefused(w) ==
  /\ HandlerStep(w, "find", "mint")
  /\ rows[job[w]].email \notin users

FindNobody(w) ==
  /\ purchased[w] # NoPlan
  /\ rows[job[w]].email \notin users
  /\ HandlerStep(w, "find", "mint")

Seated(w) == seatings' = [seatings EXCEPT ![job[w]] = @ + 1]

\* Mutant: the plan is seated on the tenant that opened the session.
SeatPayer(w) ==
  /\ at[w] = "seat"
  /\ seat' = [seat EXCEPT ![rows[job[w]].payer] = purchased[w]]
  /\ Seated(w)
  /\ Goto(w, "answer")
  /\ UNCHANGED <<rows, provider, acked, job, purchased, named, catalogue,
                 users, faulted, outrun, unsold, edited, minted>>

\* seat_plan_for_tenant on the address's own account.
Seat(w) ==
  /\ at[w] = "seat"
  /\ seat' = [seat EXCEPT ![rows[job[w]].email] = purchased[w]]
  /\ Seated(w)
  /\ Goto(w, "answer")
  /\ UNCHANGED <<rows, provider, acked, job, purchased, named, catalogue,
                 users, faulted, outrun, unsold, edited, minted>>

\* SELECT id FROM plans WHERE slug = $1 AND is_active = true, inside create_account.
OnSaleAs(n) == {p \in active : slug[p] = n}

\* create_account, one transaction: user, tenant and the plan row, whose plan is
\* looked up a second time, by the slug. With none on sale under it by now, the
\* account is left without one.
Mint(w) ==
  LET e == rows[job[w]].email IN
    /\ at[w] = "mint"
    /\ e \notin users
    /\ users' = users \cup {e}
    /\ minted' = minted \cup {job[w]}
    /\ \/ OnSaleAs(named[w]) = {} /\ UNCHANGED <<seat, seatings>>
       \/ \E p \in OnSaleAs(named[w]) : seat' = [seat EXCEPT ![e] = p] /\ Seated(w)
    /\ Goto(w, "answer")
    /\ UNCHANGED <<rows, provider, acked, job, purchased, named, catalogue,
                   faulted, outrun, unsold, edited>>

\* email_taken, or users_email_key: 409. The caller logs it and goes on.
MintOutrun(w) ==
  /\ at[w] = "mint"
  /\ rows[job[w]].email \in users
  /\ outrun' = outrun \cup {job[w]}
  /\ Goto(w, "answer")
  /\ UNCHANGED <<rows, provider, acked, job, purchased, named, catalogue, accounts,
                 seatings, faulted, unsold, edited, minted>>

\* Any other error of deliver_credentials: it too is logged and answered 200.
DeliveryError(w) ==
  /\ at[w] \in {"find", "seat", "mint"}
  /\ faulted' = faulted \cup {job[w]}
  /\ Goto(w, "answer")
  /\ UNCHANGED <<rows, provider, acked, job, purchased, named, catalogue, accounts,
                 seatings, outrun, unsold, edited, minted>>

Release(w) ==
  /\ at' = [at EXCEPT ![w] = "idle"]
  /\ job' = [job EXCEPT ![w] = NoSession]
  /\ purchased' = [purchased EXCEPT ![w] = NoPlan]
  /\ named' = [named EXCEPT ![w] = NoPlan]

\* The affiliate call (best-effort) and 200.
Answer(w) ==
  /\ at[w] = "answer"
  /\ acked' = acked \cup {job[w]}
  /\ Release(w)
  /\ UNCHANGED <<rows, provider, catalogue, accounts, history>>

\* A statement before the delivery, or after it, fails: 5xx. The claim stays.
Fail(w) ==
  /\ at[w] \in {"claimed", "answer"}
  /\ faulted' = IF at[w] = "claimed" THEN faulted \cup {job[w]} ELSE faulted
  /\ Release(w)
  /\ UNCHANGED <<rows, provider, acked, catalogue, accounts, seatings, outrun, unsold, edited, minted>>

\* The process restarts and takes every handler with it.
Crash ==
  /\ faulted' = faulted \cup {job[w] : w \in {v \in Workers : at[v] \notin {"idle", "answer"}}}
  /\ at' = [w \in Workers |-> "idle"]
  /\ job' = [w \in Workers |-> NoSession]
  /\ purchased' = [w \in Workers |-> NoPlan]
  /\ named' = [w \in Workers |-> NoPlan]
  /\ UNCHANGED <<rows, provider, acked, catalogue, accounts, seatings, outrun, unsold, edited, minted>>

-----------------------------------------------------------------------------

Handler(w) ==
  \/ ResolvePlan(w) \/ RefuseUnresolved(w) \/ FindAccount(w) \/ FindNobody(w)
  \/ Seat(w) \/ Mint(w) \/ MintOutrun(w) \/ DeliveryError(w)
  \/ Answer(w) \/ Fail(w)

Next ==
  \/ \E s \in Sessions : Open(s) \/ Pay(s) \/ Lapse(s) \/ Expire(s)
  \/ \E w \in Workers, s \in Sessions : Claim(w, s) \/ AckClaimed(w, s)
  \/ \E w \in Workers : Handler(w)
  \/ \E p \in Plans : EditPlan(p)
  \/ \E e \in Addresses : SignUp(e)
  \/ Crash

Spec == Init /\ [][Next]_vars

\* The provider repeats the event of a session until it is answered 2xx, and
\* each request that is being served comes to an end.
FairSpec ==
  /\ Spec
  /\ \A s \in Sessions : WF_vars(s \notin acked /\ \E w \in Workers : Claim(w, s))
  /\ \A w \in Workers : WF_vars(Handler(w))

-----------------------------------------------------------------------------
(* What a paid checkout promises.                                           *)

AtWork(s) == \E w \in Workers : at[w] # "idle" /\ job[w] = s

\* Exactly once, the first half: however often the completion event of a session
\* is delivered, and by however many handlers at once, its plan is seated at
\* most once (the claim of handle_checkout_completed).
SeatedOnce == \A s \in Sessions : seatings[s] <= 1

\* Exactly once, the other half, with everything that breaks it: a completed
\* session has seated a plan or is being served, unless it was opened without an
\* address or a plan, its plan was off sale when the handler looked, or was edited
\* between the two reads of it, its handler failed or died after the claim, or its address was
\* signed up under it.
PaidIsSeated ==
  \A s \in Sessions :
    Completed(s) =>
      \/ seatings[s] = 1
      \/ AtWork(s)
      \/ rows[s].email = NoAddress
      \/ rows[s].plan = NoPlan
      \/ s \in unsold \cup edited \cup faulted \cup outrun

\* A plan moves only on the account of the address it was bought for, by a session
\* that is completed, and to the plan that was bought - or, once that plan was
\* edited between the two reads of it, to one that has taken over its slug; or a
\* signup seats the free plan on the account it creates. Never on the payer's
\* account.
SeatsAsBought ==
  [][\A e \in Addresses : seat'[e] # seat[e] =>
       \/ e \notin users /\ e \in users' /\ seat'[e] = Free
       \/ \E s \in Sessions :
            /\ seatings'[s] = seatings[s] + 1
            /\ Completed(s)
            /\ rows[s].email = e /\ seat'[e] # NoPlan
            /\ \/ rows[s].plan = seat'[e]
               \/ s \in edited /\ e \notin users
    ]_vars

\* An account that a paid session created is on a plan that was bought for its
\* address, unless that session's own plan was taken off sale or given another slug
\* between the two reads of it (resolve_purchased_plan and create_account).
MintedOnPlan ==
  \A s \in minted \ edited :
    \E t \in Sessions :
      /\ rows[t] # NoRow /\ rows[t].email = rows[s].email
      /\ rows[t].plan = seat[rows[s].email] /\ rows[t].plan # NoPlan

\* A payment the provider has taken is claimed in the end: whatever fails or
\* crashes before the claim is repeated.
PaidIsClaimed ==
  \A s \in Sessions :
    provider[s] = "paid" ~> Completed(s)

\* "a completed payment seats the plan the session was opened for, on the
\* beneficiary (the delivery address's own account), exactly once", with nothing
\* going wrong at all: no handler fails, the plan is on sale and not edited, no signup races.
CompletedSeatsPlan ==
  \A s \in Sessions :
    /\ Completed(s) /\ rows[s].plan # NoPlan
    /\ s \notin unsold \cup edited \cup faulted \cup outrun
    => seatings[s] = 1 \/ AtWork(s)
=============================================================================
