# MissedCall Respondr in TLA+

A verification development for MissedCall Respondr, the Rust service (axum, sqlx,
PostgreSQL) that answers a small business's missed calls: it takes Telnyx's webhooks,
records each missed call, charges it to the workspace's credits, runs the workspace's
response rules (a text, a callback), keeps the Messages log, sells plans through Stripe and
PayPal, and serves a console. Paths below are relative to the repository (`src/handlers/...`
is the Rust crate's `src`).

The service is almost entirely *short handlers over one database without transactions*: a
handler is a sequence of SQL statements, each of which commits on its own, with an `.await`
between any two. Requests run concurrently; a request dies when a statement fails, when its
client hangs up (axum drops the future at the next await) or when the process restarts; and the
providers repeat what was not answered 2xx. So the models share one shape: **one action per
statement or remote call, every action enabled at any moment its handler is at that line, a
failure or a restart between any two.**

## 1. Inventory

### 1.1 Components

| component | state it keeps | operations | modelled in |
|---|---|---|---|
| Credit ledger | `tenant_plans.credit_balance`, `.lifetime_credits` | `deduct_credit`, `add_credits`, `seat_plan_for_tenant` | `CreditLedger` |
| Inbound telephony door | `inbound_calls`, `call_logs` | `webhook`, `process_webhook_event` | `TelnyxCalls` |
| Replay guard and signature check | signatures seen (process memory) | `verify`, `prune`, `is_replayed`, `ack` | `TelnyxCalls` |
| Messages | `messages` | `create_message`, `send_rule_sms`, `deliver_outbound`, `handle_message_event` | `MessageDelivery`, `MessageLifecycle` |
| Paid checkout | `checkout_sessions`, the plan seat | `create_checkout_session`, the Stripe and PayPal webhooks, `handle_checkout_completed`, `deliver_credentials` | `PaidCheckout` |
| Response rules | `response_rules`, `callback_requests` | the rules' routes; `run_for_inbound_call` (spawned) | routes in `Automation`; the evaluation's outcome and its loss in `TelnyxCalls` |
| CRM records | `inbound_calls` (`calls` in the model), `follow_ups`, `contacts` and their fields, `clients`, `deals`, `calendar_events` | list, get, create, edit, delete; the answer to a missed call | `Records` |
| Campaigns | `leads`, `lists`, `list_leads`, `tags`, `tag_groups`, `campaigns` | the same, list membership, activation | `Campaigns` |
| Automation | `message_templates`, `integrations`, `integration_targets`, `triggers`, `redirects`, `portfolio_companies`, exports, imports | the same, a company's mail server | `Automation` |
| Plan gate and plans | `plans`, `feature_limits`, `tenant_plans` (the seat) | `enforce_feature_limit`, `check_feature_flag`; the catalogue, the limits, `assign_plan`, provisioning settings | `PlanGate`, `Plans` |
| Phone numbers and team | `phone_numbers`, `telnyx_config`, `users` of a workspace | `purchase_number`, `delete_number`, `put_admin_config`; invitation, removal | `Numbers` |
| Tickets and plan requests | `tickets`, `ticket_messages` | the customer's, the operator's and the contact page's routes; a plan request's resolution | `Tickets` |
| Settings | e-mail configuration and templates, site texts, branding and logo, `provider_keys`, `payment_providers` | read, merge, upsert, delete | `Settings` |
| Accounts | `tenants`, their owners and seats | `create_account`, the tagged lead's free account, the portfolio doors, deletion of workspaces | `Accounts`; where a payment races a sign-up, `PaidCheckout` |
| Sessions and credentials | `users.password_hash`, `.sessions_valid_from`, `password_resets` | login, password change, reset, logout everywhere, first password, re-issue, suspension, the middleware's check | `Sessions` (without e-mail change and impersonation) |
| Login throttle | failure counters (process memory) | `check`, `record_failure`, `clear` | planned |
| E-mail sending, affiliate and hub pushes, start-up, front ends | — | rendering, best-effort calls, static pages | not modelled |

The complete list, with the sources of each and the reason where it is left out, is in
`PROJECT.json`.

### 1.2 How the components meet

- A Telnyx delivery (`webhook`) is verified, looked up in the replay guard, and either taken as
  a call or handed to `handle_message_event`. A call reads `phone_numbers` (whose is the number
  dialed) and `provider_keys` (its own key, so free of charge), **spends** from the ledger, and
  writes its two rows. Only then is the rule evaluation spawned and the delivery acknowledged
  to the guard.
- The rule evaluation sends its text through `send_rule_sms`; the console's Send Message form
  goes through `create_message`. Both end in `deliver_outbound` and an INSERT; Telnyx reports
  the text's fate to `handle_message_event`, which finds the row by the provider's id.
- A checkout completion seats a plan through the same `seat_plan_for_tenant` the operator's
  Assign Plan uses, on the same row of `tenant_plans` that holds the credits.
- `create_message` asks the plan gate, which counts the rows of `messages`: the replies that
  rules send are counted as well, but are never refused. Every other gated create (leads, contacts,
  tags, deals, numbers, teammates, tickets, ...) asks the same gate about its own table.
- The operator's plan editor changes under the gate what the gate is reading: seats, slugs, and
  a limit in any of the three places it may be declared.
- A plan request is a ticket; resolving it seats the plan. Deleting a plan empties its seats;
  deleting a workspace takes every row that refers to it, but the telephone provider is not told.

### 1.3 What is hard here

1. **Read, await, write.** `add_credits` reads a balance and writes an absolute number;
   `enforce_feature_limit` counts and the handler inserts much later; the replay guard is
   consulted before the statements it guards and told after them; `resolve_purchased_plan` and
   `create_account` look the plan up twice.
2. **Pay first, record later.** A credit is spent one statement before the call is recorded, a
   text is with Telnyx before its row exists, a checkout session is claimed before its plan is
   seated. Every such gap is one a crash can fall into.
3. **An edit of one column that writes them all.** The merging edits read a row, lay the body over
   it and bind every column, so two edits of different columns can undo each other.
4. **Providers that repeat and reorder.** Telnyx re-signs a retry; `message.sent` may come after
   `message.finalized` and both before the INSERT; Stripe delivers a completion to two
   handlers at once.
5. **Two clocks.** The freshness window is judged on Telnyx's timestamp and the guard's memory on
   this server's clock, read before the awaits.
6. **Errors that are answered 200.** `deliver_credentials` failing is logged and acknowledged,
   so the provider never repeats it.

`PROJECT.json` lists every such hazard at its line, with the properties that would catch it
going wrong.

## 2. The modules

Modules with a theorem contain no `RECURSIVE` operator, constants carry named assumptions,
and bounds that exist only for TLC are `CONSTANTS` named for it (`MaxTime`, `MaxSigned`,
`MaxAttempts` in `TelnyxCalls`). Variables under the heading *history* are written and never read
by an action's guard: they exist for the properties.

### 2.1 `CreditLedger`

The one row of `tenant_plans` of each workspace and its three writers.

| action | code |
|---|---|
| `TakeCredit(t)` | `deduct_credit`: one guarded `UPDATE ... WHERE credit_balance > 0` |
| `SeatPlan(t)` | `seat_plan_for_tenant`: an upsert that leaves both columns alone |
| `GrantRead(g, t, amount)` | `add_credits`: the SELECT |
| `GrantUpdate(g)` | its UPDATE: the balance is `old.saturating_add(amount)`, the lifetime counter is added to in SQL |
| `GrantInsert(g)` | its INSERT for a workspace without a row; the unique index decides a race |
| `GrantFail(g)`, `LedgerRestart` | an error, a client that hung up, a restart |

`MaxInt` is the width of a Postgres INTEGER; Postgres *refuses* an addition past it, Rust
*saturates*. `drifted` marks the workspaces one of whose grants wrote over another write.

### 2.2 `TelnyxCalls` (extends `CreditLedger`)

The door. `wire` is the set of deliveries Telnyx has signed; each handler walks `pc` through
`arrived → resolve → byok → deduct → insertCall → insertLog → finish` (or `ack` for an event that is not a
call), holding `req`, the clock it read (`at`), its attempt number (`att`) and what it read of the
workspace's own key (`ownKey`). `guard` is `ReplayGuard`, pruned with the clock of whoever
calls it. Signatures are abstract: an `Unsigned` request never verifies. The key, the window and
the guard are as in `src/security/telnyx_signature.rs`; whether a signing key is configured is
fixed per behaviour. The door *composes* with the ledger: `Deduct` **is** `TakeCredit`, a restart is
`LedgerRestart`, and the operator's grants and seats run beside it.

### 2.3 `MessageDelivery` and `MessageLifecycle`

`MessageDelivery` has one process per message: `Texts` and `Records` of the console
(`create_message`) and `Replies` of rules (`send_rule_sms`), each walking `sender` through
`start → limit → config → send → asked → insert → done`; the provider's view `carrier`; the
table `rows`; and the events `reports`, each applied any number of times and in any order
(`Apply`). A timestamp is represented by the write that set it, because what matters is which
write it survives. `Applied` is the three UPDATEs of `handle_message_event` with their
`COALESCE`s and guards.

`MessageLifecycle` is the abstract specification, what the comments on
`handle_message_event` promise a reader of the log: a row appears once, never goes back to
`queued`, never leaves `delivered`, and says `delivered` only when the network does.
`MessageDelivery` implements it under the mapping `shown <- status of the row (or none)`,
`arrived <- texts whose carrier state is delivered`.

### 2.4 `PaidCheckout`

`Open` stores a pending session (with or without `metadata.customer_email`, with or without a
plan); the provider takes the money or lets it lapse; `Claim(w, s)` is the UPDATE that only one
handler wins, `AckClaimed` the answer to everyone else. A handler that has claimed resolves the
plan by its id (`ResolvePlan`), finds the account, seats or mints, and answers. `Mint` looks the plan
up a second time, by the slug it was read with (`named`), among the plans on sale. `EditPlan` (the
operator takes a plan off sale, puts it back, or gives it another slug), `SignUp` (a public
registration of the same address) and `Crash` run beside it. A session names its plan by id, as the
dashboard does; a caller that writes the slug into `purchasable_type` is left out.
A delivery that does not verify is no step: it changes nothing and is repeated.

### 2.5 `Sessions`

One account. A token is signed and never stored, so `tokens` is what has been handed out;
what ends a token is `users.sessions_valid_from`, here `line`, compared in whole seconds. A
request is a model value that serves once; `kind` says what it is and `at` which statement is
next: `Enter` reads the row, `Pass` the workspace, `Ready` is the handler's own read, then the
UPDATE (`Change`, `Logout`, `Choose`, `ResetWrite`, `Reissue`) and the mint (`ChangeMint`, `LogoutMint`,
`LoginMint`). A password is named by the request that set it, a code by the one that issued it. The
line is written by the database's clock (`DbNow`), most tokens by the server's (`ServerNow`); they are
`DbAhead` and `ServerAhead` of the time, so that either may be ahead of the other. `Die` ends a request at any
statement.

### 2.6 The console

Eleven modules for the authenticated API, one specification. `Statements` is the ground: the
tables, a request, and the handful of SQL forms with the schema's foreign keys, cascades and
unique indexes. The others hold one operator per handler and extend each other where a handler
uses another's statements:

```
Statements -- PlanGate -- Records
                       -- Campaigns
                       -- Automation -- Settings
                       -- Plans -- Tickets
                                -- Accounts
                       -- Numbers
Console composes all of them; MCConsole gives it small tables and requests.
```

- **A request** is a record `serving[q]`: its job as the client sent it (`kind`, the caller's
  workspace `ws`, the row `id`, and of the body what matters: the column it names `col`, its value
  `val`, another row `ref`), the statement it is at (`at`), and the handler's locals: the row it
  `read`, the ids it `saw`, the `limit`, the rows it `counted`. An `.await` lies between any two
  values of `at`. `answer` is what the client was told; `wrote` is history.
- **A row** has a key (what must not repeat, or what makes two rows one thing), a free text, a
  guarded `state` and `flag`, and at most one reference, `link`. What each stands for is in the
  head of the module whose table it is. A free text is named by the request that wrote it. Its id
  is its table and its maker, as UUIDs never repeat.
  Six tables are keyed by the workspace instead (`Personal`): their one row is that workspace's.
- **Beside the rows**: `links` (the two join tables), `seat` (`tenant_plans.plan_id`), `caps` (a
  plan's limits outside its JSON), `rented` (what the telephone provider bills).
- **A constraint** that a statement breaks ends the request with a 500 and changes nothing
  (`Put`, `Fits`). Other failures of the database, a client that hangs up and a restart leave the request
  where it is: no fairness is assumed, so "never continues" is a behaviour of every state.
- **Two styles of edit** are kept apart because they differ in what an overlap costs: `MergingEdit`
  reads the row and binds every column (`Merged`), `NamedEdit` binds what the body names through
  `COALESCE` (`Named`).
- `PlanGate` is three awaits: the seat's slug, the limit (from `feature_limits`, then the plan's
  JSON, then a column, whose NULL is a decoding error), the count.

## 3. The runs

| run | instance | states | what it shows |
|---|---|---|---|
| `credit_ledger` | 2 workspaces, 2 overlapping grants, amounts 1 and 3, width 5 | 92 thousand | what a lost update can and cannot do to the row |
| `credit_overlap` | 1 workspace, 1 grant | — | **finding**: a grant overlapping a call gives the spent credit back |
| `telnyx_calls` | 2 handlers, 3 events, 1 signed delivery, clock to 2, 2 attempts, a grant | 1.7 million | what is recorded, charged, remembered and replied; the door implements the ledger |
| `telnyx_retry` | 1 handler, 1 event, 2 signed deliveries | — | **finding**: a re-signed retry is processed again |
| `messages` | 1 text, 2 inbound records, limit 2 | 430 thousand | the log under every order of INSERT and events; it implements `MessageLifecycle` |
| `messages_settle` | 1 automatic reply, fair retries | 10 thousand | an unanswered delivery event ends up in its row |
| `messages_lost` | 1 automatic reply, fair retries | — | **finding**: an event that overtakes the INSERT is lost |
| `checkout` | 2 sessions, 2 handlers, 2 addresses (1 logged in), 1 plan, 2 slugs | 432 thousand | what a payment is worth, and exactly when it is worth nothing |
| `checkout_unseated` | 1 session | — | **finding**: a session without `customer_email` completes and seats nothing |
| `sessions` | the sign-up and 3 requests, the server's clock a second ahead, 3 seconds | 918 thousand | which sessions and codes outlive what was meant to end them |
| `console` | 3 workspaces, 29 desks of a few seeded rows; every 2 of a desk's jobs, every 3 at six desks; caps of 0, 1 and 2 | 195 thousand | what an overlap of console requests can cost, and that nothing else does |
| `console_uncapped` | the same | — | **finding**: three caps of a plan count nothing |

**Why the bounds suffice.** Each is the smallest at which the interesting case happens, and the
theorems of section 5 remove most of them. Two handlers are what the replay guard, the claim
and the last credit need to be raced for; a third adds no new pair. Width 5 lets a grant of 3
reach both limits from grants alone and from grants mixed with calls. Tolerance 1, skew 1 and a
clock to 2 put a delivery before, at and after each edge of the window. Three messages at limit 2
let two requests overlap at the last place with a third already stored. Two sessions for two
addresses let a session race another for the same account, and a signup race both. Two slugs let the
one plan be renamed between its two reads; that *another* plan takes the slug over, and a mint seats it,
needs two plans and three slugs: `OnlyBoughtSeats` and `MintsAreSeated` cover it, the run does not. Three requests and the
sign-up's session are a victim, a writer that overtakes it and a second writer or a repetition; three
seconds hold a token minted before, in and after the second of a change, and a server's clock one second
ahead is the direction in which tokens minted before a change survive it; equal clocks, a database ahead, and larger
skews are the theorems'. At the console every
operation of a component meets every other on the rows it shares, and itself; a wrong outcome of
an overlap takes a victim and one writer between two of its statements, so two requests find it.
Three are there where a third matters: three creates under one limit, two resolutions of one
request beside the operator's own choice, a release that runs over a number sold twice, a company
that is deleted and pushed for another workspace under its editor, a workspace that is deleted and made
anew by its own push while it adds a call or buys a number. The
deletion of the workspace meets everything. Caps of 0, 1 and 2 put a create below, at and beyond the cap.
Symmetry is declared only over interchangeable model values and in no run with a liveness
property. Deadlock is checked
except in `sessions` and in the console's runs, where every request has been served once (and the
clock has reached its bound): the model really stops there.

**Fairness.** `MessageDelivery!FairSpec` assumes only that Telnyx delivers an event until it is
answered 2xx (weak fairness of each event's `Apply` while it is unanswered). Nothing is
assumed of the senders. `PaidCheckout!FairSpec` assumes the same of the payment provider
(weak fairness of a claim while the session is unanswered) and that a request being served ends (weak
fairness of each handler), which the runtime gives: every await is a database call or an HTTP call
that returns or errors. No fairness is assumed of buyers, operators, signups, crashes or console
requests.

## 4. The properties

*Ledger.* `WithinLifetime`: a stale write never raises the balance over the lifetime counter.
`GrantPaidInFull`: the saturation at `i32::MAX` is unreachable, since the lifetime counter
reaches its own limit first and refuses the statement. `ExactUnlessOverlapped`: the balance is granted less
spent, wherever no grant overlapped another write. The unconditional form, `LedgerExact`, is
the first finding.

*Door.* `OnlyVerifiedCallsRecorded`, `ChargesCoveredByCredits` (the charged lines never
outnumber the credits spent), `SpentCreditsAccounted` (a credit is spent for nothing, or without
a log line that shows it, only if its request died between the UPDATE and the last of the two INSERTs,
whatever became of the workspace's own key meanwhile), `RememberedMeansLanded` (the guard refuses
only what has landed), `OneReplyPerRecordedCall`, `GuardHoldsInsideWindow` (a copy of what has landed is
let through only if the clock moved while it waited, or if one of the copies landed longer ago than the window, at a
clock that was behind Telnyx's timestamp; one such copy is enough, as a slow handler's `ack` stamps the entry with the old
clock it holds, over that of a copy that landed later). `LedgerSpec` as a property: the door implements the ledger.

*Messages.* `StampsAgree`, `StampsKept`, `AckedIsShown`, `AcceptedAccounted`,
`LimitHeldUnlessOverlapped`, `KeepsLifecycle`, and the liveness property
`ReportedDeliveryShown`.

*Checkout.* `SeatedOnce`; `PaidIsSeated`, which lists every way a completed payment can fail to
seat its plan (no address, no plan, plan off sale when the handler looked, plan edited between that
session's own two reads, handler failed after the claim, address signed
up under it) and says there is no other; `SeatsAsBought` (a plan moves only on the
beneficiary's account, never on the payer's, and only to what was bought, or to the plan that took its slug over
between the two reads); `MintedOnPlan` (a minted account is on a bought plan unless the plan of *that* session was edited
between *its* reads; retirements and renames at any other moment excuse nothing); and the
liveness property `PaidIsClaimed`.

*Sessions.* `SessionEndsWithPassword` (a session that is still let in rests on the current
password, or its token is of the very second of the change, or of a later second that a server's clock ahead of
the database's had shown already, or it was minted by a request
already past its check, or by a session so excused), `CallerStaysIn` (while the server's clock is not the one behind),
`CodeRedeemedOnce` (a code sets one
password unless two requests held it at once or one died before it could mark it), `OneLiveCode`
(unless two requests overlap or the ignored error of the retirement strikes), `FirstPasswordOnce`,
`SuspendedIsShut` (nobody who comes while the workspace is suspended gets past the check).

*Console.* `TypeOK` carries the schema's references: no row, membership, seat or limit outlives
what it refers to. `EditsKept`: an edit the client was told is saved stays saved, and the
exceptions are listed: a later request for the same column, or a *merging* edit that had read
the row before; an edit that names its columns never costs another one. `AnswersTrue`: a
refused request wrote nothing (three handlers write before they judge), a created row is there,
a resolved plan request is stamped and seated, a handed-over account is its company's and a
provisioned one is whole. `OnlyOwnRows` (an action property): a workspace's requests change its own
rows, with four named ways across, and never a seat or a limit. The last of the four, an edit
decided on a row that was the caller's when it was read, was found for companies by working out
the proof: no run had met it before `CompanyTrio` was added. `LimitHeldUnlessCountedApart`:
a workspace is over its cap only through two creates that were both counted before either
inserted, a row of its own that asks no gate (the call that a webhook records, the follow-up that a click or a rule
makes of a missed call, the plan request that the sign-up or the checkout files: with the gated creates these
are all the INSERTs into counted tables that the console, the webhook and the checkout make for a workspace
that is there already), a changed plan, a workspace deleted
and made anew, without its seat, by its own `sync_company`, or a number that one purchase counted, that was
then let go or sold, and that another purchase took up. That last way, too, was found by working out the
proof: it takes five purchases and three releases under a cap of four, more than any run has.
`TwinsOnlyFromOverlap`: two contacts of one address,
two open plan requests for one plan and the like come only from overlapping requests, from the
three that do not look, or from the sign-up and the checkout, which look for requests of source `plan_request` only and
pass over an open one of source `billing` (`PassedOver`). A plan request is a ticket of one of these two sources:
`create_ticket` looks for no other, so a plain ticket, which is what a client that names no source files, may name the same plan
twice and is no twin. `NumbersKept`: a number and its bill go together, except by a named release,
lost order or deletion. Each exception is needed: but for that of the resold number, a run is violated
without it.

### Findings

- `credit_overlap`: `add_credits` (`src/handlers/admin_handler.rs:671`) writes back a number
  read eight lines earlier, so a call's deduction or another grant in between is lost.
- `telnyx_retry`: the replay guard is keyed by signature
  (`src/security/telnyx_signature.rs:294`), and a retry is signed afresh (line 49), so the
  comment at line 264 ("Telnyx's own retry ... is refused here") does not hold: the call is
  charged and recorded twice.
- `messages_lost`: an event that arrives before the INSERT matches no row and is answered 2xx
  (`src/handlers/telnyx_handler.rs:415`); the row stays at its send-time status for ever.
- `checkout_unseated`: a session opened without `metadata.customer_email`, as the dashboard's
  Upgrade button opens every session, completes and seats nothing
  (`src/handlers/checkout_handler.rs:1992`).
- `console_uncapped`: `count_usage` (`src/features.rs:325`) has no arm for
  `max_message_templates` and two others, and counts 0; `src/feature_registry.rs:28-29` says `N > 0` is a cap of N.

Seen while modelling and covered by a disjunct of a property rather than a run of its own:

- the comment on `stripe_webhook` (1186-1187) says a failure after verification answers 5xx;
  `handle_checkout_completed` (1998-2009) logs a failed delivery and answers 200 (`faulted`);
- a crash between the committed claim and the seat loses the purchase: the repeated event
  finds no pending session and is answered 200 (`faulted`);
- a plan taken off sale or renamed between `resolve_purchased_plan`, which reads it by id, and
  `create_account`, which reads it by slug, mints a paid account without a plan, or on the plan that has taken the slug over
  (`edited`);
- a signup of the buyer's address during the mint makes it a 409 that the caller swallows
  (`outrun`);
- `logout_all` mints its caller's token from the server's clock (`src/auth/handlers.rs:543`) after the
  database's `NOW()` has moved the line, so what the comment on `change_password` (472-474)
  says, that skew cannot strand the caller, is true of `change_password` only (`CallerStaysIn`
  needs a server's clock that is not behind). A server's clock that is ahead has the other cost: tokens minted in the
  last seconds before a change carry an `iat` past the line and outlive it (`PastLine`);
- a late `message.sent` takes a failed row back to `sent` (allowed by `Move`);
- `send()` failing is recorded as "not reached", although Telnyx may have accepted the text
  (`HearNothing` after `TelnyxAccepts`);
- a sign-in that verified the old password before a change mints a session that survives it, and
  `reset_password` marks its code only after the password is written (`excused`, `doubtful`).

Seen at the console, each an exception of a property there:

- the comment on `record_checkout_plan_request` (`src/handlers/checkout_handler.rs:2899-2901`) says its key is the one the
  customer door already uses, so that a second press returns the existing row; its look-up leaves out the source `billing`, which
  the customer door's does not, and files a twin of such a request (`PassedOver`);
- the comment in `purchase_number` (`src/handlers/telnyx_handler.rs:928-930`) says neither arm can raise 23505;
  two purchases of one new number can, after both have paid. A purchase that revives a released row by
  its id answers 200 though the row went with its workspace, or was sold meanwhile;
- `delete_tenant` (`src/handlers/admin_handler.rs:739-742`, "retires the whole workspace ... no
  hand-rolled child sweep is needed") leaves the workspace's numbers billed at the provider;
- `update_provisioning` saves the switch before it refuses the slug, `delete_tag_group` ungroups
  the tags, of any workspace, before it answers 404, and `portfolio_sync` leaves a workspace without
  an owner when the address is taken in between;
- two pushes of one new company both pass the look-up: the second's upsert keeps the first
  workspace, and hands out the login of another ("a refresh, never a re-provision");
- `grant_top_tier` says it is gap-filling only, but looks first and writes unconditionally later: a
  limit set in between is overwritten with unlimited;
- `update_portfolio_company` and `update_smtp_config` write by the id alone after their ownership
  check, as `delete_number` does, so they may edit a company that the hub has deleted and pushed for
  another workspace in between;
- `internal_create_portfolio_company` ignores the error of its upsert of the workspace
  (`src/handlers/portfolio_handler.rs:235`), whose name and slug it overwrites;
- `update_company` re-activates a company whose body does not say otherwise, and `update_smtp`
  erases the columns its body leaves out;
- `create_follow_up` does not ask whose call it is given, so the deletion of another workspace's
  call takes the follow-up along;
- `update_ticket` decides whether to seat the plan on the row it read first, so two resolutions seat
  twice, the second over whatever the operator has chosen since.

## 5. The proofs

`tlapm` checks every obligation. All theorems are about the specifications above for **every**
value of the constants under the named assumptions, so for any number of workspaces,
requests, messages and sessions.

**`CreditLedgerProofs`.** `LedgerIInv` adds to the type invariant that a balance never exceeds
its lifetime counter, that what a grant in flight has read does not either
(`ReadsCovered`: the lifetime counter only grows, so a stale read stays covered), that a workspace without a row
has no credits, and the exactness equation. `ReadsCovered` is the heart: it is why the absolute
write is harmless to `WithinLifetime` and why saturation is unreachable. Theorems:
`LedgerTypeCorrect`, `LedgerWithinLifetime`, `LedgerExactUnlessOverlapped`,
`LedgerGrantPaidInFull`.

**`TelnyxCallsProofs`.** In layers: what a handler holds between two statements
(`RequestsTracked`); with it, every step of the door is a ledger step or leaves the ledger's
variables alone (`CallsRefineLedger`), so the ledger's theorems hold of the door; then one
invariant per property on top: `EffectBeforeAck` for `CallsRememberedLanded`,
`AttemptsIInv` (attempt numbers of busy handlers are apart) for `CallsSpentAccounted`, a
counting argument (the credits paid are as many as were spent, each charged line is of a paid attempt)
for `CallsChargesCovered`, `RepliesIInv` for `CallsOneReply`, and `WindowIInv` (an entry that was pruned is older
than the window for everyone who reads the clock now) for `CallsGuardHolds`.

**`MessageDeliveryProofs`.** The sender writes the row long after it read the provider's
answer, so `IInv` says of an answer waiting to be inserted what it says of a row
(`AnswersSound`, `RowsSound`), and that events report no delivery that has not happened
(`ReportsTrue`). `AppliedKeeps` is the lemma about the three UPDATEs. Theorems: `TypeCorrect`,
`RowsAgree`, `AcceptedIsAccounted`, `EventsShown`, `StampsAreKept`; `ImplementsLifecycle`, the
refinement, step by step (an INSERT is `Appear`, an applied event `Move` or a stutter, a
confirmation `Confirm`); and `LimitIsHeld`, by counting: while no two requests are between the count and
the row, the one that is there has room (`Room`).

**`PaidCheckoutProofs`.** The claim is exclusive (`ClaimIsExclusive`), nothing is seated
before it nor between it and the seat (`NothingSeatedYet`), a handler holds the plan its session
was opened for (`HoldsPurchase`), and a handler leaves only with a reason (`PaidIsSettled`,
stronger than `PaidIsSeated`: no excuse for a handler that has only its answer left). Between its two reads a
handler's plan is as it read it, or its session is listed as edited (`StillAsRead`); as slugs are unique, the second look-up
then finds the plan of the first (`SecondReadAgrees`). Theorems:
`TypeCorrect`, `AtMostOneSeat`, `PaidSessionsSeated`, `OnlyBoughtSeats`, `MintsAreSeated`.

**`SessionsProofs`.** The properties speak of rows and tokens, and every one of them is written
from what a request read statements earlier, so the invariant says of each request in flight what it rests
on (`RestsOnCurrent`): past the check, its token rests on the current password or the request is listed
as excused; before it, the same holds if the token will pass. `NothingAhead` bounds the line by the
database's clock and every token by the later of the two clocks; that is what makes a token fail that is neither of the line's second nor of a
later one the server has shown. With it `SessionsEnd` holds for any skew in either direction: what the
server's being ahead lets through is named in the property. `ChangerNeverLockedOut` holds for any skew too, because
`change_password` mints by the line it wrote (`ChangerMintsByLine`); `LogoutLag` bounds what the skew
costs at `logout_all`, and `CallersStayIn` is the two with a server's clock that is not behind
(`DbAhead <= ServerAhead`), the only theorem with such a hypothesis. For the codes, `CodesTracked` follows each code through the requests past its check, and
`OneIssuer` the requests that issue one; the latch and the suspension have an invariant each. Theorems:
`TypeCorrect`, `SessionsEnd`, `ChangerNeverLockedOut`, `LogoutLag`, `CallersStayIn`, `CodesRedeemedOnce`,
`OneCodeLive`, `FirstPasswordChosenOnce`, `SuspensionShuts`.

**`ConsoleProofs`.** For any number of requests and workspaces and for every workload that
`WorkloadsAssumption` admits. That assumption says what PostgreSQL and the router say: the stored
tables satisfy the schema's references, and a job fits its route (the table its `:id` is looked for
in, whether the operator's session or key is required). `TypeOK` alone is not inductive: a handler inserts, seats
or deletes by an id or a row it holds from before an await. `IInv` adds, of each such handler, what
that still is (`Holds`), and who the rows belong to: a row that a request made, and every campaign, stays
its maker's (`OwnersIn`); numbers, users and companies may change hands (`Shared`). The
lemmas climb: one per statement form (`PutSound`, `ChangeSound`, `DeleteSound`, `LinkSound`, ...), which
gives `Sound` (the step moves one request, keeps the tables whole and every row with its workspace);
then one per handler that holds something; then one per module; `ServeKeeps` is all of them.
Theorems: `Invariance`, `TypeCorrect`.

**`ConsoleIsolation`.** `OnlyOwnRows` for the same generality. A handler asks whose row it is in one
statement and writes by the id alone in a later one, so what is left of the answer by then is the invariant
(`Owns`): the row fetched is the caller's, or gone, and if its id comes back it comes back the
caller's (`OwnsTarget`), but for the three kinds of edit whose table is shared, of which only the row
that was read is the caller's (`EditsOwn`); a purchase holds numbers that were released when it looked
(`BuysReleased`); a create in a shared table has not made its row yet (`MakesNew`); a ticket's editor is at
the seating statements only if he is the operator (`SeatsNobody`). `OthersOwn` is the non-interference
lemma: no step of another request, of any workspace, takes any of that away, and all it uses of that step is
`Sound`. Theorems: `Ownership`, `WorkspacesIsolated`.

**`ConsoleEffects`.** What a step of the console can do to a row: write it by name, insert it, take it
along with what it refers to, or cut its link, and nothing else (`Footprint`, one lemma per
handler and `ServeFoot` for all of them). On it stands `NumbersKept`. Its inductive invariant
(`NumbersInv`) adds who made each row (`Born`: a purchase inserts once, so a number's row is never
replaced under its id), one row a number (`OneRowEach`), and of each request in flight what its next
statements rest on: a purchase past its search holds a released row that is still that number's, and still where
it was unless something ran over it (`Revivable`), and at its last statement what it is to hold is paid
for (`Paid`); a release holds the row whose number it read (`Releasing`). `RunsOver` is the
central lemma: whatever happens to the row of a number leaves a trace in `serving`, and `ExcusesLast`
says that the traces stay. Of the workloads it assumes `NumbersStored`: when the requests
begin, a number has one row (`UNIQUE(number)`), and what is held through the platform and what is billed
agree.
The second part is `TwinsOnlyFromOverlap`. Until a request writes without looking (`Unlooked`), every
contact, list and ticket is as the request that made it filed it (`AsFiled`), a request past its look saw
none of its kind, so that whatever is its twin now was made by another request and is not among what it
saw, or was passed over (`Unseen`, `Seeking`, `Filing` for the three ways of filing a plan request, and `Routing` for a
campaign's list), and no seed is a twin (`SeedsApart`, `ListsApart`:
a list is made only for a campaign that had none). `SingleStep` refines `ServeFoot` to what a step can do to
such a row: nothing that makes it look alike, delete it, or file it. It assumes `SinglesAssumption`: the
tables hold no twins when the requests begin.
The third part is `LimitHeldUnlessCountedApart`. That a workspace is within its cap is not inductive, nor is it
true; what is (`Within`) is that any set of its rows no two of which were counted apart (`InTurn`) is. The
step that adds a row to such a set is then a count: the request that adds it was under the limit when
it counted (`UnderLimit`; the rows that ask no gate are the property's own exception), and every other row of the set is among what it counted, for what was made since
was made by a request past the gate (`PastGate`) that has not counted the new row either, so that the two were
counted apart. For numbers, whose rows are let go and taken up again under one id, the row raised may be one
that others had counted: `Untouched` says that it was held when it was counted and is not when it is
found, so that in between somebody turned it (`Turned`), and the property names that case. All of
this holds while the plan does (`PlanHeld`): nobody changed one, and the workspace stays, or was never deleted;
a deleted one has no rows, so it is over no cap until it is made anew. `LimitsAssumption`
says that when the requests begin every workspace has its entry among the seats and is within its plan, and no two plans share
a slug. Theorems: `NumbersAndBills`, `TwinsComeOfOverlap`, `LimitsHold`.

**Only model-checked.** Of the console, `EditsKept` and `AnswersTrue`,
which speak of what the bodies carry and so need
more of a workload than the schema and the routes promise (section 7); and the two liveness
properties (`ReportedDeliveryShown`, `PaidIsClaimed`): liveness under fairness is beyond the prover.

## 6. Not modelled, and why

Cryptography is taken by its contract (a signature verifies or it does not; a sealed key
opens; sealing may fail). E-mail rendering and delivery, affiliate and hub pushes are best effort and nothing
reads their result. Start-up, migrations and the front ends keep no state of the service. In the
modelled components: the choice of a payment provider, its price check and the payment-link
hand-off (of a checkout that cannot charge, `Tickets` has the plan request it files, and `PaidCheckout` nothing); what a
buyer is shown; the audit rows of `payment_webhook_events`; the trigger matching of response rules;
e-mail change, roles, impersonation and the seven-day expiry of a token; which of several numbers a
message is sent from; `as i32` in `add_credits`, which truncates the requested amount before
the ledger sees it; a change of the Telnyx signing key while the process runs; validation
of a body, which is a refusal that may always happen; paging, searching and sorting of
lists; database errors other than a broken constraint.

## 7. Plan

In order of importance; each entry names the abstraction and the theorem worth having.

1. On top of `ConsoleEffects`: `EditsKept` (a named edit never costs another), with an invariant about
   what a request in flight has read, as `Owns` is. It needs, per handler, the columns a write changes, and
   of the workloads that a body names only columns its type has.
2. `LoginThrottle`: counters, window, lockout and the shared bucket. Wanted: a pause holds for
   its length unless an attempt let through earlier ends inside it (`record_failure`,
   `src/login_throttle.rs:153`, may lift one); the bucket that overflowing keys share is
   written by `record_failure` and never read by `check`, although lines 51-54 say it is.
3. `ResponseRules`: the matcher as an operator (keywords, listed numbers, schedule windows in
   a time zone) against a reference definition.
4. E-mail change, which retargets reset codes, and impersonation, in `Sessions`.
