----------------------------- MODULE TelnyxCalls -----------------------------
(***************************************************************************)
(* POST /api/v1/telnyx/webhook: the app's inbound telephony door, from the *)
(* signed delivery to the missed call's rows and the automatic reply.      *)
(*                                                                         *)
(* Telnyx signs an event with the second it signs it at and sends it again *)
(* (signed again, with a fresh second) whenever it has seen no 2xx; the    *)
(* network may deliver one signed request more than once. Each request is  *)
(* served by its own task, so handlers interleave at every await: one      *)
(* action per statement, and a request can die between any two of them (a  *)
(* statement that fails, a client that hung up, a restart).                *)
(*                                                                         *)
(* CreditLedger, which this module extends, is the credit row that the     *)
(* handler spends from; every step here is a step of it or leaves it alone.*)
(***************************************************************************)
EXTENDS CreditLedger, FiniteSets

CONSTANTS
  Handlers,      \* requests that can be served at once
  Events,        \* the events Telnyx reports (data.event_type and payload)
  CallEvents,    \* those of type call_received or call_initiated
  Owner,         \* Owner[e]: the workspace whose ACTIVE number e dialed
  NoTenant,      \* Owner of an event whose number nobody holds
  Tolerance,     \* telnyx_signature_tolerance_secs
  Skew,          \* how far Telnyx's clock may be ahead of this server's
  Idle,          \* the request of a handler that serves none
  Unsigned,      \* a request that Telnyx's signature does not cover
  MaxTime,       \* bound: the clock stops here
  MaxSigned,     \* bound: deliveries Telnyx signs
  MaxAttempts    \* bound: deliveries admitted past the replay guard

\* An event signed at a second of Telnyx's clock. The signature covers exactly
\* these two, so it identifies the delivery.
Delivery == [event : Events, ts : 0..(MaxTime + Skew)]

ASSUME EventAssumption == CallEvents \subseteq Events
ASSUME OwnerAssumption == Owner \in [Events -> Tenants \cup {NoTenant}]
ASSUME ClockAssumption ==
  /\ Tolerance \in Nat
  /\ Skew \in Nat
  /\ MaxTime \in Nat
  /\ MaxSigned \in Nat
  /\ MaxAttempts \in Nat
ASSUME NoneAssumption ==
  /\ NoTenant \notin Tenants
  /\ Idle \notin Delivery
  /\ Unsigned \notin Delivery \cup {Idle}

VARIABLES
  now,         \* chrono::Utc::now() in unix seconds
  signingKey,  \* resolve_signing_key finds a usable account key
  byok,        \* workspaces with their own active Telnyx key (provider_keys)
  wire,        \* every delivery Telnyx has signed: none is ever unsent
  guard,       \* the ReplayGuard: the [sig, at] entries it remembers
  pc,          \* where each handler is
  req,         \* the delivery it serves
  at,          \* the one clock read it made, on arrival
  att,         \* the attempt number it was admitted as
  ownKey,      \* what tenant_has_own_telnyx told it
  nextAtt,     \* the next attempt number
  calls,       \* rows of inbound_calls
  logs,        \* rows of call_logs
  tasks,       \* attempts whose response rules are being evaluated
  replies,     \* the rows a response rule left: a text or a callback
  \* history, for the properties only
  paid,        \* paid[t]: the attempts that took a credit of t
  hungUp,      \* the deliveries answered with a hangup, for want of a credit
  cut,         \* the attempts that died between two statements
  landed       \* [sig, at] of every delivery acked since the process started

callVars == <<now, signingKey, byok, wire, guard, pc, req, at, att, ownKey,
              nextAtt, calls, logs, tasks, replies, paid, hungUp, cut, landed>>
vars == <<ledgerVars, callVars>>

PCs == {"idle", "arrived", "resolve", "byok", "deduct", "insertCall",
        "insertLog", "finish", "ack"}

Call  == [attempt : Nat, sig : Delivery, at : Nat, tenant : Tenants]
Log   == [attempt : Nat, tenant : Tenants, cost : {0, 1}]
Reply == [attempt : Nat, kind : {"text", "callback"}]
Seen  == [sig : Delivery, at : Nat]

CallsTypeOK ==
  /\ now \in 0..MaxTime
  /\ signingKey \in BOOLEAN
  /\ byok \subseteq Tenants
  /\ wire \subseteq Delivery
  /\ guard \subseteq Seen
  /\ pc \in [Handlers -> PCs]
  /\ req \in [Handlers -> Delivery \cup {Idle, Unsigned}]
  /\ at \in [Handlers -> Nat]
  /\ att \in [Handlers -> Nat]
  /\ ownKey \in [Handlers -> BOOLEAN]
  /\ nextAtt \in Nat
  /\ calls \subseteq Call
  /\ logs \subseteq Log
  /\ tasks \subseteq Nat
  /\ replies \subseteq Reply
  /\ paid \in [Tenants -> SUBSET Nat]
  /\ hungUp \subseteq Delivery
  /\ cut \subseteq Nat
  /\ landed \subseteq Seen

TypeOK == LedgerTypeOK /\ CallsTypeOK

Init ==
  /\ LedgerInit
  /\ now = 0
  /\ signingKey \in BOOLEAN
  /\ byok \in SUBSET Tenants
  /\ wire = {}
  /\ guard = {}
  /\ pc = [h \in Handlers |-> "idle"]
  /\ req = [h \in Handlers |-> Idle]
  /\ at = [h \in Handlers |-> 0]
  /\ att = [h \in Handlers |-> 0]
  /\ ownKey = [h \in Handlers |-> FALSE]
  /\ nextAtt = 0
  /\ calls = {} /\ logs = {} /\ tasks = {} /\ replies = {}
  /\ paid = [t \in Tenants |-> {}]
  /\ hungUp = {} /\ cut = {} /\ landed = {}

-----------------------------------------------------------------------------
(* The world around the handler.                                            *)

Tick ==
  /\ now < MaxTime
  /\ now' = now + 1
  /\ UNCHANGED <<ledgerVars, signingKey, byok, wire, guard, pc, req, at, att,
       ownKey, nextAtt, calls, logs, tasks, replies, paid, hungUp, cut, landed>>

\* Telnyx signs an event: its first delivery, or a retry of one that was not
\* answered 2xx (or whose answer it never saw), which it signs afresh.
TelnyxSigns(e) ==
  /\ Cardinality(wire) < MaxSigned
  /\ \E ts \in now..(now + Skew) :
       wire' = wire \cup {[event |-> e, ts |-> ts]}
  /\ UNCHANGED <<ledgerVars, now, signingKey, byok, guard, pc, req, at, att,
       ownKey, nextAtt, calls, logs, tasks, replies, paid, hungUp, cut, landed>>

\* The workspace saves its own Telnyx key, or removes it (provider_keys).
SwitchByok(t) ==
  /\ byok' = IF t \in byok THEN byok \ {t} ELSE byok \cup {t}
  /\ UNCHANGED <<ledgerVars, now, signingKey, wire, guard, pc, req, at, att,
       ownKey, nextAtt, calls, logs, tasks, replies, paid, hungUp, cut, landed>>

-----------------------------------------------------------------------------
(* The handler: verify, the replay guard, the event's statements, the ack.  *)

Goto(h, step) == pc' = [pc EXCEPT ![h] = step]

\* A handler ends: its locals are gone.
Leave(h) ==
  /\ Goto(h, "idle")
  /\ req' = [req EXCEPT ![h] = Idle]
  /\ at' = [at EXCEPT ![h] = 0]
  /\ att' = [att EXCEPT ![h] = 0]
  /\ ownKey' = [ownKey EXCEPT ![h] = FALSE]

Tenant(h) == Owner[req[h].event]

\* What can arrive: a delivery Telnyx signed, its first copy or another, or
\* something that it did not sign.
Incoming == wire \cup {Unsigned}

\* A request arrives: webhook reads the clock before its first await.
Receive(h, d) ==
  /\ pc[h] = "idle"
  /\ Goto(h, "arrived")
  /\ req' = [req EXCEPT ![h] = d]
  /\ at' = [at EXCEPT ![h] = now]
  /\ UNCHANGED <<ledgerVars, now, signingKey, byok, wire, guard, att, ownKey,
       nextAtt, calls, logs, tasks, replies, paid, hungUp, cut, landed>>

Distance(a, b) == IF a < b THEN b - a ELSE a - b

\* Mutant: the signature is checked and the timestamp is not.
VerifiedAtAnyTime(h) == signingKey /\ req[h] # Unsigned

\* telnyx_signature::verify: the key is configured, the signature is Telnyx's,
\* the timestamp is inside the window of the clock read on arrival.
Verified(h) ==
  /\ signingKey
  /\ req[h] # Unsigned
  /\ Distance(at[h], req[h].ts) <= Tolerance

\* Mutant: an entry exactly as old as the window is dropped.
PrunedTooSoon(n) == {e \in guard : n - e.at < Tolerance}

\* ReplayGuard::prune, with the clock its caller read on arrival.
Pruned(n) == {e \in guard : n - e.at <= Tolerance}

Remembered(entries, d) == \E e \in entries : e.sig = d

\* A refusal of verify: nothing is parsed, nothing is applied.
RefuseUnverified(h) ==
  /\ pc[h] = "arrived"
  /\ ~Verified(h)
  /\ Leave(h)
  /\ UNCHANGED <<ledgerVars, now, signingKey, byok, wire, guard, nextAtt,
       calls, logs, tasks, replies, paid, hungUp, cut, landed>>

\* telnyx_signature_replayed: is_replayed prunes, then finds the signature.
RefuseReplayed(h) ==
  /\ pc[h] = "arrived"
  /\ Verified(h)
  /\ guard' = Pruned(at[h])
  /\ Remembered(Pruned(at[h]), req[h])
  /\ Leave(h)
  /\ UNCHANGED <<ledgerVars, now, signingKey, byok, wire, nextAtt,
       calls, logs, tasks, replies, paid, hungUp, cut, landed>>

\* The delivery is let through to process_webhook_event, which acks every event
\* but the two call events without touching a row.
Admit(h) ==
  /\ pc[h] = "arrived"
  /\ Verified(h)
  /\ nextAtt < MaxAttempts
  /\ guard' = Pruned(at[h])
  /\ ~Remembered(Pruned(at[h]), req[h])
  /\ Goto(h, IF req[h].event \in CallEvents THEN "resolve" ELSE "ack")
  /\ att' = [att EXCEPT ![h] = nextAtt]
  /\ nextAtt' = nextAtt + 1
  /\ UNCHANGED <<ledgerVars, now, signingKey, byok, wire, req, at, ownKey,
       calls, logs, tasks, replies, paid, hungUp, cut, landed>>

\* tenant_id_for_number: the workspace that holds the number dialed.
ResolveTenant(h) ==
  /\ pc[h] = "resolve"
  /\ Tenant(h) # NoTenant
  /\ Goto(h, "byok")
  /\ UNCHANGED <<ledgerVars, now, signingKey, byok, wire, guard, req, at, att,
       ownKey, nextAtt, calls, logs, tasks, replies, paid, hungUp, cut, landed>>

\* No workspace holds it: 404, so Telnyx will send the event again.
RefuseUnknownNumber(h) ==
  /\ pc[h] = "resolve"
  /\ Tenant(h) = NoTenant
  /\ Leave(h)
  /\ UNCHANGED <<ledgerVars, now, signingKey, byok, wire, guard, nextAtt,
       calls, logs, tasks, replies, paid, hungUp, cut, landed>>

\* tenant_has_own_telnyx: a workspace on its own key is not charged.
CheckByok(h) ==
  /\ pc[h] = "byok"
  /\ ownKey' = [ownKey EXCEPT ![h] = Tenant(h) \in byok]
  /\ Goto(h, IF Tenant(h) \in byok THEN "insertCall" ELSE "deduct")
  /\ UNCHANGED <<ledgerVars, now, signingKey, byok, wire, guard, req, at, att,
       nextAtt, calls, logs, tasks, replies, paid, hungUp, cut, landed>>

\* deduct_credit took a credit for this call.
Deduct(h) ==
  /\ pc[h] = "deduct"
  /\ TakeCredit(Tenant(h))
  /\ paid' = [paid EXCEPT ![Tenant(h)] = @ \cup {att[h]}]
  /\ Goto(h, "insertCall")
  /\ UNCHANGED <<now, signingKey, byok, wire, guard, req, at, att, ownKey,
       nextAtt, calls, logs, tasks, replies, hungUp, cut, landed>>

\* Mutant: the hangup arm writes the row too.
HangUpCharging(h) ==
  /\ pc[h] = "deduct"
  /\ NoCreditLeft(Tenant(h))
  /\ lifetime' = [lifetime EXCEPT ![Tenant(h)] = @ + 1]
  /\ hungUp' = hungUp \cup {req[h]}
  /\ Goto(h, "ack")
  /\ UNCHANGED <<planRow, balance, grant, granted, spent, drifted, now, signingKey,
       byok, wire, guard, req, at, att, ownKey, nextAtt, calls, logs, tasks, replies,
       paid, cut, landed>>

\* No credit left: the call is hung up, which is an answer like any other.
HangUp(h) ==
  /\ pc[h] = "deduct"
  /\ NoCreditLeft(Tenant(h))
  /\ hungUp' = hungUp \cup {req[h]}
  /\ Goto(h, "ack")
  /\ UNCHANGED <<ledgerVars, now, signingKey, byok, wire, guard, req, at, att,
       ownKey, nextAtt, calls, logs, tasks, replies, paid, cut, landed>>

\* The INSERT into inbound_calls (and the activity line, best-effort).
InsertCall(h) ==
  /\ pc[h] = "insertCall"
  /\ calls' = calls \cup
       {[attempt |-> att[h], sig |-> req[h], at |-> at[h], tenant |-> Tenant(h)]}
  /\ Goto(h, "insertLog")
  /\ UNCHANGED <<ledgerVars, now, signingKey, byok, wire, guard, req, at, att,
       ownKey, nextAtt, logs, tasks, replies, paid, hungUp, cut, landed>>

\* Mutant: the cost is computed from provider_keys as it is now.
InsertLogReadingByok(h) ==
  /\ pc[h] = "insertLog"
  /\ logs' = logs \cup
       {[attempt |-> att[h], tenant |-> Tenant(h),
         cost |-> IF Tenant(h) \in byok THEN 0 ELSE 1]}
  /\ Goto(h, "finish")
  /\ UNCHANGED <<ledgerVars, now, signingKey, byok, wire, guard, req, at, att,
       ownKey, nextAtt, calls, tasks, replies, paid, hungUp, cut, landed>>

\* The INSERT into call_logs: one credit, or no cost on the workspace's own key.
InsertLog(h) ==
  /\ pc[h] = "insertLog"
  /\ logs' = logs \cup
       {[attempt |-> att[h], tenant |-> Tenant(h), cost |-> IF ownKey[h] THEN 0 ELSE 1]}
  /\ Goto(h, "finish")
  /\ UNCHANGED <<ledgerVars, now, signingKey, byok, wire, guard, req, at, att,
       ownKey, nextAtt, calls, tasks, replies, paid, hungUp, cut, landed>>

\* The effect has landed. For a recorded call the rule evaluation is spawned;
\* there is no await from there to the ack, which remembers the signature with
\* the clock read on arrival, and the 200.
Finish(h) ==
  /\ pc[h] \in {"finish", "ack"}
  /\ tasks' = IF pc[h] = "finish" THEN tasks \cup {att[h]} ELSE tasks
  /\ guard' = {e \in Pruned(at[h]) : e.sig # req[h]}
                \cup {[sig |-> req[h], at |-> at[h]]}
  /\ landed' = landed \cup {[sig |-> req[h], at |-> at[h]]}
  /\ Leave(h)
  /\ UNCHANGED <<ledgerVars, now, signingKey, byok, wire, nextAtt, calls, logs,
       replies, paid, hungUp, cut>>

\* Mutant: the delivery is remembered although its handler failed.
FailRemembering(h) ==
  /\ pc[h] # "idle"
  /\ cut' = IF pc[h] = "arrived" THEN cut ELSE cut \cup {att[h]}
  /\ guard' = IF pc[h] = "arrived" THEN guard
              ELSE guard \cup {[sig |-> req[h], at |-> at[h]]}
  /\ Leave(h)
  /\ UNCHANGED <<ledgerVars, now, signingKey, byok, wire, nextAtt,
       calls, logs, tasks, replies, paid, hungUp, landed>>

\* A statement fails, or the client hangs up and the future is dropped: the
\* handler ends, before or after a statement that committed, and the delivery is
\* not remembered. An event that needs no statement is acked without an await.
Fail(h) ==
  /\ pc[h] # "idle"
  /\ pc[h] = "ack" => req[h].event \in CallEvents
  /\ cut' = IF pc[h] = "arrived" THEN cut ELSE cut \cup {att[h]}
  /\ Leave(h)
  /\ UNCHANGED <<ledgerVars, now, signingKey, byok, wire, guard, nextAtt,
       calls, logs, tasks, replies, paid, hungUp, landed>>

\* Mutant: the task is left to run again after a reply.
RunRulesAgain(a) ==
  /\ a \in tasks
  /\ \E kind \in {"text", "callback"} :
       replies' = replies \cup {[attempt |-> a, kind |-> kind]}
  /\ UNCHANGED <<ledgerVars, now, signingKey, byok, wire, guard, pc, req, at,
       att, ownKey, nextAtt, calls, logs, tasks, paid, hungUp, cut, landed>>

\* run_for_inbound_call, spawned by Finish: the first matching active rule is
\* performed (a text or a callback row), no rule matches, or the attempt fails
\* and is only logged. Either way the task is over.
RunRules(a) ==
  /\ a \in tasks
  /\ tasks' = tasks \ {a}
  /\ \/ \E kind \in {"text", "callback"} :
          replies' = replies \cup {[attempt |-> a, kind |-> kind]}
     \/ replies' = replies
  /\ UNCHANGED <<ledgerVars, now, signingKey, byok, wire, guard, pc, req, at,
       att, ownKey, nextAtt, calls, logs, paid, hungUp, cut, landed>>

\* The process restarts: the requests, the spawned tasks and the replay guard
\* were memory; the rows stay.
Restart ==
  /\ LedgerRestart
  /\ guard' = {} /\ landed' = {} /\ tasks' = {}
  /\ cut' = cut \cup {att[h] : h \in {k \in Handlers : pc[k] \notin {"idle", "arrived"}}}
                \cup tasks
  /\ pc' = [h \in Handlers |-> "idle"]
  /\ req' = [h \in Handlers |-> Idle]
  /\ at' = [h \in Handlers |-> 0]
  /\ att' = [h \in Handlers |-> 0]
  /\ ownKey' = [h \in Handlers |-> FALSE]
  /\ UNCHANGED <<now, signingKey, byok, wire, nextAtt, calls, logs, replies,
       paid, hungUp>>

HandlerStep(h) ==
  \/ \E d \in Incoming : Receive(h, d)
  \/ RefuseUnverified(h) \/ RefuseReplayed(h) \/ Admit(h)
  \/ ResolveTenant(h) \/ RefuseUnknownNumber(h) \/ CheckByok(h)
  \/ Deduct(h) \/ HangUp(h) \/ InsertCall(h) \/ InsertLog(h)
  \/ Finish(h) \/ Fail(h)

Next ==
  \/ Tick
  \/ \E e \in Events : TelnyxSigns(e)
  \/ \E t \in Tenants : SwitchByok(t)
  \/ \E h \in Handlers : HandlerStep(h)
  \/ \E a \in tasks : RunRules(a)
  \/ Restart
  \/ \E t \in Tenants : SeatPlan(t) /\ UNCHANGED callVars
  \/ \E g \in Grants : GrantStep(g) /\ UNCHANGED callVars

Spec == Init /\ [][Next]_vars

-----------------------------------------------------------------------------
(* What the door promises.                                                  *)

\* A call is recorded only for a delivery that Telnyx signed, that was inside
\* the freshness window of the clock read on arrival, that reports a call, and
\* on the workspace that holds the number dialed (webhook verifies before it
\* parses; every statement comes after).
OnlyVerifiedCallsRecorded ==
  \A r \in calls :
    /\ r.sig \in wire
    /\ r.sig.event \in CallEvents
    /\ Distance(r.at, r.sig.ts) <= Tolerance
    /\ Owner[r.sig.event] = r.tenant

\* The attempts for which call_logs shows the workspace a cost.
ChargedAttempts(t) == {l.attempt : l \in {k \in logs : k.tenant = t /\ k.cost = 1}}

\* The workspace is never shown more charged calls than it spent credits,
\* whatever handlers interleave, fail or restart.
ChargesCoveredByCredits ==
  \A t \in Tenants : Cardinality(ChargedAttempts(t)) <= spent[t]

\* A credit is spent for nothing only when a request died before both INSERTs were
\* done: every other attempt that paid has its row in inbound_calls and a line of
\* call_logs that shows the workspace what it paid, whatever became of its own key in
\* the meantime, or is about to write them.
SpentCreditsAccounted ==
  \A t \in Tenants : \A a \in paid[t] :
    \/ /\ \E r \in calls : r.attempt = a /\ r.tenant = t
       /\ a \in ChargedAttempts(t)
    \/ \E h \in Handlers : att[h] = a /\ pc[h] \in {"insertCall", "insertLog"}
    \/ a \in cut

\* The replay guard remembers a delivery only once its effect has landed (ack
\* after process_webhook_event): a call it refuses as a replay is in both
\* tables, or was hung up for want of a credit.
RememberedMeansLanded ==
  \A e \in guard : e.sig.event \in CallEvents =>
    \/ \E r \in calls, l \in logs : r.sig = e.sig /\ l.attempt = r.attempt
    \/ e.sig \in hungUp

Admits(h) == pc[h] = "arrived" /\ pc'[h] \in {"resolve", "ack"}

\* The window arithmetic of the guard: a request that reads the clock now, carrying a
\* delivery whose effect has landed since the process started, is let through only if
\* one of the copies landed longer ago than the window, at a clock that was still
\* behind Telnyx's timestamp. One copy is enough, even with a later one inside the
\* window: the ack of a slow handler stamps the entry with the old clock it holds.
GuardHoldsInsideWindow ==
  [][\A h \in Handlers : Admits(h) /\ at[h] = now =>
       \/ req[h] \notin {l.sig : l \in landed}
       \/ \E l \in landed :
            l.sig = req[h] /\ l.at < l.sig.ts /\ now - l.at > Tolerance
    ]_vars

\* The automatic reply: at most one per recorded call, and none for a call
\* whose two rows are not both there (the evaluation is spawned after them).
OneReplyPerRecordedCall ==
  \A y \in replies :
    /\ \E r \in calls, l \in logs : r.attempt = y.attempt /\ l.attempt = y.attempt
    /\ \A z \in replies : z.attempt = y.attempt => z = y

\* "Telnyx's own retry of a delivery we already processed is refused here,
\* which is the idempotency we want" (the comment on ReplayGuard): inside the
\* window, no delivery of an event already processed is let through.
RetryOfProcessedIsRefused ==
  [][\A h \in Handlers : Admits(h) =>
       \A l \in landed : l.sig.event = req[h].event => now - l.at > Tolerance
    ]_vars
=============================================================================
