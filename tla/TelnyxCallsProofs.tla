-------------------------- MODULE TelnyxCallsProofs --------------------------
(***************************************************************************)
(* What the run telnyx_calls checks on a small instance, proved for every  *)
(* number of handlers, events, workspaces and clocks.                      *)
(*                                                                         *)
(* The proofs go in layers. First, what a handler holds between two        *)
(* statements (RequestsTracked). With it, every step of the door is a step *)
(* of the credit ledger or leaves it alone, so that what CreditLedgerProofs*)
(* proves holds here too. Then one inductive invariant per property, each  *)
(* using the layers below it.                                              *)
(***************************************************************************)
EXTENDS TelnyxCalls, CreditLedgerProofs, FiniteSetTheorems

\* The handlers let through by the replay guard and not yet done.
Busy == {h \in Handlers : pc[h] \notin {"idle", "arrived"}}

\* Those that have found the workspace the call is for.
ForTenant == {h \in Handlers : pc[h] \in {"byok", "deduct", "insertCall", "insertLog", "finish"}}

\* What a handler has established stays established: its delivery is one that
\* Telnyx signed, inside the window of its clock read, and from the resolve step
\* on it reports a call, on a number that a workspace holds.
RequestsTracked ==
  \A h \in Handlers :
    /\ pc[h] # "idle" => req[h] \in wire \cup {Unsigned} /\ at[h] <= now
    /\ h \in Busy => req[h] \in wire /\ Distance(at[h], req[h].ts) <= Tolerance
    /\ h \in Busy /\ pc[h] # "ack" => req[h].event \in CallEvents
    /\ h \in ForTenant => Tenant(h) \in Tenants

CallsIInv == CallsTypeOK /\ RequestsTracked

\* The door's invariant holds initially.
LEMMA CallsInitIInv == Init => CallsIInv
<1> SUFFICES ASSUME Init PROVE CallsIInv
  OBVIOUS
<1>1. CallsTypeOK
  BY ClockAssumption DEF Init, CallsTypeOK, PCs
<1>2. RequestsTracked
  BY DEF Init, RequestsTracked, Busy, ForTenant
<1> QED BY <1>1, <1>2 DEF CallsIInv

\* A step of the world: the clock and the wire only grow, handlers stay.
Aside ==
  /\ UNCHANGED <<pc, req, at>>
  /\ now <= now' /\ now' \in 0..MaxTime
  /\ wire \subseteq wire' /\ wire' \subseteq Delivery

\* The world's steps: nothing a handler holds is taken back.
LEMMA WorldStepIInv ==
  ASSUME CallsIInv,
         \/ Tick
         \/ \E e \in Events : TelnyxSigns(e)
         \/ \E t \in Tenants : SwitchByok(t)
         \/ \E a \in tasks : RunRules(a)
         \/ UNCHANGED callVars
  PROVE  CallsIInv'
<1> USE ClockAssumption DEF CallsIInv
<1>1. Aside
  <2>1. CASE Tick
    BY <2>1 DEF Tick, Aside, CallsTypeOK
  <2>2. ASSUME NEW e \in Events, TelnyxSigns(e) PROVE Aside
    <3>1. ASSUME NEW ts \in now..(now + Skew)
          PROVE  [event |-> e, ts |-> ts] \in Delivery
      BY DEF Delivery, Aside, CallsTypeOK
    <3> QED BY <2>2, <3>1 DEF TelnyxSigns, Aside, CallsTypeOK
  <2>3. ASSUME NEW t \in Tenants, SwitchByok(t) PROVE Aside
    BY <2>3 DEF SwitchByok, Aside, CallsTypeOK
  <2>4. ASSUME NEW a \in tasks, RunRules(a) PROVE Aside
    BY <2>4 DEF RunRules, Aside, CallsTypeOK
  <2>5. CASE UNCHANGED callVars
    BY <2>5 DEF callVars, Aside, CallsTypeOK
  <2> QED BY <2>1, <2>2, <2>3, <2>4, <2>5
<1>2. CallsTypeOK'
  <2>1. CASE Tick
    BY <1>1, <2>1 DEF Aside, Tick, CallsTypeOK
  <2>2. ASSUME NEW e \in Events, TelnyxSigns(e) PROVE CallsTypeOK'
    BY <1>1, <2>2 DEF Aside, TelnyxSigns, CallsTypeOK
  <2>3. ASSUME NEW t \in Tenants, SwitchByok(t) PROVE CallsTypeOK'
    BY <1>1, <2>3 DEF Aside, SwitchByok, CallsTypeOK
  <2>4. ASSUME NEW a \in tasks, RunRules(a) PROVE CallsTypeOK'
    <3>1. \A kind \in {"text", "callback"} : [attempt |-> a, kind |-> kind] \in Reply
      BY DEF Reply, CallsTypeOK
    <3> QED BY <1>1, <2>4, <3>1 DEF Aside, RunRules, CallsTypeOK
  <2>5. CASE UNCHANGED callVars
    BY <1>1, <2>5 DEF Aside, callVars, CallsTypeOK
  <2> QED BY <2>1, <2>2, <2>3, <2>4, <2>5
<1>3. RequestsTracked'
  <2> SUFFICES ASSUME NEW h \in Handlers
               PROVE  /\ pc[h] # "idle" => req[h] \in wire' \cup {Unsigned} /\ at[h] <= now'
                      /\ h \in Busy => req[h] \in wire' /\ Distance(at[h], req[h].ts) <= Tolerance
                      /\ h \in Busy /\ pc[h] # "ack" => req[h].event \in CallEvents
                      /\ h \in ForTenant => Tenant(h) \in Tenants
    BY <1>1 DEF Aside, RequestsTracked, Busy, ForTenant, Tenant, Distance
  <2>1. at[h] \in Nat /\ now \in Nat /\ now' \in Nat
    BY <1>1 DEF Aside, CallsTypeOK
  <2> QED BY <1>1, <2>1 DEF Aside, RequestsTracked
<1> QED BY <1>2, <1>3

\* A handler's step is its own: the clock, the keys, the wire and the other
\* handlers stay.
OwnStep(h) ==
  /\ UNCHANGED <<now, signingKey, byok, wire>>
  /\ pc' \in [Handlers -> PCs]
  /\ req' \in [Handlers -> Delivery \cup {Idle, Unsigned}]
  /\ at' \in [Handlers -> Nat]
  /\ att' \in [Handlers -> Nat]
  /\ ownKey' \in [Handlers -> BOOLEAN]
  /\ \A k \in Handlers : k # h =>
       /\ pc'[k] = pc[k] /\ req'[k] = req[k] /\ at'[k] = at[k]
       /\ att'[k] = att[k] /\ ownKey'[k] = ownKey[k]

\* A step of one handler leaves the others' requests alone.
LEMMA HandlerStepIsOwn ==
  ASSUME CallsTypeOK, NEW h \in Handlers, HandlerStep(h)
  PROVE  OwnStep(h)
<1> USE DEF OwnStep, Goto, Leave, CallsTypeOK, PCs
<1>1. ASSUME NEW d \in Incoming, Receive(h, d)
      PROVE  OwnStep(h)
  BY <1>1 DEF Receive, Incoming
<1>2. CASE RefuseUnverified(h)
  BY <1>2 DEF RefuseUnverified
<1>3. CASE RefuseReplayed(h)
  BY <1>3 DEF RefuseReplayed
<1>4. CASE RefuseUnknownNumber(h)
  BY <1>4 DEF RefuseUnknownNumber
<1>5. CASE Admit(h)
  BY <1>5 DEF Admit
<1>6. CASE ResolveTenant(h)
  BY <1>6 DEF ResolveTenant
<1>7. CASE CheckByok(h)
  BY <1>7 DEF CheckByok
<1>8. CASE Deduct(h)
  BY <1>8 DEF Deduct
<1>9. CASE HangUp(h)
  BY <1>9 DEF HangUp
<1>10. CASE InsertCall(h)
  BY <1>10 DEF InsertCall
<1>11. CASE InsertLog(h)
  BY <1>11 DEF InsertLog
<1>12. CASE Finish(h)
  BY <1>12 DEF Finish
<1>13. CASE Fail(h)
  BY <1>13 DEF Fail
<1> QED BY <1>1, <1>2, <1>3, <1>4, <1>5, <1>6, <1>7, <1>8, <1>9, <1>10, <1>11, <1>12, <1>13
   DEF HandlerStep

\* RequestsTracked, of one handler.
Tracked(h) ==
  /\ pc[h] # "idle" => req[h] \in wire \cup {Unsigned} /\ at[h] <= now
  /\ h \in Busy => req[h] \in wire /\ Distance(at[h], req[h].ts) <= Tolerance
  /\ h \in Busy /\ pc[h] # "ack" => req[h].event \in CallEvents
  /\ h \in ForTenant => Tenant(h) \in Tenants

\* A handler's step keeps every request in flight tracked to its delivery.
LEMMA HandlerStepTracked ==
  ASSUME CallsIInv, NEW h \in Handlers, HandlerStep(h)
  PROVE  RequestsTracked'
<1>1. CallsTypeOK /\ OwnStep(h)
  BY HandlerStepIsOwn DEF CallsIInv
<1>2. ASSUME NEW k \in Handlers PROVE Tracked(k)
  BY DEF CallsIInv, RequestsTracked, Tracked
<1>3. ASSUME NEW k \in Handlers, k # h PROVE Tracked(k)'
  BY <1>1, <1>2, <1>3 DEF OwnStep, Tracked, Busy, ForTenant, Tenant, Distance
<1>4. Tracked(h)'
  <2> USE <1>1, <1>2 DEF Tracked, Goto, Leave, Busy, ForTenant, Tenant, CallsTypeOK, OwnStep
  <2>1. ASSUME NEW d \in Incoming, Receive(h, d) PROVE Tracked(h)'
    BY <2>1 DEF Receive, Incoming
  <2>2. CASE RefuseUnverified(h) \/ RefuseReplayed(h) \/ RefuseUnknownNumber(h)
                \/ Finish(h) \/ Fail(h)
    BY <2>2 DEF RefuseUnverified, RefuseReplayed, RefuseUnknownNumber, Finish, Fail
  <2>3. CASE Admit(h)
    BY <2>3 DEF Admit, Verified, Distance
  <2>4. CASE ResolveTenant(h)
    <3>1. Owner[req[h].event] \in Tenants
      BY <2>4, OwnerAssumption DEF ResolveTenant, Delivery
    <3> QED BY <2>4, <3>1 DEF ResolveTenant, Distance
  <2>5. CASE CheckByok(h) \/ Deduct(h) \/ HangUp(h) \/ InsertCall(h) \/ InsertLog(h)
    BY <2>5 DEF CheckByok, Deduct, HangUp, InsertCall, InsertLog, Distance
  <2> QED BY <2>1, <2>2, <2>3, <2>4, <2>5 DEF HandlerStep
<1> QED BY <1>3, <1>4 DEF RequestsTracked, Tracked

\* The rows a handler writes are typed because of what it tracked.
LEMMA HandlerStepTypeOK ==
  ASSUME CallsIInv, NEW h \in Handlers, HandlerStep(h)
  PROVE  CallsTypeOK'
<1>1. CallsTypeOK /\ OwnStep(h) /\ Tracked(h)
  BY HandlerStepIsOwn DEF CallsIInv, RequestsTracked, Tracked
<1>2. h \in Busy => req[h] \in Delivery /\ [sig |-> req[h], at |-> at[h]] \in Seen
  BY <1>1 DEF Tracked, CallsTypeOK, Seen
<1>3. \A n \in Nat : Pruned(n) \subseteq Seen
  BY <1>1 DEF CallsTypeOK, Pruned
<1>4. ASSUME UNCHANGED <<nextAtt, calls, logs, tasks, replies, paid, hungUp, cut, landed, guard>>
      PROVE  CallsTypeOK'
  BY <1>1, <1>4 DEF CallsTypeOK, OwnStep
<1>5. ASSUME NEW d \in Incoming, Receive(h, d) PROVE CallsTypeOK'
  BY <1>4, <1>5 DEF Receive
<1>6. CASE RefuseUnverified(h) \/ RefuseUnknownNumber(h) \/ ResolveTenant(h) \/ CheckByok(h)
  BY <1>4, <1>6 DEF RefuseUnverified, RefuseUnknownNumber, ResolveTenant, CheckByok
<1>7. CASE RefuseReplayed(h)
  BY <1>1, <1>3, <1>7 DEF RefuseReplayed, CallsTypeOK, OwnStep
<1>8. CASE Admit(h)
  BY <1>1, <1>3, <1>8 DEF Admit, CallsTypeOK, OwnStep
<1>9. CASE Deduct(h)
  <2>1. paid' \in [Tenants -> SUBSET Nat]
    BY <1>1, <1>9 DEF Deduct, CallsTypeOK
  <2> QED BY <1>1, <1>9, <2>1 DEF Deduct, CallsTypeOK, OwnStep
<1>10. CASE HangUp(h)
  <2>1. req[h] \in Delivery
    BY <1>2, <1>10 DEF HangUp, Busy
  <2> QED BY <1>1, <1>10, <2>1 DEF HangUp, CallsTypeOK, OwnStep
<1>11. CASE InsertCall(h)
  <2>1. [attempt |-> att[h], sig |-> req[h], at |-> at[h], tenant |-> Tenant(h)] \in Call
    BY <1>1, <1>2, <1>11 DEF InsertCall, Call, Tracked, ForTenant, Busy, CallsTypeOK
  <2> QED BY <1>1, <1>11, <2>1 DEF InsertCall, CallsTypeOK, OwnStep
<1>12. CASE InsertLog(h)
  <2>1. [attempt |-> att[h], tenant |-> Tenant(h), cost |-> IF ownKey[h] THEN 0 ELSE 1] \in Log
    BY <1>1, <1>12 DEF InsertLog, Log, Tracked, ForTenant, CallsTypeOK
  <2> QED BY <1>1, <1>12, <2>1 DEF InsertLog, CallsTypeOK, OwnStep
<1>13. CASE Finish(h)
  <2>1. [sig |-> req[h], at |-> at[h]] \in Seen
    BY <1>2, <1>13 DEF Finish, Busy
  <2>2. tasks' \subseteq Nat
    BY <1>1, <1>13 DEF Finish, CallsTypeOK
  <2>3. guard' \subseteq Seen /\ landed' \subseteq Seen
    BY <1>1, <1>3, <1>13, <2>1 DEF Finish, CallsTypeOK
  <2> QED BY <1>1, <1>13, <2>2, <2>3 DEF Finish, CallsTypeOK, OwnStep
<1>14. CASE Fail(h)
  <2>1. cut' \subseteq Nat
    BY <1>1, <1>14 DEF Fail, CallsTypeOK
  <2> QED BY <1>1, <1>14, <2>1 DEF Fail, CallsTypeOK, OwnStep
<1> QED BY <1>5, <1>6, <1>7, <1>8, <1>9, <1>10, <1>11, <1>12, <1>13, <1>14 DEF HandlerStep

\* A restart of the process preserves the invariant.
LEMMA RestartIInv ==
  ASSUME CallsIInv, Restart
  PROVE  CallsIInv'
<1>1. CallsTypeOK'
  BY DEF CallsIInv, CallsTypeOK, Restart, PCs
<1>2. RequestsTracked'
  BY DEF Restart, RequestsTracked, Busy, ForTenant
<1> QED BY <1>1, <1>2 DEF CallsIInv

\* Every step of the door preserves the invariant.
LEMMA CallsStepIInv == CallsIInv /\ [Next]_vars => CallsIInv'
<1> SUFFICES ASSUME CallsIInv, [Next]_vars PROVE CallsIInv'
  OBVIOUS
<1>1. ASSUME NEW h \in Handlers, HandlerStep(h) PROVE CallsIInv'
  BY <1>1, HandlerStepTracked, HandlerStepTypeOK DEF CallsIInv
<1>2. CASE Restart
  BY <1>2, RestartIInv
<1> QED BY <1>1, <1>2, WorldStepIInv DEF Next, vars

\* The inductive invariant of the door holds in every reachable state: the types,
\* and that what a handler past the signature check serves was signed by Telnyx.
THEOREM CallsInvariant == Spec => []CallsIInv
BY CallsInitIInv, CallsStepIInv, PTL DEF Spec

-----------------------------------------------------------------------------
(* The door and the credit ledger.                                          *)

\* Every step of the door is a step of the credit ledger or leaves it alone.
LEMMA NextIsLedgerStep == CallsIInv /\ [Next]_vars => [LedgerNext]_ledgerVars
<1> SUFFICES ASSUME CallsIInv, [Next]_vars PROVE [LedgerNext]_ledgerVars
  OBVIOUS
<1> USE DEF vars
<1>1. CASE Tick
  BY <1>1 DEF Tick
<1>2. ASSUME NEW e \in Events, TelnyxSigns(e) PROVE UNCHANGED ledgerVars
  BY <1>2 DEF TelnyxSigns
<1>3. ASSUME NEW t \in Tenants, SwitchByok(t) PROVE UNCHANGED ledgerVars
  BY <1>3 DEF SwitchByok
<1>4. ASSUME NEW h \in Handlers, HandlerStep(h) PROVE [LedgerNext]_ledgerVars
  <2>1. CASE Deduct(h)
    <3>1. TakeCredit(Tenant(h)) /\ Tenant(h) \in Tenants
      BY <2>1 DEF Deduct, CallsIInv, RequestsTracked, ForTenant
    <3> QED BY <3>1 DEF LedgerNext
  <2>2. ASSUME ~Deduct(h) PROVE UNCHANGED ledgerVars
    BY <1>4, <2>2
       DEF HandlerStep, Receive, RefuseUnverified, RefuseReplayed, Admit, ResolveTenant,
           RefuseUnknownNumber, CheckByok, HangUp, InsertCall, InsertLog, Finish, Fail
  <2> QED BY <2>1, <2>2
<1>5. ASSUME NEW a \in tasks, RunRules(a) PROVE UNCHANGED ledgerVars
  BY <1>5 DEF RunRules
<1>6. CASE Restart
  BY <1>6 DEF Restart, LedgerNext
<1>7. CASE (\E t \in Tenants : SeatPlan(t)) \/ (\E g \in Grants : GrantStep(g))
  BY <1>7 DEF LedgerNext
<1>8. CASE UNCHANGED vars
  BY <1>8
<1> QED BY <1>1, <1>2, <1>3, <1>4, <1>5, <1>6, <1>7, <1>8 DEF Next

\* Every behaviour of the door is a behaviour of the credit ledger: a call takes
\* a credit by deduct_credit's statement or touches no credit at all.
THEOREM CallsRefineLedger == Spec => LedgerSpec
<1>1. Init => LedgerInit
  BY DEF Init
<1> QED BY <1>1, CallsInvariant, NextIsLedgerStep, PTL DEF Spec, LedgerSpec

\* The door's variables keep their types, the credit columns among them.
THEOREM CallsTypeCorrect == Spec => []TypeOK
<1>1. LedgerTypeOK /\ CallsIInv => TypeOK
  BY DEF TypeOK, CallsIInv
<1> QED BY <1>1, CallsInvariant, CallsRefineLedger, LedgerTypeCorrect, PTL

-----------------------------------------------------------------------------
(* Frames that the next layers share.                                       *)

\* The steps that no handler takes.
WorldStep ==
  \/ Tick
  \/ \E e \in Events : TelnyxSigns(e)
  \/ \E t \in Tenants : SwitchByok(t)
  \/ \E a \in tasks : RunRules(a)
  \/ UNCHANGED callVars

\* A step is one of the world around the handlers, of a handler, or a restart.
LEMMA NextCases ==
  ASSUME [Next]_vars
  PROVE  \/ WorldStep
         \/ \E h \in Handlers : HandlerStep(h)
         \/ Restart
BY DEF Next, WorldStep, vars

\* What the steps of the world around the handlers leave alone.
LEMMA WorldFrame ==
  ASSUME WorldStep
  PROVE  /\ UNCHANGED <<guard, pc, req, at, att, ownKey, nextAtt, calls, logs, paid,
                        hungUp, cut, landed>>
         /\ wire \subseteq wire'
<1>1. CASE Tick
  BY <1>1 DEF Tick
<1>2. ASSUME NEW e \in Events, TelnyxSigns(e)
      PROVE  UNCHANGED <<guard, pc, req, at, att, ownKey, nextAtt, calls, logs, paid,
                         hungUp, cut, landed>> /\ wire \subseteq wire'
  BY <1>2 DEF TelnyxSigns
<1>3. ASSUME NEW t \in Tenants, SwitchByok(t)
      PROVE  UNCHANGED <<guard, pc, req, at, att, ownKey, nextAtt, calls, logs, paid,
                         hungUp, cut, landed, wire>>
  BY <1>3 DEF SwitchByok
<1>4. ASSUME NEW a \in tasks, RunRules(a)
      PROVE  UNCHANGED <<guard, pc, req, at, att, ownKey, nextAtt, calls, logs, paid,
                         hungUp, cut, landed, wire>>
  BY <1>4 DEF RunRules
<1>5. CASE UNCHANGED callVars
  BY <1>5 DEF callVars
<1> QED BY <1>1, <1>2, <1>3, <1>4, <1>5 DEF WorldStep

\* Rows are inserted and never removed, and what Telnyx signed stays signed.
LEMMA RowsOnlyGrow ==
  ASSUME [Next]_vars
  PROVE  /\ calls \subseteq calls' /\ logs \subseteq logs'
         /\ hungUp \subseteq hungUp' /\ wire \subseteq wire'
<1>1. CASE WorldStep
  BY <1>1, WorldFrame
<1>2. ASSUME NEW h \in Handlers, HandlerStep(h)
      PROVE  /\ calls \subseteq calls' /\ logs \subseteq logs'
             /\ hungUp \subseteq hungUp' /\ wire \subseteq wire'
  BY <1>2
     DEF HandlerStep, Receive, RefuseUnverified, RefuseReplayed, Admit, ResolveTenant,
         RefuseUnknownNumber, CheckByok, Deduct, HangUp, InsertCall, InsertLog, Finish, Fail
<1>3. CASE Restart
  BY <1>3 DEF Restart
<1> QED BY <1>1, <1>2, <1>3, NextCases

-----------------------------------------------------------------------------
(* OnlyVerifiedCallsRecorded.                                               *)

\* No step adds an unverified row to inbound_calls.
LEMMA VerifiedStep ==
  ASSUME CallsIInv, OnlyVerifiedCallsRecorded, [Next]_vars
  PROVE  OnlyVerifiedCallsRecorded'
<1>1. ASSUME calls' = calls PROVE OnlyVerifiedCallsRecorded'
  BY <1>1, RowsOnlyGrow DEF OnlyVerifiedCallsRecorded, Distance
<1>2. CASE WorldStep \/ Restart
  BY <1>1, <1>2, WorldFrame DEF Restart
<1>3. ASSUME NEW h \in Handlers, HandlerStep(h) PROVE OnlyVerifiedCallsRecorded'
  <2>1. CASE InsertCall(h)
    <3> DEFINE r == [attempt |-> att[h], sig |-> req[h], at |-> at[h], tenant |-> Tenant(h)]
    <3>1. calls' = calls \cup {r} /\ wire' = wire
      BY <2>1 DEF InsertCall
    <3>2. /\ r.sig \in wire /\ r.sig.event \in CallEvents
          /\ Distance(r.at, r.sig.ts) <= Tolerance /\ Owner[r.sig.event] = r.tenant
      BY <2>1 DEF CallsIInv, RequestsTracked, Busy, InsertCall, Tenant
    <3> HIDE DEF r
    <3> QED BY <3>1, <3>2 DEF OnlyVerifiedCallsRecorded, Distance
  <2>2. ASSUME ~InsertCall(h) PROVE calls' = calls
    BY <1>3, <2>2
       DEF HandlerStep, Receive, RefuseUnverified, RefuseReplayed, Admit, ResolveTenant,
           RefuseUnknownNumber, CheckByok, Deduct, HangUp, InsertLog, Finish, Fail
  <2> QED BY <1>1, <2>1, <2>2
<1> QED BY <1>2, <1>3, NextCases

\* However requests interleave, fail or are cut by a restart, a row of
\* inbound_calls comes from a delivery that webhook verified, on the workspace
\* that holds the number dialed.
THEOREM CallsOnlyVerified == Spec => []OnlyVerifiedCallsRecorded
<1>1. Init => OnlyVerifiedCallsRecorded
  BY DEF Init, OnlyVerifiedCallsRecorded
<1> QED BY <1>1, CallsInvariant, VerifiedStep, PTL DEF Spec

-----------------------------------------------------------------------------
(* RememberedMeansLanded.                                                   *)

\* A handler that is about to ack has its delivery's effect in the tables.
EffectOf(h) ==
  /\ pc[h] = "insertLog" =>
       \E r \in calls : r.attempt = att[h] /\ r.sig = req[h]
  /\ pc[h] = "finish" =>
       \E r \in calls, l \in logs : r.sig = req[h] /\ l.attempt = r.attempt
  /\ pc[h] = "ack" /\ req[h].event \in CallEvents => req[h] \in hungUp

EffectBeforeAck == \A h \in Handlers : EffectOf(h)

\* RememberedMeansLanded, of one delivery.
LandedCall(d) ==
  d.event \in CallEvents =>
    \/ \E r \in calls, l \in logs : r.sig = d /\ l.attempt = r.attempt
    \/ d \in hungUp

\* A row written stays, and so does a hangup: nothing deletes them.
LEMMA EffectsStay ==
  ASSUME [Next]_vars
  PROVE  /\ \A d : LandedCall(d) => LandedCall(d)'
         /\ \A k \in Handlers :
              EffectOf(k) /\ pc'[k] = pc[k] /\ req'[k] = req[k] /\ att'[k] = att[k]
                => EffectOf(k)'
BY RowsOnlyGrow DEF LandedCall, EffectOf

\* After a handler step, a handler past its INSERTs still has their rows.
LEMMA HandlerEffect ==
  ASSUME CallsIInv, EffectBeforeAck, [Next]_vars, NEW h \in Handlers, HandlerStep(h)
  PROVE  EffectOf(h)'
<1>1. CallsTypeOK /\ OwnStep(h) /\ EffectOf(h)
  BY HandlerStepIsOwn DEF CallsIInv, EffectBeforeAck
<1>2. ASSUME pc'[h] \notin {"insertLog", "finish", "ack"} PROVE EffectOf(h)'
  BY <1>2 DEF EffectOf
<1> USE DEF Goto, Leave
<1>3. ASSUME NEW d \in Incoming, Receive(h, d) PROVE pc'[h] = "arrived"
  BY <1>1, <1>3 DEF Receive, CallsTypeOK
<1>4. CASE RefuseUnverified(h) \/ RefuseReplayed(h) \/ RefuseUnknownNumber(h)
             \/ Finish(h) \/ Fail(h)
  <2>1. pc'[h] = "idle"
    BY <1>1, <1>4 DEF CallsTypeOK, RefuseUnverified, RefuseReplayed, RefuseUnknownNumber,
                      Finish, Fail
  <2> QED BY <1>2, <2>1
<1>5. CASE ResolveTenant(h) \/ CheckByok(h) \/ Deduct(h)
  <2>1. pc'[h] \in {"byok", "deduct", "insertCall"}
    BY <1>1, <1>5 DEF CallsTypeOK, ResolveTenant, CheckByok, Deduct
  <2> QED BY <1>2, <2>1
<1>6. CASE Admit(h)
  BY <1>1, <1>6 DEF Admit, EffectOf, CallsTypeOK
<1>7. CASE HangUp(h)
  BY <1>1, <1>7 DEF HangUp, EffectOf, CallsTypeOK
<1>8. CASE InsertCall(h)
  <2> DEFINE r == [attempt |-> att[h], sig |-> req[h], at |-> at[h], tenant |-> Tenant(h)]
  <2>1. r \in calls' /\ r.attempt = att'[h] /\ r.sig = req'[h] /\ pc'[h] = "insertLog"
    BY <1>1, <1>8 DEF InsertCall, CallsTypeOK
  <2> HIDE DEF r
  <2> QED BY <2>1 DEF EffectOf
<1>9. CASE InsertLog(h)
  <2> DEFINE l == [attempt |-> att[h], tenant |-> Tenant(h),
                   cost |-> IF ownKey[h] THEN 0 ELSE 1]
  <2>1. PICK r \in calls : r.attempt = att[h] /\ r.sig = req[h]
    BY <1>1, <1>9 DEF InsertLog, EffectOf
  <2>2. l \in logs' /\ l.attempt = att[h]
    BY <1>9 DEF InsertLog
  <2>3. r \in calls' /\ req'[h] = req[h] /\ pc'[h] = "finish"
    BY <1>1, <1>9 DEF InsertLog, CallsTypeOK
  <2> HIDE DEF l
  <2> QED BY <2>1, <2>2, <2>3 DEF EffectOf
<1> QED BY <1>2, <1>3, <1>4, <1>5, <1>6, <1>7, <1>8, <1>9 DEF HandlerStep

\* Every step keeps the rows of the handlers past their INSERTs.
LEMMA EffectStep ==
  ASSUME CallsIInv, EffectBeforeAck, [Next]_vars
  PROVE  EffectBeforeAck'
<1>1. CASE WorldStep
  BY <1>1, WorldFrame, EffectsStay DEF EffectBeforeAck
<1>2. ASSUME NEW h \in Handlers, HandlerStep(h) PROVE EffectBeforeAck'
  <2>1. OwnStep(h)
    BY <1>2, HandlerStepIsOwn DEF CallsIInv
  <2>2. ASSUME NEW k \in Handlers, k # h PROVE EffectOf(k)'
    BY <2>1, <2>2, EffectsStay DEF OwnStep, EffectBeforeAck
  <2> QED BY <1>2, <2>2, HandlerEffect DEF EffectBeforeAck
<1>3. CASE Restart
  BY <1>3 DEF Restart, EffectBeforeAck, EffectOf
<1> QED BY <1>1, <1>2, <1>3, NextCases

\* Every step keeps what the guard remembers landed.
LEMMA RememberedStep ==
  ASSUME CallsIInv, EffectBeforeAck, RememberedMeansLanded, [Next]_vars
  PROVE  RememberedMeansLanded'
<1>1. ASSUME NEW e \in guard PROVE LandedCall(e.sig)'
  BY EffectsStay DEF RememberedMeansLanded, LandedCall
<1>2. ASSUME guard' \subseteq guard PROVE RememberedMeansLanded'
  BY <1>1, <1>2 DEF RememberedMeansLanded, LandedCall
<1>3. CASE WorldStep \/ Restart
  BY <1>2, <1>3, WorldFrame DEF Restart
<1>4. ASSUME NEW h \in Handlers, HandlerStep(h) PROVE RememberedMeansLanded'
  <2>1. CASE Finish(h)
    <3>1. LandedCall(req[h])
      BY <2>1 DEF EffectBeforeAck, EffectOf, LandedCall, Finish
    <3>2. \A e \in guard' : e \in guard \/ e.sig = req[h]
      BY <2>1 DEF Finish, Pruned
    <3> QED BY <1>1, <3>1, <3>2, EffectsStay DEF RememberedMeansLanded, LandedCall
  <2>2. ASSUME ~Finish(h) PROVE guard' \subseteq guard
    BY <1>4, <2>2
       DEF HandlerStep, Receive, RefuseUnverified, RefuseReplayed, Admit, ResolveTenant,
           RefuseUnknownNumber, CheckByok, Deduct, HangUp, InsertCall, InsertLog, Fail, Pruned
  <2> QED BY <1>2, <2>1, <2>2
<1> QED BY <1>3, <1>4, NextCases

\* The replay guard never refuses a call delivery whose effect is missing: what
\* it remembers is in both tables or was hung up, so a delivery that failed on
\* the way stays retryable.
THEOREM CallsRememberedLanded == Spec => []RememberedMeansLanded
<1>1. Init => EffectBeforeAck /\ RememberedMeansLanded
  BY DEF Init, EffectBeforeAck, EffectOf, RememberedMeansLanded
<1> QED BY <1>1, CallsInvariant, EffectStep, RememberedStep, PTL DEF Spec

-----------------------------------------------------------------------------
(* The credits: SpentCreditsAccounted and ChargesCoveredByCredits.          *)

\* What an attempt has paid, by where its handler is.
Unpaid(a) == \A t \in Tenants : a \notin paid[t]
PaidOnlyBy(a, u) == a \in paid[u] /\ \A t \in Tenants : a \in paid[t] => t = u

AttemptOf(h) ==
  /\ h \in Busy => att[h] < nextAtt
  /\ pc[h] \in {"resolve", "byok", "deduct"} => Unpaid(att[h]) /\ ~ownKey[h]
  /\ pc[h] \in {"insertCall", "insertLog", "finish"} =>
       IF ownKey[h] THEN Unpaid(att[h]) ELSE PaidOnlyBy(att[h], Tenant(h))

\* A handler that is not yet let through holds no answer of provider_keys.
FreshHandlers == \A h \in Handlers : pc[h] \in {"idle", "arrived"} => ~ownKey[h]

AttemptsApart == \A h, k \in Busy : att[h] = att[k] => h = k
PaidBefore    == \A t \in Tenants : \A a \in paid[t] : a < nextAtt

AttemptsIInv ==
  /\ \A h \in Handlers : AttemptOf(h)
  /\ FreshHandlers
  /\ AttemptsApart
  /\ PaidBefore

\* No attempt has been handed out initially.
LEMMA AttemptsInit == Init => AttemptsIInv
BY DEF Init, AttemptsIInv, AttemptOf, FreshHandlers, AttemptsApart, PaidBefore, Busy

\* Admitting a delivery hands out an attempt number nobody has.
LEMMA AttemptsAdmit ==
  ASSUME CallsIInv, AttemptsIInv, NEW h \in Handlers, Admit(h), OwnStep(h)
  PROVE  AttemptsIInv'
<1>1. /\ pc[h] = "arrived" /\ pc'[h] \in {"resolve", "ack"} /\ ~ownKey'[h]
      /\ att'[h] = nextAtt /\ nextAtt' = nextAtt + 1 /\ nextAtt \in Nat
      /\ paid' = paid
  BY DEF Admit, Goto, CallsIInv, CallsTypeOK, AttemptsIInv, FreshHandlers
<1>2. PaidBefore'
  BY <1>1 DEF AttemptsIInv, PaidBefore, CallsIInv, CallsTypeOK
<1>3. Unpaid(nextAtt)
  BY <1>1 DEF AttemptsIInv, PaidBefore, Unpaid
<1>4. AttemptOf(h)'
  BY <1>1, <1>3 DEF AttemptOf, Unpaid
<1>5. ASSUME NEW k \in Handlers, k # h PROVE AttemptOf(k)'
  <2>1. att[k] \in Nat
    BY DEF CallsIInv, CallsTypeOK
  <2> QED BY <1>1, <1>5, <2>1
          DEF AttemptsIInv, AttemptOf, OwnStep, Busy, Unpaid, PaidOnlyBy, Tenant
<1>6. FreshHandlers'
  BY <1>1 DEF AttemptsIInv, FreshHandlers, OwnStep
<1>7. AttemptsApart'
  <2>1. \A k \in Busy : att[k] < nextAtt
    BY DEF AttemptsIInv, AttemptOf, Busy
  <2>2. \A k \in Handlers : att[k] \in Nat
    BY DEF CallsIInv, CallsTypeOK
  <2> QED BY <1>1, <2>1, <2>2 DEF AttemptsIInv, AttemptsApart, OwnStep, Busy
<1> QED BY <1>2, <1>4, <1>5, <1>6, <1>7 DEF AttemptsIInv

\* Taking a credit keeps every attempt one handler's.
LEMMA AttemptsDeduct ==
  ASSUME CallsIInv, AttemptsIInv, NEW h \in Handlers, Deduct(h), OwnStep(h)
  PROVE  AttemptsIInv'
<1> DEFINE u == Tenant(h)
<1>1. /\ pc[h] = "deduct" /\ pc'[h] = "insertCall" /\ u \in Tenants /\ h \in Busy
      /\ UNCHANGED <<req, att, ownKey, nextAtt>>
      /\ paid' = [paid EXCEPT ![u] = @ \cup {att[h]}]
  BY DEF Deduct, Goto, CallsIInv, CallsTypeOK, RequestsTracked, ForTenant, Busy
<1>2. paid \in [Tenants -> SUBSET Nat] /\ att[h] < nextAtt /\ Unpaid(att[h]) /\ ~ownKey[h]
  BY <1>1 DEF CallsIInv, CallsTypeOK, AttemptsIInv, AttemptOf
<1> HIDE DEF u
<1>3. u = Tenant(h) /\ Tenant(h)' = Tenant(h) /\ u' = u
  BY <1>1 DEF Tenant, u
<1>4. PaidBefore'
  BY <1>1, <1>2 DEF AttemptsIInv, PaidBefore
<1>5. AttemptOf(h)'
  <2>1. PaidOnlyBy(att[h], u)'
    BY <1>1, <1>2, <1>3 DEF PaidOnlyBy, Unpaid
  <2> QED BY <1>1, <1>2, <1>3, <2>1 DEF AttemptOf, PaidOnlyBy
<1>6. ASSUME NEW k \in Handlers, k # h PROVE AttemptOf(k)'
  <2>1. k \in Busy => att[k] # att[h]
    BY <1>1, <1>6 DEF AttemptsIInv, AttemptsApart
  <2>2. k \in Busy => \A t \in Tenants : att[k] \in paid'[t] <=> att[k] \in paid[t]
    BY <1>1, <1>2, <2>1
  <2>3. AttemptOf(k) /\ pc'[k] = pc[k] /\ Tenant(k)' = Tenant(k)
    BY <1>1, <1>6 DEF AttemptsIInv, OwnStep, Tenant
  <2>4. k \in Busy /\ Unpaid(att[k]) => Unpaid(att[k])'
    BY <1>1, <2>2 DEF Unpaid
  <2>5. k \in ForTenant => Tenant(k) \in Tenants
    BY DEF CallsIInv, RequestsTracked
  <2>6. k \in Busy /\ k \in ForTenant /\ PaidOnlyBy(att[k], Tenant(k))
          => PaidOnlyBy(att[k], Tenant(k))'
    BY <1>1, <2>2, <2>3, <2>5 DEF PaidOnlyBy
  <2> QED BY <1>1, <2>3, <2>4, <2>6 DEF AttemptOf, Busy, ForTenant
<1>7. FreshHandlers' /\ AttemptsApart'
  BY <1>1 DEF AttemptsIInv, FreshHandlers, AttemptsApart, OwnStep, Busy
<1> QED BY <1>4, <1>5, <1>6, <1>7 DEF AttemptsIInv

\* The other steps of a handler neither pay nor hand out an attempt.
LEMMA AttemptsOther ==
  ASSUME CallsIInv, AttemptsIInv, NEW h \in Handlers, HandlerStep(h), OwnStep(h),
         ~Admit(h), ~Deduct(h)
  PROVE  AttemptsIInv'
<1>1. UNCHANGED <<paid, nextAtt>>
  BY DEF HandlerStep, Receive, RefuseUnverified, RefuseReplayed, ResolveTenant,
         RefuseUnknownNumber, CheckByok, HangUp, InsertCall, InsertLog, Finish, Fail
<1>2. CallsTypeOK /\ AttemptOf(h) /\ (pc[h] \in {"idle", "arrived"} => ~ownKey[h])
  BY DEF CallsIInv, AttemptsIInv, FreshHandlers
<1>3. AttemptOf(h)' /\ (pc'[h] \in {"idle", "arrived"} => ~ownKey'[h])
        /\ (pc'[h] \notin {"idle", "arrived"} => h \in Busy /\ att'[h] = att[h])
  <2> USE <1>1, <1>2 DEF Goto, Leave, Busy, CallsTypeOK
  <2>1. ASSUME NEW d \in Incoming, Receive(h, d)
        PROVE  pc[h] = "idle" /\ pc'[h] = "arrived" /\ ownKey' = ownKey
    BY <2>1 DEF Receive
  <2>2. CASE RefuseUnverified(h) \/ RefuseReplayed(h) \/ RefuseUnknownNumber(h)
               \/ Finish(h) \/ Fail(h)
    <3>1. pc'[h] = "idle" /\ ~ownKey'[h]
      BY <2>2 DEF RefuseUnverified, RefuseReplayed, RefuseUnknownNumber, Finish, Fail
    <3> QED BY <3>1 DEF AttemptOf
  <2>3. CASE ResolveTenant(h) \/ HangUp(h) \/ InsertCall(h) \/ InsertLog(h)
    <3>1. /\ UNCHANGED <<att, ownKey, req>> /\ h \in Busy
          /\ \/ pc[h] = "resolve" /\ pc'[h] = "byok"
             \/ pc'[h] = "ack"
             \/ pc[h] \in {"insertCall", "insertLog"} /\ pc'[h] \in {"insertLog", "finish"}
      BY <2>3 DEF ResolveTenant, HangUp, InsertCall, InsertLog
    <3> QED BY <3>1 DEF AttemptOf, Unpaid, PaidOnlyBy, Tenant
  <2>4. CASE CheckByok(h)
    <3>1. /\ pc[h] = "byok" /\ att' = att
          /\ \/ pc'[h] = "insertCall" /\ ownKey'[h]
             \/ pc'[h] = "deduct" /\ ~ownKey'[h]
      BY <2>4 DEF CheckByok
    <3> QED BY <3>1 DEF AttemptOf, Unpaid
  <2> QED BY <2>1, <2>2, <2>3, <2>4 DEF HandlerStep, AttemptOf
<1>4. ASSUME NEW k \in Handlers, k # h PROVE AttemptOf(k)'
  BY <1>1, <1>4 DEF AttemptsIInv, AttemptOf, OwnStep, Busy, Unpaid, PaidOnlyBy, Tenant
<1>5. FreshHandlers'
  BY <1>3 DEF AttemptsIInv, FreshHandlers, OwnStep
<1>6. AttemptsApart'
  BY <1>3 DEF AttemptsIInv, AttemptsApart, OwnStep, Busy
<1>7. PaidBefore'
  BY <1>1 DEF AttemptsIInv, PaidBefore
<1> QED BY <1>3, <1>4, <1>5, <1>6, <1>7 DEF AttemptsIInv

\* Every step keeps every attempt one handler's.
LEMMA AttemptsStep ==
  ASSUME CallsIInv, AttemptsIInv, [Next]_vars
  PROVE  AttemptsIInv'
<1>1. CASE WorldStep
  <2>1. UNCHANGED <<pc, req, att, ownKey, nextAtt, paid>>
    BY <1>1, WorldFrame
  <2> QED BY <2>1 DEF AttemptsIInv, AttemptOf, FreshHandlers, AttemptsApart, PaidBefore,
                      Busy, Unpaid, PaidOnlyBy, Tenant
<1>2. ASSUME NEW h \in Handlers, HandlerStep(h) PROVE AttemptsIInv'
  <2>1. OwnStep(h)
    BY <1>2, HandlerStepIsOwn DEF CallsIInv
  <2> QED BY <1>2, <2>1, AttemptsAdmit, AttemptsDeduct, AttemptsOther
<1>3. CASE Restart
  BY <1>3 DEF Restart, AttemptsIInv, AttemptOf, FreshHandlers, AttemptsApart, PaidBefore, Busy
<1> QED BY <1>1, <1>2, <1>3, NextCases

\* The call that an attempt paid for is recorded, and its log line shows the cost.
HasRow(a, t) == \E r \in calls : r.attempt = a /\ r.tenant = t
Charged(a, t) == \E l \in logs : l.attempt = a /\ l.tenant = t /\ l.cost = 1

\* SpentCreditsAccounted, of one attempt: between the two INSERTs the row is there.
Accounted(a, t) ==
  \/ HasRow(a, t) /\ Charged(a, t)
  \/ \E h \in Handlers : att[h] = a /\ pc[h] = "insertCall"
  \/ HasRow(a, t) /\ \E h \in Handlers : att[h] = a /\ pc[h] = "insertLog"
  \/ a \in cut

CreditsAccounted == \A t \in Tenants : \A a \in paid[t] : Accounted(a, t)

\* Whoever wrote a log line for an attempt that paid wrote the cost on it.
LEMMA PayerIsCharged ==
  ASSUME CallsIInv, AttemptsIInv, NEW h \in Handlers, pc[h] \in {"insertCall", "insertLog"},
         NEW t \in Tenants, att[h] \in paid[t]
  PROVE  ~ownKey[h] /\ t = Tenant(h)
<1>1. ownKey[h] \in BOOLEAN
  BY DEF CallsIInv, CallsTypeOK
<1> QED BY <1>1 DEF AttemptsIInv, AttemptOf, Unpaid, PaidOnlyBy

\* Every step keeps every spent credit accounted for.
LEMMA AccountedStep ==
  ASSUME CallsIInv, AttemptsIInv, CreditsAccounted, [Next]_vars
  PROVE  CreditsAccounted'
<1>1. ASSUME NEW t \in Tenants, NEW a \in paid[t] PROVE Accounted(a, t)
  BY DEF CreditsAccounted
<1>2. ASSUME paid' = paid, calls \subseteq calls', logs \subseteq logs', cut \subseteq cut',
             \A h \in Handlers : pc[h] \in {"insertCall", "insertLog"} =>
               \/ pc'[h] = pc[h] /\ att'[h] = att[h]
               \/ att[h] \in cut'
      PROVE  CreditsAccounted'
  <2>1. ASSUME NEW t \in Tenants, NEW a \in paid[t] PROVE Accounted(a, t)'
    <3>1. Accounted(a, t)
      BY <1>1
    <3>2. (HasRow(a, t) => HasRow(a, t)') /\ (Charged(a, t) => Charged(a, t)')
      BY <1>2 DEF HasRow, Charged
    <3> QED BY <1>2, <3>1, <3>2 DEF Accounted
  <2> QED BY <1>2, <2>1 DEF CreditsAccounted
<1>3. CASE WorldStep
  BY <1>2, <1>3, WorldFrame
<1>4. CASE Restart
  BY <1>2, <1>4 DEF Restart
<1>5. ASSUME NEW h \in Handlers, HandlerStep(h) PROVE CreditsAccounted'
  <2>1. OwnStep(h) /\ CallsTypeOK
    BY <1>5, HandlerStepIsOwn DEF CallsIInv
  <2>2. CASE Deduct(h)
    <3>1. /\ paid' = [paid EXCEPT ![Tenant(h)] = @ \cup {att[h]}]
          /\ pc'[h] = "insertCall" /\ att' = att /\ pc[h] = "deduct"
          /\ UNCHANGED <<calls, logs, cut>>
      BY <2>1, <2>2 DEF Deduct, Goto, CallsTypeOK
    <3>2. ASSUME NEW t \in Tenants, NEW a \in paid'[t]
          PROVE  a = att[h] \/ a \in paid[t]
      BY <2>1, <3>1, <3>2 DEF CallsTypeOK
    <3>3. ASSUME NEW t \in Tenants, NEW a \in paid[t]
          PROVE  Accounted(a, t)'
      BY <1>1, <2>1, <3>1, <3>3 DEF Accounted, HasRow, Charged, OwnStep
    <3>4. PICK a : a = att[h]
      OBVIOUS
    <3>5. \A t \in Tenants : Accounted(a, t)'
      BY <3>1, <3>4 DEF Accounted
    <3> QED BY <3>2, <3>3, <3>4, <3>5 DEF CreditsAccounted
  <2>3. CASE InsertCall(h)
    <3> DEFINE r == [attempt |-> att[h], sig |-> req[h], at |-> at[h], tenant |-> Tenant(h)]
    <3>1. /\ r \in calls' /\ calls \subseteq calls' /\ pc[h] = "insertCall"
          /\ pc'[h] = "insertLog" /\ UNCHANGED <<paid, att, cut, logs>>
          /\ r.attempt = att[h] /\ r.tenant = Tenant(h)
      BY <2>1, <2>3 DEF InsertCall, Goto, CallsTypeOK
    <3> HIDE DEF r
    <3>2. ASSUME NEW t \in Tenants, NEW a \in paid[t]
          PROVE  Accounted(a, t)'
      <4>1. CASE a = att[h]
        <5>1. t = Tenant(h)
          BY <3>1, <3>2, <4>1, PayerIsCharged
        <5> QED BY <3>1, <4>1, <5>1 DEF Accounted, HasRow
      <4>2. CASE a # att[h]
        BY <1>1, <2>1, <3>1, <3>2, <4>2 DEF Accounted, HasRow, Charged, OwnStep
      <4> QED BY <4>1, <4>2
    <3> QED BY <3>1, <3>2 DEF CreditsAccounted
  <2>4. CASE InsertLog(h)
    <3> DEFINE l == [attempt |-> att[h], tenant |-> Tenant(h),
                     cost |-> IF ownKey[h] THEN 0 ELSE 1]
    <3>1. /\ l \in logs' /\ logs \subseteq logs' /\ pc[h] = "insertLog" /\ h \in Busy
          /\ UNCHANGED <<paid, att, cut, calls>>
          /\ l.attempt = att[h] /\ l.tenant = Tenant(h) /\ (~ownKey[h] => l.cost = 1)
      BY <2>4 DEF InsertLog, Busy
    <3> HIDE DEF l
    <3>2. ASSUME NEW t \in Tenants, NEW a \in paid[t]
          PROVE  Accounted(a, t)'
      <4>1. CASE a = att[h]
        <5>1. t = Tenant(h) /\ ~ownKey[h]
          BY <3>1, <3>2, <4>1, PayerIsCharged
        <5>2. HasRow(a, t) \/ a \in cut
          <6>1. ~\E k \in Handlers : att[k] = a /\ pc[k] = "insertCall"
            BY <3>1, <4>1 DEF AttemptsIInv, AttemptsApart, Busy
          <6> QED BY <1>1, <3>2, <6>1 DEF Accounted
        <5> QED BY <3>1, <4>1, <5>1, <5>2 DEF Accounted, HasRow, Charged
      <4>2. CASE a # att[h]
        BY <1>1, <2>1, <3>1, <3>2, <4>2 DEF Accounted, HasRow, Charged, OwnStep
      <4> QED BY <4>1, <4>2
    <3> QED BY <3>1, <3>2 DEF CreditsAccounted
  <2>5. CASE Fail(h)
    <3>1. /\ UNCHANGED <<paid, calls, logs>> /\ cut \subseteq cut'
          /\ pc[h] \in {"insertCall", "insertLog"} => att[h] \in cut'
      BY <2>5 DEF Fail
    <3> QED BY <1>2, <2>1, <3>1 DEF OwnStep
  <2>6. ASSUME ~Deduct(h), ~InsertCall(h), ~InsertLog(h), ~Fail(h)
        PROVE  UNCHANGED <<paid, calls, logs, cut>> /\ pc[h] \notin {"insertCall", "insertLog"}
    BY <1>5, <2>6
       DEF HandlerStep, Receive, RefuseUnverified, RefuseReplayed, Admit, ResolveTenant,
           RefuseUnknownNumber, CheckByok, HangUp, Finish
  <2> QED BY <1>2, <2>1, <2>2, <2>3, <2>4, <2>5, <2>6 DEF OwnStep
<1> QED BY <1>3, <1>4, <1>5, NextCases

\* A spent credit always buys a row of inbound_calls and a log line that shows it,
\* unless the request died between deduct_credit's UPDATE and the second INSERT.
THEOREM CallsSpentAccounted == Spec => []SpentCreditsAccounted
<1>1. Init => CreditsAccounted
  BY DEF Init, CreditsAccounted
<1>2. CreditsAccounted => SpentCreditsAccounted
  BY DEF CreditsAccounted, Accounted, HasRow, Charged, SpentCreditsAccounted, ChargedAttempts
<1> QED BY <1>1, <1>2, CallsInvariant, AttemptsInit, AttemptsStep, AccountedStep, PTL DEF Spec

\* Every credit spent is one attempt's, and a log row that shows a cost belongs
\* to an attempt that paid.
PaidCounted ==
  \A t \in Tenants : IsFiniteSet(paid[t]) /\ Cardinality(paid[t]) = spent[t]

ChargesPaid == \A l \in logs : l.cost = 1 => l.attempt \in paid[l.tenant]

\* No handler step but Deduct changes what was paid.
LEMMA OnlyDeductPays ==
  ASSUME [Next]_vars
  PROVE  UNCHANGED <<paid, spent>> \/ \E h \in Handlers : Deduct(h)
<1> USE DEF ledgerVars
<1>1. CASE Tick
  BY <1>1 DEF Tick
<1>2. ASSUME NEW e \in Events, TelnyxSigns(e) PROVE UNCHANGED <<paid, spent>>
  BY <1>2 DEF TelnyxSigns
<1>3. ASSUME NEW t \in Tenants, SwitchByok(t) PROVE UNCHANGED <<paid, spent>>
  BY <1>3 DEF SwitchByok
<1>4. ASSUME NEW h \in Handlers, HandlerStep(h), ~Deduct(h) PROVE UNCHANGED <<paid, spent>>
  BY <1>4
     DEF HandlerStep, Receive, RefuseUnverified, RefuseReplayed, Admit, ResolveTenant,
         RefuseUnknownNumber, CheckByok, HangUp, InsertCall, InsertLog, Finish, Fail
<1>5. ASSUME NEW a \in tasks, RunRules(a) PROVE UNCHANGED <<paid, spent>>
  BY <1>5 DEF RunRules
<1>6. CASE Restart
  BY <1>6 DEF Restart, LedgerRestart
<1>7. ASSUME NEW t \in Tenants, SeatPlan(t), UNCHANGED callVars PROVE UNCHANGED <<paid, spent>>
  BY <1>7 DEF SeatPlan, callVars
<1>8. ASSUME NEW g \in Grants, GrantStep(g), UNCHANGED callVars PROVE UNCHANGED <<paid, spent>>
  BY <1>8 DEF GrantStep, GrantRead, GrantUpdate, GrantInsert, GrantFail, callVars
<1>9. CASE UNCHANGED vars
  BY <1>9 DEF vars, callVars
<1> QED BY <1>1, <1>2, <1>3, <1>4, <1>5, <1>6, <1>7, <1>8, <1>9 DEF Next

\* The attempts that paid are as many as the credits spent, at every step.
LEMMA PaidCountedStep ==
  ASSUME CallsIInv, LedgerTypeOK, AttemptsIInv, PaidCounted, [Next]_vars
  PROVE  PaidCounted'
<1>1. ASSUME UNCHANGED <<paid, spent>> PROVE PaidCounted'
  BY <1>1 DEF PaidCounted
<1>2. ASSUME NEW h \in Handlers, Deduct(h) PROVE PaidCounted'
  <2> DEFINE u == Tenant(h)
             a == att[h]
  <2>1. u \in Tenants /\ a \notin paid[u]
    BY <1>2 DEF Deduct, CallsIInv, RequestsTracked, ForTenant, AttemptsIInv, AttemptOf, Unpaid
  <2>2. paid' = [paid EXCEPT ![u] = @ \cup {a}] /\ spent' = [spent EXCEPT ![u] = @ + 1]
    BY <1>2 DEF Deduct, TakeCredit
  <2>3. paid \in [Tenants -> SUBSET Nat] /\ spent \in [Tenants -> Nat]
    BY DEF CallsIInv, CallsTypeOK, LedgerTypeOK
  <2> HIDE DEF u, a
  <2>4. IsFiniteSet(paid[u] \cup {a}) /\ Cardinality(paid[u] \cup {a}) = Cardinality(paid[u]) + 1
    BY <2>1, FS_AddElement DEF PaidCounted
  <2>5. paid'[u] = paid[u] \cup {a} /\ spent'[u] = spent[u] + 1
    BY <2>1, <2>2, <2>3
  <2>6. ASSUME NEW t \in Tenants, t # u PROVE paid'[t] = paid[t] /\ spent'[t] = spent[t]
    BY <2>2, <2>3, <2>6
  <2>7. ASSUME NEW t \in Tenants PROVE IsFiniteSet(paid'[t]) /\ Cardinality(paid'[t]) = spent'[t]
    BY <2>1, <2>4, <2>5, <2>6 DEF PaidCounted
  <2> QED BY <2>7 DEF PaidCounted
<1> QED BY <1>1, <1>2, OnlyDeductPays

\* A charged line of call_logs belongs to an attempt that paid.
LEMMA ChargesPaidStep ==
  ASSUME CallsIInv, AttemptsIInv, ChargesPaid, [Next]_vars
  PROVE  ChargesPaid'
<1>1. \A t \in Tenants : paid[t] \subseteq paid'[t]
  <2>1. ASSUME NEW h \in Handlers, Deduct(h), NEW t \in Tenants PROVE paid[t] \subseteq paid'[t]
    BY <2>1 DEF Deduct, CallsIInv, CallsTypeOK
  <2> QED BY <2>1, OnlyDeductPays
<1>2. ASSUME logs' = logs PROVE ChargesPaid'
  BY <1>1, <1>2 DEF ChargesPaid, CallsIInv, CallsTypeOK, Log
<1>3. CASE WorldStep \/ Restart
  BY <1>2, <1>3, WorldFrame DEF Restart
<1>4. ASSUME NEW h \in Handlers, HandlerStep(h) PROVE ChargesPaid'
  <2>1. CASE InsertLog(h)
    <3> DEFINE l == [attempt |-> att[h], tenant |-> Tenant(h),
                     cost |-> IF ownKey[h] THEN 0 ELSE 1]
    <3>1. logs' = logs \cup {l} /\ paid' = paid /\ pc[h] = "insertLog"
      BY <2>1 DEF InsertLog
    <3>2. l.cost = 1 => l.attempt \in paid[l.tenant]
      BY <3>1 DEF AttemptsIInv, AttemptOf, PaidOnlyBy
    <3> HIDE DEF l
    <3> QED BY <3>1, <3>2 DEF ChargesPaid
  <2>2. ASSUME ~InsertLog(h) PROVE logs' = logs
    BY <1>4, <2>2
       DEF HandlerStep, Receive, RefuseUnverified, RefuseReplayed, Admit, ResolveTenant,
           RefuseUnknownNumber, CheckByok, Deduct, HangUp, InsertCall, Finish, Fail
  <2> QED BY <1>2, <2>1, <2>2
<1> QED BY <1>3, <1>4, NextCases

\* A workspace is never shown more charged calls in call_logs than it spent
\* credits, whatever changes its provider key or cuts its requests meanwhile.
THEOREM CallsChargesCovered == Spec => []ChargesCoveredByCredits
<1>1. Init => PaidCounted /\ ChargesPaid
  BY FS_EmptySet DEF Init, LedgerInit, PaidCounted, ChargesPaid
<1>2. PaidCounted /\ ChargesPaid => ChargesCoveredByCredits
  <2> SUFFICES ASSUME PaidCounted, ChargesPaid, NEW t \in Tenants
               PROVE  Cardinality(ChargedAttempts(t)) <= spent[t]
    BY DEF ChargesCoveredByCredits
  <2>1. ChargedAttempts(t) \subseteq paid[t]
    BY DEF ChargesPaid, ChargedAttempts
  <2> QED BY <2>1, FS_Subset DEF PaidCounted
<1> QED BY <1>1, <1>2, CallsInvariant, CallsTypeCorrect, AttemptsInit, AttemptsStep,
           PaidCountedStep, ChargesPaidStep, PTL DEF Spec, TypeOK

-----------------------------------------------------------------------------
(* The automatic reply: OneReplyPerRecordedCall.                            *)

RowsFor(a) == \E r \in calls, l \in logs : r.attempt = a /\ l.attempt = a

\* An attempt that a task or a reply names has its rows, and its handler is gone.
Done(a) == RowsFor(a) /\ a < nextAtt /\ \A h \in Busy : att[h] # a

RepliesIInv ==
  /\ \A h \in Handlers : pc[h] = "finish" => RowsFor(att[h])
  /\ \A a \in tasks : Done(a) /\ \A y \in replies : y.attempt # a
  /\ \A y \in replies : Done(y.attempt) /\ \A z \in replies : z.attempt = y.attempt => z = y

\* A handler about to spawn its rules has both rows of its call.
LEMMA FinishRowsStep ==
  ASSUME CallsIInv, EffectBeforeAck, [Next]_vars,
         \A h \in Handlers : pc[h] = "finish" => RowsFor(att[h])
  PROVE  \A h \in Handlers : pc'[h] = "finish" => RowsFor(att[h])'
<1>1. ASSUME NEW k \in Handlers, pc[k] = "finish", att'[k] = att[k] PROVE RowsFor(att[k])'
  BY <1>1, RowsOnlyGrow DEF RowsFor
<1>2. CASE WorldStep
  BY <1>1, <1>2, WorldFrame
<1>3. CASE Restart
  BY <1>3 DEF Restart
<1>4. ASSUME NEW h \in Handlers, HandlerStep(h), NEW k \in Handlers, pc'[k] = "finish"
      PROVE  RowsFor(att[k])'
  <2>1. OwnStep(h) /\ CallsTypeOK
    BY <1>4, HandlerStepIsOwn DEF CallsIInv
  <2>2. CASE k # h
    BY <1>1, <1>4, <2>1, <2>2 DEF OwnStep
  <2>3. CASE k = h
    <3>1. CASE InsertLog(h)
      <4> DEFINE l == [attempt |-> att[h], tenant |-> Tenant(h),
                       cost |-> IF ownKey[h] THEN 0 ELSE 1]
      <4>1. PICK r \in calls : r.attempt = att[h]
        BY <3>1 DEF InsertLog, EffectBeforeAck, EffectOf
      <4>2. l \in logs' /\ l.attempt = att[h] /\ calls' = calls /\ att' = att
        BY <3>1 DEF InsertLog
      <4> HIDE DEF l
      <4> QED BY <2>3, <4>1, <4>2 DEF RowsFor
    <3>2. CASE ~InsertLog(h)
      <4> USE <1>4, <2>1, <2>3, <3>2 DEF Goto, Leave, CallsTypeOK
      <4>1. CASE \E d \in Incoming : Receive(h, d)
        BY <4>1 DEF Receive
      <4>2. CASE RefuseUnverified(h) \/ RefuseReplayed(h) \/ RefuseUnknownNumber(h)
                   \/ Finish(h) \/ Fail(h)
        BY <4>2 DEF RefuseUnverified, RefuseReplayed, RefuseUnknownNumber, Finish, Fail
      <4>3. CASE Admit(h) \/ ResolveTenant(h) \/ CheckByok(h) \/ Deduct(h) \/ HangUp(h)
                   \/ InsertCall(h)
        BY <4>3 DEF Admit, ResolveTenant, CheckByok, Deduct, HangUp, InsertCall
      <4> QED BY <4>1, <4>2, <4>3 DEF HandlerStep
    <3> QED BY <3>1, <3>2
  <2> QED BY <2>2, <2>3
<1> QED BY <1>2, <1>3, <1>4, <1>1, NextCases

\* What is done stays done: an attempt number is handed out once.
LEMMA DoneStays ==
  ASSUME CallsIInv, AttemptsIInv, [Next]_vars, NEW a \in Nat, Done(a)
  PROVE  Done(a)'
<1>1. RowsFor(a)'
  BY RowsOnlyGrow DEF Done, RowsFor
<1>2. CASE WorldStep
  BY <1>1, <1>2, WorldFrame DEF Done, Busy
<1>3. CASE Restart
  BY <1>1, <1>3 DEF Restart, Done, Busy
<1>4. ASSUME NEW h \in Handlers, HandlerStep(h) PROVE Done(a)'
  <2>1. OwnStep(h) /\ CallsTypeOK
    BY <1>4, HandlerStepIsOwn DEF CallsIInv
  <2>2. CASE Admit(h)
    <3>1. att'[h] = nextAtt /\ nextAtt' = nextAtt + 1 /\ nextAtt \in Nat
      BY <2>1, <2>2 DEF Admit, CallsTypeOK
    <3> QED BY <1>1, <2>1, <3>1 DEF Done, OwnStep, Busy
  <2>3. CASE ~Admit(h)
    <3>1. nextAtt' = nextAtt
      BY <1>4, <2>3
         DEF HandlerStep, Receive, RefuseUnverified, RefuseReplayed, ResolveTenant,
             RefuseUnknownNumber, CheckByok, Deduct, HangUp, InsertCall, InsertLog, Finish, Fail
    <3>2. h \in Busy' => h \in Busy /\ att'[h] = att[h]
      <4> USE <2>1, <2>3 DEF Goto, Leave, CallsTypeOK, Busy
      <4>1. CASE \E d \in Incoming : Receive(h, d)
        BY <4>1 DEF Receive
      <4>2. CASE RefuseUnverified(h) \/ RefuseReplayed(h) \/ RefuseUnknownNumber(h)
                   \/ Finish(h) \/ Fail(h)
        BY <4>2 DEF RefuseUnverified, RefuseReplayed, RefuseUnknownNumber, Finish, Fail
      <4>3. CASE ResolveTenant(h) \/ CheckByok(h) \/ Deduct(h) \/ HangUp(h)
                   \/ InsertCall(h) \/ InsertLog(h)
        BY <4>3 DEF ResolveTenant, CheckByok, Deduct, HangUp, InsertCall, InsertLog
      <4> QED BY <1>4, <4>1, <4>2, <4>3 DEF HandlerStep
    <3> QED BY <1>1, <2>1, <3>1, <3>2 DEF Done, OwnStep, Busy
  <2> QED BY <2>2, <2>3
<1> QED BY <1>2, <1>3, <1>4, NextCases

\* Every step keeps one reply per recorded call.
LEMMA RepliesStep ==
  ASSUME CallsIInv, AttemptsIInv, EffectBeforeAck, RepliesIInv, [Next]_vars
  PROVE  RepliesIInv'
<1>1. \A h \in Handlers : pc'[h] = "finish" => RowsFor(att[h])'
  BY FinishRowsStep DEF RepliesIInv
<1>2. tasks \subseteq Nat /\ replies \subseteq Reply
  BY DEF CallsIInv, CallsTypeOK
<1>3. ASSUME NEW a \in tasks PROVE Done(a)'
  BY <1>2, DoneStays DEF RepliesIInv
<1>4. ASSUME NEW y \in replies PROVE Done(y.attempt)'
  <2>1. y.attempt \in Nat /\ Done(y.attempt)
    BY <1>2 DEF Reply, RepliesIInv
  <2>2. \A a \in Nat : Done(a) => Done(a)'
    BY DoneStays
  <2>3. PICK a \in Nat : a = y.attempt
    BY <2>1
  <2> QED BY <2>1, <2>2, <2>3
<1>5. ASSUME tasks' \subseteq tasks, replies' = replies PROVE RepliesIInv'
  BY <1>1, <1>3, <1>4, <1>5 DEF RepliesIInv
<1>6. ASSUME NEW a \in tasks, RunRules(a) PROVE RepliesIInv'
  <2>1. CASE replies' = replies
    BY <1>5, <1>6, <2>1 DEF RunRules
  <2>2. ASSUME NEW kind \in {"text", "callback"},
               replies' = replies \cup {[attempt |-> a, kind |-> kind]}
        PROVE  RepliesIInv'
    <3> DEFINE x == [attempt |-> a, kind |-> kind]
    <3>1. x.attempt = a /\ replies' = replies \cup {x} /\ tasks' = tasks \ {a}
      BY <1>6, <2>2 DEF RunRules
    <3> HIDE DEF x
    <3>2. \A y \in replies : y.attempt # a
      BY DEF RepliesIInv
    <3>3. \A b \in tasks' : Done(b)' /\ \A y \in replies' : y.attempt # b
      BY <1>3, <3>1 DEF RepliesIInv
    <3>4. Done(x.attempt)'
      BY <1>3, <3>1
    <3>5. \A y \in replies' : Done(y.attempt)' /\ \A z \in replies' : z.attempt = y.attempt => z = y
      BY <1>4, <3>1, <3>2, <3>4 DEF RepliesIInv
    <3> QED BY <1>1, <3>3, <3>5 DEF RepliesIInv
  <2> QED BY <1>6, <2>1, <2>2 DEF RunRules
<1>7. ASSUME NEW h \in Handlers, Finish(h), HandlerStep(h) PROVE RepliesIInv'
  <2>1. OwnStep(h) /\ CallsTypeOK
    BY <1>7, HandlerStepIsOwn DEF CallsIInv
  <2>2. replies' = replies /\ h \in Busy
    BY <1>7 DEF Finish, Busy
  <2>3. CASE pc[h] = "finish"
    <3>1. tasks' = tasks \cup {att[h]} /\ pc'[h] = "idle" /\ nextAtt' = nextAtt
      BY <1>7, <2>1, <2>3 DEF Finish, Leave, Goto, CallsTypeOK
    <3> DEFINE a == att[h]
    <3>2. RowsFor(a)
      BY <2>3 DEF RepliesIInv
    <3>3. a < nextAtt /\ a \in Nat
      BY <2>1, <2>2 DEF AttemptsIInv, AttemptOf, CallsTypeOK
    <3>4. \A k \in Busy' : att'[k] # att[h]
      BY <2>1, <2>2, <3>1 DEF OwnStep, AttemptsIInv, AttemptsApart, Busy
    <3>5. \A y \in replies : y.attempt # att[h]
      BY <2>2 DEF RepliesIInv, Done
    <3>6. PICK b \in Nat : b = att[h]
      BY <3>3
    <3>7. Done(b)'
      BY <3>1, <3>2, <3>3, <3>4, <3>6, RowsOnlyGrow DEF Done, RowsFor
    <3>8. \A c \in tasks' : Done(c)' /\ \A y \in replies' : y.attempt # c
      BY <1>3, <2>2, <3>1, <3>5, <3>6, <3>7 DEF RepliesIInv
    <3> QED BY <1>1, <1>4, <2>2, <3>8 DEF RepliesIInv
  <2>4. CASE pc[h] # "finish"
    BY <1>5, <1>7, <2>2, <2>4 DEF Finish
  <2> QED BY <2>3, <2>4
<1>8. ASSUME NEW h \in Handlers, HandlerStep(h), ~Finish(h)
      PROVE  tasks' = tasks /\ replies' = replies
  BY <1>8
     DEF HandlerStep, Receive, RefuseUnverified, RefuseReplayed, Admit, ResolveTenant,
         RefuseUnknownNumber, CheckByok, Deduct, HangUp, InsertCall, InsertLog, Fail
<1>9. CASE Restart
  BY <1>5, <1>9 DEF Restart
<1>10. ASSUME WorldStep, ~\E a \in tasks : RunRules(a)
       PROVE  tasks' = tasks /\ replies' = replies
  BY <1>10 DEF WorldStep, Tick, TelnyxSigns, SwitchByok, callVars
<1> QED BY <1>5, <1>6, <1>7, <1>8, <1>9, <1>10, NextCases

\* A recorded call gets at most one automatic reply, and no call gets one before
\* both its rows are written.
THEOREM CallsOneReply == Spec => []OneReplyPerRecordedCall
<1>1. Init => RepliesIInv /\ EffectBeforeAck
  BY DEF Init, RepliesIInv, EffectBeforeAck, EffectOf
<1>2. RepliesIInv => OneReplyPerRecordedCall
  BY DEF RepliesIInv, OneReplyPerRecordedCall, Done, RowsFor
<1> QED BY <1>1, <1>2, CallsInvariant, AttemptsInit, AttemptsStep, EffectStep, RepliesStep,
           PTL DEF Spec

-----------------------------------------------------------------------------
(* The window arithmetic of the replay guard: GuardHoldsInsideWindow.       *)

\* The guard's entries landed, and a delivery that landed is either remembered
\* or landed longer ago than the window.
RememberedOrOld(d) ==
  \/ \E e \in guard : e.sig = d
  \/ \E m \in landed : m.sig = d /\ now - m.at > Tolerance

WindowIInv ==
  /\ guard \subseteq landed
  /\ \A l \in landed : RememberedOrOld(l.sig)

\* What prune drops is outside the window of its caller's clock.
LEMMA PrunedIsOld ==
  ASSUME CallsIInv, WindowIInv, NEW h \in Handlers, pc[h] # "idle",
         NEW e \in guard, e \notin Pruned(at[h])
  PROVE  now - e.at > Tolerance
<1>1. e.at \in Nat /\ at[h] \in Nat /\ now \in Nat
  BY DEF CallsIInv, CallsTypeOK, Seen
<1>2. at[h] <= now
  BY DEF CallsIInv, RequestsTracked
<1>3. at[h] - e.at > Tolerance
  BY <1>1, ClockAssumption DEF Pruned
<1> QED BY <1>1, <1>2, <1>3, ClockAssumption

\* However the guard is pruned, what landed stays remembered or is old.
LEMMA WindowPrune ==
  ASSUME CallsIInv, WindowIInv, NEW h \in Handlers, pc[h] # "idle",
         guard' = Pruned(at[h]), UNCHANGED <<now, landed>>
  PROVE  WindowIInv'
<1>1. guard' \subseteq landed'
  BY DEF WindowIInv, Pruned
<1>2. ASSUME NEW l \in landed PROVE RememberedOrOld(l.sig)'
  BY PrunedIsOld DEF WindowIInv, RememberedOrOld
<1> QED BY <1>1, <1>2 DEF WindowIInv

\* The ack keeps the window's bookkeeping.
LEMMA WindowFinish ==
  ASSUME CallsIInv, WindowIInv, NEW h \in Handlers, Finish(h)
  PROVE  WindowIInv'
<1> DEFINE x == [sig |-> req[h], at |-> at[h]]
<1>1. /\ pc[h] # "idle" /\ now' = now /\ landed' = landed \cup {x}
      /\ guard' = {e \in Pruned(at[h]) : e.sig # req[h]} \cup {x}
      /\ x.sig = req[h]
  BY DEF Finish
<1> HIDE DEF x
<1>2. guard' \subseteq landed'
  BY <1>1 DEF WindowIInv, Pruned
<1>3. ASSUME NEW d, d = req[h] PROVE RememberedOrOld(d)'
  BY <1>1, <1>3 DEF RememberedOrOld
<1>4. ASSUME NEW l \in landed, l.sig # req[h] PROVE RememberedOrOld(l.sig)'
  <2>1. CASE \E m \in landed : m.sig = l.sig /\ now - m.at > Tolerance
    BY <1>1, <2>1 DEF RememberedOrOld
  <2>2. CASE \E e \in guard : e.sig = l.sig
    <3>1. PICK e \in guard : e.sig = l.sig
      BY <2>2
    <3>2. CASE e \in Pruned(at[h])
      BY <1>1, <1>4, <3>1, <3>2 DEF RememberedOrOld
    <3>3. CASE e \notin Pruned(at[h])
      <4>1. now - e.at > Tolerance /\ e \in landed
        BY <1>1, <3>3, PrunedIsOld DEF WindowIInv
      <4> QED BY <1>1, <3>1, <4>1 DEF RememberedOrOld
    <3> QED BY <3>2, <3>3
  <2> QED BY <2>1, <2>2 DEF WindowIInv, RememberedOrOld
<1> QED BY <1>1, <1>2, <1>3, <1>4 DEF WindowIInv

\* Every step keeps the window's bookkeeping.
LEMMA WindowStep ==
  ASSUME CallsIInv, WindowIInv, [Next]_vars
  PROVE  WindowIInv'
<1>1. CASE WorldStep
  <2>1. guard' = guard /\ landed' = landed
    BY <1>1, WorldFrame
  <2>2. now <= now' /\ now \in Nat /\ now' \in Nat
    BY <1>1 DEF WorldStep, Tick, TelnyxSigns, SwitchByok, RunRules, callVars, CallsIInv,
                CallsTypeOK
  <2>3. \A m \in landed : m.at \in Nat
    BY DEF CallsIInv, CallsTypeOK, Seen
  <2>4. \A m \in landed : now - m.at > Tolerance => now' - m.at > Tolerance
    BY <2>2, <2>3, ClockAssumption
  <2> QED BY <2>1, <2>4 DEF WindowIInv, RememberedOrOld
<1>2. CASE Restart
  BY <1>2 DEF Restart, WindowIInv
<1>3. ASSUME NEW h \in Handlers, HandlerStep(h) PROVE WindowIInv'
  <2>1. CASE Finish(h)
    BY <2>1, WindowFinish
  <2>2. CASE RefuseReplayed(h) \/ Admit(h)
    <3>1. pc[h] # "idle" /\ guard' = Pruned(at[h]) /\ UNCHANGED <<now, landed>>
      BY <2>2 DEF RefuseReplayed, Admit
    <3> QED BY <3>1, WindowPrune
  <2>3. ASSUME ~Finish(h), ~RefuseReplayed(h), ~Admit(h)
        PROVE  UNCHANGED <<guard, landed, now>>
    BY <1>3, <2>3
       DEF HandlerStep, Receive, RefuseUnverified, ResolveTenant, RefuseUnknownNumber,
           CheckByok, Deduct, HangUp, InsertCall, InsertLog, Fail
  <2> QED BY <2>1, <2>2, <2>3 DEF WindowIInv, RememberedOrOld
<1> QED BY <1>1, <1>2, <1>3, NextCases

\* A handler that is let through took the step Admit.
LEMMA AdmitsIsAdmit ==
  ASSUME CallsIInv, [Next]_vars, NEW h \in Handlers, Admits(h)
  PROVE  Admit(h)
<1>1. CallsTypeOK /\ pc[h] = "arrived" /\ pc'[h] \in {"resolve", "ack"}
  BY DEF CallsIInv, Admits
<1>2. PICK k \in Handlers : HandlerStep(k)
  BY <1>1, NextCases, WorldFrame DEF Restart
<1>3. k = h
  BY <1>1, <1>2, HandlerStepIsOwn DEF OwnStep
<1> USE <1>1, <1>2, <1>3 DEF Goto, Leave, CallsTypeOK
<1>4. ~(\E d \in Incoming : Receive(h, d))
  BY DEF Receive
<1>5. ~(RefuseUnverified(h) \/ RefuseReplayed(h) \/ RefuseUnknownNumber(h) \/ Finish(h)
        \/ Fail(h))
  BY DEF RefuseUnverified, RefuseReplayed, RefuseUnknownNumber, Finish, Fail
<1>6. ~(ResolveTenant(h) \/ CheckByok(h) \/ Deduct(h) \/ HangUp(h) \/ InsertCall(h)
        \/ InsertLog(h))
  BY DEF ResolveTenant, CheckByok, Deduct, HangUp, InsertCall, InsertLog
<1> QED BY <1>4, <1>5, <1>6 DEF HandlerStep

\* A delivery that landed is let through again only if some copy of it landed longer
\* ago than the window, when Telnyx's timestamp was still ahead of this server's
\* clock: without that, prune's window and verify's window meet without a gap.
THEOREM CallsGuardHolds == Spec => GuardHoldsInsideWindow
<1>1. Init => WindowIInv
  BY DEF Init, WindowIInv
<1>2. ASSUME CallsIInv, WindowIInv, [Next]_vars, NEW h \in Handlers, Admits(h), at[h] = now
      PROVE  \/ req[h] \notin {l.sig : l \in landed}
             \/ \E l \in landed : l.sig = req[h] /\ l.at < l.sig.ts /\ now - l.at > Tolerance
  <2>1. Admit(h)
    BY <1>2, AdmitsIsAdmit
  <2>2. /\ pc[h] # "idle" /\ req[h] \in Delivery /\ Distance(now, req[h].ts) <= Tolerance
        /\ ~\E e \in Pruned(now) : e.sig = req[h]
    BY <1>2, <2>1 DEF Admit, Verified, Remembered, CallsIInv, RequestsTracked, CallsTypeOK
  <2> SUFFICES ASSUME NEW k \in landed, k.sig = req[h]
               PROVE  \E l \in landed : l.sig = req[h] /\ l.at < l.sig.ts /\ now - l.at > Tolerance
    OBVIOUS
  <2>3. PICK m \in landed : m.sig = req[h] /\ now - m.at > Tolerance
    <3>1. CASE \E e \in guard : e.sig = k.sig
      <4>1. PICK e \in guard : e.sig = req[h]
        BY <3>1
      <4> QED BY <1>2, <2>2, <4>1, PrunedIsOld DEF WindowIInv
    <3>2. CASE ~\E e \in guard : e.sig = k.sig
      BY <1>2, <3>2 DEF WindowIInv, RememberedOrOld
    <3> QED BY <3>1, <3>2
  <2>4. m.at \in Nat /\ now \in Nat /\ req[h].ts \in Int
    BY <1>2, <2>2, ClockAssumption DEF CallsIInv, CallsTypeOK, Seen, Delivery
  <2>5. m.at < req[h].ts
    BY <2>2, <2>3, <2>4, ClockAssumption DEF Distance
  <2> QED BY <2>3, <2>5
<1>3. CallsIInv /\ WindowIInv /\ [Next]_vars =>
        [\A h \in Handlers : Admits(h) /\ at[h] = now =>
           \/ req[h] \notin {l.sig : l \in landed}
           \/ \E l \in landed : l.sig = req[h] /\ l.at < l.sig.ts /\ now - l.at > Tolerance
        ]_vars
  BY <1>2
<1> QED BY <1>1, <1>3, CallsInvariant, WindowStep, PTL DEF Spec, GuardHoldsInsideWindow
=============================================================================
