------------------------------- MODULE Plans --------------------------------
(***************************************************************************)
(* The operator's catalogue (plans_handler): the plans, their limits in    *)
(* the three places the gate reads, who is seated on which, and the two    *)
(* settings of the provisioning door. The plans belong to the operator;    *)
(* deleting one takes its seats and its limits along.                      *)
(***************************************************************************)
EXTENDS PlanGate

\* Everything a plan may declare a limit for, and the one flag.
Features == {"leads", "contacts", "tags", "phone_numbers", "users", "tickets", "calendar"}
NoFeatures == [f \in {} |-> 0]
\* The columns' defaults in the schema, and the largest value of one of them.
DefaultColumn == [leads |-> 100, tags |-> 50]

ListPlans(q) == Asks(q, "list_plans") /\ Show(q, "start", Rows("plans"))
ListActivePlans(q) ==
  Asks(q, "list_active_plans") /\ Show(q, "start", {p \in Rows("plans") : Active(p)})
GetPlan(q) == Asks(q, "get_plan") /\ GetRow(q)

\* An INSERT that names no limit: the row, and the schema's columns beside it.
NewPlan(q) == [NewRow(q, NoFeatures, "on") EXCEPT !.text = serving[q].ref, !.link = None]
CreatePlan(q) ==
  /\ Asks(q, "create_plan")
  /\ \/ Refuse(q, "start")
     \/ /\ At(q, "start")
        /\ IF Fits(<<"plans", q>>, NewPlan(q))
           THEN /\ rows' = With(rows, <<"plans", q>>, NewPlan(q))
                /\ caps' = With(caps, <<"plans", q>>, [grant |-> NoFeatures, column |-> DefaultColumn])
                /\ serving' = [serving EXCEPT ![q].at = "done", ![q].answer = "ok", ![q].wrote = TRUE]
           ELSE rows' = rows /\ caps' = caps /\ Ends(q, "failed")
        /\ UNCHANGED <<links, seat, rented>>

\* Every column from the body or from the row read before, the JSON included;
\* a payment link that is none is refused after the read.
UpdatePlan(q) ==
  /\ Asks(q, "update_plan")
  /\ \/ Fetch(q, "start", "write")
     \/ Refuse(q, "write")
     \/ Change(q, "write", Merged(q), "answer")
     \/ Finish(q, "answer")

Unseated(p) == [ws \in DOMAIN seat |-> IF seat[ws] = p THEN None ELSE seat[ws]]
DeletePlan(q) ==
  /\ Asks(q, "delete_plan")
  /\ \/ Missing(q, "start")
     \/ /\ At(q, "start")
        /\ Mine(q)
        /\ rows' = Without({Target(q)})
        /\ caps' = [p \in DOMAIN caps \ {Target(q)} |-> caps[p]]
        /\ seat' = Unseated(Target(q))
        /\ serving' = [serving EXCEPT ![q].at = "done", ![q].answer = "ok", ![q].wrote = TRUE]
        /\ UNCHANGED <<links, rented>>

\* features || $1 on the JSON as it stands at the UPDATE; another shape of
\* JSON is refused after the read.
MergeFeatures(q) ==
  /\ Asks(q, "merge_features")
  /\ \/ Refuse(q, "start")
     \/ Fetch(q, "start", "write")
     \/ Refuse(q, "write")
     \/ Change(q, "write", [rows[Target(q)] EXCEPT !.state = With(@, serving[q].ref, serving[q].val)], "answer")
     \/ Finish(q, "answer")

-----------------------------------------------------------------------------
(* Limits, each written by one statement: the plan's column for the keys    *)
(* that have one, feature_limits for the others.                            *)

Limited(p, feature, n) ==
  [caps EXCEPT ![p] = IF ColumnOf(feature) = {feature} THEN [@ EXCEPT !.column[feature] = n]
                      ELSE [@ EXCEPT !.grant = With(@, feature, n)]]

\* A column's UPDATE matches nothing once the plan is gone; the upsert of
\* feature_limits then breaks its reference.
WriteLimit(q, here, p, feature, n, next) ==
  /\ At(q, here)
  /\ \/ p \in DOMAIN caps /\ caps' = Limited(p, feature, n) /\ Wrote(q, next)
     \/ /\ p \notin DOMAIN caps
        /\ caps' = caps
        /\ IF ColumnOf(feature) = {feature} THEN Goes(q, next) ELSE Ends(q, "failed")
  /\ UNCHANGED <<rows, links, seat, rented>>

\* The feature is ref, the value val. The answer is read back from the plan.
SetEntitlement(q) ==
  /\ Asks(q, "set_entitlement")
  /\ \/ Refuse(q, "start")
     \/ Fetch(q, "start", "write")
     \/ WriteLimit(q, "write", Target(q), serving[q].ref, serving[q].val, "reread")
     \/ Reread(q, "reread", Target(q), "done")

\* The most expensive active plan.
TopPlans ==
  {p \in Rows("plans") : Active(p) /\ \A o \in Rows("plans") : Active(o) => rows[o].text <= rows[p].text}

\* plan_registry resolves every key of every plan for the panel.
ShowRegistry(q) ==
  /\ Asks(q, "plan_registry")
  /\ \/ Look(q, "start", Rows("plans"), "top")
     \/ TopPlans = {} /\ Refuse(q, "top")
     \/ TopPlans # {} /\ Look(q, "top", serving[q].saw, "resolve")
     \/ /\ At(q, "resolve")
        /\ IF \E p \in serving[q].saw \cap DOMAIN rows, f \in Features : NullColumn(p, f)
           THEN Ends(q, "failed") ELSE Ends(q, "ok")
        /\ UNCHANGED tables

\* Key by key (one key, ref, is followed here): resolved first, and only an
\* unset one is then written, unlimited.
GrantTopTier(q) ==
  /\ Asks(q, "grant_top_tier")
  /\ \/ TopPlans = {} /\ Refuse(q, "start")
     \/ \E p \in TopPlans : Look(q, "start", {p}, "resolve")
     \/ /\ At(q, "resolve")
        /\ \E p \in serving[q].saw :
             IF p \in DOMAIN rows /\ NullColumn(p, serving[q].ref) THEN Ends(q, "failed")
             ELSE Goes(q, IF p \in DOMAIN rows /\ Declared(p, serving[q].ref) # None THEN "answer" ELSE "grant")
        /\ UNCHANGED tables
     \/ \E p \in serving[q].saw : WriteLimit(q, "grant", p, serving[q].ref, -1, "answer")
     \/ Finish(q, "answer")

-----------------------------------------------------------------------------
(* Seats.                                                                   *)

\* seat_plan_for_tenant: the upsert of the workspace's one row, which refers to
\* the workspace and to the plan.
Seatable(ws, p) == {Home(ws), p} \subseteq DOMAIN rows
SeatPlan(q, here, ws, p, next) ==
  /\ At(q, here)
  /\ \/ Seatable(ws, p) /\ seat' = With(seat, ws, p) /\ Wrote(q, next)
     \/ ~Seatable(ws, p) /\ seat' = seat /\ Ends(q, "failed")
  /\ UNCHANGED <<rows, links, caps, rented>>

\* The plan is id, the workspace seated val; a retired plan is refused.
AssignPlan(q) ==
  /\ Asks(q, "assign_plan")
  /\ \/ Refuse(q, "start")
     \/ Home(serving[q].val) \in DOMAIN rows /\ At(q, "start") /\ Goes(q, "plan") /\ UNCHANGED tables
     \/ Fetch(q, "plan", "active")
     \/ At(q, "active") /\ serving[q].read.flag = "off" /\ Refuse(q, "active")
     \/ At(q, "active") /\ serving[q].read.flag = "on" /\ SeatPlan(q, "active", serving[q].val, Target(q), "answer")
     \/ Finish(q, "answer")

\* seat_top_plan_on, at the end of a portfolio door: best effort.
SeatTop(q, here, ws, next) ==
  \/ TopPlans = {} /\ At(q, here) /\ Goes(q, next) /\ UNCHANGED tables
  \/ \E p \in TopPlans : Look(q, here, {p}, "seat")
  \/ \E p \in serving[q].saw : Seatable(ws, p) /\ SeatPlan(q, "seat", ws, p, next)
  \/ (\A p \in serving[q].saw : ~Seatable(ws, p)) /\ At(q, "seat") /\ Goes(q, next) /\ UNCHANGED tables

-----------------------------------------------------------------------------
(* The provisioning settings: flag is the switch, key the entry plan's slug. *)

FreePlans == {p \in Rows("plans") : Active(p) /\ rows[p].text = 0}
GetProvisioning(q) ==
  /\ Asks(q, "get_provisioning")
  /\ Lookup(q, "start", "plans") \/ Show(q, "plans", FreePlans)

\* The switch (val) is saved before the slug (ref) is judged.
UpdateProvisioning(q) ==
  /\ Asks(q, "update_provisioning")
  /\ \/ Refuse(q, "start")
     \/ serving[q].val = None /\ At(q, "start") /\ Goes(q, "slug") /\ UNCHANGED tables
     \/ serving[q].val # None /\ Change(q, "start", [rows[Target(q)] EXCEPT !.flag = serving[q].val], "slug")
     \/ serving[q].ref = None /\ Finish(q, "slug")
     \/ serving[q].ref # None /\ PlanNamed(serving[q].ref) \cap FreePlans = {} /\ Refuse(q, "slug")
     \/ /\ serving[q].ref # None
        /\ PlanNamed(serving[q].ref) \cap FreePlans # {}
        /\ Look(q, "slug", PlanNamed(serving[q].ref), "entry")
     \/ Change(q, "entry", [rows[Target(q)] EXCEPT !.key = serving[q].ref], "answer")
     \/ Finish(q, "answer")

ServePlan(q) ==
  \/ ListPlans(q) \/ ListActivePlans(q) \/ GetPlan(q) \/ CreatePlan(q) \/ UpdatePlan(q) \/ DeletePlan(q)
  \/ MergeFeatures(q) \/ SetEntitlement(q) \/ ShowRegistry(q) \/ GrantTopTier(q)
  \/ AssignPlan(q) \/ GetProvisioning(q) \/ UpdateProvisioning(q)
=============================================================================
