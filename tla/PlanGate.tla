------------------------------ MODULE PlanGate ------------------------------
(***************************************************************************)
(* The plan gate of src/src/features.rs: the plan a workspace is held to,  *)
(* the limit that plan declares for a feature, and the count it is         *)
(* compared with. Every gated create awaits the plan, the limit and the    *)
(* count one after the other, then inserts.                                *)
(*                                                                         *)
(* A feature is named by the table it limits (max_leads by "leads"). What  *)
(* plan p declares is read from three places one after the other:          *)
(* caps[p].grant (feature_limits), rows[p].state (the JSON of              *)
(* plans.features) and caps[p].column (plans.max_leads and plans.max_tags, *)
(* whose None is NULL). has_calendar is a flag: 0 refuses, the rest grant. *)
(* Of a plan's row key is the slug, text the price, flag is_active.        *)
(***************************************************************************)
EXTENDS Statements

DefaultPlanSlug == "free"

Active(p) == rows[p].flag = "on"

\* plans.slug is unique.
PlanNamed(slug) == {p \in Rows("plans") : rows[p].key = slug}

\* The active seat's plan by its slug, or the floor.
SlugIn(rs, st, ws) == IF st[ws] # None THEN rs[st[ws]].key ELSE DefaultPlanSlug
SlugOf(ws) == SlugIn(rows, seat, ws)

ReadPlan(q, here, next) ==
  /\ At(q, here)
  /\ serving' = [serving EXCEPT ![q].at = next, ![q].read = SlugOf(serving[q].ws)]
  /\ UNCHANGED tables

ColumnOf(feature) ==
  CASE feature \in {"leads", "contacts"} -> {"leads"}
    [] feature = "tags" -> {"tags"}
    [] OTHER -> {}

\* resolve_limit: what a plan declares, from the first place that says anything.
DeclaredIn(rs, cp, p, feature) ==
  CASE feature \in DOMAIN cp[p].grant -> cp[p].grant[feature]
    [] feature \in DOMAIN rs[p].state -> rs[p].state[feature]
    [] OTHER -> IF ColumnOf(feature) = {} THEN None
                ELSE cp[p].column[CHOOSE c \in ColumnOf(feature) : TRUE]
Declared(p, feature) == DeclaredIn(rows, caps, p, feature)

\* The column is decoded as an integer: a NULL that is reached is an error.
NullColumn(p, feature) == ColumnOf(feature) # {} /\ Declared(p, feature) = None

\* resolve_flag: a flag no plan mentions refuses.
Granted(p, flag) ==
  IF flag \in DOMAIN caps[p].grant THEN caps[p].grant[flag] # 0
  ELSE flag \in DOMAIN rows[p].state /\ rows[p].state[flag] = 1

\* count_usage. Three limits the plans can declare have no arm: they count nothing.
Uncounted == {"message_templates", "integration_targets", "portfolio_companies"}
Counted(q, feature) ==
  CASE feature \in Uncounted -> {}
    [] feature = "phone_numbers" -> {i \in Own(q, feature) : rows[i].flag = "on"}
    [] OTHER -> Own(q, feature)

\* enforce_feature_limit after the plan's slug is known.
ReadLimit(q, feature, next) ==
  /\ At(q, "limit")
  /\ UNCHANGED tables
  /\ LET plan == PlanNamed(serving[q].read) IN
     \/ \E p \in plan : NullColumn(p, feature) /\ Ends(q, "failed")
     \/ (\A p \in plan : Declared(p, feature) = None /\ ~NullColumn(p, feature)) /\ Goes(q, next)
     \/ \E p \in plan :
          /\ Declared(p, feature) # None
          /\ \/ Declared(p, feature) < 0 /\ Goes(q, next)
             \/ Declared(p, feature) = 0 /\ Ends(q, "refused")
             \/ /\ Declared(p, feature) > 0
                /\ serving' = [serving EXCEPT ![q].at = "count", ![q].limit = Declared(p, feature)]

\* Mutant: one more than the cap.
CountUsageOver(q, feature, next) ==
  /\ At(q, "count")
  /\ IF Cardinality(Counted(q, feature)) > serving[q].limit THEN Ends(q, "refused")
     ELSE serving' = [serving EXCEPT ![q].at = next, ![q].counted = Counted(q, feature)]
  /\ UNCHANGED tables

CountUsage(q, feature, next) ==
  /\ At(q, "count")
  /\ IF Cardinality(Counted(q, feature)) >= serving[q].limit THEN Ends(q, "refused")
     ELSE serving' = [serving EXCEPT ![q].at = next, ![q].counted = Counted(q, feature)]
  /\ UNCHANGED tables

Gate(q, here, feature, next) ==
  ReadPlan(q, here, "limit") \/ ReadLimit(q, feature, next) \/ CountUsage(q, feature, next)

\* check_feature_flag.
CheckFlag(q, here, flag, next) ==
  \/ ReadPlan(q, here, "flag")
  \/ /\ At(q, "flag")
     /\ IF \E p \in PlanNamed(serving[q].read) : Granted(p, flag) THEN Goes(q, next) ELSE Ends(q, "refused")
     /\ UNCHANGED tables

GatedCreation(q, feature, state, flag) ==
  Gate(q, "start", feature, "insert") \/ Creation(q, "insert", feature, state, flag)
=============================================================================
