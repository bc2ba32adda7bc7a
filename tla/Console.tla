------------------------------ MODULE Console -------------------------------
(***************************************************************************)
(* The whole console at work: any requests of any workspaces, interleaved  *)
(* statement by statement on the same tables. Here are the next-state      *)
(* relation and what must hold of it; the handlers are in the modules      *)
(* below, the assumptions about what is stored and asked in Workloads.     *)
(***************************************************************************)
EXTENDS Records, Automation, Settings, Campaigns, Tickets, Accounts, Numbers

Serve(q) ==
  \/ ServeRecord(q) \/ ServeAutomation(q) \/ ServeSetting(q) \/ ServeCampaign(q)
  \/ ServePlan(q) \/ ServeTicket(q) \/ ServeAccount(q) \/ ServeNumber(q)

Next == \E q \in Requests : Serve(q)

Spec == Init /\ [][Next]_vars

-----------------------------------------------------------------------------
(* Vocabulary of the properties.                                            *)

Done(q) == serving[q].answer = "ok" /\ serving[q].at = "done"

\* The edits that bind every column of their statement from the row they read
\* first, and the ones that bind what the body names and nothing else.
MergingEdits ==
  {"update_call", "update_contact", "update_custom_field", "update_client", "update_deal", "update_event",
   "update_follow_up", "update_rule", "update_template", "update_integration", "update_email_trigger",
   "update_redirect", "update_export", "update_import", "update_lead", "update_campaign", "update_plan",
   "update_ticket", "put_account", "update_email_config", "update_site", "put_branding", "upload_logo",
   "delete_logo"}
NamingEdits ==
  {"update_list", "update_tag", "update_tag_group", "update_target", "update_company", "move_stage", "update_smtp",
   "update_email_template", "upsert_payment_provider"}

\* Columns written whatever the body says.
Besides(kind) ==
  CASE kind \in {"update_company", "move_stage", "delete_number"} -> {"flag"}
    [] kind \in {"update_smtp", "merge_features"} -> {"state"}
    [] kind \in {"activate", "pause"} -> {"state", "flag"}
    [] kind \in {"sync_company", "portfolio_sync", "sync_create", "sync_update"} -> {"text"}
    [] kind = "upsert_payment_provider" -> {"text", "flag"}
    [] OTHER -> {}

\* The limited tables, and what a workspace uses of each.
Gated == {"calls", "contacts", "leads", "deals", "campaigns", "tags", "response_rules", "integrations",
          "follow_ups", "tickets", "users", "phone_numbers"}
UsedIn(rs, ws, t) == {i \in DOMAIN rs : TableOf(i) = t /\ rs[i].ws = ws /\ (t = "phone_numbers" => rs[i].flag = "on")}
Used(ws, t) == UsedIn(rows, ws, t)
CappedIn(rs, cp, p, t) == DeclaredIn(rs, cp, p, t) # None /\ DeclaredIn(rs, cp, p, t) >= 0
Capped(p, t) == CappedIn(rows, caps, p, t)
Over(ws, t) == \E p \in PlanNamed(SlugOf(ws)) : Capped(p, t) /\ Cardinality(Used(ws, t)) > Declared(p, t)

\* When the requests begin every workspace has its entry among the seats, plans
\* are told apart by their slugs, limits are numbers, and nobody is over one.
ASSUME LimitsAssumption ==
  \A load \in Workloads :
    LET plans == {p \in DOMAIN load.rows : TableOf(p) = "plans"} IN
    /\ IsFiniteSet(DOMAIN load.rows)
    /\ Workspaces \subseteq DOMAIN load.seat
    /\ \A p, o \in plans : load.rows[p].key = load.rows[o].key => p = o
    /\ \A t \in Gated, p \in plans :
         DeclaredIn(load.rows, load.caps, p, t) = None \/ DeclaredIn(load.rows, load.caps, p, t) \in Int
    /\ \A t \in Gated, p \in plans, ws \in Workspaces :
         load.rows[p].key = SlugIn(load.rows, load.seat, ws) /\ CappedIn(load.rows, load.caps, p, t) =>
           Cardinality(UsedIn(load.rows, ws, t)) <= DeclaredIn(load.rows, load.caps, p, t)

\* The row a create makes: a purchase takes up the released row of its number.
Made(q, t) == IF Asks(q, "purchase_number") /\ serving[q].saw # {} THEN serving[q].saw ELSE {<<t, q>>}

\* The creates that answer with a row of their own, and its table.
Inserts ==
  [create_call |-> "calls", create_contact |-> "contacts", create_client |-> "clients", create_deal |-> "deals",
   create_event |-> "calendar_events", create_follow_up |-> "follow_ups", create_rule |-> "response_rules",
   create_lead |-> "leads", create_list |-> "lists", create_tag |-> "tags", create_campaign |-> "campaigns",
   create_target |-> "integration_targets", create_company |-> "portfolio_companies",
   create_email_trigger |-> "triggers", create_plan |-> "plans", invite_teammate |-> "users"]

\* The workspaces the operator deletes.
Retires(p, ws) ==
  /\ serving[p].wrote
  /\ \/ Asks(p, "delete_tenant") /\ Target(p) = Home(ws)
     \/ Asks(p, "bulk_delete_tenants") /\ Home(ws) \in serving[p].saw

ChangesPlans == {"create_plan", "update_plan", "delete_plan", "merge_features", "set_entitlement",
                 "grant_top_tier", "assign_plan", "update_ticket", "portfolio_sync", "sync_create", "sync_update"}
SeatsAPlan == {"assign_plan", "update_ticket", "delete_plan", "sync_create", "sync_update"}

-----------------------------------------------------------------------------
(* Types, with the schema's references: no row, membership, seat or limit   *)
(* outlives what it refers to, whatever is deleted while handlers run.      *)
TypeOK ==
  /\ \A i \in DOMAIN rows :
       /\ MakerOf(i) \in Requests \cup Workspaces
       /\ Housed(i, rows[i])
       /\ rows[i].link = None \/ TableOf(i) \in Unchecked \/ rows[i].link \in DOMAIN rows
  /\ \A l \in links : l[1] \in DOMAIN rows /\ l[2] \in DOMAIN rows
  /\ \A ws \in DOMAIN seat : seat[ws] # None => seat[ws] \in Rows("plans") /\ Home(ws) \in DOMAIN rows
  /\ DOMAIN caps = Rows("plans")
  /\ \A q \in Requests :
       /\ serving[q].answer \in {"none", "ok", "refused", "failed"}
       /\ serving[q].wrote \in BOOLEAN

\* An edit the client was told is saved stays saved, unless the row is gone (a
\* company that the hub pushes again is a new one under the old id), a later
\* request named the same column, or an edit of another column that had read the
\* row before wrote the old value back. Edits that name their columns never do
\* that. (A link may also be cut by the deletion of what it links to, and a
\* policy's text stays when a blank is sent for it.)
EditsKept ==
  \A q \in Requests :
    LET i == Target(q)
        c == serving[q].col
    IN  (serving[q].kind \in MergingEdits \cup NamingEdits /\ Done(q) /\ i \in DOMAIN rows) =>
          \/ rows[i][c] = Sent(q)
          \/ c = "link" /\ rows[i].link = None /\ Sent(q) \notin DOMAIN rows
          \/ Asks(q, "update_site") /\ BlankPolicy(q) /\ rows[i].state = serving[q].read.state
          \/ \E p \in Requests \ {q} :
               /\ serving[p].wrote
               /\ \/ Target(p) = i /\ c \in {serving[p].col} \cup Besides(serving[p].kind)
                  \/ Target(p) = i /\ serving[p].kind \in MergingEdits /\ serving[p].read[c] # Sent(q)
                  \/ Target(p) = i /\ serving[p].kind \in {"sync_delete", "delete_company"}

\* The company whose login was handed out is the workspace's; what another push
\* of that company, or its deletion, may have done to it first is the exception.
HandedOver(q) ==
  (Asks(q, "portfolio_sync") /\ Done(q) /\ <<"users", q>> \in DOMAIN rows) =>
    \/ Target(q) \in DOMAIN rows /\ rows[Target(q)].ws = q
    \/ \E p \in Requests \ {q} : TableOf(Target(p)) = "portfolio_companies" /\ serving[p].wrote

\* A tagged lead's workspace is whole until it is deleted: it has its owner, and
\* a seat unless the entry plan was retired or deleted meanwhile.
Whole(q) ==
  (Asks(q, "provision_account") /\ serving[q].wrote /\ ~\E p \in Requests : Retires(p, q)) =>
    /\ {Home(q), <<"users", q>>} \subseteq DOMAIN rows
    /\ seat[q] # None \/ \E p \in Requests : serving[p].kind \in {"update_plan", "delete_plan"} /\ serving[p].wrote

\* What an answer says is what was done. A request that is refused wrote
\* nothing (three handlers write before they judge); one that created a row left
\* it there, unless a deletion took it; a plan request the operator resolved is
\* stamped and its workspace on the plan, unless another request seats it too;
\* an account that was provisioned is whole and its company's.
AnswersTrue ==
  \A q \in Requests :
    /\ serving[q].answer = "refused" =>
         ~serving[q].wrote \/ serving[q].kind \in {"delete_tag_group", "update_provisioning", "portfolio_sync"}
    /\ HandedOver(q) /\ Whole(q)
    /\ (serving[q].kind \in DOMAIN Inserts /\ Done(q)) =>
         \/ <<Inserts[serving[q].kind], q>> \in DOMAIN rows
         \/ \E p \in Requests \ {q} :
              \/ serving[p].kind \in {"delete_call", "delete_company", "remove_member"} /\ serving[p].wrote
              \/ Retires(p, serving[q].ws)
              \/ Asks(q, "create_follow_up") /\ Retires(p, MakerOf(serving[q].ref))
    /\ (Asks(q, "update_ticket") /\ Done(q) /\ serving[q].saw # {}) =>
         /\ Target(q) \in DOMAIN rows => rows[Target(q)].flag.applied
         /\ \/ seat[serving[q].read.ws] \in serving[q].saw
            \/ \E p \in Requests \ {q} :
                 (serving[p].kind \in SeatsAPlan /\ serving[p].wrote) \/ Retires(p, serving[q].read.ws)

\* A workspace's requests, and a visitor's, change its own rows only. The ways
\* across are a reference that goes with the row it refers to, a tag group's
\* deletion, a released number that is bought again, and a release or an edit
\* decided on a row read when it was still the caller's: a number is sold anew,
\* a company deleted and pushed for another workspace. Seats and limits are the
\* operator's alone.
Across(q, i) ==
  \/ rows[i].link \in DOMAIN rows /\ rows[i].link \notin DOMAIN rows'
  \/ Asks(q, "delete_tag_group") /\ TableOf(i) = "tags" /\ rows[i].link = Target(q)
  \/ Asks(q, "purchase_number") /\ i \in serving[q].saw /\ serving[q].read.flag # "on"
  \/ /\ serving[q].kind \in {"delete_number", "update_company", "update_smtp"}
     /\ i = Target(q) /\ serving[q].read.ws = serving[q].ws

OwnChange(q, i) ==
  \/ i \notin DOMAIN rows /\ rows'[i].ws = serving[q].ws
  \/ /\ i \in DOMAIN rows
     /\ \/ rows[i].ws = serving[q].ws /\ (i \in DOMAIN rows' => rows'[i].ws = rows[i].ws)
        \/ Across(q, i)

KeepsToOwn(q) ==
  /\ seat' = seat /\ caps' = caps
  /\ \A i \in DOMAIN rows \cup DOMAIN rows' :
       (i \in DOMAIN rows /\ i \in DOMAIN rows' /\ rows'[i] = rows[i]) \/ OwnChange(q, i)

OnlyOwnRows == [][\A q \in Requests : Serve(q) /\ serving[q].ws # Operator => KeepsToOwn(q)]_vars

\* A workspace that is there from the start is over a limit of its plan only
\* through two creates that were both counted before either inserted, through a
\* row of its own that is inserted past no gate (the call a webhook records, the
\* follow-up of a missed call that a click or a rule asks for, the plan request
\* that the sign-up or the checkout files), because the plan itself was changed,
\* because the workspace was deleted and one of its own requests made it anew,
\* without its seat, or because a number that one purchase had counted was let
\* go, or sold, and taken up by another.
CountedApart(p, q, t) ==
  /\ serving[p].limit # None /\ serving[q].limit # None
  /\ Made(p, t) \cap Rows(t) # {} /\ Made(q, t) \cap Rows(t) # {}
  /\ Made(p, t) \cap serving[q].counted = {} /\ Made(q, t) \cap serving[p].counted = {}
Ungated == {"record_call", "respond_to_call"} \cup Doors
Replanned == \E p \in Requests : serving[p].kind \in ChangesPlans /\ serving[p].wrote
MadeAnew(ws) ==
  /\ \E p \in Requests : Retires(p, ws)
  /\ \E p \in Requests : Asks(p, "sync_company") /\ serving[p].ws = ws /\ serving[p].wrote
Turns(p, i) ==
  /\ serving[p].wrote
  /\ \/ Asks(p, "delete_number") /\ Target(p) = i
     \/ Asks(p, "purchase_number") /\ i \in serving[p].saw
CountedNumberTurned ==
  \E p, q, d \in Requests :
    /\ Asks(p, "purchase_number") /\ Asks(q, "purchase_number") /\ q \notin {p, d}
    /\ \E i \in serving[p].counted : Turns(q, i) /\ Turns(d, i)
LimitHeld(t) ==
  \A ws \in Workspaces :
    Over(ws, t) =>
      \/ \E p, q \in Requests : p # q /\ CountedApart(p, q, t)
      \/ \E p \in Requests : serving[p].kind \in Ungated /\ <<t, p>> \in Used(ws, t)
      \/ Replanned
      \/ MadeAnew(ws)
      \/ t = "phone_numbers" /\ CountedNumberTurned
LimitHeldUnlessCountedApart == \A t \in Gated : LimitHeld(t)

\* Two rows for one thing: contacts of one address, lists of one campaign, open
\* plan requests for one plan (or, without a plan, of one subject), open messages
\* of one visitor with one subject. They come only from two requests neither of
\* which saw the other's row, from an edit or a second list that is made without
\* looking, or from the sign-up or the checkout, which pass over an open request
\* whose source is "billing". Any other ticket may be filed twice.
SameRequest(r, s) ==
  IF r.ws = None THEN r.key = s.key /\ r.key # None /\ r.text = s.text
  ELSE /\ {r.flag.source, s.flag.source} \subseteq PlanSources
       /\ r.key = s.key
       /\ r.key = None => r.text = s.text
Alike(rs, i, j) ==
  /\ i # j /\ TableOf(i) = TableOf(j) /\ rs[i].ws = rs[j].ws
  /\ \/ TableOf(i) = "contacts" /\ rs[i].key = rs[j].key /\ rs[i].key # None
     \/ TableOf(i) = "lists" /\ rs[i].link = rs[j].link /\ rs[i].link # None
     \/ TableOf(i) = "tickets" /\ {rs[i].state, rs[j].state} \subseteq Open /\ SameRequest(rs[i], rs[j])
Twins(i, j) == Alike(rows, i, j)
\* There are none when the requests begin.
ASSUME SinglesAssumption == \A load \in Workloads : \A i, j \in DOMAIN load.rows : ~Alike(load.rows, i, j)
MadeWithoutLooking == {"update_contact", "create_list", "update_ticket"}
\* The maker of i saw j, and took no notice of it.
PassedOver(i, j) ==
  /\ MakerOf(i) \in Requests /\ serving[MakerOf(i)].kind \in Doors
  /\ j \in serving[MakerOf(i)].saw /\ rows[j].flag.source = "billing"
TwinsOnlyFromOverlap ==
  \A i, j \in DOMAIN rows :
    Twins(i, j) =>
      \/ {MakerOf(i), MakerOf(j)} \subseteq Requests /\ i \notin serving[MakerOf(j)].saw
                                                     /\ j \notin serving[MakerOf(i)].saw
      \/ \E p \in Requests : serving[p].kind \in MadeWithoutLooking /\ serving[p].wrote
      \/ PassedOver(i, j) \/ PassedOver(j, i)

\* A number and its bill go together: who was told a number is theirs holds it,
\* a number the provider bills for is held, and a number held through the
\* platform is billed. What breaks this is named: a release, or a purchase that
\* found the number released, that runs over it; an order that did not get to
\* its row; the deletion of the workspace, of which the provider is not told.
Bought(q) == Asks(q, "purchase_number") /\ Done(q)
BoughtRow(q) == IF serving[q].saw = {} THEN <<"phone_numbers", q>> ELSE CHOOSE i \in serving[q].saw : TRUE
\* Whose row the purchase was decided on, and whose it is to be.
Sides(q) == {serving[q].ws} \cup IF serving[q].saw = {} THEN {} ELSE {serving[q].read.ws}
Releases(q, n) ==
  Asks(q, "delete_number") /\ ~At(q, "start") /\ serving[q].answer # "refused" /\ serving[q].read.key = n
Buys(q, n) == Asks(q, "purchase_number") /\ serving[q].val = n
Revives(q, n) == Buys(q, n) /\ serving[q].wrote /\ serving[q].saw # {} /\ serving[q].read.flag = "off"
Ordered(q, n) == Buys(q, n) /\ (At(q, "persist") \/ serving[q].answer = "failed")

SoldIsHeld ==
  \A q \in Requests :
    Bought(q) =>
      \/ BoughtRow(q) \in DOMAIN rows /\ Held(BoughtRow(q)) /\ rows[BoughtRow(q)].ws = serving[q].ws
      \/ \E p \in Requests \ {q} :
           \/ Releases(p, serving[q].val) \/ Revives(p, serving[q].val)
           \/ \E ws \in Sides(q) : Retires(p, ws)
BilledIsHeld ==
  \A n \in rented :
    \/ \E i \in Rows("phone_numbers") : rows[i].key = n /\ Held(i)
    \/ \E p \in Requests : Releases(p, n) \/ Ordered(p, n)
    \/ \E p \in Requests, ws \in Workspaces : Retires(p, ws)
HeldIsBilled ==
  \A i \in Rows("phone_numbers") :
    Held(i) =>
      \/ rows[i].key \in rented
      \/ \E k \in Rows("provider_keys") : rows[k].ws = rows[i].ws
      \/ \E p \in Requests :
           \/ Releases(p, rows[i].key) \/ Retires(p, rows[i].ws)
           \/ Asks(p, "delete_key") /\ serving[p].wrote /\ serving[p].ws = rows[i].ws
NumbersKept == SoldIsHeld /\ BilledIsHeld /\ HeldIsBilled

-----------------------------------------------------------------------------
\* "`N > 0` = a cap of N" (src/src/feature_registry.rs): a plan's cap holds for
\* every limit the registry says a gate reads, with one request at a time, and
\* but for the company a workspace makes of itself, which goes through no gate.
EveryCapHolds ==
  \A ws \in Workspaces, t \in Uncounted :
    Over(ws, t) =>
      \/ \E p, q \in Requests : p # q /\ <<t, p>> \in DOMAIN rows /\ <<t, q>> \in DOMAIN rows
      \/ \E p \in Requests : Asks(p, "sync_company") /\ <<t, p>> \in DOMAIN rows
=============================================================================
