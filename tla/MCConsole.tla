----------------------------- MODULE MCConsole ------------------------------
(***************************************************************************)
(* Desks for the console: small tables and the requests that meet on them. *)
(* A and B are customers, Op the platform's operator. At a desk for two     *)
(* every two jobs meet, the same one twice included; at a desk for three    *)
(* every three of a smaller choice.                                         *)
(***************************************************************************)
EXTENDS Console, TLC

CONSTANTS q1, q2, q3, A, B, Op

Symmetry == Permutations({q1, q2})

-----------------------------------------------------------------------------
(* Rows and jobs.                                                           *)

\* A seeded row of a workspace; its text tells it apart.
Row(ws, key) == [ws |-> ws, key |-> key, text |-> None, state |-> "new", flag |-> "on", link |-> None]
Plain(tables_, ws) == [i \in tables_ \X {ws} |-> Row(ws, None)]
Both(f, g) == [x \in DOMAIN f \cup DOMAIN g |-> IF x \in DOMAIN f THEN f[x] ELSE g[x]]

Job(kind, ws, id) == [kind |-> kind, ws |-> ws, id |-> id, col |-> "text", val |-> None, ref |-> None]
\* A create: what must not repeat, and the row it refers to.
Make(kind, ws, key, link) == [Job(kind, ws, None) EXCEPT !.val = key, !.ref = link]
\* An edit of one column.
Edit(kind, ws, id, col, val) == [Job(kind, ws, id) EXCEPT !.col = col, !.val = val]
\* Two edits of one row, each naming its own column, and its deletion.
Edits(kind, ws, id) == {Edit(kind, ws, id, "text", None), Edit(kind, ws, id, "state", "mid")}

\* No handler serves it.
Idle == Job("nothing", Op, None)
Pairs(jobs) == {[q \in {q1, q2, q3} |-> IF q = q3 THEN Idle ELSE f[q]] : f \in [{q1, q2} -> jobs]}
Trios(jobs) == [{q1, q2, q3} -> jobs]

\* The catalogue of every desk: A has no seat and is on the floor, B is on pro.
Free == <<"plans", Op>>
Pro == <<"plans", A>>
PlanRow(slug, price, features) ==
  [ws |-> Op, key |-> slug, text |-> price, state |-> features, flag |-> "on", link |-> None]
Catalogue ==
  Free :> PlanRow("free", 0, [tickets |-> 2, calendar |-> 1]) @@ Pro :> PlanRow("pro", 49, [calendar |-> 0, tickets |-> 1])
Caps ==
  Free :> [grant |-> [calls |-> 2, contacts |-> 2, deals |-> 2, campaigns |-> 2, response_rules |-> 2,
                      integrations |-> 2, follow_ups |-> 2, users |-> 2, phone_numbers |-> 2,
                      message_templates |-> 1, integration_targets |-> 1, portfolio_companies |-> 1],
           column |-> [leads |-> 2, tags |-> 2]]
  @@ Pro :> [grant |-> [contacts |-> -1, deals |-> 0, byok |-> 1], column |-> [leads |-> None, tags |-> -1]]
Seats == [ws \in {A, B, Op} |-> IF ws = B THEN Pro ELSE None]

Tenants == [i \in {"tenants"} \X {A, B, Op} |-> Row(i[2], i[2])]

Table(seeded, members, billed, asked) ==
  [rows |-> Both(seeded, Both(Tenants, Catalogue)), links |-> members, seat |-> Seats, caps |-> Caps, rented |-> billed, asked |-> asked]
\* At every desk for two the operator may delete A.
DeleteA == Job("delete_tenant", Op, Home(A))
Desk(seeded, members, jobs) == Table(seeded, members, {}, Pairs(jobs \cup {DeleteA}))

-----------------------------------------------------------------------------
(* Records.                                                                 *)

CallDesk ==
  LET call == <<"calls", A>>
      todo == <<"follow_ups", A>>
  IN Desk(Both(call :> [Row(A, None) EXCEPT !.state = "missed"], Plain({"follow_ups", "response_rules"}, A)), {},
       {Job("list_calls", A, None), Job("get_call", A, call), Make("create_call", A, None, None),
        Job("delete_call", A, call), Job("record_call", A, None), Job("respond_to_call", A, call), Job("respond_to_call", B, call),
        Job("list_follow_ups", A, None), Make("create_follow_up", A, None, call),
        Make("create_follow_up", B, None, call), Job("delete_follow_up", A, todo)}
       \cup Edits("update_call", A, call) \cup Edits("update_follow_up", A, todo))

ContactDesk ==
  LET person == <<"contacts", A>>
      field == <<"contact_custom_fields", A>>
  IN Desk(Both(person :> Row(A, "ann"), Both(field :> Row(A, "size"), Plain({"contacts"}, B))), {<<person, field>>},
       {Job("list_contacts", A, None), Job("search_contacts", A, None), Job("export_contacts", A, None),
        Job("get_contact", A, person), Make("create_contact", A, "bob", None), Make("create_contact", A, "ann", None),
        Make("create_contact", A, None, None), Make("create_contact", B, "bob", None),
        Edit("update_contact", A, person, "text", None), Edit("update_contact", A, person, "key", "bob"),
        Job("delete_contact", A, person), Job("delete_contact", B, person),
        Job("list_custom_fields", A, None), Make("create_custom_field", A, "age", None),
        Job("delete_custom_field", A, field), Job("get_contact_with_fields", A, person),
        Job("list_contacts_with_fields", A, None),
        [Job("update_contact_field_value", A, person) EXCEPT !.ref = field]}
       \cup Edits("update_custom_field", A, field)
       \cup {Edit("update_custom_field", A, field, "key", "age")})

DealDesk ==
  LET deal == <<"deals", A>>
      event == <<"calendar_events", A>>
      person == <<"contacts", A>>
      client == <<"clients", A>>
  IN Desk(Both(deal :> [Row(A, None) EXCEPT !.flag = "off", !.link = person],
            Both(event :> [Row(A, None) EXCEPT !.link = person], Plain({"contacts", "clients"}, A))), {},
       {Job("list_deals", A, None), Job("get_deal", A, deal), Make("create_deal", A, None, person),
        Make("create_deal", B, None, None), Job("delete_deal", A, deal), Job("delete_contact", A, person),
        Edit("update_deal", A, deal, "link", person),
        Edit("move_stage", A, deal, "state", "won"), Edit("move_stage", A, deal, "state", "lost"),
        Job("list_events", A, None), Job("get_event", A, event), Make("create_event", A, None, person),
        Make("create_event", B, None, None), Job("delete_event", A, event),
        Job("list_clients", A, None), Job("get_client", A, client), Make("create_client", A, None, None),
        Job("delete_client", A, client)}
       \cup Edits("update_deal", A, deal) \cup Edits("update_event", A, event) \cup Edits("update_client", A, client))

-----------------------------------------------------------------------------
(* Automation.                                                              *)

RuleDesk ==
  LET rule == <<"response_rules", A>>
      template == <<"message_templates", A>>
      hook == <<"integrations", A>>
  IN Desk(Plain({"response_rules", "message_templates", "integrations"}, A), {},
       {Job("list_rules", A, None), Make("create_rule", A, None, None), Job("delete_rule", A, rule),
        Job("list_templates", A, None), Make("create_template", A, None, None), Job("delete_template", A, template),
        Job("list_integrations", A, None), Make("create_integration", A, None, None),
        Job("delete_integration", A, hook), Job("test_integration", A, hook)}
       \cup Edits("update_rule", A, rule) \cup Edits("update_template", A, template)
       \cup Edits("update_integration", A, hook))

CompanyDesk ==
  LET company == <<"portfolio_companies", A>>
      target == <<"integration_targets", A>>
      trigger == <<"triggers", A>>
      redirect == <<"redirects", A>>
      linked == [Row(A, None) EXCEPT !.link = company]
  IN Desk(Both(target :> linked, Both(trigger :> linked, Both(redirect :> linked,
            Plain({"portfolio_companies"}, A)))), {},
       {Job("list_companies", A, None), Job("get_company", A, company), Make("create_company", A, None, None),
        Edit("update_company", A, company, "flag", "off"), Edit("update_company", A, company, "text", None),
        Job("delete_company", A, company), Job("sync_company", A, <<"tenants", A>>),
        Job("get_smtp", A, company), Edit("update_smtp", A, company, "state", "server"),
        Edit("update_smtp", A, company, "state", "unset"),
        Job("list_targets", A, None), Make("create_target", A, None, company), Job("delete_target", A, target),
        Job("list_email_triggers", A, None), Job("get_email_trigger", A, trigger),
        Make("create_email_trigger", A, None, company), Job("delete_email_trigger", A, trigger),
        Job("list_redirects", A, None), Job("get_redirect", A, redirect), Make("create_redirect", A, None, company),
        Job("delete_redirect", A, redirect)}
       \cup Edits("update_target", A, target) \cup Edits("update_email_trigger", A, trigger)
       \cup Edits("update_redirect", A, redirect))

FileDesk ==
  LET export == <<"export_templates", A>>
      import == <<"import_logs", A>>
  IN Desk(Plain({"export_templates", "import_logs"}, A), {},
       {Job("list_exports", A, None), Job("get_export", A, export), Make("create_export", A, None, None),
        Job("delete_export", A, export), Job("list_imports", A, None), Job("get_import", A, import),
        Make("create_import", A, None, None), Job("delete_import", A, import)}
       \cup Edits("update_export", A, export) \cup Edits("update_import", A, import))

-----------------------------------------------------------------------------
(* Campaigns.                                                               *)

LeadDesk ==
  LET vip == <<"tags", A>>
      lead == <<"leads", A>>
      list == <<"lists", A>>
      run == <<"campaigns", A>>
      listed == <<"campaigns", B>>
      theirs == listed :> Row(B, None) @@ <<"lists", B>> :> [Row(B, None) EXCEPT !.link = listed]
  IN Desk(Both(run :> [Row(A, None) EXCEPT !.link = vip], Both(theirs, Plain({"leads", "lists"}, A))), {<<list, lead>>},
       {Job("list_leads", A, None), Job("get_lead", A, lead), Make("create_lead", A, vip, None),
        Make("create_lead", A, None, None), Make("create_lead", B, None, None), Job("delete_lead", A, lead),
        Job("list_lists", A, None), Job("show_members", A, list), [Job("add_lead", A, list) EXCEPT !.ref = lead],
        [Job("add_lead", A, list) EXCEPT !.ref = <<"leads", B>>], [Job("remove_lead", A, list) EXCEPT !.ref = lead],
        Make("create_list", A, None, run), Make("create_list", B, None, listed), Job("delete_list", A, list),
        Job("list_campaigns", A, None), Job("get_campaign", A, run), Make("create_campaign", A, None, vip),
        Job("delete_campaign", A, run), Job("activate", A, run), Job("pause", A, run)}
       \cup Edits("update_lead", A, lead) \cup Edits("update_list", A, list) \cup Edits("update_campaign", A, run))

TagDesk ==
  LET tag == <<"tags", A>>
      group == <<"tag_groups", A>>
  IN Desk(Both(tag :> [Row(A, None) EXCEPT !.link = group], Plain({"tag_groups"}, A)), {},
       {Job("list_tags", A, None), Job("get_tag", A, tag), Make("create_tag", A, None, group),
        Make("create_tag", B, None, None), Job("delete_tag", A, tag), Job("list_tag_groups", A, None),
        Job("get_tag_group", A, group), Make("create_tag_group", A, None, None), Job("delete_tag_group", A, group),
        Job("delete_tag_group", B, group)}
       \cup Edits("update_tag", A, tag) \cup Edits("update_tag_group", A, group))

-----------------------------------------------------------------------------
(* The operator's side.                                                     *)

PlanDesk ==
  LET settings == <<"admin_settings", Op>>
  IN Desk(Both(settings :> Row(Op, "free"), Plain({"leads"}, A)), {},
       {Job("list_plans", Op, None), Job("list_active_plans", A, None), Job("get_plan", Op, Pro),
        Make("create_plan", Op, "gold", 199), Make("create_plan", Op, "pro", 49),
        Edit("update_plan", Op, Pro, "flag", "off"), Edit("update_plan", Op, Pro, "text", 99),
        Edit("update_plan", Op, Free, "flag", "off"), Edit("update_plan", Op, Free, "key", "basic"),
        Job("delete_plan", Op, Pro),
        [Job("merge_features", Op, Pro) EXCEPT !.ref = "leads", !.val = 5],
        [Job("set_entitlement", Op, Pro) EXCEPT !.ref = "leads", !.val = 5],
        [Job("set_entitlement", Op, Free) EXCEPT !.ref = "leads", !.val = 1],
        [Job("set_entitlement", Op, Pro) EXCEPT !.ref = "users", !.val = 1],
        Job("plan_registry", Op, None), [Job("grant_top_tier", Op, None) EXCEPT !.ref = "users"],
        [Job("grant_top_tier", Op, None) EXCEPT !.ref = "leads"],
        [Job("assign_plan", Op, Pro) EXCEPT !.val = A],
        Job("get_provisioning", Op, settings),
        [Job("update_provisioning", Op, settings) EXCEPT !.val = "off", !.ref = "pro"],
        [Job("update_provisioning", Op, settings) EXCEPT !.val = "off"],
        [Job("update_provisioning", Op, settings) EXCEPT !.ref = "free"],
        Make("create_lead", A, None, None), Make("create_lead", B, None, None)})

\* The doors that make workspaces: one company that is here, one that is not yet.
AccountDesk ==
  LET settings == <<"admin_settings", Op>>
      here == <<"portfolio_companies", A>>
      new == <<"portfolio_companies", Op>>
      push(kind, company, val, slug) == [Job(kind, Op, company) EXCEPT !.val = val, !.ref = slug]
      unknown(load, ws) == [load EXCEPT !.rows = [i \in DOMAIN @ \ {Home(ws)} |-> @[i]], !.seat[ws] = None]
  IN unknown(Desk(Both(settings :> Row(Op, "free"),
            Both(<<"tenants", A>> :> Row(A, "alpha"), Both(<<"users", A>> :> Row(A, "ann"), here :> Row(A, None)))), {},
       {push("provision_account", settings, "eve", None), push("provision_account", settings, "ann", None),
        push("portfolio_sync", new, "eve", None), push("portfolio_sync", new, "fay", None),
        push("portfolio_sync", here, "eve", None), push("portfolio_sync", new, "ann", None),
        push("sync_create", new, B, "beta"), push("sync_create", new, B, "alpha"), push("sync_create", here, A, "alpha"),
        push("sync_create", new, Op, "beta"),
        push("sync_update", new, B, "beta"), push("sync_update", new, None, "beta"), push("sync_update", here, A, "alpha"),
        push("sync_delete", here, None, None), push("sync_delete", new, None, None),
        Job("sync_company", B, Home(B)),
        Make("invite_teammate", A, "eve", None), push("update_provisioning", settings, "off", None),
        Edit("update_plan", Op, Free, "flag", "off"), Edit("update_plan", Op, Pro, "flag", "off"),
        Job("delete_plan", Op, Free), Job("delete_plan", Op, Pro), [Job("assign_plan", Op, Pro) EXCEPT !.val = A],
        Job("delete_tenant", Op, Home(q1)), Job("delete_tenant", Op, Home(q2)),
        [Job("bulk_delete_tenants", Op, None) EXCEPT !.ref = {Home(A), Home(B)}],
        [Job("bulk_delete_tenants", Op, None) EXCEPT !.ref = {Home(A), Home(Op)}]}), B)

SettingDesk ==
  LET mail == <<"email_config", Op>>
      site == <<"site", Op>>
      welcome == <<"email_templates", Op>>
      other == <<"email_templates", A>>
      stripe == <<"payment_providers", Op>>
      pay(col, val) == [Edit("upsert_payment_provider", Op, stripe, col, val) EXCEPT !.ref = "stripe"]
  IN Desk(Both([i \in {mail, site} |-> Row(Op, None)],
            Both(welcome :> Row(Op, "welcome"), Both(other :> [Row(Op, "welcome") EXCEPT !.flag = "off"],
              stripe :> Row(Op, "stripe")))), {},
       {Job("get_email_config", Op, None), Job("get_site", Op, None),
        Edit("update_site", Op, site, "state", "blank"), Edit("update_site", Op, site, "text", None),
        Edit("update_site", Op, site, "state", "policy"),
        Job("list_email_templates", Op, None), Make("create_email_template", Op, "welcome", "on"),
        Make("create_email_template", Op, "welcome", "off"), Make("create_email_template", Op, "receipt", "on"),
        Edit("update_email_template", Op, other, "flag", "on"), Edit("update_email_template", Op, welcome, "flag", "off"),
        Edit("update_email_template", Op, other, "text", None),
        Job("delete_email_template", Op, welcome), Job("delete_email_template", Op, other),
        Job("list_payment_providers", Op, None), pay("state", "sk"), pay("text", None), pay("flag", "on"),
        [Job("delete_payment_provider", Op, None) EXCEPT !.ref = "stripe"]}
       \cup Edits("update_email_config", Op, mail))

BrandDesk ==
  LET brand(ws) == <<"branding", ws>>
      logo == <<"tenant_logos", A>>
  IN Desk(Both(brand(A) :> [Row(A, None) EXCEPT !.link = logo], logo :> Row(A, None)), {},
       {Job("get_branding", A, brand(A)), Job("get_logo", A, None),
        Edit("put_branding", A, brand(A), "text", None), Edit("put_branding", A, brand(A), "state", "mid"),
        Edit("put_branding", A, brand(A), "link", None), Edit("put_branding", B, brand(B), "text", None),
        Edit("upload_logo", A, brand(A), "link", logo), Edit("upload_logo", B, brand(B), "link", <<"tenant_logos", B>>),
        Edit("delete_logo", A, brand(A), "link", None)})

TicketDesk ==
  LET ask == <<"tickets", A>>
      opening == <<"ticket_messages", A>>
      visitors == [i \in {"tickets"} \X {B, Op} |->
                     [Row(None, "eve") EXCEPT !.text = "hello", !.state = IF i[2] = B THEN "open" ELSE "closed",
                                              !.flag = Unapplied("contact_form")]]
      file(ws, source, slug) == Make("create_ticket", ws, slug, [source |-> source, subject |-> "upgrade", contact |-> None])
  IN Desk(Both(ask :> [Row(A, "pro") EXCEPT !.state = "open", !.flag = Unapplied("billing")],
            Both(opening :> [Row(A, None) EXCEPT !.link = ask, !.state = "customer"], visitors)), {},
       {Job("list_tickets", A, None), Job("list_tickets", Op, None), Job("ticket_stats", A, None),
        Job("get_ticket", A, ask), Job("get_ticket", B, ask),
        Make("create_public_ticket", None, "eve", "hello"), Make("create_public_ticket", None, "eve", "again"),
        [Job("public_answer", None, <<"tickets", B>>) EXCEPT !.val = "eve"],
        [Job("public_answer", None, ask) EXCEPT !.val = "eve"],
        file(A, "billing", "pro"), file(A, "plan_request", "free"), file(A, "manual", "pro"), file(A, "manual", None),
        file(A, "billing", None), file(B, "plan_request", "pro"), file(B, "manual", None),
        Make("signup_request", A, "pro", None), Make("signup_request", B, "pro", None),
        Make("signup_request", A, "free", None), Job("checkout_request", A, Pro), Job("checkout_request", B, Pro),
        Job("checkout_request", A, Free),
        Edit("update_ticket", Op, ask, "state", "resolved"), Edit("update_ticket", A, ask, "state", "closed"),
        Edit("update_ticket", Op, ask, "text", None), Edit("update_ticket", Op, <<"tickets", Op>>, "state", "open"),
        [Job("add_ticket_message", Op, ask) EXCEPT !.val = "agent"],
        [Job("add_ticket_message", A, ask) EXCEPT !.val = "customer"],
        Job("delete_ticket", A, ask), Edit("update_plan", Op, Pro, "flag", "off"),
        [Job("assign_plan", Op, Free) EXCEPT !.val = A], Job("delete_plan", Op, Pro)})

\* A's number is rented for it unless A has a key of its own.
NumberTable(account, own, asked) ==
  LET signedBy(key) == [Row(Op, None) EXCEPT !.text = "key", !.state = key]
      seeded == Both(<<"phone_numbers", A>> :> Row(A, "555"),
                  Both(<<"phone_numbers", B>> :> [Row(B, "777") EXCEPT !.flag = "off"],
                    [i \in {"provider_keys"} \X own |-> Row(i[2], None)]))
  IN Table(IF account = "absent" THEN seeded ELSE Both(seeded, <<"telnyx_config", Op>> :> signedBy(account)),
           {}, IF A \in own THEN {} ELSE {"555"}, asked)

NumberDesk(account, own) ==
  LET row == <<"telnyx_config", Op>>
  IN NumberTable(account, own, Pairs(
       {DeleteA, Job("list_numbers", A, None), Make("purchase_number", B, "555", None),
        Make("purchase_number", A, "777", None), Make("purchase_number", B, "777", None),
        Make("purchase_number", A, "999", None), Job("delete_number", A, <<"phone_numbers", A>>),
        Job("delete_number", B, <<"phone_numbers", A>>),
        Job("list_keys", B, None), Make("upsert_key", A, None, None), Make("upsert_key", B, None, None),
        Job("delete_key", A, <<"provider_keys", A>>), Job("delete_key", B, <<"provider_keys", B>>),
        Job("get_account", Op, None), Edit("put_account", Op, row, "text", None),
        Edit("put_account", Op, row, "text", "key"), Edit("put_account", Op, row, "state", "signing")}))

\* A released number that is bought again while another release of it runs.
NumberTrio ==
  NumberTable("signing", {}, Trios(
    {Make("purchase_number", A, "555", None), Make("purchase_number", B, "555", None),
     Job("delete_number", A, <<"phone_numbers", A>>)}))

TeamDesk ==
  LET people == [i \in {"users"} \X {A, B} |-> Row(i[2], IF i[2] = A THEN "ann" ELSE "ben")]
  IN Desk(people, {},
       {Job("list_members", A, None), Make("invite_teammate", A, "cat", None), Make("invite_teammate", A, "dan", None),
        Make("invite_teammate", B, "cat", None), Make("invite_teammate", A, "ben", None),
        [Job("remove_member", A, <<"users", A>>) EXCEPT !.ref = <<"users", A>>],
        Job("remove_member", A, <<"users", A>>), Job("remove_member", A, <<"users", q1>>),
        Job("remove_member", A, <<"users", q2>>)})

\* Three creates under one limit, and three edits of one row.
LeadTrio ==
  Table(Plain({"leads"}, A), {}, {}, Trios(
    {Make("create_lead", A, None, None), Edit("update_lead", A, <<"leads", A>>, "text", None),
     Edit("update_lead", A, <<"leads", A>>, "state", "mid"), Job("delete_lead", A, <<"leads", A>>)}))

\* Two resolutions of one request, and the operator's own choice of a plan.
TicketTrio ==
  LET ask == <<"tickets", A>>
      file == Make("create_ticket", A, "pro", [source |-> "billing", subject |-> "upgrade", contact |-> None])
  IN Table(ask :> [Row(A, "pro") EXCEPT !.state = "open", !.flag = Unapplied("plan_request")], {}, {}, Trios(
       {Edit("update_ticket", Op, ask, "state", "resolved"), file,
        [Job("assign_plan", Op, Free) EXCEPT !.val = A], Edit("update_ticket", A, ask, "state", "closed")}))

\* A company that its workspace edits or deletes, and that the hub deletes and
\* pushes for another workspace meanwhile.
CompanyTrio ==
  LET here == <<"portfolio_companies", A>>
  IN Table(here :> Row(A, None), {}, {}, Trios(
       {Edit("update_company", A, here, "flag", "off"), Edit("update_smtp", A, here, "state", "server"),
        Job("sync_delete", Op, here), Job("delete_company", A, here), [Job("sync_create", Op, here) EXCEPT !.val = B, !.ref = B]}))

\* A workspace that is deleted, and made anew, while it adds to what its plan
\* allows and the floor does not.
AnewTrio ==
  [Table(<<>>, {}, {}, Trios(
     {Job("delete_tenant", Op, Home(B)), Job("sync_company", B, Home(B)), Make("create_call", B, None, None)}))
   EXCEPT !.caps[Free].grant.calls = 0]

\* The same while it buys a number with a key of its own.
AnewNumberTrio ==
  NumberTable("signing", {A}, Trios(
    {DeleteA, Job("sync_company", A, Home(A)), Make("purchase_number", A, "999", None)}))

MCWorkloads ==
  {CallDesk, ContactDesk, DealDesk, RuleDesk, CompanyDesk, FileDesk, LeadDesk, TagDesk, PlanDesk, AccountDesk,
   SettingDesk, BrandDesk, TicketDesk, TeamDesk, NumberTrio, LeadTrio, TicketTrio,
   CompanyTrio, AnewTrio, AnewNumberTrio}
  \cup {NumberDesk(account, own) : account \in {"absent", None, "signing"}, own \in {{}, {A}, {B}}}
=============================================================================
