--------------------------- MODULE ConsoleEffects ---------------------------
(***************************************************************************)
(* What one step of the console can do to a row it does not own the id of: *)
(* nothing, but cut its link or take it along with what it refers to       *)
(* (Footprint). One lemma over every handler says so; the properties about *)
(* what requests leave behind are then proved from it and from the few     *)
(* handlers that do reach the rows in question.                            *)
(***************************************************************************)
EXTENDS ConsoleProofs, FiniteSetTheorems

-----------------------------------------------------------------------------
(* The footprint of a step.                                                 *)

\* The tables a handler inserts rows of its own into.
MakesIn(kind, t) ==
  \/ t = "calls" /\ kind \in {"create_call", "record_call"}
  \/ t = "contacts" /\ kind = "create_contact"
  \/ t = "contact_custom_fields" /\ kind = "create_custom_field"
  \/ t = "clients" /\ kind = "create_client"
  \/ t = "deals" /\ kind = "create_deal"
  \/ t = "calendar_events" /\ kind = "create_event"
  \/ t = "follow_ups" /\ kind \in {"create_follow_up", "respond_to_call", "record_call"}
  \/ t = "response_rules" /\ kind = "create_rule"
  \/ t = "message_templates" /\ kind = "create_template"
  \/ t = "integrations" /\ kind = "create_integration"
  \/ t = "integration_targets" /\ kind = "create_target"
  \/ t = "portfolio_companies" /\ kind \in {"create_company", "sync_company"}
  \/ t = "triggers" /\ kind = "create_email_trigger"
  \/ t = "redirects" /\ kind = "create_redirect"
  \/ t = "export_templates" /\ kind = "create_export"
  \/ t = "import_logs" /\ kind = "create_import"
  \/ t = "email_templates" /\ kind = "create_email_template"
  \/ t = "payment_providers" /\ kind = "upsert_payment_provider"
  \/ t = "leads" /\ kind = "create_lead"
  \/ t = "lists" /\ kind \in {"create_list", "create_lead", "create_campaign"}
  \/ t = "tags" /\ kind = "create_tag"
  \/ t = "tag_groups" /\ kind = "create_tag_group"
  \/ t = "campaigns" /\ kind = "create_campaign"
  \/ t = "plans" /\ kind = "create_plan"
  \/ t = "tickets" /\ kind \in {"create_public_ticket", "create_ticket"} \cup Doors
  \/ t = "ticket_messages" /\ kind \in {"create_public_ticket", "create_ticket", "add_ticket_message"} \cup Doors
  \/ t = "phone_numbers" /\ kind = "purchase_number"
  \/ t = "telnyx_config" /\ kind = "put_account"
  \/ t = "users" /\ kind \in {"invite_teammate", "provision_account", "portfolio_sync"}
  \/ t = "tenants" /\ kind \in {"provision_account", "portfolio_sync"}

\* The handlers that delete the row they were asked to.
Deleters ==
  {"delete_call", "delete_contact", "delete_custom_field", "delete_client", "delete_deal", "delete_event",
   "delete_follow_up", "delete_rule", "delete_template", "delete_integration", "delete_target", "delete_company",
   "delete_email_trigger", "delete_redirect", "delete_export", "delete_import", "delete_lead", "delete_list",
   "delete_tag", "delete_tag_group", "delete_campaign", "delete_plan", "delete_ticket", "delete_key", "remove_member",
   "sync_delete", "delete_logo", "delete_email_template", "delete_payment_provider"}

\* The ids a request may write by name, those of its own upserts among them.
Upserted == Personal \cup {"portfolio_companies"}
Reaches(q, i) ==
  \/ i = Target(q) /\ (i \in DOMAIN rows \/ TableOf(i) \in Upserted)
  \/ MakerOf(i) = q /\ MakesIn(serving[q].kind, TableOf(i))
  \/ TableOf(i) = "tenants" /\ serving[q].kind \in {"sync_create", "sync_update"} /\ MakerOf(i) = serving[q].val
  \/ TableOf(i) = "tenant_logos" /\ serving[q].kind \in {"upload_logo", "delete_logo"}
  \/ TableOf(i) = "provider_keys" /\ Asks(q, "upsert_key") /\ MakerOf(i) = serving[q].ws
  \/ i \in serving[q].saw /\ serving[q].kind \in {"purchase_number", "put_account", "upsert_payment_provider"}
  \/ TableOf(i) = "payment_providers" /\ Asks(q, "delete_payment_provider")

Left(i) ==
  /\ i \in DOMAIN rows' <=> i \in DOMAIN rows
  /\ i \in DOMAIN rows => rows'[i] = rows[i]
\* ON DELETE SET NULL, and the tags of a group.
Unlinked(q, i) ==
  /\ i \in DOMAIN rows /\ i \in DOMAIN rows'
  /\ rows'[i] = [rows[i] EXCEPT !.link = None]
  /\ \/ rows[i].link \notin DOMAIN rows'
     \/ Asks(q, "delete_tag_group") /\ TableOf(i) = "tags"
\* Retires(q, ws) after the step.
Retiring(q, ws) ==
  /\ serving'[q].wrote
  /\ \/ Asks(q, "delete_tenant") /\ Target(q) = Home(ws)
     \/ Asks(q, "bulk_delete_tenants") /\ Home(ws) \in serving'[q].saw
\* ON DELETE CASCADE, and a workspace's deletion.
Falls(q, i) ==
  /\ i \in DOMAIN rows /\ i \notin DOMAIN rows'
  /\ \/ TableOf(i) \in Cascading /\ rows[i].link \notin DOMAIN rows'
     \/ Retiring(q, rows[i].ws)
Names(q, i) == Reaches(q, i) /\ (i \in DOMAIN rows' \/ serving[q].kind \in Deleters)

Touches(q, i) == serving'[q].wrote /\ (Names(q, i) \/ Unlinked(q, i) \/ Falls(q, i))
Lasting(q) == serving[q].wrote => serving'[q].wrote
\* Beside the rows: the bills, the limits and the seats.
Replans(q) == serving[q].kind \in ChangesPlans /\ serving'[q].wrote
SeatKept(ws) == ws \in DOMAIN seat => ws \in DOMAIN seat' /\ seat'[ws] = seat[ws]
BesideKept(q) ==
  /\ serving[q].kind \notin {"purchase_number", "delete_number"} => rented' = rented
  /\ caps' = caps \/ Replans(q)
  /\ seat' = seat \/ Replans(q) \/ \A ws \in Workspaces : SeatKept(ws) \/ Retiring(q, ws)

Footprint(q) ==
  /\ Lasting(q) /\ BesideKept(q)
  /\ \A i \in DOMAIN rows \cup DOMAIN rows' : Left(i) \/ Touches(q, i)

\* What the handlers that write what they found earlier hold by then, and that
\* the ones whose first statement resets wrote have written nothing before it.
Erasers == {"delete_tag_group", "delete_logo", "delete_email_template", "delete_payment_provider"}
Found(q) ==
  /\ Asks(q, "put_account") => \A i \in serving[q].saw : TableOf(i) = "telnyx_config"
  /\ Asks(q, "upsert_payment_provider") => \A i \in serving[q].saw : TableOf(i) = "payment_providers"
  /\ Asks(q, "bulk_delete_tenants") /\ At(q, "delete") => serving[q].read \in serving[q].saw
  /\ serving[q].kind \in Erasers /\ At(q, "start") => ~serving[q].wrote

-----------------------------------------------------------------------------
(* The statements.                                                          *)

LEMMA FootQuiet ==
  ASSUME NEW q \in Requests, Lasting(q), rows' = rows, BesideKept(q)
  PROVE  Footprint(q)
BY DEF Footprint, Left

LEMMA MovesLast ==
  ASSUME IInv, NEW q \in Requests, NEW next,
         \/ Goes(q, next) \/ Answers(q, next) \/ Wrote(q, next)
         \/ \E answer \in {"ok", "refused", "failed"} : Ends(q, answer)
  PROVE  Lasting(q)
<1> RequestOK(q) /\ DOMAIN serving = Requests
  BY DEF IInv
<1> QED
  BY DEF Goes, Answers, Wrote, Ends, Lasting, RequestOK, Fields

LEMMA WroteSets ==
  ASSUME IInv, NEW q \in Requests, NEW next, Wrote(q, next)
  PROVE  serving'[q].wrote
<1> RequestOK(q) /\ DOMAIN serving = Requests
  BY DEF IInv
<1> QED
  BY DEF Wrote, RequestOK, Fields

LEMMA FootChecks ==
  ASSUME IInv, NEW q \in Requests, NEW here, NEW next, NEW found, NEW i,
         \/ Finish(q, here) \/ Refuse(q, here) \/ Show(q, here, found) \/ Look(q, here, found, next)
         \/ Lookup(q, here, next) \/ Missing(q, here) \/ Fetch(q, here, next) \/ GetRow(q)
         \/ FetchTicket(q, here, next) \/ ReadStored(q, here, next)
         \/ Encrypt(q, here, next) \/ Reread(q, here, i, next)
  PROVE  Footprint(q)
<1> RequestOK(q) /\ DOMAIN serving = Requests
  BY DEF IInv
<1>1. Lasting(q)
  <2>1. CASE Finish(q, here) \/ Refuse(q, here) \/ Missing(q, here) \/ Encrypt(q, here, next) \/ Reread(q, here, i, next)
    BY <2>1, MovesLast DEF Finish, Refuse, Missing, Encrypt, Reread
  <2>2. ASSUME NEW h, NEW f, NEW n, Show(q, h, f) \/ Look(q, h, f, n) \/ Lookup(q, h, n) \/ ReadStored(q, h, n)
                                    \/ Missing(q, h)
        PROVE  Lasting(q)
    BY <2>2, MovesLast DEF Show, Look, Lookup, ReadStored, Missing, Lasting, RequestOK, Fields
  <2>3. CASE Fetch(q, here, next) \/ GetRow(q)
    BY <2>3, <2>2 DEF Fetch, GetRow
  <2>4. CASE FetchTicket(q, here, next)
    BY <2>4, MovesLast DEF FetchTicket, Lasting, RequestOK, Fields
  <2> QED
    BY <2>1, <2>2, <2>3, <2>4
<1>2. rows' = rows /\ UNCHANGED <<seat, caps, rented>>
  BY DEF Finish, Refuse, Show, Look, Lookup, Missing, Fetch, GetRow, FetchTicket, ReadStored, Encrypt, Reread, tables
<1> QED
  BY <1>1, <1>2, FootQuiet DEF BesideKept

LEMMA FootGate ==
  ASSUME IInv, NEW q \in Requests, NEW here, NEW feature, NEW next,
         Gate(q, here, feature, next) \/ CheckFlag(q, here, feature, next)
  PROVE  Footprint(q)
<1> RequestOK(q) /\ DOMAIN serving = Requests
  BY DEF IInv
<1>1. rows' = rows /\ UNCHANGED <<seat, caps, rented>>
  BY DEF Gate, ReadPlan, ReadLimit, CountUsage, CheckFlag, tables
<1>2. CASE ReadPlan(q, here, "limit") \/ ReadPlan(q, here, "flag")
  BY <1>1, <1>2, FootQuiet DEF ReadPlan, Lasting, BesideKept, RequestOK, Fields
<1>3. CASE ReadLimit(q, feature, next)
  BY <1>1, <1>3, FootQuiet DEF ReadLimit, Ends, Goes, Lasting, BesideKept, RequestOK, Fields
<1>4. CASE CountUsage(q, feature, next)
  BY <1>1, <1>4, FootQuiet DEF CountUsage, Ends, Lasting, BesideKept, RequestOK, Fields
<1>5. ASSUME Goes(q, next) \/ Ends(q, "refused") PROVE Footprint(q)
  BY <1>1, <1>5, MovesLast, FootQuiet DEF BesideKept
<1> QED
  BY <1>2, <1>3, <1>4, <1>5 DEF Gate, CheckFlag

LEMMA FootWith ==
  ASSUME NEW q \in Requests, NEW i, NEW row, rows' = With(rows, i, row), serving'[q].wrote, BesideKept(q), Reaches(q, i)
  PROVE  Footprint(q)
<1>1. DOMAIN rows' = DOMAIN rows \cup {i} /\ \A j \in DOMAIN rows' : rows'[j] = IF j = i THEN row ELSE rows[j]
  BY DEF With
<1>2. Touches(q, i)
  BY <1>1 DEF Touches, Names
<1> QED
  BY <1>1, <1>2 DEF Footprint, Lasting, Left

LEMMA FootPut ==
  ASSUME IInv, NEW q \in Requests, NEW here, NEW i, NEW row, NEW next, Put(q, here, i, row, next), Reaches(q, i)
  PROVE  Footprint(q)
<1>1. BesideKept(q)
  BY DEF Put, BesideKept
<1>2. CASE rows' = With(rows, i, row) /\ Wrote(q, next)
  BY <1>1, <1>2, WroteSets, FootWith
<1>3. CASE rows' = rows /\ Ends(q, "failed")
  BY <1>1, <1>3, MovesLast, FootQuiet
<1> QED
  BY <1>2, <1>3 DEF Put

LEMMA FootChange ==
  ASSUME IInv, NEW q \in Requests, NEW here, NEW i, NEW row, NEW next, ChangeRow(q, here, i, row, next),
         i \in DOMAIN rows => Reaches(q, i)
  PROVE  Footprint(q)
<1>1. CASE i \in DOMAIN rows /\ Put(q, here, i, row, next)
  BY <1>1, FootPut
<1>2. CASE Goes(q, next) /\ UNCHANGED tables
  BY <1>2, MovesLast, FootQuiet DEF tables, BesideKept
<1> QED
  BY <1>1, <1>2 DEF ChangeRow

LEMMA FootEdit ==
  ASSUME IInv, NEW q \in Requests, NEW here, NEW row, NEW next,
         Change(q, here, row, next) \/ MergingEdit(q) \/ NamedEdit(q)
  PROVE  Footprint(q)
<1>1. ASSUME NEW h, NEW r, NEW n, Change(q, h, r, n) PROVE Footprint(q)
  BY <1>1, FootChange DEF Change, Reaches
<1> QED
  BY <1>1, FootChecks DEF MergingEdit, NamedEdit

LEMMA FootInsert ==
  ASSUME IInv, NEW q \in Requests, NEW here, NEW t, MakesIn(serving[q].kind, t), NEW state, NEW flag, NEW next, NEW row,
         \/ Put(q, here, <<t, q>>, row, next) \/ Insert(q, here, t, state, flag, next)
         \/ Creation(q, here, t, state, flag) \/ GatedCreation(q, t, state, flag)
  PROVE  Footprint(q)
<1>1. Reaches(q, <<t, q>>)
  BY RowIdMade DEF Reaches
<1>2. ASSUME NEW h, NEW r, NEW n, Put(q, h, <<t, q>>, r, n) PROVE Footprint(q)
  BY <1>1, <1>2, FootPut
<1>3. ASSUME NEW h, NEW n, Insert(q, h, t, state, flag, n) PROVE Footprint(q)
  BY <1>2, <1>3 DEF Insert
<1> QED
  BY <1>2, <1>3, FootChecks, FootGate DEF Creation, GatedCreation

\* A deletion: what is gone is named or falls with what it refers to.
LEMMA FootCut ==
  ASSUME NEW q \in Requests, NEW gone, gone \subseteq DOMAIN rows, rows' = Without(gone), serving'[q].wrote, BesideKept(q),
         \A i \in gone : \/ Reaches(q, i) /\ serving[q].kind \in Deleters
                         \/ TableOf(i) \in Cascading /\ rows[i].link \in gone
                         \/ Retiring(q, rows[i].ws)
  PROVE  Footprint(q)
<1>1. DOMAIN rows' = DOMAIN rows \ gone
  BY DEF Without
<1>2. ASSUME NEW i \in gone PROVE Touches(q, i)
  BY <1>1, <1>2 DEF Touches, Names, Falls
<1>3. ASSUME NEW i \in DOMAIN rows \ gone PROVE Left(i) \/ Touches(q, i)
  <2>1. CASE rows'[i] = rows[i]
    BY <1>1, <2>1 DEF Left
  <2>2. CASE rows[i].link \in gone /\ rows'[i] = [rows[i] EXCEPT !.link = None]
    BY <1>1, <2>2 DEF Touches, Unlinked
  <2> QED
    BY <2>1, <2>2 DEF Without
<1> QED
  BY <1>1, <1>2, <1>3 DEF Footprint, Lasting

LEMMA FootFallen ==
  ASSUME NEW q \in Requests, Target(q) \in DOMAIN rows, rows' = Without(Fallen(Target(q))), serving'[q].wrote,
         BesideKept(q), serving[q].kind \in Deleters
  PROVE  Footprint(q)
<1>1. Fallen(Target(q)) \subseteq DOMAIN rows /\ Target(q) \in Fallen(Target(q))
  BY DEF Fallen
<1>2. ASSUME NEW i \in Fallen(Target(q)) PROVE Reaches(q, i) \/ (TableOf(i) \in Cascading /\ rows[i].link = Target(q))
  BY <1>2 DEF Fallen, Reaches
<1> QED
  BY <1>1, <1>2, FootCut

LEMMA FootDelete ==
  ASSUME IInv, NEW q \in Requests, NEW here, Remove(q, here) \/ Delete(q, here), serving[q].kind \in Deleters
  PROVE  Footprint(q)
<1>1. ASSUME Remove(q, here) PROVE Footprint(q)
  <2> RequestOK(q) /\ DOMAIN serving = Requests
    BY DEF IInv
  <2>1. serving'[q].wrote /\ BesideKept(q) /\ Target(q) \in DOMAIN rows
    BY <1>1 DEF Remove, Mine, BesideKept, RequestOK, Fields
  <2> QED
    BY <1>1, <2>1, FootFallen DEF Remove
<1> QED
  BY <1>1, FootChecks DEF Delete

LEMMA FootErase ==
  ASSUME IInv, NEW q \in Requests, NEW here, NEW gone, NEW next, Erase(q, here, gone, next), gone \subseteq DOMAIN rows,
         \A i \in gone : Reaches(q, i), serving[q].kind \in Deleters, ~serving[q].wrote
  PROVE  Footprint(q)
<1> RequestOK(q) /\ DOMAIN serving = Requests
  BY DEF IInv
<1>1. serving'[q].wrote = (gone # {}) /\ BesideKept(q) /\ rows' = Without(gone)
  BY DEF Erase, BesideKept, RequestOK, Fields
<1>2. CASE gone = {}
  <2>1. DOMAIN rows' = DOMAIN rows /\ \A j \in DOMAIN rows : rows'[j] = rows[j]
    BY <1>1, <1>2 DEF Without
  <2> QED
    BY <1>1, <2>1 DEF Footprint, Lasting, Left
<1>3. CASE gone # {}
  BY <1>1, <1>3, FootCut
<1> QED
  BY <1>2, <1>3

-----------------------------------------------------------------------------
(* The handlers.                                                            *)

\* A link between two rows, a limit or a seat leaves every row alone.
LEMMA FootBeside ==
  ASSUME IInv, NEW q \in Requests, NEW here, NEW pair, NEW next, NEW p, NEW feature, NEW n, NEW ws,
         \/ Link(q, here, pair, next)
         \/ /\ serving[q].kind \in ChangesPlans
            /\ WriteLimit(q, here, p, feature, n, next) \/ SeatPlan(q, here, ws, p, next)
  PROVE  Footprint(q)
<1>1. rows' = rows /\ rented' = rented
  BY DEF Link, WriteLimit, SeatPlan
<1>2. Lasting(q)
  BY MovesLast DEF Link, WriteLimit, SeatPlan
<1>3. \/ UNCHANGED <<seat, caps>>
      \/ Wrote(q, next) /\ serving[q].kind \in ChangesPlans
  BY DEF Link, WriteLimit, SeatPlan
<1>4. Wrote(q, next) => serving'[q].wrote
  BY WroteSets
<1>5. BesideKept(q)
  BY <1>1, <1>3, <1>4 DEF BesideKept, Replans
<1> QED
  BY <1>1, <1>2, <1>5, FootQuiet

LEMMA RecordFoot ==
  ASSUME IInv, NEW q \in Requests, ServeRecord(q)
  PROVE  Footprint(q)
<1> USE DEF Asks
<1>1. ASSUME \/ ListCalls(q) \/ ListContacts(q) \/ ExportContacts(q) \/ SearchContacts(q) \/ ListCustomFields(q)
             \/ ListClients(q) \/ ListDeals(q) \/ ListEvents(q) \/ ListFollowUps(q) \/ ListContactsWithFields(q)
             \/ GetCall(q) \/ GetContact(q) \/ GetClient(q) \/ GetDeal(q) \/ GetEvent(q) \/ GetContactWithFields(q)
      PROVE  Footprint(q)
  BY <1>1, FootChecks DEF ListCalls, ListContacts, ExportContacts, SearchContacts, ListCustomFields, ListClients,
       ListDeals, ListEvents, ListFollowUps, ListContactsWithFields, GetCall, GetContact, GetClient, GetDeal, GetEvent,
       GetContactWithFields
<1>2. ASSUME CreateCall(q) \/ CreateDeal(q) \/ CreateFollowUp(q) PROVE Footprint(q)
  BY <1>2, FootInsert, FootChecks DEF CreateCall, CreateDeal, CreateFollowUp, MakesIn
<1>3. ASSUME CreateContact(q) \/ CreateCustomField(q) \/ CreateClient(q) \/ CreateEvent(q) PROVE Footprint(q)
  BY <1>3, FootInsert, FootGate, FootChecks
  DEF CreateContact, CheckEmail, CreateCustomField, CreateClient, CreateEvent, MakesIn
<1>4. ASSUME \/ UpdateCall(q) \/ UpdateContact(q) \/ UpdateCustomField(q) \/ UpdateClient(q) \/ UpdateDeal(q)
             \/ UpdateEvent(q) \/ UpdateFollowUp(q) \/ MoveStage(q)
      PROVE  Footprint(q)
  BY <1>4, FootEdit, FootChecks DEF UpdateCall, UpdateContact, UpdateCustomField, UpdateClient, UpdateDeal,
       UpdateEvent, UpdateFollowUp, MoveStage
<1>5. ASSUME \/ DeleteCall(q) \/ DeleteContact(q) \/ DeleteCustomField(q) \/ DeleteClient(q) \/ DeleteDeal(q)
             \/ DeleteEvent(q) \/ DeleteFollowUp(q)
      PROVE  Footprint(q)
  BY <1>5, FootDelete DEF DeleteCall, DeleteContact, DeleteCustomField, DeleteClient, DeleteDeal, DeleteEvent,
       DeleteFollowUp, Deleters
<1>6. ASSUME RespondToCall(q) \/ RecordCall(q) PROVE Footprint(q)
  BY <1>6, FootInsert, FootChecks DEF RespondToCall, RecordCall, MakesIn
<1>7. ASSUME UpdateContactFieldValue(q) PROVE Footprint(q)
  <2>1. ASSUME Ends(q, "ok") \/ Ends(q, "failed"), UNCHANGED tables PROVE Footprint(q)
    BY <2>1, MovesLast, FootQuiet DEF BesideKept, tables
  <2> QED
    BY <1>7, <2>1, FootChecks, FootBeside DEF UpdateContactFieldValue
<1> QED
  BY <1>1, <1>2, <1>3, <1>4, <1>5, <1>6, <1>7 DEF ServeRecord

LEMMA AutomationFoot ==
  ASSUME IInv, NEW q \in Requests, ServeAutomation(q)
  PROVE  Footprint(q)
<1> USE DEF Asks
<1>1. ASSUME \/ ListRules(q) \/ ListTemplates(q) \/ ListIntegrations(q) \/ TestIntegration(q) \/ ListTargets(q)
             \/ ListCompanies(q) \/ GetCompany(q) \/ GetSmtp(q) \/ ListEmailTriggers(q) \/ GetEmailTrigger(q)
             \/ ListRedirects(q) \/ GetRedirect(q) \/ ListExports(q) \/ GetExport(q) \/ ListImports(q) \/ GetImport(q)
      PROVE  Footprint(q)
  BY <1>1, FootChecks DEF ListRules, ListTemplates, ListIntegrations, TestIntegration, ListTargets, ListCompanies,
       GetCompany, GetSmtp, ListEmailTriggers, GetEmailTrigger, ListRedirects, GetRedirect, ListExports, GetExport,
       ListImports, GetImport
<1>2. ASSUME CreateRule(q) \/ CreateTemplate(q) \/ CreateIntegration(q) PROVE Footprint(q)
  BY <1>2, FootInsert, FootChecks DEF CreateRule, CreateTemplate, CreateIntegration, MakesIn
<1>3. ASSUME \/ CreateEmailTrigger(q) \/ CreateRedirect(q) \/ CreateExport(q) \/ CreateImport(q) PROVE Footprint(q)
  BY <1>3, FootInsert, FootChecks DEF CreateEmailTrigger, CreateRedirect, CreateExport, CreateImport, MakesIn
<1>4. ASSUME CreateTarget(q) \/ CreateCompany(q) PROVE Footprint(q)
  BY <1>4, FootInsert, FootGate, FootChecks DEF CreateTarget, CreateCompany, MakesIn
<1>5. ASSUME \/ UpdateRule(q) \/ UpdateTemplate(q) \/ UpdateIntegration(q) \/ UpdateTarget(q) \/ UpdateCompany(q)
             \/ UpdateSmtp(q) \/ UpdateEmailTrigger(q) \/ UpdateRedirect(q) \/ UpdateExport(q) \/ UpdateImport(q)
      PROVE  Footprint(q)
  BY <1>5, FootEdit, FootChecks DEF UpdateRule, UpdateTemplate, UpdateIntegration, UpdateTarget, UpdateCompany,
       UpdateSmtp, UpdateEmailTrigger, UpdateRedirect, UpdateExport, UpdateImport
<1>6. ASSUME \/ DeleteRule(q) \/ DeleteTemplate(q) \/ DeleteIntegration(q) \/ DeleteTarget(q) \/ DeleteCompany(q)
             \/ DeleteEmailTrigger(q) \/ DeleteRedirect(q) \/ DeleteExport(q) \/ DeleteImport(q)
      PROVE  Footprint(q)
  BY <1>6, FootDelete, FootChecks DEF DeleteRule, DeleteTemplate, DeleteIntegration, DeleteTarget, DeleteCompany,
       DeleteEmailTrigger, DeleteRedirect, DeleteExport, DeleteImport, Deleters
<1>7. ASSUME SyncCompany(q) PROVE Footprint(q)
  <2>1. ASSUME ClaimWorkspace(q) PROVE Footprint(q)
    <3>0. TableOf(Target(q)) \in Upserted
      BY <1>7 DEF SyncCompany, IInv, RequestOK, JobFits, Home, TableOf, Target, Upserted, Personal
    <3>1. BesideKept(q) /\ Reaches(q, Target(q))
      BY <2>1, <3>0 DEF ClaimWorkspace, BesideKept, Reaches
    <3>2. CASE rows' = With(rows, Target(q), Claimed(q)) /\ Wrote(q, "insert")
      BY <3>1, <3>2, WroteSets, FootWith
    <3>3. CASE rows' = rows /\ Goes(q, "insert")
      BY <3>1, <3>3, MovesLast, FootQuiet
    <3> QED
      BY <2>1, <3>2, <3>3 DEF ClaimWorkspace
  <2> QED
    BY <1>7, <2>1, FootInsert, FootChecks DEF SyncCompany, MakesIn
<1> QED
  BY <1>1, <1>2, <1>3, <1>4, <1>5, <1>6, <1>7 DEF ServeAutomation

LEMMA FootDocument ==
  ASSUME IInv, NEW q \in Requests, NEW here, NEW next, NEW value,
         ReadDoc(q, here, next) \/ (serving[q].kind \in OnDocuments /\ SaveStored(q, here, value, next))
  PROVE  Footprint(q)
<1> RequestOK(q) /\ DOMAIN serving = Requests
  BY DEF IInv
<1>1. ASSUME serving' = [serving EXCEPT ![q].at = next, ![q].read.link = IF @ \in DOMAIN rows THEN @ ELSE None],
             UNCHANGED tables
      PROVE  Footprint(q)
  <2>1. serving'[q].wrote = serving[q].wrote
    BY <1>1 DEF RequestOK, Fields
  <2> QED
    BY <1>1, <2>1, FootQuiet DEF Lasting, BesideKept, tables
<1>2. CASE ReadDoc(q, here, next)
  BY <1>1, <1>2, FootChecks DEF ReadDoc
<1>3. CASE serving[q].kind \in OnDocuments /\ SaveStored(q, here, value, next)
  <2>1. Reaches(q, Target(q))
    BY <1>3, DocumentTarget DEF Reaches, Upserted
  <2> QED
    BY <1>3, <2>1, FootPut DEF SaveStored
<1> QED
  BY <1>2, <1>3

LEMMA FootTemplate ==
  ASSUME IInv, NEW q \in Requests, NEW i, NEW row, SaveTemplate(q, i, row), Reaches(q, i)
  PROVE  Footprint(q)
<1>1. BesideKept(q)
  BY DEF SaveTemplate, BesideKept
<1>2. CASE rows' = With(rows, i, row) /\ Wrote(q, "reread")
  BY <1>1, <1>2, WroteSets, FootWith
<1>3. CASE rows' = rows /\ Ends(q, "refused")
  BY <1>1, <1>3, MovesLast, FootQuiet
<1> QED
  BY <1>2, <1>3 DEF SaveTemplate

LEMMA SettingFoot ==
  ASSUME IInv, NEW q \in Requests, Found(q), ServeSetting(q)
  PROVE  Footprint(q)
<1> USE DEF Asks
<1>1. ASSUME \/ GetEmailConfig(q) \/ GetSite(q) \/ GetBranding(q) \/ GetLogo(q) \/ ListEmailTemplates(q) \/ ListKeys(q)
             \/ ListPaymentProviders(q)
      PROVE  Footprint(q)
  BY <1>1, FootChecks, FootDocument DEF GetEmailConfig, GetSite, GetBranding, GetLogo, ListEmailTemplates, ListKeys,
       ListPaymentProviders
<1>2. ASSUME UpdateEmailConfig(q) \/ UpdateSite(q) \/ PutBranding(q) PROVE Footprint(q)
  <2>1. serving[q].kind \in OnDocuments
    BY <1>2 DEF UpdateEmailConfig, UpdateSite, PutBranding, OnDocuments
  <2> QED
    BY <1>2, <2>1, FootChecks, FootDocument DEF UpdateEmailConfig, UpdateSite, PutBranding
<1>3. ASSUME UploadLogo(q) PROVE Footprint(q)
  <2>1. Reaches(q, LogoOf(serving[q].ws)) /\ serving[q].kind \in OnDocuments
    BY <1>3 DEF UploadLogo, LogoOf, Reaches, TableOf, OnDocuments
  <2> QED
    BY <1>3, <2>1, FootPut, FootChecks, FootDocument DEF UploadLogo
<1>4. ASSUME DeleteLogo(q) PROVE Footprint(q)
  <2>1. Reaches(q, LogoOf(serving[q].ws)) /\ serving[q].kind \in Deleters \cap OnDocuments
    BY <1>4 DEF DeleteLogo, LogoOf, Reaches, TableOf, Deleters, OnDocuments
  <2>2. ASSUME Erase(q, "start", {LogoOf(serving[q].ws)} \cap DOMAIN rows, "doc") PROVE Footprint(q)
    <3>1. ~serving[q].wrote
      BY <1>4, <2>2 DEF Found, Erasers, Erase, DeleteLogo
    <3> QED
      BY <2>1, <2>2, <3>1, FootErase
  <2> QED
    BY <1>4, <2>1, <2>2, FootChecks, FootDocument DEF DeleteLogo
<1>5. ASSUME CreateEmailTemplate(q) \/ UpdateEmailTemplate(q) PROVE Footprint(q)
  <2>1. CreateEmailTemplate(q) => Reaches(q, <<"email_templates", q>>)
    BY RowIdMade DEF CreateEmailTemplate, Reaches, MakesIn
  <2>2. Target(q) \in DOMAIN rows => Reaches(q, Target(q))
    BY DEF Reaches
  <2>3. ASSUME Goes(q, "reread"), UNCHANGED tables PROVE Footprint(q)
    BY <2>3, MovesLast, FootQuiet DEF BesideKept, tables
  <2> QED
    BY <1>5, <2>1, <2>2, <2>3, FootTemplate, FootChecks DEF CreateEmailTemplate, UpdateEmailTemplate
<1>6. ASSUME DeleteEmailTemplate(q) PROVE Footprint(q)
  <2>1. (\A i \in {Target(q)} \cap DOMAIN rows : Reaches(q, i)) /\ serving[q].kind \in Deleters
    BY <1>6 DEF DeleteEmailTemplate, Reaches, Deleters
  <2>2. ASSUME Erase(q, "start", {Target(q)} \cap DOMAIN rows, "answer") PROVE Footprint(q)
    <3>1. ~serving[q].wrote
      BY <1>6, <2>2 DEF Found, Erasers, Erase, DeleteEmailTemplate
    <3> QED
      BY <2>1, <2>2, <3>1, FootErase
  <2> QED
    BY <1>6, <2>2, FootChecks DEF DeleteEmailTemplate
<1>7. ASSUME UpsertKey(q) PROVE Footprint(q)
  <2>1. Reaches(q, KeyOf(serving[q].ws))
    BY <1>7 DEF UpsertKey, KeyOf, Reaches, TableOf, MakerOf
  <2>2. ASSUME Goes(q, "encrypt"), UNCHANGED tables PROVE Footprint(q)
    BY <2>2, MovesLast, FootQuiet DEF BesideKept, tables
  <2> QED
    BY <1>7, <2>1, <2>2, FootPut, FootChecks DEF UpsertKey
<1>8. ASSUME DeleteKey(q) PROVE Footprint(q)
  BY <1>8, FootDelete DEF DeleteKey, Deleters
<1>9. ASSUME UpsertPaymentProvider(q) PROVE Footprint(q)
  <2>1. ASSUME NEW i \in serving[q].saw PROVE Reaches(q, i)
    BY <1>9, <2>1 DEF UpsertPaymentProvider, Reaches
  <2>2. ASSUME NEW i \in serving[q].saw, ChangeRow(q, "write", i, ReLabelled(q, i), "answer") PROVE Footprint(q)
    BY <2>1, <2>2, FootChange
  <2>3. ASSUME Put(q, "write", <<"payment_providers", q>>, NewProvider(q), "answer") PROVE Footprint(q)
    <3>1. MakesIn(serving[q].kind, "payment_providers")
      BY <1>9 DEF UpsertPaymentProvider, MakesIn
    <3> QED
      BY <2>3, <3>1, FootInsert
  <2> QED
    BY <1>9, <2>2, <2>3, FootChecks DEF UpsertPaymentProvider
<1>10. ASSUME DeletePaymentProvider(q) PROVE Footprint(q)
  <2>1. OfType(q) \subseteq DOMAIN rows /\ (\A i \in OfType(q) : Reaches(q, i)) /\ serving[q].kind \in Deleters
    BY <1>10 DEF DeletePaymentProvider, OfType, Rows, Reaches, Deleters
  <2>2. ASSUME Erase(q, "start", OfType(q), "answer") PROVE Footprint(q)
    <3>1. ~serving[q].wrote
      BY <1>10, <2>2 DEF Found, Erasers, Erase, DeletePaymentProvider
    <3> QED
      BY <2>1, <2>2, <3>1, FootErase
  <2> QED
    BY <1>10, <2>2, FootChecks DEF DeletePaymentProvider
<1> QED
  BY <1>1, <1>2, <1>3, <1>4, <1>5, <1>6, <1>7, <1>8, <1>9, <1>10 DEF ServeSetting

LEMMA FootList ==
  ASSUME IInv, NEW q \in Requests, NEW here, NEW campaign, NEW next, NEW giveUp, NEW pair,
         serving[q].kind \in {"create_lead", "create_campaign"},
         \/ EnsureList(q, here, campaign, next) \/ InsertList(q, campaign, next, giveUp) \/ JoinList(q, pair)
         \/ RouteLead(q)
  PROVE  Footprint(q)
<1> RequestOK(q) /\ DOMAIN serving = Requests
  BY DEF IInv
<1>1. BesideKept(q)
  BY DEF EnsureList, InsertList, JoinList, RouteLead, BesideKept, tables
<1>2. CASE EnsureList(q, here, campaign, next) \/ RouteLead(q)
  <2>1. rows' = rows /\ Lasting(q)
    BY <1>2 DEF EnsureList, RouteLead, tables, Lasting, Goes, Answers, RequestOK, Fields
  <2> QED
    BY <1>1, <2>1, FootQuiet
<1>3. CASE JoinList(q, pair)
  BY <1>1, <1>3, MovesLast, FootQuiet DEF JoinList
<1>4. CASE InsertList(q, campaign, next, giveUp)
  <2>1. Reaches(q, <<"lists", q>>)
    BY RowIdMade DEF Reaches, MakesIn
  <2>2. ASSUME rows' = With(rows, <<"lists", q>>, OwnList(q, campaign)),
               serving' = [serving EXCEPT ![q].at = next, ![q].saw = {<<"lists", q>>}, ![q].wrote = TRUE]
        PROVE  Footprint(q)
    <3>1. serving'[q].wrote
      BY <2>2 DEF RequestOK, Fields
    <3> QED
      BY <1>1, <2>1, <2>2, <3>1, FootWith
  <2>3. ASSUME rows' = rows, Goes(q, giveUp) PROVE Footprint(q)
    BY <1>1, <2>3, MovesLast, FootQuiet
  <2> QED
    BY <1>4, <2>2, <2>3 DEF InsertList
<1> QED
  BY <1>2, <1>3, <1>4

LEMMA CampaignFoot ==
  ASSUME IInv, NEW q \in Requests, Found(q), ServeCampaign(q)
  PROVE  Footprint(q)
<1> USE DEF Asks
<1>1. ASSUME \/ ListLeads(q) \/ GetLead(q) \/ ListLists(q) \/ ShowMembers(q) \/ ListTags(q) \/ GetTag(q)
             \/ ListTagGroups(q) \/ GetTagGroup(q) \/ ListCampaigns(q) \/ GetCampaign(q)
      PROVE  Footprint(q)
  BY <1>1, FootChecks DEF ListLeads, GetLead, ListLists, ShowMembers, ListTags, GetTag, ListTagGroups, GetTagGroup,
       ListCampaigns, GetCampaign
<1>2. ASSUME CreateLead(q) PROVE Footprint(q)
  <2>1. ASSUME \/ EnsureList(q, "list", serving[q].read, "join") \/ InsertList(q, serving[q].read, "join", "done")
               \/ RouteLead(q) \/ \E l \in serving[q].saw : JoinList(q, <<l, <<"leads", q>>>>)
        PROVE  Footprint(q)
    <3>1. serving[q].kind \in {"create_lead", "create_campaign"}
      BY <1>2 DEF CreateLead
    <3>2. CASE EnsureList(q, "list", serving[q].read, "join")
      BY <3>1, <3>2, FootList
    <3>3. CASE InsertList(q, serving[q].read, "join", "done")
      BY <3>1, <3>3, FootList
    <3>4. CASE RouteLead(q)
      BY <3>1, <3>4, FootList
    <3>5. ASSUME NEW l \in serving[q].saw, JoinList(q, <<l, <<"leads", q>>>>) PROVE Footprint(q)
      BY <3>1, <3>5, FootList
    <3> QED
      BY <2>1, <3>2, <3>3, <3>4, <3>5
  <2> QED
    BY <1>2, <2>1, FootInsert, FootGate, FootChecks DEF CreateLead, MakesIn
<1>3. ASSUME CreateCampaign(q) PROVE Footprint(q)
  <2>1. ASSUME \/ EnsureList(q, "list", <<"campaigns", q>>, "answer")
               \/ InsertList(q, <<"campaigns", q>>, "answer", "answer")
        PROVE  Footprint(q)
    BY <1>3, <2>1, FootList DEF CreateCampaign
  <2>2. ASSUME Goes(q, "list") \/ Ends(q, "failed"), UNCHANGED tables PROVE Footprint(q)
    BY <2>2, MovesLast, FootQuiet DEF BesideKept, tables
  <2> QED
    BY <1>3, <2>1, <2>2, FootInsert, FootGate, FootChecks DEF CreateCampaign, MakesIn
<1>4. ASSUME CreateList(q) \/ CreateTag(q) \/ CreateTagGroup(q) PROVE Footprint(q)
  BY <1>4, FootInsert, FootGate, FootChecks DEF CreateList, CreateTag, CreateTagGroup, MakesIn
<1>5. ASSUME UpdateLead(q) \/ UpdateList(q) \/ UpdateTag(q) \/ UpdateTagGroup(q) \/ UpdateCampaign(q) PROVE Footprint(q)
  BY <1>5, FootEdit, FootChecks DEF UpdateLead, UpdateList, UpdateTag, UpdateTagGroup, UpdateCampaign
<1>6. ASSUME DeleteLead(q) \/ DeleteList(q) \/ DeleteTag(q) \/ DeleteCampaign(q) PROVE Footprint(q)
  BY <1>6, FootDelete DEF DeleteLead, DeleteList, DeleteTag, DeleteCampaign, Deleters
<1>7. ASSUME AddLead(q) \/ RemoveLead(q) PROVE Footprint(q)
  <2>1. ASSUME rows' = rows, UNCHANGED <<seat, caps, rented>>,
               serving' = [serving EXCEPT ![q].at = "done", ![q].answer = "ok", ![q].wrote = TRUE]
        PROVE  Footprint(q)
    <3>1. RequestOK(q) /\ DOMAIN serving = Requests
      BY DEF IInv
    <3>2. Lasting(q)
      BY <2>1, <3>1 DEF Lasting, RequestOK, Fields
    <3> QED
      BY <2>1, <3>2, FootQuiet DEF BesideKept
  <2> QED
    BY <1>7, <2>1, FootChecks, FootBeside DEF AddLead, RemoveLead
<1>8. ASSUME Activate(q) \/ Pause(q) PROVE Footprint(q)
  <2>1. Mine(q) => Reaches(q, Target(q))
    BY DEF Reaches, Mine
  <2> QED
    BY <1>8, <2>1, FootPut, FootChecks DEF Activate, Pause, Turn
<1>9. ASSUME DeleteTagGroup(q) PROVE Footprint(q)
  <2>1. ASSUME At(q, "start"), rows' = Ungrouped(Target(q)), UNCHANGED <<seat, caps, rented>>,
               serving' = [serving EXCEPT ![q].at = "delete", ![q].wrote = Ungrouped(Target(q)) # rows]
        PROVE  Footprint(q)
    <3>1. RequestOK(q) /\ DOMAIN serving = Requests
      BY DEF IInv
    <3>2. serving'[q].wrote = (rows' # rows) /\ ~serving[q].wrote
      BY <1>9, <2>1, <3>1 DEF RequestOK, Fields, Found, Erasers, DeleteTagGroup
    <3>3. DOMAIN rows' = DOMAIN rows
      BY <2>1 DEF Ungrouped
    <3>4. CASE rows' = rows
      BY <2>1, <3>2, <3>4, FootQuiet DEF Lasting, BesideKept
    <3>5. CASE rows' # rows
      <4>1. ASSUME NEW i \in DOMAIN rows PROVE Left(i) \/ Touches(q, i)
        <5>1. CASE rows'[i] = rows[i]
          BY <3>3, <5>1 DEF Left
        <5>2. CASE TableOf(i) = "tags" /\ rows'[i] = [rows[i] EXCEPT !.link = None]
          BY <1>9, <3>2, <3>3, <3>5, <5>2 DEF Touches, Unlinked, DeleteTagGroup
        <5> QED
          BY <2>1, <5>1, <5>2 DEF Ungrouped
      <4> QED
        BY <2>1, <3>2, <3>3, <4>1 DEF Footprint, Lasting, BesideKept
    <3> QED
      BY <3>4, <3>5
  <2> QED
    BY <1>9, <2>1, FootDelete DEF DeleteTagGroup, Deleters
<1> QED
  BY <1>1, <1>2, <1>3, <1>4, <1>5, <1>6, <1>7, <1>8, <1>9 DEF ServeCampaign

\* A step that writes no row.
LEMMA FootStill ==
  ASSUME IInv, NEW q \in Requests, NEW next, rows' = rows, UNCHANGED <<seat, caps, rented>>,
         \/ Goes(q, next) \/ Answers(q, next) \/ Wrote(q, next)
         \/ \E answer \in {"ok", "refused", "failed"} : Ends(q, answer)
  PROVE  Footprint(q)
BY MovesLast, FootQuiet DEF BesideKept

LEMMA FootSeatTop ==
  ASSUME IInv, NEW q \in Requests, NEW here, NEW ws, NEW next, SeatTop(q, here, ws, next),
         serving[q].kind \in ChangesPlans
  PROVE  Footprint(q)
<1>1. ASSUME Goes(q, next), UNCHANGED tables PROVE Footprint(q)
  BY <1>1, FootStill DEF tables
<1> QED
  BY <1>1, FootChecks, FootBeside DEF SeatTop

LEMMA PlanFoot ==
  ASSUME IInv, NEW q \in Requests, ServePlan(q)
  PROVE  Footprint(q)
<1> USE DEF Asks
<1> RequestOK(q) /\ DOMAIN serving = Requests
  BY DEF IInv
<1>0. ASSUME NEW next, Goes(q, next) \/ Ends(q, "ok") \/ Ends(q, "failed"), UNCHANGED tables PROVE Footprint(q)
  BY <1>0, FootStill DEF tables
<1>1. ASSUME ListPlans(q) \/ ListActivePlans(q) \/ GetPlan(q) \/ GetProvisioning(q) \/ ShowRegistry(q)
      PROVE  Footprint(q)
  BY <1>0, <1>1, FootChecks DEF ListPlans, ListActivePlans, GetPlan, GetProvisioning, ShowRegistry
<1>2. ASSUME CreatePlan(q) PROVE Footprint(q)
  <2>1. Reaches(q, <<"plans", q>>)
    BY <1>2, RowIdMade DEF CreatePlan, Reaches, MakesIn
  <2>2. ASSUME rows' = With(rows, <<"plans", q>>, NewPlan(q)), UNCHANGED <<seat, rented>>,
               serving' = [serving EXCEPT ![q].at = "done", ![q].answer = "ok", ![q].wrote = TRUE]
        PROVE  Footprint(q)
    <3>1. serving'[q].wrote /\ serving[q].kind \in ChangesPlans
      BY <1>2, <2>2 DEF RequestOK, Fields, CreatePlan, ChangesPlans
    <3>2. BesideKept(q)
      BY <2>2, <3>1 DEF BesideKept, Replans
    <3> QED
      BY <2>1, <2>2, <3>1, <3>2, FootWith
  <2>3. ASSUME rows' = rows, UNCHANGED <<seat, caps, rented>>, Ends(q, "failed") PROVE Footprint(q)
    BY <2>3, FootStill
  <2> QED
    BY <1>2, <2>2, <2>3, FootChecks DEF CreatePlan
<1>3. ASSUME UpdatePlan(q) \/ MergeFeatures(q) PROVE Footprint(q)
  BY <1>3, FootEdit, FootChecks DEF UpdatePlan, MergeFeatures
<1>4. ASSUME UpdateProvisioning(q) PROVE Footprint(q)
  BY <1>0, <1>4, FootEdit, FootChecks DEF UpdateProvisioning
<1>5. ASSUME DeletePlan(q) PROVE Footprint(q)
  <2>1. ASSUME Mine(q), rows' = Without({Target(q)}), rented' = rented,
               serving' = [serving EXCEPT ![q].at = "done", ![q].answer = "ok", ![q].wrote = TRUE]
        PROVE  Footprint(q)
    <3>1. serving'[q].wrote /\ serving[q].kind \in ChangesPlans /\ {Target(q)} \subseteq DOMAIN rows
      BY <1>5, <2>1 DEF Mine, RequestOK, Fields, DeletePlan, ChangesPlans
    <3>2. \A i \in {Target(q)} : Reaches(q, i) /\ serving[q].kind \in Deleters
      BY <1>5, <3>1 DEF Reaches, Deleters, DeletePlan
    <3>3. BesideKept(q)
      BY <2>1, <3>1 DEF BesideKept, Replans
    <3> QED
      BY <2>1, <3>1, <3>2, <3>3, FootCut
  <2> QED
    BY <1>5, <2>1, FootChecks DEF DeletePlan
<1>6. ASSUME SetEntitlement(q) \/ GrantTopTier(q) PROVE Footprint(q)
  <2>1. ASSUME UNCHANGED tables,
               \E p \in serving[q].saw :
                  IF p \in DOMAIN rows /\ NullColumn(p, serving[q].ref) THEN Ends(q, "failed")
                  ELSE Goes(q, IF p \in DOMAIN rows /\ Declared(p, serving[q].ref) # None THEN "answer" ELSE "grant")
        PROVE  Footprint(q)
    BY <1>0, <2>1
  <2>2. serving[q].kind \in ChangesPlans
    BY <1>6 DEF SetEntitlement, GrantTopTier, ChangesPlans
  <2> QED
    BY <1>6, <2>1, <2>2, FootBeside, FootChecks DEF SetEntitlement, GrantTopTier
<1>7. ASSUME AssignPlan(q) PROVE Footprint(q)
  BY <1>0, <1>7, FootBeside, FootChecks DEF AssignPlan, ChangesPlans
<1> QED
  BY <1>1, <1>2, <1>3, <1>4, <1>5, <1>6, <1>7 DEF ServePlan

LEMMA TicketFoot ==
  ASSUME IInv, NEW q \in Requests, ServeTicket(q)
  PROVE  Footprint(q)
<1> USE DEF Asks
<1> RequestOK(q) /\ DOMAIN serving = Requests
  BY DEF IInv
<1>0. ASSUME NEW next, Goes(q, next) \/ Ends(q, "refused"), UNCHANGED tables PROVE Footprint(q)
  BY <1>0, FootStill DEF tables
<1>1. ASSUME ListTickets(q) \/ TicketStats(q) \/ GetTicket(q) \/ PublicAnswer(q) PROVE Footprint(q)
  BY <1>1, FootChecks DEF ListTickets, TicketStats, GetTicket, PublicAnswer
<1>2. ASSUME CreatePublicTicket(q) PROVE Footprint(q)
  <2>1. MakesIn(serving[q].kind, "tickets") /\ MakesIn(serving[q].kind, "ticket_messages")
    BY <1>2 DEF CreatePublicTicket, MakesIn
  <2> QED
    BY <1>2, <2>1, FootInsert, FootChecks DEF CreatePublicTicket, AddTo
<1>3. ASSUME CreateTicket(q) \/ RecordSignupRequest(q) \/ RecordCheckoutRequest(q) PROVE Footprint(q)
  <2>1. MakesIn(serving[q].kind, "tickets") /\ MakesIn(serving[q].kind, "ticket_messages")
    BY <1>3 DEF CreateTicket, RecordSignupRequest, RecordCheckoutRequest, MakesIn, Doors
  <2>2. ASSUME CreateTicket(q) PROVE Footprint(q)
    <3>1. ASSUME NEW next, Gate(q, "start", "tickets", next) PROVE Footprint(q)
      BY <3>1, FootGate
    <3>2. ASSUME CheckRequest(q) PROVE Footprint(q)
      BY <3>2, FootChecks DEF CheckRequest
    <3> QED
      BY <2>1, <2>2, <3>1, <3>2, FootInsert, FootChecks DEF CreateTicket, AddTo
  <2>3. ASSUME FileRequest(q) PROVE Footprint(q)
    BY <2>1, <2>3, FootInsert, FootChecks DEF FileRequest, AddTo
  <2>4. ASSUME serving' = [serving EXCEPT ![q].at = "existing", ![q].read = rows[Target(q)].key], UNCHANGED tables
        PROVE  Footprint(q)
    <3>1. Lasting(q)
      BY <2>4 DEF Lasting, RequestOK, Fields
    <3> QED
      BY <2>4, <3>1, FootQuiet DEF BesideKept, tables
  <2> QED
    BY <1>3, <2>2, <2>3, <2>4, FootChecks DEF RecordSignupRequest, RecordCheckoutRequest
<1>4. ASSUME UpdateTicket(q) PROVE Footprint(q)
  BY <1>4, FootEdit, FootBeside, FootChecks DEF UpdateTicket, ChangesPlans
<1>5. ASSUME AddTicketMessage(q) PROVE Footprint(q)
  BY <1>5, FootInsert, FootChecks DEF AddTicketMessage, AddTo, MakesIn
<1>6. ASSUME DeleteTicket(q) PROVE Footprint(q)
  <2>1. ASSUME Target(q) \in DOMAIN rows, rows' = Without(Fallen(Target(q))), UNCHANGED <<seat, caps, rented>>,
               serving' = [serving EXCEPT ![q].at = "done", ![q].answer = "ok", ![q].wrote = TRUE]
        PROVE  Footprint(q)
    <3>1. serving'[q].wrote /\ BesideKept(q) /\ serving[q].kind \in Deleters
      BY <1>6, <2>1 DEF BesideKept, RequestOK, Fields, DeleteTicket, Deleters
    <3> QED
      BY <2>1, <3>1, FootFallen
  <2> QED
    BY <1>0, <1>6, <2>1, FootChecks DEF DeleteTicket
<1> QED
  BY <1>1, <1>2, <1>3, <1>4, <1>5, <1>6 DEF ServeTicket

LEMMA NumberFoot ==
  ASSUME IInv, NEW q \in Requests, ServeNumber(q)
  PROVE  Footprint(q)
<1> USE DEF Asks
<1> RequestOK(q) /\ DOMAIN serving = Requests
  BY DEF IInv
<1>0. ASSUME NEW next, Goes(q, next), UNCHANGED tables PROVE Footprint(q)
  BY <1>0, FootStill DEF tables
<1>1. ASSUME ListNumbers(q) \/ ShowAccount(q) \/ ListMembers(q) PROVE Footprint(q)
  BY <1>1, FootChecks DEF ListNumbers, ShowAccount, ListMembers
<1>2. ASSUME PurchaseNumber(q) PROVE Footprint(q)
  <2>1. ASSUME FindNumber(q) PROVE Footprint(q)
    <3>1. rows' = rows /\ UNCHANGED <<seat, caps, rented>> /\ Lasting(q)
      BY <2>1 DEF FindNumber, Refuse, Ends, tables, Lasting, RequestOK, Fields
    <3> QED
      BY <3>1, FootQuiet DEF BesideKept
  <2>2. ASSUME OrderNumber(q) PROVE Footprint(q)
    <3>1. rows' = rows /\ Lasting(q)
      BY <2>2, MovesLast DEF OrderNumber
    <3> QED
      BY <1>2, <2>2, <3>1, FootQuiet DEF BesideKept, PurchaseNumber, OrderNumber
  <2>3. ASSUME NEW i \in serving[q].saw, ChangeRow(q, "persist", i, Revived(q, i), "answer") PROVE Footprint(q)
    <3>1. Reaches(q, i)
      BY <1>2, <2>3 DEF PurchaseNumber, Reaches
    <3> QED
      BY <2>3, <3>1, FootChange
  <2>4. MakesIn(serving[q].kind, "phone_numbers")
    BY <1>2 DEF PurchaseNumber, MakesIn
  <2> QED
    BY <1>0, <1>2, <2>1, <2>2, <2>3, <2>4, FootInsert, FootGate, FootChecks DEF PurchaseNumber
<1>3. ASSUME DeleteNumber(q) PROVE Footprint(q)
  <2>1. ASSUME ReleaseNumber(q) PROVE Footprint(q)
    <3>1. rows' = rows /\ Lasting(q)
      BY <2>1, MovesLast DEF ReleaseNumber
    <3> QED
      BY <1>3, <2>1, <3>1, FootQuiet DEF BesideKept, DeleteNumber, ReleaseNumber
  <2> QED
    BY <1>0, <1>3, <2>1, FootEdit, FootChecks DEF DeleteNumber
<1>4. ASSUME PutAccount(q) PROVE Footprint(q)
  <2>1. ASSUME ReadAccount(q) \/ Derive(q) PROVE Footprint(q)
    <3>1. rows' = rows /\ UNCHANGED <<seat, caps, rented>> /\ Lasting(q)
      <4>1. CASE Derive(q)
        BY <4>1 DEF Derive, tables, Lasting, RequestOK, Fields
      <4>2. CASE Look(q, "start", {}, "derive")
        BY <4>2 DEF Look, tables, Lasting, RequestOK, Fields
      <4>3. ASSUME NEW i \in Account, UNCHANGED tables,
                   serving' = [serving EXCEPT ![q].at = "derive", ![q].saw = {i}, ![q].read = rows[i]]
            PROVE  rows' = rows /\ UNCHANGED <<seat, caps, rented>> /\ Lasting(q)
        BY <4>3 DEF tables, Lasting, RequestOK, Fields
      <4> QED
        BY <2>1, <4>1, <4>2, <4>3 DEF ReadAccount
    <3> QED
      BY <3>1, FootQuiet DEF BesideKept
  <2>2. ASSUME NEW i \in serving[q].saw, NEW row, ChangeRow(q, "write", i, row, "answer") PROVE Footprint(q)
    <3>1. Reaches(q, i)
      BY <1>4, <2>2 DEF PutAccount, Reaches
    <3> QED
      BY <2>2, <3>1, FootChange
  <2>3. MakesIn(serving[q].kind, "telnyx_config")
    BY <1>4 DEF PutAccount, MakesIn
  <2> QED
    BY <1>4, <2>1, <2>2, <2>3, FootInsert, FootChecks DEF PutAccount
<1>5. ASSUME InviteTeammate(q) PROVE Footprint(q)
  BY <1>5, FootInsert, FootGate, FootChecks DEF InviteTeammate, InsertMember, MakesIn
<1>6. ASSUME RemoveMember(q) PROVE Footprint(q)
  BY <1>0, <1>6, FootDelete, FootChecks DEF RemoveMember, Deleters
<1> QED
  BY <1>1, <1>2, <1>3, <1>4, <1>5, <1>6 DEF ServeNumber

LEMMA FootTwo ==
  ASSUME NEW q \in Requests, NEW i, NEW j, NEW one, NEW two, rows' = With(With(rows, i, one), j, two),
         serving'[q].wrote, BesideKept(q), Reaches(q, i), Reaches(q, j)
  PROVE  Footprint(q)
<1>1. /\ DOMAIN rows' = DOMAIN rows \cup {i, j}
      /\ \A x \in DOMAIN rows' : rows'[x] = IF x = j THEN two ELSE IF x = i THEN one ELSE rows[x]
  BY DEF With
<1>2. Touches(q, i) /\ Touches(q, j)
  BY <1>1 DEF Touches, Names
<1> QED
  BY <1>1, <1>2 DEF Footprint, Lasting, Left

LEMMA FootRetired ==
  ASSUME IInv, NEW q \in Requests, NEW home, NEW next, DeleteWorkspace(q, home, next), home \in RowIds({"tenants"}),
         \/ Asks(q, "delete_tenant") /\ Target(q) = home
         \/ Asks(q, "bulk_delete_tenants") /\ home \in serving[q].saw
  PROVE  Footprint(q)
<1> USE DEF Asks
<1>1. home = Home(MakerOf(home))
  BY RowIdParts DEF Home
<1>2. serving'[q].wrote
  BY WroteSets DEF DeleteWorkspace
<1>3. Retiring(q, MakerOf(home))
  <2>1. serving'[q].saw = serving[q].saw
    BY DEF DeleteWorkspace, Wrote, IInv, RequestOK, Fields
  <2> QED
    BY <1>1, <1>2, <2>1 DEF Retiring
<1>4. Retired(MakerOf(home)) \subseteq DOMAIN rows
  BY DEF Retired
<1>5. ASSUME NEW i \in Retired(MakerOf(home))
      PROVE  \/ TableOf(i) \in Cascading /\ rows[i].link \in Retired(MakerOf(home))
             \/ Retiring(q, rows[i].ws)
  <2>1. CASE rows[i].ws = MakerOf(home)
    BY <1>3, <2>1
  <2>2. CASE TableOf(i) \in Cascading /\ rows[i].link \in Retired(MakerOf(home))
    BY <2>2
  <2> QED
    BY <2>1, <2>2 DEF Retired
<1>6. BesideKept(q)
  <2>1. ASSUME NEW ws \in Workspaces PROVE SeatKept(ws) \/ Retiring(q, ws)
    <3>1. CASE Home(ws) = home
      BY <1>3, <3>1, <1>1 DEF Retiring
    <3>2. CASE Home(ws) # home
      BY <3>2 DEF DeleteWorkspace, SeatKept
    <3> QED
      BY <3>1, <3>2
  <2> QED
    BY <2>1 DEF BesideKept, DeleteWorkspace
<1> QED
  BY <1>2, <1>4, <1>5, <1>6, FootCut DEF DeleteWorkspace

LEMMA FootMirror ==
  ASSUME IInv, NEW q \in Requests, NEW here, NEW next, Mirror(q, here, next), serving[q].val # None,
         serving[q].kind \in {"sync_create", "sync_update"}
  PROVE  Footprint(q)
<1> DEFINE home == <<"tenants", serving[q].val>>
<1>0. TableOf(Target(q)) \in Upserted
  BY CompanyTarget DEF OnCompanies, Upserted
<1>1. Reaches(q, home) /\ Reaches(q, Target(q))
  BY <1>0 DEF Reaches, TableOf, MakerOf
<1>2. BesideKept(q)
  BY DEF Mirror, BesideKept
<1>3. ASSUME rows' = rows, Ends(q, "refused") PROVE Footprint(q)
  BY <1>2, <1>3, FootStill DEF Mirror
<1>4. ASSUME NEW row, rows' = With(rows, Target(q), row), Wrote(q, next) PROVE Footprint(q)
  BY <1>1, <1>2, <1>4, WroteSets, FootWith
<1>5. ASSUME NEW one, NEW two, rows' = With(With(rows, home, one), Target(q), two), Wrote(q, next) PROVE Footprint(q)
  <2> HIDE DEF home
  <2>1. serving'[q].wrote
    BY <1>5, WroteSets
  <2> QED
    BY <1>1, <1>2, <1>5, <2>1, FootTwo
<1> QED
  BY <1>3, <1>4, <1>5 DEF Mirror

LEMMA FootAccount ==
  ASSUME IInv, NEW q \in Requests, NEW here, NEW slug, NEW taken, NEW next, CreateAccount(q, here, slug, taken, next),
         Asks(q, "provision_account")
  PROVE  Footprint(q)
<1> USE DEF Asks
<1>1. Reaches(q, <<"tenants", q>>) /\ Reaches(q, <<"users", q>>)
  BY RowIdMade DEF Reaches, MakesIn
<1>2. BesideKept(q)
  <2>1. ASSUME seat' = With(seat, q, EntrySeat(slug)), NEW ws \in Workspaces PROVE SeatKept(ws)
    BY <2>1, MakersAssumption DEF With, SeatKept
  <2> QED
    BY <2>1 DEF CreateAccount, BesideKept, tables
<1>3. ASSUME NEW n, rows' = rows, Goes(q, n) PROVE Footprint(q)
  BY <1>2, <1>3, MovesLast, FootQuiet
<1>4. ASSUME rows' = With(With(rows, <<"tenants", q>>, Workspace(q, q)), <<"users", q>>, Owner(q)), Wrote(q, next)
      PROVE  Footprint(q)
  <2>1. serving'[q].wrote
    BY <1>4, WroteSets
  <2> QED
    BY <1>1, <1>2, <1>4, <2>1, FootTwo
<1> QED
  BY <1>3, <1>4 DEF CreateAccount, tables

LEMMA AccountFoot ==
  ASSUME IInv, NEW q \in Requests, Found(q), ServeAccount(q)
  PROVE  Footprint(q)
<1> USE DEF Asks
<1>0. ASSUME NEW next, Goes(q, next), UNCHANGED tables PROVE Footprint(q)
  BY <1>0, FootStill DEF tables
<1>1. ASSUME DeleteTenant(q) PROVE Footprint(q)
  <2>1. Target(q) \in RowIds({"tenants"})
    BY <1>1 DEF IInv, RequestOK, JobFits, Target, DeleteTenant
  <2>2. ASSUME DeleteWorkspace(q, Target(q), "answer") PROVE Footprint(q)
    BY <1>1, <2>1, <2>2, FootRetired DEF DeleteTenant
  <2> QED
    BY <1>0, <1>1, <2>2, FootChecks DEF DeleteTenant
<1>2. ASSUME BulkDeleteTenants(q) PROVE Footprint(q)
  <2>1. ASSUME At(q, "delete"), DeleteWorkspace(q, serving[q].read, "start") PROVE Footprint(q)
    <3>1. serving[q].read \in RowIds({"tenants"}) /\ serving[q].read \in serving[q].saw
      BY <1>2, <2>1 DEF IInv, Holds, SparesTheOperator, Found, BulkDeleteTenants
    <3> QED
      BY <1>2, <2>1, <3>1, FootRetired DEF BulkDeleteTenants
  <2>2. ASSUME NEW home, UNCHANGED tables,
               serving' = [serving EXCEPT ![q].at = "delete", ![q].read = home, ![q].saw = @ \cup {home}]
        PROVE  Footprint(q)
    <3>1. serving'[q].wrote = serving[q].wrote
      BY <2>2 DEF IInv, RequestOK, Fields
    <3> QED
      BY <2>2, <3>1, FootQuiet DEF Lasting, BesideKept, tables
  <2> QED
    BY <1>0, <1>2, <2>1, <2>2, FootChecks DEF BulkDeleteTenants
<1>3. ASSUME ProvisionFreeAccount(q) PROVE Footprint(q)
  <2>1. ASSUME CreateAccount(q, "taken", serving[q].read.key, "answer", "answer") PROVE Footprint(q)
    BY <1>3, <2>1, FootAccount DEF ProvisionFreeAccount
  <2> QED
    BY <1>0, <1>3, <2>1, FootChecks DEF ProvisionFreeAccount
<1>4. ASSUME PortfolioSync(q) PROVE Footprint(q)
  <2>0. TableOf(Target(q)) \in Upserted
    BY <1>4, CompanyTarget DEF PortfolioSync, OnCompanies, Upserted
  <2>1. /\ Reaches(q, <<"tenants", q>>) /\ Reaches(q, <<"users", q>>) /\ Reaches(q, Target(q))
    BY <1>4, <2>0, RowIdMade DEF PortfolioSync, Reaches, MakesIn
  <2>2. ASSUME NEW here, NEW i \in {<<"tenants", q>>, <<"users", q>>, Target(q)}, NEW row, NEW next,
               Put(q, here, i, row, next) \/ ChangeRow(q, here, i, row, next)
        PROVE  Footprint(q)
    BY <2>1, <2>2, FootPut, FootChange
  <2> QED
    BY <1>0, <1>4, <2>2, FootChecks, FootSeatTop DEF PortfolioSync, ChangesPlans
<1>5. ASSUME SyncCreate(q) \/ SyncUpdate(q) PROVE Footprint(q)
  <2>1. ASSUME NEW here, Mirror(q, here, "top"), serving[q].val # None PROVE Footprint(q)
    <3>1. serving[q].kind \in {"sync_create", "sync_update"}
      BY <1>5 DEF SyncCreate, SyncUpdate
    <3> QED
      BY <2>1, <3>1, FootMirror
  <2>2. SyncCreate(q) => serving[q].val # None
    BY DEF SyncCreate, IInv, RequestOK, JobFits
  <2>3. Target(q) \in DOMAIN rows => Reaches(q, Target(q))
    BY DEF Reaches
  <2> QED
    BY <1>0, <1>5, <2>1, <2>2, <2>3, FootPut, FootChecks, FootSeatTop DEF SyncCreate, SyncUpdate, ChangesPlans
<1>6. ASSUME SyncDelete(q) PROVE Footprint(q)
  <2>1. ASSUME rows' = Without(Fallen(Target(q))), UNCHANGED <<seat, caps, rented>>, Wrote(q, "answer") PROVE Footprint(q)
    <3> DEFINE gone == Fallen(Target(q))
    <3>1. serving'[q].wrote /\ BesideKept(q) /\ serving[q].kind \in Deleters
      BY <1>6, <2>1, WroteSets DEF BesideKept, Deleters, SyncDelete
    <3>2. CASE Target(q) \in DOMAIN rows
      BY <2>1, <3>1, <3>2, FootFallen
    <3>3. CASE Target(q) \notin DOMAIN rows
      <4>1. DOMAIN rows' = DOMAIN rows \ gone
        BY <2>1 DEF Without
      <4>2. ASSUME NEW i \in DOMAIN rows, i \in gone PROVE Touches(q, i)
        BY <3>1, <3>3, <4>1, <4>2 DEF Touches, Falls, Fallen
      <4>3. ASSUME NEW i \in DOMAIN rows \ gone PROVE Left(i) \/ Touches(q, i)
        <5>1. CASE rows'[i] = rows[i]
          BY <4>1, <5>1 DEF Left
        <5>2. CASE rows[i].link \in gone /\ rows'[i] = [rows[i] EXCEPT !.link = None]
          <6>1. rows[i].link \notin DOMAIN rows'
            BY <4>1, <5>2
          <6> QED
            BY <3>1, <4>1, <5>2, <6>1 DEF Touches, Unlinked
        <5> QED
          BY <2>1, <5>1, <5>2 DEF Without
      <4> QED
        BY <3>1, <4>1, <4>2, <4>3 DEF Footprint, Lasting
    <3> QED
      BY <3>2, <3>3
  <2> QED
    BY <1>6, <2>1, FootChecks DEF SyncDelete
<1> QED
  BY <1>1, <1>2, <1>3, <1>4, <1>5, <1>6 DEF ServeAccount

\* The whole console.
LEMMA ServeFoot ==
  ASSUME IInv, NEW q \in Requests, Found(q), Serve(q)
  PROVE  Footprint(q)
BY RecordFoot, AutomationFoot, SettingFoot, CampaignFoot, PlanFoot, TicketFoot, AccountFoot, NumberFoot DEF Serve

-----------------------------------------------------------------------------
(* Numbers and their bills: the inductive invariant.                        *)

\* A row under a request's id is there because that request wrote it, so it is
\* made once: purchases insert before their answer and never again.
Born(i) == MakerOf(i) \in Workspaces \/ (MakerOf(i) \in Requests /\ serving[MakerOf(i)].wrote)

NumberOK(i) == rows[i].ws \in Workspaces /\ rows[i].flag \in {"on", "off"} /\ Born(i)
OneRowEach == \A i, j \in Rows("phone_numbers") : rows[i].key = rows[j].key => i = j

\* What excuses a purchase whose number is not held, and a held number that is
\* not billed. Each lasts once it is true.
Overrun(q) ==
  \E p \in Requests \ {q} :
    \/ Releases(p, serving[q].val) \/ Revives(p, serving[q].val)
    \/ \E ws \in Sides(q) : Retires(p, ws)
Paid(n, ws) ==
  \/ n \in rented
  \/ \E k \in Rows("provider_keys") : rows[k].ws = ws
  \/ \E p \in Requests :
       \/ Releases(p, n) \/ Retires(p, ws)
       \/ Asks(p, "delete_key") /\ serving[p].wrote /\ serving[p].ws = ws
SomeRetired == \E p \in Requests, ws \in Workspaces : Retires(p, ws)

\* The released row a purchase is to revive: still its number's, and still where
\* it was when it was read unless something ran over the purchase.
Revivable(q, r) ==
  /\ serving[q].saw = {r} /\ serving[q].read.flag = "off"
  /\ Born(r)
  /\ r \in DOMAIN rows => rows[r].key = serving[q].val
  /\ r \notin DOMAIN rows => SomeRetired
  /\ Overrun(q) \/ (r \in DOMAIN rows /\ rows[r].ws = serving[q].read.ws)
Sold(q) ==
  \/ Overrun(q)
  \/ /\ BoughtRow(q) \in Rows("phone_numbers") /\ Held(BoughtRow(q))
     /\ rows[BoughtRow(q)].ws = serving[q].ws /\ rows[BoughtRow(q)].key = serving[q].val

Underway == {"key", "account", "order", "persist"}
Buying(q) ==
  /\ serving[q].wrote => serving[q].at \in {"answer", "done"}
  /\ serving[q].answer # "none" => At(q, "done")
  /\ serving[q].at \in Underway => serving[q].saw = {} \/ \E r \in serving[q].saw : Revivable(q, r)
  /\ At(q, "persist") => Paid(serving[q].val, serving[q].ws)
  /\ At(q, "answer") \/ Done(q) => Sold(q)
Releasing(q) ==
  /\ serving[q].answer # "none" => At(q, "done")
  /\ ~At(q, "start") /\ serving[q].answer # "refused" =>
       /\ Born(Target(q))
       /\ Target(q) \in DOMAIN rows => rows[Target(q)].key = serving[q].read.key

NumbersInv ==
  /\ \A i \in Rows("phone_numbers") : NumberOK(i)
  /\ OneRowEach
  /\ \A q \in Requests : Found(q) /\ (Asks(q, "purchase_number") => Buying(q)) /\ (Asks(q, "delete_number") => Releasing(q))
  /\ BilledIsHeld
  /\ \A i \in Rows("phone_numbers") : Held(i) => Paid(rows[i].key, rows[i].ws)

-----------------------------------------------------------------------------
(* Who asked is served by whom.                                             *)

Watched ==
  {"purchase_number", "delete_number", "put_account", "upsert_payment_provider", "bulk_delete_tenants",
   "delete_tenant", "delete_tag_group", "delete_logo", "delete_email_template", "delete_payment_provider", "delete_key"}

LEMMA ServedBy ==
  ASSUME NEW q \in Requests, Serve(q)
  PROVE  /\ Asks(q, "purchase_number") => PurchaseNumber(q)
         /\ Asks(q, "delete_number") => DeleteNumber(q)
         /\ Asks(q, "put_account") => PutAccount(q)
         /\ Asks(q, "upsert_payment_provider") => UpsertPaymentProvider(q)
         /\ Asks(q, "delete_payment_provider") => DeletePaymentProvider(q)
         /\ Asks(q, "bulk_delete_tenants") => BulkDeleteTenants(q)
         /\ Asks(q, "delete_tenant") => DeleteTenant(q)
         /\ Asks(q, "delete_tag_group") => DeleteTagGroup(q)
         /\ Asks(q, "delete_logo") => DeleteLogo(q)
         /\ Asks(q, "delete_email_template") => DeleteEmailTemplate(q)
         /\ Asks(q, "delete_key") => DeleteKey(q)
<1> USE DEF Asks
<1>1. ServeRecord(q) => serving[q].kind \notin Watched
  BY DEF ServeRecord, ListCalls, GetCall, CreateCall, UpdateCall, DeleteCall, RespondToCall, RecordCall, ListContacts,
         ExportContacts, SearchContacts, GetContact, CreateContact, UpdateContact, DeleteContact, ListCustomFields,
         CreateCustomField, UpdateCustomField, DeleteCustomField, GetContactWithFields, ListContactsWithFields,
         UpdateContactFieldValue, ListClients, GetClient, CreateClient, UpdateClient, DeleteClient, ListDeals,
         GetDeal, CreateDeal, UpdateDeal, DeleteDeal, MoveStage, ListEvents, GetEvent, CreateEvent, UpdateEvent,
         DeleteEvent, ListFollowUps, CreateFollowUp, UpdateFollowUp, DeleteFollowUp, Watched
<1>2. ServeAutomation(q) => serving[q].kind \notin Watched
  BY DEF ServeAutomation, ListRules, CreateRule, UpdateRule, DeleteRule, ListTemplates, CreateTemplate, UpdateTemplate,
         DeleteTemplate, ListIntegrations, CreateIntegration, UpdateIntegration, DeleteIntegration, TestIntegration,
         ListTargets, CreateTarget, UpdateTarget, DeleteTarget, ListCompanies, GetCompany, CreateCompany, UpdateCompany,
         DeleteCompany, SyncCompany, GetSmtp, UpdateSmtp, ListEmailTriggers, GetEmailTrigger, CreateEmailTrigger,
         UpdateEmailTrigger, DeleteEmailTrigger, ListRedirects, GetRedirect, CreateRedirect, UpdateRedirect,
         DeleteRedirect, ListExports, GetExport, CreateExport, UpdateExport, DeleteExport, ListImports, GetImport,
         CreateImport, UpdateImport, DeleteImport, Watched
<1>3. ServeSetting(q) =>
        \/ UpsertPaymentProvider(q) \/ DeletePaymentProvider(q) \/ DeleteLogo(q) \/ DeleteEmailTemplate(q) \/ DeleteKey(q)
        \/ serving[q].kind \notin Watched
  BY DEF ServeSetting, GetEmailConfig, UpdateEmailConfig, GetSite, UpdateSite, GetBranding, GetLogo, PutBranding,
         UploadLogo, ListEmailTemplates, CreateEmailTemplate, UpdateEmailTemplate, ListKeys, UpsertKey,
         ListPaymentProviders, Watched
<1>4. ServeCampaign(q) => DeleteTagGroup(q) \/ serving[q].kind \notin Watched
  BY DEF ServeCampaign, ListLeads, GetLead, CreateLead, UpdateLead, DeleteLead, ListLists, ShowMembers, AddLead,
         RemoveLead, CreateList, UpdateList, DeleteList, ListTags, GetTag, CreateTag, UpdateTag, DeleteTag,
         ListTagGroups, GetTagGroup, CreateTagGroup, UpdateTagGroup, ListCampaigns, GetCampaign, CreateCampaign,
         UpdateCampaign, DeleteCampaign, Activate, Pause, Watched
<1>5. ServePlan(q) => serving[q].kind \notin Watched
  BY DEF ServePlan, ListPlans, ListActivePlans, GetPlan, CreatePlan, UpdatePlan, DeletePlan, MergeFeatures,
         SetEntitlement, ShowRegistry, GrantTopTier, AssignPlan, GetProvisioning, UpdateProvisioning, Watched
<1>6. ServeTicket(q) => serving[q].kind \notin Watched
  BY DEF ServeTicket, ListTickets, TicketStats, GetTicket, CreatePublicTicket, PublicAnswer, CreateTicket,
         RecordSignupRequest, RecordCheckoutRequest, UpdateTicket, AddTicketMessage, DeleteTicket, Watched
<1>7. ServeAccount(q) => BulkDeleteTenants(q) \/ DeleteTenant(q) \/ serving[q].kind \notin Watched
  BY DEF ServeAccount, ProvisionFreeAccount, PortfolioSync, SyncCreate, SyncUpdate, SyncDelete, Watched
<1>8. ServeNumber(q) => PurchaseNumber(q) \/ DeleteNumber(q) \/ PutAccount(q) \/ serving[q].kind \notin Watched
  BY DEF ServeNumber, ListNumbers, ShowAccount, ListMembers, InviteTeammate, RemoveMember, Watched
<1>9. \/ PurchaseNumber(q) \/ DeleteNumber(q) \/ PutAccount(q) \/ BulkDeleteTenants(q) \/ DeleteTenant(q)
      \/ DeleteTagGroup(q) \/ UpsertPaymentProvider(q) \/ DeletePaymentProvider(q) \/ DeleteLogo(q)
      \/ DeleteEmailTemplate(q) \/ DeleteKey(q) \/ serving[q].kind \notin Watched
  BY <1>1, <1>2, <1>3, <1>4, <1>5, <1>6, <1>7, <1>8 DEF Serve
<1>10. /\ PurchaseNumber(q) => serving[q].kind = "purchase_number"
       /\ DeleteNumber(q) => serving[q].kind = "delete_number"
       /\ PutAccount(q) => serving[q].kind = "put_account"
       /\ BulkDeleteTenants(q) => serving[q].kind = "bulk_delete_tenants"
       /\ DeleteTenant(q) => serving[q].kind = "delete_tenant"
       /\ DeleteTagGroup(q) => serving[q].kind = "delete_tag_group"
       /\ UpsertPaymentProvider(q) => serving[q].kind = "upsert_payment_provider"
       /\ DeletePaymentProvider(q) => serving[q].kind = "delete_payment_provider"
       /\ DeleteLogo(q) => serving[q].kind = "delete_logo"
       /\ DeleteEmailTemplate(q) => serving[q].kind = "delete_email_template"
       /\ DeleteKey(q) => serving[q].kind = "delete_key"
  BY DEF PurchaseNumber, DeleteNumber, PutAccount, BulkDeleteTenants, DeleteTenant, DeleteTagGroup,
         UpsertPaymentProvider, DeletePaymentProvider, DeleteLogo, DeleteEmailTemplate, DeleteKey
<1> QED
  BY <1>9, <1>10 DEF Watched

-----------------------------------------------------------------------------
(* What one step does to a number's row.                                    *)

Same(i) ==
  /\ i \in DOMAIN rows /\ i \in DOMAIN rows'
  /\ rows'[i].ws = rows[i].ws /\ rows'[i].key = rows[i].key /\ rows'[i].flag = rows[i].flag
LetGo(q, i) ==
  /\ Asks(q, "delete_number") /\ At(q, "persist") /\ i = Target(q)
  /\ i \in DOMAIN rows /\ i \in DOMAIN rows'
  /\ rows'[i].ws = rows[i].ws /\ rows'[i].key = rows[i].key /\ rows'[i].flag = "off"
TakenUp(q, i) ==
  /\ Asks(q, "purchase_number") /\ At(q, "persist") /\ i \in serving[q].saw /\ Wrote(q, "answer")
  /\ i \in DOMAIN rows /\ i \in DOMAIN rows'
  /\ rows'[i].ws = serving[q].ws /\ rows'[i].key = rows[i].key /\ rows'[i].flag = "on"
Entered(q, i) ==
  /\ Asks(q, "purchase_number") /\ At(q, "persist") /\ serving[q].saw = {} /\ Wrote(q, "answer")
  /\ i = <<"phone_numbers", q>> /\ i \in DOMAIN rows'
  /\ rows'[i].ws = serving[q].ws /\ rows'[i].key = serving[q].val /\ rows'[i].flag = "on"
  /\ \A j \in Rows("phone_numbers") \ {i} : rows[j].key # serving[q].val
Gone(q, i) == i \in DOMAIN rows /\ i \notin DOMAIN rows' /\ Retiring(q, rows[i].ws)

NumberEffect(q, i) == Same(i) \/ LetGo(q, i) \/ TakenUp(q, i) \/ Entered(q, i) \/ Gone(q, i)

LEMMA PurchaseEffect ==
  ASSUME IInv, NEW q \in Requests, PurchaseNumber(q), NEW i, i \in DOMAIN rows \/ i \in DOMAIN rows'
  PROVE  NumberEffect(q, i)
<1>1. i \in DOMAIN rows => DOMAIN rows[i] = Columns \cup {"ws"}
  BY DEF IInv, Sane, WellStored, RowStored
<1>2. CASE rows' = rows
  BY <1>2 DEF NumberEffect, Same
<1>3. ASSUME serving[q].saw = {}, Insert(q, "persist", "phone_numbers", "new", "on", "answer"), rows' # rows
      PROVE  NumberEffect(q, i)
  <2> DEFINE new == <<"phone_numbers", q>>
  <2>1. /\ Fits(new, NewRow(q, "new", "on")) /\ rows' = With(rows, new, NewRow(q, "new", "on"))
        /\ Wrote(q, "answer") /\ At(q, "persist")
    BY <1>3 DEF Insert, Put
  <2>2. DOMAIN rows' = DOMAIN rows \cup {new} /\ (i # new => rows'[i] = rows[i]) /\ rows'[new] = NewRow(q, "new", "on")
    BY <2>1 DEF With
  <2>3. CASE i # new
    BY <2>2, <2>3 DEF NumberEffect, Same
  <2>4. CASE i = new
    <3>1. \A j \in Rows("phone_numbers") \ {i} : rows[j].key # serving[q].val
      BY <2>1, <2>4 DEF Fits, Clashes, UniqueKey, NewRow, TableOf, Rows
    <3>2. rows'[i].ws = serving[q].ws /\ rows'[i].key = serving[q].val /\ rows'[i].flag = "on"
      BY <2>2, <2>4 DEF NewRow
    <3> QED
      BY <1>3, <2>1, <2>2, <2>4, <3>1, <3>2 DEF NumberEffect, Entered, PurchaseNumber
  <2> QED
    BY <2>3, <2>4
<1>4. ASSUME NEW r \in serving[q].saw, ChangeRow(q, "persist", r, Revived(q, r), "answer"), rows' # rows
      PROVE  NumberEffect(q, i)
  <2>1. /\ r \in DOMAIN rows /\ rows' = With(rows, r, Revived(q, r)) /\ Wrote(q, "answer") /\ At(q, "persist")
    BY <1>4 DEF ChangeRow, Put, tables
  <2>2. DOMAIN rows' = DOMAIN rows /\ (i # r => rows'[i] = rows[i]) /\ rows'[r] = Revived(q, r)
    BY <2>1 DEF With
  <2>3. CASE i # r
    BY <2>2, <2>3 DEF NumberEffect, Same
  <2>4. CASE i = r
    <3>1. rows'[i].ws = serving[q].ws /\ rows'[i].key = rows[i].key /\ rows'[i].flag = "on"
      BY <1>1, <2>1, <2>2, <2>4 DEF Revived, Columns
    <3> QED
      BY <2>1, <2>2, <2>4, <3>1 DEF NumberEffect, TakenUp, PurchaseNumber
  <2> QED
    BY <2>3, <2>4
<1>5. \/ rows' = rows
      \/ serving[q].saw = {} /\ Insert(q, "persist", "phone_numbers", "new", "on", "answer")
      \/ \E r \in serving[q].saw : ChangeRow(q, "persist", r, Revived(q, r), "answer")
  BY DEF PurchaseNumber, Refuse, Finish, Gate, ReadPlan, ReadLimit, CountUsage, FindNumber, OrderNumber, tables
<1> QED
  BY <1>2, <1>3, <1>4, <1>5

LEMMA ReleaseEffect ==
  ASSUME IInv, NEW q \in Requests, DeleteNumber(q), NEW i, i \in DOMAIN rows \/ i \in DOMAIN rows'
  PROVE  NumberEffect(q, i)
<1>1. i \in DOMAIN rows => DOMAIN rows[i] = Columns \cup {"ws"}
  BY DEF IInv, Sane, WellStored, RowStored
<1>2. CASE rows' = rows
  BY <1>2 DEF NumberEffect, Same
<1>3. ASSUME Change(q, "persist", [rows[Target(q)] EXCEPT !.flag = "off"], "answer"), rows' # rows
      PROVE  NumberEffect(q, i)
  <2>1. /\ Target(q) \in DOMAIN rows /\ At(q, "persist")
        /\ rows' = With(rows, Target(q), [rows[Target(q)] EXCEPT !.flag = "off"])
    BY <1>3 DEF Change, ChangeRow, Put, tables
  <2>2. /\ DOMAIN rows' = DOMAIN rows /\ (i # Target(q) => rows'[i] = rows[i])
        /\ rows'[Target(q)] = [rows[Target(q)] EXCEPT !.flag = "off"]
    BY <2>1 DEF With
  <2>3. CASE i # Target(q)
    BY <2>2, <2>3 DEF NumberEffect, Same
  <2>4. CASE i = Target(q)
    BY <1>1, <2>1, <2>2, <2>4 DEF NumberEffect, LetGo, DeleteNumber, Columns
  <2> QED
    BY <2>3, <2>4
<1>4. rows' = rows \/ Change(q, "persist", [rows[Target(q)] EXCEPT !.flag = "off"], "answer")
  BY DEF DeleteNumber, Finish, Fetch, Lookup, Missing, ReleaseNumber, tables
<1> QED
  BY <1>2, <1>3, <1>4

LEMMA NumberStep ==
  ASSUME IInv, NEW q \in Requests, Found(q), Serve(q), NEW i, TableOf(i) = "phone_numbers",
         i \in DOMAIN rows \/ i \in DOMAIN rows'
  PROVE  NumberEffect(q, i)
<1>1. IInv' /\ Footprint(q)
  BY ServeKeeps, StepKeeps, ServeFoot
<1>2. i \in RowIds({"phone_numbers"})
  BY <1>1 DEF IInv, Sane, WellStored, RowStored
<1>3. CASE Asks(q, "purchase_number")
  BY <1>3, ServedBy, PurchaseEffect
<1>4. CASE Asks(q, "delete_number")
  BY <1>4, ServedBy, ReleaseEffect
<1>5. CASE ~Asks(q, "purchase_number") /\ ~Asks(q, "delete_number")
  <2>1. ~Reaches(q, i)
    <3>1. i # Target(q)
      BY <1>2, <1>5 DEF IInv, RequestOK, JobFits, Target, Asks
    <3>2. ~MakesIn(serving[q].kind, TableOf(i))
      BY <1>5 DEF MakesIn, Asks
    <3>3. i \in serving[q].saw => serving[q].kind \notin {"put_account", "upsert_payment_provider"}
      BY DEF Found, Asks
    <3> QED
      BY <1>5, <3>1, <3>2, <3>3 DEF Reaches, Asks
  <2>2. CASE Left(i)
    BY <2>2 DEF NumberEffect, Same, Left
  <2>3. CASE Unlinked(q, i)
    <3>1. DOMAIN rows[i] = Columns \cup {"ws"}
      BY <2>3 DEF Unlinked, IInv, Sane, WellStored, RowStored
    <3> QED
      BY <2>3, <3>1 DEF NumberEffect, Same, Unlinked, Columns
  <2>4. CASE Falls(q, i)
    BY <2>4 DEF NumberEffect, Gone, Falls, Cascading
  <2> QED
    BY <1>1, <2>1, <2>2, <2>3, <2>4 DEF Footprint, Touches, Names
<1> QED
  BY <1>3, <1>4, <1>5

-----------------------------------------------------------------------------
(* What a request has found lasts.                                          *)

\* The places a deletion that begins by erasing goes to.
LEMMA EraserMoves ==
  ASSUME IInv, NEW q \in Requests, serving[q].kind \in Erasers, Serve(q)
  PROVE  serving'[q].at # "start"
<1> USE DEF Asks
<1> RequestOK(q) /\ DOMAIN serving = Requests
  BY DEF IInv
<1>1. ASSUME NEW here, Refuse(q, here) \/ Finish(q, here) \/ Missing(q, here) PROVE serving'[q].at # "start"
  BY <1>1, MovesHold DEF Refuse, Finish, Missing
<1>2. ASSUME NEW here, NEW gone, NEW next, Erase(q, here, gone, next), next # "start" PROVE serving'[q].at # "start"
  BY <1>2 DEF Erase, RequestOK, Fields
<1>3. CASE DeleteTagGroup(q)
  <2>1. CASE serving' = [serving EXCEPT ![q].at = "delete", ![q].wrote = Ungrouped(Target(q)) # rows]
    BY <2>1 DEF RequestOK, Fields
  <2>2. CASE Remove(q, "delete")
    BY <2>2 DEF Remove, RequestOK, Fields
  <2> QED
    BY <1>1, <1>3, <2>1, <2>2 DEF DeleteTagGroup, Delete
<1>4. CASE DeleteLogo(q)
  <2>1. ASSUME ReadDoc(q, "doc", "write") PROVE serving'[q].at # "start"
    BY <2>1 DEF ReadDoc, ReadStored, RequestOK, Fields
  <2>2. ASSUME SaveStored(q, "write", None, "answer") PROVE serving'[q].at # "start"
    BY <2>2, MovesHold DEF SaveStored, Put
  <2> QED
    BY <1>1, <1>2, <1>4, <2>1, <2>2 DEF DeleteLogo
<1>5. CASE DeleteEmailTemplate(q) \/ DeletePaymentProvider(q)
  BY <1>1, <1>2, <1>5 DEF DeleteEmailTemplate, DeletePaymentProvider
<1> QED
  BY <1>3, <1>4, <1>5, ServedBy DEF Erasers

\* A list of deletions only grows, and the one under way is on it.
LEMMA BulkMoves ==
  ASSUME IInv, NEW q \in Requests, BulkDeleteTenants(q)
  PROVE  /\ serving[q].saw \subseteq serving'[q].saw
         /\ serving'[q].at = "delete" => serving'[q].read \in serving'[q].saw
<1> RequestOK(q) /\ DOMAIN serving = Requests
  BY DEF IInv
<1>1. ASSUME NEW home, Look(q, "start", serving[q].saw \cup {home}, "start")
      PROVE  serving[q].saw \subseteq serving'[q].saw /\ serving'[q].at # "delete"
  BY <1>1 DEF Look, RequestOK, Fields
<1>2. ASSUME NEW home,
             serving' = [serving EXCEPT ![q].at = "delete", ![q].read = home, ![q].saw = @ \cup {home}]
      PROVE  serving'[q].saw = serving[q].saw \cup {home} /\ serving'[q].read = home
  BY <1>2 DEF RequestOK, Fields
<1>3. ASSUME Wrote(q, "start") \/ Goes(q, "start") \/ Ends(q, "ok")
      PROVE  serving'[q].saw = serving[q].saw /\ serving'[q].at # "delete"
  BY <1>3, MovesHold
<1> QED
  BY <1>1, <1>2, <1>3 DEF BulkDeleteTenants, DeleteWorkspace, Finish

LEMMA FoundKeeps ==
  ASSUME IInv, NEW q \in Requests, Found(q), Serve(q)
  PROVE  Found(q)'
<1> RequestOK(q) /\ DOMAIN serving = Requests
  BY DEF IInv
<1>0. Advance(q) /\ serving'[q].kind = serving[q].kind
  BY ServeKeeps DEF Sound, Advance
<1>1. ASSUME NEW here, NEW next,
             Refuse(q, here) \/ Finish(q, here) \/ Encrypt(q, here, next) \/ Goes(q, next) \/ Wrote(q, next) \/ Ends(q, "failed")
      PROVE  serving'[q].saw = serving[q].saw
  BY <1>1, MovesHold DEF Refuse, Finish, Encrypt
<1>2. ASSUME NEW here, NEW i, NEW row, NEW next, Put(q, here, i, row, next) \/ ChangeRow(q, here, i, row, next)
      PROVE  serving'[q].saw = serving[q].saw
  BY <1>1, <1>2 DEF Put, ChangeRow
<1>3. ASSUME Asks(q, "put_account") PROVE \A i \in serving'[q].saw : TableOf(i) = "telnyx_config"
  <2>1. PutAccount(q) /\ \A i \in serving[q].saw : TableOf(i) = "telnyx_config"
    BY <1>3, ServedBy DEF Found
  <2>2. CASE ReadAccount(q)
    <3>1. ASSUME Look(q, "start", {}, "derive") PROVE serving'[q].saw = {}
      BY <3>1 DEF Look, RequestOK, Fields
    <3>2. ASSUME NEW i \in Account,
                 serving' = [serving EXCEPT ![q].at = "derive", ![q].saw = {i}, ![q].read = rows[i]]
          PROVE  serving'[q].saw = {i}
      BY <3>2 DEF RequestOK, Fields
    <3> QED
      BY <2>2, <3>1, <3>2 DEF ReadAccount, Account, Rows
  <2>3. CASE Derive(q)
    <3>1. serving'[q].saw = serving[q].saw
      BY <2>3 DEF Derive, RequestOK, Fields
    <3> QED
      BY <2>1, <3>1
  <2> QED
    BY <1>1, <1>2, <2>1, <2>2, <2>3 DEF PutAccount
<1>4. ASSUME Asks(q, "upsert_payment_provider") PROVE \A i \in serving'[q].saw : TableOf(i) = "payment_providers"
  <2>1. UpsertPaymentProvider(q) /\ \A i \in serving[q].saw : TableOf(i) = "payment_providers"
    BY <1>4, ServedBy DEF Found
  <2>2. CASE Look(q, "find", OfType(q), "write")
    <3>1. serving'[q].saw = OfType(q)
      BY <2>2 DEF Look, RequestOK, Fields
    <3> QED
      BY <3>1 DEF OfType, Rows
  <2> QED
    BY <1>1, <1>2, <2>1, <2>2 DEF UpsertPaymentProvider
<1>5. ASSUME Asks(q, "bulk_delete_tenants") PROVE serving'[q].at = "delete" => serving'[q].read \in serving'[q].saw
  BY <1>5, ServedBy, BulkMoves
<1>6. serving[q].kind \in Erasers => serving'[q].at # "start"
  BY EraserMoves
<1> QED
  BY <1>0, <1>3, <1>4, <1>5, <1>6 DEF Found, Asks, At

\* A released number, a number run over and a workspace deleted stay so.
LEMMA ReleaseMoves ==
  ASSUME IInv, NEW q \in Requests, DeleteNumber(q)
  PROVE  /\ serving'[q].at # "start"
         /\ serving[q].answer # "refused" => serving'[q].answer # "refused" \/ At(q, "start")
         /\ At(q, "start") \/ serving'[q].read = serving[q].read
<1> RequestOK(q) /\ DOMAIN serving = Requests
  BY DEF IInv
<1>1. ASSUME NEW next, next # "start", Goes(q, next) \/ Wrote(q, next) \/ Ends(q, "ok") \/ Ends(q, "failed")
      PROVE  /\ serving'[q].at # "start" /\ serving'[q].read = serving[q].read
             /\ serving'[q].answer \in {serving[q].answer, "ok", "failed"}
  BY <1>1 DEF Goes, Wrote, Ends, RequestOK, Fields
<1>2. ASSUME Fetch(q, "start", "key") PROVE serving'[q].at # "start" /\ At(q, "start")
  BY <1>2 DEF Fetch, Lookup, Missing, Ends, RequestOK, Fields
<1>3. CASE Change(q, "persist", [rows[Target(q)] EXCEPT !.flag = "off"], "answer")
  BY <1>1, <1>3 DEF Change, ChangeRow, Put
<1> QED
  BY <1>1, <1>2, <1>3 DEF DeleteNumber, ReleaseNumber, Finish

LEMMA ReviveMoves ==
  ASSUME IInv, NEW q \in Requests, PurchaseNumber(q), serving[q].at \in {"answer", "done"}
  PROVE  /\ serving'[q].saw = serving[q].saw /\ serving'[q].read = serving[q].read
         /\ At(q, "answer") /\ serving'[q].at = "done" /\ serving'[q].answer = "ok" /\ UNCHANGED tables
<1> RequestOK(q) /\ DOMAIN serving = Requests
  BY DEF IInv
<1>1. Finish(q, "answer")
  BY DEF PurchaseNumber, Refuse, Gate, ReadPlan, ReadLimit, CountUsage, FindNumber, At, OrderNumber, Insert, Put,
         ChangeRow, Finish
<1> QED
  BY <1>1 DEF Finish, Ends, RequestOK, Fields

LEMMA ExcusesLast ==
  ASSUME IInv, NumbersInv, NEW q \in Requests, Serve(q), NEW p \in Requests, NEW n, NEW ws
  PROVE  /\ serving[p].wrote => serving'[p].wrote
         /\ Releases(p, n) => Releases(p, n)'
         /\ Revives(p, n) => Revives(p, n)'
         /\ Retires(p, ws) => Retires(p, ws)'
         /\ Retiring(q, ws) => Retires(q, ws)'
<1> USE DEF Asks, At
<1>1. Sound(q) /\ Advance(q) /\ Footprint(q)
  BY ServeKeeps, ServeFoot DEF Sound, NumbersInv
<1>2. CASE p # q
  <2>1. serving'[p] = serving[p]
    BY <1>1, <1>2 DEF Advance
  <2>2. Retiring(q, ws) => Retires(q, ws)'
    BY <1>1 DEF Retiring, Retires, Advance, Target, Home
  <2> QED
    BY <2>1, <2>2 DEF Releases, Revives, Buys, Retires, Target, Home
<1>3. CASE p = q
  <2>1. serving[q].wrote => serving'[q].wrote
    BY <1>1 DEF Footprint, Lasting
  <2>2. Releases(q, n) => Releases(q, n)'
    BY <1>1, ServedBy, ReleaseMoves DEF Releases, Advance
  <2>3. ASSUME Revives(q, n) PROVE Revives(q, n)'
    <3>1. serving[q].at \in {"answer", "done"} /\ PurchaseNumber(q)
      BY <2>3, ServedBy DEF Revives, Buys, NumbersInv, Buying
    <3>2. serving'[q].saw = serving[q].saw /\ serving'[q].read = serving[q].read
      BY <3>1, ReviveMoves
    <3> QED
      BY <1>1, <2>1, <2>3, <3>2 DEF Revives, Buys, Advance
  <2>4. Retires(q, ws) => Retires(q, ws)'
    <3>1. Asks(q, "bulk_delete_tenants") => serving[q].saw \subseteq serving'[q].saw
      BY ServedBy, BulkMoves
    <3> QED
      BY <1>1, <2>1, <3>1 DEF Retires, Advance, Target, Home
  <2>5. Retiring(q, ws) => Retires(q, ws)'
    BY <1>1 DEF Retiring, Retires, Advance, Target, Home
  <2> QED
    BY <1>3, <2>1, <2>2, <2>3, <2>4, <2>5
<1> QED
  BY <1>2, <1>3

LEMMA BornLasts ==
  ASSUME IInv, NumbersInv, NEW q \in Requests, Serve(q), NEW i, Born(i)
  PROVE  Born(i)'
BY ExcusesLast DEF Born, MakerOf

LEMMA OverrunLasts ==
  ASSUME IInv, NumbersInv, NEW q \in Requests, Serve(q), NEW p \in Requests, Overrun(p),
         serving'[p].saw = serving[p].saw, serving'[p].read = serving[p].read
  PROVE  Overrun(p)'
<1>1. serving'[p].val = serving[p].val /\ serving'[p].ws = serving[p].ws
  BY ServeKeeps DEF Sound, Advance
<1>2. Sides(p)' = Sides(p)
  BY <1>1 DEF Sides
<1>3. PICK o \in Requests \ {p} :
        \/ Releases(o, serving[p].val) \/ Revives(o, serving[p].val) \/ \E ws \in Sides(p) : Retires(o, ws)
  BY DEF Overrun
<1>4. ASSUME NEW n, n = serving[p].val, Releases(o, n) \/ Revives(o, n) PROVE Overrun(p)'
  <2>1. Releases(o, n)' \/ Revives(o, n)'
    BY <1>4, ExcusesLast
  <2>2. n = serving'[p].val
    BY <1>1, <1>4
  <2> QED
    BY <2>1, <2>2 DEF Overrun, Releases, Revives, Buys, Asks, At
<1>5. ASSUME NEW ws \in Sides(p), Retires(o, ws) PROVE Overrun(p)'
  <2>1. Retires(o, ws)'
    BY <1>5, ExcusesLast
  <2> QED
    BY <1>2, <2>1 DEF Overrun
<1> QED
  BY <1>3, <1>4, <1>5

LEMMA KeyCut ==
  ASSUME IInv, NumbersInv, NEW q \in Requests, Serve(q), NEW k \in Rows("provider_keys"), k \notin DOMAIN rows'
  PROVE  \/ Retires(q, rows[k].ws)
         \/ Retiring(q, rows[k].ws)
         \/ Asks(q, "delete_key") /\ serving[q].ws = rows[k].ws /\ serving'[q].wrote
<1> USE DEF Asks
<1>1. Footprint(q) /\ RequestOK(q)
  BY ServeFoot DEF NumbersInv, IInv
<1>2. k \in RowIds({"provider_keys"}) /\ k \in DOMAIN rows /\ TableOf(k) = "provider_keys"
  BY DEF Rows, IInv, Sane, WellStored, RowStored
<1>3. Touches(q, k)
  BY <1>1, <1>2 DEF Footprint, Left
<1>4. CASE Falls(q, k)
  BY <1>2, <1>4 DEF Falls, Cascading
<1>5. CASE Names(q, k)
  <2>1. serving[q].kind \in Deleters /\ Reaches(q, k)
    BY <1>5 DEF Names
  <2>2. k = Target(q)
    BY <1>2, <2>1 DEF Reaches, MakesIn, Deleters
  <2>3. serving[q].kind = "delete_key"
    BY <1>1, <1>2, <2>2 DEF RequestOK, JobFits, Target
  <2>4. DeleteKey(q)
    BY <2>3, ServedBy
  <2>5. Mine(q)
    BY <1>2, <2>4 DEF DeleteKey, Delete, Remove, Missing, tables
  <2> QED
    BY <1>3, <2>2, <2>3, <2>5 DEF Mine, Touches
<1> QED
  BY <1>2, <1>3, <1>4, <1>5 DEF Touches, Unlinked

LEMMA PaidLasts ==
  ASSUME IInv, NumbersInv, NEW q \in Requests, Serve(q), NEW n, NEW ws, Paid(n, ws)
  PROVE  Paid(n, ws)'
<1>1. IInv' /\ Advance(q) /\ Footprint(q)
  BY ServeKeeps, StepKeeps, ServeFoot DEF Sound, NumbersInv
<1>2. ASSUME n \in rented, n \notin rented' PROVE Paid(n, ws)'
  <2>1. DeleteNumber(q) \/ PurchaseNumber(q)
    BY <1>1, <1>2, ServedBy DEF Footprint, BesideKept, Asks
  <2>2. ReleaseNumber(q) /\ DeleteNumber(q)
    BY <1>2, <2>1 DEF DeleteNumber, PurchaseNumber, Fetch, Lookup, Missing, Change, ChangeRow, Put, Finish, Refuse, Gate,
         ReadPlan, ReadLimit, CountUsage, FindNumber, OrderNumber, Insert, tables
  <2>3. n = serving[q].read.key /\ ~At(q, "start")
    BY <1>2, <2>2 DEF ReleaseNumber, At
  <2>4. serving'[q].read = serving[q].read /\ serving'[q].at = "persist" /\ serving'[q].answer = serving[q].answer
    BY <2>2 DEF ReleaseNumber, Goes, IInv, RequestOK, Fields
  <2>5. serving[q].answer = "none"
    BY <2>2 DEF NumbersInv, Releasing, DeleteNumber, ReleaseNumber, At
  <2>6. Releases(q, n)'
    BY <1>1, <2>2, <2>3, <2>4, <2>5 DEF Releases, DeleteNumber, Advance, Asks, At
  <2> QED
    BY <2>6 DEF Paid
<1>3. ASSUME NEW k \in Rows("provider_keys"), rows[k].ws = ws PROVE Paid(n, ws)'
  <2>1. k \in DOMAIN rows /\ TableOf(k) = "provider_keys"
    BY DEF Rows
  <2>2. CASE k \in DOMAIN rows'
    <3>1. rows[k].ws = MakerOf(k) /\ rows'[k].ws = MakerOf(k)
      BY <1>1, <2>1, <2>2 DEF IInv, Sane, WellStored, RowStored, Personal
    <3>2. k \in Rows("provider_keys")'
      BY <2>1, <2>2 DEF Rows, TableOf
    <3> QED
      BY <1>3, <3>1, <3>2 DEF Paid
  <2>3. CASE k \notin DOMAIN rows'
    <3>1. CASE Retires(q, ws) \/ Retiring(q, ws)
      <4>1. Retires(q, ws)'
        BY <3>1, ExcusesLast
      <4> QED
        BY <4>1 DEF Paid
    <3>2. CASE Asks(q, "delete_key") /\ serving[q].ws = ws /\ serving'[q].wrote
      BY <1>1, <3>2 DEF Paid, Advance, Asks
    <3> QED
      BY <1>3, <2>3, <3>1, <3>2, KeyCut
  <2> QED
    BY <2>2, <2>3
<1>4. ASSUME NEW p \in Requests, Releases(p, n) \/ Retires(p, ws) PROVE Paid(n, ws)'
  <2>1. Releases(p, n)' \/ Retires(p, ws)'
    BY <1>4, ExcusesLast
  <2> QED
    BY <2>1 DEF Paid
<1>5. ASSUME NEW p \in Requests, Asks(p, "delete_key") /\ serving[p].wrote /\ serving[p].ws = ws PROVE Paid(n, ws)'
  <2>1. serving'[p].wrote
    BY <1>5, ExcusesLast
  <2>2. serving'[p].kind = serving[p].kind /\ serving'[p].ws = serving[p].ws
    BY <1>1 DEF Advance
  <2> QED
    BY <1>5, <2>1, <2>2 DEF Paid, Asks
<1> QED
  BY <1>2, <1>3, <1>4, <1>5 DEF Paid

-----------------------------------------------------------------------------
(* The rows of the numbers.                                                 *)

LEMMA BuyerSells ==
  ASSUME IInv, NumbersInv, NEW q \in Requests, Asks(q, "purchase_number"), At(q, "persist")
  PROVE  /\ serving[q].ws \in Workspaces /\ ~serving[q].wrote /\ serving[q].answer = "none"
         /\ Paid(serving[q].val, serving[q].ws)
         /\ \A i \in serving[q].saw : /\ Revivable(q, i)
                                      /\ i \in DOMAIN rows => rows[i].key = serving[q].val
<1>1. Buying(q) /\ RequestOK(q)
  BY DEF NumbersInv, IInv
<1>2. serving[q].ws \in Workspaces
  BY <1>1 DEF RequestOK, JobFits, OfVisitors, Asks
<1>3. ASSUME NEW i \in serving[q].saw PROVE Revivable(q, i)
  <2>1. PICK r \in serving[q].saw : Revivable(q, r)
    BY <1>1, <1>3 DEF Buying, Underway, At
  <2> QED
    BY <2>1, <1>3 DEF Revivable
<1> QED
  BY <1>1, <1>2, <1>3 DEF Buying, Revivable, At

LEMMA NumberRows ==
  ASSUME IInv, NumbersInv, NEW q \in Requests, Serve(q), NEW i \in Rows("phone_numbers")'
  PROVE  /\ NumberOK(i)'
         /\ (Held(i) => Paid(rows[i].key, rows[i].ws))'
<1>1. i \in DOMAIN rows' /\ TableOf(i) = "phone_numbers" /\ Found(q)
  BY DEF Rows, TableOf, NumbersInv
<1>2. NumberEffect(q, i)
  BY <1>1, NumberStep
<1>3. ASSUME NEW n, NEW ws, rows'[i].key = n, rows'[i].ws = ws, Paid(n, ws) PROVE Paid(rows[i].key, rows[i].ws)'
  <2>1. Paid(n, ws)'
    BY <1>3, PaidLasts
  <2> QED
    BY <1>3, <2>1 DEF Paid, Rows, Releases, Retires, Asks, At, Target, Home
<1>4. CASE Same(i) \/ LetGo(q, i)
  <2>1. i \in Rows("phone_numbers") /\ rows'[i].ws = rows[i].ws /\ rows'[i].key = rows[i].key
    BY <1>1, <1>4 DEF Same, LetGo, Rows
  <2>2. NumberOK(i) /\ (Held(i) => Paid(rows[i].key, rows[i].ws))
    BY <2>1 DEF NumbersInv
  <2>3. rows'[i].flag \in {rows[i].flag, "off"}
    BY <1>4 DEF Same, LetGo
  <2>4. Born(i)'
    BY <2>2, BornLasts DEF NumberOK
  <2>5. ASSUME rows'[i].flag = "on" PROVE Paid(rows[i].key, rows[i].ws)'
    <3>1. PICK n : n = rows[i].key
      OBVIOUS
    <3>2. PICK ws : ws = rows[i].ws
      OBVIOUS
    <3>3. Paid(n, ws)
      BY <2>2, <2>3, <2>5, <3>1, <3>2 DEF Held
    <3> QED
      BY <1>3, <2>1, <3>1, <3>2, <3>3
  <2> QED
    BY <2>1, <2>2, <2>3, <2>4, <2>5 DEF NumberOK, Held
<1>5. CASE TakenUp(q, i) \/ Entered(q, i)
  <2>1. /\ Asks(q, "purchase_number") /\ At(q, "persist")
        /\ rows'[i].ws = serving[q].ws /\ rows'[i].flag = "on"
    BY <1>5 DEF TakenUp, Entered
  <2>2. rows'[i].key = serving[q].val
    BY <1>5, <2>1, BuyerSells DEF TakenUp, Entered
  <2>3. serving[q].ws \in Workspaces /\ Paid(serving[q].val, serving[q].ws)
    BY <2>1, BuyerSells
  <2>4. Born(i)'
    <3>1. CASE TakenUp(q, i)
      BY <1>1, <3>1, BornLasts DEF TakenUp, Rows, NumbersInv, NumberOK
    <3>2. CASE Entered(q, i)
      <4>1. serving'[q].wrote
        BY <3>2, WroteSets DEF Entered
      <4>2. MakerOf(i) = q
        BY <3>2, RowIdMade DEF Entered
      <4> QED
        BY <4>1, <4>2 DEF Born, MakerOf
    <3> QED
      BY <1>5, <3>1, <3>2
  <2>5. Paid(rows[i].key, rows[i].ws)'
    <3>1. PICK n : n = serving[q].val
      OBVIOUS
    <3>2. PICK ws : ws = serving[q].ws
      OBVIOUS
    <3>3. Paid(n, ws)
      BY <2>3, <3>1, <3>2
    <3> QED
      BY <1>3, <2>1, <2>2, <3>1, <3>2, <3>3
  <2> QED
    BY <2>1, <2>3, <2>4, <2>5 DEF NumberOK
<1>6. CASE Gone(q, i)
  BY <1>1, <1>6 DEF Gone
<1> QED
  BY <1>2, <1>4, <1>5, <1>6 DEF NumberEffect

LEMMA OneRowStays ==
  ASSUME IInv, NumbersInv, NEW q \in Requests, Serve(q)
  PROVE  OneRowEach'
<1> SUFFICES ASSUME NEW i \in Rows("phone_numbers")', NEW j \in Rows("phone_numbers")', rows'[i].key = rows'[j].key, i # j
             PROVE  FALSE
  BY DEF OneRowEach
<1>1. /\ i \in DOMAIN rows' /\ TableOf(i) = "phone_numbers" /\ j \in DOMAIN rows' /\ TableOf(j) = "phone_numbers"
      /\ Found(q)
  BY DEF Rows, TableOf, NumbersInv
<1>2. NumberEffect(q, i) /\ NumberEffect(q, j)
  BY <1>1, NumberStep
<1>3. ASSUME NEW k \in {i, j} PROVE Entered(q, k) \/ (k \in Rows("phone_numbers") /\ rows'[k].key = rows[k].key)
  BY <1>1, <1>2, <1>3 DEF NumberEffect, Same, LetGo, TakenUp, Gone, Rows
<1>4. CASE i \in Rows("phone_numbers") /\ rows'[i].key = rows[i].key /\ j \in Rows("phone_numbers") /\ rows'[j].key = rows[j].key
  BY <1>4 DEF NumbersInv, OneRowEach
<1>5. CASE Entered(q, i) \/ Entered(q, j)
  BY <1>3, <1>5 DEF Entered
<1> QED
  BY <1>3, <1>4, <1>5

LEMMA EnteredOnce ==
  ASSUME IInv, NumbersInv, NEW q \in Requests, NEW i, Born(i)
  PROVE  ~Entered(q, i)
<1> SUFFICES ASSUME Entered(q, i) PROVE FALSE
  OBVIOUS
<1>1. i = <<"phone_numbers", q>> /\ Asks(q, "purchase_number") /\ At(q, "persist")
  BY DEF Entered
<1>2. MakerOf(i) = q
  BY <1>1 DEF MakerOf
<1>3. ~serving[q].wrote
  BY <1>1, BuyerSells
<1> QED
  BY <1>2, <1>3, MakersAssumption DEF Born

LEMMA KeyStays ==
  ASSUME IInv, NumbersInv, NEW q \in Requests, Serve(q), NEW i, TableOf(i) = "phone_numbers", Born(i), i \in DOMAIN rows'
  PROVE  i \in DOMAIN rows /\ rows'[i].key = rows[i].key
<1>1. NumberEffect(q, i)
  BY NumberStep DEF NumbersInv
<1>2. ~Entered(q, i)
  BY EnteredOnce
<1> QED
  BY <1>1, <1>2 DEF NumberEffect, Same, LetGo, TakenUp, Gone

\* Whatever happens to the row of a number leaves its trace.
LEMMA RunsOver ==
  ASSUME IInv, NumbersInv, NEW q \in Requests, Serve(q), NEW i \in Rows("phone_numbers"), NEW n, n = rows[i].key,
         NEW ws, ws = rows[i].ws
  PROVE  \/ Same(i)
         \/ LetGo(q, i) /\ Releases(q, n)'
         \/ TakenUp(q, i) /\ Revives(q, n)'
         \/ Gone(q, i) /\ Retires(q, ws)'
<1>1. i \in DOMAIN rows /\ TableOf(i) = "phone_numbers" /\ Born(i)
  BY DEF Rows, NumbersInv, NumberOK
<1>2. NumberEffect(q, i) /\ ~Entered(q, i)
  BY <1>1, NumberStep, EnteredOnce DEF NumbersInv
<1>3. Advance(q)
  BY ServeKeeps DEF Sound
<1>4. CASE LetGo(q, i)
  <2>1. DeleteNumber(q) /\ At(q, "persist") /\ i = Target(q)
    BY <1>4, ServedBy DEF LetGo
  <2>2. Releasing(q)
    BY <2>1 DEF NumbersInv, DeleteNumber
  <2>3. serving[q].answer = "none"
    BY <2>1, <2>2 DEF Releasing, At
  <2>4. serving[q].read.key = n
    BY <1>1, <2>1, <2>2, <2>3 DEF Releasing, At
  <2>5. serving'[q].at # "start" /\ serving'[q].answer # "refused" /\ serving'[q].read = serving[q].read
    BY <2>1, <2>3, ReleaseMoves DEF At
  <2> QED
    BY <1>3, <1>4, <2>1, <2>4, <2>5 DEF Releases, DeleteNumber, Advance, Asks, At
<1>5. CASE TakenUp(q, i)
  <2>1. Asks(q, "purchase_number") /\ At(q, "persist") /\ i \in serving[q].saw /\ Wrote(q, "answer")
    BY <1>5 DEF TakenUp
  <2>2. Revivable(q, i) /\ serving[q].val = n
    BY <1>1, <2>1, BuyerSells
  <2>3. serving'[q].wrote /\ serving'[q].saw = serving[q].saw /\ serving'[q].read = serving[q].read
    BY <2>1, WroteSets, MovesHold
  <2> QED
    BY <1>3, <1>5, <2>1, <2>2, <2>3 DEF Revives, Buys, Revivable, Advance, Asks
<1>6. CASE Gone(q, i)
  BY <1>6, ExcusesLast DEF Gone
<1> QED
  BY <1>2, <1>4, <1>5, <1>6 DEF NumberEffect

LEMMA RetiredLasts ==
  ASSUME IInv, NumbersInv, NEW q \in Requests, Serve(q), SomeRetired
  PROVE  SomeRetired'
BY ExcusesLast DEF SomeRetired

LEMMA RevivableLasts ==
  ASSUME IInv, NumbersInv, NEW q \in Requests, Serve(q), NEW p \in Requests, Asks(p, "purchase_number"),
         NEW r, Revivable(p, r), serving'[p].saw = serving[p].saw, serving'[p].read = serving[p].read,
         p # q \/ rows' = rows
  PROVE  Revivable(p, r)'
<1>1. serving'[p].val = serving[p].val /\ serving'[p].ws = serving[p].ws
  BY ServeKeeps DEF Sound, Advance
<1>2. TableOf(r) = "phone_numbers"
  BY DEF IInv, Holds, SeesNumbers, Revivable
<1>3. Born(r) /\ Born(r)'
  BY BornLasts DEF Revivable
<1>4. r \in DOMAIN rows' => rows'[r].key = serving'[p].val
  BY <1>1, <1>2, <1>3, KeyStays DEF Revivable
<1>5. CASE r \notin DOMAIN rows
  <2>1. r \notin DOMAIN rows'
    BY <1>2, <1>3, <1>5, KeyStays
  <2>2. SomeRetired' /\ Overrun(p)'
    BY <1>5, RetiredLasts, OverrunLasts DEF Revivable
  <2> QED
    BY <1>3, <2>1, <2>2 DEF Revivable
<1>6. CASE r \in DOMAIN rows
  <2>1. r \in Rows("phone_numbers") /\ rows[r].ws \in Workspaces
    BY <1>2, <1>6 DEF Rows, NumbersInv, NumberOK
  <2>2. PICK n : n = rows[r].key
    OBVIOUS
  <2>3. PICK ws : ws = rows[r].ws
    OBVIOUS
  <2>4. n = serving'[p].val
    BY <1>1, <1>6, <2>2 DEF Revivable
  <2>5. \/ Same(r)
        \/ LetGo(q, r) /\ Releases(q, n)'
        \/ TakenUp(q, r) /\ Revives(q, n)'
        \/ Gone(q, r) /\ Retires(q, ws)'
    BY <2>1, <2>2, <2>3, RunsOver
  <2>6. r \notin DOMAIN rows' => SomeRetired'
    BY <2>1, <2>3, <2>5 DEF Same, LetGo, TakenUp, Gone, SomeRetired
  <2>7. Overrun(p)' \/ (r \in DOMAIN rows' /\ rows'[r].ws = serving'[p].read.ws)
    <3>1. CASE Overrun(p)
      BY <3>1, OverrunLasts
    <3>2. CASE rows[r].ws = serving[p].read.ws
      <4>1. CASE Same(r) \/ LetGo(q, r)
        BY <3>2, <4>1 DEF Same, LetGo
      <4>2. CASE TakenUp(q, r) /\ Revives(q, n)'
        <5>1. q # p \/ rows' = rows
          OBVIOUS
        <5>2. CASE rows' = rows
          BY <1>6, <3>2, <5>2
        <5>3. CASE q # p
          BY <2>4, <4>2, <5>3 DEF Overrun, Revives, Buys, Asks
        <5> QED
          BY <5>1, <5>2, <5>3
      <4>3. CASE Gone(q, r) /\ Retires(q, ws)'
        <5>1. q # p
          BY <4>3 DEF Gone, Retiring, Asks
        <5>2. ws \in Sides(p)'
          BY <2>3, <3>2 DEF Sides, Revivable
        <5> QED
          BY <4>3, <5>1, <5>2 DEF Overrun
      <4> QED
        BY <2>5, <4>1, <4>2, <4>3
    <3> QED
      BY <3>1, <3>2 DEF Revivable
  <2> QED
    BY <1>3, <1>4, <2>6, <2>7 DEF Revivable
<1> QED
  BY <1>5, <1>6

LEMMA SoldLasts ==
  ASSUME IInv, NumbersInv, NEW q \in Requests, Serve(q), NEW p \in Requests, Asks(p, "purchase_number"),
         Sold(p), serving'[p].saw = serving[p].saw, serving'[p].read = serving[p].read, ~At(p, "persist")
  PROVE  Sold(p)'
<1>1. serving'[p].val = serving[p].val /\ serving'[p].ws = serving[p].ws
  BY ServeKeeps DEF Sound, Advance
<1>2. CASE Overrun(p)
  BY <1>2, OverrunLasts DEF Sold
<1>3. CASE ~Overrun(p)
  <2> DEFINE b == BoughtRow(p)
  <2>1. /\ b \in Rows("phone_numbers") /\ Held(b) /\ rows[b].ws = serving[p].ws /\ rows[b].key = serving[p].val
    BY <1>3 DEF Sold
  <2>2. b' = b
    BY DEF BoughtRow
  <2> HIDE DEF b
  <2>3. PICK i : i = b
    OBVIOUS
  <2>4. PICK n : n = serving[p].val
    OBVIOUS
  <2>5. PICK ws : ws = serving[p].ws
    OBVIOUS
  <2>6. \/ Same(i)
        \/ LetGo(q, i) /\ Releases(q, n)'
        \/ TakenUp(q, i) /\ Revives(q, n)'
        \/ Gone(q, i) /\ Retires(q, ws)'
    BY <2>1, <2>3, <2>4, <2>5, RunsOver
  <2>7. CASE Same(i)
    <3>1. i \in Rows("phone_numbers")'
      BY <2>1, <2>3, <2>7 DEF Same, Rows, TableOf
    <3> QED
      BY <1>1, <2>1, <2>2, <2>3, <2>7, <3>1 DEF Same, Sold, Held, b
  <2>8. CASE LetGo(q, i) /\ Releases(q, n)'
    <3>1. q # p
      BY <2>8 DEF LetGo, Asks
    <3> QED
      BY <1>1, <2>4, <2>8, <3>1 DEF Sold, Overrun, Releases, Asks, At
  <2>9. CASE TakenUp(q, i) /\ Revives(q, n)'
    <3>1. q # p
      BY <2>9 DEF TakenUp
    <3> QED
      BY <1>1, <2>4, <2>9, <3>1 DEF Sold, Overrun, Revives, Buys, Asks
  <2>10. CASE Gone(q, i) /\ Retires(q, ws)'
    <3>1. q # p
      BY <2>10 DEF Gone, Retiring, Asks
    <3>2. ws \in Sides(p)'
      BY <1>1, <2>5 DEF Sides
    <3> QED
      BY <2>10, <3>1, <3>2 DEF Sold, Overrun
  <2> QED
    BY <2>6, <2>7, <2>8, <2>9, <2>10
<1> QED
  BY <1>2, <1>3

-----------------------------------------------------------------------------
(* The handlers of a purchase and of a release.                             *)

LEMMA GateOutcome ==
  ASSUME IInv, NEW q \in Requests, NEW here, NEW feature, NEW next, Gate(q, here, feature, next)
  PROVE  /\ serving'[q].wrote = serving[q].wrote
         /\ \/ serving'[q].at \in {"limit", "count", next} /\ serving'[q].answer = serving[q].answer
            \/ serving'[q].at = "done" /\ serving'[q].answer \in {"refused", "failed"}
<1> RequestOK(q) /\ DOMAIN serving = Requests
  BY DEF IInv
<1>1. CASE ReadPlan(q, here, "limit")
  BY <1>1 DEF ReadPlan, RequestOK, Fields
<1>2. CASE ReadLimit(q, feature, next)
  BY <1>2 DEF ReadLimit, Ends, Goes, RequestOK, Fields
<1>3. CASE CountUsage(q, feature, next)
  BY <1>3 DEF CountUsage, Ends, RequestOK, Fields
<1> QED
  BY <1>1, <1>2, <1>3 DEF Gate

\* A purchase that goes on to, or on from, the row it found.
LEMMA UnderwayKeeps ==
  ASSUME IInv, NumbersInv, NEW q \in Requests, Serve(q), Asks(q, "purchase_number"), NEW next \in Underway, Goes(q, next),
         rows' = rows, serving[q].at \in Underway,
         next = "persist" => Paid(serving[q].val, serving[q].ws)'
  PROVE  Buying(q)'
<1> RequestOK(q) /\ DOMAIN serving = Requests /\ Buying(q)
  BY DEF IInv, NumbersInv
<1>1. /\ serving'[q].at = next /\ serving'[q].answer = serving[q].answer /\ serving'[q].wrote = serving[q].wrote
      /\ serving'[q].saw = serving[q].saw /\ serving'[q].read = serving[q].read
  BY DEF Goes, RequestOK, Fields
<1>2. ~serving[q].wrote /\ serving[q].answer = "none"
  BY DEF Buying, Underway, At
<1>3. ASSUME NEW r \in serving[q].saw, Revivable(q, r) PROVE Revivable(q, r)'
  BY <1>1, <1>3, RevivableLasts
<1>4. serving'[q].saw = {} \/ \E r \in serving'[q].saw : Revivable(q, r)'
  BY <1>1, <1>3 DEF Buying
<1> QED
  BY <1>1, <1>2, <1>4 DEF Buying, Underway, Done, At

LEMMA FindKeeps ==
  ASSUME IInv, NumbersInv, NEW q \in Requests, Serve(q), Asks(q, "purchase_number"), At(q, "find"),
         \A i \in WithNumber(q) : ~Held(i), UNCHANGED tables,
         serving' = [serving EXCEPT ![q].at = "key", ![q].saw = WithNumber(q),
                       ![q].read = IF WithNumber(q) = {} THEN None ELSE rows[CHOOSE i \in WithNumber(q) : TRUE]]
  PROVE  Buying(q)'
<1> RequestOK(q) /\ DOMAIN serving = Requests /\ Buying(q)
  BY DEF IInv, NumbersInv
<1>1. /\ serving'[q].at = "key" /\ serving'[q].answer = serving[q].answer /\ serving'[q].wrote = serving[q].wrote
      /\ serving'[q].saw = WithNumber(q) /\ serving'[q].val = serving[q].val
      /\ serving'[q].read = IF WithNumber(q) = {} THEN None ELSE rows[CHOOSE i \in WithNumber(q) : TRUE]
  BY DEF RequestOK, Fields
<1>2. ~serving[q].wrote /\ serving[q].answer = "none"
  BY DEF Buying, At
<1>3. CASE WithNumber(q) = {}
  BY <1>1, <1>2, <1>3 DEF Buying, Underway, Done, At
<1>4. CASE WithNumber(q) # {}
  <2>1. PICK r \in WithNumber(q) : r = CHOOSE i \in WithNumber(q) : TRUE
    BY <1>4
  <2>2. r \in Rows("phone_numbers") /\ rows[r].key = serving[q].val /\ ~Held(r)
    BY DEF WithNumber
  <2>3. WithNumber(q) = {r}
    BY <2>2 DEF WithNumber, NumbersInv, OneRowEach
  <2>4. rows[r].flag = "off" /\ Born(r) /\ r \in DOMAIN rows
    BY <2>2 DEF NumbersInv, NumberOK, Held, Rows
  <2>5. Born(r)'
    BY <2>4, BornLasts
  <2>6. Revivable(q, r)'
    BY <1>1, <1>4, <2>1, <2>2, <2>3, <2>4, <2>5 DEF Revivable, tables
  <2> QED
    BY <1>1, <1>2, <2>3, <2>6 DEF Buying, Underway, Done, At
<1> QED
  BY <1>3, <1>4

LEMMA BuyingEnds ==
  ASSUME IInv, NEW q \in Requests, Buying(q), ~serving[q].wrote, Ends(q, "refused") \/ Ends(q, "failed")
  PROVE  Buying(q)'
<1> RequestOK(q) /\ DOMAIN serving = Requests
  BY DEF IInv
<1>1. /\ serving'[q].at = "done" /\ serving'[q].answer \in {"refused", "failed"} /\ ~serving'[q].wrote
  BY DEF Ends, RequestOK, Fields
<1> QED
  BY <1>1 DEF Buying, Underway, Done, At

LEMMA BuyingWrites ==
  ASSUME IInv, NumbersInv, NEW q \in Requests, Serve(q), PurchaseNumber(q), At(q, "persist"),
         \/ serving[q].saw = {} /\ Insert(q, "persist", "phone_numbers", "new", "on", "answer")
         \/ \E i \in serving[q].saw : ChangeRow(q, "persist", i, Revived(q, i), "answer")
  PROVE  Buying(q)'
<1> RequestOK(q) /\ DOMAIN serving = Requests /\ Buying(q) /\ Asks(q, "purchase_number")
  BY DEF IInv, NumbersInv, PurchaseNumber
<1>0. ~serving[q].wrote /\ serving[q].answer = "none"
  BY BuyerSells
<1>1. ASSUME Ends(q, "failed") PROVE Buying(q)'
  BY <1>0, <1>1, BuyingEnds
<1>2. ASSUME Sold(q)', Goes(q, "answer") \/ Wrote(q, "answer") PROVE Buying(q)'
  <2>1. serving'[q].at = "answer" /\ serving'[q].answer = "none"
    BY <1>0, <1>2 DEF Goes, Wrote, RequestOK, Fields
  <2> QED
    BY <1>2, <2>1 DEF Buying, Underway, Done, At
<1>3. ASSUME NEW b, TableOf(b) = "phone_numbers", b \in DOMAIN rows', rows'[b].ws = serving[q].ws,
             rows'[b].key = serving[q].val, rows'[b].flag = "on", Wrote(q, "answer"),
             IF serving[q].saw = {} THEN b = <<"phone_numbers", q>> ELSE serving[q].saw = {b}
      PROVE  Buying(q)'
  <2>1. serving'[q].saw = serving[q].saw /\ serving'[q].ws = serving[q].ws /\ serving'[q].val = serving[q].val
    BY <1>3 DEF Wrote, RequestOK, Fields
  <2>2. BoughtRow(q)' = b
    BY <1>3, <2>1 DEF BoughtRow
  <2>3. b \in Rows("phone_numbers")'
    BY <1>3 DEF Rows, TableOf
  <2>4. Sold(q)'
    BY <1>3, <2>1, <2>2, <2>3 DEF Sold, Held
  <2> QED
    BY <1>2, <1>3, <2>4
<1>4. ASSUME serving[q].saw = {}, Insert(q, "persist", "phone_numbers", "new", "on", "answer") PROVE Buying(q)'
  <2> DEFINE new == <<"phone_numbers", q>>
  <2>1. CASE rows' = With(rows, new, NewRow(q, "new", "on")) /\ Wrote(q, "answer")
    <3>1. /\ new \in DOMAIN rows' /\ rows'[new].ws = serving[q].ws /\ rows'[new].key = serving[q].val
          /\ rows'[new].flag = "on" /\ TableOf(new) = "phone_numbers"
      BY <2>1 DEF With, NewRow, TableOf
    <3> QED
      BY <1>3, <1>4, <2>1, <3>1
  <2> QED
    BY <1>1, <1>4, <2>1 DEF Insert, Put
<1>5. ASSUME NEW r \in serving[q].saw, ChangeRow(q, "persist", r, Revived(q, r), "answer") PROVE Buying(q)'
  <2>1. Revivable(q, r) /\ TableOf(r) = "phone_numbers"
    BY <1>5, BuyerSells DEF IInv, Holds, SeesNumbers
  <2>2. CASE r \in DOMAIN rows /\ rows' = With(rows, r, Revived(q, r)) /\ Wrote(q, "answer")
    <3>1. DOMAIN rows[r] = Columns \cup {"ws"}
      BY <2>2 DEF IInv, Sane, WellStored, RowStored
    <3>2. /\ r \in DOMAIN rows' /\ rows'[r].ws = serving[q].ws /\ rows'[r].key = rows[r].key /\ rows'[r].flag = "on"
      BY <2>2, <3>1 DEF With, Revived, Columns
    <3> QED
      BY <1>3, <2>1, <2>2, <3>2 DEF Revivable
  <2>3. CASE r \notin DOMAIN rows /\ Goes(q, "answer")
    <3>1. serving'[q].saw = serving[q].saw /\ serving'[q].read = serving[q].read
      BY <2>3, MovesHold
    <3>2. Overrun(q)'
      BY <2>1, <2>3, <3>1, OverrunLasts DEF Revivable
    <3> QED
      BY <1>2, <2>3, <3>2 DEF Sold
  <2> QED
    BY <1>1, <1>5, <2>2, <2>3 DEF ChangeRow, Put
<1> QED
  BY <1>4, <1>5

LEMMA BuyingKeeps ==
  ASSUME IInv, NumbersInv, NEW q \in Requests, Serve(q), Asks(q, "purchase_number")
  PROVE  Buying(q)'
<1> RequestOK(q) /\ DOMAIN serving = Requests /\ Buying(q) /\ PurchaseNumber(q)
  BY ServedBy DEF IInv, NumbersInv
<1>0. serving[q].at \notin {"answer", "done"} => ~serving[q].wrote /\ serving[q].answer = "none"
  BY DEF Buying, At
<1>1. ASSUME NEW here \in {"start", "find", "account"}, Refuse(q, here) PROVE Buying(q)'
  BY <1>0, <1>1, BuyingEnds DEF Refuse, At
<1>2. ASSUME Gate(q, "start", "phone_numbers", "find") PROVE Buying(q)'
  <2>1. serving[q].at \in {"start", "limit", "count"}
    BY <1>2 DEF Gate, ReadPlan, ReadLimit, CountUsage, At
  <2>2. ~serving'[q].wrote
    BY <1>0, <1>2, <2>1, GateOutcome
  <2>3. CASE serving'[q].at \in {"limit", "count", "find"} /\ serving'[q].answer = serving[q].answer
    BY <1>0, <2>1, <2>2, <2>3 DEF Buying, Underway, Done, At
  <2>4. CASE serving'[q].at = "done" /\ serving'[q].answer \in {"refused", "failed"}
    BY <2>2, <2>4 DEF Buying, Underway, Done, At
  <2> QED
    BY <1>2, <2>3, <2>4, GateOutcome
<1>3. ASSUME FindNumber(q) PROVE Buying(q)'
  BY <1>1, <1>3, FindKeeps DEF FindNumber
<1>4. ASSUME At(q, "key"), Goes(q, IF OwnKey(q) THEN "persist" ELSE "account"), UNCHANGED tables PROVE Buying(q)'
  <2>1. CASE ~OwnKey(q)
    BY <1>4, <2>1, UnderwayKeeps DEF Underway, At, tables
  <2>2. CASE OwnKey(q)
    <3>1. PICK k \in Rows("provider_keys") : rows[k].ws = serving[q].ws
      BY <2>2 DEF OwnKey, Own
    <3>2. PICK n : n = serving[q].val
      OBVIOUS
    <3>3. PICK ws : ws = serving[q].ws
      OBVIOUS
    <3>4. Paid(n, ws)'
      <4>1. Paid(n, ws)
        BY <3>1, <3>3 DEF Paid
      <4> QED
        BY <4>1, PaidLasts
    <3>5. serving'[q].val = n /\ serving'[q].ws = ws
      BY <3>2, <3>3, ServeKeeps DEF Sound, Advance
    <3>6. Paid(serving[q].val, serving[q].ws)'
      BY <3>4, <3>5 DEF Paid
    <3> QED
      BY <1>4, <2>2, <3>6, UnderwayKeeps DEF Underway, At, tables
  <2> QED
    BY <2>1, <2>2
<1>5. ASSUME At(q, "account"), Goes(q, "order"), UNCHANGED tables PROVE Buying(q)'
  BY <1>5, UnderwayKeeps DEF Underway, At, tables
<1>6. ASSUME OrderNumber(q) PROVE Buying(q)'
  <2>1. CASE Ends(q, "failed")
    BY <1>0, <1>6, <2>1, BuyingEnds DEF OrderNumber, At
  <2>2. CASE rented' = rented \cup {serving[q].val} /\ Goes(q, "persist")
    <3>1. serving'[q].val = serving[q].val
      BY ServeKeeps DEF Sound, Advance
    <3>2. Paid(serving[q].val, serving[q].ws)'
      BY <2>2, <3>1 DEF Paid
    <3> QED
      BY <1>6, <2>2, <3>2, UnderwayKeeps DEF OrderNumber, Underway, At
  <2> QED
    BY <1>6, <2>1, <2>2 DEF OrderNumber
<1>7. ASSUME \/ serving[q].saw = {} /\ Insert(q, "persist", "phone_numbers", "new", "on", "answer")
             \/ \E i \in serving[q].saw : ChangeRow(q, "persist", i, Revived(q, i), "answer")
      PROVE  Buying(q)'
  BY <1>7, BuyingWrites DEF Insert, Put, ChangeRow
<1>8. ASSUME Finish(q, "answer") PROVE Buying(q)'
  <2>1. /\ serving'[q].saw = serving[q].saw /\ serving'[q].read = serving[q].read
        /\ At(q, "answer") /\ serving'[q].at = "done" /\ serving'[q].answer = "ok"
    BY <1>8, ReviveMoves DEF Finish, At
  <2>2. Sold(q)'
    BY <2>1, SoldLasts DEF Buying, At
  <2> QED
    BY <2>1, <2>2 DEF Buying, Underway, Done, At
<1> QED
  BY <1>1, <1>2, <1>3, <1>4, <1>5, <1>6, <1>7, <1>8 DEF PurchaseNumber

LEMMA BuyingOthers ==
  ASSUME IInv, NumbersInv, NEW q \in Requests, Serve(q), NEW p \in Requests \ {q}, Asks(p, "purchase_number")
  PROVE  Buying(p)'
<1>1. serving'[p] = serving[p]
  BY ServeKeeps DEF Sound, Advance
<1>2. Buying(p)
  BY DEF NumbersInv
<1>3. ASSUME NEW r \in serving[p].saw, Revivable(p, r) PROVE Revivable(p, r)'
  BY <1>1, <1>3, RevivableLasts
<1>4. serving'[p].at \in Underway => serving'[p].saw = {} \/ \E r \in serving'[p].saw : Revivable(p, r)'
  BY <1>1, <1>2, <1>3 DEF Buying
<1>5. ASSUME At(p, "persist") PROVE Paid(serving[p].val, serving[p].ws)'
  <2>1. PICK n : n = serving[p].val
    OBVIOUS
  <2>2. PICK ws : ws = serving[p].ws
    OBVIOUS
  <2>3. Paid(n, ws)'
    <3>1. Paid(n, ws)
      BY <1>2, <1>5, <2>1, <2>2 DEF Buying
    <3> QED
      BY <3>1, PaidLasts
  <2>4. serving'[p].val = n /\ serving'[p].ws = ws
    BY <1>1, <2>1, <2>2
  <2> QED
    BY <2>3, <2>4 DEF Paid
<1>6. ASSUME At(p, "answer") \/ Done(p) PROVE Sold(p)'
  BY <1>1, <1>2, <1>6, SoldLasts DEF Buying, At, Done
<1> QED
  BY <1>1, <1>2, <1>4, <1>5, <1>6 DEF Buying, Underway, Done, At

LEMMA ReleasingOthers ==
  ASSUME IInv, NumbersInv, NEW q \in Requests, Serve(q), NEW p \in Requests \ {q}, Asks(p, "delete_number")
  PROVE  Releasing(p)'
<1>1. serving'[p] = serving[p]
  BY ServeKeeps DEF Sound, Advance
<1>2. Releasing(p)
  BY DEF NumbersInv
<1>3. PICK i : i = Target(p)
  OBVIOUS
<1>4. TableOf(i) = "phone_numbers"
  <2>1. Target(p) \in RowIds({"phone_numbers"})
    BY DEF IInv, RequestOK, JobFits, Target, Asks
  <2> QED
    BY <1>3, <2>1, RowIdParts
<1>5. ASSUME ~At(p, "start"), serving[p].answer # "refused"
      PROVE  Born(i)' /\ (i \in DOMAIN rows' => rows'[i].key = serving[p].read.key)
  <2>1. Born(i) /\ (i \in DOMAIN rows => rows[i].key = serving[p].read.key)
    BY <1>2, <1>3, <1>5 DEF Releasing
  <2>2. Born(i)'
    BY <2>1, BornLasts
  <2> QED
    BY <1>4, <2>1, <2>2, KeyStays
<1>6. Target(p)' = i
  BY <1>1, <1>3 DEF Target
<1> QED
  BY <1>1, <1>2, <1>5, <1>6 DEF Releasing, At, Born

LEMMA ReleasingKeeps ==
  ASSUME IInv, NumbersInv, NEW q \in Requests, Serve(q), Asks(q, "delete_number")
  PROVE  Releasing(q)'
<1> RequestOK(q) /\ DOMAIN serving = Requests /\ Releasing(q) /\ DeleteNumber(q)
  BY ServedBy DEF IInv, NumbersInv
<1>1. PICK i : i = Target(q)
  OBVIOUS
<1>2. Target(q)' = i
  BY <1>1, ServeKeeps DEF Sound, Advance, Target
<1>3. TableOf(i) = "phone_numbers"
  <2>1. Target(q) \in RowIds({"phone_numbers"})
    BY DEF RequestOK, JobFits, Target, Asks
  <2> QED
    BY <1>1, <2>1, RowIdParts
<1>4. serving'[q].answer # "none" => serving'[q].at = "done"
  <2>1. serving[q].at # "done" => serving[q].answer = "none"
    BY DEF Releasing, At
  <2>2. ASSUME NEW next, Goes(q, next) \/ Wrote(q, next), serving[q].at # "done" PROVE serving'[q].answer = "none"
    BY <2>1, <2>2 DEF Goes, Wrote, RequestOK, Fields
  <2>3. ASSUME NEW answer, Ends(q, answer) PROVE serving'[q].at = "done"
    BY <2>3 DEF Ends, RequestOK, Fields
  <2>4. CASE Lookup(q, "start", "key")
    BY <2>1, <2>4 DEF Lookup, At, RequestOK, Fields
  <2>5. CASE Change(q, "persist", [rows[Target(q)] EXCEPT !.flag = "off"], "answer")
    BY <2>2, <2>3, <2>5 DEF Change, ChangeRow, Put, At
  <2> QED
    BY <2>2, <2>3, <2>4, <2>5 DEF DeleteNumber, Fetch, Missing, ReleaseNumber, Finish, At
<1>5. ASSUME Lookup(q, "start", "key")
      PROVE  Born(i)' /\ (i \in DOMAIN rows' => rows'[i].key = serving'[q].read.key)
  <2>1. i \in Rows("phone_numbers") /\ serving'[q].read = rows[i] /\ rows' = rows
    BY <1>1, <1>3, <1>5 DEF Lookup, Mine, Rows, tables, RequestOK, Fields
  <2>2. Born(i)
    BY <2>1 DEF NumbersInv, NumberOK
  <2>3. Born(i)'
    BY <2>2, BornLasts
  <2> QED
    BY <2>1, <2>3
<1>6. ASSUME ~At(q, "start"), serving'[q].answer # "refused"
      PROVE  Born(i)' /\ (i \in DOMAIN rows' => rows'[i].key = serving'[q].read.key)
  <2>1. serving'[q].read = serving[q].read
    BY <1>6, ReleaseMoves
  <2>2. serving[q].answer # "refused"
    <3>1. serving[q].answer # "none" => At(q, "done")
      BY DEF Releasing
    <3>2. ~At(q, "done")
      BY DEF DeleteNumber, Fetch, Lookup, Missing, ReleaseNumber, Change, ChangeRow, Put, Finish, At
    <3> QED
      BY <3>1, <3>2
  <2>3. Born(i) /\ (i \in DOMAIN rows => rows[i].key = serving[q].read.key)
    BY <1>1, <1>6, <2>2 DEF Releasing
  <2>4. Born(i)'
    BY <2>3, BornLasts
  <2> QED
    BY <1>3, <2>1, <2>3, <2>4, KeyStays
<1>7. At(q, "start") => Lookup(q, "start", "key") \/ serving'[q].answer = "refused"
  BY DEF DeleteNumber, Fetch, Missing, Ends, ReleaseNumber, Change, ChangeRow, Put, Finish, At, RequestOK, Fields
<1>8. serving'[q].at # "start" /\ serving'[q].answer # "refused" =>
        Born(i)' /\ (i \in DOMAIN rows' => rows'[i].key = serving'[q].read.key)
  BY <1>5, <1>6, <1>7
<1> QED
  BY <1>2, <1>4, <1>8 DEF Releasing, At, Born

-----------------------------------------------------------------------------
(* What is billed.                                                          *)

\* BilledIsHeld of one number.
Accounted(n) ==
  \/ \E i \in Rows("phone_numbers") : rows[i].key = n /\ Held(i)
  \/ \E p \in Requests : Releases(p, n) \/ Ordered(p, n)
  \/ SomeRetired

\* An order that has reached its row holds it, and one that has not stays so.
LEMMA OrderedLasts ==
  ASSUME IInv, NumbersInv, NEW q \in Requests, Serve(q), NEW p \in Requests, NEW n, Ordered(p, n)
  PROVE  Accounted(n)'
<1>1. Advance(q) /\ RequestOK(q) /\ DOMAIN serving = Requests
  BY ServeKeeps DEF Sound, IInv
<1>2. CASE p # q
  BY <1>1, <1>2 DEF Accounted, Ordered, Buys, Asks, At, Advance
<1>3. CASE p = q
  <2>1. PurchaseNumber(q) /\ Buying(q) /\ Asks(q, "purchase_number") /\ serving[q].val = n
    BY <1>3, ServedBy DEF Ordered, Buys, NumbersInv
  <2>2. At(q, "persist")
    <3>1. ~At(q, "done")
      BY <2>1, ReviveMoves DEF At
    <3> QED
      BY <1>3, <2>1, <3>1 DEF Ordered, Buying
  <2>3. ASSUME Ends(q, "failed") PROVE Accounted(n)'
    <3>1. serving'[q].answer = "failed"
      BY <1>1, <2>3 DEF Ends, RequestOK, Fields
    <3> QED
      BY <1>1, <2>1, <3>1 DEF Accounted, Ordered, Buys, Asks, At, Advance
  <2>4. ASSUME NEW b, TableOf(b) = "phone_numbers", b \in DOMAIN rows', rows'[b].key = n, rows'[b].flag = "on"
        PROVE  Accounted(n)'
    <3>1. b \in Rows("phone_numbers")'
      BY <2>4 DEF Rows, TableOf
    <3> QED
      BY <2>4, <3>1 DEF Accounted, Held
  <2>5. ASSUME Insert(q, "persist", "phone_numbers", "new", "on", "answer") PROVE Accounted(n)'
    <3> DEFINE new == <<"phone_numbers", q>>
    <3>1. CASE rows' = With(rows, new, NewRow(q, "new", "on"))
      <4>1. new \in DOMAIN rows' /\ rows'[new].key = n /\ rows'[new].flag = "on" /\ TableOf(new) = "phone_numbers"
        BY <2>1, <3>1 DEF With, NewRow, TableOf
      <4> QED
        BY <2>4, <4>1
    <3> QED
      BY <2>3, <2>5, <3>1 DEF Insert, Put
  <2>6. ASSUME NEW r \in serving[q].saw, ChangeRow(q, "persist", r, Revived(q, r), "answer") PROVE Accounted(n)'
    <3>1. Revivable(q, r) /\ TableOf(r) = "phone_numbers"
      BY <2>1, <2>2, <2>6, BuyerSells DEF IInv, Holds, SeesNumbers
    <3>2. CASE r \in DOMAIN rows /\ rows' = With(rows, r, Revived(q, r))
      <4>1. DOMAIN rows[r] = Columns \cup {"ws"}
        BY <3>2 DEF IInv, Sane, WellStored, RowStored
      <4>2. r \in DOMAIN rows' /\ rows'[r].key = rows[r].key /\ rows'[r].flag = "on"
        BY <3>2, <4>1 DEF With, Revived, Columns
      <4> QED
        BY <2>1, <2>4, <3>1, <3>2, <4>2 DEF Revivable
    <3>3. CASE r \notin DOMAIN rows
      BY <3>1, <3>3, RetiredLasts DEF Revivable, Accounted
    <3> QED
      BY <2>3, <2>6, <3>2, <3>3 DEF ChangeRow, Put
  <2>7. \/ Insert(q, "persist", "phone_numbers", "new", "on", "answer")
        \/ \E i \in serving[q].saw : ChangeRow(q, "persist", i, Revived(q, i), "answer")
    BY <2>1, <2>2 DEF PurchaseNumber, Refuse, Gate, ReadPlan, ReadLimit, CountUsage, FindNumber, At, OrderNumber, Finish
  <2> QED
    BY <2>5, <2>6, <2>7
<1> QED
  BY <1>2, <1>3

LEMMA AccountedLasts ==
  ASSUME IInv, NumbersInv, NEW q \in Requests, Serve(q), NEW n, Accounted(n)
  PROVE  Accounted(n)'
<1>1. ASSUME NEW i \in Rows("phone_numbers"), rows[i].key = n, Held(i) PROVE Accounted(n)'
  <2>1. rows[i].ws \in Workspaces /\ TableOf(i) = "phone_numbers"
    BY DEF NumbersInv, NumberOK, Rows
  <2>2. PICK ws : ws = rows[i].ws
    OBVIOUS
  <2>3. \/ Same(i)
        \/ LetGo(q, i) /\ Releases(q, n)'
        \/ TakenUp(q, i) /\ Revives(q, n)'
        \/ Gone(q, i) /\ Retires(q, ws)'
    BY <1>1, <2>2, RunsOver
  <2>4. CASE Same(i) \/ TakenUp(q, i)
    <3>1. i \in Rows("phone_numbers")' /\ rows'[i].key = n /\ rows'[i].flag = "on"
      BY <1>1, <2>1, <2>4 DEF Same, TakenUp, Rows, TableOf, Held
    <3> QED
      BY <3>1 DEF Accounted, Held
  <2> QED
    BY <2>1, <2>2, <2>3, <2>4 DEF Accounted, SomeRetired
<1>2. ASSUME NEW p \in Requests, Releases(p, n) PROVE Accounted(n)'
  <2>1. Releases(p, n)'
    BY <1>2, ExcusesLast
  <2> QED
    BY <2>1 DEF Accounted
<1> QED
  BY <1>1, <1>2, OrderedLasts, RetiredLasts DEF Accounted

LEMMA BilledKeeps ==
  ASSUME IInv, NumbersInv, NEW q \in Requests, Serve(q)
  PROVE  BilledIsHeld'
<1>1. Footprint(q) /\ Advance(q) /\ RequestOK(q) /\ DOMAIN serving = Requests
  BY ServeFoot, ServeKeeps DEF NumbersInv, Sound, IInv
<1>2. ASSUME NEW n \in rented' PROVE Accounted(n)'
  <2>1. CASE n \in rented
    <3>1. Accounted(n)
      BY <2>1 DEF NumbersInv, BilledIsHeld, Accounted, SomeRetired
    <3> QED
      BY <3>1, AccountedLasts
  <2>2. CASE n \notin rented
    <3>1. DeleteNumber(q) \/ PurchaseNumber(q)
      BY <1>1, <2>2, ServedBy DEF Footprint, BesideKept, Asks
    <3>2. OrderNumber(q) /\ PurchaseNumber(q)
      BY <2>2, <3>1 DEF DeleteNumber, PurchaseNumber, Fetch, Lookup, Missing, Change, ChangeRow, Put, Finish, Refuse, Gate,
           ReadPlan, ReadLimit, CountUsage, FindNumber, ReleaseNumber, Insert, tables
    <3>3. n = serving[q].val
      BY <2>2, <3>2 DEF OrderNumber
    <3>4. serving'[q].at = "persist" \/ serving'[q].answer = "failed"
      BY <1>1, <3>2 DEF OrderNumber, Goes, Ends, RequestOK, Fields
    <3>5. Ordered(q, n)'
      BY <1>1, <3>2, <3>3, <3>4 DEF Ordered, Buys, PurchaseNumber, Advance, Asks, At
    <3> QED
      BY <3>5 DEF Accounted
  <2> QED
    BY <2>1, <2>2
<1> QED
  BY <1>2 DEF BilledIsHeld, Accounted, SomeRetired

-----------------------------------------------------------------------------
(* The theorem.                                                             *)

LEMMA NumbersStart == Init => NumbersInv
<1> SUFFICES ASSUME Init PROVE NumbersInv
  OBVIOUS
<1>0. IInv
  BY InitSound
<1>1. PICK load \in Workloads :
        /\ rows = load.rows /\ rented = load.rented
        /\ \E asked \in load.asked : serving = [q \in Requests |-> Received(asked[q])]
  BY DEF Init
<1>2. NumbersStored(rows, rented) /\ Seeded(rows)
  BY <1>1, WorkloadsAssumption
<1>3. ASSUME NEW q \in Requests
      PROVE  /\ serving[q].at = "start" /\ serving[q].answer = "none" /\ serving[q].saw = {}
             /\ ~serving[q].wrote
  BY <1>1 DEF Received
<1>4. ASSUME NEW i \in Rows("phone_numbers") PROVE NumberOK(i)
  BY <1>2 DEF Rows, NumbersStored, Seeded, NumberOK, Born
<1>5. OneRowEach
  BY <1>2 DEF Rows, NumbersStored, OneRowEach
<1>6. ASSUME NEW q \in Requests PROVE Found(q) /\ Buying(q) /\ Releasing(q)
  BY <1>3 DEF Found, Buying, Releasing, Asks, At, Done, Underway
<1>7. BilledIsHeld
  BY <1>2 DEF Rows, NumbersStored, BilledIsHeld, Held
<1>8. ASSUME NEW i \in Rows("phone_numbers"), Held(i) PROVE Paid(rows[i].key, rows[i].ws)
  <2>1. rows[i].key \in rented \/ <<"provider_keys", rows[i].ws>> \in DOMAIN rows
    BY <1>2, <1>8 DEF Rows, NumbersStored, Held
  <2>2. ASSUME NEW ws, ws = rows[i].ws, <<"provider_keys", ws>> \in DOMAIN rows PROVE Paid(rows[i].key, rows[i].ws)
    <3> DEFINE k == <<"provider_keys", ws>>
    <3>1. TableOf(k) = "provider_keys" /\ MakerOf(k) = ws
      BY DEF TableOf, MakerOf
    <3>2. k \in Rows("provider_keys")
      BY <2>2, <3>1 DEF Rows
    <3>3. rows[k].ws = ws
      BY <1>0, <2>2, <3>1 DEF IInv, Sane, WellStored, RowStored, Personal
    <3> QED
      BY <2>2, <3>2, <3>3 DEF Paid
  <2> QED
    BY <2>1, <2>2 DEF Paid
<1> QED
  BY <1>4, <1>5, <1>6, <1>7, <1>8 DEF NumbersInv

LEMMA NumbersServe ==
  ASSUME IInv, NumbersInv, NEW q \in Requests, Serve(q)
  PROVE  NumbersInv'
<1>1. Advance(q)
  BY ServeKeeps DEF Sound
<1>2. ASSUME NEW p \in Requests PROVE Found(p)'
  <2>1. CASE p = q
    BY <2>1, FoundKeeps DEF NumbersInv
  <2>2. CASE p # q
    <3>1. Found(p) /\ serving'[p] = serving[p]
      BY <1>1, <2>2 DEF Advance, NumbersInv
    <3> QED
      BY <3>1 DEF Found, Asks, At
  <2> QED
    BY <2>1, <2>2
<1>3. ASSUME NEW p \in Requests
      PROVE  (Asks(p, "purchase_number")' => Buying(p)') /\ (Asks(p, "delete_number")' => Releasing(p)')
  <2>1. serving'[p].kind = serving[p].kind
    BY <1>1 DEF Advance
  <2> QED
    BY <2>1, BuyingKeeps, BuyingOthers, ReleasingKeeps, ReleasingOthers DEF Asks
<1> QED
  BY <1>2, <1>3, NumberRows, OneRowStays, BilledKeeps DEF NumbersInv

LEMMA NumbersStep == IInv /\ NumbersInv /\ [Next]_vars => NumbersInv'
<1> SUFFICES ASSUME IInv, NumbersInv, [Next]_vars PROVE NumbersInv'
  OBVIOUS
<1>1. CASE UNCHANGED vars
  <2>1. rows' = rows /\ rented' = rented /\ serving' = serving
    BY <1>1 DEF vars
  <2>2. \A n, ws : Paid(n, ws)' = Paid(n, ws)
    BY <2>1 DEF Paid, Rows, TableOf, Releases, Retires, Asks, At, Target, Home
  <2>3. \A i : Born(i)' = Born(i)
    BY <2>1 DEF Born, MakerOf
  <2>4. \A q : Overrun(q)' = Overrun(q)
    BY <2>1 DEF Overrun, Sides, Releases, Revives, Buys, Retires, Asks, At, Target, Home
  <2>5. SomeRetired' = SomeRetired
    BY <2>1 DEF SomeRetired, Retires, Asks, Target, Home
  <2> QED
    BY <2>1, <2>2, <2>3, <2>4, <2>5
    DEF NumbersInv, NumberOK, OneRowEach, Found, Buying, Releasing, BilledIsHeld, Revivable, Sold, BoughtRow,
        Releases, Ordered, Buys, Retires, Held, Rows, TableOf, Done, Asks, At, Target, Home
<1> QED
  BY <1>1, NumbersServe DEF Next

\* A number and its bill go together for any requests of any workspaces: who was
\* told that a number is theirs holds it, what the provider bills for is held,
\* and what is held through the platform is billed, unless a release, another
\* purchase, a lost order or a workspace's deletion is there to blame for it.
THEOREM NumbersAndBills == Spec => []NumbersKept
<1>1. IInv /\ NumbersInv => NumbersKept
  <2> SUFFICES ASSUME IInv, NumbersInv PROVE NumbersKept
    OBVIOUS
  <2>1. ASSUME NEW q \in Requests, Bought(q)
        PROVE  \/ BoughtRow(q) \in DOMAIN rows /\ Held(BoughtRow(q)) /\ rows[BoughtRow(q)].ws = serving[q].ws
               \/ \E p \in Requests \ {q} :
                    \/ Releases(p, serving[q].val) \/ Revives(p, serving[q].val)
                    \/ \E ws \in Sides(q) : Retires(p, ws)
    <3>1. Sold(q)
      BY <2>1 DEF NumbersInv, Buying, Bought
    <3> QED
      BY <3>1 DEF Sold, Overrun, Rows
  <2>2. SoldIsHeld
    BY <2>1 DEF SoldIsHeld
  <2>3. HeldIsBilled
    BY DEF NumbersInv, HeldIsBilled, Paid
  <2> QED
    BY <2>2, <2>3 DEF NumbersKept, NumbersInv
<1> QED
  BY <1>1, Invariance, NumbersStart, NumbersStep, PTL DEF Spec

-----------------------------------------------------------------------------
(* Twins: the inductive invariant.                                          *)

Filers == {"create_ticket", "create_public_ticket"} \cup Doors
Lookers == Filers \cup {"create_contact"}
Routers == {"create_lead", "create_campaign"}

\* The campaign whose list a request is to find or make.
Routed(q) == IF Asks(q, "create_lead") THEN serving[q].read ELSE <<"campaigns", q>>

\* A request that did not look excuses everything.
Unlooked == \E p \in Requests : serving[p].kind \in MadeWithoutLooking /\ serving[p].wrote

\* The row a request that looks before it inserts makes, or would.
Filing(q) ==
  CASE Asks(q, "create_contact") -> NewRow(q, "new", "on")
    [] Asks(q, "create_ticket") -> FiledTicket(q)
    [] Asks(q, "create_public_ticket") -> PublicTicket(q)
    [] OTHER -> RequestRow(q)
Like(r, s) == r.ws = s.ws /\ r.key = s.key /\ r.text = s.text /\ r.flag = s.flag

\* A row that a request made is as it made it.
AsFiled(i) ==
  \/ MakerOf(i) \in Workspaces
  \/ /\ MakerOf(i) \in Requests /\ serving[MakerOf(i)].wrote
     /\ LET p == MakerOf(i) IN
        \/ /\ TableOf(i) = "contacts" /\ Asks(p, "create_contact")
           /\ Like(rows[i], Filing(p))
        \/ TableOf(i) = "tickets" /\ serving[p].kind \in Filers /\ Like(rows[i], Filing(p))
        \/ /\ TableOf(i) = "lists" /\ serving[p].kind \in Routers
           /\ serving[p].at \in {"join", "answer", "done"} /\ serving[p].saw = {i}

\* Row i is, or would be, a twin of the row q makes.
SameThing(q, i) ==
  /\ rows[i].ws = Filing(q).ws
  /\ \/ TableOf(i) = "contacts" /\ Asks(q, "create_contact") /\ rows[i].key = Filing(q).key /\ rows[i].key # None
     \/ /\ TableOf(i) = "tickets" /\ serving[q].kind \in Filers
        /\ rows[i].state \in Open /\ SameRequest(rows[i], Filing(q))
\* It came after q looked, or q passed over it.
Unseen(q, i) ==
  \/ MakerOf(i) \in Requests /\ i \notin serving[q].saw
  \/ serving[q].kind \in Doors /\ i \in serving[q].saw /\ rows[i].flag.source = "billing"

\* Once a request has looked, what is the same thing came after its look, or was
\* passed over.
Seeking(q) ==
  /\ serving[q].wrote => serving[q].at \in {"message", "reread", "answer", "done"}
  /\ At(q, "message") => serving[q].wrote
  /\ (At(q, "insert") \/ serving[q].wrote) =>
       /\ \A i \in serving[q].saw : TableOf(i) \in {"contacts", "tickets"} /\ Born(i)
       /\ \A i \in DOMAIN rows : SameThing(q, i) /\ MakerOf(i) # q => Unseen(q, i)
Routing(q) ==
  At(q, "own list") =>
    \A i \in Rows("lists") : rows[i].link = Routed(q) /\ rows[i].link # None => MakerOf(i) \in Requests

Singular == {"contacts", "lists", "tickets"}
SeedsApart == \A i, j \in DOMAIN rows : MakerOf(i) \in Workspaces /\ MakerOf(j) \in Workspaces => ~Twins(i, j)
ListsApart ==
  \A i, j \in Rows("lists") :
    rows[i].link = rows[j].link /\ rows[i].link # None /\ MakerOf(i) \in Workspaces => MakerOf(j) \in Workspaces

SinglesInv ==
  /\ \A i \in DOMAIN rows : TableOf(i) \in Singular => AsFiled(i)
  /\ \A q \in Requests :
       /\ serving[q].kind \in Lookers => Seeking(q)
       /\ serving[q].kind \in Routers => Routing(q)
  /\ SeedsApart /\ ListsApart

-----------------------------------------------------------------------------
(* What one step does to a contact, a list or a ticket.                     *)

LEMMA SinglesServedBy ==
  ASSUME NEW q \in Requests, Serve(q)
  PROVE  /\ Asks(q, "create_contact") => CreateContact(q)
         /\ Asks(q, "get_contact") => GetContact(q)
         /\ Asks(q, "delete_contact") => DeleteContact(q)
         /\ Asks(q, "get_contact_with_fields") => GetContactWithFields(q)
         /\ Asks(q, "update_contact_field_value") => UpdateContactFieldValue(q)
         /\ Asks(q, "create_lead") => CreateLead(q)
         /\ Asks(q, "create_campaign") => CreateCampaign(q)
         /\ Asks(q, "show_members") => ShowMembers(q)
         /\ Asks(q, "add_lead") => AddLead(q)
         /\ Asks(q, "remove_lead") => RemoveLead(q)
         /\ Asks(q, "update_list") => UpdateList(q)
         /\ Asks(q, "delete_list") => DeleteList(q)
         /\ Asks(q, "create_public_ticket") => CreatePublicTicket(q)
         /\ Asks(q, "create_ticket") => CreateTicket(q)
         /\ Asks(q, "signup_request") => RecordSignupRequest(q)
         /\ Asks(q, "checkout_request") => RecordCheckoutRequest(q)
         /\ Asks(q, "get_ticket") => GetTicket(q)
         /\ Asks(q, "public_answer") => PublicAnswer(q)
         /\ Asks(q, "add_ticket_message") => AddTicketMessage(q)
         /\ Asks(q, "delete_ticket") => DeleteTicket(q)
<1> USE DEF Asks
<1> DEFINE singles == OnContacts \cup OnLists \cup OnTickets \cup Filers \cup Routers \cup {"create_contact"}
<1>1. ServeRecord(q) =>
        \/ CreateContact(q) \/ GetContact(q) \/ UpdateContact(q) \/ DeleteContact(q) \/ GetContactWithFields(q)
        \/ UpdateContactFieldValue(q) \/ serving[q].kind \notin singles
  BY DEF ServeRecord, ListCalls, GetCall, CreateCall, UpdateCall, DeleteCall, RespondToCall, RecordCall, ListContacts,
         ExportContacts, SearchContacts, ListCustomFields, CreateCustomField, UpdateCustomField, DeleteCustomField,
         ListContactsWithFields, ListClients, GetClient, CreateClient, UpdateClient, DeleteClient, ListDeals,
         GetDeal, CreateDeal, UpdateDeal, DeleteDeal, MoveStage, ListEvents, GetEvent, CreateEvent, UpdateEvent,
         DeleteEvent, ListFollowUps, CreateFollowUp, UpdateFollowUp, DeleteFollowUp,
         OnContacts, OnLists, OnTickets, Filers, Doors, Routers
<1>2. ServeAutomation(q) => serving[q].kind \notin singles
  BY DEF ServeAutomation, ListRules, CreateRule, UpdateRule, DeleteRule, ListTemplates, CreateTemplate, UpdateTemplate,
         DeleteTemplate, ListIntegrations, CreateIntegration, UpdateIntegration, DeleteIntegration, TestIntegration,
         ListTargets, CreateTarget, UpdateTarget, DeleteTarget, ListCompanies, GetCompany, CreateCompany, UpdateCompany,
         DeleteCompany, SyncCompany, GetSmtp, UpdateSmtp, ListEmailTriggers, GetEmailTrigger, CreateEmailTrigger,
         UpdateEmailTrigger, DeleteEmailTrigger, ListRedirects, GetRedirect, CreateRedirect, UpdateRedirect,
         DeleteRedirect, ListExports, GetExport, CreateExport, UpdateExport, DeleteExport, ListImports, GetImport,
         CreateImport, UpdateImport, DeleteImport, OnContacts, OnLists, OnTickets, Filers, Doors, Routers
<1>3. ServeSetting(q) => serving[q].kind \notin singles
  BY DEF ServeSetting, GetEmailConfig, UpdateEmailConfig, GetSite, UpdateSite, GetBranding, GetLogo, PutBranding,
         UploadLogo, DeleteLogo, ListEmailTemplates, CreateEmailTemplate, UpdateEmailTemplate, DeleteEmailTemplate,
         ListKeys, UpsertKey, DeleteKey, ListPaymentProviders, UpsertPaymentProvider, DeletePaymentProvider,
         OnContacts, OnLists, OnTickets, Filers, Doors, Routers
<1>4. ServeCampaign(q) =>
        \/ CreateLead(q) \/ CreateCampaign(q) \/ ShowMembers(q) \/ AddLead(q) \/ RemoveLead(q) \/ UpdateList(q)
        \/ DeleteList(q) \/ serving[q].kind \notin singles
  BY DEF ServeCampaign, ListLeads, GetLead, UpdateLead, DeleteLead, ListLists, CreateList, ListTags, GetTag, CreateTag,
         UpdateTag, DeleteTag, ListTagGroups, GetTagGroup, CreateTagGroup, UpdateTagGroup, DeleteTagGroup,
         ListCampaigns, GetCampaign, UpdateCampaign, DeleteCampaign, Activate, Pause,
         OnContacts, OnLists, OnTickets, Filers, Doors, Routers
<1>5. ServePlan(q) => serving[q].kind \notin singles
  BY DEF ServePlan, ListPlans, ListActivePlans, GetPlan, CreatePlan, UpdatePlan, DeletePlan, MergeFeatures,
         SetEntitlement, ShowRegistry, GrantTopTier, AssignPlan, GetProvisioning, UpdateProvisioning,
         OnContacts, OnLists, OnTickets, Filers, Doors, Routers
<1>6. ServeTicket(q) =>
        \/ CreatePublicTicket(q) \/ CreateTicket(q) \/ RecordSignupRequest(q) \/ RecordCheckoutRequest(q)
        \/ GetTicket(q) \/ PublicAnswer(q) \/ UpdateTicket(q) \/ AddTicketMessage(q) \/ DeleteTicket(q) \/ serving[q].kind \notin singles
  BY DEF ServeTicket, ListTickets, TicketStats, OnContacts, OnLists, OnTickets, Filers, Doors, Routers
<1>7. ServeAccount(q) => serving[q].kind \notin singles
  BY DEF ServeAccount, DeleteTenant, BulkDeleteTenants, ProvisionFreeAccount, PortfolioSync, SyncCreate, SyncUpdate,
         SyncDelete, OnContacts, OnLists, OnTickets, Filers, Doors, Routers
<1>8. ServeNumber(q) => serving[q].kind \notin singles
  BY DEF ServeNumber, ListNumbers, PurchaseNumber, DeleteNumber, ShowAccount, PutAccount, ListMembers, InviteTeammate,
         RemoveMember, OnContacts, OnLists, OnTickets, Filers, Doors, Routers
<1>9. \/ CreateContact(q) \/ GetContact(q) \/ UpdateContact(q) \/ DeleteContact(q) \/ GetContactWithFields(q)
      \/ UpdateContactFieldValue(q) \/ CreateLead(q) \/ CreateCampaign(q) \/ ShowMembers(q) \/ AddLead(q)
      \/ RemoveLead(q) \/ UpdateList(q) \/ DeleteList(q) \/ CreatePublicTicket(q) \/ CreateTicket(q)
      \/ RecordSignupRequest(q) \/ RecordCheckoutRequest(q) \/ GetTicket(q) \/ PublicAnswer(q) \/ UpdateTicket(q)
      \/ AddTicketMessage(q) \/ DeleteTicket(q) \/ serving[q].kind \notin singles
  BY <1>1, <1>2, <1>3, <1>4, <1>5, <1>6, <1>7, <1>8 DEF Serve
<1>10. /\ CreateContact(q) => serving[q].kind = "create_contact"
       /\ GetContact(q) => serving[q].kind = "get_contact"
       /\ UpdateContact(q) => serving[q].kind = "update_contact"
       /\ DeleteContact(q) => serving[q].kind = "delete_contact"
       /\ GetContactWithFields(q) => serving[q].kind = "get_contact_with_fields"
       /\ UpdateContactFieldValue(q) => serving[q].kind = "update_contact_field_value"
       /\ CreateLead(q) => serving[q].kind = "create_lead"
       /\ CreateCampaign(q) => serving[q].kind = "create_campaign"
       /\ ShowMembers(q) => serving[q].kind = "show_members"
       /\ AddLead(q) => serving[q].kind = "add_lead"
       /\ RemoveLead(q) => serving[q].kind = "remove_lead"
  BY DEF CreateContact, GetContact, UpdateContact, DeleteContact, GetContactWithFields, UpdateContactFieldValue,
         CreateLead, CreateCampaign, ShowMembers, AddLead, RemoveLead
<1>11. /\ UpdateList(q) => serving[q].kind = "update_list"
       /\ DeleteList(q) => serving[q].kind = "delete_list"
       /\ CreatePublicTicket(q) => serving[q].kind = "create_public_ticket"
       /\ CreateTicket(q) => serving[q].kind = "create_ticket"
       /\ RecordSignupRequest(q) => serving[q].kind = "signup_request"
       /\ RecordCheckoutRequest(q) => serving[q].kind = "checkout_request"
       /\ GetTicket(q) => serving[q].kind = "get_ticket"
       /\ PublicAnswer(q) => serving[q].kind = "public_answer"
       /\ UpdateTicket(q) => serving[q].kind = "update_ticket"
       /\ AddTicketMessage(q) => serving[q].kind = "add_ticket_message"
       /\ DeleteTicket(q) => serving[q].kind = "delete_ticket"
  BY DEF UpdateList, DeleteList, CreatePublicTicket, CreateTicket, RecordSignupRequest, RecordCheckoutRequest,
         GetTicket, PublicAnswer, UpdateTicket, AddTicketMessage, DeleteTicket
<1> QED
  BY <1>9, <1>10, <1>11 DEF OnContacts, OnLists, OnTickets, Filers, Doors, Routers

Stays(i) ==
  /\ i \in DOMAIN rows /\ i \in DOMAIN rows'
  /\ rows'[i].ws = rows[i].ws /\ rows'[i].link \in {rows[i].link, None}
  /\ TableOf(i) # "lists" =>
       /\ rows'[i].key = rows[i].key /\ rows'[i].text = rows[i].text
       /\ rows'[i].state = rows[i].state /\ rows'[i].flag = rows[i].flag
Dropped(i) == i \in DOMAIN rows /\ i \notin DOMAIN rows'
Filed(q, i) ==
  /\ i \in DOMAIN rows' /\ MakerOf(i) = q /\ serving'[q].wrote
  /\ \/ TableOf(i) = "contacts" /\ Asks(q, "create_contact") /\ At(q, "insert") /\ rows'[i] = Filing(q)
     \/ TableOf(i) = "tickets" /\ serving[q].kind \in Filers /\ At(q, "insert") /\ rows'[i] = Filing(q)
     \/ /\ TableOf(i) = "lists" /\ serving[q].kind \in Routers /\ At(q, "own list") /\ rows'[i].link = Routed(q)
        /\ serving'[q].saw = {i} /\ serving'[q].at \in {"join", "answer"}
SingleEffect(q, i) == Stays(i) \/ Dropped(i) \/ Filed(q, i)

LEMMA LeftStays ==
  ASSUME NEW i, i \in DOMAIN rows \/ i \in DOMAIN rows', Left(i)
  PROVE  Stays(i)
BY DEF Left, Stays

LEMMA PutElsewhere ==
  ASSUME NEW q \in Requests, NEW here, NEW j, NEW row, NEW next, Put(q, here, j, row, next), NEW i, i # j
  PROVE  Left(i)
BY DEF Put, With, Left

\* The row a request was asked for.
LEMMA TargetEffect ==
  ASSUME IInv, NEW q \in Requests, Serve(q), NEW i, i = Target(q), TableOf(i) \in Singular,
         i \in DOMAIN rows', serving[q].kind \in OnContacts \cup OnLists \cup OnTickets,
         serving[q].kind \notin MadeWithoutLooking
  PROVE  Stays(i)
<1> USE DEF Asks
<1> RequestOK(q)
  BY DEF IInv
<1>1. ASSUME rows' = rows PROVE Stays(i)
  BY <1>1 DEF Stays
<1>2. ASSUME NEW here, Delete(q, here) PROVE Stays(i)
  <2>1. CASE rows' = Without(Fallen(Target(q))) /\ Target(q) \in DOMAIN rows
    BY <2>1 DEF Without, Fallen
  <2>2. CASE Missing(q, here)
    BY <1>1, <2>2 DEF Missing, tables
  <2> QED
    BY <1>2, <2>1, <2>2 DEF Delete, Remove, Mine
<1>3. CASE GetContact(q) \/ GetContactWithFields(q) \/ UpdateContactFieldValue(q) \/ ShowMembers(q) \/ AddLead(q)
           \/ RemoveLead(q) \/ GetTicket(q) \/ PublicAnswer(q)
  BY <1>1, <1>3 DEF GetContact, GetContactWithFields, UpdateContactFieldValue, ShowMembers, AddLead, RemoveLead,
     GetTicket, PublicAnswer, GetRow, Fetch, Lookup, Missing, Show, Look, Link, Refuse, Finish, FetchTicket, tables
<1>4. CASE DeleteContact(q) \/ DeleteList(q)
  BY <1>2, <1>4 DEF DeleteContact, DeleteList
<1>5. CASE UpdateList(q)
  <2>1. ASSUME rows' = With(rows, Target(q), Named(q)), Target(q) \in DOMAIN rows PROVE Stays(i)
    <3>1. serving[q].col # "link" /\ serving[q].col \in Columns
      BY <1>5 DEF UpdateList, RequestOK, JobFits
    <3>2. rows'[i] = Named(q) /\ i \in DOMAIN rows
      BY <2>1 DEF With
    <3>3. DOMAIN rows[i] = Columns \cup {"ws"} /\ i \in RowIds({TableOf(i)})
      BY <3>2 DEF IInv, Sane, WellStored, RowStored
    <3>4. rows'[i].ws = rows[i].ws /\ rows'[i].link = rows[i].link
      BY <3>1, <3>2, <3>3 DEF Named, Columns
    <3>5. TableOf(i) = "lists"
      <4>1. i \notin RowIds({"contacts"}) /\ i \notin RowIds({"tickets"})
        BY <1>5 DEF UpdateList, RequestOK, JobFits, OnContacts, OnTickets, Target
      <4> QED
        BY <3>3, <4>1 DEF Singular
    <3> QED
      BY <3>2, <3>4, <3>5 DEF Stays
  <2> QED
    BY <1>1, <1>5, <2>1 DEF UpdateList, NamedEdit, Refuse, Fetch, Lookup, Missing, Change, ChangeRow, Put, Reread, tables
<1>6. CASE AddTicketMessage(q)
  <2>1. ASSUME AddTo(q, "insert", Target(q), serving[q].val, "reread") PROVE Stays(i)
    <3>1. i # <<"ticket_messages", q>>
      BY DEF Singular, TableOf
    <3> QED
      BY <2>1, <3>1, PutElsewhere, LeftStays DEF AddTo
  <2> QED
    BY <1>1, <1>6, <2>1 DEF AddTicketMessage, Refuse, FetchTicket, Look, Reread, tables
<1>7. CASE DeleteTicket(q)
  <2>1. CASE rows' = Without(Fallen(Target(q))) /\ Target(q) \in DOMAIN rows
    BY <2>1 DEF Without, Fallen
  <2> QED
    BY <1>1, <1>7, <2>1 DEF DeleteTicket, FetchTicket, tables
<1> QED
  BY <1>3, <1>4, <1>5, <1>6, <1>7, SinglesServedBy DEF OnContacts, OnLists, OnTickets, MadeWithoutLooking

\* The row a request makes.
LEMMA MakerEffect ==
  ASSUME IInv, NEW q \in Requests, Serve(q), NEW i, TableOf(i) \in Singular, MakerOf(i) = q,
         i \in DOMAIN rows', i \in RowIds({TableOf(i)}), serving[q].kind \in Filers \cup Routers \cup {"create_contact"}
  PROVE  Stays(i) \/ Filed(q, i)
<1> USE DEF Asks
<1> RequestOK(q) /\ DOMAIN serving = Requests
  BY DEF IInv
<1>0. i = <<TableOf(i), q>>
  BY DEF RowIds, TableOf, MakerOf
<1>1. ASSUME rows' = rows PROVE Stays(i)
  BY <1>1 DEF Stays
<1>2. ASSUME NEW here, NEW t, NEW row, NEW next, Put(q, here, <<t, q>>, row, next), t # TableOf(i) PROVE Stays(i)
  <2>1. i # <<t, q>>
    BY <1>0, <1>2
  <2> QED
    BY <1>2, <2>1, PutElsewhere, LeftStays
<1>3. ASSUME NEW here, NEW t, NEW row, NEW next, Put(q, here, <<t, q>>, row, next), t = TableOf(i), ~Stays(i)
      PROVE  At(q, here) /\ rows'[i] = row /\ serving'[q].wrote
  <2>1. rows' = With(rows, <<t, q>>, row) /\ Wrote(q, next)
    BY <1>1, <1>3 DEF Put
  <2> QED
    BY <1>0, <1>3, <2>1, WroteSets DEF Put, With
<1>4. ASSUME NEW here, NEW next, NEW answer,
             \/ Gate(q, here, answer, next) \/ Refuse(q, here) \/ Finish(q, here) \/ Reread(q, here, next, answer)
      PROVE  Stays(i)
  BY <1>1, <1>4 DEF Gate, ReadPlan, ReadLimit, CountUsage, Refuse, Finish, Reread, tables
<1>5. CASE CreateContact(q)
  <2>1. CASE Insert(q, "insert", "contacts", "new", "on", "reread")
    <3>1. Filing(q) = NewRow(q, "new", "on")
      BY <1>5 DEF Filing, CreateContact
    <3>2. Put(q, "insert", <<"contacts", q>>, Filing(q), "reread")
      BY <2>1, <3>1 DEF Insert
    <3> QED
      BY <1>2, <1>3, <1>5, <3>2 DEF Filed, CreateContact
  <2> QED
    BY <1>1, <1>4, <1>5, <2>1 DEF CreateContact, CheckEmail, Look, Refuse, Creation, tables
<1>6. CASE CreateTicket(q) \/ RecordSignupRequest(q) \/ RecordCheckoutRequest(q)
  <2>1. serving[q].kind \in Filers
    BY <1>6 DEF Filers, Doors, CreateTicket, RecordSignupRequest, RecordCheckoutRequest
  <2>2. CASE Put(q, "insert", <<"tickets", q>>, Filing(q), "message")
    BY <1>2, <1>3, <2>1, <2>2 DEF Filed
  <2>3. ASSUME NEW next, AddTo(q, "message", <<"tickets", q>>, "agent", next) PROVE Stays(i)
    BY <1>2, <2>3 DEF AddTo, Singular
  <2>4. CASE CreateTicket(q)
    <3>1. Filing(q) = FiledTicket(q)
      BY <2>4 DEF Filing, CreateTicket
    <3> QED
      BY <1>1, <1>4, <2>2, <2>3, <2>4, <3>1 DEF CreateTicket, CheckRequest, Look, Show, tables
  <2>5. CASE RecordSignupRequest(q) \/ RecordCheckoutRequest(q)
    <3>1. Filing(q) = RequestRow(q)
      BY <2>5 DEF Filing, RecordSignupRequest, RecordCheckoutRequest
    <3>2. CASE FileRequest(q)
      BY <1>1, <1>4, <2>2, <2>3, <3>1, <3>2 DEF FileRequest, Look, Show, tables
    <3> QED
      BY <1>1, <1>4, <2>5, <3>2 DEF RecordSignupRequest, RecordCheckoutRequest, Look, tables
  <2> QED
    BY <1>6, <2>4, <2>5
<1>7. CASE CreatePublicTicket(q)
  <2>1. CASE Put(q, "insert", <<"tickets", q>>, PublicTicket(q), "message")
    <3>1. Filing(q) = PublicTicket(q)
      BY <1>7 DEF Filing, CreatePublicTicket
    <3> QED
      BY <1>2, <1>3, <1>7, <2>1, <3>1 DEF Filed, Filers, CreatePublicTicket
  <2>2. ASSUME AddTo(q, "message", <<"tickets", q>>, "customer", "answer") PROVE Stays(i)
    BY <1>2, <2>2 DEF AddTo, Singular
  <2> QED
    BY <1>1, <1>4, <1>7, <2>1, <2>2 DEF CreatePublicTicket, Look, Show, tables
<1>8. ASSUME NEW next \in {"join", "answer"}, NEW giveUp, InsertList(q, Routed(q), next, giveUp), serving[q].kind \in Routers
      PROVE  Stays(i) \/ Filed(q, i)
  <2> DEFINE new == <<"lists", q>>
  <2>1. CASE /\ rows' = With(rows, new, OwnList(q, Routed(q)))
             /\ serving' = [serving EXCEPT ![q].at = next, ![q].saw = {new}, ![q].wrote = TRUE]
    <3>1. serving'[q].wrote /\ serving'[q].saw = {new} /\ serving'[q].at = next
      BY <2>1 DEF RequestOK, Fields
    <3>2. CASE i = new
      <4>1. rows'[i].ws = serving[q].ws /\ rows'[i].link = Routed(q) /\ TableOf(i) = "lists"
        BY <2>1, <3>2 DEF With, OwnList, TableOf
      <4> QED
        BY <1>8, <3>1, <3>2, <4>1 DEF Filed, InsertList
    <3>3. CASE i # new
      BY <2>1, <3>3 DEF With, Stays
    <3> QED
      BY <3>2, <3>3
  <2> QED
    BY <1>1, <1>8, <2>1 DEF InsertList
<1>9. CASE CreateLead(q)
  <2>1. Routed(q) = serving[q].read
    BY <1>9 DEF Routed, CreateLead
  <2>2. CASE Insert(q, "insert", "leads", "new", "on", "reread")
    BY <1>2, <2>2 DEF Insert, Singular
  <2>3. CASE InsertList(q, serving[q].read, "join", "done")
    BY <1>8, <1>9, <2>1, <2>3 DEF CreateLead, Routers
  <2> QED
    BY <1>1, <1>4, <1>9, <2>2, <2>3 DEF CreateLead, RouteLead, EnsureList, JoinList, tables
<1>10. CASE CreateCampaign(q)
  <2>1. Routed(q) = <<"campaigns", q>>
    BY <1>10 DEF Routed, CreateCampaign
  <2>2. CASE Insert(q, "insert", "campaigns", "draft", "on", "reread")
    BY <1>2, <2>2 DEF Insert, Singular
  <2>3. CASE InsertList(q, <<"campaigns", q>>, "answer", "answer")
    BY <1>8, <1>10, <2>1, <2>3 DEF CreateCampaign, Routers
  <2> QED
    BY <1>1, <1>4, <1>10, <2>2, <2>3 DEF CreateCampaign, EnsureList, tables
<1> QED
  BY <1>5, <1>6, <1>7, <1>9, <1>10, SinglesServedBy DEF Filers, Doors, Routers

LEMMA SingleStep ==
  ASSUME IInv, NEW q \in Requests, Found(q), Serve(q), NEW i, TableOf(i) \in Singular,
         i \in DOMAIN rows \/ i \in DOMAIN rows', ~Unlooked'
  PROVE  SingleEffect(q, i)
<1>1. IInv' /\ Footprint(q)
  BY ServeKeeps, StepKeeps, ServeFoot
<1>2. i \in RowIds({TableOf(i)})
  BY <1>1 DEF IInv, Sane, WellStored, RowStored
<1>3. CASE Left(i)
  BY <1>3, LeftStays DEF SingleEffect
<1>4. CASE Unlinked(q, i)
  <2>1. DOMAIN rows[i] = Columns \cup {"ws"}
    BY <1>4 DEF Unlinked, IInv, Sane, WellStored, RowStored
  <2> QED
    BY <1>4, <2>1 DEF SingleEffect, Stays, Unlinked, Columns
<1>5. CASE Falls(q, i) \/ i \notin DOMAIN rows'
  BY <1>5 DEF SingleEffect, Dropped, Falls
<1>6. CASE Names(q, i) /\ i \in DOMAIN rows' /\ serving'[q].wrote
  <2>1. serving[q].kind \notin MadeWithoutLooking
    <3>1. serving'[q].kind = serving[q].kind
      BY ServeKeeps DEF Sound, Advance
    <3> QED
      BY <1>6, <3>1 DEF Unlooked
  <2>2. CASE i = Target(q)
    <3>1. serving[q].kind \in OnContacts \cup OnLists \cup OnTickets
      BY <1>2, <2>2 DEF Singular, IInv, RequestOK, JobFits, Target
    <3> QED
      BY <1>6, <2>1, <2>2, <3>1, TargetEffect DEF SingleEffect
  <2>3. CASE MakerOf(i) = q /\ MakesIn(serving[q].kind, TableOf(i))
    <3>1. serving[q].kind \in Filers \cup Routers \cup {"create_contact"}
      BY <2>1, <2>3 DEF MakesIn, Singular, Filers, Doors, Routers, MadeWithoutLooking
    <3> QED
      BY <1>2, <1>6, <2>3, <3>1, MakerEffect DEF SingleEffect
  <2>4. ~(i \in serving[q].saw /\ serving[q].kind \in {"purchase_number", "put_account", "upsert_payment_provider"})
    BY DEF Found, Asks, Singular, IInv, Holds, SeesNumbers
  <2> QED
    BY <1>6, <2>2, <2>3, <2>4 DEF Names, Reaches, Singular
<1> QED
  BY <1>1, <1>3, <1>4, <1>5, <1>6 DEF Footprint, Touches

LEMMA UnlookedLasts ==
  ASSUME IInv, NumbersInv, NEW q \in Requests, Serve(q), Unlooked
  PROVE  Unlooked'
<1>1. PICK p \in Requests : serving[p].kind \in MadeWithoutLooking /\ serving[p].wrote
  BY DEF Unlooked
<1>2. serving'[p].wrote
  BY <1>1, ExcusesLast
<1>3. serving'[p].kind = serving[p].kind
  BY ServeKeeps DEF Sound, Advance
<1> QED
  BY <1>1, <1>2, <1>3 DEF Unlooked

\* A request that has its row goes on to its end with what it saw.
LEMMA RouterMoves ==
  ASSUME IInv, NEW q \in Requests, Serve(q), serving[q].kind \in Routers, serving[q].at \in {"join", "answer", "done"}
  PROVE  serving'[q].at \in {"join", "answer", "done"} /\ serving'[q].saw = serving[q].saw
<1> USE DEF Asks
<1>1. CASE CreateLead(q)
  <2>1. ASSUME NEW l, JoinList(q, <<l, <<"leads", q>>>>) PROVE Goes(q, "done")
    BY <2>1 DEF JoinList
  <2>2. Goes(q, "done")
    BY <1>1, <2>1 DEF CreateLead, Refuse, Gate, ReadPlan, ReadLimit, CountUsage, Insert, Put, Reread, RouteLead,
       EnsureList, InsertList, At
  <2> QED
    BY <2>2, MovesHold
<1>2. CASE CreateCampaign(q)
  <2>1. Finish(q, "answer")
    BY <1>2 DEF CreateCampaign, Refuse, Gate, ReadPlan, ReadLimit, CountUsage, Insert, Put, Reread, EnsureList,
       InsertList, At
  <2> QED
    BY <2>1, MovesHold DEF Finish
<1> QED
  BY <1>1, <1>2, SinglesServedBy DEF Routers

\* What a request that has looked files does not change any more.
LEMMA FilingKeeps ==
  ASSUME IInv, NEW q \in Requests, Serve(q), NEW p \in Requests, Seeking(p), At(p, "insert") \/ serving[p].wrote
  PROVE  Filing(p)' = Filing(p)
<1> RequestOK(q) /\ DOMAIN serving = Requests
  BY DEF IInv
<1>1. Advance(q)
  BY ServeKeeps DEF Sound
<1>2. /\ serving'[p].kind = serving[p].kind /\ serving'[p].ws = serving[p].ws
      /\ serving'[p].val = serving[p].val /\ serving'[p].ref = serving[p].ref
  BY <1>1 DEF Advance
<1>3. CASE ~Asks(p, "checkout_request")
  BY <1>2, <1>3 DEF Filing, Asks, NewRow, FiledTicket, PublicTicket, RequestRow, Wanted
<1>4. ASSUME serving'[p].read = serving[p].read PROVE Filing(p)' = Filing(p)
  BY <1>2, <1>4 DEF Filing, Asks, NewRow, FiledTicket, PublicTicket, RequestRow, Wanted
<1>5. CASE p # q
  BY <1>1, <1>4, <1>5 DEF Advance
<1>6. CASE p = q /\ Asks(q, "checkout_request")
  <2>1. serving[q].at \in {"insert", "message", "reread", "answer", "done"}
    BY <1>6 DEF Seeking, At
  <2>2. RecordCheckoutRequest(q)
    BY <1>6, SinglesServedBy
  <2>3. FileRequest(q)
    BY <2>1, <2>2 DEF RecordCheckoutRequest, Refuse, Finish, At
  <2>4. serving'[q].read = serving[q].read
    <3>1. ASSUME NEW next, Goes(q, next) \/ Wrote(q, next) PROVE serving'[q].read = serving[q].read
      BY <3>1 DEF Goes, Wrote, RequestOK, Fields
    <3>2. ASSUME NEW answer, Ends(q, answer) PROVE serving'[q].read = serving[q].read
      BY <3>2 DEF Ends, RequestOK, Fields
    <3>3. ASSUME NEW here, NEW found, Show(q, here, found) PROVE serving'[q].read = serving[q].read
      BY <3>3 DEF Show, RequestOK, Fields
    <3>4. ASSUME NEW here, NEW found, NEW next, Look(q, here, found, next) PROVE serving'[q].read = serving[q].read
      BY <3>4 DEF Look, RequestOK, Fields
    <3> QED
      BY <2>3, <3>1, <3>2, <3>3, <3>4 DEF FileRequest, AddTo, Put, Finish
  <2> QED
    BY <1>4, <1>6, <2>4
<1> QED
  BY <1>3, <1>5, <1>6

LEMMA AsFiledLasts ==
  ASSUME IInv, NumbersInv, SinglesInv, NEW q \in Requests, Serve(q), ~Unlooked', NEW i, i \in DOMAIN rows',
         TableOf(i) \in Singular
  PROVE  AsFiled(i)'
<1>1. Advance(q) /\ Found(q)
  BY ServeKeeps DEF Sound, NumbersInv
<1>2. SingleEffect(q, i)
  BY <1>1, SingleStep
<1>3. TableOf(i)' = TableOf(i) /\ MakerOf(i)' = MakerOf(i)
  BY DEF TableOf, MakerOf
<1>4. CASE Stays(i)
  <2>1. AsFiled(i)
    BY <1>4 DEF SinglesInv, Stays
  <2>2. CASE MakerOf(i) \in Workspaces
    BY <1>3, <2>2 DEF AsFiled
  <2>3. CASE MakerOf(i) \in Requests /\ MakerOf(i) \notin Workspaces
    <3>1. PICK p \in Requests : p = MakerOf(i)
      BY <2>3
    <3>2. serving[p].wrote /\ serving'[p].wrote
      BY <2>1, <2>3, <3>1, ExcusesLast DEF AsFiled
    <3>3. serving'[p].kind = serving[p].kind
      BY <1>1 DEF Advance
    <3>4. CASE TableOf(i) = "lists"
      <4>1. serving[p].kind \in Routers /\ serving[p].at \in {"join", "answer", "done"} /\ serving[p].saw = {i}
        BY <2>1, <2>3, <3>1, <3>4 DEF AsFiled
      <4>2. serving'[p].at \in {"join", "answer", "done"} /\ serving'[p].saw = {i}
        <5>1. CASE p = q
          BY <4>1, <5>1, RouterMoves
        <5>2. CASE p # q
          BY <1>1, <4>1, <5>2 DEF Advance
        <5> QED
          BY <5>1, <5>2
      <4> QED
        BY <1>3, <2>3, <3>1, <3>2, <3>3, <3>4, <4>1, <4>2 DEF AsFiled
    <3>5. CASE TableOf(i) # "lists"
      <4>1. Like(rows[i], Filing(p)) /\ serving[p].kind \in Lookers
        BY <2>1, <2>3, <3>1, <3>5 DEF AsFiled, Lookers, Asks
      <4>2. Seeking(p)
        BY <4>1 DEF SinglesInv
      <4>3. Filing(p)' = Filing(p)
        BY <3>2, <4>2, FilingKeeps
      <4>4. Like(rows'[i], Filing(p)')
        BY <1>4, <3>5, <4>1, <4>3 DEF Stays, Like
      <4> QED
        BY <1>3, <2>1, <2>3, <3>1, <3>2, <3>3, <3>5, <4>4 DEF AsFiled, Asks, Like
    <3> QED
      BY <3>4, <3>5
  <2> QED
    BY <2>1, <2>2, <2>3 DEF AsFiled
<1>5. CASE Filed(q, i)
  <2>1. serving'[q].kind = serving[q].kind
    BY <1>1 DEF Advance
  <2>2. CASE TableOf(i) = "lists"
    BY <1>3, <1>5, <2>1, <2>2 DEF AsFiled, Filed
  <2>3. CASE TableOf(i) # "lists"
    <3>1. rows'[i] = Filing(q) /\ At(q, "insert") /\ serving[q].kind \in Lookers
      BY <1>5, <2>3 DEF Filed, Lookers, Asks
    <3>2. Seeking(q)
      BY <3>1 DEF SinglesInv
    <3>3. Filing(q)' = Filing(q)
      BY <3>1, <3>2, FilingKeeps
    <3>4. Like(rows'[i], Filing(q)')
      BY <3>1, <3>3 DEF Like
    <3> QED
      BY <1>3, <1>5, <2>1, <2>3, <3>4 DEF AsFiled, Filed, Asks, Like
  <2> QED
    BY <2>2, <2>3
<1> QED
  BY <1>2, <1>4, <1>5 DEF SingleEffect, Dropped

LEMMA SeedsLast ==
  ASSUME IInv, NumbersInv, SinglesInv, NEW q \in Requests, Serve(q), ~Unlooked'
  PROVE  SeedsApart' /\ ListsApart'
<1> Found(q)
  BY DEF NumbersInv
<1> \A i : TableOf(i)' = TableOf(i) /\ MakerOf(i)' = MakerOf(i)
  BY DEF TableOf, MakerOf
<1>1. ASSUME NEW i \in DOMAIN rows', TableOf(i) \in Singular PROVE Stays(i) \/ Filed(q, i)
  BY <1>1, SingleStep DEF SingleEffect, Dropped
<1>2. ASSUME NEW i \in DOMAIN rows', NEW j \in DOMAIN rows', MakerOf(i) \in Workspaces, MakerOf(j) \in Workspaces, Twins(i, j)'
      PROVE  FALSE
  <2>1. /\ i # j /\ TableOf(i) = TableOf(j) /\ TableOf(i) \in Singular /\ rows'[i].ws = rows'[j].ws
        /\ \/ TableOf(i) = "contacts" /\ rows'[i].key = rows'[j].key /\ rows'[i].key # None
           \/ TableOf(i) = "lists" /\ rows'[i].link = rows'[j].link /\ rows'[i].link # None
           \/ TableOf(i) = "tickets" /\ {rows'[i].state, rows'[j].state} \subseteq Open /\ SameRequest(rows'[i], rows'[j])
    BY <1>2 DEF Twins, Alike, Singular
  <2>2. Stays(i) /\ Stays(j)
    BY <1>1, <1>2, <2>1, MakersAssumption DEF Filed
  <2>3. i \in DOMAIN rows /\ j \in DOMAIN rows
    BY <2>2 DEF Stays
  <2>4. Twins(i, j)
    BY <2>1, <2>2 DEF Twins, Alike, Stays, SameRequest
  <2> QED
    BY <1>2, <2>3, <2>4 DEF SinglesInv, SeedsApart
<1>3. ASSUME NEW i \in Rows("lists")', NEW j \in Rows("lists")', rows'[i].link = rows'[j].link, rows'[i].link # None,
             MakerOf(i) \in Workspaces
      PROVE  MakerOf(j) \in Workspaces
  <2>1. i \in DOMAIN rows' /\ j \in DOMAIN rows' /\ TableOf(i) = "lists" /\ TableOf(j) = "lists"
    BY DEF Rows
  <2>2. Stays(i)
    BY <1>1, <1>3, <2>1, MakersAssumption DEF Filed, Singular
  <2>3. i \in Rows("lists") /\ rows[i].link = rows'[i].link
    BY <1>3, <2>1, <2>2 DEF Stays, Rows
  <2>4. CASE Stays(j)
    <3>1. j \in Rows("lists") /\ rows[j].link = rows'[j].link
      BY <1>3, <2>1, <2>4 DEF Stays, Rows
    <3> QED
      BY <1>3, <2>3, <3>1 DEF SinglesInv, ListsApart
  <2>5. CASE Filed(q, j)
    <3>1. serving[q].kind \in Routers /\ At(q, "own list") /\ rows'[j].link = Routed(q)
      BY <2>1, <2>5 DEF Filed
    <3>2. MakerOf(i) \in Requests
      BY <1>3, <2>3, <3>1 DEF SinglesInv, Routing
    <3> QED
      BY <1>3, <3>2, MakersAssumption
  <2> QED
    BY <1>1, <2>1, <2>4, <2>5 DEF Singular
<1> QED
  BY <1>2, <1>3 DEF SeedsApart, ListsApart

LEMMA RoutingLasts ==
  ASSUME IInv, NumbersInv, SinglesInv, NEW q \in Requests, Serve(q), ~Unlooked', NEW p \in Requests,
         serving[p].kind \in Routers, p # q \/ rows' = rows, serving'[p].at = serving[p].at, serving'[p].read = serving[p].read
  PROVE  Routing(p)'
<1> SUFFICES ASSUME serving[p].at = "own list", NEW i \in Rows("lists")', rows'[i].link = Routed(p)', rows'[i].link # None
             PROVE  MakerOf(i) \in Requests
  BY DEF Routing, At, MakerOf
<1>1. Routed(p)' = Routed(p)
  BY ServeKeeps DEF Routed, Asks, Sound, Advance
<1>2. i \in DOMAIN rows' /\ TableOf(i) = "lists"
  BY DEF Rows, TableOf
<1> Found(q)
  BY DEF NumbersInv
<1>3. Stays(i) \/ Filed(q, i)
  <2>1. TableOf(i) \in Singular
    BY <1>2 DEF Singular
  <2>2. SingleEffect(q, i)
    BY <1>2, <2>1, SingleStep
  <2> QED
    BY <1>2, <2>2 DEF SingleEffect, Dropped
<1>4. CASE Stays(i)
  <2>1. i \in Rows("lists") /\ rows[i].link = rows'[i].link
    BY <1>2, <1>4 DEF Stays, Rows
  <2> QED
    BY <1>1, <2>1 DEF SinglesInv, Routing, At
<1>5. CASE Filed(q, i)
  BY <1>5 DEF Filed
<1> QED
  BY <1>3, <1>4, <1>5

LEMMA RoutingKeeps ==
  ASSUME IInv, NumbersInv, SinglesInv, NEW q \in Requests, Serve(q), ~Unlooked', serving[q].kind \in Routers
  PROVE  Routing(q)'
<1> USE DEF Asks
<1> RequestOK(q) /\ DOMAIN serving = Requests
  BY DEF IInv
<1>1. ASSUME serving'[q].at # "own list" PROVE Routing(q)'
  BY <1>1 DEF Routing, At
<1>2. ASSUME NEW here, NEW next \in {"join", "answer"}, EnsureList(q, here, Routed(q), next) PROVE Routing(q)'
  <2>1. CASE CampaignLists(Routed(q)) = {} /\ Goes(q, "own list") /\ UNCHANGED tables
    <3>1. serving'[q].read = serving[q].read
      BY <2>1, MovesHold
    <3>2. Routed(q)' = Routed(q)
      BY <3>1, ServeKeeps DEF Routed, Sound, Advance
    <3>3. \A i \in Rows("lists") : rows[i].link # Routed(q)
      BY <2>1 DEF CampaignLists
    <3>4. Rows("lists")' = Rows("lists") /\ rows' = rows
      BY <2>1 DEF Rows, TableOf, tables
    <3> QED
      BY <3>2, <3>3, <3>4 DEF Routing
  <2>2. ASSUME NEW l, serving' = [serving EXCEPT ![q].at = next, ![q].saw = {l}] PROVE serving'[q].at # "own list"
    BY <1>2, <2>2 DEF RequestOK, Fields
  <2> QED
    BY <1>1, <1>2, <2>1, <2>2 DEF EnsureList
<1>3. ASSUME NEW answer, Ends(q, answer) PROVE Routing(q)'
  <2>1. serving'[q].at # "own list"
    BY <1>3 DEF Ends, RequestOK, Fields
  <2> QED
    BY <1>1, <2>1
<1>4. ASSUME NEW next, next # "own list", Goes(q, next) \/ Answers(q, next) \/ Wrote(q, next) PROVE Routing(q)'
  <2>1. serving'[q].at # "own list"
    BY <1>4 DEF Goes, Answers, Wrote, RequestOK, Fields
  <2> QED
    BY <1>1, <2>1
<1>5. ASSUME NEW campaign, NEW next \in {"join", "answer"}, NEW giveUp \in {"done", "answer"}, InsertList(q, campaign, next, giveUp)
      PROVE  Routing(q)'
  <2>1. CASE serving' = [serving EXCEPT ![q].at = next, ![q].saw = {<<"lists", q>>}, ![q].wrote = TRUE]
    <3>1. serving'[q].at = next
      BY <2>1 DEF RequestOK, Fields
    <3> QED
      BY <1>1, <3>1
  <2>2. CASE Goes(q, giveUp)
    <3>1. giveUp # "own list"
      BY <1>5
    <3> QED
      BY <1>4, <2>2, <3>1
  <2> QED
    BY <1>5, <2>1, <2>2 DEF InsertList
<1>6. ASSUME NEW feature, Gate(q, "start", feature, "insert") PROVE Routing(q)'
  <2>1. serving'[q].at \in {"limit", "count", "insert", "done"}
    BY <1>6, GateMoves
  <2> QED
    BY <1>1, <2>1
<1>7. ASSUME NEW i, NEW row, NEW next, next # "own list", Put(q, "insert", i, row, next) PROVE Routing(q)'
  BY <1>3, <1>4, <1>7 DEF Put
<1>8. CASE CreateLead(q)
  <2>1. Routed(q) = serving[q].read
    BY <1>8 DEF Routed, CreateLead
  <2>2. CASE RouteLead(q)
    <3>1. serving'[q].at # "own list"
      BY <2>2 DEF RouteLead, Answers, RequestOK, Fields
    <3> QED
      BY <1>1, <3>1
  <2>3. ASSUME NEW l, JoinList(q, <<l, <<"leads", q>>>>) PROVE Routing(q)'
    BY <1>4, <2>3 DEF JoinList
  <2>4. CASE Insert(q, "insert", "leads", "new", "on", "reread")
    BY <1>7, <2>4 DEF Insert
  <2>5. CASE Reread(q, "reread", <<"leads", q>>, "route")
    BY <1>3, <1>4, <2>5 DEF Reread
  <2>6. CASE Refuse(q, "start")
    BY <1>3, <2>6 DEF Refuse
  <2>7. CASE EnsureList(q, "list", Routed(q), "join")
    BY <1>2, <2>7
  <2>8. CASE InsertList(q, serving[q].read, "join", "done")
    BY <1>5, <2>8
  <2> QED
    BY <1>6, <1>8, <2>1, <2>2, <2>3, <2>4, <2>5, <2>6, <2>7, <2>8 DEF CreateLead
<1>9. CASE CreateCampaign(q)
  <2>1. Routed(q) = <<"campaigns", q>>
    BY <1>9 DEF Routed, CreateCampaign
  <2>2. CASE Insert(q, "insert", "campaigns", "draft", "on", "reread")
    BY <1>7, <2>2 DEF Insert
  <2>3. CASE IF <<"campaigns", q>> \in DOMAIN rows THEN Goes(q, "list") ELSE Ends(q, "failed")
    BY <1>3, <1>4, <2>3
  <2>4. CASE Refuse(q, "start") \/ Finish(q, "answer")
    BY <1>3, <2>4 DEF Refuse, Finish
  <2>5. CASE EnsureList(q, "list", Routed(q), "answer")
    BY <1>2, <2>5
  <2>6. CASE InsertList(q, <<"campaigns", q>>, "answer", "answer")
    BY <1>5, <2>6
  <2> QED
    BY <1>6, <1>9, <2>1, <2>2, <2>3, <2>4, <2>5, <2>6 DEF CreateCampaign
<1> QED
  BY <1>8, <1>9, SinglesServedBy DEF Routers

\* A look that found nothing, once taken, holds: what is filed later was not there.
LEMMA SeekingLasts ==
  ASSUME IInv, NumbersInv, SinglesInv, NEW q \in Requests, Serve(q), ~Unlooked', NEW p \in Requests,
         serving[p].kind \in Lookers, serving'[p].saw = serving[p].saw, At(p, "insert") \/ serving[p].wrote
  PROVE  /\ \A i \in serving'[p].saw : TableOf(i) \in {"contacts", "tickets"} /\ Born(i)'
         /\ \A i \in DOMAIN rows' : SameThing(p, i)' /\ MakerOf(i) # p => Unseen(p, i)'
<1>1. Advance(q) /\ Found(q)
  BY ServeKeeps DEF Sound, NumbersInv
<1>2. Seeking(p)
  BY DEF SinglesInv
<1>3. ASSUME NEW i \in serving'[p].saw PROVE TableOf(i) \in {"contacts", "tickets"} /\ Born(i) /\ Born(i)'
  <2>1. TableOf(i) \in {"contacts", "tickets"} /\ Born(i)
    BY <1>2, <1>3 DEF Seeking
  <2> QED
    BY <2>1, BornLasts
<1>4. ASSUME NEW i \in DOMAIN rows', SameThing(p, i)', MakerOf(i) # p PROVE Unseen(p, i)'
  <2>1. serving'[p].kind = serving[p].kind /\ Filing(p)' = Filing(p)
    BY <1>1, <1>2, FilingKeeps DEF Advance
  <2>2. TableOf(i) \in {"contacts", "tickets"}
    BY <1>4 DEF SameThing, TableOf
  <2>3. Stays(i) \/ Filed(q, i)
    BY <1>1, <1>4, <2>2, SingleStep DEF Singular, SingleEffect, Dropped
  <2>4. CASE Stays(i)
    <3>1. SameThing(p, i) /\ i \in DOMAIN rows
      BY <1>4, <2>1, <2>2, <2>4 DEF Stays, SameThing, SameRequest, Asks, TableOf
    <3>2. Unseen(p, i)
      BY <1>2, <1>4, <3>1 DEF Seeking
    <3> QED
      BY <2>1, <2>2, <2>4, <3>2 DEF Unseen, Stays, MakerOf
  <2>5. CASE Filed(q, i)
    <3>1. MakerOf(i) = q /\ At(q, "insert") /\ serving[q].kind \in Lookers
      BY <2>2, <2>5 DEF Filed, Lookers, Asks
    <3>2. ~serving[q].wrote
      BY <3>1 DEF SinglesInv, Seeking, At
    <3>3. ~Born(i)
      BY <3>1, <3>2, MakersAssumption DEF Born
    <3> QED
      BY <1>3, <3>1, <3>3 DEF Unseen, MakerOf
  <2> QED
    BY <2>3, <2>4, <2>5
<1> QED
  BY <1>3, <1>4

\* The step of a request that has not its row yet leaves it seeking.
LEMMA SeekingKeeps ==
  ASSUME IInv, NumbersInv, SinglesInv, NEW q \in Requests, Serve(q), ~Unlooked', serving[q].kind \in Lookers
  PROVE  Seeking(q)'
<1> USE DEF Asks
<1> DEFINE late == {"message", "reread", "answer", "done"}
<1> RequestOK(q) /\ DOMAIN serving = Requests /\ Seeking(q)
  BY DEF IInv, SinglesInv
<1>1. Advance(q)
  BY ServeKeeps DEF Sound
<1>2. /\ serving'[q].kind = serving[q].kind /\ serving'[q].ws = serving[q].ws
      /\ serving'[q].val = serving[q].val /\ serving'[q].ref = serving[q].ref
  BY <1>1 DEF Advance
\* Nothing is written, and the insertion is not next.
<1>3. ASSUME ~serving'[q].wrote, serving'[q].at \notin {"insert", "message"} PROVE Seeking(q)'
  BY <1>3 DEF Seeking, At
\* It has looked, or written, already.
<1>4. ASSUME At(q, "insert") \/ serving[q].wrote, serving'[q].saw = serving[q].saw, serving'[q].at \in late,
             serving'[q].at = "message" => serving'[q].wrote
      PROVE  Seeking(q)'
  BY <1>4, SeekingLasts DEF Seeking, At
\* It looks now.
<1>5. ASSUME rows' = rows, serving'[q].read = serving[q].read, ~serving'[q].wrote, serving'[q].at = "insert",
             \A i \in serving'[q].saw : i \in DOMAIN rows /\ TableOf(i) \in {"contacts", "tickets"},
             \A i \in DOMAIN rows :
               SameThing(q, i) => serving[q].kind \in Doors /\ i \in serving'[q].saw /\ rows[i].flag.source = "billing"
      PROVE  Seeking(q)'
  <2>1. ASSUME NEW i \in serving'[q].saw PROVE TableOf(i) \in {"contacts", "tickets"} /\ Born(i)'
    <3>1. i \in DOMAIN rows /\ TableOf(i) \in {"contacts", "tickets"}
      BY <1>5, <2>1
    <3>2. Born(i)
      BY <3>1 DEF SinglesInv, Singular, AsFiled, Born
    <3> QED
      BY <3>1, <3>2, BornLasts
  <2>2. Filing(q)' = Filing(q)
    BY <1>2, <1>5 DEF Filing, NewRow, FiledTicket, PublicTicket, RequestRow, Wanted
  <2>3. ASSUME NEW i \in DOMAIN rows', SameThing(q, i)' PROVE Unseen(q, i)'
    <3>1. SameThing(q, i)
      BY <1>2, <1>5, <2>2, <2>3 DEF SameThing, TableOf
    <3> QED
      BY <1>2, <1>5, <3>1 DEF Unseen
  <2> QED
    BY <1>5, <2>1, <2>3 DEF Seeking, TableOf, MakerOf, At
\* It ends, or goes on.
<1>6. ASSUME NEW answer, Ends(q, answer) PROVE Seeking(q)'
  <2>1. serving'[q].at = "done" /\ serving'[q].saw = serving[q].saw /\ serving'[q].wrote = serving[q].wrote
    BY <1>6 DEF Ends, RequestOK, Fields
  <2> QED
    BY <1>3, <1>4, <2>1
<1>7. ASSUME NEW here, here \notin late, here # "insert", At(q, here) PROVE ~serving[q].wrote
  BY <1>7 DEF Seeking, At
<1>8. ASSUME NEW here, here \notin late, here # "insert", NEW found, Show(q, here, found) PROVE Seeking(q)'
  <2>1. serving'[q].at = "done" /\ serving'[q].wrote = serving[q].wrote /\ ~serving[q].wrote
    BY <1>7, <1>8 DEF Show, RequestOK, Fields
  <2> QED
    BY <1>3, <2>1
<1>9. ASSUME NEW here, here \notin late, here # "insert", NEW found, NEW next, next \notin {"insert", "message"}, Look(q, here, found, next) PROVE Seeking(q)'
  <2>1. serving'[q].at = next /\ serving'[q].wrote = serving[q].wrote /\ ~serving[q].wrote
    BY <1>7, <1>9 DEF Look, RequestOK, Fields
  <2> QED
    BY <1>3, <1>9, <2>1
<1>10. ASSUME NEW here, here \notin late, here # "insert", NEW found, Look(q, here, found, "insert"),
              \A i \in found : i \in DOMAIN rows /\ TableOf(i) \in {"contacts", "tickets"},
              \A i \in DOMAIN rows :
                SameThing(q, i) => serving[q].kind \in Doors /\ i \in found /\ rows[i].flag.source = "billing"
       PROVE  Seeking(q)'
  <2>1. /\ rows' = rows /\ serving'[q].saw = found /\ serving'[q].at = "insert" /\ serving'[q].read = serving[q].read
        /\ serving'[q].wrote = serving[q].wrote /\ ~serving[q].wrote
    BY <1>7, <1>10 DEF Look, RequestOK, Fields, tables
  <2> QED
    BY <1>5, <1>10, <2>1
<1>11. ASSUME NEW here, here \in {"insert", "message"}, NEW i, NEW row, NEW next \in late, Put(q, here, i, row, next) PROVE Seeking(q)'
  <2>1. At(q, "insert") \/ serving[q].wrote
    BY <1>11 DEF Put, Seeking
  <2>2. CASE Wrote(q, next)
    <3>1. serving'[q].at = next /\ serving'[q].saw = serving[q].saw /\ serving'[q].wrote
      BY <2>2 DEF Wrote, RequestOK, Fields
    <3> QED
      BY <1>4, <1>11, <2>1, <3>1
  <2> QED
    BY <1>6, <1>11, <2>2 DEF Put
<1>12. ASSUME NEW here, NEW i, NEW next \in {"answer", "done"}, Reread(q, here, i, next) PROVE Seeking(q)'
  <2>1. CASE Answers(q, next)
    <3>1. serving'[q].at = next /\ serving'[q].saw = serving[q].saw /\ serving'[q].wrote = serving[q].wrote
      BY <2>1 DEF Answers, RequestOK, Fields
    <3> QED
      BY <1>3, <1>4, <1>12, <3>1
  <2> QED
    BY <1>6, <1>12, <2>1 DEF Reread
<1>13. ASSUME NEW here, NEW feature, NEW next \in {"email", "slug"}, here = "start", Gate(q, here, feature, next) PROVE Seeking(q)'
  <2>1. serving[q].at \in {"start", "limit", "count"}
    BY <1>13 DEF Gate, ReadPlan, ReadLimit, CountUsage, At
  <2>2. ~serving[q].wrote
    BY <2>1 DEF Seeking
  <2>3. serving'[q].wrote = serving[q].wrote
    BY <1>13, GateOutcome
  <2>4. serving'[q].at \in {"limit", "count", next, "done"}
    BY <1>13, GateMoves
  <2> QED
    BY <1>3, <1>13, <2>2, <2>3, <2>4
<1>14. CASE CreateContact(q)
  <2>1. CASE (serving[q].val = None \/ SameEmail(q) = {}) /\ Look(q, "email", Own(q, "contacts"), "insert")
    <3>1. \A i \in Own(q, "contacts") : i \in DOMAIN rows /\ TableOf(i) = "contacts"
      BY DEF Own, Rows
    <3>2. ASSUME NEW i \in DOMAIN rows, SameThing(q, i) PROVE FALSE
      <4>1. Filing(q) = NewRow(q, "new", "on") /\ serving[q].kind \notin Filers
        BY <1>14 DEF Filing, CreateContact, Filers, Doors
      <4>2. i \in SameEmail(q) /\ serving[q].val # None
        BY <3>2, <4>1 DEF SameThing, SameEmail, Own, Rows, NewRow
      <4> QED
        BY <2>1, <4>2
    <3> QED
      BY <1>10, <2>1, <3>1, <3>2
  <2>2. CASE Refuse(q, "start") \/ Refuse(q, "email")
    BY <1>6, <2>2 DEF Refuse
  <2>3. CASE Insert(q, "insert", "contacts", "new", "on", "reread")
    BY <1>11, <2>3 DEF Insert
  <2>4. CASE Reread(q, "reread", <<"contacts", q>>, "done")
    BY <1>12, <2>4
  <2>5. CASE Gate(q, "start", "contacts", "email")
    BY <1>13, <2>5
  <2> QED
    BY <1>14, <2>1, <2>2, <2>3, <2>4, <2>5 DEF CreateContact, CheckEmail, Creation
\* The plan requests.
<1>15. CASE CreateTicket(q)
  <2>1. /\ Filing(q).ws = serving[q].ws /\ Filing(q).key = serving[q].val /\ Filing(q).text = serving[q].ref.subject
        /\ Filing(q).flag.source = serving[q].ref.source
    BY <1>15 DEF Filing, CreateTicket, FiledTicket, NewRow, Unapplied
  <2>2. serving[q].ws # None
    BY <1>15, MakersAssumption DEF CreateTicket, RequestOK, JobFits, OfVisitors
  <2>3. ASSUME NEW i \in DOMAIN rows, SameThing(q, i)
        PROVE  serving[q].ref.source \in PlanSources /\ i \in OpenRequests(q)
    <3>1. /\ TableOf(i) = "tickets" /\ rows[i].ws = serving[q].ws /\ rows[i].state \in Open
          /\ SameRequest(rows[i], Filing(q))
      BY <1>15, <2>1, <2>3 DEF SameThing, CreateTicket
    <3>2. /\ rows[i].flag.source \in PlanSources /\ serving[q].ref.source \in PlanSources
          /\ rows[i].key = serving[q].val /\ (rows[i].key = None => rows[i].text = serving[q].ref.subject)
      BY <2>1, <2>2, <3>1 DEF SameRequest
    <3> QED
      BY <3>1, <3>2 DEF OpenRequests, Own, Rows
  <2>4. CASE OpenRequests(q) = {} /\ Look(q, "existing", Own(q, "tickets"), "insert")
    <3>1. \A i \in Own(q, "tickets") : i \in DOMAIN rows /\ TableOf(i) = "tickets"
      BY DEF Own, Rows
    <3> QED
      BY <1>10, <2>3, <2>4, <3>1
  <2>5. CASE serving[q].ref.source \notin PlanSources /\ Look(q, "slug", {}, "insert")
    BY <1>10, <2>3, <2>5
  <2>6. CASE Look(q, "slug", {}, "existing")
    BY <1>9, <2>6
  <2>7. CASE Refuse(q, "start") \/ Refuse(q, "slug")
    BY <1>6, <2>7 DEF Refuse
  <2>8. CASE Show(q, "existing", OpenRequests(q))
    BY <1>8, <2>8
  <2>9. CASE Put(q, "insert", <<"tickets", q>>, FiledTicket(q), "message")
    BY <1>11, <2>9
  <2>10. CASE AddTo(q, "message", <<"tickets", q>>, "agent", "reread")
    BY <1>11, <2>10 DEF AddTo
  <2>11. CASE Reread(q, "reread", <<"tickets", q>>, "done")
    BY <1>12, <2>11
  <2>12. CASE Gate(q, "start", "tickets", "slug")
    BY <1>13, <2>12
  <2> QED
    BY <1>15, <2>4, <2>5, <2>6, <2>7, <2>8, <2>9, <2>10, <2>11, <2>12 DEF CreateTicket, CheckRequest
<1>16. ASSUME serving[q].kind \in Doors, FileRequest(q) PROVE Seeking(q)'
  <2>1. Filing(q) = RequestRow(q)
    BY <1>16 DEF Filing, Doors
  <2>2. /\ Filing(q).ws = serving[q].ws /\ Filing(q).key = Wanted(q)
    BY <2>1 DEF RequestRow, NewRow
  <2>3. serving[q].ws # None
    BY <1>16, MakersAssumption DEF Doors, RequestOK, JobFits, OfVisitors
  <2>4. ASSUME NEW i \in DOMAIN rows, SameThing(q, i), i \notin DoorRequests(q)
        PROVE  i \in Own(q, "tickets") /\ rows[i].flag.source = "billing"
    <3>1. /\ TableOf(i) = "tickets" /\ rows[i].ws = serving[q].ws /\ rows[i].state \in Open
          /\ SameRequest(rows[i], Filing(q))
      BY <1>16, <2>2, <2>4 DEF SameThing, Doors
    <3>2. rows[i].flag.source \in PlanSources /\ rows[i].key = Wanted(q)
      BY <2>2, <2>3, <3>1 DEF SameRequest
    <3> QED
      BY <2>4, <3>1, <3>2 DEF DoorRequests, PlanSources, Own, Rows
  <2>5. CASE DoorRequests(q) = {} /\ Look(q, "existing", Own(q, "tickets"), "insert")
    <3>1. \A i \in Own(q, "tickets") : i \in DOMAIN rows /\ TableOf(i) = "tickets"
      BY DEF Own, Rows
    <3> QED
      BY <1>10, <1>16, <2>4, <2>5, <3>1
  <2>6. CASE Show(q, "existing", DoorRequests(q))
    BY <1>8, <2>6
  <2>7. CASE Put(q, "insert", <<"tickets", q>>, RequestRow(q), "message")
    BY <1>11, <2>7
  <2>8. CASE AddTo(q, "message", <<"tickets", q>>, "agent", "answer")
    BY <1>11, <2>8 DEF AddTo
  <2>9. CASE Finish(q, "answer")
    BY <1>6, <2>9 DEF Finish
  <2> QED
    BY <1>16, <2>5, <2>6, <2>7, <2>8, <2>9 DEF FileRequest
<1>17. CASE RecordSignupRequest(q) \/ RecordCheckoutRequest(q)
  <2>1. CASE Refuse(q, "start") \/ Finish(q, "start")
    BY <1>6, <2>1 DEF Refuse, Finish
  <2>2. CASE Look(q, "start", {}, "existing")
    BY <1>9, <2>2
  <2>3. CASE At(q, "start") /\ serving' = [serving EXCEPT ![q].at = "existing", ![q].read = rows[Target(q)].key]
    <3>1. ~serving[q].wrote
      BY <1>7, <2>3
    <3>2. serving'[q].at = "existing" /\ serving'[q].wrote = serving[q].wrote
      BY <2>3 DEF RequestOK, Fields
    <3> QED
      BY <1>3, <3>1, <3>2
  <2>4. serving[q].kind \in Doors
    BY <1>17 DEF Doors, RecordSignupRequest, RecordCheckoutRequest
  <2> QED
    BY <1>16, <1>17, <2>1, <2>2, <2>3, <2>4 DEF RecordSignupRequest, RecordCheckoutRequest
<1>18. CASE CreatePublicTicket(q)
  <2>1. serving[q].ws = None
    BY <1>18 DEF CreatePublicTicket, RequestOK, JobFits, OfVisitors
  <2>2. CASE SamePublic(q) = {} /\ Look(q, "existing", FromAddress(q), "insert")
    <3>1. \A i \in FromAddress(q) : i \in DOMAIN rows /\ TableOf(i) = "tickets"
      BY DEF FromAddress, Rows
    <3>2. ASSUME NEW i \in DOMAIN rows, SameThing(q, i) PROVE FALSE
      <4>1. i \in SamePublic(q)
        <5>1. Filing(q) = PublicTicket(q)
          BY <1>18 DEF Filing, CreatePublicTicket
        <5>2. PublicTicket(q).ws = serving[q].ws /\ PublicTicket(q).key = serving[q].val /\ PublicTicket(q).text = serving[q].ref
          BY DEF PublicTicket, NewRow
        <5>3. TableOf(i) = "tickets" /\ rows[i].ws = None /\ rows[i].state \in Open /\ SameRequest(rows[i], PublicTicket(q))
          BY <1>18, <2>1, <3>2, <5>1, <5>2 DEF SameThing, CreatePublicTicket
        <5> QED
          BY <5>2, <5>3 DEF SameRequest, SamePublic, FromAddress, Rows
      <4> QED
        BY <2>2, <4>1
    <3> QED
      BY <1>10, <2>2, <3>1, <3>2
  <2>3. CASE Refuse(q, "start") \/ Finish(q, "answer")
    BY <1>6, <2>3 DEF Refuse, Finish
  <2>4. ASSUME NEW recent, Look(q, "start", recent, "existing") PROVE Seeking(q)'
    BY <1>9, <2>4
  <2>5. CASE Show(q, "existing", SamePublic(q))
    BY <1>8, <2>5
  <2>6. CASE Put(q, "insert", <<"tickets", q>>, PublicTicket(q), "message")
    BY <1>11, <2>6
  <2>7. CASE AddTo(q, "message", <<"tickets", q>>, "customer", "answer")
    BY <1>11, <2>7 DEF AddTo
  <2> QED
    BY <1>18, <2>2, <2>3, <2>4, <2>5, <2>6, <2>7 DEF CreatePublicTicket
<1> QED
  BY <1>14, <1>15, <1>17, <1>18, SinglesServedBy DEF Filers, Doors, Lookers

LEMMA SeekingOthers ==
  ASSUME IInv, NumbersInv, SinglesInv, NEW q \in Requests, Serve(q), ~Unlooked', NEW p \in Requests, p # q,
         serving[p].kind \in Lookers
  PROVE  Seeking(p)'
<1>1. serving'[p] = serving[p]
  BY ServeKeeps DEF Sound, Advance
<1>2. Seeking(p)
  BY DEF SinglesInv
<1>3. CASE At(p, "insert") \/ serving[p].wrote
  BY <1>1, <1>2, <1>3, SeekingLasts DEF Seeking, At
<1>4. CASE ~(At(p, "insert") \/ serving[p].wrote)
  BY <1>1, <1>2, <1>4 DEF Seeking, At
<1> QED
  BY <1>3, <1>4

LEMMA SinglesServe ==
  ASSUME IInv, NumbersInv, SinglesInv, NEW q \in Requests, Serve(q), ~Unlooked'
  PROVE  SinglesInv'
<1>1. Advance(q)
  BY ServeKeeps DEF Sound
<1>2. ASSUME NEW i \in DOMAIN rows', TableOf(i) \in Singular PROVE AsFiled(i)'
  BY <1>2, AsFiledLasts
<1>3. ASSUME NEW p \in Requests, serving[p].kind \in Lookers PROVE Seeking(p)'
  <2>1. CASE p = q
    BY <1>3, <2>1, SeekingKeeps
  <2>2. CASE p # q
    BY <1>3, <2>2, SeekingOthers
  <2> QED
    BY <2>1, <2>2
<1>4. ASSUME NEW p \in Requests, serving[p].kind \in Routers PROVE Routing(p)'
  <2>1. CASE p = q
    BY <1>4, <2>1, RoutingKeeps
  <2>2. CASE p # q
    <3>1. serving'[p] = serving[p]
      BY <1>1, <2>2 DEF Advance
    <3> QED
      BY <1>4, <2>2, <3>1, RoutingLasts
  <2> QED
    BY <2>1, <2>2
<1>5. SeedsApart' /\ ListsApart'
  BY SeedsLast
<1>6. \A p \in Requests : serving'[p].kind = serving[p].kind
  BY <1>1 DEF Advance
<1>7. \A i : TableOf(i)' = TableOf(i)
  BY DEF TableOf
<1> QED
  BY <1>2, <1>3, <1>4, <1>5, <1>6, <1>7 DEF SinglesInv

LEMMA SinglesStart == Init => SinglesInv
<1> SUFFICES ASSUME Init PROVE SinglesInv
  OBVIOUS
<1>1. PICK load \in Workloads :
        /\ rows = load.rows
        /\ \E asked \in load.asked : serving = [q \in Requests |-> Received(asked[q])]
  BY DEF Init
<1>2. Seeded(rows)
  BY <1>1, WorkloadsAssumption
<1>3. \A i, j \in DOMAIN rows : ~Twins(i, j)
  BY <1>1, SinglesAssumption DEF Twins
<1>4. ASSUME NEW q \in Requests PROVE serving[q].at = "start" /\ ~serving[q].wrote
  BY <1>1 DEF Received
<1>5. \A q \in Requests : Seeking(q) /\ Routing(q)
  BY <1>4 DEF Seeking, Routing, At
<1>6. \A i \in DOMAIN rows : MakerOf(i) \in Workspaces
  BY <1>2 DEF Seeded
<1> QED
  BY <1>3, <1>5, <1>6 DEF SinglesInv, SeedsApart, ListsApart, AsFiled, Rows

\* The inductive invariant: it holds of every request until one writes unlooked.
SinglesUnlessUnlooked == Unlooked \/ SinglesInv

LEMMA SinglesStep == IInv /\ NumbersInv /\ SinglesUnlessUnlooked /\ [Next]_vars => SinglesUnlessUnlooked'
<1> SUFFICES ASSUME IInv, NumbersInv, SinglesUnlessUnlooked, [Next]_vars PROVE SinglesUnlessUnlooked'
  OBVIOUS
<1>1. ASSUME NEW q \in Requests, Serve(q) PROVE SinglesUnlessUnlooked'
  <2>1. CASE Unlooked
    BY <1>1, <2>1, UnlookedLasts DEF SinglesUnlessUnlooked
  <2>2. CASE SinglesInv /\ ~Unlooked'
    BY <1>1, <2>2, SinglesServe DEF SinglesUnlessUnlooked
  <2> QED
    BY <2>1, <2>2 DEF SinglesUnlessUnlooked
<1>2. CASE UNCHANGED vars
  <2>1. rows' = rows /\ serving' = serving
    BY <1>2 DEF vars
  <2>2. Unlooked' = Unlooked
    BY <2>1 DEF Unlooked
  <2>3. ASSUME SinglesInv PROVE SinglesInv'
    <3>0. \A p \in Requests : Filing(p)' = Filing(p)
      BY <2>1 DEF Filing, Asks, NewRow, FiledTicket, PublicTicket, RequestRow, Wanted
    <3>1. ASSUME NEW i \in DOMAIN rows, TableOf(i) \in Singular PROVE AsFiled(i)'
      BY <2>1, <2>3, <3>0, <3>1 DEF SinglesInv, AsFiled, Asks, TableOf, MakerOf
    <3>2. ASSUME NEW q \in Requests
          PROVE  /\ serving[q].kind \in Lookers => Seeking(q)'
                 /\ serving[q].kind \in Routers => Routing(q)'
      <4>1. ASSUME Seeking(q) PROVE Seeking(q)'
        BY <2>1, <3>0, <4>1 DEF Seeking, SameThing, Unseen, Born, Asks, At, TableOf, MakerOf
      <4>2. ASSUME Routing(q) PROVE Routing(q)'
        BY <2>1, <4>2 DEF Routing, Routed, Asks, At, Rows, TableOf, MakerOf
      <4> QED
        BY <2>3, <4>1, <4>2 DEF SinglesInv
    <3>3. SeedsApart' /\ ListsApart'
      BY <2>1, <2>3 DEF SinglesInv, SeedsApart, ListsApart, Twins, Alike, Rows, TableOf, MakerOf
    <3> QED
      BY <2>1, <3>1, <3>2, <3>3 DEF SinglesInv, TableOf
  <2> QED
    BY <2>2, <2>3 DEF SinglesUnlessUnlooked
<1> QED
  BY <1>1, <1>2 DEF Next

\* Whoever made the one twin did not see the other, or passed over it.
LEMMA TwinUnseen ==
  ASSUME IInv, SinglesInv, NEW i \in DOMAIN rows, NEW j \in DOMAIN rows, Twins(i, j), MakerOf(j) \in Requests
  PROVE  (MakerOf(i) \in Requests /\ i \notin serving[MakerOf(j)].saw) \/ PassedOver(j, i)
<1> USE DEF Asks
<1>1. PICK q \in Requests : q = MakerOf(j)
  OBVIOUS
<1>2. i # j /\ TableOf(i) = TableOf(j) /\ TableOf(i) \in Singular /\ rows[i].ws = rows[j].ws
  BY DEF Twins, Alike, Singular
<1>3. AsFiled(i) /\ AsFiled(j) /\ MakerOf(j) \notin Workspaces
  BY <1>2, MakersAssumption DEF SinglesInv
<1>4. MakerOf(i) # q
  <2>1. i \in RowIds({TableOf(i)}) /\ j \in RowIds({TableOf(j)})
    BY DEF IInv, Sane, WellStored, RowStored
  <2>2. i = <<TableOf(i), MakerOf(i)>> /\ j = <<TableOf(j), MakerOf(j)>>
    BY <2>1 DEF RowIds, TableOf, MakerOf
  <2> QED
    BY <1>1, <1>2, <2>2
<1>5. ASSUME SameThing(q, i), serving[q].kind \in Lookers
      PROVE  (MakerOf(i) \in Requests /\ i \notin serving[q].saw) \/ PassedOver(j, i)
  <2>1. serving[q].wrote
    BY <1>1, <1>3 DEF AsFiled
  <2>2. Unseen(q, i)
    BY <1>4, <1>5, <2>1 DEF SinglesInv, Seeking
  <2> QED
    BY <1>1, <2>2 DEF Unseen, PassedOver
<1>6. CASE TableOf(j) = "contacts"
  <2>1. serving[q].kind = "create_contact" /\ Like(rows[j], Filing(q))
    BY <1>1, <1>3, <1>6 DEF AsFiled
  <2>2. rows[i].key = rows[j].key /\ rows[i].key # None
    BY <1>2, <1>6 DEF Twins, Alike
  <2>3. SameThing(q, i)
    BY <1>2, <1>6, <2>1, <2>2 DEF SameThing, Like
  <2> QED
    BY <1>1, <1>5, <2>1, <2>3 DEF Lookers
<1>7. CASE TableOf(j) = "tickets"
  <2>1. serving[q].kind \in Filers /\ Like(rows[j], Filing(q))
    BY <1>1, <1>3, <1>7 DEF AsFiled
  <2>2. rows[i].state \in Open /\ SameRequest(rows[i], rows[j])
    BY <1>2, <1>7 DEF Twins, Alike
  <2>3. SameRequest(rows[i], Filing(q))
    BY <2>1, <2>2 DEF SameRequest, Like
  <2>4. SameThing(q, i)
    BY <1>2, <1>7, <2>1, <2>2, <2>3 DEF SameThing, Like
  <2> QED
    BY <1>1, <1>5, <2>1, <2>4 DEF Lookers
<1>8. CASE TableOf(j) = "lists"
  <2>1. serving[q].saw = {j}
    BY <1>1, <1>3, <1>8 DEF AsFiled
  <2>2. rows[i].link = rows[j].link /\ rows[i].link # None
    BY <1>2, <1>8 DEF Twins, Alike
  <2>3. i \in Rows("lists") /\ j \in Rows("lists")
    BY <1>2, <1>8 DEF Rows
  <2>4. MakerOf(i) \notin Workspaces
    BY <1>3, <2>2, <2>3 DEF SinglesInv, ListsApart
  <2> QED
    BY <1>1, <1>2, <1>3, <2>1, <2>4 DEF AsFiled
<1> QED
  BY <1>2, <1>6, <1>7, <1>8 DEF Singular

\* Two rows for one thing (contacts of one address, lists of one campaign, open
\* requests for one plan or of one visitor) come, for any requests of any
\* workspaces, only from two requests that ran through each other's check and
\* insert, from an edit or a second list that is made without looking, or from
\* the sign-up or the checkout, whose look-up is for requests of their own
\* source and passes over an open one from the billing page.
THEOREM TwinsComeOfOverlap == Spec => []TwinsOnlyFromOverlap
<1>1. Init => SinglesUnlessUnlooked
  BY SinglesStart DEF SinglesUnlessUnlooked
<1>2. IInv /\ SinglesUnlessUnlooked => TwinsOnlyFromOverlap
  <2> SUFFICES ASSUME IInv, SinglesUnlessUnlooked, ~Unlooked, NEW i \in DOMAIN rows, NEW j \in DOMAIN rows, Twins(i, j),
                      ~PassedOver(i, j), ~PassedOver(j, i)
               PROVE  /\ {MakerOf(i), MakerOf(j)} \subseteq Requests
                      /\ i \notin serving[MakerOf(j)].saw /\ j \notin serving[MakerOf(i)].saw
    BY DEF TwinsOnlyFromOverlap, Unlooked
  <2>1. SinglesInv /\ Twins(j, i)
    BY DEF SinglesUnlessUnlooked, Twins, Alike, SameRequest
  <2>2. AsFiled(i) /\ AsFiled(j)
    BY <2>1 DEF SinglesInv, Twins, Alike, Singular
  <2>3. MakerOf(i) \in Requests \/ MakerOf(j) \in Requests
    BY <2>1, <2>2 DEF SinglesInv, SeedsApart, AsFiled
  <2> QED
    BY <2>1, <2>3, TwinUnseen
<1> QED
  BY <1>1, <1>2, Invariance, NumbersStart, NumbersStep, SinglesStep, PTL DEF Spec

-----------------------------------------------------------------------------
(* Limits: the inductive invariant.                                         *)

\* What goes through the gate, and the table it is counted in.
Gates ==
  [create_call |-> "calls", create_contact |-> "contacts", create_lead |-> "leads", create_deal |-> "deals",
   create_campaign |-> "campaigns", create_tag |-> "tags", create_rule |-> "response_rules",
   create_integration |-> "integrations", create_follow_up |-> "follow_ups", create_ticket |-> "tickets",
   invite_teammate |-> "users", purchase_number |-> "phone_numbers"]
IsGated(q) == serving[q].kind \in DOMAIN Gates
TableMade(q) == Gates[serving[q].kind]

\* The workspace is there unless it never was, its plan and seat are as they were
\* when the requests began, and nothing turned a number that was counted.
PlanHeld(ws) ==
  /\ ~Replanned /\ ~MadeAnew(ws)
  /\ Home(ws) \in DOMAIN rows \/ ~\E p \in Requests : Retires(p, ws)
Unturned(t) == t = "phone_numbers" => ~CountedNumberTurned

\* Places before the count, between it and the row, and after the row.
Before == {"start", "gate", "limit", "count"}
Between == {"email", "slug", "existing", "insert", "find", "key", "account", "order", "persist"}
After == {"reread", "message", "route", "list", "own list", "join", "answer", "mail", "done"}
Cleared(q) == serving[q].wrote \/ serving[q].at \notin Before \cup {"done"}

\* The row is there because the request made it, or took it up.
Raises(q, i) == serving[q].wrote /\ i \in Made(q, TableOf(i))
Raised(i) == \E q \in Requests : Raises(q, i)

\* Who is past the count was under the limit, and counted what nobody made.
UnderLimit(q) ==
  LET ws == serving[q].ws
      t == TableMade(q)
  IN
  /\ At(q, "limit") => serving[q].read = SlugOf(ws)
  /\ At(q, "count") => \E p \in PlanNamed(SlugOf(ws)) : Declared(p, t) # None /\ serving[q].limit = Declared(p, t)
  /\ Cleared(q) =>
       \A p \in PlanNamed(SlugOf(ws)) :
         Capped(p, t) =>
           /\ serving[q].limit = Declared(p, t)
           /\ IsFiniteSet(serving[q].counted) /\ Cardinality(serving[q].counted) < Declared(p, t)
           /\ \A i \in Used(ws, t) : i \in serving[q].counted \/ Raised(i)
Gating(q) ==
  /\ serving[q].wrote => serving[q].at \notin Before \cup Between
  /\ serving[q].at \in Before => serving[q].counted = {}
  /\ \A i \in serving[q].counted : Born(i)
  /\ PlanHeld(serving[q].ws) => UnderLimit(q)

\* Where a limited row comes from: nobody made it since the start, or it is no
\* workspace's, or who made it goes through no gate or through the table's.
MadeBy(q, i) ==
  /\ Raises(q, i)
  /\ \/ rows[i].ws \notin Workspaces
     \/ serving[q].kind \in Ungated
     \/ IsGated(q) /\ TableMade(q) = TableOf(i) /\ rows[i].ws = serving[q].ws
PastGate(i) == Born(i) /\ (Raised(i) => \E q \in Requests : MadeBy(q, i))

\* Any set of rows no two of which were counted apart is within the limit.
Apart(i, j) ==
  \E p, q \in Requests :
    /\ p # q /\ IsGated(p) /\ IsGated(q) /\ Raises(p, i) /\ Raises(q, j)
    /\ serving[p].limit # None /\ serving[q].limit # None
    /\ i \notin serving[q].counted /\ j \notin serving[p].counted
InTurn(V) ==
  /\ \A i \in V, q \in Requests : Raises(q, i) => serving[q].kind \notin Ungated
  /\ \A i, j \in V : i # j => ~Apart(i, j)
Within(ws, t) ==
  \A V \in SUBSET Used(ws, t), p \in PlanNamed(SlugOf(ws)) :
    InTurn(V) /\ Capped(p, t) => Cardinality(V) <= Declared(p, t)

\* A purchase takes up at most one row, stored before it was looked for. A row
\* that was counted is held, and one that was found is not, until it is turned.
OneTaken(q) ==
  /\ \A i \in serving[q].saw : Born(i)
  /\ serving[q].wrote => serving[q].saw = {} \/ \E i : serving[q].saw = {i}
Untouched(i) ==
  \A q \in Requests :
    Asks(q, "purchase_number") => /\ i \in serving[q].counted => Held(i)
                                  /\ i \in serving[q].saw => ~Held(i)
Turned(i) == \E d \in Requests : Turns(d, i)

PlansApart ==
  /\ \A p, o \in Rows("plans") : rows[p].key = rows[o].key => p = o
  /\ \A p \in Rows("plans"), t \in Gated : Declared(p, t) = None \/ Declared(p, t) \in Int
LimitsInv ==
  /\ \A i \in DOMAIN rows : TableOf(i) \in Gated => PastGate(i)
  /\ \A q \in Requests : IsGated(q) => Gating(q)
  /\ \A q \in Requests : Asks(q, "purchase_number") => OneTaken(q)
  /\ \A i \in Rows("phone_numbers") : Turned(i) \/ Untouched(i)
  /\ Replanned \/ PlansApart
  /\ \A ws \in Workspaces :
       /\ PlanHeld(ws) => ws \in DOMAIN seat
       /\ \A t \in Gated : IsFiniteSet(Used(ws, t)) /\ (PlanHeld(ws) /\ Unturned(t) => Within(ws, t))

-----------------------------------------------------------------------------
(* What a step does to the plan and to the limited rows.                    *)

LEMMA LimitsServedBy ==
  ASSUME NEW q \in Requests, Serve(q)
  PROVE  /\ Asks(q, "create_call") => CreateCall(q)
         /\ Asks(q, "create_deal") => CreateDeal(q)
         /\ Asks(q, "create_follow_up") => CreateFollowUp(q)
         /\ Asks(q, "create_rule") => CreateRule(q)
         /\ Asks(q, "create_integration") => CreateIntegration(q)
         /\ Asks(q, "create_tag") => CreateTag(q)
         /\ Asks(q, "get_plan") => GetPlan(q)
         /\ Asks(q, "provision_account") => ProvisionFreeAccount(q)
         /\ Asks(q, "portfolio_sync") => PortfolioSync(q)
         /\ Asks(q, "invite_teammate") => InviteTeammate(q)
         /\ Asks(q, "remove_member") => RemoveMember(q)
<1> USE DEF Asks
<1> DEFINE limits == {"create_call", "create_deal", "create_follow_up", "create_rule", "create_integration", "create_tag",
                      "get_plan", "provision_account", "portfolio_sync", "invite_teammate", "remove_member"}
<1>1. ServeRecord(q) => CreateCall(q) \/ CreateDeal(q) \/ CreateFollowUp(q) \/ serving[q].kind \notin limits
  BY DEF ServeRecord, ListCalls, GetCall, UpdateCall, DeleteCall, RespondToCall, RecordCall, ListContacts, ExportContacts,
         SearchContacts, GetContact, CreateContact, UpdateContact, DeleteContact, ListCustomFields, CreateCustomField,
         UpdateCustomField, DeleteCustomField, GetContactWithFields, ListContactsWithFields, UpdateContactFieldValue,
         ListClients, GetClient, CreateClient, UpdateClient, DeleteClient, ListDeals, GetDeal, UpdateDeal, DeleteDeal,
         MoveStage, ListEvents, GetEvent, CreateEvent, UpdateEvent, DeleteEvent, ListFollowUps, UpdateFollowUp,
         DeleteFollowUp
<1>2. ServeAutomation(q) => CreateRule(q) \/ CreateIntegration(q) \/ serving[q].kind \notin limits
  BY DEF ServeAutomation, ListRules, UpdateRule, DeleteRule, ListTemplates, CreateTemplate, UpdateTemplate,
         DeleteTemplate, ListIntegrations, UpdateIntegration, DeleteIntegration, TestIntegration, ListTargets,
         CreateTarget, UpdateTarget, DeleteTarget, ListCompanies, GetCompany, CreateCompany, UpdateCompany,
         DeleteCompany, SyncCompany, GetSmtp, UpdateSmtp, ListEmailTriggers, GetEmailTrigger, CreateEmailTrigger,
         UpdateEmailTrigger, DeleteEmailTrigger, ListRedirects, GetRedirect, CreateRedirect, UpdateRedirect,
         DeleteRedirect, ListExports, GetExport, CreateExport, UpdateExport, DeleteExport, ListImports, GetImport,
         CreateImport, UpdateImport, DeleteImport
<1>3. ServeSetting(q) => serving[q].kind \notin limits
  BY DEF ServeSetting, GetEmailConfig, UpdateEmailConfig, GetSite, UpdateSite, GetBranding, GetLogo, PutBranding,
         UploadLogo, DeleteLogo, ListEmailTemplates, CreateEmailTemplate, UpdateEmailTemplate, DeleteEmailTemplate,
         ListKeys, UpsertKey, DeleteKey, ListPaymentProviders, UpsertPaymentProvider, DeletePaymentProvider
<1>4. ServeCampaign(q) => CreateTag(q) \/ serving[q].kind \notin limits
  BY DEF ServeCampaign, ListLeads, GetLead, CreateLead, UpdateLead, DeleteLead, ListLists, ShowMembers, AddLead,
         RemoveLead, CreateList, UpdateList, DeleteList, ListTags, GetTag, UpdateTag, DeleteTag, ListTagGroups,
         GetTagGroup, CreateTagGroup, UpdateTagGroup, DeleteTagGroup, ListCampaigns, GetCampaign, CreateCampaign,
         UpdateCampaign, DeleteCampaign, Activate, Pause
<1>5. ServePlan(q) => GetPlan(q) \/ serving[q].kind \notin limits
  BY DEF ServePlan, ListPlans, ListActivePlans, CreatePlan, UpdatePlan, DeletePlan, MergeFeatures, SetEntitlement,
         ShowRegistry, GrantTopTier, AssignPlan, GetProvisioning, UpdateProvisioning
<1>6. ServeTicket(q) => serving[q].kind \notin limits
  BY DEF ServeTicket, ListTickets, TicketStats, GetTicket, CreatePublicTicket, PublicAnswer, CreateTicket,
         RecordSignupRequest, RecordCheckoutRequest, UpdateTicket, AddTicketMessage, DeleteTicket
<1>7. ServeAccount(q) => ProvisionFreeAccount(q) \/ PortfolioSync(q) \/ serving[q].kind \notin limits
  BY DEF ServeAccount, DeleteTenant, BulkDeleteTenants, SyncCreate, SyncUpdate, SyncDelete
<1>8. ServeNumber(q) => InviteTeammate(q) \/ RemoveMember(q) \/ serving[q].kind \notin limits
  BY DEF ServeNumber, ListNumbers, PurchaseNumber, DeleteNumber, ShowAccount, PutAccount, ListMembers
<1>9. \/ CreateCall(q) \/ CreateDeal(q) \/ CreateFollowUp(q) \/ CreateRule(q) \/ CreateIntegration(q) \/ CreateTag(q)
      \/ GetPlan(q) \/ ProvisionFreeAccount(q) \/ PortfolioSync(q) \/ InviteTeammate(q) \/ RemoveMember(q)
      \/ serving[q].kind \notin limits
  BY <1>1, <1>2, <1>3, <1>4, <1>5, <1>6, <1>7, <1>8 DEF Serve
<1>10. /\ CreateCall(q) => serving[q].kind = "create_call"
       /\ CreateDeal(q) => serving[q].kind = "create_deal"
       /\ CreateFollowUp(q) => serving[q].kind = "create_follow_up"
       /\ CreateRule(q) => serving[q].kind = "create_rule"
       /\ CreateIntegration(q) => serving[q].kind = "create_integration"
       /\ CreateTag(q) => serving[q].kind = "create_tag"
       /\ GetPlan(q) => serving[q].kind = "get_plan"
       /\ ProvisionFreeAccount(q) => serving[q].kind = "provision_account"
       /\ PortfolioSync(q) => serving[q].kind = "portfolio_sync"
       /\ InviteTeammate(q) => serving[q].kind = "invite_teammate"
       /\ RemoveMember(q) => serving[q].kind = "remove_member"
  BY DEF CreateCall, CreateDeal, CreateFollowUp, CreateRule, CreateIntegration, CreateTag, GetPlan,
         ProvisionFreeAccount, PortfolioSync, InviteTeammate, RemoveMember
<1> QED
  BY <1>9, <1>10

\* Nothing but the operator's requests changes a plan, and nothing but those the
\* seat of a workspace, while it stays or if it was never deleted.
PlanStands(ws) ==
  /\ ws \in DOMAIN seat' /\ SlugOf(ws)' = SlugOf(ws) /\ Rows("plans")' = Rows("plans")
  /\ PlanNamed(SlugOf(ws))' = PlanNamed(SlugOf(ws))
  /\ \A p \in Rows("plans") : rows'[p].key = rows[p].key /\ \A t : Declared(p, t)' = Declared(p, t)

LEMMA HeldBefore ==
  ASSUME IInv, NumbersInv, NEW q \in Requests, Serve(q), NEW ws \in Workspaces, PlanHeld(ws)'
  PROVE  PlanHeld(ws) /\ ~Replanned' /\ ~Replans(q)
<1> USE DEF Asks
<1>1. Advance(q) /\ Footprint(q) /\ Found(q)
  BY ServeKeeps, StepKeeps, ServeFoot DEF Sound, NumbersInv
<1>2. /\ ~Replanned' /\ ~MadeAnew(ws)'
      /\ Home(ws) \in DOMAIN rows' \/ ~\E p \in Requests : Retires(p, ws)'
  BY DEF PlanHeld, Home
<1>3. ASSUME NEW p \in Requests, serving[p].kind \in ChangesPlans, serving[p].wrote \/ (p = q /\ serving'[p].wrote)
      PROVE  FALSE
  <2>1. serving'[p].wrote /\ serving'[p].kind = serving[p].kind
    BY <1>1, <1>3, ExcusesLast DEF Advance
  <2> QED
    BY <1>2, <1>3, <2>1 DEF Replanned
<1>4. ASSUME NEW p \in Requests, Retires(p, ws) PROVE Retires(p, ws)'
  BY <1>4, ExcusesLast
<1>5. ASSUME NEW p \in Requests, NEW d \in Requests, Retires(d, ws), serving[p].kind = "sync_company", serving[p].ws = ws,
             serving'[p].wrote
      PROVE  FALSE
  <2>1. serving'[p].kind = "sync_company" /\ serving'[p].ws = ws
    BY <1>1, <1>5 DEF Advance
  <2> QED
    BY <1>2, <1>4, <1>5, <2>1 DEF MadeAnew
<1>6. ~MadeAnew(ws)
  BY <1>5, ExcusesLast DEF MadeAnew
<1>7. Home(ws) \in DOMAIN rows \/ ~\E p \in Requests : Retires(p, ws)
  <2> SUFFICES ASSUME Home(ws) \notin DOMAIN rows, NEW d \in Requests, Retires(d, ws) PROVE FALSE
    OBVIOUS
  <2>1. TableOf(Home(ws)) = "tenants" /\ MakerOf(Home(ws)) = ws /\ Home(ws) \in RowIds({"tenants"})
    BY DEF Home, TableOf, MakerOf, RowIds
  <2>2. Reaches(q, Home(ws)) /\ serving'[q].wrote /\ Home(ws) \in DOMAIN rows'
    BY <1>1, <1>2, <1>4 DEF Footprint, Left, Touches, Names, Unlinked, Falls
  <2>3. serving[q].kind \notin {"sync_create", "sync_update"}
    BY <1>3, <2>2 DEF ChangesPlans
  <2>4. ~(Home(ws) \in serving[q].saw /\ serving[q].kind \in {"purchase_number", "put_account", "upsert_payment_provider"})
    BY <1>1, <2>1 DEF Found, IInv, Holds, SeesNumbers
  <2>5. MakerOf(Home(ws)) # q
    BY <2>1, MakersAssumption
  <2>6. Home(ws) = Target(q)
    BY <2>1, <2>2, <2>3, <2>4, <2>5 DEF Reaches
  <2>7. CASE serving[q].kind = "sync_company"
    <3>1. Target(q) = Home(serving[q].ws)
      BY <2>7 DEF IInv, RequestOK, JobFits, Target
    <3>2. serving[q].ws = ws
      BY <2>6, <3>1 DEF Home
    <3> QED
      BY <1>5, <2>2, <2>7, <3>2
  <2>8. CASE serving[q].kind = "delete_tenant"
    <3>1. DeleteTenant(q)
      BY <2>8, ServedBy
    <3>2. DOMAIN rows' \subseteq DOMAIN rows
      BY <3>1 DEF DeleteTenant, Refuse, Finish, DeleteWorkspace, Without, tables
    <3> QED
      BY <2>2, <3>2
  <2>9. serving[q].kind \in OnTenants
    BY <2>1, <2>6 DEF IInv, RequestOK, JobFits, Target
  <2> QED
    BY <2>7, <2>8, <2>9 DEF OnTenants
<1> QED
  BY <1>2, <1>3, <1>6, <1>7 DEF PlanHeld, Replanned, Replans

\* Only with its workspace does a seat go.
LEMMA SeatGoes ==
  ASSUME IInv, NumbersInv, NEW q \in Requests, Serve(q), ~Replans(q), NEW ws \in Workspaces, Home(ws) \in DOMAIN rows'
  PROVE  SeatKept(ws)
<1> USE DEF Asks
<1>1. ASSUME NEW home, NEW next, DeleteWorkspace(q, home, next) PROVE SeatKept(ws)
  <2>1. Home(ws) # home
    <3> SUFFICES ASSUME Home(ws) = home PROVE FALSE
      OBVIOUS
    <3>1. rows[home].ws = MakerOf(home)
      BY <1>1 DEF DeleteWorkspace, IInv, Sane, WellStored, RowStored, Home, TableOf, Personal
    <3>2. home \in Retired(MakerOf(home))
      BY <1>1, <3>1 DEF DeleteWorkspace, Retired
    <3> QED
      BY <1>1, <3>2 DEF DeleteWorkspace, Without
  <2> QED
    BY <1>1, <2>1 DEF DeleteWorkspace, SeatKept
<1>2. CASE seat' = seat
  BY <1>2 DEF SeatKept
<1>3. CASE Asks(q, "delete_tenant")
  <2>1. DeleteTenant(q)
    BY <1>3, ServedBy
  <2> QED
    BY <1>1, <1>2, <2>1 DEF DeleteTenant, Refuse, Finish, tables
<1>4. CASE Asks(q, "bulk_delete_tenants")
  <2>1. BulkDeleteTenants(q)
    BY <1>4, ServedBy
  <2> QED
    BY <1>1, <1>2, <2>1 DEF BulkDeleteTenants, Look, Finish, tables
<1>5. Footprint(q)
  BY ServeFoot DEF NumbersInv
<1> QED
  BY <1>2, <1>3, <1>4, <1>5 DEF Footprint, BesideKept, Retiring

\* The rows of the plans stay, with the slug and the features.
LEMMA PlanRowStays ==
  ASSUME IInv, NumbersInv, NEW q \in Requests, Serve(q), ~Replans(q), NEW i, TableOf(i) = "plans",
         i \in DOMAIN rows \/ i \in DOMAIN rows'
  PROVE  /\ i \in DOMAIN rows /\ i \in DOMAIN rows'
         /\ rows'[i].key = rows[i].key /\ rows'[i].state = rows[i].state
<1> USE DEF Asks
<1>1. IInv' /\ Footprint(q) /\ Found(q)
  BY ServeKeeps, StepKeeps, ServeFoot DEF NumbersInv
<1>2. i \in DOMAIN rows /\ i \in DOMAIN rows'
  <2>1. caps' = caps
    BY <1>1 DEF Footprint, BesideKept
  <2>2. DOMAIN caps = {j \in DOMAIN rows : TableOf(j) = "plans"}
    BY DEF IInv, Sane, WellStored
  <2>3. DOMAIN caps' = {j \in DOMAIN rows' : TableOf(j) = "plans"}
    BY <1>1 DEF IInv, Sane, WellStored, TableOf
  <2> QED
    BY <2>1, <2>2, <2>3
<1>3. i \in RowIds({"plans"}) /\ DOMAIN rows[i] = Columns \cup {"ws"}
  BY <1>2 DEF IInv, Sane, WellStored, RowStored
<1>4. CASE Left(i)
  BY <1>2, <1>4 DEF Left
<1>5. CASE Unlinked(q, i)
  BY <1>2, <1>3, <1>5 DEF Unlinked, Columns
<1>6. ~Falls(q, i)
  BY <1>2 DEF Falls
<1>7. CASE Names(q, i) /\ serving'[q].wrote
  <2>1. CASE i = Target(q)
    <3>1. serving[q].kind \in OnPlans
      BY <1>3, <2>1 DEF IInv, RequestOK, JobFits, Target
    <3>2. serving[q].kind \in {"get_plan", "checkout_request"}
      BY <1>7, <3>1 DEF OnPlans, ChangesPlans, Replans
    <3>3. CASE rows' = rows
      BY <1>2, <3>3
    <3>4. CASE serving[q].kind = "get_plan"
      <4>1. GetPlan(q)
        BY <3>4, LimitsServedBy
      <4> QED
        BY <3>3, <4>1 DEF GetPlan, GetRow, Show, Missing, tables
    <3>5. CASE serving[q].kind = "checkout_request"
      <4>1. RecordCheckoutRequest(q)
        BY <3>5, SinglesServedBy
      <4>2. ASSUME NEW here, NEW t, t # "plans", NEW row, NEW next, Put(q, here, <<t, q>>, row, next) PROVE Left(i)
        <5>1. i # <<t, q>>
          BY <4>2 DEF TableOf
        <5> QED
          BY <4>2, <5>1, PutElsewhere
      <4>3. CASE Put(q, "insert", <<"tickets", q>>, RequestRow(q), "message")
        BY <1>4, <4>2, <4>3
      <4>4. CASE AddTo(q, "message", <<"tickets", q>>, "agent", "answer")
        BY <1>4, <4>2, <4>4 DEF AddTo
      <4>5. CASE FileRequest(q)
        BY <3>3, <4>3, <4>4, <4>5 DEF FileRequest, Look, Show, Finish, tables
      <4> QED
        BY <3>3, <4>1, <4>5 DEF RecordCheckoutRequest, Refuse, Finish, tables
    <3> QED
      BY <3>2, <3>4, <3>5
  <2>2. CASE MakesIn(serving[q].kind, "plans")
    BY <1>7, <2>2 DEF MakesIn, ChangesPlans, Replans
  <2>3. ~(i \in serving[q].saw /\ serving[q].kind \in {"purchase_number", "put_account", "upsert_payment_provider"})
    BY <1>1 DEF Found, IInv, Holds, SeesNumbers
  <2> QED
    BY <1>7, <2>1, <2>2, <2>3 DEF Names, Reaches
<1> QED
  BY <1>1, <1>2, <1>4, <1>5, <1>6, <1>7 DEF Footprint, Touches

LEMMA PlanStays ==
  ASSUME IInv, NumbersInv, LimitsInv, NEW q \in Requests, Serve(q), NEW ws \in Workspaces, PlanHeld(ws)'
  PROVE  PlanStands(ws)
<1>1. PlanHeld(ws) /\ ~Replans(q) /\ Footprint(q) /\ SeatKept(ws)
  <2>1. PlanHeld(ws) /\ ~Replans(q) /\ Footprint(q)
    BY HeldBefore, ServeFoot DEF NumbersInv
  <2>2. CASE Home(ws) \in DOMAIN rows'
    BY <2>1, <2>2, SeatGoes
  <2>3. CASE ~\E p \in Requests : Retires(p, ws)'
    <3>1. ~Retiring(q, ws)
      BY <2>3, ExcusesLast
    <3> QED
      BY <2>1, <3>1 DEF Footprint, BesideKept, SeatKept
  <2> QED
    BY <2>1, <2>2, <2>3 DEF PlanHeld, Home
<1>2. ws \in DOMAIN seat
  BY <1>1 DEF LimitsInv
<1>3. ws \in DOMAIN seat' /\ seat'[ws] = seat[ws] /\ caps' = caps
  BY <1>1, <1>2 DEF Footprint, BesideKept, SeatKept
<1>4. Rows("plans")' = Rows("plans")
  BY <1>1, PlanRowStays DEF Rows, TableOf
<1>5. ASSUME NEW p \in Rows("plans") PROVE rows'[p].key = rows[p].key /\ rows'[p].state = rows[p].state
  BY <1>1, PlanRowStays DEF Rows
<1>6. SlugOf(ws)' = SlugOf(ws)
  <2>1. seat[ws] # None => seat[ws] \in Rows("plans")
    BY <1>2 DEF IInv, Sane, WellStored, Rows
  <2> QED
    BY <1>3, <1>5, <2>1 DEF SlugOf, SlugIn
<1>7. ASSUME NEW p \in Rows("plans"), NEW t PROVE Declared(p, t)' = Declared(p, t)
  BY <1>3, <1>5 DEF Declared, DeclaredIn
<1>8. PlanNamed(SlugOf(ws))' = PlanNamed(SlugOf(ws))
  BY <1>4, <1>5, <1>6 DEF PlanNamed
<1> QED
  BY <1>3, <1>4, <1>5, <1>6, <1>7, <1>8 DEF PlanStands

\* Where a gated request is led when it is neither at the gate nor at its row.
Still(q) == serving'[q].limit = serving[q].limit /\ serving'[q].counted = serving[q].counted
Onward(q) ==
  /\ Still(q) /\ Left(<<TableMade(q), q>>)
  /\ \/ /\ At(q, "start") /\ serving'[q].at \in {"gate", "done"} /\ serving'[q].wrote = serving[q].wrote
     \/ /\ serving[q].at \in Between /\ serving'[q].at \in Between \cup {"done"}
        /\ serving'[q].wrote = serving[q].wrote
     \/ serving[q].at \in After \ {"done"} /\ serving'[q].at \in After

LEMMA MovesStill ==
  ASSUME IInv, NEW q \in Requests, NEW next,
         \/ Goes(q, next) \/ Answers(q, next) \/ Wrote(q, next)
         \/ \E answer \in {"ok", "refused", "failed"} : Ends(q, answer)
  PROVE  /\ Still(q) /\ serving'[q].at \in {next, "done"}
         /\ Wrote(q, next) \/ serving'[q].wrote = serving[q].wrote
<1> RequestOK(q) /\ DOMAIN serving = Requests
  BY DEF IInv
<1> QED
  BY DEF Goes, Answers, Wrote, Ends, RequestOK, Fields, Still

LEMMA ChecksStill ==
  ASSUME IInv, NEW q \in Requests, NEW here, NEW next, NEW found, NEW i,
         \/ Finish(q, here) \/ Refuse(q, here) \/ Reread(q, here, i, next)
         \/ Look(q, here, found, next) \/ Show(q, here, found)
  PROVE  /\ Still(q) /\ rows' = rows /\ At(q, here)
         /\ serving'[q].at \in {next, "done"} /\ serving'[q].wrote = serving[q].wrote
<1> RequestOK(q) /\ DOMAIN serving = Requests
  BY DEF IInv
<1> QED
  BY DEF Finish, Refuse, Reread, Look, Show, Goes, Answers, Ends, RequestOK, Fields, Still, tables

LEMMA RowsOnward ==
  ASSUME NEW q \in Requests, Still(q), rows' = rows,
         \/ /\ At(q, "start") /\ serving'[q].at \in {"gate", "done"} /\ serving'[q].wrote = serving[q].wrote
         \/ /\ serving[q].at \in Between /\ serving'[q].at \in Between \cup {"done"}
            /\ serving'[q].wrote = serving[q].wrote
         \/ serving[q].at \in After \ {"done"} /\ serving'[q].at \in After
  PROVE  Onward(q)
BY DEF Onward, Left

LEMMA ChecksOnward ==
  ASSUME IInv, NEW q \in Requests, NEW here, NEW next, NEW found, NEW i,
         \/ Finish(q, here) \/ Refuse(q, here) \/ Reread(q, here, i, next)
         \/ Look(q, here, found, next) \/ Show(q, here, found),
         \/ here = "start" /\ next \in {"gate", "done"}
         \/ here \in Between /\ next \in Between \cup {"done"}
         \/ here \in After \ {"done"} /\ next \in After
  PROVE  Onward(q)
<1>1. /\ Still(q) /\ rows' = rows /\ At(q, here)
      /\ serving'[q].at \in {next, "done"} /\ serving'[q].wrote = serving[q].wrote
  BY ChecksStill
<1> QED
  BY <1>1, RowsOnward DEF At, After

\* The row the gate is for, and the rows of other tables.
InsertsOwn(q) ==
  \E row : \E next \in After : Put(q, "insert", <<TableMade(q), q>>, row, next) /\ row.ws = serving[q].ws
AtGate(q) == \E here \in {"start", "gate"}, next \in {"email", "slug", "insert", "find"} : Gate(q, here, TableMade(q), next)
\* The purchase writes the row of its number, or finds that it cannot.
Persists(q) ==
  /\ Asks(q, "purchase_number") /\ At(q, "persist") /\ Still(q) /\ serving'[q].saw = serving[q].saw
  /\ serving'[q].at \in {"answer", "done"}
GatedMove(q) == AtGate(q) \/ InsertsOwn(q) \/ Onward(q) \/ Persists(q)

LEMMA InsertOwn ==
  ASSUME NEW q \in Requests, NEW state, NEW flag, NEW next \in After, NEW t, TableMade(q) = t,
         Insert(q, "insert", t, state, flag, next)
  PROVE  InsertsOwn(q)
<1> DEFINE row == NewRow(q, state, flag)
<1>1. row.ws = serving[q].ws
  BY DEF NewRow
<1> HIDE DEF row
<1>2. Put(q, "insert", <<TableMade(q), q>>, row, next)
  BY DEF Insert, row
<1> QED
  BY <1>1, <1>2 DEF InsertsOwn

LEMMA GateOpens ==
  ASSUME NEW q \in Requests, NEW here \in {"start", "gate"}, NEW next \in {"email", "slug", "insert", "find"}, NEW t,
         TableMade(q) = t, Gate(q, here, t, next)
  PROVE  AtGate(q)
BY DEF AtGate

LEMMA PlainGated ==
  ASSUME IInv, NEW q \in Requests, NEW t, TableMade(q) = t, NEW state, NEW flag,
         GatedCreation(q, t, state, flag) \/ Refuse(q, "start")
  PROVE  GatedMove(q)
<1>1. CASE Gate(q, "start", t, "insert")
  BY <1>1, GateOpens DEF GatedMove
<1>2. CASE Insert(q, "insert", t, state, flag, "reread")
  BY <1>2, InsertOwn DEF GatedMove, After
<1>3. CASE Reread(q, "reread", <<t, q>>, "done")
  BY <1>3, ChecksOnward DEF GatedMove, After
<1>4. CASE Refuse(q, "start")
  BY <1>4, ChecksOnward DEF GatedMove
<1> QED
  BY <1>1, <1>2, <1>3, <1>4 DEF GatedCreation, Creation

LEMMA ListOnward ==
  ASSUME IInv, NEW q \in Requests, TableMade(q) # "lists", NEW campaign, NEW next \in After, NEW giveUp \in After, NEW pair,
         \/ EnsureList(q, "list", campaign, next) \/ InsertList(q, campaign, next, giveUp) \/ JoinList(q, pair)
  PROVE  GatedMove(q)
<1> RequestOK(q) /\ DOMAIN serving = Requests
  BY DEF IInv
<1>1. CASE EnsureList(q, "list", campaign, next)
  <2>1. /\ Still(q) /\ serving[q].at = "list" /\ serving'[q].at \in {next, "own list", "done"} /\ rows' = rows
    <3>1. ASSUME NEW l, serving' = [serving EXCEPT ![q].at = next, ![q].saw = {l}]
          PROVE  Still(q) /\ serving'[q].at = next
      BY <3>1 DEF RequestOK, Fields, Still
    <3> QED
      BY <1>1, <3>1, MovesStill DEF EnsureList, At, tables
  <2> QED
    BY <2>1, RowsOnward DEF GatedMove, After
<1>2. CASE InsertList(q, campaign, next, giveUp)
  <2>1. /\ Still(q) /\ serving[q].at = "own list" /\ serving'[q].at \in {next, giveUp, "done"}
    <3>1. ASSUME NEW l, serving' = [serving EXCEPT ![q].at = next, ![q].saw = {l}, ![q].wrote = TRUE]
          PROVE  Still(q) /\ serving'[q].at = next
      BY <3>1 DEF RequestOK, Fields, Still
    <3>2. Goes(q, giveUp) => Still(q) /\ serving'[q].at \in {giveUp, "done"}
      BY MovesStill
    <3> QED
      BY <1>2, <3>1, <3>2 DEF InsertList, At
  <2>2. <<TableMade(q), q>> # <<"lists", q>>
    OBVIOUS
  <2>3. Left(<<TableMade(q), q>>)
    BY <1>2, <2>2 DEF InsertList, With, Left
  <2> QED
    BY <2>1, <2>3 DEF GatedMove, Onward, After
<1>3. CASE JoinList(q, pair)
  <2>1. /\ Still(q) /\ serving[q].at = "join" /\ serving'[q].at = "done" /\ rows' = rows
    BY <1>3 DEF JoinList, Goes, RequestOK, Fields, Still, At
  <2> QED
    BY <2>1, RowsOnward DEF GatedMove, After
<1> QED
  BY <1>1, <1>2, <1>3

LEMMA PurchaseMoves ==
  ASSUME IInv, NEW q \in Requests, PurchaseNumber(q)
  PROVE  GatedMove(q)
<1> USE DEF Asks
<1> RequestOK(q) /\ DOMAIN serving = Requests
  BY DEF IInv
<1>1. TableMade(q) = "phone_numbers"
  BY DEF TableMade, Gates, PurchaseNumber
<1>2. ASSUME NEW here \in {"start", "find", "account"}, Refuse(q, here) PROVE GatedMove(q)
  BY <1>2, ChecksOnward DEF GatedMove, Between
<1>3. CASE Gate(q, "start", "phone_numbers", "find")
  BY <1>1, <1>3, GateOpens DEF GatedMove
<1>4. CASE FindNumber(q)
  <2>1. CASE serving' = [serving EXCEPT ![q].at = "key", ![q].saw = WithNumber(q),
                           ![q].read = IF WithNumber(q) = {} THEN None ELSE rows[CHOOSE i \in WithNumber(q) : TRUE]]
    <3>1. Still(q) /\ serving'[q].at = "key" /\ serving'[q].wrote = serving[q].wrote
      BY <2>1 DEF RequestOK, Fields, Still
    <3>2. At(q, "find") /\ rows' = rows
      BY <1>4, <2>1 DEF FindNumber, tables, Refuse, Ends, RequestOK, Fields
    <3> QED
      BY <3>1, <3>2, RowsOnward DEF GatedMove, Between, At
  <2> QED
    BY <1>2, <1>4, <2>1 DEF FindNumber
<1>5. ASSUME NEW here \in {"key", "account", "order"}, NEW next \in {"account", "order", "persist"}, At(q, here),
             rows' = rows, Goes(q, next) \/ Ends(q, "failed")
      PROVE  GatedMove(q)
  <2>1. Still(q) /\ serving'[q].at \in {next, "done"} /\ serving'[q].wrote = serving[q].wrote
    BY <1>5 DEF Goes, Ends, RequestOK, Fields, Still
  <2> QED
    BY <1>5, <2>1, RowsOnward DEF GatedMove, Between, At
<1>6. CASE At(q, "key") /\ Goes(q, IF OwnKey(q) THEN "persist" ELSE "account") /\ UNCHANGED tables
  BY <1>5, <1>6 DEF tables
<1>7. CASE At(q, "account") /\ Goes(q, "order") /\ UNCHANGED tables
  BY <1>5, <1>7 DEF tables
<1>8. CASE OrderNumber(q)
  BY <1>5, <1>8 DEF OrderNumber
<1>9. CASE \/ Insert(q, "persist", "phone_numbers", "new", "on", "answer")
           \/ \E i \in serving[q].saw : ChangeRow(q, "persist", i, Revived(q, i), "answer")
  <2>1. At(q, "persist") /\ (Wrote(q, "answer") \/ Goes(q, "answer") \/ Ends(q, "failed"))
    BY <1>9 DEF Insert, ChangeRow, Put
  <2>2. Still(q) /\ serving'[q].saw = serving[q].saw /\ serving'[q].at \in {"answer", "done"}
    BY <2>1 DEF Wrote, Goes, Ends, RequestOK, Fields, Still
  <2> QED
    BY <2>1, <2>2 DEF GatedMove, Persists, PurchaseNumber
<1>10. CASE Finish(q, "answer")
  BY <1>10, ChecksOnward DEF GatedMove, After
<1> QED
  BY <1>2, <1>3, <1>4, <1>6, <1>7, <1>8, <1>9, <1>10 DEF PurchaseNumber

LEMMA GatedMoves ==
  ASSUME IInv, NEW q \in Requests, Serve(q), IsGated(q)
  PROVE  GatedMove(q)
<1> USE DEF Asks
<1> RequestOK(q) /\ DOMAIN serving = Requests
  BY DEF IInv
<1>1. /\ CreateCall(q) => TableMade(q) = "calls"
      /\ CreateContact(q) => TableMade(q) = "contacts"
      /\ CreateLead(q) => TableMade(q) = "leads"
      /\ CreateDeal(q) => TableMade(q) = "deals"
      /\ CreateCampaign(q) => TableMade(q) = "campaigns"
      /\ CreateTag(q) => TableMade(q) = "tags"
      /\ CreateRule(q) => TableMade(q) = "response_rules"
      /\ CreateIntegration(q) => TableMade(q) = "integrations"
      /\ CreateFollowUp(q) => TableMade(q) = "follow_ups"
      /\ CreateTicket(q) => TableMade(q) = "tickets"
      /\ InviteTeammate(q) => TableMade(q) = "users"
  BY DEF TableMade, Gates, CreateCall, CreateContact, CreateLead, CreateDeal, CreateCampaign, CreateTag, CreateRule,
         CreateIntegration, CreateFollowUp, CreateTicket, InviteTeammate
<1>2. CASE CreateCall(q) \/ CreateDeal(q) \/ CreateRule(q) \/ CreateIntegration(q) \/ CreateFollowUp(q)
  BY <1>1, <1>2, PlainGated DEF CreateCall, CreateDeal, CreateRule, CreateIntegration, CreateFollowUp
<1>3. CASE CreateContact(q)
  <2>1. CASE Refuse(q, "start") \/ CheckEmail(q)
    BY <2>1, ChecksOnward DEF GatedMove, CheckEmail, Between
  <2>2. CASE Gate(q, "start", "contacts", "email")
    BY <1>1, <1>3, <2>2, GateOpens DEF GatedMove
  <2>3. CASE Creation(q, "insert", "contacts", "new", "on")
    BY <1>1, <1>3, <2>3, PlainGated DEF GatedCreation
  <2> QED
    BY <1>3, <2>1, <2>2, <2>3 DEF CreateContact
<1>4. CASE CreateTag(q)
  <2>1. CASE Refuse(q, "start") \/ Finish(q, "answer")
    BY <2>1, ChecksOnward DEF GatedMove, After
  <2>2. CASE Gate(q, "start", "tags", "insert")
    BY <1>1, <1>4, <2>2, GateOpens DEF GatedMove
  <2>3. CASE Insert(q, "insert", "tags", "new", "on", "answer")
    BY <1>1, <1>4, <2>3, InsertOwn DEF GatedMove, After
  <2> QED
    BY <1>4, <2>1, <2>2, <2>3 DEF CreateTag
<1>5. CASE CreateLead(q)
  <2>1. CASE Refuse(q, "start") \/ Reread(q, "reread", <<"leads", q>>, "route")
    BY <2>1, ChecksOnward DEF GatedMove, After
  <2>2. CASE Gate(q, "start", "leads", "insert")
    BY <1>1, <1>5, <2>2, GateOpens DEF GatedMove
  <2>3. CASE Insert(q, "insert", "leads", "new", "on", "reread")
    BY <1>1, <1>5, <2>3, InsertOwn DEF GatedMove, After
  <2>4. CASE RouteLead(q)
    <3>1. /\ Still(q) /\ serving[q].at = "route" /\ serving'[q].at \in {"list", "done"} /\ rows' = rows
      <4>1. ASSUME NEW c, serving' = [serving EXCEPT ![q].at = "list", ![q].read = c, ![q].answer = "ok"]
            PROVE  Still(q) /\ serving'[q].at = "list"
        BY <4>1 DEF RequestOK, Fields, Still
      <4> QED
        BY <2>4, <4>1, MovesStill DEF RouteLead, At, tables
    <3> QED
      BY <3>1, RowsOnward DEF GatedMove, After
  <2>5. CASE EnsureList(q, "list", serving[q].read, "join") \/ InsertList(q, serving[q].read, "join", "done")
             \/ \E l \in serving[q].saw : JoinList(q, <<l, <<"leads", q>>>>)
    BY <1>1, <1>5, <2>5, ListOnward DEF After
  <2> QED
    BY <1>5, <2>1, <2>2, <2>3, <2>4, <2>5 DEF CreateLead
<1>6. CASE CreateCampaign(q)
  <2>1. CASE Refuse(q, "start") \/ Finish(q, "answer")
    BY <2>1, ChecksOnward DEF GatedMove, After
  <2>2. CASE Gate(q, "start", "campaigns", "insert")
    BY <1>1, <1>6, <2>2, GateOpens DEF GatedMove
  <2>3. CASE Insert(q, "insert", "campaigns", "draft", "on", "reread")
    BY <1>1, <1>6, <2>3, InsertOwn DEF GatedMove, After
  <2>4. CASE At(q, "reread") /\ (Goes(q, "list") \/ Ends(q, "failed")) /\ rows' = rows
    <3>1. Still(q) /\ serving'[q].at \in {"list", "done"}
      BY <2>4, MovesStill
    <3> QED
      BY <2>4, <3>1, RowsOnward DEF GatedMove, After, At
  <2>5. CASE EnsureList(q, "list", <<"campaigns", q>>, "answer") \/ InsertList(q, <<"campaigns", q>>, "answer", "answer")
    BY <1>1, <1>6, <2>5, ListOnward DEF After
  <2> QED
    BY <1>6, <2>1, <2>2, <2>3, <2>4, <2>5 DEF CreateCampaign, tables
<1>7. CASE CreateTicket(q)
  <2>1. CASE Refuse(q, "start") \/ Reread(q, "reread", <<"tickets", q>>, "done")
    BY <2>1, ChecksOnward DEF GatedMove, After
  <2>2. CASE Gate(q, "start", "tickets", "slug")
    BY <1>1, <1>7, <2>2, GateOpens DEF GatedMove
  <2>3. CASE Put(q, "insert", <<"tickets", q>>, FiledTicket(q), "message")
    <3>1. FiledTicket(q).ws = serving[q].ws
      BY DEF FiledTicket, NewRow
    <3> QED
      BY <1>1, <1>7, <2>3, <3>1 DEF GatedMove, InsertsOwn, After
  <2>4. CASE CheckRequest(q)
    <3>2. ASSUME NEW here \in {"slug", "existing"}, NEW next \in {"existing", "insert"}, NEW found,
                 Refuse(q, here) \/ Look(q, here, found, next) \/ Show(q, here, found)
          PROVE  GatedMove(q)
      BY <3>2, ChecksOnward DEF GatedMove, Between
    <3> QED
      BY <2>4, <3>2 DEF CheckRequest
  <2>5. CASE AddTo(q, "message", <<"tickets", q>>, "agent", "reread")
    <3>1. Put(q, "message", <<"ticket_messages", q>>, NewMessage(q, <<"tickets", q>>, "agent"), "reread")
      BY <2>5 DEF AddTo
    <3>2. <<TableMade(q), q>> # <<"ticket_messages", q>>
      BY <1>1, <1>7
    <3>3. Left(<<TableMade(q), q>>)
      BY <3>1, <3>2, PutElsewhere
    <3>4. Still(q) /\ serving'[q].at \in {"reread", "done"} /\ At(q, "message")
      BY <3>1, MovesStill DEF Put
    <3> QED
      BY <3>3, <3>4 DEF GatedMove, Onward, After, At
  <2> QED
    BY <1>7, <2>1, <2>2, <2>3, <2>4, <2>5 DEF CreateTicket
<1>8. CASE InviteTeammate(q)
  <2>1. CASE Refuse(q, "start") \/ Look(q, "start", Own(q, "users"), "gate") \/ Finish(q, "mail") \/ Refuse(q, "insert")
    BY <2>1, ChecksOnward DEF GatedMove, After, Between
  <2>2. CASE Gate(q, "gate", "users", "insert")
    BY <1>1, <1>8, <2>2, GateOpens DEF GatedMove
  <2>3. CASE Insert(q, "insert", "users", "member", "on", "mail")
    BY <1>1, <1>8, <2>3, InsertOwn DEF GatedMove, After
  <2> QED
    BY <1>8, <2>1, <2>2, <2>3 DEF InviteTeammate, InsertMember
<1> QED
  BY <1>2, <1>3, <1>4, <1>5, <1>6, <1>7, <1>8, PurchaseMoves, ServedBy, SinglesServedBy, LimitsServedBy DEF IsGated, Gates

\* What a step does to a limited row: it stays its workspace's (and a number that
\* is held after it was held before it), it goes, or the request that makes it or
\* takes it up writes it.
Placed(i) ==
  /\ i \in DOMAIN rows /\ i \in DOMAIN rows' /\ rows'[i].ws = rows[i].ws
  /\ TableOf(i) = "phone_numbers" /\ rows'[i].flag = "on" => rows[i].flag = "on"
Inserting(q) ==
  /\ At(q, IF Asks(q, "purchase_number") THEN "persist" ELSE "insert") /\ serving'[q].at \in After
  /\ Still(q) /\ serving'[q].wrote /\ serving'[q].saw = serving[q].saw
Entering(q, i) ==
  /\ i \in DOMAIN rows' /\ i \in Made(q, TableOf(i)) /\ serving'[q].wrote
  /\ Asks(q, "purchase_number") => serving'[q].saw = serving[q].saw
  /\ \/ rows'[i].ws \notin Workspaces
     \/ serving[q].kind \in Ungated
     \/ IsGated(q) /\ TableMade(q) = TableOf(i) /\ rows'[i].ws = serving[q].ws /\ Inserting(q)
LimitedEffect(q, i) == Placed(i) \/ Dropped(i) \/ Entering(q, i)

\* Only a purchase makes anything but the row of its own id.
LEMMA MadeOwn ==
  ASSUME NEW q \in Requests, ~Asks(q, "purchase_number"), serving'[q].kind = serving[q].kind, NEW t
  PROVE  Made(q, t) = {<<t, q>>} /\ Made(q, t)' = {<<t, q>>}
BY DEF Made, Asks

LEMMA OwnEnters ==
  ASSUME IInv, NEW q \in Requests, Serve(q), IsGated(q), ~Asks(q, "purchase_number"),
         NEW i, i = <<TableMade(q), q>>, i \in DOMAIN rows'
  PROVE  Placed(i) \/ Entering(q, i)
<1> RequestOK(q) /\ DOMAIN serving = Requests
  BY DEF IInv
<1>1. GatedMove(q)
  BY GatedMoves
<1>2. CASE AtGate(q)
  BY <1>2 DEF AtGate, Gate, ReadPlan, ReadLimit, CountUsage, Placed, tables
<1>3. CASE InsertsOwn(q)
  <2>0. PICK row : \E next \in After : Put(q, "insert", <<TableMade(q), q>>, row, next) /\ row.ws = serving[q].ws
    BY <1>3 DEF InsertsOwn
  <2>1. PICK next \in After : Put(q, "insert", <<TableMade(q), q>>, row, next) /\ row.ws = serving[q].ws
    BY <2>0
  <2>2. CASE rows' = rows
    BY <2>2 DEF Placed
  <2>3. CASE rows' = With(rows, i, row) /\ Wrote(q, next)
    <3>1. rows'[i] = row
      BY <2>3 DEF With
    <3>2. Still(q) /\ serving'[q].wrote /\ serving'[q].at = next /\ serving'[q].saw = serving[q].saw
      BY <2>3 DEF Wrote, RequestOK, Fields, Still
    <3>3. i \in Made(q, TableOf(i)) /\ TableMade(q) = TableOf(i)
      BY DEF Made, TableOf
    <3>4. rows'[i].ws = serving[q].ws /\ Inserting(q)
      BY <2>1, <3>1, <3>2 DEF Inserting, Put, At
    <3> QED
      BY <3>2, <3>3, <3>4 DEF Entering
  <2> QED
    BY <2>1, <2>2, <2>3 DEF Put
<1>4. CASE Onward(q)
  BY <1>4 DEF Onward, Left, Placed
<1> QED
  BY <1>1, <1>2, <1>3, <1>4 DEF GatedMove, Persists

LEMMA LimitedStep ==
  ASSUME IInv, NumbersInv, NEW q \in Requests, Serve(q), NEW i, TableOf(i) \in Gated, TableOf(i) # "phone_numbers",
         i \in DOMAIN rows \/ i \in DOMAIN rows'
  PROVE  LimitedEffect(q, i)
<1> USE DEF Asks
<1>1. IInv' /\ Footprint(q) /\ Found(q) /\ Steady(q) /\ Advance(q)
  BY ServeKeeps, StepKeeps, ServeFoot DEF NumbersInv, Sound
<1>2. i \in RowIds({TableOf(i)})
  BY <1>1 DEF IInv, Sane, WellStored, RowStored
<1>3. CASE i \notin DOMAIN rows'
  BY <1>3 DEF LimitedEffect, Dropped
<1>4. CASE Left(i)
  BY <1>4 DEF Left, LimitedEffect, Placed
<1>5. CASE Unlinked(q, i)
  <2>1. DOMAIN rows[i] = Columns \cup {"ws"}
    BY <1>5 DEF Unlinked, IInv, Sane, WellStored, RowStored
  <2> QED
    BY <1>5, <2>1 DEF LimitedEffect, Placed, Unlinked, Columns
<1>6. CASE i \in DOMAIN rows' /\ Names(q, i) /\ serving'[q].wrote
  <2>1. CASE i \in DOMAIN rows /\ TableOf(i) # "users"
    BY <1>1, <1>6, <2>1 DEF Steady, MayWrite, Shared, Gated, LimitedEffect, Placed
  <2>2. CASE i = Target(q) /\ i \in DOMAIN rows /\ TableOf(i) = "users"
    <3>2. serving[q].kind = "remove_member"
      BY <1>2, <2>2 DEF IInv, RequestOK, JobFits, Target
    <3>3. RemoveMember(q)
      BY <3>2, LimitsServedBy
    <3>4. rows' = rows \/ rows' = Without(Fallen(Target(q)))
      BY <3>3 DEF RemoveMember, Refuse, Fetch, Lookup, Missing, Remove, Finish, tables
    <3>5. CASE rows' = rows
      BY <2>2, <3>5 DEF LimitedEffect, Placed
    <3>6. CASE rows' = Without(Fallen(Target(q)))
      BY <1>6, <2>2, <3>6 DEF Without, Fallen
    <3> QED
      BY <3>4, <3>5, <3>6
  <2>3. CASE MakerOf(i) = q /\ MakesIn(serving[q].kind, TableOf(i)) /\ (i \notin DOMAIN rows \/ TableOf(i) = "users")
    <3>1. i = <<TableOf(i), q>>
      BY <1>2, <2>3 DEF RowIds, TableOf, MakerOf
    <3>0. i \in Made(q, TableOf(i)) /\ ~Asks(q, "purchase_number")
      BY <2>3, <3>1 DEF MakesIn, Made, Doors
    <3>2. CASE serving[q].kind \in Ungated
      BY <1>6, <2>3, <3>2, <3>0 DEF LimitedEffect, Entering
    <3>3. CASE serving[q].kind = "create_public_ticket"
      <4>1. TableOf(i) = "tickets"
        BY <2>3, <3>3 DEF MakesIn, Gated
      <4>2. rows'[i].ws = serving'[q].ws
        <5>1. Tied(i) /\ MakerOf(i) \notin Workspaces
          BY <2>3, <4>1, MakersAssumption DEF Tied, Shared, Personal
        <5>2. OwnersIn(rows)'
          BY <1>1 DEF IInv, Sane
        <5>3. Tied(i)' /\ Issuer(i)' = serving'[q].ws
          BY <2>3, <5>1 DEF Tied, Issuer
        <5> QED
          BY <1>6, <5>2, <5>3 DEF OwnersIn, OwnerKept
      <4>3. serving'[q].ws = None
        <5>1. RequestOK(q)
          BY DEF IInv
        <5> QED
          BY <1>1, <3>3, <5>1 DEF RequestOK, JobFits, OfVisitors, Advance
      <4> QED
        BY <1>6, <2>3, <4>2, <4>3, MakersAssumption, <3>0 DEF LimitedEffect, Entering
    <3>4. CASE serving[q].kind \in {"provision_account", "portfolio_sync"}
      <4>1. rows'[i].ws = q \/ (rows'[i] = rows[i] /\ i \in DOMAIN rows)
        <5>1. TableOf(i) = "users"
          BY <2>3, <3>4 DEF MakesIn, Gated, Doors
        <5>2. ProvisionFreeAccount(q) \/ PortfolioSync(q)
          BY <3>4, LimitsServedBy
        <5> DEFINE own == <<"users", q>>
        <5>3. i = own
          BY <3>1, <5>1
        <5>4. ASSUME NEW j, NEW row, NEW rs, j # own, rs = With(rows, j, row), i \in DOMAIN rs
              PROVE  i \in DOMAIN rows /\ rs[i] = rows[i]
          BY <5>3, <5>4 DEF With
        <5>5. Owner(q).ws = q
          BY DEF Owner, Workspace
        <5>6. ASSUME rows' = rows PROVE rows'[i] = rows[i] /\ i \in DOMAIN rows
          BY <1>6, <5>6
        <5>7. CASE ProvisionFreeAccount(q)
          <6>1. CASE CreateAccount(q, "taken", serving[q].read.key, "answer", "answer")
            <7>1. \/ rows' = rows
                  \/ rows' = With(With(rows, <<"tenants", q>>, Workspace(q, q)), own, Owner(q))
              BY <6>1 DEF CreateAccount, tables
            <7>2. rows' = rows \/ rows'[i] = Owner(q)
              BY <5>3, <7>1 DEF With
            <7> QED
              BY <5>5, <5>6, <7>2
          <6> QED
            BY <5>6, <5>7, <6>1 DEF ProvisionFreeAccount, Refuse, Lookup, Finish, tables
        <5>8. CASE PortfolioSync(q)
          <6>1. Target(q) # own
            <7>1. Target(q) \in RowIds({"portfolio_companies"})
              BY <5>8, CompanyTarget DEF OnCompanies, PortfolioSync
            <7> QED
              BY <7>1 DEF RowIds
          <6>2. ASSUME NEW here, NEW next, Put(q, here, own, Owner(q), next)
                PROVE  rows'[i].ws = q \/ (rows'[i] = rows[i] /\ i \in DOMAIN rows)
            <7>1. rows' = rows \/ rows' = With(rows, own, Owner(q))
              BY <6>2 DEF Put
            <7>2. rows' = rows \/ rows'[i] = Owner(q)
              BY <5>3, <7>1 DEF With
            <7> QED
              BY <5>5, <5>6, <7>2
          <6>3. ASSUME NEW here, NEW j, NEW row, NEW next, Put(q, here, j, row, next), j # own
                PROVE  rows'[i] = rows[i] /\ i \in DOMAIN rows
            BY <1>6, <5>4, <5>6, <6>3 DEF Put
          <6>4. CASE Put(q, "tenant", <<"tenants", q>>, Workspace(q, q), "again")
            BY <6>3, <6>4
          <6>5. CASE Put(q, "company", Target(q), UpsertCompany(q, q), "top")
            BY <6>1, <6>3, <6>5
          <6>6. CASE ChangeRow(q, "refresh", Target(q), Described(q, Target(q)), "answer")
            BY <5>6, <6>1, <6>3, <6>6 DEF ChangeRow, tables
          <6>7. CASE Put(q, "user", own, Owner(q), "company")
            BY <6>2, <6>7
          <6>8. CASE SeatTop(q, "top", q, "answer")
            <7>1. rows' = rows
              BY <6>8 DEF SeatTop, Look, SeatPlan, tables
            <7> QED
              BY <5>6, <7>1
          <6> QED
            BY <5>6, <5>8, <6>4, <6>5, <6>6, <6>7, <6>8 DEF PortfolioSync, Refuse, Finish, tables
        <5> QED
          BY <5>2, <5>7, <5>8
      <4> QED
        BY <1>6, <2>3, <4>1, MakersAssumption, <3>0 DEF LimitedEffect, Entering, Placed
    <3>5. CASE IsGated(q) /\ TableMade(q) = TableOf(i)
      BY <1>6, <3>0, <3>1, <3>5, OwnEnters DEF LimitedEffect
    <3>6. \/ serving[q].kind \in Ungated \cup {"create_public_ticket", "provision_account", "portfolio_sync"}
          \/ IsGated(q) /\ TableMade(q) = TableOf(i)
      BY <2>3 DEF MakesIn, Gated, Ungated, Doors, IsGated, TableMade, Gates
    <3> QED
      BY <3>2, <3>3, <3>4, <3>5, <3>6
  <2>4. \/ i = Target(q) /\ i \in DOMAIN rows
        \/ MakerOf(i) = q /\ MakesIn(serving[q].kind, TableOf(i))
    BY <1>1, <1>6 DEF Found, Names, Reaches, Gated, IInv, Holds, SeesNumbers, Upserted, Personal
  <2> QED
    BY <2>1, <2>2, <2>3, <2>4
<1> QED
  BY <1>1, <1>3, <1>4, <1>5, <1>6 DEF Footprint, Touches, Falls

\* A number stays its workspace's, is let go, or is bought.
LEMMA NumbersLimited ==
  ASSUME IInv, NumbersInv, NEW q \in Requests, Serve(q), NEW i, TableOf(i) = "phone_numbers",
         i \in DOMAIN rows \/ i \in DOMAIN rows'
  PROVE  LimitedEffect(q, i)
<1> RequestOK(q) /\ DOMAIN serving = Requests
  BY DEF IInv
<1>1. NumberEffect(q, i)
  BY NumberStep DEF NumbersInv
<1>2. CASE Same(i) \/ LetGo(q, i)
  BY <1>2 DEF Same, LetGo, LimitedEffect, Placed
<1>3. CASE Gone(q, i)
  BY <1>3 DEF Gone, LimitedEffect, Dropped
<1>4. CASE TakenUp(q, i) \/ Entered(q, i)
  <2>1. /\ Asks(q, "purchase_number") /\ At(q, "persist") /\ Wrote(q, "answer")
        /\ i \in DOMAIN rows' /\ rows'[i].ws = serving[q].ws
        /\ i \in serving[q].saw \/ (serving[q].saw = {} /\ i = <<"phone_numbers", q>>)
    BY <1>4 DEF TakenUp, Entered
  <2>2. i \in Made(q, TableOf(i))
    BY <2>1 DEF Made
  <2>3. Still(q) /\ serving'[q].wrote /\ serving'[q].at = "answer" /\ serving'[q].saw = serving[q].saw
    BY <2>1 DEF Wrote, RequestOK, Fields, Still
  <2>4. IsGated(q) /\ TableMade(q) = TableOf(i)
    BY <2>1 DEF Asks, IsGated, TableMade, Gates
  <2>5. Inserting(q)
    BY <2>1, <2>3 DEF Inserting, At, After
  <2> QED
    BY <2>1, <2>2, <2>3, <2>4, <2>5 DEF LimitedEffect, Entering
<1> QED
  BY <1>1, <1>2, <1>3, <1>4 DEF NumberEffect

LEMMA LimitedEffects ==
  ASSUME IInv, NumbersInv, NEW q \in Requests, Serve(q), NEW i, TableOf(i) \in Gated, i \in DOMAIN rows \/ i \in DOMAIN rows'
  PROVE  LimitedEffect(q, i)
BY LimitedStep, NumbersLimited

LEMMA JobsStay ==
  ASSUME IInv, NumbersInv, NEW q \in Requests, Serve(q), NEW p \in Requests
  PROVE  /\ serving'[p].kind = serving[p].kind /\ serving'[p].ws = serving[p].ws
         /\ IsGated(p)' = IsGated(p) /\ TableMade(p)' = TableMade(p)
         /\ serving[p].wrote => serving'[p].wrote
         /\ p # q => serving'[p] = serving[p]
<1>1. Advance(q)
  BY ServeKeeps DEF Sound
<1>2. serving'[p].kind = serving[p].kind /\ serving'[p].ws = serving[p].ws
  BY <1>1 DEF Advance
<1>3. serving[p].wrote => serving'[p].wrote
  BY ExcusesLast
<1> QED
  BY <1>1, <1>2, <1>3 DEF IsGated, TableMade, Advance

\* What a purchase has taken up when it writes.
LEMMA PurchaseWrites ==
  ASSUME IInv, NumbersInv, NEW q \in Requests, PurchaseNumber(q), ~serving[q].wrote, serving'[q].wrote
  PROVE  /\ At(q, "persist") /\ serving'[q].saw = serving[q].saw
         /\ \A i \in serving[q].saw : /\ serving[q].saw = {i}
                                      /\ i \in DOMAIN rows' /\ rows'[i].ws = serving[q].ws
<1> RequestOK(q) /\ DOMAIN serving = Requests /\ Asks(q, "purchase_number")
  BY DEF IInv, PurchaseNumber
<1>1. ASSUME NEW next, Goes(q, next) PROVE FALSE
  BY <1>1 DEF Goes, RequestOK, Fields
<1>2. ASSUME NEW answer, Ends(q, answer) PROVE FALSE
  BY <1>2 DEF Ends, RequestOK, Fields
<1>3. ~Gate(q, "start", "phone_numbers", "find")
  BY GateOutcome
<1>4. ~FindNumber(q)
  BY <1>2 DEF FindNumber, Refuse, RequestOK, Fields
<1>5. \/ serving[q].saw = {} /\ Insert(q, "persist", "phone_numbers", "new", "on", "answer")
      \/ \E i \in serving[q].saw : ChangeRow(q, "persist", i, Revived(q, i), "answer")
  BY <1>1, <1>2, <1>3, <1>4 DEF PurchaseNumber, Refuse, OrderNumber, Finish
<1>6. At(q, "persist") /\ Wrote(q, "answer")
  BY <1>1, <1>2, <1>5 DEF Insert, ChangeRow, Put
<1>7. serving'[q].saw = serving[q].saw
  BY <1>6 DEF Wrote, RequestOK, Fields
<1>8. ASSUME NEW i \in serving[q].saw
      PROVE  serving[q].saw = {i} /\ i \in DOMAIN rows' /\ rows'[i].ws = serving[q].ws
  <2>1. serving[q].saw = {i}
    BY <1>6, <1>8, BuyerSells DEF Revivable
  <2>2. i \in DOMAIN rows /\ rows' = With(rows, i, Revived(q, i))
    BY <1>1, <1>2, <1>5, <2>1 DEF ChangeRow, Put
  <2>3. DOMAIN rows[i] = Columns \cup {"ws"}
    BY <2>2 DEF IInv, Sane, WellStored, RowStored
  <2> QED
    BY <2>1, <2>2, <2>3 DEF With, Revived, Columns
<1> QED
  BY <1>6, <1>7, <1>8

\* Who raised a row has raised it for good.
LEMMA RaisesLast ==
  ASSUME IInv, NumbersInv, NEW q \in Requests, Serve(q), NEW p \in Requests, NEW i
  PROVE  /\ Raises(p, i) => Raises(p, i)'
         /\ Raises(p, i)' /\ ~Raises(p, i) => p = q /\ ~serving[q].wrote
<1>1. /\ serving[p].wrote => serving'[p].wrote
      /\ p # q => serving'[p] = serving[p]
      /\ serving'[p].kind = serving[p].kind
  BY JobsStay
<1>2. CASE p # q
  BY <1>1, <1>2 DEF Raises, Made, Asks, TableOf
<1>3. CASE p = q /\ serving[q].wrote
  <2>1. Made(q, TableOf(i))' = Made(q, TableOf(i))
    <3>1. CASE Asks(q, "purchase_number")
      <4>1. PurchaseNumber(q) /\ serving[q].at \in {"answer", "done"}
        BY <1>3, <3>1, ServedBy DEF NumbersInv, Buying
      <4>2. serving'[q].saw = serving[q].saw
        BY <4>1, ReviveMoves
      <4> QED
        BY <1>1, <1>3, <4>2 DEF Made, Asks, TableOf
    <3>2. CASE ~Asks(q, "purchase_number")
      BY <1>1, <1>3, <3>2 DEF Made, Asks, TableOf
    <3> QED
      BY <3>1, <3>2
  <2> QED
    BY <1>1, <1>3, <2>1 DEF Raises
<1>4. CASE p = q /\ ~serving[q].wrote
  BY <1>4 DEF Raises
<1> QED
  BY <1>2, <1>3, <1>4

LEMMA NewlyRaised ==
  ASSUME IInv, NumbersInv, NEW q \in Requests, Serve(q), NEW i, Born(i), Raises(q, i)', ~Raises(q, i)
  PROVE  /\ Asks(q, "purchase_number") /\ i \in serving[q].saw
         /\ rows'[i].ws = serving[q].ws
<1>1. serving'[q].wrote /\ ~serving[q].wrote /\ serving'[q].kind = serving[q].kind
  BY JobsStay, RaisesLast DEF Raises
<1>2. i # <<TableOf(i), q>>
  <2> SUFFICES ASSUME i = <<TableOf(i), q>> PROVE FALSE
    OBVIOUS
  <2>1. MakerOf(i) = q
    BY DEF MakerOf
  <2> QED
    BY <1>1, <2>1, MakersAssumption DEF Born
<1>3. Asks(q, "purchase_number")
  BY <1>1, <1>2 DEF Raises, Made, Asks, TableOf
<1>4. PurchaseNumber(q)
  BY <1>3, ServedBy
<1>5. serving'[q].saw = serving[q].saw
  BY <1>1, <1>4, PurchaseWrites
<1>6. i \in serving[q].saw
  BY <1>1, <1>2, <1>5 DEF Raises, Made, Asks, TableOf
<1> QED
  BY <1>1, <1>3, <1>4, <1>6, PurchaseWrites

LEMMA EnteringRaises ==
  ASSUME IInv, NumbersInv, NEW q \in Requests, Serve(q), NEW i, Entering(q, i)
  PROVE  Raises(q, i)'
<1>1. serving'[q].kind = serving[q].kind
  BY JobsStay
<1>2. Made(q, TableOf(i))' = Made(q, TableOf(i))
  BY <1>1 DEF Entering, Made, Asks, TableOf
<1> QED
  BY <1>2 DEF Entering, Raises

\* A request enters one row of a workspace.
LEMMA EntersOne ==
  ASSUME IInv, NumbersInv, NEW q \in Requests, NEW i, Entering(q, i), rows'[i].ws \in Workspaces
  PROVE  Made(q, TableOf(i)) = {i}
<1>1. CASE Asks(q, "purchase_number")
  <2>1. At(q, "persist")
    BY <1>1 DEF Entering, Inserting, Ungated, Doors, Asks
  <2>2. \A r \in serving[q].saw : serving[q].saw = {r}
    BY <1>1, <2>1, BuyerSells DEF Revivable
  <2> QED
    BY <2>2 DEF Entering, Made
<1>2. CASE ~Asks(q, "purchase_number")
  BY <1>2 DEF Entering, Made
<1> QED
  BY <1>1, <1>2

LEMMA PastGateKeeps ==
  ASSUME IInv, NumbersInv, LimitsInv, NEW q \in Requests, Serve(q), NEW i, i \in DOMAIN rows', TableOf(i) \in Gated
  PROVE  PastGate(i)'
<1>1. LimitedEffect(q, i)
  BY LimitedEffects
<1>2. TableOf(i)' = TableOf(i)
  BY DEF TableOf
<1>3. \A m \in Requests : /\ serving'[m].kind = serving[m].kind /\ serving'[m].ws = serving[m].ws
                          /\ IsGated(m)' = IsGated(m) /\ TableMade(m)' = TableMade(m)
  BY JobsStay
<1>4. CASE Placed(i)
  <2>1. PastGate(i)
    BY <1>4 DEF LimitsInv, Placed
  <2>2. ASSUME NEW m \in Requests, MadeBy(m, i) PROVE MadeBy(m, i)'
    <3>1. Raises(m, i)'
      BY <2>2, RaisesLast DEF MadeBy
    <3> QED
      BY <1>2, <1>3, <1>4, <2>2, <3>1 DEF MadeBy, Placed, IsGated, TableMade
  <2>3. ASSUME NEW p \in Requests, Raises(p, i)', ~Raised(i) PROVE MadeBy(p, i)'
    <3>1. p = q /\ ~Raises(q, i)
      BY <2>3, RaisesLast DEF Raised
    <3>2. Asks(q, "purchase_number") /\ i \in serving[q].saw /\ rows'[i].ws = serving[q].ws
      BY <2>1, <2>3, <3>1, NewlyRaised DEF PastGate
    <3>3. TableOf(i) = "phone_numbers"
      BY <3>2 DEF IInv, Holds, SeesNumbers
    <3>4. IsGated(q) /\ TableMade(q) = "phone_numbers"
      BY <3>2 DEF IsGated, TableMade, Gates, Asks
    <3> QED
      BY <1>2, <1>3, <2>3, <3>1, <3>2, <3>3, <3>4 DEF MadeBy
  <2> QED
    BY <2>1, <2>2, <2>3, BornLasts DEF PastGate, Raised
<1>5. CASE Entering(q, i)
  <2>1. MadeBy(q, i)'
    BY <1>2, <1>3, <1>5, EnteringRaises DEF MadeBy, Entering
  <2>2. Born(i)'
    <3>1. CASE Asks(q, "purchase_number") /\ i \in serving[q].saw
      BY <3>1, BornLasts DEF LimitsInv, OneTaken
    <3>2. CASE i = <<TableOf(i), q>>
      <4>1. MakerOf(i)' = q
        BY <3>2 DEF MakerOf
      <4> QED
        BY <1>5, <4>1 DEF Born, Entering
    <3> QED
      BY <1>5, <3>1, <3>2 DEF Entering, Made
  <2> QED
    BY <2>1, <2>2 DEF PastGate
<1> QED
  BY <1>1, <1>4, <1>5 DEF LimitedEffect, Dropped

LEMMA PlansStayApart ==
  ASSUME IInv, NumbersInv, LimitsInv, NEW q \in Requests, Serve(q), ~Replanned'
  PROVE  PlansApart'
<1>1. ~Replanned /\ ~Replans(q)
  <2>1. ASSUME NEW p \in Requests, serving[p].kind \in ChangesPlans, serving[p].wrote \/ (p = q /\ serving'[p].wrote)
        PROVE  FALSE
    BY <2>1, JobsStay DEF Replanned
  <2> QED
    BY <2>1 DEF Replanned, Replans
<1>2. Footprint(q)
  BY ServeFoot DEF NumbersInv
<1>3. caps' = caps
  BY <1>1, <1>2 DEF Footprint, BesideKept
<1>4. PlansApart
  BY <1>1 DEF LimitsInv
<1>5. ASSUME NEW p \in Rows("plans")' PROVE p \in Rows("plans") /\ rows'[p].key = rows[p].key /\ rows'[p].state = rows[p].state
  BY <1>1, PlanRowStays DEF Rows, TableOf
<1>6. ASSUME NEW p \in Rows("plans")', NEW t PROVE Declared(p, t)' = Declared(p, t)
  BY <1>3, <1>5 DEF Declared, DeclaredIn
<1> QED
  BY <1>4, <1>5, <1>6 DEF PlansApart

\* What is used after a step was used before it, but for the row that enters.
LEMMA UsedAfter ==
  ASSUME IInv, NumbersInv, NEW q \in Requests, Serve(q), NEW ws \in Workspaces, NEW t \in Gated, NEW i, i \in Used(ws, t)'
  PROVE  /\ i \in DOMAIN rows' /\ TableOf(i) = t /\ rows'[i].ws = ws
         /\ i \in Used(ws, t) \/ (Entering(q, i) /\ Made(q, t) = {i})
<1>1. i \in DOMAIN rows' /\ TableOf(i) = t /\ rows'[i].ws = ws /\ (t = "phone_numbers" => rows'[i].flag = "on")
  BY DEF Used, UsedIn, TableOf
<1>2. LimitedEffect(q, i)
  BY <1>1, LimitedEffects
<1>3. CASE Placed(i)
  BY <1>1, <1>3 DEF Placed, Used, UsedIn
<1>4. CASE Entering(q, i)
  BY <1>1, <1>4, EntersOne
<1> QED
  BY <1>1, <1>2, <1>3, <1>4 DEF LimitedEffect, Dropped

LEMMA UsedStaysFinite ==
  ASSUME IInv, NumbersInv, LimitsInv, NEW q \in Requests, Serve(q), NEW ws \in Workspaces, NEW t \in Gated
  PROVE  IsFiniteSet(Used(ws, t)')
<1>1. IsFiniteSet(Used(ws, t))
  BY DEF LimitsInv
<1>2. CASE Used(ws, t)' \subseteq Used(ws, t)
  BY <1>1, <1>2, FS_Subset
<1>3. CASE ~(Used(ws, t)' \subseteq Used(ws, t))
  <2>1. PICK x \in Used(ws, t)' : x \notin Used(ws, t)
    BY <1>3
  <2>2. Made(q, t) = {x}
    BY <2>1, UsedAfter
  <2>3. Used(ws, t)' \subseteq Used(ws, t) \cup {x}
    BY <2>2, UsedAfter
  <2>4. IsFiniteSet(Used(ws, t) \cup {x})
    BY <1>1, FS_AddElement
  <2> QED
    BY <2>3, <2>4, FS_Subset
<1> QED
  BY <1>2, <1>3

-----------------------------------------------------------------------------
(* What a gated request knows.                                              *)

LEMMA GatedWorkspace ==
  ASSUME IInv, NEW q \in Requests, IsGated(q)
  PROVE  serving[q].ws \in Workspaces /\ TableMade(q) \in Gated
<1>1. RequestOK(q)
  BY DEF IInv
<1>2. serving[q].ws \in Workspaces
  BY <1>1 DEF RequestOK, JobFits, IsGated, Gates, OfVisitors
<1> QED
  BY <1>2 DEF IsGated, TableMade, Gates, Gated

LEMMA GatingCarries ==
  ASSUME IInv, NumbersInv, LimitsInv, NEW q \in Requests, Serve(q), NEW p \in Requests, IsGated(p),
         serving'[p].limit = serving[p].limit, serving'[p].counted = serving[p].counted,
         At(p, "limit")' => At(p, "limit") /\ serving'[p].read = serving[p].read,
         At(p, "count")' => At(p, "count"),
         Cleared(p)' => Cleared(p),
         serving'[p].at \in Before => serving[p].at \in Before,
         serving'[p].wrote => serving'[p].at \notin Before \cup Between
  PROVE  Gating(p)'
<1>a. PICK ws : ws = serving[p].ws
  OBVIOUS
<1>b. PICK t : t = TableMade(p)
  OBVIOUS
<1>1. Gating(p) /\ ws \in Workspaces /\ t \in Gated
  BY <1>a, <1>b, GatedWorkspace DEF LimitsInv
<1>2. serving'[p].ws = ws /\ TableMade(p)' = t
  BY <1>a, <1>b, JobsStay
<1>3. ASSUME NEW i \in serving'[p].counted PROVE Born(i)'
  BY <1>1, <1>3, BornLasts DEF Gating
<1>4. ASSUME PlanHeld(ws)' PROVE UnderLimit(p)'
  <2>1. PlanStands(ws) /\ UnderLimit(p)
    BY <1>a, <1>1, <1>4, PlanStays, HeldBefore DEF Gating
  <2>2. At(p, "limit")' => serving'[p].read = SlugOf(ws)'
    BY <1>a, <2>1 DEF UnderLimit, PlanStands
  <2>3. ASSUME NEW r \in PlanNamed(SlugOf(ws)) PROVE Declared(r, t)' = Declared(r, t) /\ Capped(r, t)' = Capped(r, t)
    <3>1. r \in Rows("plans")
      BY DEF PlanNamed
    <3>2. Declared(r, t)' = Declared(r, t)
      BY <2>1, <3>1 DEF PlanStands
    <3> QED
      BY <3>2 DEF Capped, CappedIn, Declared
  <2>4. PlanNamed(SlugOf(ws))' = PlanNamed(SlugOf(ws))
    BY <2>1 DEF PlanStands
  <2>5. At(p, "count")' =>
          \E r \in PlanNamed(SlugOf(ws))' : Declared(r, t)' # None /\ serving'[p].limit = Declared(r, t)'
    BY <1>a, <1>b, <2>1, <2>3, <2>4 DEF UnderLimit
  <2>6. ASSUME Cleared(p)', NEW r \in PlanNamed(SlugOf(ws))', Capped(r, t)'
        PROVE  /\ serving'[p].limit = Declared(r, t)'
               /\ IsFiniteSet(serving'[p].counted) /\ Cardinality(serving'[p].counted) < Declared(r, t)'
               /\ \A i \in Used(ws, t)' : i \in serving'[p].counted \/ Raised(i)'
    <3>1. r \in PlanNamed(SlugOf(ws)) /\ Capped(r, t) /\ Declared(r, t)' = Declared(r, t) /\ Cleared(p)
      BY <2>3, <2>4, <2>6
    <3>2. /\ serving[p].limit = Declared(r, t)
          /\ IsFiniteSet(serving[p].counted) /\ Cardinality(serving[p].counted) < Declared(r, t)
          /\ \A i \in Used(ws, t) : i \in serving[p].counted \/ Raised(i)
      BY <1>a, <1>b, <2>1, <3>1 DEF UnderLimit
    <3>3. ASSUME NEW i \in Used(ws, t)' PROVE i \in serving'[p].counted \/ Raised(i)'
      <4>1. CASE i \in Used(ws, t)
        BY <3>2, <4>1, RaisesLast DEF Raised
      <4>2. CASE Entering(q, i)
        BY <4>2, EnteringRaises DEF Raised
      <4> QED
        BY <1>1, <4>1, <4>2, UsedAfter
    <3> QED
      BY <3>1, <3>2, <3>3
  <2> QED
    BY <1>2, <2>2, <2>5, <2>6 DEF UnderLimit, MakerOf
<1>5. serving'[p].at \in Before => serving'[p].counted = {}
  BY <1>1 DEF Gating
<1> QED
  BY <1>2, <1>3, <1>4, <1>5 DEF Gating

\* The gate itself: the slug is the plan's, the limit the plan declares, and what
\* is counted is all the workspace has.
LEMMA GateGating ==
  ASSUME IInv, NumbersInv, LimitsInv, NEW q \in Requests, Serve(q), IsGated(q), AtGate(q)
  PROVE  Gating(q)'
<1> RequestOK(q) /\ DOMAIN serving = Requests
  BY DEF IInv
<1>a. PICK ws : ws = serving[q].ws
  OBVIOUS
<1>b. PICK t : t = TableMade(q)
  OBVIOUS
<1>1. Gating(q) /\ ws \in Workspaces /\ t \in Gated
  BY <1>a, <1>b, GatedWorkspace DEF LimitsInv
<1>2. serving'[q].ws = ws /\ TableMade(q)' = t
  BY <1>a, <1>b, JobsStay
<1>3. PICK here \in {"start", "gate"} : \E next \in {"email", "slug", "insert", "find"} : Gate(q, here, t, next)
  BY <1>b DEF AtGate
<1>4. PICK next \in {"email", "slug", "insert", "find"} : Gate(q, here, t, next)
  BY <1>3
<1>5. rows' = rows /\ serving[q].at \in Before
  BY <1>4 DEF Gate, ReadPlan, ReadLimit, CountUsage, tables, At, Before
<1>6. ~serving'[q].wrote
  BY <1>1, <1>4, <1>5, GateOutcome DEF Gating
<1>7. ASSUME NEW i \in serving'[q].counted PROVE Born(i)'
  <2>1. serving'[q].counted = serving[q].counted \/ serving'[q].counted = Counted(q, t)
    BY <1>4 DEF Gate, ReadPlan, ReadLimit, CountUsage, Goes, Ends, RequestOK, Fields
  <2>2. ASSUME i \in Counted(q, t) PROVE Born(i)
    <3>1. i \in DOMAIN rows /\ TableOf(i) = t
      BY <2>2 DEF Counted, Own, Rows
    <3> QED
      BY <1>1, <3>1 DEF LimitsInv, PastGate, Born
  <2>3. Born(i)
    BY <1>1, <1>7, <2>1, <2>2 DEF Gating
  <2> QED
    BY <2>3, BornLasts
<1>8. ASSUME PlanHeld(ws)' PROVE UnderLimit(q)'
  <2>1. PlanStands(ws) /\ UnderLimit(q) /\ PlanHeld(ws)
    BY <1>a, <1>1, <1>8, PlanStays, HeldBefore DEF Gating
  <2>2. PlansApart
    BY <2>1 DEF LimitsInv, PlanHeld
  <2>3. ASSUME NEW r \in PlanNamed(SlugOf(ws)) PROVE Declared(r, t)' = Declared(r, t) /\ Capped(r, t)' = Capped(r, t)
    <3>1. r \in Rows("plans")
      BY DEF PlanNamed
    <3>2. Declared(r, t)' = Declared(r, t)
      BY <2>1, <3>1 DEF PlanStands
    <3> QED
      BY <3>2 DEF Capped, CappedIn, Declared
  <2>4. PlanNamed(SlugOf(ws))' = PlanNamed(SlugOf(ws)) /\ SlugOf(ws)' = SlugOf(ws)
    BY <2>1 DEF PlanStands
  <2>5. \A r, o \in PlanNamed(SlugOf(ws)) : r = o
    BY <2>2 DEF PlansApart, PlanNamed
  <2>6. \A r \in PlanNamed(SlugOf(ws)) : Declared(r, t) = None \/ Declared(r, t) \in Int
    BY <1>1, <2>2 DEF PlansApart, PlanNamed
  <2>7. Used(ws, t)' = Used(ws, t) /\ Used(ws, t) = Counted(q, t)
    BY <1>a, <1>1, <1>5 DEF Used, UsedIn, Counted, Own, Rows, Gated, Uncounted
  <2>8. CASE ReadPlan(q, here, "limit")
    <3>1. serving'[q].at = "limit" /\ serving'[q].read = SlugOf(ws)
      BY <1>a, <2>8 DEF ReadPlan, RequestOK, Fields
    <3> QED
      BY <1>2, <1>6, <2>4, <3>1 DEF UnderLimit, Cleared, At, Before
  <2>9. CASE ReadLimit(q, t, next)
    <3>1. serving[q].read = SlugOf(ws)
      BY <1>a, <2>1, <2>9 DEF UnderLimit, ReadLimit
    <3>2. CASE serving'[q].at = "done"
      BY <1>6, <3>2 DEF UnderLimit, Cleared, At
    <3>3. CASE (\A p \in PlanNamed(SlugOf(ws)) : Declared(p, t) = None) /\ Goes(q, next)
      <4>1. \A p \in PlanNamed(SlugOf(ws)) : ~Capped(p, t)
        BY <3>3 DEF Capped, CappedIn, Declared
      <4>2. serving'[q].at = next
        BY <3>3 DEF Goes, RequestOK, Fields
      <4> QED
        BY <1>2, <2>3, <2>4, <4>1, <4>2 DEF UnderLimit, At
    <3>4. CASE \E p \in PlanNamed(SlugOf(ws)) : Declared(p, t) # None /\ Declared(p, t) < 0 /\ Goes(q, next)
      <4>0. PICK r \in PlanNamed(SlugOf(ws)) : Declared(r, t) # None /\ Declared(r, t) < 0 /\ Goes(q, next)
        BY <3>4
      <4>1. ~Capped(r, t)
        BY <2>6, <4>0 DEF Capped, CappedIn, Declared
      <4>2. serving'[q].at = next
        BY <4>0 DEF Goes, RequestOK, Fields
      <4> QED
        BY <1>2, <2>3, <2>4, <2>5, <4>1, <4>2 DEF UnderLimit, At
    <3>5. CASE \E p \in PlanNamed(SlugOf(ws)) :
                 /\ Declared(p, t) # None
                 /\ serving' = [serving EXCEPT ![q].at = "count", ![q].limit = Declared(p, t)]
      <4>0. PICK r \in PlanNamed(SlugOf(ws)) :
                 /\ Declared(r, t) # None
                 /\ serving' = [serving EXCEPT ![q].at = "count", ![q].limit = Declared(r, t)]
        BY <3>5
      <4>1. serving'[q].at = "count" /\ serving'[q].limit = Declared(r, t)
        BY <4>0 DEF RequestOK, Fields
      <4>2. ~At(q, "limit")' /\ ~Cleared(q)'
        BY <1>6, <4>1 DEF At, Cleared, Before
      <4>3. \E p \in PlanNamed(SlugOf(ws))' : Declared(p, t)' # None /\ serving'[q].limit = Declared(p, t)'
        BY <2>3, <2>4, <4>0, <4>1
      <4> QED
        BY <1>2, <4>2, <4>3 DEF UnderLimit
    <3>6. \/ Ends(q, "failed") \/ Ends(q, "refused")
          \/ (\A p \in PlanNamed(SlugOf(ws)) : Declared(p, t) = None) /\ Goes(q, next)
          \/ \E p \in PlanNamed(SlugOf(ws)) : Declared(p, t) # None /\ Declared(p, t) < 0 /\ Goes(q, next)
          \/ \E p \in PlanNamed(SlugOf(ws)) :
                 /\ Declared(p, t) # None
                 /\ serving' = [serving EXCEPT ![q].at = "count", ![q].limit = Declared(p, t)]
      BY <2>9, <3>1 DEF ReadLimit
    <3>7. Ends(q, "failed") \/ Ends(q, "refused") => serving'[q].at = "done"
      BY DEF Ends, RequestOK, Fields
    <3> QED
      BY <3>2, <3>3, <3>4, <3>5, <3>6, <3>7
  <2>10. CASE CountUsage(q, t, next)
    <3>1. PICK r \in PlanNamed(SlugOf(ws)) : Declared(r, t) # None /\ serving[q].limit = Declared(r, t)
      BY <1>a, <1>b, <2>1, <2>10 DEF UnderLimit, CountUsage
    <3>2. CASE Ends(q, "refused")
      <4>1. serving'[q].at = "done"
        BY <3>2 DEF Ends, RequestOK, Fields
      <4> QED
        BY <1>6, <4>1 DEF UnderLimit, Cleared, At
    <3>3. CASE /\ ~(Cardinality(Counted(q, t)) >= serving[q].limit)
               /\ serving' = [serving EXCEPT ![q].at = next, ![q].counted = Counted(q, t)]
      <4>1. serving'[q].at = next /\ serving'[q].counted = Counted(q, t) /\ serving'[q].limit = serving[q].limit
        BY <3>3 DEF RequestOK, Fields
      <4>2. IsFiniteSet(Counted(q, t))
        BY <1>1, <2>7 DEF LimitsInv
      <4>3. Cardinality(Counted(q, t)) \in Nat /\ Declared(r, t) \in Int
        BY <2>6, <3>1, <4>2, FS_CardinalityType
      <4>4. Cardinality(Counted(q, t)) < Declared(r, t)
        BY <3>1, <3>3, <4>3
      <4>5. ASSUME NEW o \in PlanNamed(SlugOf(ws))'
            PROVE  /\ serving'[q].limit = Declared(o, t)'
                   /\ IsFiniteSet(serving'[q].counted) /\ Cardinality(serving'[q].counted) < Declared(o, t)'
                   /\ \A i \in Used(ws, t)' : i \in serving'[q].counted
        <5>1. o = r
          BY <2>4, <2>5, <3>1
        <5>2. Declared(o, t)' = Declared(r, t)
          BY <2>3, <5>1
        <5> QED
          BY <2>7, <3>1, <4>1, <4>2, <4>4, <5>2
      <4>6. ~At(q, "limit")' /\ ~At(q, "count")'
        BY <4>1 DEF At
      <4> QED
        BY <1>2, <4>5, <4>6 DEF UnderLimit
    <3> QED
      BY <2>10, <3>2, <3>3 DEF CountUsage
  <2> QED
    BY <1>4, <2>8, <2>9, <2>10 DEF Gate
<1>9. serving'[q].at \in Before => serving'[q].counted = {}
  <2>1. serving[q].counted = {}
    BY <1>1, <1>5 DEF Gating
  <2>2. serving'[q].counted = serving[q].counted \/ serving'[q].at = next
    BY <1>4 DEF Gate, ReadPlan, ReadLimit, CountUsage, Goes, Ends, RequestOK, Fields
  <2> QED
    BY <2>1, <2>2 DEF Before
<1> QED
  BY <1>2, <1>6, <1>7, <1>8, <1>9 DEF Gating

LEMMA GatingKeeps ==
  ASSUME IInv, NumbersInv, LimitsInv, NEW q \in Requests, Serve(q), NEW p \in Requests, IsGated(p)
  PROVE  Gating(p)'
<1> RequestOK(q) /\ DOMAIN serving = Requests
  BY DEF IInv
<1>1. Gating(p)
  BY DEF LimitsInv
<1>2. CASE p # q
  <2>1. serving'[p] = serving[p]
    BY <1>2, JobsStay
  <2> QED
    BY <1>1, <2>1, GatingCarries DEF At, Cleared, Gating
<1>3. CASE p = q /\ AtGate(q)
  BY <1>3, GateGating
<1>4. CASE p = q /\ InsertsOwn(q)
  <2>1. PICK row : \E next \in After : Put(q, "insert", <<TableMade(q), q>>, row, next)
    BY <1>4 DEF InsertsOwn
  <2>2. PICK next \in After : Put(q, "insert", <<TableMade(q), q>>, row, next)
    BY <2>1
  <2>3. serving[q].at = "insert" /\ ~serving[q].wrote
    BY <1>1, <1>4, <2>2 DEF Put, At, Gating, Between
  <2>4. Still(q) /\ serving'[q].at \in {next, "done"} /\ (Wrote(q, next) \/ serving'[q].wrote = serving[q].wrote)
    BY <2>2, MovesStill DEF Put
  <2>5. serving'[q].at \notin Before \cup Between
    BY <2>4 DEF After, Before, Between
  <2>6. Cleared(q)
    BY <2>3 DEF Cleared, Before
  <2> QED
    BY <1>4, <2>4, <2>5, <2>6, GatingCarries DEF Still, At, Before
<1>5. CASE p = q /\ Onward(q)
  <2>1. CASE At(q, "start") /\ serving'[q].at \in {"gate", "done"} /\ serving'[q].wrote = serving[q].wrote
    <3>1. ~serving'[q].wrote
      BY <1>1, <1>5, <2>1 DEF Gating, At, Before
    <3> QED
      BY <1>5, <2>1, <3>1, GatingCarries DEF Onward, Still, At, Before, Cleared
  <2>2. CASE /\ serving[q].at \in Between /\ serving'[q].at \in Between \cup {"done"}
             /\ serving'[q].wrote = serving[q].wrote
    <3>1. ~serving'[q].wrote /\ Cleared(q)
      BY <1>1, <1>5, <2>2 DEF Gating, Before, Between, Cleared
    <3> QED
      BY <1>5, <2>2, <3>1, GatingCarries DEF Onward, Still, At, Between, Before
  <2>3. CASE serving[q].at \in After \ {"done"} /\ serving'[q].at \in After
    <3>1. Cleared(q) /\ serving'[q].at \notin Before \cup Between
      BY <2>3 DEF After, Before, Between, Cleared
    <3> QED
      BY <1>5, <2>3, <3>1, GatingCarries DEF Onward, Still, At, Before
  <2> QED
    BY <1>5, <2>1, <2>2, <2>3 DEF Onward
<1>6. CASE p = q /\ Persists(q)
  <2>1. Cleared(q) /\ serving'[q].at \notin Before \cup Between
    BY <1>6 DEF Persists, Cleared, At, Before, Between
  <2> QED
    BY <1>6, <2>1, GatingCarries DEF Persists, Still, At, Before
<1> QED
  BY <1>2, <1>3, <1>4, <1>5, <1>6, GatedMoves DEF GatedMove

-----------------------------------------------------------------------------
(* The rows no two of which were counted apart.                             *)

\* A request whose row is there neither reads its limit nor counts any more.
LEMMA CountStands ==
  ASSUME IInv, NumbersInv, LimitsInv, NEW q \in Requests, Serve(q), NEW m \in Requests, serving[m].wrote, IsGated(m)
  PROVE  serving'[m].limit = serving[m].limit /\ serving'[m].counted = serving[m].counted
<1>1. CASE m # q
  BY <1>1, JobsStay
<1>2. CASE m = q
  <2>1. serving[q].at \notin Before \cup Between
    BY <1>2 DEF LimitsInv, Gating
  <2>2. ~AtGate(q)
    BY <2>1 DEF AtGate, Gate, ReadPlan, ReadLimit, CountUsage, At, Before
  <2>3. ~InsertsOwn(q)
    BY <2>1 DEF InsertsOwn, Put, At, Between
  <2> QED
    BY <1>2, <2>2, <2>3, GatedMoves DEF GatedMove, Onward, Persists, Still, At, Between
<1> QED
  BY <1>1, <1>2

\* A row of a workspace that was made, and by no request past no gate.
LEMMA LimitedMaker ==
  ASSUME IInv, LimitsInv, NEW ws \in Workspaces, NEW t \in Gated, NEW i \in Used(ws, t), Raised(i),
         \A q \in Requests : Raises(q, i) => serving[q].kind \notin Ungated
  PROVE  \E q \in Requests : Raises(q, i) /\ IsGated(q) /\ TableMade(q) = t /\ serving[q].ws = ws
<1>1. i \in DOMAIN rows /\ TableOf(i) = t /\ rows[i].ws = ws
  BY DEF Used, UsedIn
<1>2. PastGate(i)
  BY <1>1 DEF LimitsInv
<1> QED
  BY <1>1, <1>2 DEF PastGate, MadeBy

-----------------------------------------------------------------------------
(* Numbers that were counted and are taken up again.                        *)

LEMMA TurnsLast ==
  ASSUME IInv, NumbersInv, NEW q \in Requests, Serve(q), NEW p \in Requests, NEW i, Turns(p, i)
  PROVE  Turns(p, i)'
<1>1. Advance(q)
  BY ServeKeeps DEF Sound
<1>2. serving'[p].wrote /\ serving'[p].kind = serving[p].kind /\ serving'[p].id = serving[p].id
  BY <1>1, JobsStay DEF Turns, Advance
<1>3. CASE Asks(p, "delete_number") /\ Target(p) = i
  BY <1>2, <1>3 DEF Turns, Asks, Target
<1>4. CASE Asks(p, "purchase_number") /\ i \in serving[p].saw
  <2>1. serving'[p].saw = serving[p].saw
    <3>1. CASE p = q
      <4>1. PurchaseNumber(q) /\ serving[q].at \in {"answer", "done"}
        BY <1>4, <3>1, ServedBy DEF NumbersInv, Buying, Turns
      <4> QED
        BY <3>1, <4>1, ReviveMoves
    <3>2. CASE p # q
      BY <3>2, JobsStay
    <3> QED
      BY <3>1, <3>2
  <2> QED
    BY <1>2, <1>4, <2>1 DEF Turns, Asks
<1> QED
  BY <1>3, <1>4 DEF Turns

\* A request counts once, all there is.
LEMMA CountsOnce ==
  ASSUME IInv, NumbersInv, LimitsInv, NEW q \in Requests, Serve(q), NEW p \in Requests, Asks(p, "purchase_number")
  PROVE  /\ serving[p].counted \subseteq serving'[p].counted
         /\ serving'[p].counted # serving[p].counted =>
              rows' = rows /\ serving'[p].saw = serving[p].saw /\ \A i \in serving'[p].counted : Held(i)
<1> RequestOK(q) /\ DOMAIN serving = Requests
  BY DEF IInv
<1>1. CASE p # q
  BY <1>1, JobsStay
<1>2. CASE p = q /\ ~AtGate(q)
  <2>1. IsGated(q)
    BY <1>2 DEF IsGated, Gates, Asks
  <2>2. serving'[q].counted = serving[q].counted
    <3>1. ASSUME InsertsOwn(q) PROVE FALSE
      <4>1. At(q, "insert")
        BY <3>1 DEF InsertsOwn, Put
      <4> QED
        BY <1>2, <4>1, ServedBy DEF PurchaseNumber, Refuse, Gate, ReadPlan, ReadLimit, CountUsage, FindNumber,
           OrderNumber, Insert, ChangeRow, Put, Finish, At
    <3> QED
      BY <1>2, <2>1, <3>1, GatedMoves DEF GatedMove, Onward, Persists, Still
  <2> QED
    BY <1>2, <2>2
<1>3. CASE p = q /\ AtGate(q)
  <2>1. IsGated(q) /\ TableMade(q) = "phone_numbers"
    BY <1>3 DEF IsGated, TableMade, Gates, Asks
  <2>2. PICK here \in {"start", "gate"} : \E next \in {"email", "slug", "insert", "find"} : Gate(q, here, "phone_numbers", next)
    BY <1>3, <2>1 DEF AtGate
  <2>3. PICK next \in {"email", "slug", "insert", "find"} : Gate(q, here, "phone_numbers", next)
    BY <2>2
  <2>4. serving[q].at \in Before
    BY <2>3 DEF Gate, ReadPlan, ReadLimit, CountUsage, At, Before
  <2>5. serving[q].counted = {}
    BY <2>1, <2>4 DEF LimitsInv, Gating
  <2>6. rows' = rows /\ serving'[q].saw = serving[q].saw
    BY <2>3 DEF Gate, ReadPlan, ReadLimit, CountUsage, tables, Goes, Ends, RequestOK, Fields
  <2>7. serving'[q].counted = serving[q].counted \/ serving'[q].counted = Counted(q, "phone_numbers")
    BY <2>3 DEF Gate, ReadPlan, ReadLimit, CountUsage, Goes, Ends, RequestOK, Fields
  <2>8. \A i \in Counted(q, "phone_numbers") : Held(i)
    BY DEF Counted, Held, Uncounted
  <2> QED
    BY <1>3, <2>5, <2>6, <2>7, <2>8
<1> QED
  BY <1>1, <1>2, <1>3

LEMMA CountedTurnedLasts ==
  ASSUME IInv, NumbersInv, LimitsInv, NEW q \in Requests, Serve(q), CountedNumberTurned
  PROVE  CountedNumberTurned'
<1>1. PICK p, o, d \in Requests :
        /\ Asks(p, "purchase_number") /\ Asks(o, "purchase_number") /\ o \notin {p, d}
        /\ \E i \in serving[p].counted : Turns(o, i) /\ Turns(d, i)
  BY DEF CountedNumberTurned
<1>2. PICK i \in serving[p].counted : Turns(o, i) /\ Turns(d, i)
  BY <1>1
<1>3. Turns(o, i)' /\ Turns(d, i)' /\ i \in serving'[p].counted
  BY <1>1, <1>2, TurnsLast, CountsOnce
<1>4. Asks(p, "purchase_number")' /\ Asks(o, "purchase_number")'
  BY <1>1, JobsStay DEF Asks
<1> QED
  BY <1>1, <1>3, <1>4 DEF CountedNumberTurned

\* A purchase finds what is stored and is not held.
LEMMA FindsOnce ==
  ASSUME IInv, NumbersInv, NEW q \in Requests, Serve(q), NEW p \in Requests, Asks(p, "purchase_number"),
         serving'[p].saw # serving[p].saw
  PROVE  /\ rows' = rows /\ serving'[p].counted = serving[p].counted /\ ~serving'[p].wrote
         /\ \A i \in serving'[p].saw : i \in Rows("phone_numbers") /\ ~Held(i)
<1> RequestOK(q) /\ DOMAIN serving = Requests
  BY DEF IInv
<1>1. p = q
  BY JobsStay
<1>2. PurchaseNumber(q)
  BY <1>1, ServedBy
<1>3. ASSUME NEW next, Goes(q, next) \/ Wrote(q, next) PROVE serving'[q].saw = serving[q].saw
  BY <1>3 DEF Goes, Wrote, RequestOK, Fields
<1>4. ASSUME NEW answer, Ends(q, answer) PROVE serving'[q].saw = serving[q].saw
  BY <1>4 DEF Ends, RequestOK, Fields
<1>5. ASSUME Gate(q, "start", "phone_numbers", "find") PROVE serving'[q].saw = serving[q].saw
  BY <1>5 DEF Gate, ReadPlan, ReadLimit, CountUsage, Goes, Ends, RequestOK, Fields
<1>6. FindNumber(q)
  BY <1>1, <1>2, <1>3, <1>4, <1>5 DEF PurchaseNumber, Refuse, OrderNumber, Insert, ChangeRow, Put, Finish
<1>7. /\ At(q, "find") /\ \A i \in WithNumber(q) : ~Held(i)
      /\ serving' = [serving EXCEPT ![q].at = "key", ![q].saw = WithNumber(q),
                       ![q].read = IF WithNumber(q) = {} THEN None ELSE rows[CHOOSE i \in WithNumber(q) : TRUE]]
      /\ rows' = rows
  BY <1>1, <1>4, <1>6 DEF FindNumber, Refuse, tables
<1>8. /\ serving'[q].saw = WithNumber(q) /\ serving'[q].counted = serving[q].counted
      /\ serving'[q].wrote = serving[q].wrote
  BY <1>7 DEF RequestOK, Fields
<1>9. ~serving[q].wrote
  BY <1>1, <1>7 DEF NumbersInv, Buying, At
<1> QED
  BY <1>1, <1>7, <1>8, <1>9 DEF WithNumber

LEMMA OneTakenKeeps ==
  ASSUME IInv, NumbersInv, LimitsInv, NEW q \in Requests, Serve(q), NEW p \in Requests, Asks(p, "purchase_number")
  PROVE  OneTaken(p)'
<1>1. OneTaken(p)
  BY DEF LimitsInv
<1>2. CASE serving'[p].saw # serving[p].saw
  <2>1. \A i \in serving'[p].saw : Born(i)
    BY <1>2, FindsOnce DEF NumbersInv, NumberOK
  <2> QED
    BY <1>2, <2>1, FindsOnce, BornLasts DEF OneTaken
<1>3. CASE serving'[p].saw = serving[p].saw
  <2>1. \A i \in serving'[p].saw : Born(i)'
    BY <1>1, <1>3, BornLasts DEF OneTaken
  <2>2. serving'[p].wrote => serving'[p].saw = {} \/ \E i : serving'[p].saw = {i}
    <3>1. CASE serving[p].wrote
      BY <1>1, <1>3, <3>1 DEF OneTaken
    <3>2. CASE ~serving[p].wrote /\ serving'[p].wrote
      <4>1. p = q /\ PurchaseNumber(p)
        BY <3>2, JobsStay, ServedBy
      <4> QED
        BY <1>3, <3>2, <4>1, PurchaseWrites
    <3> QED
      BY <3>1, <3>2
  <2> QED
    BY <2>1, <2>2 DEF OneTaken
<1> QED
  BY <1>2, <1>3

LEMMA ReleaseWrites ==
  ASSUME IInv, NEW q \in Requests, DeleteNumber(q), rows' # rows
  PROVE  serving'[q].wrote
<1> RequestOK(q) /\ DOMAIN serving = Requests
  BY DEF IInv
<1>1. Change(q, "persist", [rows[Target(q)] EXCEPT !.flag = "off"], "answer")
  BY DEF DeleteNumber, Fetch, Lookup, Missing, ReleaseNumber, Finish, tables
<1>2. Wrote(q, "answer")
  BY <1>1 DEF Change, ChangeRow, Put, tables
<1> QED
  BY <1>2, WroteSets

\* Until its row is turned a counted number is held, and a found one is not.
LEMMA UntouchedKeeps ==
  ASSUME IInv, NumbersInv, LimitsInv, NEW q \in Requests, Serve(q), NEW i \in Rows("phone_numbers")'
  PROVE  (Turned(i) \/ Untouched(i))'
<1>1. i \in DOMAIN rows' /\ TableOf(i) = "phone_numbers"
  BY DEF Rows, TableOf
<1>2. NumberEffect(q, i)
  BY <1>1, NumberStep DEF NumbersInv
<1>3. ASSUME Turned(i) PROVE Turned(i)'
  BY <1>3, TurnsLast DEF Turned
<1>4. CASE TakenUp(q, i)
  <2>1. Asks(q, "purchase_number") /\ i \in serving[q].saw /\ Wrote(q, "answer")
    BY <1>4 DEF TakenUp
  <2>2. serving'[q].saw = serving[q].saw /\ serving'[q].wrote /\ serving'[q].kind = serving[q].kind
    BY <2>1, WroteSets, MovesHold, JobsStay
  <2>3. Turns(q, i)'
    BY <2>1, <2>2 DEF Turns, Asks
  <2> QED
    BY <2>3 DEF Turned
<1>5. CASE LetGo(q, i) /\ rows' # rows
  <2>1. Asks(q, "delete_number") /\ i = Target(q) /\ DeleteNumber(q)
    BY <1>5, ServedBy DEF LetGo
  <2>2. serving'[q].wrote
    BY <1>5, <2>1, ReleaseWrites
  <2>3. serving'[q].kind = serving[q].kind /\ serving'[q].id = serving[q].id
    BY ServeKeeps DEF Sound, Advance
  <2>4. Turns(q, i)'
    BY <2>1, <2>2, <2>3 DEF Turns, Asks, Target
  <2> QED
    BY <2>4 DEF Turned
<1>6. CASE Same(i) \/ (LetGo(q, i) /\ rows' = rows)
  <2>1. i \in Rows("phone_numbers") /\ rows'[i].flag = rows[i].flag
    BY <1>1, <1>6 DEF Same, LetGo, Rows
  <2>2. CASE Turned(i)
    BY <1>3, <2>2
  <2>3. CASE Untouched(i)
    <3>1. ASSUME NEW p \in Requests, Asks(p, "purchase_number")' PROVE Asks(p, "purchase_number")
      BY <3>1, JobsStay DEF Asks
    <3>2. ASSUME NEW p \in Requests, Asks(p, "purchase_number"), i \in serving'[p].counted PROVE Held(i)
      BY <2>3, <3>2, CountsOnce DEF Untouched
    <3>3. ASSUME NEW p \in Requests, Asks(p, "purchase_number"), i \in serving'[p].saw PROVE ~Held(i)
      BY <2>3, <3>3, FindsOnce DEF Untouched
    <3> QED
      BY <2>1, <3>1, <3>2, <3>3 DEF Untouched, Held
  <2> QED
    BY <2>1, <2>2, <2>3 DEF LimitsInv
<1>7. CASE Entered(q, i)
  <2>1. ~Born(i) /\ MakerOf(i) = q /\ i \notin DOMAIN rows
    <3>1. ~Born(i)
      BY <1>7, EnteredOnce
    <3>2. i \notin DOMAIN rows
      BY <1>1, <3>1 DEF Rows, NumbersInv, NumberOK
    <3> QED
      BY <1>7, <3>1, <3>2 DEF Entered, MakerOf
  <2>2. ASSUME NEW p \in Requests, Asks(p, "purchase_number"), i \in serving'[p].counted \cup serving'[p].saw PROVE FALSE
    <3>1. OneTaken(p) /\ Gating(p)
      BY <2>2 DEF LimitsInv, IsGated, Gates, Asks
    <3>2. i \notin serving[p].counted \cup serving[p].saw
      BY <2>1, <3>1 DEF OneTaken, Gating
    <3>3. CASE i \in serving'[p].counted
      BY <1>1, <2>1, <2>2, <3>2, <3>3, CountsOnce
    <3>4. CASE i \in serving'[p].saw
      BY <1>1, <2>1, <2>2, <3>2, <3>4, FindsOnce
    <3> QED
      BY <2>2, <3>3, <3>4
  <2>3. \A p \in Requests : Asks(p, "purchase_number")' => Asks(p, "purchase_number")
    BY JobsStay DEF Asks
  <2> QED
    BY <2>2, <2>3 DEF Untouched
<1> QED
  BY <1>1, <1>2, <1>4, <1>5, <1>6, <1>7 DEF NumberEffect, Gone

\* A number that was counted before is turned when another purchase takes it up.
LEMMA CountedStays ==
  ASSUME IInv, NumbersInv, LimitsInv, NEW q \in Requests, Serve(q), NEW ws \in Workspaces, NEW t \in Gated, Unturned(t)',
         NEW x, x \in Used(ws, t)', x \notin Used(ws, t),
         NEW m \in Requests, m # q, IsGated(m), TableMade(m) = t, serving[m].wrote, IsGated(q), Inserting(q)
  PROVE  x \notin serving[m].counted
<1> SUFFICES ASSUME x \in serving[m].counted PROVE FALSE
  OBVIOUS
<1>1. x \in DOMAIN rows' /\ TableOf(x) = t /\ Entering(q, x) /\ Made(q, t) = {x} /\ rows'[x].ws = ws
  BY UsedAfter
<1>2. Gating(m) /\ ~serving[q].wrote
  BY DEF LimitsInv, Gating, Inserting, At, Between
<1>3. Born(x)
  BY <1>2 DEF Gating
<1>4. CASE x = <<t, q>>
  <2>1. MakerOf(x) = q
    BY <1>4 DEF MakerOf
  <2> QED
    BY <1>2, <1>3, <2>1, MakersAssumption DEF Born
<1>5. CASE x # <<t, q>>
  <2>1. Asks(q, "purchase_number") /\ x \in serving[q].saw
    BY <1>1, <1>5 DEF Made
  <2>2. TableOf(x) = "phone_numbers"
    BY <2>1 DEF IInv, Holds, SeesNumbers
  <2>3. x \in DOMAIN rows
    <3>1. NumberEffect(q, x)
      BY <1>1, <2>2, NumberStep DEF NumbersInv
    <3> QED
      BY <1>1, <2>1, <3>1 DEF NumberEffect, Same, LetGo, TakenUp, Entered, Gone
  <2>4. t = "phone_numbers" /\ x \in Rows("phone_numbers")
    BY <1>1, <2>2, <2>3 DEF Rows, TableOf
  <2>5. Asks(m, "purchase_number")
    BY <2>4 DEF IsGated, TableMade, Gates, Asks
  <2>6. PICK d \in Requests : Turns(d, x)
    BY <2>1, <2>4, <2>5 DEF LimitsInv, Untouched, Turned
  <2>7. d # q
    BY <1>2, <2>6 DEF Turns
  <2>8. Turns(d, x)'
    BY <2>6, TurnsLast
  <2>9. Asks(q, "purchase_number")' /\ Asks(m, "purchase_number")' /\ x \in serving'[m].counted /\ serving'[q].wrote
    BY <2>1, <2>5, JobsStay DEF Asks, Inserting
  <2>10. Turns(q, x)'
    BY <2>1, <2>9 DEF Turns, Inserting
  <2> QED
    BY <2>4, <2>7, <2>8, <2>9, <2>10 DEF Unturned, CountedNumberTurned
<1> QED
  BY <1>4, <1>5

LEMMA WithinKeeps ==
  ASSUME IInv, NumbersInv, LimitsInv, NEW q \in Requests, Serve(q), NEW ws \in Workspaces, NEW t \in Gated,
         PlanHeld(ws)', Unturned(t)'
  PROVE  Within(ws, t)'
<1>1. PlanStands(ws) /\ PlanHeld(ws) /\ Within(ws, t) /\ PlansApart
  <2>1. Unturned(t)
    BY CountedTurnedLasts DEF Unturned
  <2> QED
    BY <2>1, PlanStays, HeldBefore DEF LimitsInv, PlanHeld
<1>2. SUFFICES ASSUME NEW V \in SUBSET Used(ws, t)', NEW p \in PlanNamed(SlugOf(ws))', InTurn(V)', Capped(p, t)'
               PROVE  Cardinality(V) <= Declared(p, t)'
  BY DEF Within
<1>3. p \in PlanNamed(SlugOf(ws)) /\ p \in Rows("plans") /\ Declared(p, t)' = Declared(p, t) /\ Capped(p, t)
  <2>1. p \in PlanNamed(SlugOf(ws)) /\ p \in Rows("plans")
    BY <1>1 DEF PlanStands, PlanNamed
  <2>2. Declared(p, t)' = Declared(p, t)
    BY <1>1, <2>1 DEF PlanStands
  <2> QED
    BY <1>2, <2>1, <2>2 DEF Capped, CappedIn, Declared
<1>4. ASSUME NEW i \in V, NEW m \in Requests, Raises(m, i) PROVE serving[m].kind \notin Ungated
  <2>1. Raises(m, i)' /\ serving'[m].kind = serving[m].kind
    BY <1>4, RaisesLast, JobsStay
  <2> QED
    BY <1>2, <2>1 DEF InTurn
<1>5. CASE V \subseteq Used(ws, t)
  <2>1. ASSUME NEW i \in V, NEW j \in V, i # j, Apart(i, j) PROVE FALSE
    <3>1. PICK m, n \in Requests :
            /\ m # n /\ IsGated(m) /\ IsGated(n) /\ Raises(m, i) /\ Raises(n, j)
            /\ serving[m].limit # None /\ serving[n].limit # None
            /\ i \notin serving[n].counted /\ j \notin serving[m].counted
      BY <2>1 DEF Apart
    <3>2. Raises(m, i)' /\ Raises(n, j)' /\ IsGated(m)' /\ IsGated(n)'
      BY <3>1, RaisesLast, JobsStay
    <3>3. /\ serving'[m].limit = serving[m].limit /\ serving'[m].counted = serving[m].counted
          /\ serving'[n].limit = serving[n].limit /\ serving'[n].counted = serving[n].counted
      BY <3>1, CountStands DEF Raises
    <3>4. Apart(i, j)'
      BY <3>1, <3>2, <3>3 DEF Apart
    <3> QED
      BY <1>2, <2>1, <3>4 DEF InTurn
  <2>2. InTurn(V)
    BY <1>4, <2>1 DEF InTurn
  <2> QED
    BY <1>1, <1>3, <1>5, <2>2 DEF Within
<1>6. CASE ~(V \subseteq Used(ws, t))
  <2>1. PICK x \in V : x \notin Used(ws, t)
    BY <1>6
  <2>2. Entering(q, x) /\ TableOf(x) = t /\ rows'[x].ws = ws /\ Made(q, t) = {x}
    BY <2>1, UsedAfter
  <2>3. Raises(q, x)'
    BY <2>2, EnteringRaises
  <2>4. IsGated(q) /\ TableMade(q) = t /\ serving[q].ws = ws /\ Inserting(q)
    <3>1. serving[q].kind \notin Ungated
      BY <1>2, <2>3, JobsStay DEF InTurn
    <3> QED
      BY <2>2, <3>1 DEF Entering
  <2>5. Gating(q) /\ UnderLimit(q) /\ ~serving[q].wrote /\ Cleared(q)
    BY <1>1, <2>4 DEF LimitsInv, Gating, Inserting, At, Between, Cleared, Before
  <2>6. /\ serving[q].limit = Declared(p, t)
        /\ IsFiniteSet(serving[q].counted) /\ Cardinality(serving[q].counted) < Declared(p, t)
        /\ \A i \in Used(ws, t) : i \in serving[q].counted \/ Raised(i)
    BY <1>3, <2>4, <2>5 DEF UnderLimit
  <2>7. ASSUME NEW j \in V \ {x} PROVE j \in serving[q].counted
    <3>1. j \in Used(ws, t)
      BY <2>2, <2>7, UsedAfter
    <3>2. SUFFICES ASSUME j \notin serving[q].counted PROVE FALSE
      OBVIOUS
    <3>3. Raised(j)
      BY <2>6, <3>1, <3>2
    <3>4. PICK m \in Requests : Raises(m, j) /\ IsGated(m) /\ TableMade(m) = t /\ serving[m].ws = ws
      BY <1>4, <2>7, <3>1, <3>3, LimitedMaker
    <3>5. serving[m].wrote /\ m # q
      BY <2>5, <3>4 DEF Raises
    <3>6. serving'[m].limit = serving[m].limit /\ serving'[m].counted = serving[m].counted
      BY <3>4, <3>5, CountStands
    <3>7. Gating(m) /\ UnderLimit(m) /\ Cleared(m)
      BY <1>1, <3>4, <3>5 DEF LimitsInv, Gating, Cleared
    <3>8. serving[m].limit = Declared(p, t) /\ Declared(p, t) # None
      BY <1>3, <3>4, <3>7 DEF UnderLimit, Capped, CappedIn, Declared
    <3>9. x \notin serving[m].counted
      BY <2>1, <2>4, <3>4, <3>5, CountedStays
    <3>10. serving'[q].limit = serving[q].limit /\ serving'[q].counted = serving[q].counted
      BY <2>4 DEF Inserting, Still
    <3>11. Raises(m, j)' /\ IsGated(m)' /\ IsGated(q)'
      BY <2>4, <3>4, RaisesLast, JobsStay
    <3>12. Apart(x, j)'
      BY <2>3, <2>6, <3>2, <3>5, <3>6, <3>8, <3>9, <3>10, <3>11 DEF Apart
    <3> QED
      BY <1>2, <2>7, <3>12 DEF InTurn
  <2>8. PICK C : C = serving[q].counted
    OBVIOUS
  <2>9. V \subseteq C \cup {x} /\ IsFiniteSet(C)
    BY <2>6, <2>7, <2>8
  <2>10. IsFiniteSet(C \cup {x}) /\ Cardinality(C \cup {x}) <= Cardinality(C) + 1 /\ Cardinality(C) \in Nat
    <3>1. IsFiniteSet(C \cup {x}) /\ (Cardinality(C \cup {x}) = Cardinality(C) \/ Cardinality(C \cup {x}) = Cardinality(C) + 1)
      BY <2>9, FS_AddElement
    <3>2. Cardinality(C) \in Nat
      BY <2>9, FS_CardinalityType
    <3> QED
      BY <3>1, <3>2
  <2>11. IsFiniteSet(V) /\ Cardinality(V) <= Cardinality(C \cup {x})
    BY <2>9, <2>10, FS_Subset
  <2>12. Cardinality(V) \in Nat /\ Cardinality(C \cup {x}) \in Nat
    BY <2>10, <2>11, FS_CardinalityType
  <2>13. Declared(p, t) \in Int
    BY <1>1, <1>3 DEF PlansApart, Capped, CappedIn, Declared
  <2> QED
    BY <1>3, <2>6, <2>8, <2>10, <2>11, <2>12, <2>13
<1> QED
  BY <1>5, <1>6

LEMMA LimitsServe ==
  ASSUME IInv, NumbersInv, LimitsInv, NEW q \in Requests, Serve(q)
  PROVE  LimitsInv'
<1>1. ASSUME NEW i \in DOMAIN rows', TableOf(i)' \in Gated PROVE PastGate(i)'
  BY <1>1, PastGateKeeps DEF TableOf
<1>2. ASSUME NEW p \in Requests, IsGated(p)' PROVE Gating(p)'
  BY <1>2, JobsStay, GatingKeeps
<1>3. ASSUME NEW p \in Requests, Asks(p, "purchase_number")' PROVE OneTaken(p)'
  BY <1>3, JobsStay, OneTakenKeeps DEF Asks
<1>4. ASSUME NEW i \in Rows("phone_numbers")' PROVE (Turned(i) \/ Untouched(i))'
  BY <1>4, UntouchedKeeps
<1>5. (Replanned \/ PlansApart)'
  BY PlansStayApart
<1>6. ASSUME NEW ws \in Workspaces, PlanHeld(ws)' PROVE ws \in DOMAIN seat'
  BY <1>6, PlanStays DEF PlanStands
<1>7. ASSUME NEW ws \in Workspaces, NEW t \in Gated
      PROVE  IsFiniteSet(Used(ws, t))' /\ (PlanHeld(ws)' /\ Unturned(t)' => Within(ws, t)')
  BY UsedStaysFinite, WithinKeeps
<1> QED
  BY <1>1, <1>2, <1>3, <1>4, <1>5, <1>6, <1>7 DEF LimitsInv

LEMMA LimitsStep == IInv /\ NumbersInv /\ LimitsInv /\ [Next]_vars => LimitsInv'
<1> SUFFICES ASSUME IInv, NumbersInv, LimitsInv, [Next]_vars PROVE LimitsInv'
  OBVIOUS
<1>1. CASE Next
  BY <1>1, LimitsServe DEF Next
<1>2. CASE UNCHANGED vars
  <2>1. /\ rows' = rows /\ seat' = seat /\ caps' = caps /\ serving' = serving
    BY <1>2 DEF vars
  <2>2. \A ws, t : Used(ws, t)' = Used(ws, t) /\ PlanHeld(ws)' = PlanHeld(ws)
    BY <2>1 DEF Used, UsedIn, PlanHeld, Replanned, MadeAnew, Retires, Asks, Target, Home, TableOf
  <2>3. \A p, i : Raises(p, i)' = Raises(p, i)
    BY <2>1 DEF Raises, Made, Asks, TableOf
  <2>4. \A i : Raised(i)' = Raised(i) /\ PastGate(i)' = PastGate(i)
    BY <2>1, <2>3 DEF Raised, PastGate, MadeBy, Born, IsGated, TableMade, MakerOf, TableOf
  <2>5. \A i, j : Apart(i, j)' = Apart(i, j)
    BY <2>1, <2>3 DEF Apart, IsGated
  <2>6. \A V : InTurn(V)' = InTurn(V)
    BY <2>1, <2>3, <2>5 DEF InTurn
  <2>7. \A ws : SlugOf(ws)' = SlugOf(ws) /\ PlanNamed(SlugOf(ws))' = PlanNamed(SlugOf(ws))
    BY <2>1 DEF SlugOf, SlugIn, PlanNamed, Rows, TableOf
  <2>8. \A p, t : Declared(p, t)' = Declared(p, t) /\ Capped(p, t)' = Capped(p, t)
    BY <2>1 DEF Declared, DeclaredIn, ColumnOf, Capped, CappedIn
  <2>9. \A ws, t : Within(ws, t)' = Within(ws, t)
    BY <2>2, <2>6, <2>7, <2>8 DEF Within
  <2>10. \A p, i : Turns(p, i)' = Turns(p, i)
    BY <2>1 DEF Turns, Asks, Target
  <2>11. \A t : Unturned(t)' = Unturned(t)
    BY <2>1, <2>10 DEF Unturned, CountedNumberTurned, Asks
  <2>12. \A i : Turned(i)' = Turned(i) /\ Untouched(i)' = Untouched(i)
    BY <2>1, <2>10 DEF Turned, Untouched, Held, Asks
  <2>13. ASSUME NEW q \in Requests, IsGated(q)' PROVE Gating(q)'
    <3>1. Gating(q) /\ serving'[q] = serving[q]
      BY <2>1, <2>13 DEF IsGated, LimitsInv
    <3>2. UnderLimit(q) => UnderLimit(q)'
      <4>1. TableMade(q)' = TableMade(q) /\ Cleared(q)' = Cleared(q)
        BY <2>1 DEF TableMade, Cleared
      <4>2. At(q, "limit")' = At(q, "limit") /\ At(q, "count")' = At(q, "count")
        BY <2>1 DEF At
      <4> QED
        BY <2>2, <2>4, <2>7, <2>8, <3>1, <4>1, <4>2 DEF UnderLimit
    <3>3. \A i : Born(i) => Born(i)'
      BY <2>1 DEF Born, MakerOf
    <3> QED
      BY <2>2, <3>1, <3>2, <3>3 DEF Gating
  <2>14. (Replanned \/ PlansApart)' = (Replanned \/ PlansApart)
    BY <2>1 DEF Replanned, PlansApart, Rows, Declared, DeclaredIn, ColumnOf, TableOf
  <2>15. ASSUME NEW p \in Requests, Asks(p, "purchase_number")' PROVE OneTaken(p)'
    BY <2>1, <2>15 DEF LimitsInv, OneTaken, Asks, Born, MakerOf
  <2>16. Rows("phone_numbers")' = Rows("phone_numbers") /\ \A i : TableOf(i)' = TableOf(i)
    BY <2>1 DEF Rows, TableOf
  <2> QED
    BY <2>1, <2>2, <2>4, <2>9, <2>11, <2>12, <2>13, <2>14, <2>15, <2>16 DEF LimitsInv
<1> QED
  BY <1>1, <1>2

LEMMA LimitsStart == Init => LimitsInv
<1> SUFFICES ASSUME Init PROVE LimitsInv
  OBVIOUS
<1>1. PICK load \in Workloads :
        /\ rows = load.rows /\ links = load.links /\ seat = load.seat
        /\ caps = load.caps /\ rented = load.rented
        /\ \E asked \in load.asked : serving = [q \in Requests |-> Received(asked[q])]
  BY DEF Init
<1>2. ASSUME NEW q \in Requests
      PROVE  /\ serving[q].at = "start" /\ serving[q].counted = {} /\ serving[q].saw = {}
             /\ ~serving[q].wrote
  BY <1>1 DEF Received
<1>3. ASSUME NEW i \in DOMAIN rows PROVE Born(i) /\ ~Raised(i)
  <2>1. MakerOf(i) \in Workspaces
    BY <1>1, <1>3, WorkloadsAssumption DEF Seeded
  <2> QED
    BY <1>2, <2>1, MakersAssumption DEF Born, Raised, Raises
<1>4. ASSUME NEW q \in Requests PROVE Gating(q) /\ OneTaken(q)
  BY <1>2 DEF Gating, UnderLimit, Cleared, At, Before, Between, OneTaken
<1>5. \A i : Untouched(i)
  BY <1>2 DEF Untouched
<1>6. IsFiniteSet(DOMAIN rows) /\ Workspaces \subseteq DOMAIN seat
  BY <1>1, LimitsAssumption
<1>7. PlansApart
  BY <1>1, LimitsAssumption DEF PlansApart, Rows, Declared
<1>8. ASSUME NEW ws \in Workspaces, NEW t \in Gated
      PROVE  IsFiniteSet(Used(ws, t)) /\ Within(ws, t)
  <2>1. IsFiniteSet(Used(ws, t))
    <3>1. Used(ws, t) \subseteq DOMAIN rows
      BY DEF Used, UsedIn
    <3> QED
      BY <1>6, <3>1, FS_Subset
  <2>2. ASSUME NEW V \in SUBSET Used(ws, t), NEW p \in PlanNamed(SlugOf(ws)), Capped(p, t)
        PROVE  Cardinality(V) <= Declared(p, t)
    <3>1. Cardinality(Used(ws, t)) <= Declared(p, t)
      BY <1>1, <2>2, LimitsAssumption DEF Used, Declared, Capped, SlugOf, PlanNamed, Rows
    <3>2. /\ Cardinality(V) <= Cardinality(Used(ws, t)) /\ IsFiniteSet(V)
      BY <2>1, FS_Subset
    <3>3. Cardinality(V) \in Nat /\ Cardinality(Used(ws, t)) \in Nat
      BY <2>1, <3>2, FS_CardinalityType
    <3>4. Declared(p, t) \in Int
      BY <1>7, <2>2 DEF PlansApart, Capped, CappedIn, Declared, PlanNamed
    <3> QED
      BY <3>1, <3>2, <3>3, <3>4
  <2> QED
    BY <2>1, <2>2 DEF Within
<1> QED
  BY <1>3, <1>4, <1>5, <1>6, <1>7, <1>8 DEF LimitsInv, PastGate

\* All a workspace has is within its limit, or two of it were counted apart.
LEMMA LimitFollows ==
  ASSUME IInv, LimitsInv, NEW t \in Gated
  PROVE  LimitHeld(t)
<1>1. SUFFICES ASSUME NEW ws \in Workspaces, Over(ws, t), ~Replanned, ~MadeAnew(ws), Unturned(t)
               PROVE  \/ \E p, q \in Requests : p # q /\ CountedApart(p, q, t)
                      \/ \E p \in Requests : serving[p].kind \in Ungated /\ <<t, p>> \in Used(ws, t)
  BY DEF LimitHeld, Unturned
<1>2. PICK p \in PlanNamed(SlugOf(ws)) : Capped(p, t) /\ Cardinality(Used(ws, t)) > Declared(p, t)
  BY <1>1 DEF Over
<1>3. Within(ws, t) /\ PlansApart /\ IsFiniteSet(Used(ws, t))
  <2>1. PlansApart /\ IsFiniteSet(Used(ws, t))
    BY <1>1 DEF LimitsInv
  <2>2. Used(ws, t) # {}
    <3>1. Declared(p, t) \in Int /\ Declared(p, t) >= 0
      BY <1>2, <2>1 DEF PlansApart, Capped, CappedIn, Declared, PlanNamed
    <3> QED
      BY <1>2, <3>1, FS_EmptySet
  <2>3. PICK i \in Used(ws, t) : TRUE
    BY <2>2
  <2>4. i \in DOMAIN rows /\ rows[i].ws = ws /\ TableOf(i) # "tenants"
    BY <2>3 DEF Used, UsedIn, Gated
  <2>5. Home(ws) \in DOMAIN rows
    BY <2>4, MakersAssumption DEF IInv, Sane, WellStored, RowStored
  <2> QED
    BY <1>1, <2>1, <2>5 DEF LimitsInv, PlanHeld
<1>4. ~InTurn(Used(ws, t))
  <2>1. Declared(p, t) \in Int /\ Cardinality(Used(ws, t)) \in Nat
    BY <1>2, <1>3, FS_CardinalityType DEF PlansApart, Capped, CappedIn, Declared, PlanNamed
  <2> QED
    BY <1>2, <1>3, <2>1 DEF Within
<1>5. ASSUME NEW i \in Used(ws, t), NEW m \in Requests, Raises(m, i)
      PROVE  /\ i \in Rows(t) /\ i \in Made(m, t)
             /\ Asks(m, "purchase_number") \/ i = <<t, m>>
             /\ Made(m, t) = {i}
  <2>1. i \in Rows(t) /\ i \in Made(m, t)
    BY <1>5 DEF Used, UsedIn, Rows, TableOf, Raises
  <2>2. CASE Asks(m, "purchase_number")
    BY <1>5, <2>1, <2>2 DEF LimitsInv, OneTaken, Raises, Made
  <2>3. CASE ~Asks(m, "purchase_number")
    BY <2>1, <2>3 DEF Made
  <2> QED
    BY <2>1, <2>2, <2>3
<1>6. CASE \E i \in Used(ws, t), m \in Requests : Raises(m, i) /\ serving[m].kind \in Ungated
  <2>1. PICK i \in Used(ws, t), m \in Requests : Raises(m, i) /\ serving[m].kind \in Ungated
    BY <1>6
  <2>2. ~Asks(m, "purchase_number")
    BY <2>1 DEF Asks, Ungated, Doors
  <2>3. i = <<t, m>>
    BY <1>5, <2>1, <2>2
  <2> QED
    BY <2>1, <2>3
<1>7. CASE \A i \in Used(ws, t), m \in Requests : Raises(m, i) => serving[m].kind \notin Ungated
  <2>1. PICK i \in Used(ws, t) : \E j \in Used(ws, t) : i # j /\ Apart(i, j)
    BY <1>4, <1>7 DEF InTurn
  <2>2. PICK j \in Used(ws, t) : i # j /\ Apart(i, j)
    BY <2>1
  <2>3. PICK m, n \in Requests :
          /\ m # n /\ Raises(m, i) /\ Raises(n, j)
          /\ serving[m].limit # None /\ serving[n].limit # None
          /\ i \notin serving[n].counted /\ j \notin serving[m].counted
    BY <2>2 DEF Apart
  <2>4. Made(m, t) = {i} /\ Made(n, t) = {j} /\ {i, j} \subseteq Rows(t)
    BY <1>5, <2>3
  <2>5. CountedApart(m, n, t)
    BY <2>3, <2>4 DEF CountedApart
  <2> QED
    BY <2>3, <2>5
<1> QED
  BY <1>6, <1>7

\* Over a limit only what was counted before either was inserted, a row of the
\* workspace's own that went through no gate (a recorded call, the follow-up of a
\* missed call, a plan request of the sign-up or the checkout), or what a changed
\* plan, a workspace made anew, or a number that was counted and then let go or
\* sold leaves so.
THEOREM LimitsHold == Spec => []LimitHeldUnlessCountedApart
<1>1. IInv /\ LimitsInv => LimitHeldUnlessCountedApart
  BY LimitFollows DEF LimitHeldUnlessCountedApart
<1> QED
  BY <1>1, Invariance, NumbersStart, NumbersStep, LimitsStart, LimitsStep, PTL DEF Spec
=============================================================================
