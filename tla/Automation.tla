----------------------------- MODULE Automation -----------------------------
(***************************************************************************)
(* What a workspace sets up once and other parts read: response rules,     *)
(* message templates, integrations and their targets, portfolio companies  *)
(* with their mail server, campaign triggers, export templates and import  *)
(* logs. Columns: text is a free text, state a second one that is kept     *)
(* apart (an event list, a mail server), flag is_active, link the company. *)
(***************************************************************************)
EXTENDS PlanGate

ListRules(q) == Asks(q, "list_rules") /\ Show(q, "start", Own(q, "response_rules"))
CreateRule(q) ==
  Asks(q, "create_rule") /\ (Refuse(q, "start") \/ GatedCreation(q, "response_rules", "new", "on"))
\* The merged rule is validated, so it may be refused after the read.
UpdateRule(q) == Asks(q, "update_rule") /\ (Refuse(q, "write") \/ MergingEdit(q))
DeleteRule(q) == Asks(q, "delete_rule") /\ Delete(q, "start")

ListTemplates(q) == Asks(q, "list_templates") /\ Show(q, "start", Own(q, "message_templates"))
CreateTemplate(q) == Asks(q, "create_template") /\ GatedCreation(q, "message_templates", "new", "on")
UpdateTemplate(q) == Asks(q, "update_template") /\ MergingEdit(q)
DeleteTemplate(q) == Asks(q, "delete_template") /\ Delete(q, "start")

-----------------------------------------------------------------------------
ListIntegrations(q) == Asks(q, "list_integrations") /\ Show(q, "start", Own(q, "integrations"))
CreateIntegration(q) == Asks(q, "create_integration") /\ GatedCreation(q, "integrations", "new", "on")
UpdateIntegration(q) == Asks(q, "update_integration") /\ MergingEdit(q)
DeleteIntegration(q) == Asks(q, "delete_integration") /\ Delete(q, "start")
TestIntegration(q) == Asks(q, "test_integration") /\ GetRow(q)

\* encrypt_for_storage before the write: without a master key the request is a 500.
Encrypt(q, here, next) ==
  /\ At(q, here)
  /\ Goes(q, next) \/ Ends(q, "failed")
  /\ UNCHANGED tables

ListTargets(q) == Asks(q, "list_targets") /\ Show(q, "start", Own(q, "integration_targets"))
CreateTarget(q) ==
  /\ Asks(q, "create_target")
  /\ \/ Refuse(q, "start")
     \/ Gate(q, "start", "integration_targets", "encrypt")
     \/ Encrypt(q, "encrypt", "insert")
     \/ Insert(q, "insert", "integration_targets", "new", "on", "answer")
     \/ Finish(q, "answer")
UpdateTarget(q) ==
  /\ Asks(q, "update_target")
  /\ \/ Fetch(q, "start", "encrypt")
     \/ Refuse(q, "encrypt")
     \/ Encrypt(q, "encrypt", "write")
     \/ Change(q, "write", Named(q), "reread")
     \/ Reread(q, "reread", Target(q), "done")
DeleteTarget(q) == Asks(q, "delete_target") /\ Delete(q, "start")

-----------------------------------------------------------------------------
ListCompanies(q) == Asks(q, "list_companies") /\ Show(q, "start", Own(q, "portfolio_companies"))
GetCompany(q) == Asks(q, "get_company") /\ GetRow(q)
CreateCompany(q) ==
  /\ Asks(q, "create_company")
  /\ \/ Refuse(q, "start")
     \/ Gate(q, "start", "portfolio_companies", "insert")
     \/ Insert(q, "insert", "portfolio_companies", "unset", "on", "answer")
     \/ Finish(q, "answer")

\* is_active is bound whatever the body says: true when it says nothing.
Reactivated(q) ==
  [Named(q) EXCEPT !.flag = IF serving[q].col = "flag" THEN serving[q].val ELSE "on"]
UpdateCompany(q) ==
  /\ Asks(q, "update_company")
  /\ \/ Fetch(q, "start", "write")
     \/ Refuse(q, "write")
     \/ Change(q, "write", Reactivated(q), "reread")
     \/ Reread(q, "reread", Target(q), "done")
DeleteCompany(q) == Asks(q, "delete_company") /\ Delete(q, "start")

\* The sibling applications' door: the workspace takes the company's name and a
\* slug of its own, or is made by it, and an error of that upsert is ignored; then
\* the company is inserted. There is no plan gate.
Claimed(q) ==
  IF Target(q) \in DOMAIN rows THEN [rows[Target(q)] EXCEPT !.key = q, !.text = q]
  ELSE [ws |-> serving[q].ws, key |-> q, text |-> q, state |-> "new", flag |-> "on", link |-> None]
ClaimWorkspace(q) ==
  /\ At(q, "start")
  /\ \/ Fits(Target(q), Claimed(q)) /\ rows' = With(rows, Target(q), Claimed(q)) /\ Wrote(q, "insert")
     \/ rows' = rows /\ Goes(q, "insert")
  /\ UNCHANGED <<links, seat, caps, rented>>
SyncCompany(q) ==
  /\ Asks(q, "sync_company")
  /\ \/ Refuse(q, "start")
     \/ ClaimWorkspace(q)
     \/ Insert(q, "insert", "portfolio_companies", "unset", "on", "answer")
     \/ Finish(q, "answer")

GetSmtp(q) == Asks(q, "get_smtp") /\ GetRow(q)
\* All four columns are bound, the ones the body leaves out as NULL: the mail
\* server (state) is one value here, replaced or emptied.
UpdateSmtp(q) ==
  /\ Asks(q, "update_smtp")
  /\ \/ Fetch(q, "start", "write")
     \/ Change(q, "write", [rows[Target(q)] EXCEPT !.state = serving[q].val], "answer")
     \/ Finish(q, "answer")

-----------------------------------------------------------------------------
ListEmailTriggers(q) == Asks(q, "list_email_triggers") /\ Show(q, "start", Own(q, "triggers"))
GetEmailTrigger(q) == Asks(q, "get_email_trigger") /\ (Refuse(q, "start") \/ GetRow(q))
CreateEmailTrigger(q) ==
  Asks(q, "create_email_trigger") /\ (Refuse(q, "start") \/ Creation(q, "start", "triggers", "new", "on"))
UpdateEmailTrigger(q) == Asks(q, "update_email_trigger") /\ (Refuse(q, "start") \/ MergingEdit(q))
DeleteEmailTrigger(q) == Asks(q, "delete_email_trigger") /\ (Refuse(q, "start") \/ Delete(q, "start"))

\* The redirect triggers are a table of their own with the same handlers.
ListRedirects(q) == Asks(q, "list_redirects") /\ Show(q, "start", Own(q, "redirects"))
GetRedirect(q) == Asks(q, "get_redirect") /\ (Refuse(q, "start") \/ GetRow(q))
CreateRedirect(q) ==
  Asks(q, "create_redirect") /\ (Refuse(q, "start") \/ Creation(q, "start", "redirects", "new", "on"))
UpdateRedirect(q) == Asks(q, "update_redirect") /\ (Refuse(q, "start") \/ MergingEdit(q))
DeleteRedirect(q) == Asks(q, "delete_redirect") /\ (Refuse(q, "start") \/ Delete(q, "start"))

ListExports(q) == Asks(q, "list_exports") /\ Show(q, "start", Own(q, "export_templates"))
GetExport(q) == Asks(q, "get_export") /\ GetRow(q)
CreateExport(q) ==
  Asks(q, "create_export") /\ (Refuse(q, "start") \/ Creation(q, "start", "export_templates", "new", "on"))
UpdateExport(q) == Asks(q, "update_export") /\ (Refuse(q, "start") \/ MergingEdit(q))
DeleteExport(q) == Asks(q, "delete_export") /\ Delete(q, "start")

ListImports(q) == Asks(q, "list_imports") /\ Show(q, "start", Own(q, "import_logs"))
GetImport(q) == Asks(q, "get_import") /\ GetRow(q)
CreateImport(q) ==
  Asks(q, "create_import") /\ (Refuse(q, "start") \/ Creation(q, "start", "import_logs", "pending", "on"))
UpdateImport(q) == Asks(q, "update_import") /\ (Refuse(q, "start") \/ MergingEdit(q))
DeleteImport(q) == Asks(q, "delete_import") /\ Delete(q, "start")

-----------------------------------------------------------------------------
ServeAutomation(q) ==
  \/ ListRules(q) \/ CreateRule(q) \/ UpdateRule(q) \/ DeleteRule(q)
  \/ ListTemplates(q) \/ CreateTemplate(q) \/ UpdateTemplate(q) \/ DeleteTemplate(q)
  \/ ListIntegrations(q) \/ CreateIntegration(q) \/ UpdateIntegration(q) \/ DeleteIntegration(q)
  \/ TestIntegration(q)
  \/ ListTargets(q) \/ CreateTarget(q) \/ UpdateTarget(q) \/ DeleteTarget(q)
  \/ ListCompanies(q) \/ GetCompany(q) \/ CreateCompany(q) \/ UpdateCompany(q) \/ DeleteCompany(q)
  \/ SyncCompany(q) \/ GetSmtp(q) \/ UpdateSmtp(q)
  \/ ListEmailTriggers(q) \/ GetEmailTrigger(q) \/ CreateEmailTrigger(q) \/ UpdateEmailTrigger(q)
  \/ DeleteEmailTrigger(q)
  \/ ListRedirects(q) \/ GetRedirect(q) \/ CreateRedirect(q) \/ UpdateRedirect(q) \/ DeleteRedirect(q)
  \/ ListExports(q) \/ GetExport(q) \/ CreateExport(q) \/ UpdateExport(q) \/ DeleteExport(q)
  \/ ListImports(q) \/ GetImport(q) \/ CreateImport(q) \/ UpdateImport(q) \/ DeleteImport(q)
=============================================================================
