------------------------------ MODULE Records -------------------------------
(***************************************************************************)
(* The workspace's own records: calls, contacts and their custom fields,   *)
(* clients, deals, calendar events and follow-ups (the handlers of these   *)
(* names in src/src/handlers).                                             *)
(*                                                                         *)
(* Columns: key is what must not repeat (a contact's e-mail, a field's     *)
(* name), text any free text, state a status (a call's disposition, a      *)
(* deal's stage), flag a deal's is_won, link the row referred to.          *)
(***************************************************************************)
EXTENDS PlanGate

ListCalls(q) == Asks(q, "list_calls") /\ Show(q, "start", Own(q, "calls"))
GetCall(q) == Asks(q, "get_call") /\ GetRow(q)
CreateCall(q) == Asks(q, "create_call") /\ GatedCreation(q, "calls", "missed", "on")
UpdateCall(q) == Asks(q, "update_call") /\ MergingEdit(q)
DeleteCall(q) == Asks(q, "delete_call") /\ Delete(q, "start")

\* A follow-up for the missed call read before, past the gate of create_follow_up.
RespondToCall(q) ==
  /\ Asks(q, "respond_to_call")
  /\ \/ Fetch(q, "start", "respond")
     \/ At(q, "respond") /\ serving[q].read.state # "missed" /\ Finish(q, "respond")
     \/ /\ At(q, "respond")
        /\ serving[q].read.state = "missed"
        /\ Put(q, "respond", <<"follow_ups", q>>,
               [NewRow(q, "pending", "on") EXCEPT !.link = Target(q)], "answer")
     \/ Finish(q, "answer")

\* What a webhook whose call may be recorded inserts, and in the task it spawns
\* the follow-up that an active rule may ask for; no gate stands before either.
RulesOn(q) == {i \in Own(q, "response_rules") : rows[i].flag = "on"}
RecordCall(q) ==
  /\ Asks(q, "record_call")
  /\ \/ Insert(q, "start", "calls", "missed", "on", "rules")
     \/ Look(q, "rules", RulesOn(q), "rule")
     \/ Finish(q, "rule")
     \/ /\ serving[q].saw # {}
        /\ Put(q, "rule", <<"follow_ups", q>>, [NewRow(q, "pending", "on") EXCEPT !.link = <<"calls", q>>], "answer")
     \/ Finish(q, "answer")

-----------------------------------------------------------------------------
ListContacts(q) == Asks(q, "list_contacts") /\ Show(q, "start", Own(q, "contacts"))
ExportContacts(q) == Asks(q, "export_contacts") /\ Show(q, "start", Own(q, "contacts"))
SearchContacts(q) ==
  Asks(q, "search_contacts") /\ \E found \in SUBSET Own(q, "contacts") : Show(q, "start", found)
GetContact(q) == Asks(q, "get_contact") /\ GetRow(q)

\* SELECT EXISTS on the e-mail, then the INSERT: no constraint stands behind it.
SameEmail(q) == {i \in Own(q, "contacts") : rows[i].key = serving[q].val}
CheckEmail(q) ==
  \/ (serving[q].val = None \/ SameEmail(q) = {}) /\ Look(q, "email", Own(q, "contacts"), "insert")
  \/ serving[q].val # None /\ SameEmail(q) # {} /\ Refuse(q, "email")

CreateContact(q) ==
  /\ Asks(q, "create_contact")
  /\ \/ Refuse(q, "start")
     \/ Gate(q, "start", "contacts", "email")
     \/ CheckEmail(q)
     \/ Creation(q, "insert", "contacts", "new", "on")

\* The e-mail of an edit is compared with nobody's.
UpdateContact(q) == Asks(q, "update_contact") /\ (Refuse(q, "start") \/ MergingEdit(q))
DeleteContact(q) == Asks(q, "delete_contact") /\ Delete(q, "start")

ListCustomFields(q) ==
  Asks(q, "list_custom_fields") /\ Show(q, "start", Own(q, "contact_custom_fields"))

SameField(q) == {i \in Own(q, "contact_custom_fields") : rows[i].key = serving[q].val}
CreateCustomField(q) ==
  /\ Asks(q, "create_custom_field")
  /\ \/ Refuse(q, "start")
     \/ SameField(q) # {} /\ Refuse(q, "start")
     \/ SameField(q) = {} /\ Look(q, "start", Own(q, "contact_custom_fields"), "insert")
     \/ Creation(q, "insert", "contact_custom_fields", "new", "on")

UpdateCustomField(q) == Asks(q, "update_custom_field") /\ MergingEdit(q)
DeleteCustomField(q) == Asks(q, "delete_custom_field") /\ Delete(q, "start")

\* The contact, then the workspace's definitions with that contact's values.
GetContactWithFields(q) ==
  /\ Asks(q, "get_contact_with_fields")
  /\ Fetch(q, "start", "fields") \/ Show(q, "fields", Own(q, "contact_custom_fields"))

ListContactsWithFields(q) ==
  /\ Asks(q, "list_contacts_with_fields")
  /\ \/ Look(q, "start", Own(q, "contacts"), "fields")
     \/ Show(q, "fields", serving[q].saw \cup
               IF serving[q].saw = {} THEN {} ELSE Own(q, "contact_custom_fields"))

\* The upsert of one value (ref is the field), then its fetch_one.
FieldValue(q) == <<Target(q), serving[q].ref>>
UpdateContactFieldValue(q) ==
  /\ Asks(q, "update_contact_field_value")
  /\ \/ Fetch(q, "start", "write")
     \/ Link(q, "write", FieldValue(q), "reread")
     \/ /\ At(q, "reread")
        /\ IF FieldValue(q) \in links THEN Ends(q, "ok") ELSE Ends(q, "failed")
        /\ UNCHANGED tables

-----------------------------------------------------------------------------
ListClients(q) == Asks(q, "list_clients") /\ Show(q, "start", Own(q, "clients"))
GetClient(q) == Asks(q, "get_client") /\ GetRow(q)
CreateClient(q) ==
  Asks(q, "create_client") /\ (Refuse(q, "start") \/ Creation(q, "start", "clients", "new", "on"))
UpdateClient(q) == Asks(q, "update_client") /\ (Refuse(q, "start") \/ Refuse(q, "write") \/ MergingEdit(q))
DeleteClient(q) == Asks(q, "delete_client") /\ Delete(q, "start")

ListDeals(q) == Asks(q, "list_deals") /\ \E found \in SUBSET Own(q, "deals") : Show(q, "start", found)
GetDeal(q) == Asks(q, "get_deal") /\ GetRow(q)
CreateDeal(q) == Asks(q, "create_deal") /\ (Refuse(q, "start") \/ GatedCreation(q, "deals", "new", "off"))
UpdateDeal(q) == Asks(q, "update_deal") /\ (Refuse(q, "start") \/ MergingEdit(q))
DeleteDeal(q) == Asks(q, "delete_deal") /\ Delete(q, "start")

\* The stage, and in a second statement is_won, unless the row read was won.
NewlyWon(q) == serving[q].val = "won" /\ serving[q].read.flag = "off"
MoveStage(q) ==
  /\ Asks(q, "move_stage")
  /\ \/ Refuse(q, "start")
     \/ Fetch(q, "start", "stage")
     \/ Change(q, "stage", Named(q), IF NewlyWon(q) THEN "won" ELSE "answer")
     \/ Change(q, "won", [rows[Target(q)] EXCEPT !.flag = "on"], "answer")
     \/ Finish(q, "answer")

-----------------------------------------------------------------------------
ListEvents(q) == Asks(q, "list_events") /\ \E found \in SUBSET Own(q, "calendar_events") : Show(q, "start", found)
GetEvent(q) == Asks(q, "get_event") /\ GetRow(q)
CreateEvent(q) ==
  /\ Asks(q, "create_event")
  /\ \/ Refuse(q, "start")
     \/ CheckFlag(q, "start", "calendar", "insert")
     \/ Creation(q, "insert", "calendar_events", "new", "on")
UpdateEvent(q) == Asks(q, "update_event") /\ (Refuse(q, "start") \/ MergingEdit(q))
DeleteEvent(q) == Asks(q, "delete_event") /\ Delete(q, "start")

ListFollowUps(q) == Asks(q, "list_follow_ups") /\ Show(q, "start", Own(q, "follow_ups"))
CreateFollowUp(q) == Asks(q, "create_follow_up") /\ GatedCreation(q, "follow_ups", "pending", "on")
UpdateFollowUp(q) == Asks(q, "update_follow_up") /\ MergingEdit(q)
DeleteFollowUp(q) == Asks(q, "delete_follow_up") /\ Delete(q, "start")

-----------------------------------------------------------------------------
ServeRecord(q) ==
  \/ ListCalls(q) \/ GetCall(q) \/ CreateCall(q) \/ UpdateCall(q) \/ DeleteCall(q) \/ RespondToCall(q) \/ RecordCall(q)
  \/ ListContacts(q) \/ ExportContacts(q) \/ SearchContacts(q) \/ GetContact(q)
  \/ CreateContact(q) \/ UpdateContact(q) \/ DeleteContact(q)
  \/ ListCustomFields(q) \/ CreateCustomField(q) \/ UpdateCustomField(q) \/ DeleteCustomField(q)
  \/ GetContactWithFields(q) \/ ListContactsWithFields(q) \/ UpdateContactFieldValue(q)
  \/ ListClients(q) \/ GetClient(q) \/ CreateClient(q) \/ UpdateClient(q) \/ DeleteClient(q)
  \/ ListDeals(q) \/ GetDeal(q) \/ CreateDeal(q) \/ UpdateDeal(q) \/ DeleteDeal(q) \/ MoveStage(q)
  \/ ListEvents(q) \/ GetEvent(q) \/ CreateEvent(q) \/ UpdateEvent(q) \/ DeleteEvent(q)
  \/ ListFollowUps(q) \/ CreateFollowUp(q) \/ UpdateFollowUp(q) \/ DeleteFollowUp(q)
=============================================================================
