----------------------------- MODULE Statements -----------------------------
(***************************************************************************)
(* The console's requests and the statements they await. Every route of    *)
(* the authenticated API is one async handler over one Postgres pool: it   *)
(* runs a few statements one after another, no transaction around them,    *)
(* and other requests run between any two. A request is a job with a place *)
(* in its handler (at); a statement is one atomic step on the tables. The  *)
(* handlers are in the modules that extend this one.                       *)
(*                                                                         *)
(* A request whose client hangs up, or that the process's end cuts, stays  *)
(* where it is for ever: no fairness is assumed, so every such cut is a    *)
(* behaviour already.                                                      *)
(***************************************************************************)
EXTENDS Integers, FiniteSets

CONSTANTS
  Requests,    \* requests in flight or answered
  Workspaces,  \* tenants
  Operator,    \* the workspace of the platform's operator
  None,        \* NULL, and the limit that is not declared
  Workloads    \* what may be stored and asked: [rows, links, seat, caps, rented, asked],
               \* where asked holds the jobs the requests may come with

ASSUME OperatorAssumption == Operator \in Workspaces
ASSUME MakersAssumption == Requests \cap Workspaces = {} /\ None \notin Requests \cup Workspaces

VARIABLES
  rows,    \* the tables: id -> row; a row that is gone is not in the domain
  links,   \* the join tables list_leads and contact_field_values: pairs of ids
  seat,    \* tenant_plans: the plan of each workspace, or None
  caps,    \* per plan: what its limits say, in three places
  rented,  \* the numbers the provider bills the operator for
  serving  \* the requests

tables == <<rows, links, seat, caps, rented>>
vars == <<rows, links, seat, caps, rented, serving>>

\* An id is its table and the request that inserted the row, or the workspace
\* whose seeded row it is: Uuid::new_v4() never repeats.
TableOf(i) == i[1]
MakerOf(i) == i[2]
RowIds(ts) == ts \X (Requests \cup Workspaces)
Home(ws) == <<"tenants", ws>>

Columns == {"key", "text", "state", "flag", "link"}

\* Two pointers are no foreign keys: campaigns.metadata to a tag, branding's to its logo.
Unchecked == {"campaigns", "branding"}

\* The tables keyed by the workspace: one row each, which is that workspace's.
Personal == {"tenants", "tenant_logos", "provider_keys", "branding", "email_config", "site"}

-----------------------------------------------------------------------------
(* What may be stored and asked.                                            *)

\* The tables as the schema's references and the seeds leave them: a row's
\* workspace, its link, a membership and a seat are there; a row keyed by a
\* workspace is its own, and the catalogue is the operator's, who has a workspace.
RowStored(rs, i) ==
  /\ i \in RowIds({TableOf(i)})
  /\ DOMAIN rs[i] = Columns \cup {"ws"}
  /\ rs[i].ws = None \/ TableOf(i) = "tenants" \/ Home(rs[i].ws) \in DOMAIN rs
  /\ rs[i].link = None \/ TableOf(i) \in Unchecked \/ rs[i].link \in DOMAIN rs
  /\ TableOf(i) \in Personal => rs[i].ws = MakerOf(i)
  /\ TableOf(i) = "plans" => rs[i].ws = Operator
WellStored(rs, ls, st, cp) ==
  /\ Home(Operator) \in DOMAIN rs
  /\ \A i \in DOMAIN rs : RowStored(rs, i)
  /\ \A l \in ls : /\ {l[1], l[2]} \subseteq DOMAIN rs
                   /\ {TableOf(l[1]), TableOf(l[2])} \subseteq {"lists", "leads", "contacts", "contact_custom_fields"}
  /\ \A ws \in DOMAIN st : st[ws] # None => {st[ws], Home(ws)} \subseteq DOMAIN rs /\ TableOf(st[ws]) = "plans"
  /\ DOMAIN cp = {i \in DOMAIN rs : TableOf(i) = "plans"}

\* The ids of the stored rows are none that a request will draw.
Seeded(rs) ==
  \A i \in DOMAIN rs : MakerOf(i) \in Workspaces /\ (TableOf(i) = "campaigns" => rs[i].ws = MakerOf(i))

\* A number has one row, which is a workspace's (the columns are UNIQUE and NOT
\* NULL). When the requests begin, the numbers that are billed and the ones that
\* are held through the platform agree.
NumbersStored(rs, billed) ==
  LET numbers == {i \in DOMAIN rs : TableOf(i) = "phone_numbers"} IN
  /\ \A i, j \in numbers : rs[i].key = rs[j].key => i = j
  /\ \A i \in numbers :
       /\ rs[i].ws \in Workspaces /\ rs[i].flag \in {"on", "off"}
       /\ rs[i].flag = "on" => rs[i].key \in billed \/ <<"provider_keys", rs[i].ws>> \in DOMAIN rs
  /\ \A n \in billed : \E i \in numbers : rs[i].key = n /\ rs[i].flag = "on"

\* What a route's path and its body's type allow: the table its :id is looked
\* for in, where it matters which, and whose session, or whose key, may ask it.
OnPlans == {"get_plan", "update_plan", "delete_plan", "merge_features", "set_entitlement", "assign_plan",
            "checkout_request"}
OnTenants == {"sync_company", "delete_tenant"}
OnCompanies == {"portfolio_sync", "sync_create", "sync_update", "sync_delete"}
OfCompanies == {"get_company", "update_company", "delete_company", "get_smtp", "update_smtp"}
OnDocuments == {"update_email_config", "update_site", "put_branding", "upload_logo", "delete_logo"}
OfOperator ==
  OnCompanies \cup
  {"create_plan", "update_plan", "delete_plan", "merge_features", "set_entitlement", "grant_top_tier", "assign_plan",
   "update_provisioning", "provision_account", "delete_tenant", "bulk_delete_tenants", "put_account",
   "create_email_template", "update_email_template", "delete_email_template", "update_email_config", "update_site",
   "upsert_payment_provider", "delete_payment_provider"}
OfVisitors == {"create_public_ticket", "public_answer"}
OnContacts == {"get_contact", "update_contact", "delete_contact", "get_contact_with_fields", "update_contact_field_value"}
OnLists == {"show_members", "add_lead", "remove_lead", "update_list", "delete_list"}
OnTickets == {"get_ticket", "public_answer", "update_ticket", "add_ticket_message", "delete_ticket"}

JobFits(job) ==
  /\ job.col \in Columns
  /\ IF job.kind \in OfVisitors THEN job.ws = None ELSE job.ws \in Workspaces
  /\ job.kind \in OfOperator => job.ws = Operator
  /\ job.id \in RowIds({"plans"}) => job.kind \in OnPlans
  /\ job.id \in RowIds({"tenants"}) => job.kind \in OnTenants
  /\ job.kind \in {"assign_plan", "delete_plan", "checkout_request"} => job.id \in RowIds({"plans"})
  /\ job.kind = "delete_tenant" => job.id \in RowIds({"tenants"})
  /\ job.id \in RowIds({"phone_numbers"}) <=> job.kind = "delete_number"
  /\ job.id \in RowIds({"users"}) => job.kind = "remove_member"
  /\ job.id \in RowIds({"provider_keys"}) => job.kind = "delete_key"
  /\ job.id \in RowIds({"portfolio_companies"}) => job.kind \in OnCompanies \cup OfCompanies
  /\ job.kind \in OnCompanies => job.id \in RowIds({"portfolio_companies"}) /\ MakerOf(job.id) \in Workspaces
  /\ job.kind \in OnDocuments => job.id \in RowIds({"email_config", "site", "branding"}) /\ MakerOf(job.id) = job.ws
  /\ job.kind = "sync_company" => job.id = Home(job.ws)
  /\ job.kind \in {"delete_email_template", "update_email_template"} => job.id \in RowIds({"email_templates"})
  /\ job.id \in RowIds({"contacts"}) => job.kind \in OnContacts
  /\ job.id \in RowIds({"lists"}) => job.kind \in OnLists
  /\ job.id \in RowIds({"tickets"}) => job.kind \in OnTickets
  /\ job.kind = "delete_ticket" => job.id \in RowIds({"tickets"})
  /\ job.kind = "update_contact_field_value" =>
       job.id \in RowIds({"contacts"}) /\ job.ref \in RowIds({"contact_custom_fields"})
  /\ job.kind = "add_lead" => job.id \in RowIds({"lists"}) /\ job.ref \in RowIds({"leads"})
  /\ job.kind = "bulk_delete_tenants" => job.ref \subseteq RowIds({"tenants"})
  /\ job.kind \in {"sync_create", "sync_update"} => job.val \in Requests \cup Workspaces \cup {None}
  /\ job.kind = "sync_create" => job.val # None
  /\ job.kind \in {"update_email_template", "update_list"} => job.col # "link"

ASSUME WorkloadsAssumption ==
  \A load \in Workloads :
    /\ WellStored(load.rows, load.links, load.seat, load.caps)
    /\ Seeded(load.rows)
    /\ NumbersStored(load.rows, load.rented)
    /\ \A asked \in load.asked, q \in Requests : JobFits(asked[q])

-----------------------------------------------------------------------------
(* The request.                                                             *)

\* What a request has not done yet: its job as the client sent it.
Received(job) ==
  [kind |-> job.kind, ws |-> job.ws, id |-> job.id, col |-> job.col, val |-> job.val, ref |-> job.ref,
   at |-> "start", answer |-> "none", read |-> None, saw |-> {}, limit |-> None,
   counted |-> {}, wrote |-> FALSE]

Init ==
  \E load \in Workloads :
    /\ rows = load.rows /\ links = load.links /\ seat = load.seat
    /\ caps = load.caps /\ rented = load.rented
    /\ \E asked \in load.asked : serving = [q \in Requests |-> Received(asked[q])]

Asks(q, kind) == serving[q].kind = kind
At(q, here) == serving[q].at = here
Target(q) == serving[q].id

With(f, x, v) == [y \in DOMAIN f \cup {x} |-> IF y = x THEN v ELSE f[y]]

Rows(t) == {i \in DOMAIN rows : TableOf(i) = t}
Own(q, t) == {i \in Rows(t) : rows[i].ws = serving[q].ws}
\* WHERE id = $1 AND tenant_id = $2
Mine(q) == Target(q) \in DOMAIN rows /\ rows[Target(q)].ws = serving[q].ws

\* What the body carries for the column it names: a free text is told apart
\* by the request that sent it.
Sent(q) == IF serving[q].col = "text" /\ serving[q].val = None THEN q ELSE serving[q].val

Goes(q, next) == serving' = [serving EXCEPT ![q].at = next]
Ends(q, answer) == serving' = [serving EXCEPT ![q].at = "done", ![q].answer = answer]
\* The answer leaves while a spawned task, or nothing, goes on.
Answers(q, next) == serving' = [serving EXCEPT ![q].at = next, ![q].answer = "ok"]
Wrote(q, next) == serving' = [serving EXCEPT ![q].at = next, ![q].wrote = TRUE]

\* A handler's `return Ok(...)`, and its validation errors (4xx).
Finish(q, here) == At(q, here) /\ Ends(q, "ok") /\ UNCHANGED tables
Refuse(q, here) == At(q, here) /\ Ends(q, "refused") /\ UNCHANGED tables

-----------------------------------------------------------------------------
(* SELECT.                                                                  *)

\* A list route: the rows it answers with.
Show(q, here, found) ==
  /\ At(q, here)
  /\ serving' = [serving EXCEPT ![q].at = "done", ![q].answer = "ok", ![q].saw = found]
  /\ UNCHANGED tables

\* A check that goes on from the rows it found.
Look(q, here, found, next) ==
  /\ At(q, here)
  /\ serving' = [serving EXCEPT ![q].at = next, ![q].saw = found]
  /\ UNCHANGED tables

\* fetch_optional of the caller's row, or 404.
Lookup(q, here, next) ==
  /\ At(q, here)
  /\ Mine(q)
  /\ serving' = [serving EXCEPT ![q].at = next, ![q].read = rows[Target(q)]]
  /\ UNCHANGED tables

Missing(q, here) ==
  /\ At(q, here)
  /\ ~Mine(q)
  /\ Ends(q, "refused")
  /\ UNCHANGED tables

Fetch(q, here, next) == Lookup(q, here, next) \/ Missing(q, here)

GetRow(q) == (At(q, "start") /\ Mine(q) /\ Show(q, "start", {Target(q)})) \/ Missing(q, "start")

\* fetch_one of a row just written: a 500 when another request deleted it.
Reread(q, here, i, next) ==
  /\ At(q, here)
  /\ IF i \in DOMAIN rows THEN Answers(q, next) ELSE Ends(q, "failed")
  /\ UNCHANGED tables

-----------------------------------------------------------------------------
(* INSERT, UPDATE and DELETE under the schema's constraints.                *)

\* ON DELETE CASCADE; the other references are SET NULL.
Cascading == {"integration_targets", "follow_ups", "triggers", "redirects", "ticket_messages"}
UniqueKey == {"users", "phone_numbers", "plans", "tenants", "payment_providers"}
UniqueInWorkspace == {"contact_custom_fields"}
UniqueDefault == {"email_templates"}

Clashes(i, row) ==
  \E j \in Rows(TableOf(i)) \ {i} :
    /\ rows[j].key = row.key
    /\ \/ TableOf(i) \in UniqueKey
       \/ TableOf(i) \in UniqueInWorkspace /\ rows[j].ws = row.ws
       \/ TableOf(i) \in UniqueDefault /\ rows[j].flag = "on" /\ row.flag = "on"

\* A row of a workspace refers to it; a visitor's ticket has none.
Housed(i, row) == row.ws = None \/ TableOf(i) = "tenants" \/ Home(row.ws) \in DOMAIN rows

Fits(i, row) ==
  /\ ~Clashes(i, row)
  /\ Housed(i, row)
  /\ row.link = None \/ TableOf(i) \in Unchecked \/ row.link \in DOMAIN rows

\* One row written, or the constraint's error answered as a 500.
Put(q, here, i, row, next) ==
  /\ At(q, here)
  /\ \/ Fits(i, row) /\ rows' = With(rows, i, row) /\ Wrote(q, next)
     \/ ~Fits(i, row) /\ rows' = rows /\ Ends(q, "failed")
  /\ UNCHANGED <<links, seat, caps, rented>>

NewRow(q, state, flag) ==
  [ws |-> serving[q].ws, key |-> serving[q].val, text |-> q, state |-> state, flag |-> flag,
   link |-> serving[q].ref]

Insert(q, here, t, state, flag, next) == Put(q, here, <<t, q>>, NewRow(q, state, flag), next)

\* UPDATE ... WHERE id = $n: a row that is gone is no error.
ChangeRow(q, here, i, row, next) ==
  \/ i \in DOMAIN rows /\ Put(q, here, i, row, next)
  \/ /\ At(q, here)
     /\ i \notin DOMAIN rows
     /\ Goes(q, next)
     /\ UNCHANGED tables
Change(q, here, row, next) == ChangeRow(q, here, Target(q), row, next)

\* The merging edit binds every column of the statement: the one the body names
\* from the body, the others from the row read before.
Merged(q) == [[c \in DOMAIN rows[Target(q)] |->
                 IF c \in Columns THEN serving[q].read[c] ELSE rows[Target(q)][c]]
                EXCEPT ![serving[q].col] = Sent(q)]

\* Mutant: a handler that reads the row first binds the other columns from it.
NamedFromRead(q) ==
  IF serving[q].read = None THEN [rows[Target(q)] EXCEPT ![serving[q].col] = Sent(q)] ELSE Merged(q)

\* COALESCE($n, column): only what the body names, from one statement.
Named(q) == [rows[Target(q)] EXCEPT ![serving[q].col] = Sent(q)]

\* DELETE with its references: cascading children go too, the others lose the link.
Fallen(i) == {i} \cup {j \in DOMAIN rows : rows[j].link = i /\ TableOf(j) \in Cascading}
\* Mutant: the references without an ON DELETE clause that fits.
WithoutSetNull(gone) == [j \in DOMAIN rows \ gone |-> rows[j]]

Without(gone) ==
  [j \in DOMAIN rows \ gone |->
     IF rows[j].link \in gone /\ TableOf(j) \notin Unchecked THEN [rows[j] EXCEPT !.link = None] ELSE rows[j]]

Remove(q, here) ==
  /\ At(q, here)
  /\ Mine(q)
  /\ rows' = Without(Fallen(Target(q)))
  /\ links' = {l \in links : l[1] \notin Fallen(Target(q)) /\ l[2] \notin Fallen(Target(q))}
  /\ serving' = [serving EXCEPT ![q].at = "done", ![q].answer = "ok", ![q].wrote = TRUE]
  /\ UNCHANGED <<seat, caps, rented>>

\* DELETE ... WHERE id = $1 AND tenant_id = $2, 404 when it matched nothing.
Delete(q, here) == Remove(q, here) \/ Missing(q, here)

\* INSERT INTO a join table ... ON CONFLICT DO NOTHING; the keys are references.
Link(q, here, pair, next) ==
  /\ At(q, here)
  /\ \/ pair[1] \in DOMAIN rows /\ pair[2] \in DOMAIN rows /\ links' = links \cup {pair} /\ Wrote(q, next)
     \/ ~(pair[1] \in DOMAIN rows /\ pair[2] \in DOMAIN rows) /\ links' = links /\ Ends(q, "failed")
  /\ UNCHANGED <<rows, seat, caps, rented>>

-----------------------------------------------------------------------------
(* The two usual handlers: insert and read back; read, write, read back.     *)

Creation(q, here, t, state, flag) ==
  Insert(q, here, t, state, flag, "reread") \/ Reread(q, "reread", <<t, q>>, "done")

MergingEdit(q) ==
  \/ Fetch(q, "start", "write")
  \/ Change(q, "write", Merged(q), "reread")
  \/ Reread(q, "reread", Target(q), "done")

NamedEdit(q) ==
  \/ Fetch(q, "start", "write")
  \/ Change(q, "write", Named(q), "reread")
  \/ Reread(q, "reread", Target(q), "done")
=============================================================================
