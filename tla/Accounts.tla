------------------------------ MODULE Accounts ------------------------------
(***************************************************************************)
(* The doors through which the fleet's other applications make workspaces: *)
(* the free account of a tagged lead (provision_handler) and the operator's *)
(* own companies (admin_handler and portfolio_sync_handler). Behind each is *)
(* the platform's key, so its jobs are the operator's.                     *)
(*                                                                         *)
(* A workspace that request q makes is named q. Of its tenants row key is  *)
(* the slug, of its owner's row the address (val), of a company's row text  *)
(* what describes it.                                                      *)
(***************************************************************************)
EXTENDS Plans

Known(q) == \E i \in Rows("users") : rows[i].key = serving[q].val
Workspace(ws, slug) == [ws |-> ws, key |-> slug, text |-> None, state |-> "new", flag |-> "on", link |-> None]
Owner(q) == [Workspace(q, serving[q].val) EXCEPT !.text = q]

\* What the slug seats a new workspace on: nothing, once the plan is retired.
EntrySeat(slug) == IF \E p \in PlanNamed(slug) : Active(p) THEN CHOOSE p \in PlanNamed(slug) : Active(p) ELSE None

\* create_account: the address, then one transaction for the workspace, its
\* owner and its seat; the index on the address decides a race, as a conflict.
CreateAccount(q, here, slug, taken, next) ==
  \/ At(q, here) /\ Goes(q, IF Known(q) THEN taken ELSE "mint") /\ UNCHANGED tables
  \/ /\ At(q, "mint")
     /\ \/ Known(q) /\ rows' = rows /\ seat' = seat /\ Goes(q, taken)
        \/ /\ ~Known(q)
           /\ rows' = With(With(rows, <<"tenants", q>>, Workspace(q, q)), <<"users", q>>, Owner(q))
           /\ seat' = With(seat, q, EntrySeat(slug))
           /\ Wrote(q, next)
     /\ UNCHANGED <<links, caps, rented>>

\* resolve_entry_plan: the slug the settings name, if it still costs nothing.
EntryPlans(q) == PlanNamed(serving[q].read.key) \cap FreePlans

\* The switch, the address, the entry plan's slug, the plan, the address again,
\* then the mint. A known address is answered as such.
ProvisionFreeAccount(q) ==
  /\ Asks(q, "provision_account")
  /\ \/ Refuse(q, "start")
     \/ rows[Target(q)].flag = "off" /\ Refuse(q, "start")
     \/ rows[Target(q)].flag = "on" /\ At(q, "start") /\ Goes(q, "slug") /\ UNCHANGED tables
     \/ Refuse(q, "slug")
     \/ Lookup(q, "slug", "plan")
     \/ At(q, "plan") /\ EntryPlans(q) = {} /\ Refuse(q, "plan")
     \/ At(q, "plan") /\ EntryPlans(q) # {} /\ Goes(q, "existing") /\ UNCHANGED tables
     \/ At(q, "existing") /\ Goes(q, IF Known(q) THEN "answer" ELSE "taken") /\ UNCHANGED tables
     \/ CreateAccount(q, "taken", serving[q].read.key, "answer", "answer")
     \/ Finish(q, "answer")

-----------------------------------------------------------------------------
(* A company of the operator's (id), pushed by the hub.                     *)

Described(q, i) == [rows[i] EXCEPT !.text = q]
NewCompany(q, ws) ==
  [ws |-> ws, key |-> None, text |-> q, state |-> "unset", flag |-> "on", link |-> None]

\* INSERT ... ON CONFLICT (id): a company that is there keeps its workspace.
UpsertCompany(q, ws) ==
  IF Target(q) \in DOMAIN rows THEN Described(q, Target(q)) ELSE NewCompany(q, ws)

\* A known company is described anew and nothing is minted. For another one the
\* workspace, the owner and the company are written one by one; the address is
\* looked at before the first and again before the second.
PortfolioSync(q) ==
  /\ Asks(q, "portfolio_sync")
  /\ \/ Refuse(q, "start")
     \/ At(q, "start") /\ Goes(q, IF Target(q) \in DOMAIN rows THEN "refresh" ELSE "email") /\ UNCHANGED tables
     \/ \E i \in {Target(q)} : ChangeRow(q, "refresh", i, Described(q, i), "answer")
     \/ Known(q) /\ Refuse(q, "email")
     \/ ~Known(q) /\ At(q, "email") /\ Goes(q, "tenant") /\ UNCHANGED tables
     \/ Put(q, "tenant", <<"tenants", q>>, Workspace(q, q), "again")
     \/ Known(q) /\ Refuse(q, "again")
     \/ ~Known(q) /\ At(q, "again") /\ Goes(q, "user") /\ UNCHANGED tables
     \/ Put(q, "user", <<"users", q>>, Owner(q), "company")
     \/ Put(q, "company", Target(q), UpsertCompany(q, q), "top")
     \/ SeatTop(q, "top", q, "answer")
     \/ Finish(q, "answer")

\* One transaction: the workspace val with the slug ref, unless it is there,
\* and the company. A slug that is another's is a conflict.
Mirror(q, here, next) ==
  LET tenant == <<"tenants", serving[q].val>>
      parents == IF tenant \in DOMAIN rows THEN rows
                 ELSE With(rows, tenant, Workspace(serving[q].val, serving[q].ref))
  IN /\ At(q, here)
     /\ \/ tenant \notin DOMAIN rows /\ Clashes(tenant, Workspace(serving[q].val, serving[q].ref))
           /\ rows' = rows /\ Ends(q, "refused")
        \/ /\ tenant \in DOMAIN rows \/ ~Clashes(tenant, Workspace(serving[q].val, serving[q].ref))
           /\ rows' = With(parents, Target(q), UpsertCompany(q, serving[q].val))
           /\ Wrote(q, next)
     /\ UNCHANGED <<links, seat, caps, rented>>

SyncCreate(q) ==
  /\ Asks(q, "sync_create")
  /\ \/ Refuse(q, "start")
     \/ Mirror(q, "start", "top")
     \/ SeatTop(q, "top", serving[q].val, "answer")
     \/ Finish(q, "answer")

\* An update of a company that is not here is the create it missed.
SyncUpdate(q) ==
  /\ Asks(q, "sync_update")
  /\ \/ Refuse(q, "start")
     \/ /\ Target(q) \in DOMAIN rows
        /\ Put(q, "start", Target(q), Described(q, Target(q)), "answer")
     \/ Target(q) \notin DOMAIN rows /\ At(q, "start") /\ Goes(q, "mirror") /\ UNCHANGED tables
     \/ serving[q].val = None /\ Refuse(q, "mirror")
     \/ serving[q].val # None /\ Mirror(q, "mirror", "top")
     \/ SeatTop(q, "top", serving[q].val, "answer")
     \/ Finish(q, "answer")

SyncDelete(q) ==
  /\ Asks(q, "sync_delete")
  /\ \/ Refuse(q, "start")
     \/ /\ At(q, "start")
        /\ rows' = Without(Fallen(Target(q)))
        /\ Wrote(q, "answer")
        /\ UNCHANGED <<links, seat, caps, rented>>
     \/ Finish(q, "answer")

-----------------------------------------------------------------------------
(* The operator deletes workspaces.                                         *)

\* Every reference to a workspace cascades, and what refers to its rows follows.
Retired(ws) ==
  LET own == {i \in DOMAIN rows : rows[i].ws = ws}
  IN own \cup {i \in DOMAIN rows : rows[i].link \in own /\ TableOf(i) \in Cascading}

\* DELETE FROM tenants, and nothing else: the provider is not told.
DeleteWorkspace(q, home, next) ==
  LET gone == Retired(MakerOf(home))
  IN /\ home \in DOMAIN rows
     /\ rows' = Without(gone)
     /\ links' = {l \in links : l[1] \notin gone /\ l[2] \notin gone}
     /\ seat' = [ws \in DOMAIN seat |-> IF Home(ws) = home THEN None ELSE seat[ws]]
     /\ Wrote(q, next)
     /\ UNCHANGED <<caps, rented>>

\* guard_protected lets no one delete the workspace they are signed in to.
DeleteTenant(q) ==
  /\ Asks(q, "delete_tenant")
  /\ \/ Refuse(q, "start")
     \/ Target(q) # Home(serving[q].ws) /\ At(q, "start") /\ Goes(q, "delete") /\ UNCHANGED tables
     \/ At(q, "delete") /\ DeleteWorkspace(q, Target(q), "answer")
     \/ Target(q) \notin DOMAIN rows /\ Refuse(q, "delete")
     \/ Finish(q, "answer")

\* One workspace of the list (ref) after the other; what is refused or missing
\* is reported and does not stop the rest.
BulkDeleteTenants(q) ==
  /\ Asks(q, "bulk_delete_tenants")
  /\ \/ \E home \in serving[q].ref \ serving[q].saw :
          \/ Look(q, "start", serving[q].saw \cup {home}, "start")
          \/ /\ home # Home(serving[q].ws)
             /\ At(q, "start")
             /\ serving' = [serving EXCEPT ![q].at = "delete", ![q].read = home, ![q].saw = @ \cup {home}]
             /\ UNCHANGED tables
     \/ At(q, "delete") /\ DeleteWorkspace(q, serving[q].read, "start")
     \/ serving[q].read \notin DOMAIN rows /\ At(q, "delete") /\ Goes(q, "start") /\ UNCHANGED tables
     \/ serving[q].ref = serving[q].saw /\ Finish(q, "start")

ServeAccount(q) ==
  DeleteTenant(q) \/ BulkDeleteTenants(q) \/ ProvisionFreeAccount(q) \/ PortfolioSync(q) \/ SyncCreate(q) \/ SyncUpdate(q) \/ SyncDelete(q)
=============================================================================
