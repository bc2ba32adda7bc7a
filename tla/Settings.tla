------------------------------ MODULE Settings ------------------------------
(***************************************************************************)
(* What is configured once and kept in one row: the operator's mail        *)
(* provider (email_settings_handler), the site's texts (site_handler), a    *)
(* workspace's branding and logo (branding_handler), the mail templates    *)
(* (email_templates_handler), a workspace's own telephone key              *)
(* (provider_keys_handler) and the payment providers (checkout_handler).   *)
(*                                                                         *)
(* A row that is upserted by its key has the id <<table, workspace>>. Of a  *)
(* document text is an ordinary field and state the one that is guarded: a *)
(* secret, the policy's text. Branding's link is the pointer to the logo,  *)
(* which nothing in the schema holds; a template's flag is "on" for the    *)
(* default of its type (key).                                              *)
(***************************************************************************)
EXTENDS Automation

\* The document as it is stored; empty when it never was.
Stored(q) ==
  IF Target(q) \in DOMAIN rows THEN rows[Target(q)]
  ELSE [ws |-> serving[q].ws, key |-> None, text |-> None, state |-> None, flag |-> "on", link |-> None]

ReadStored(q, here, next) ==
  /\ At(q, here)
  /\ serving' = [serving EXCEPT ![q].at = next, ![q].read = Stored(q)]
  /\ UNCHANGED tables

\* The whole document, with the one field the body names.
SaveStored(q, here, value, next) ==
  Put(q, here, Target(q), [serving[q].read EXCEPT ![serving[q].col] = value], next)

\* DELETE by the id or the key alone: what matched nothing is no error.
Erase(q, here, gone, next) ==
  /\ At(q, here)
  /\ rows' = Without(gone)
  /\ serving' = [serving EXCEPT ![q].at = next, ![q].wrote = gone # {}]
  /\ UNCHANGED <<links, seat, caps, rented>>

-----------------------------------------------------------------------------
GetEmailConfig(q) == Asks(q, "get_email_config") /\ Show(q, "start", Rows("email_config"))

\* The merge is judged and sealed after the read.
UpdateEmailConfig(q) ==
  /\ Asks(q, "update_email_config")
  /\ \/ ReadStored(q, "start", "seal")
     \/ Refuse(q, "seal")
     \/ Encrypt(q, "seal", "write")
     \/ SaveStored(q, "write", Sent(q), "answer")
     \/ Finish(q, "answer")

GetSite(q) == Asks(q, "get_site") /\ Show(q, "start", Rows("site"))

\* A blank does not replace a policy's text that was there when it was read.
BlankPolicy(q) == serving[q].col = "state" /\ serving[q].val = "blank"
PolicyOrSent(q) == IF BlankPolicy(q) /\ serving[q].read.state # None THEN serving[q].read.state ELSE Sent(q)
UpdateSite(q) ==
  /\ Asks(q, "update_site")
  /\ ReadStored(q, "start", "write") \/ SaveStored(q, "write", PolicyOrSent(q), "answer") \/ Finish(q, "answer")

-----------------------------------------------------------------------------
LogoOf(ws) == <<"tenant_logos", ws>>

\* read_doc: the document, then whether the logo it points to exists.
ReadDoc(q, here, next) ==
  \/ ReadStored(q, here, "pointer")
  \/ /\ At(q, "pointer")
     /\ serving' = [serving EXCEPT ![q].at = next,
                      ![q].read.link = IF @ \in DOMAIN rows THEN @ ELSE None]
     /\ UNCHANGED tables

GetBranding(q) ==
  Asks(q, "get_branding") /\ (ReadDoc(q, "start", "show") \/ Show(q, "show", {serving[q].read.link} \ {None}))
GetLogo(q) == Asks(q, "get_logo") /\ Show(q, "start", {LogoOf(serving[q].ws)} \cap DOMAIN rows)

PutBranding(q) ==
  /\ Asks(q, "put_branding")
  /\ Refuse(q, "start") \/ ReadDoc(q, "start", "write") \/ SaveStored(q, "write", Sent(q), "answer")
                        \/ Finish(q, "answer")

\* The picture first, then the document that points to it.
UploadLogo(q) ==
  /\ Asks(q, "upload_logo")
  /\ \/ Refuse(q, "start")
     \/ Put(q, "start", LogoOf(serving[q].ws), [NewRow(q, "image", "on") EXCEPT !.key = None, !.link = None], "doc")
     \/ ReadDoc(q, "doc", "write")
     \/ SaveStored(q, "write", LogoOf(serving[q].ws), "answer")
     \/ Finish(q, "answer")

DeleteLogo(q) ==
  /\ Asks(q, "delete_logo")
  /\ \/ Erase(q, "start", {LogoOf(serving[q].ws)} \cap DOMAIN rows, "doc")
     \/ ReadDoc(q, "doc", "write")
     \/ SaveStored(q, "write", None, "answer")
     \/ Finish(q, "answer")

-----------------------------------------------------------------------------
ListEmailTemplates(q) == Asks(q, "list_email_templates") /\ Show(q, "start", Rows("email_templates"))

\* A second default of a type is a conflict, and answered as one.
SaveTemplate(q, i, row) ==
  /\ At(q, "start")
  /\ IF Clashes(i, row) THEN rows' = rows /\ Ends(q, "refused") ELSE rows' = With(rows, i, row) /\ Wrote(q, "reread")
  /\ UNCHANGED <<links, seat, caps, rented>>

\* The default (ref) is asked for by the body.
CreateEmailTemplate(q) ==
  /\ Asks(q, "create_email_template")
  /\ \/ Refuse(q, "start")
     \/ SaveTemplate(q, <<"email_templates", q>>, [NewRow(q, "new", serving[q].ref) EXCEPT !.link = None])
     \/ Reread(q, "reread", <<"email_templates", q>>, "done")
UpdateEmailTemplate(q) ==
  /\ Asks(q, "update_email_template")
  /\ \/ Target(q) \in DOMAIN rows /\ SaveTemplate(q, Target(q), Named(q))
     \/ Target(q) \notin DOMAIN rows /\ At(q, "start") /\ Goes(q, "reread") /\ UNCHANGED tables
     \/ Reread(q, "reread", Target(q), "done")
DeleteEmailTemplate(q) ==
  /\ Asks(q, "delete_email_template")
  /\ Erase(q, "start", {Target(q)} \cap DOMAIN rows, "answer") \/ Finish(q, "answer")

-----------------------------------------------------------------------------
KeyOf(ws) == <<"provider_keys", ws>>
ListKeys(q) == Asks(q, "list_keys") /\ Show(q, "start", Own(q, "provider_keys"))

\* The seat, and what its plan grants: a workspace on the floor has no seat.
OwnKeyGranted(p) == p \in DOMAIN caps /\ "byok" \in DOMAIN caps[p].grant /\ caps[p].grant["byok"] # 0
UpsertKey(q) ==
  /\ Asks(q, "upsert_key")
  /\ \/ Refuse(q, "start")
     \/ seat[serving[q].ws] # None /\ Look(q, "start", {seat[serving[q].ws]}, "grant")
     \/ (\A p \in serving[q].saw : ~OwnKeyGranted(p)) /\ Refuse(q, "grant")
     \/ (\E p \in serving[q].saw : OwnKeyGranted(p)) /\ At(q, "grant") /\ Goes(q, "encrypt") /\ UNCHANGED tables
     \/ Encrypt(q, "encrypt", "save")
     \/ Put(q, "save", KeyOf(serving[q].ws), [NewRow(q, "new", "on") EXCEPT !.link = None], "answer")
     \/ Finish(q, "answer")
DeleteKey(q) == Asks(q, "delete_key") /\ Delete(q, "start")

-----------------------------------------------------------------------------
(* The payment providers, one row a type (val).                             *)

OfType(q) == {i \in Rows("payment_providers") : rows[i].key = serving[q].ref}
ListPaymentProviders(q) == Asks(q, "list_payment_providers") /\ Show(q, "start", Rows("payment_providers"))

\* The label and the switch are bound whatever the body says, a secret (state)
\* only when it says it.
ReLabelled(q, i) ==
  [rows[i] EXCEPT !.text = q, !.flag = IF serving[q].col = "flag" THEN serving[q].val ELSE "off",
                  !.state = IF serving[q].col = "state" THEN serving[q].val ELSE @]
NewProvider(q) ==
  [ws |-> Operator, key |-> serving[q].ref, text |-> q, state |-> serving[q].val, flag |-> "off", link |-> None]
UpsertPaymentProvider(q) ==
  /\ Asks(q, "upsert_payment_provider")
  /\ \/ Refuse(q, "start")
     \/ Encrypt(q, "start", "find")
     \/ Refuse(q, "find")
     \/ Look(q, "find", OfType(q), "write")
     \/ \E i \in serving[q].saw : ChangeRow(q, "write", i, ReLabelled(q, i), "answer")
     \/ serving[q].saw = {} /\ serving[q].col # "state" /\ Refuse(q, "write")
     \/ serving[q].saw = {} /\ serving[q].col = "state" /\ Put(q, "write", <<"payment_providers", q>>, NewProvider(q), "answer")
     \/ Finish(q, "answer")
DeletePaymentProvider(q) ==
  /\ Asks(q, "delete_payment_provider")
  /\ \/ OfType(q) = {} /\ Refuse(q, "start")
     \/ OfType(q) # {} /\ Erase(q, "start", OfType(q), "answer")
     \/ Finish(q, "answer")

ServeSetting(q) ==
  \/ GetEmailConfig(q) \/ UpdateEmailConfig(q) \/ GetSite(q) \/ UpdateSite(q)
  \/ GetBranding(q) \/ GetLogo(q) \/ PutBranding(q) \/ UploadLogo(q) \/ DeleteLogo(q)
  \/ ListEmailTemplates(q) \/ CreateEmailTemplate(q) \/ UpdateEmailTemplate(q) \/ DeleteEmailTemplate(q)
  \/ ListKeys(q) \/ UpsertKey(q) \/ DeleteKey(q)
  \/ ListPaymentProviders(q) \/ UpsertPaymentProvider(q) \/ DeletePaymentProvider(q)
=============================================================================
