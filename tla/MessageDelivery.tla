--------------------------- MODULE MessageDelivery ---------------------------
(***************************************************************************)
(* A text message of one workspace, from the request to the row's last     *)
(* status: create_message (the console's Send Message form, which also     *)
(* records inbound texts) and send_rule_sms (a response rule's automatic   *)
(* reply), both in src/src/handlers/message_handler.rs; and                *)
(* handle_message_event (src/src/handlers/telnyx_handler.rs), which applies*)
(* the delivery events Telnyx sends about it.                              *)
(*                                                                         *)
(* The row is written AFTER the provider has answered, and the events are  *)
(* matched to it by the provider's id, so the carrier, the sender and the  *)
(* event receiver race: one action per statement or remote call. Events    *)
(* may overtake each other, and one is repeated until it is answered 2xx   *)
(* and sometimes after.                                                    *)
(***************************************************************************)
EXTENDS Integers, FiniteSets

CONSTANTS
  Texts,     \* outbound sends of the console
  Records,   \* inbound texts the console records: nothing is transmitted
  Replies,   \* automatic replies of response rules
  Limit,     \* the plan's max_messages; negative for unlimited
  NoRow      \* a message without a row in messages

Messages == Texts \cup Records \cup Replies
Gated    == Texts \cup Records     \* create_message: counted before it is sent
Outbound == Texts \cup Replies

Null == "null"                     \* a timestamp column that is NULL

\* A timestamp is represented by the write that set it: the INSERT, or an event.
Stamps == {Null, "insert", "sent", "delivered"}

Row == [status : {"logged", "queued", "sent", "failed", "delivered"},
        sentAt : Stamps, deliveredAt : Stamps, id : BOOLEAN]

ASSUME LimitAssumption == Limit \in Int
ASSUME FiniteAssumption == IsFiniteSet(Messages)
ASSUME KindAssumption ==
  /\ Texts \cap Records = {} /\ Texts \cap Replies = {} /\ Records \cap Replies = {}
ASSUME NoRowAssumption == NoRow \notin Row

VARIABLES
  held,        \* the workspace still holds the number it sends from
  configured,  \* telnyx_config has an API key and a messaging profile
  sender,      \* where the request or task that sends each message is
  answer,      \* what it made of the provider's answer: the row to insert
  carrier,     \* what Telnyx and the carrier have done with each text
  rows,        \* the table messages
  reports,     \* the delivery events Telnyx has to report
  acked,       \* those answered 2xx at least once
  \* history, for the properties only
  cut,         \* messages whose request or task died on the way
  overlapped,  \* a send was let through the limit while another was under way
  missed       \* events answered 2xx when no row matched them

vars == <<held, configured, sender, answer, carrier, rows, reports, acked, cut,
          overlapped, missed>>

Steps == {"start", "limit", "config", "send", "asked", "insert", "done"}
Carrier == {"none", "asked", "refused", "accepted", "handed", "delivered", "undelivered"}
Report == [msg : Messages, word : {"sent", "delivered", "failed", "other"}, errors : BOOLEAN]

TypeOK ==
  /\ held \in BOOLEAN
  /\ configured \in BOOLEAN
  /\ sender \in [Messages -> Steps]
  /\ answer \in [Messages -> Row \cup {NoRow}]
  /\ carrier \in [Messages -> Carrier]
  /\ rows \in [Messages -> Row \cup {NoRow}]
  /\ reports \subseteq Report
  /\ acked \subseteq reports
  /\ cut \subseteq Messages
  /\ overlapped \in BOOLEAN
  /\ missed \subseteq reports

Init ==
  /\ held \in BOOLEAN
  /\ configured \in BOOLEAN
  /\ sender = [m \in Messages |-> "start"]
  /\ answer = [m \in Messages |-> NoRow]
  /\ carrier = [m \in Messages |-> "none"]
  /\ rows = [m \in Messages |-> NoRow]
  /\ reports = {} /\ acked = {} /\ cut = {} /\ missed = {}
  /\ overlapped = FALSE

-----------------------------------------------------------------------------
(* The workspace and the operator.                                          *)

\* delete_number, or a purchase: the sender check is about the number's row.
SwitchNumber ==
  /\ held' = ~held
  /\ UNCHANGED <<configured, sender, answer, carrier, rows, reports, acked, cut, overlapped, missed>>

\* put_admin_config: the operator saves or clears the messaging credential.
SwitchConfig ==
  /\ configured' = ~configured
  /\ UNCHANGED <<held, sender, answer, carrier, rows, reports, acked, cut, overlapped, missed>>

-----------------------------------------------------------------------------
(* The sender.                                                              *)

Goto(m, step) == sender' = [sender EXCEPT ![m] = step]

SenderStep(m, step) ==
  /\ Goto(m, step)
  /\ UNCHANGED <<held, configured, answer, carrier, rows, reports, acked, cut, overlapped, missed>>

\* create_message: the sender (or recipient) must be a number the workspace
\* holds, or the request is a 400. A rule's reply needs no such check.
CheckHeld(m) ==
  /\ sender[m] = "start"
  /\ m \in Gated
  /\ SenderStep(m, IF held THEN "limit" ELSE "done")

StartReply(m) ==
  /\ sender[m] = "start"
  /\ m \in Replies
  /\ SenderStep(m, "config")

Stored == {m \in Messages : rows[m] # NoRow}

\* Past the limit check and without a row yet.
UnderWay(m) == m \in Gated /\ sender[m] \in {"config", "send", "asked", "insert"}

\* Mutant: the count is compared with > instead of >=.
LimitReachedOffByOne == Limit = 0 \/ (Limit > 0 /\ Cardinality(Stored) > Limit)

\* enforce_feature_limit: every row of messages counts, a reply's too.
LimitReached == Limit = 0 \/ (Limit > 0 /\ Cardinality(Stored) >= Limit)

\* What a message without a transmission is stored as.
Logged == [status |-> "logged", sentAt |-> Null, deliveredAt |-> Null, id |-> FALSE]

RefuseOverLimit(m) ==
  /\ sender[m] = "limit"
  /\ LimitReached
  /\ SenderStep(m, "done")

\* Within the limit: an inbound record is stored as it is, a text goes on to
\* the credential.
PassLimit(m) ==
  /\ sender[m] = "limit"
  /\ ~LimitReached
  /\ overlapped' = (overlapped \/ \E k \in Messages \ {m} : UnderWay(k))
  /\ answer' = IF m \in Records THEN [answer EXCEPT ![m] = Logged] ELSE answer
  /\ Goto(m, IF m \in Records THEN "insert" ELSE "config")
  /\ UNCHANGED <<held, configured, carrier, rows, reports, acked, cut, missed>>

\* get_telnyx_config: with nothing to send with the request is a 503 and the
\* task an error in the log, and no row is written.
CheckConfig(m) ==
  /\ sender[m] = "config"
  /\ SenderStep(m, IF configured THEN "send" ELSE "done")

\* deliver_outbound: the POST to Telnyx.
Ask(m) ==
  /\ sender[m] = "send"
  /\ Goto(m, "asked")
  /\ carrier' = [carrier EXCEPT ![m] = "asked"]
  /\ UNCHANGED <<held, configured, answer, rows, reports, acked, cut, overlapped, missed>>

\* outcome_from_provider: the columns that follow from the status it settles on.
Outcome(status, id) ==
  [status |-> status, id |-> id,
   sentAt |-> IF status \in {"sent", "delivered"} THEN "insert" ELSE Null,
   deliveredAt |-> IF status = "delivered" THEN "insert" ELSE Null]

Conclude(m, row) ==
  /\ Goto(m, "insert")
  /\ answer' = [answer EXCEPT ![m] = row]

\* The statuses the provider's own word can have when it answers: queued (which
\* a word the app does not know counts as), or whatever has happened since.
Words(m) ==
  CASE carrier[m] = "accepted"    -> {"queued"}
    [] carrier[m] = "handed"      -> {"queued", "sent"}
    [] carrier[m] = "delivered"   -> {"queued", "sent", "delivered"}
    [] carrier[m] = "undelivered" -> {"queued", "failed"}
    [] OTHER                      -> {}

\* Mutant: an accepted text is taken for a delivered one.
HearAcceptedAsDelivered(m) ==
  /\ sender[m] = "asked"
  /\ \E status \in Words(m), id \in BOOLEAN :
       Conclude(m, Outcome(IF status = "sent" THEN "delivered" ELSE status, id))
  /\ UNCHANGED <<held, configured, carrier, rows, reports, acked, cut, overlapped, missed>>

\* Mutant: the provider's word is stored without map_provider_status.
HearAcceptedUnmapped(m) ==
  /\ sender[m] = "asked"
  /\ Words(m) # {}
  /\ \E id \in BOOLEAN : Conclude(m, Outcome(carrier[m], id))
  /\ UNCHANGED <<held, configured, carrier, rows, reports, acked, cut, overlapped, missed>>

\* A 2xx. Its body may carry no id, or be unreadable: queued, and no event will
\* ever find the row.
HearAccepted(m) ==
  /\ sender[m] = "asked"
  /\ \E status \in Words(m), id \in BOOLEAN : Conclude(m, Outcome(status, id))
  /\ UNCHANGED <<held, configured, carrier, rows, reports, acked, cut, overlapped, missed>>

\* Any other HTTP status: a failed row with the provider's own reason.
HearRefusal(m) ==
  /\ sender[m] = "asked"
  /\ carrier[m] = "refused"
  /\ Conclude(m, Outcome("failed", FALSE))
  /\ UNCHANGED <<held, configured, carrier, rows, reports, acked, cut, overlapped, missed>>

\* send() returns an error: no answer was heard, whatever became of the request.
HearNothing(m) ==
  /\ sender[m] = "asked"
  /\ Conclude(m, Outcome("failed", FALSE))
  /\ UNCHANGED <<held, configured, carrier, rows, reports, acked, cut, overlapped, missed>>

\* Mutant: a text the provider refused is not recorded.
InsertUnlessFailed(m) ==
  /\ sender[m] = "insert"
  /\ Goto(m, "done")
  /\ rows' = IF answer[m].status = "failed" THEN rows
             ELSE [rows EXCEPT ![m] = answer[m]]
  /\ UNCHANGED <<held, configured, answer, carrier, reports, acked, cut, overlapped, missed>>

\* The INSERT into messages, and the activity line (best-effort).
Insert(m) ==
  /\ sender[m] = "insert"
  /\ Goto(m, "done")
  /\ rows' = [rows EXCEPT ![m] = answer[m]]
  /\ UNCHANGED <<held, configured, answer, carrier, reports, acked, cut, overlapped, missed>>

\* A statement fails, or the client hangs up: the request or task ends where it
\* is, and a text already with the provider is left without a row.
Die(m) ==
  /\ sender[m] # "done"
  /\ Goto(m, "done")
  /\ cut' = cut \cup {m}
  /\ UNCHANGED <<held, configured, answer, carrier, rows, reports, acked, overlapped, missed>>

\* The process restarts: every request and task in flight is gone.
Restart ==
  /\ sender' = [m \in Messages |-> IF sender[m] = "start" THEN "start" ELSE "done"]
  /\ cut' = cut \cup {m \in Messages : sender[m] \notin {"start", "done"}}
  /\ UNCHANGED <<held, configured, answer, carrier, rows, reports, acked, overlapped, missed>>

-----------------------------------------------------------------------------
(* Telnyx and the carrier.                                                  *)

CarrierStep(m, from, to) ==
  /\ carrier[m] \in from
  /\ carrier' = [carrier EXCEPT ![m] = to]
  /\ UNCHANGED <<held, configured, sender, answer, rows, acked, cut, overlapped, missed>>

\* The request reaches Telnyx, perhaps after the sender has given up on it, and
\* is accepted or refused.
TelnyxAccepts(m) == CarrierStep(m, {"asked"}, "accepted") /\ UNCHANGED reports
TelnyxRefuses(m) == CarrierStep(m, {"asked"}, "refused") /\ UNCHANGED reports

\* message.sent: the carrier has taken the text. The event's word may be one
\* the app does not know.
CarrierTakes(m) ==
  /\ CarrierStep(m, {"accepted"}, "handed")
  /\ \E word \in {"sent", "other"} :
       reports' = reports \cup {[msg |-> m, word |-> word, errors |-> FALSE]}

\* message.finalized: the recipient's network has taken the text (late, perhaps,
\* after it was reported delivery_unconfirmed), or it failed, which is reported
\* as a failure word or as an errors array beside another.
NetworkConfirms(m) ==
  /\ CarrierStep(m, {"accepted", "handed", "undelivered"}, "delivered")
  /\ reports' = reports \cup {[msg |-> m, word |-> "delivered", errors |-> FALSE]}

NetworkFails(m) ==
  /\ CarrierStep(m, {"accepted", "handed"}, "undelivered")
  /\ \E r \in {[msg |-> m, word |-> "failed", errors |-> FALSE],
                [msg |-> m, word |-> "sent", errors |-> TRUE]} :
       reports' = reports \cup {r}

-----------------------------------------------------------------------------
(* The event receiver: handle_message_event.                                *)

\* The provider's verdict in an event.
Mapped(r) == IF r.errors THEN "failed" ELSE r.word

\* UPDATE ... WHERE provider_message_id = $1
Matches(m) == rows[m] # NoRow /\ rows[m].id

Coalesce(stamp, new) == IF stamp = Null THEN new ELSE stamp

\* Mutant: a stamp that is already there is overwritten.
AppliedOverwriting(row, verdict) ==
  CASE verdict = "delivered" ->
         [row EXCEPT !.status = "delivered", !.sentAt = "delivered",
                     !.deliveredAt = Coalesce(@, "delivered")]
    [] verdict = "sent" /\ row.status # "delivered" ->
         [row EXCEPT !.status = "sent", !.sentAt = Coalesce(@, "sent")]
    [] verdict = "failed" /\ row.status # "delivered" ->
         [row EXCEPT !.status = "failed"]
    [] OTHER -> row

\* Mutant: a row that failed stays failed.
AppliedUnlessFailed(row, verdict) ==
  CASE verdict = "delivered" /\ row.status # "failed" ->
         [row EXCEPT !.status = "delivered", !.sentAt = Coalesce(@, "delivered"),
                     !.deliveredAt = Coalesce(@, "delivered")]
    [] verdict = "sent" /\ row.status # "delivered" ->
         [row EXCEPT !.status = "sent", !.sentAt = Coalesce(@, "sent")]
    [] verdict = "failed" /\ row.status # "delivered" ->
         [row EXCEPT !.status = "failed"]
    [] OTHER -> row

\* Mutant: the failed arm forgets that a delivered row is terminal.
AppliedUnguarded(row, verdict) ==
  CASE verdict = "delivered" ->
         [row EXCEPT !.status = "delivered", !.sentAt = Coalesce(@, "delivered"),
                     !.deliveredAt = Coalesce(@, "delivered")]
    [] verdict = "sent" /\ row.status # "delivered" ->
         [row EXCEPT !.status = "sent", !.sentAt = Coalesce(@, "sent")]
    [] verdict = "failed" -> [row EXCEPT !.status = "failed"]
    [] OTHER -> row

\* What the three UPDATEs make of a row: delivered is terminal, a stamp that is
\* there stays, a word the app does not know changes nothing.
Applied(row, verdict) ==
  CASE verdict = "delivered" ->
         [row EXCEPT !.status = "delivered", !.sentAt = Coalesce(@, "delivered"),
                     !.deliveredAt = Coalesce(@, "delivered")]
    [] verdict = "sent" /\ row.status # "delivered" ->
         [row EXCEPT !.status = "sent", !.sentAt = Coalesce(@, "sent")]
    [] verdict = "failed" /\ row.status # "delivered" ->
         [row EXCEPT !.status = "failed"]
    [] OTHER -> row

\* One delivery of an event, the first or a repeated one. It is answered 2xx
\* whether or not a row matches; when the UPDATE fails nothing happens, and
\* Telnyx will deliver it again.
Apply(r) ==
  /\ r \in reports
  /\ acked' = acked \cup {r}
  /\ IF Matches(r.msg)
     THEN /\ rows' = [rows EXCEPT ![r.msg] = Applied(@, Mapped(r))]
          /\ UNCHANGED missed
     ELSE missed' = missed \cup {r} /\ UNCHANGED rows
  /\ UNCHANGED <<held, configured, sender, answer, carrier, reports, cut, overlapped>>

-----------------------------------------------------------------------------

MessageStep(m) ==
  \/ CheckHeld(m) \/ StartReply(m) \/ RefuseOverLimit(m) \/ PassLimit(m)
  \/ CheckConfig(m) \/ Ask(m) \/ HearAccepted(m) \/ HearRefusal(m)
  \/ HearNothing(m) \/ Insert(m) \/ Die(m)

ProviderStep(m) ==
  \/ TelnyxAccepts(m) \/ TelnyxRefuses(m) \/ CarrierTakes(m)
  \/ NetworkConfirms(m) \/ NetworkFails(m)

Next ==
  \/ \E m \in Messages : MessageStep(m) \/ ProviderStep(m)
  \/ \E r \in reports : Apply(r)
  \/ SwitchNumber \/ SwitchConfig \/ Restart

Spec == Init /\ [][Next]_vars

\* Telnyx delivers an event until it has been answered 2xx.
FairSpec == Spec /\ \A r \in Report : WF_vars(r \notin acked /\ Apply(r))

-----------------------------------------------------------------------------
(* What the Messages log promises.                                          *)

\* The two timestamps and the status of a row never contradict each other: a
\* delivery time is there exactly on delivered rows, a hand-off time on every
\* row that says sent or delivered and on none that only says queued.
StampsAgree ==
  \A m \in Stored :
    /\ (rows[m].status = "delivered") <=> (rows[m].deliveredAt # Null)
    /\ rows[m].status \in {"sent", "delivered"} => rows[m].sentAt # Null
    /\ rows[m].status \in {"queued", "logged"} => rows[m].sentAt = Null

\* A timestamp, once set, is never moved by a later, repeated or overtaken event
\* (the COALESCEs of handle_message_event).
StampsKept ==
  [][\A m \in Stored :
       /\ rows[m].sentAt # Null => rows'[m].sentAt = rows[m].sentAt
       /\ rows[m].deliveredAt # Null => rows'[m].deliveredAt = rows[m].deliveredAt
    ]_vars

\* A text that Telnyx accepted has a row, or its sender is about to write one,
\* unless the request or task died on the way.
AcceptedAccounted ==
  \A m \in Outbound :
    carrier[m] \in {"accepted", "handed", "delivered", "undelivered"} =>
      m \in Stored \/ sender[m] \in {"asked", "insert"} \/ m \in cut

\* An event that was answered 2xx when its row was there is in the row for good:
\* a confirmed delivery is shown as delivered, whatever came before or after it,
\* and a reported failure is no longer shown as queued.
AckedIsShown ==
  \A r \in acked \ missed :
    /\ Mapped(r) = "delivered" => rows[r.msg].status = "delivered"
    /\ Mapped(r) \in {"sent", "failed"} => rows[r.msg].status # "queued"

\* The messages of the console keep to the plan's limit, unless one was let
\* through while another was counted but not yet stored (enforce_feature_limit
\* counts rows, create_message adds one much later). Replies are not limited.
LimitHeldUnlessOverlapped ==
  Limit >= 0 /\ ~overlapped => Cardinality(Stored \cap Gated) <= Limit

\* The log implements the lifecycle that handle_message_event documents.
Lifecycle ==
  INSTANCE MessageLifecycle
    WITH shown   <- [m \in Messages |-> IF rows[m] = NoRow THEN "none" ELSE rows[m].status],
         arrived <- {m \in Messages : carrier[m] = "delivered"}

KeepsLifecycle == Lifecycle!LifecycleSpec

\* A delivery event still unanswered when its row is there ends with the row
\* delivered.
ReportedDeliveryShown ==
  \A m \in Outbound :
    (\E r \in reports \ acked : r.msg = m /\ Mapped(r) = "delivered" /\ Matches(m))
      ~> (rows[m] # NoRow /\ rows[m].status = "delivered")

\* "so a row moves queued -> sent -> delivered (or failed) only when the
\* provider says so" and would otherwise be "frozen at its send-time status":
\* a row whose id Telnyx has reported delivered is not left so.
DeliveryReachesRow ==
  \A m \in Outbound :
    (\E r \in reports : r.msg = m /\ Mapped(r) = "delivered" /\ Matches(m))
      ~> (rows[m] # NoRow /\ rows[m].status = "delivered")
=============================================================================
