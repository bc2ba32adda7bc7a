------------------------------ MODULE Tickets -------------------------------
(***************************************************************************)
(* Support tickets and the plan requests filed as tickets                  *)
(* (tickets_handler). A customer reaches the workspace's own tickets, the  *)
(* operator every ticket, and a visitor of the contact page, who has no    *)
(* workspace (None), the one whose id and address they give.               *)
(*                                                                         *)
(* Of a ticket key is what makes it one request: the slug of the plan a    *)
(* plan request asks for, or a visitor's address; text the subject, state  *)
(* the status, flag.source the door it came through and flag.applied       *)
(* whether its plan was seated. Of a message link is the ticket and state  *)
(* the sender.                                                             *)
(***************************************************************************)
EXTENDS Plans

PublicHourlyLimit == 3
Open == {"open", "in_progress"}
Settled == {"resolved", "closed"}
Unapplied(door) == [source |-> door, applied |-> FALSE]

IsOperator(q) == serving[q].ws = Operator
Visible(q) == Target(q) \in DOMAIN rows /\ (IsOperator(q) \/ Mine(q))
Messages(i) == {m \in Rows("ticket_messages") : rows[m].link = i}

\* ticket_visible_to, or 404.
FetchTicket(q, here, next) ==
  \/ /\ At(q, here)
     /\ Visible(q)
     /\ serving' = [serving EXCEPT ![q].at = next, ![q].read = rows[Target(q)]]
     /\ UNCHANGED tables
  \/ At(q, here) /\ ~Visible(q) /\ Ends(q, "refused") /\ UNCHANGED tables

\* The message a request adds to a ticket, in a row of its own.
NewMessage(q, ticket, sender) ==
  [ws |-> serving[q].ws, key |-> None, text |-> q, state |-> sender, flag |-> "on", link |-> ticket]
AddTo(q, here, ticket, sender, next) ==
  Put(q, here, <<"ticket_messages", q>>, NewMessage(q, ticket, sender), next)

ListTickets(q) ==
  /\ Asks(q, "list_tickets")
  /\ \E found \in SUBSET (IF IsOperator(q) THEN Rows("tickets") ELSE Own(q, "tickets")) : Show(q, "start", found)
TicketStats(q) ==
  /\ Asks(q, "ticket_stats")
  /\ Show(q, "start", IF IsOperator(q) THEN Rows("tickets") ELSE Own(q, "tickets"))

GetTicket(q) ==
  /\ Asks(q, "get_ticket")
  /\ FetchTicket(q, "start", "messages") \/ Show(q, "messages", {Target(q)} \cup Messages(Target(q)))

-----------------------------------------------------------------------------
(* The contact page. The address is val, the subject ref.                   *)

FromAddress(q) == {i \in Rows("tickets") : rows[i].ws = None /\ rows[i].key = serving[q].val}
SamePublic(q) == {i \in FromAddress(q) : rows[i].text = serving[q].ref /\ rows[i].state \in Open}
PublicTicket(q) ==
  [NewRow(q, "open", Unapplied("contact_form")) EXCEPT !.text = serving[q].ref, !.link = None]

CreatePublicTicket(q) ==
  /\ Asks(q, "create_public_ticket")
  /\ \/ Refuse(q, "start")
     \* any of the address's messages may be of the last hour
     \/ \E recent \in SUBSET FromAddress(q) :
          IF Cardinality(recent) >= PublicHourlyLimit THEN Refuse(q, "start") ELSE Look(q, "start", recent, "existing")
     \/ SamePublic(q) # {} /\ Show(q, "existing", SamePublic(q))
     \/ SamePublic(q) = {} /\ Look(q, "existing", FromAddress(q), "insert")
     \/ Put(q, "insert", <<"tickets", q>>, PublicTicket(q), "message")
     \/ AddTo(q, "message", <<"tickets", q>>, "customer", "answer")
     \/ Finish(q, "answer")

Answered(i) == {m \in Messages(i) : rows[m].state # "customer"}
PublicAnswer(q) ==
  /\ Asks(q, "public_answer")
  /\ \/ Target(q) \notin FromAddress(q) /\ Refuse(q, "start")
     \/ Target(q) \in FromAddress(q) /\ Look(q, "start", {Target(q)}, "replies")
     \/ Show(q, "replies", Answered(Target(q)))

-----------------------------------------------------------------------------
(* A ticket of the workspace. A plan request names the plan's slug in val;  *)
(* ref holds the source, the subject and the contact that the client sent.  *)

PlanSources == {"billing", "plan_request"}
SoldAs(slug) == {p \in PlanNamed(slug) : Active(p)}
Priced(slug) == {p \in SoldAs(slug) : rows[p].text > 0}

\* Mutant: the request is known by its subject, whatever the plan.
OpenRequestsBySubject(q) ==
  {i \in Own(q, "tickets") :
     /\ rows[i].flag.source \in PlanSources /\ rows[i].state \in Open
     /\ rows[i].text = serving[q].ref.subject}

\* A request filed without a slug is known by its subject.
OpenRequests(q) ==
  {i \in Own(q, "tickets") :
     /\ rows[i].flag.source \in PlanSources /\ rows[i].state \in Open
     /\ IF rows[i].key = None THEN rows[i].text = serving[q].ref.subject ELSE rows[i].key = serving[q].val}

\* A slug must be sold; of the plan requests, and of no other ticket, one that
\* is open is enough.
CheckRequest(q) ==
  LET next == IF serving[q].ref.source \in PlanSources THEN "existing" ELSE "insert" IN
  \/ serving[q].val # None /\ SoldAs(serving[q].val) = {} /\ Refuse(q, "slug")
  \/ (serving[q].val = None \/ SoldAs(serving[q].val) # {}) /\ Look(q, "slug", {}, next)
  \/ OpenRequests(q) # {} /\ Show(q, "existing", OpenRequests(q))
  \/ OpenRequests(q) = {} /\ Look(q, "existing", Own(q, "tickets"), "insert")

FiledTicket(q) ==
  [NewRow(q, "open", Unapplied(serving[q].ref.source)) EXCEPT !.text = serving[q].ref.subject,
                                                              !.link = serving[q].ref.contact]

\* The receipt is mailed after the row is read back.
CreateTicket(q) ==
  /\ Asks(q, "create_ticket")
  /\ \/ Refuse(q, "start")
     \/ Gate(q, "start", "tickets", "slug")
     \/ CheckRequest(q)
     \/ Put(q, "insert", <<"tickets", q>>, FiledTicket(q), "message")
     \/ AddTo(q, "message", <<"tickets", q>>, "agent", "reread")
     \/ Reread(q, "reread", <<"tickets", q>>, "done")

-----------------------------------------------------------------------------
(* The plan requests that two doors file by themselves, past the gate of    *)
(* create_ticket. They look for an open request of their own source only.   *)

Doors == {"signup_request", "checkout_request"}

\* The slug asked for: the visitor's, or the one of the plan that was pressed.
Wanted(q) == IF Asks(q, "checkout_request") THEN serving[q].read ELSE serving[q].val
DoorRequests(q) ==
  {i \in Own(q, "tickets") :
     rows[i].flag.source = "plan_request" /\ rows[i].state \in Open /\ rows[i].key = Wanted(q)}
RequestRow(q) ==
  [NewRow(q, "open", Unapplied("plan_request")) EXCEPT !.key = Wanted(q), !.link = None]

FileRequest(q) ==
  \/ DoorRequests(q) # {} /\ Show(q, "existing", DoorRequests(q))
  \/ DoorRequests(q) = {} /\ Look(q, "existing", Own(q, "tickets"), "insert")
  \/ Put(q, "insert", <<"tickets", q>>, RequestRow(q), "message")
  \/ AddTo(q, "message", <<"tickets", q>>, "agent", "answer")
  \/ Finish(q, "answer")

\* record_signup_plan_request: what a visitor picked before signing up; a plan
\* that is not sold, or costs nothing, files nothing.
RecordSignupRequest(q) ==
  /\ Asks(q, "signup_request")
  /\ \/ (serving[q].val = DefaultPlanSlug \/ Priced(serving[q].val) = {}) /\ Finish(q, "start")
     \/ serving[q].val # DefaultPlanSlug /\ Priced(serving[q].val) # {} /\ Look(q, "start", {}, "existing")
     \/ FileRequest(q)

\* record_checkout_plan_request: the plan that was pressed while no provider can
\* charge for it, or that is sold on a page of its own. It need not be active.
Charged(q) == Target(q) \in DOMAIN rows /\ rows[Target(q)].text > 0
RecordCheckoutRequest(q) ==
  /\ Asks(q, "checkout_request")
  /\ \/ Refuse(q, "start")
     \/ ~Charged(q) /\ Finish(q, "start")
     \/ /\ At(q, "start")
        /\ Charged(q)
        /\ serving' = [serving EXCEPT ![q].at = "existing", ![q].read = rows[Target(q)].key]
        /\ UNCHANGED tables
     \/ FileRequest(q)

-----------------------------------------------------------------------------
(* The merging edit of subject, status and contact, and what the operator's *)
(* resolving it does besides: the plan asked for is seated, then the ticket *)
(* stamped. Both decisions are taken on the row read first.                 *)

\* Mutant: the edit writes the stamp back too, as it was read.
EditedWhole(q) ==
  [serving[q].read EXCEPT !.text = IF serving[q].col = "text" THEN Sent(q) ELSE @,
                          !.state = IF serving[q].col = "state" THEN serving[q].val ELSE @]

EditedTicket(q) ==
  [rows[Target(q)] EXCEPT !.text = IF serving[q].col = "text" THEN Sent(q) ELSE serving[q].read.text,
                          !.state = IF serving[q].col = "state" THEN serving[q].val ELSE serving[q].read.state]

NextStatus(q) == IF serving[q].col = "state" THEN serving[q].val ELSE serving[q].read.state
\* Mutant: whoever settles the request gets the plan.
SeatsPlanForAnyone(q) ==
  /\ NextStatus(q) \in Settled
  /\ ~serving[q].read.flag.applied
  /\ serving[q].read.key # None
  /\ serving[q].read.ws # None

SeatsPlan(q) ==
  /\ IsOperator(q)
  /\ NextStatus(q) \in Settled
  /\ ~serving[q].read.flag.applied
  /\ serving[q].read.key # None
  /\ serving[q].read.ws # None

UpdateTicket(q) ==
  /\ Asks(q, "update_ticket")
  /\ \/ Refuse(q, "start")
     \/ FetchTicket(q, "start", "write")
     \/ Change(q, "write", EditedTicket(q), IF SeatsPlan(q) THEN "plan" ELSE "reread")
     \/ /\ At(q, "plan")
        /\ \/ SoldAs(serving[q].read.key) = {} /\ Look(q, "plan", {}, "reread")
           \/ SoldAs(serving[q].read.key) # {} /\ Look(q, "plan", SoldAs(serving[q].read.key), "seat")
     \/ \E p \in serving[q].saw : SeatPlan(q, "seat", serving[q].read.ws, p, "stamp")
     \/ Change(q, "stamp", [rows[Target(q)] EXCEPT !.flag.applied = TRUE], "reread")
     \/ Reread(q, "reread", Target(q), "done")

\* A reply; the customer is mailed when it is not the first message.
AddTicketMessage(q) ==
  /\ Asks(q, "add_ticket_message")
  /\ \/ Refuse(q, "start")
     \/ FetchTicket(q, "start", "prior")
     \/ Look(q, "prior", Messages(Target(q)), "insert")
     \/ AddTo(q, "insert", Target(q), serving[q].val, "reread")
     \/ Reread(q, "reread", <<"ticket_messages", q>>, "done")

DeleteTicket(q) ==
  /\ Asks(q, "delete_ticket")
  /\ \/ FetchTicket(q, "start", "delete")
     \/ At(q, "delete") /\ Target(q) \notin DOMAIN rows /\ Ends(q, "refused") /\ UNCHANGED tables
     \/ /\ At(q, "delete")
        /\ Target(q) \in DOMAIN rows
        /\ rows' = Without(Fallen(Target(q)))
        /\ serving' = [serving EXCEPT ![q].at = "done", ![q].answer = "ok", ![q].wrote = TRUE]
        /\ UNCHANGED <<links, seat, caps, rented>>

ServeTicket(q) ==
  \/ ListTickets(q) \/ TicketStats(q) \/ GetTicket(q) \/ CreatePublicTicket(q) \/ PublicAnswer(q)
  \/ CreateTicket(q) \/ RecordSignupRequest(q) \/ RecordCheckoutRequest(q)
  \/ UpdateTicket(q) \/ AddTicketMessage(q) \/ DeleteTicket(q)
=============================================================================
