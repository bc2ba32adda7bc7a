------------------------------ MODULE Numbers -------------------------------
(***************************************************************************)
(* The phone numbers a workspace rents through the platform, the           *)
(* operator's telephone account they are rented with (telnyx_handler), and *)
(* the people of a workspace (team_handler). The provider's side is        *)
(* rented: the numbers it bills the operator for.                          *)
(*                                                                         *)
(* Of a number key is the number and flag "on" while it is held. Of the    *)
(* account's one row text is the API key and state the signing key.        *)
(***************************************************************************)
EXTENDS PlanGate

ListNumbers(q) ==
  /\ Asks(q, "list_numbers")
  /\ Show(q, "start", {i \in Own(q, "phone_numbers") : rows[i].flag = "on"})

\* A workspace with a telephone key of its own manages its numbers itself.
OwnKey(q) == Own(q, "provider_keys") # {}
Account == Rows("telnyx_config")

WithNumber(q) == {i \in Rows("phone_numbers") : rows[i].key = serving[q].val}
Held(i) == rows[i].flag = "on"

\* One row a number, whoever's: a held one is refused, a released one revived.
FindNumber(q) ==
  \/ (\E i \in WithNumber(q) : Held(i)) /\ Refuse(q, "find")
  \/ /\ At(q, "find")
     /\ \A i \in WithNumber(q) : ~Held(i)
     /\ serving' = [serving EXCEPT ![q].at = "key", ![q].saw = WithNumber(q),
                      ![q].read = IF WithNumber(q) = {} THEN None
                                  ELSE rows[CHOOSE i \in WithNumber(q) : TRUE]]
     /\ UNCHANGED tables

\* The order, whose answer may be lost after the provider took it.
OrderNumber(q) ==
  /\ At(q, "order")
  /\ \/ rented' = rented \cup {serving[q].val} /\ Goes(q, "persist")
     \/ rented' \in {rented, rented \cup {serving[q].val}} /\ Ends(q, "failed")
  /\ UNCHANGED <<rows, links, seat, caps>>

\* Mutant: the released row is held again, still by whom it was.
RevivedInPlace(q, i) == [rows[i] EXCEPT !.flag = "on"]

Revived(q, i) == [rows[i] EXCEPT !.ws = serving[q].ws, !.flag = "on"]
PurchaseNumber(q) ==
  /\ Asks(q, "purchase_number")
  /\ \/ Refuse(q, "start")
     \/ Gate(q, "start", "phone_numbers", "find")
     \/ FindNumber(q)
     \/ At(q, "key") /\ Goes(q, IF OwnKey(q) THEN "persist" ELSE "account") /\ UNCHANGED tables
     \/ Account = {} /\ Refuse(q, "account")
     \/ Account # {} /\ At(q, "account") /\ Goes(q, "order") /\ UNCHANGED tables
     \/ OrderNumber(q)
     \/ serving[q].saw = {} /\ Insert(q, "persist", "phone_numbers", "new", "on", "answer")
     \/ \E i \in serving[q].saw : ChangeRow(q, "persist", i, Revived(q, i), "answer")
     \/ Finish(q, "answer")

\* The release at the provider is asked for and its outcome ignored.
ReleaseNumber(q) ==
  /\ At(q, "release")
  /\ rented' \in {rented, rented \ {serving[q].read.key}}
  /\ Goes(q, "persist")
  /\ UNCHANGED <<rows, links, seat, caps>>

\* The row is the caller's when it is read; it is written by its id alone.
DeleteNumber(q) ==
  /\ Asks(q, "delete_number")
  /\ \/ Fetch(q, "start", "key")
     \/ At(q, "key") /\ Goes(q, IF OwnKey(q) THEN "persist" ELSE "account") /\ UNCHANGED tables
     \/ At(q, "account") /\ Goes(q, IF Account = {} THEN "persist" ELSE "release") /\ UNCHANGED tables
     \/ ReleaseNumber(q)
     \/ Change(q, "persist", [rows[Target(q)] EXCEPT !.flag = "off"], "answer")
     \/ Finish(q, "answer")

-----------------------------------------------------------------------------
(* The operator's telephone account.                                        *)

ShowAccount(q) == Asks(q, "get_account") /\ Show(q, "start", Account)

ReadAccount(q) ==
  \/ Account = {} /\ Look(q, "start", {}, "derive")
  \/ \E i \in Account :
       /\ At(q, "start")
       /\ serving' = [serving EXCEPT ![q].at = "derive", ![q].saw = {i}, ![q].read = rows[i]]
       /\ UNCHANGED tables

\* The signing key that goes with what the request holds now; None when unset.
StoredText(q) == IF serving[q].read = None THEN None ELSE serving[q].read.text
StoredState(q) == IF serving[q].read = None THEN None ELSE serving[q].read.state
ApiKey(q) == IF serving[q].col = "text" THEN Sent(q) ELSE StoredText(q)
Supplied(q) == serving[q].col = "state"

\* A signing key not given and not stored is asked of the provider, which may
\* not answer; limit holds what came back.
Derive(q) ==
  /\ At(q, "derive")
  /\ \/ /\ ~Supplied(q) /\ StoredState(q) = None /\ ApiKey(q) # None
        /\ serving' = [serving EXCEPT ![q].at = "write", ![q].limit = "derived"]
     \/ serving' = [serving EXCEPT ![q].at = "write",
                      ![q].limit = IF Supplied(q) THEN serving[q].val ELSE StoredState(q)]
  /\ UNCHANGED tables

PutAccount(q) ==
  /\ Asks(q, "put_account")
  /\ \/ Refuse(q, "start")
     \/ ReadAccount(q)
     \/ Supplied(q) /\ Refuse(q, "derive")
     \/ Derive(q)
     \/ \E i \in serving[q].saw :
          ChangeRow(q, "write", i, [rows[i] EXCEPT !.text = ApiKey(q), !.state = serving[q].limit], "answer")
     \/ /\ serving[q].saw = {}
        /\ Put(q, "write", <<"telnyx_config", q>>,
               [ws |-> Operator, key |-> None, text |-> ApiKey(q), state |-> serving[q].limit,
                flag |-> "on", link |-> None], "answer")
     \/ Finish(q, "answer")

-----------------------------------------------------------------------------
(* The team. The first person of a workspace, its owner, came with it.      *)

OwnerOf(ws) == <<"users", ws>>

ListMembers(q) == Asks(q, "list_members") /\ Show(q, "start", Own(q, "users"))

\* email_taken: an address is a login once in the whole installation.
Taken(q) == \E i \in Rows("users") : rows[i].key = serving[q].val

\* The constraint's error is answered as the duplicate it is.
InsertMember(q) ==
  \/ Taken(q) /\ Refuse(q, "insert")
  \/ ~Taken(q) /\ Insert(q, "insert", "users", "member", "on", "mail")

InviteTeammate(q) ==
  /\ Asks(q, "invite_teammate")
  /\ \/ Refuse(q, "start")
     \/ ~Taken(q) /\ Look(q, "start", Own(q, "users"), "gate")
     \/ Gate(q, "gate", "users", "insert")
     \/ InsertMember(q)
     \/ Finish(q, "mail")

\* The caller's own login is ref. The delete's count is not looked at.
RemoveMember(q) ==
  /\ Asks(q, "remove_member")
  /\ \/ Refuse(q, "start")
     \/ Target(q) # serving[q].ref /\ Fetch(q, "start", "owner")
     \/ Target(q) = OwnerOf(serving[q].ws) /\ Refuse(q, "owner")
     \/ Target(q) # OwnerOf(serving[q].ws) /\ At(q, "owner") /\ Goes(q, "delete") /\ UNCHANGED tables
     \/ Remove(q, "delete")
     \/ ~Mine(q) /\ Finish(q, "delete")

ServeNumber(q) ==
  \/ ListNumbers(q) \/ PurchaseNumber(q) \/ DeleteNumber(q) \/ ShowAccount(q) \/ PutAccount(q)
  \/ ListMembers(q) \/ InviteTeammate(q) \/ RemoveMember(q)
=============================================================================
