----------------------------- MODULE Campaigns ------------------------------
(***************************************************************************)
(* Leads, the lists they are members of, the tags that route them, and the *)
(* campaigns, each of which owns one list: leads_handler, lists_handler,   *)
(* tags_handler, tag_groups_handler and campaigns_handler.                 *)
(*                                                                         *)
(* A campaign's link is the tag its metadata names (no foreign key), a     *)
(* list's link its campaign, a tag's link its group. A request's read,     *)
(* once its row is written, is free to hold the campaign it routes to.     *)
(***************************************************************************)
EXTENDS PlanGate

CampaignLists(c) == {l \in Rows("lists") : rows[l].link = c}

\* ensure_campaign_list, add_lead_to_list: an existing list of the campaign, or
\* a new one; a failed statement gives up without an error.
EnsureList(q, here, campaign, next) ==
  /\ At(q, here)
  /\ \/ \E l \in CampaignLists(campaign) :
          serving' = [serving EXCEPT ![q].at = next, ![q].saw = {l}]
     \/ CampaignLists(campaign) = {} /\ Goes(q, "own list")
  /\ UNCHANGED tables

OwnList(q, campaign) ==
  [ws |-> serving[q].ws, key |-> None, text |-> q, state |-> "new", flag |-> "on", link |-> campaign]

InsertList(q, campaign, next, giveUp) ==
  /\ At(q, "own list")
  /\ \/ /\ campaign \in DOMAIN rows
        /\ rows' = With(rows, <<"lists", q>>, OwnList(q, campaign))
        /\ serving' = [serving EXCEPT ![q].at = next, ![q].saw = {<<"lists", q>>}, ![q].wrote = TRUE]
     \/ campaign \notin DOMAIN rows /\ rows' = rows /\ Goes(q, giveUp)
  /\ UNCHANGED <<links, seat, caps, rented>>

JoinList(q, pair) ==
  /\ At(q, "join")
  /\ links' = IF pair[1] \in DOMAIN rows /\ pair[2] \in DOMAIN rows THEN links \cup {pair} ELSE links
  /\ Goes(q, "done")
  /\ UNCHANGED <<rows, seat, caps, rented>>

-----------------------------------------------------------------------------
ListLeads(q) == Asks(q, "list_leads") /\ \E found \in SUBSET Own(q, "leads") : Show(q, "start", found)
GetLead(q) == Asks(q, "get_lead") /\ GetRow(q)

\* campaigns_for_tag, before the answer: the campaigns whose metadata names the
\* tag the lead carries (key). The routing itself is a task spawned with them;
\* one campaign of those found is followed.
TaggedCampaigns(q) == {c \in Own(q, "campaigns") : rows[c].link = serving[q].val /\ serving[q].val # None}
RouteLead(q) ==
  /\ At(q, "route")
  /\ \/ \E c \in TaggedCampaigns(q) :
          serving' = [serving EXCEPT ![q].at = "list", ![q].read = c, ![q].answer = "ok"]
     \/ TaggedCampaigns(q) = {} /\ Answers(q, "done")
  /\ UNCHANGED tables

CreateLead(q) ==
  /\ Asks(q, "create_lead")
  /\ \/ Refuse(q, "start")
     \/ Gate(q, "start", "leads", "insert")
     \/ Insert(q, "insert", "leads", "new", "on", "reread")
     \/ Reread(q, "reread", <<"leads", q>>, "route")
     \/ RouteLead(q)
     \/ EnsureList(q, "list", serving[q].read, "join")
     \/ InsertList(q, serving[q].read, "join", "done")
     \/ \E l \in serving[q].saw : JoinList(q, <<l, <<"leads", q>>>>)

\* The address the body carries is judged after the read.
UpdateLead(q) == Asks(q, "update_lead") /\ (Refuse(q, "start") \/ Refuse(q, "write") \/ MergingEdit(q))
DeleteLead(q) == Asks(q, "delete_lead") /\ Delete(q, "start")

-----------------------------------------------------------------------------
ListLists(q) == Asks(q, "list_lists") /\ \E found \in SUBSET Own(q, "lists") : Show(q, "start", found)

\* The members of a list of the caller's, joined to the caller's leads.
Members(q, l) == {i \in Own(q, "leads") : <<l, i>> \in links}
ShowMembers(q) ==
  /\ Asks(q, "show_members")
  /\ Fetch(q, "start", "members") \/ Show(q, "members", Members(q, Target(q)))

\* Two ownership checks, then the insert: either row may be gone by then.
OwnLead(q) == serving[q].ref \in Own(q, "leads")
AddLead(q) ==
  /\ Asks(q, "add_lead")
  /\ \/ Fetch(q, "start", "lead")
     \/ OwnLead(q) /\ Look(q, "lead", {serving[q].ref}, "link")
     \/ ~OwnLead(q) /\ Refuse(q, "lead")
     \/ Link(q, "link", <<Target(q), serving[q].ref>>, "answer")
     \/ Finish(q, "answer")

Member(q) == <<Target(q), serving[q].ref>>
RemoveLead(q) ==
  /\ Asks(q, "remove_lead")
  /\ \/ Fetch(q, "start", "unlink")
     \/ Member(q) \notin links /\ Refuse(q, "unlink")
     \/ /\ At(q, "unlink")
        /\ Member(q) \in links
        /\ links' = links \ {Member(q)}
        /\ serving' = [serving EXCEPT ![q].at = "done", ![q].answer = "ok", ![q].wrote = TRUE]
        /\ UNCHANGED <<rows, seat, caps, rented>>

\* A list of the console's own, or one more for a campaign (ref).
CreateList(q) ==
  Asks(q, "create_list") /\ (Refuse(q, "start") \/ Creation(q, "start", "lists", "new", "on"))
UpdateList(q) == Asks(q, "update_list") /\ (Refuse(q, "start") \/ NamedEdit(q))
DeleteList(q) == Asks(q, "delete_list") /\ Delete(q, "start")

-----------------------------------------------------------------------------
ListTags(q) == Asks(q, "list_tags") /\ \E found \in SUBSET Own(q, "tags") : Show(q, "start", found)
GetTag(q) == Asks(q, "get_tag") /\ GetRow(q)
CreateTag(q) ==
  /\ Asks(q, "create_tag")
  /\ \/ Refuse(q, "start")
     \/ Gate(q, "start", "tags", "insert")
     \/ Insert(q, "insert", "tags", "new", "on", "answer")
     \/ Finish(q, "answer")
UpdateTag(q) == Asks(q, "update_tag") /\ (Refuse(q, "write") \/ NamedEdit(q))
DeleteTag(q) == Asks(q, "delete_tag") /\ Delete(q, "start")

ListTagGroups(q) == Asks(q, "list_tag_groups") /\ Show(q, "start", Own(q, "tag_groups"))
GetTagGroup(q) == Asks(q, "get_tag_group") /\ GetRow(q)
CreateTagGroup(q) ==
  /\ Asks(q, "create_tag_group")
  /\ \/ Refuse(q, "start")
     \/ Insert(q, "start", "tag_groups", "new", "on", "answer")
     \/ Finish(q, "answer")
UpdateTagGroup(q) == Asks(q, "update_tag_group") /\ (Refuse(q, "write") \/ NamedEdit(q))

\* The tags are taken out of the group first, whoever's group it is, and only
\* then is the group deleted if it is the caller's.
Ungrouped(g) == [i \in DOMAIN rows |->
                   IF TableOf(i) = "tags" /\ rows[i].link = g THEN [rows[i] EXCEPT !.link = None] ELSE rows[i]]
DeleteTagGroup(q) ==
  /\ Asks(q, "delete_tag_group")
  /\ \/ /\ At(q, "start")
        /\ rows' = Ungrouped(Target(q))
        /\ serving' = [serving EXCEPT ![q].at = "delete", ![q].wrote = Ungrouped(Target(q)) # rows]
        /\ UNCHANGED <<links, seat, caps, rented>>
     \/ Delete(q, "delete")

-----------------------------------------------------------------------------
ListCampaigns(q) == Asks(q, "list_campaigns") /\ \E found \in SUBSET Own(q, "campaigns") : Show(q, "start", found)
GetCampaign(q) == Asks(q, "get_campaign") /\ GetRow(q)

\* The campaign's own list is awaited before the answer; its failure is not seen.
CreateCampaign(q) ==
  /\ Asks(q, "create_campaign")
  /\ \/ Refuse(q, "start")
     \/ Gate(q, "start", "campaigns", "insert")
     \/ Insert(q, "insert", "campaigns", "draft", "on", "reread")
     \/ /\ At(q, "reread")
        /\ IF <<"campaigns", q>> \in DOMAIN rows THEN Goes(q, "list") ELSE Ends(q, "failed")
        /\ UNCHANGED tables
     \/ EnsureList(q, "list", <<"campaigns", q>>, "answer")
     \/ InsertList(q, <<"campaigns", q>>, "answer", "answer")
     \/ Finish(q, "answer")
UpdateCampaign(q) == Asks(q, "update_campaign") /\ (Refuse(q, "start") \/ MergingEdit(q))
DeleteCampaign(q) == Asks(q, "delete_campaign") /\ Delete(q, "start")

\* One UPDATE of status and is_active under the caller's workspace, or 404.
Turn(q, state, flag) ==
  \/ /\ Mine(q)
     /\ Put(q, "start", Target(q), [rows[Target(q)] EXCEPT !.state = state, !.flag = flag], "answer")
  \/ Missing(q, "start")
  \/ Finish(q, "answer")
Activate(q) == Asks(q, "activate") /\ Turn(q, "active", "on")
Pause(q) == Asks(q, "pause") /\ Turn(q, "paused", "off")

-----------------------------------------------------------------------------
ServeCampaign(q) ==
  \/ ListLeads(q) \/ GetLead(q) \/ CreateLead(q) \/ UpdateLead(q) \/ DeleteLead(q)
  \/ ListLists(q) \/ ShowMembers(q) \/ AddLead(q) \/ RemoveLead(q)
  \/ CreateList(q) \/ UpdateList(q) \/ DeleteList(q)
  \/ ListTags(q) \/ GetTag(q) \/ CreateTag(q) \/ UpdateTag(q) \/ DeleteTag(q)
  \/ ListTagGroups(q) \/ GetTagGroup(q) \/ CreateTagGroup(q) \/ UpdateTagGroup(q) \/ DeleteTagGroup(q)
  \/ ListCampaigns(q) \/ GetCampaign(q) \/ CreateCampaign(q) \/ UpdateCampaign(q) \/ DeleteCampaign(q)
  \/ Activate(q) \/ Pause(q)
=============================================================================
