-------------------------- MODULE ConsoleIsolation --------------------------
(***************************************************************************)
(* The console keeps the workspaces apart, for every number of requests    *)
(* and workspaces (OnlyOwnRows). A handler checks whose row it is in one   *)
(* statement and writes it by its id in a later one, so the proof needs    *)
(* what is left of the check by then: a row of most tables never changes   *)
(* hands, and where it may (a number, a company) the row read is the       *)
(* caller's (Owns). What the other requests do in between is Steady.       *)
(***************************************************************************)
EXTENDS ConsoleProofs

-----------------------------------------------------------------------------
(* What a request of a workspace has made sure of.                          *)

\* The handlers that fetch their row under the caller's workspace first.
Editing ==
  (MergingEdits \cup NamingEdits \cup {"delete_number", "delete_ticket"}) \ (OnDocuments \cup OfOperator)
\* Those of them whose row may have changed hands since.
EditingShared == {"delete_number", "update_company", "update_smtp"}

Past(q) == serving[q].kind \in Editing /\ serving[q].at \notin {"start", "done"}

\* The row is the caller's, now and if it is made again.
OwnsTarget(q) ==
  /\ Target(q) \in RowIds({TableOf(Target(q))})
  /\ TableOf(Target(q)) \notin Shared =>
       /\ Tied(Target(q)) => Issuer(Target(q)) = serving[q].ws
       /\ TableOf(Target(q)) \in Personal => MakerOf(Target(q)) = serving[q].ws
       /\ Target(q) \in DOMAIN rows => rows[Target(q)].ws = serving[q].ws

EditsOwn(q) ==
  Past(q) => OwnsTarget(q) /\ (serving[q].kind \in EditingShared => serving[q].read.ws = serving[q].ws)

BuysReleased(q) ==
  /\ Asks(q, "purchase_number")
  /\ serving[q].at \in {"key", "account", "order", "persist"}
  /\ serving[q].saw # {}
  => serving[q].read.flag # "on"

SeatsNobody(q) == Asks(q, "update_ticket") => serving[q].at \notin {"plan", "seat"}

\* The creates in the shared tables: the row is not there before it is made.
Makers == {"purchase_number", "create_company", "sync_company", "invite_teammate"}
MakesNew(q) ==
  serving[q].kind \in Makers /\ serving[q].at \notin {"answer", "mail", "done"} =>
    \A t \in Shared : <<t, q>> \notin DOMAIN rows

Owns(q) ==
  serving[q].ws # Operator => EditsOwn(q) /\ BuysReleased(q) /\ SeatsNobody(q) /\ MakesNew(q)

IsolationInv == IInv /\ \A q \in Requests : Owns(q)

-----------------------------------------------------------------------------
(* A step of any request takes nothing of that away.                        *)

LEMMA OwnsTargetStays ==
  ASSUME IInv, NEW q \in Requests, Sound(q), NEW p \in Requests, OwnsTarget(p)
  PROVE  OwnsTarget(p)'
<1> DEFINE i == Target(p)
<1>1. serving'[p].id = serving[p].id /\ serving'[p].ws = serving[p].ws
  BY DEF Sound, Advance
<1>2. i \in RowIds({TableOf(i)}) /\ i' = i
  BY <1>1 DEF OwnsTarget, Target
<1>3. PICK k : k = i
  OBVIOUS
<1>4. Issuer(k)' = Issuer(k)
  BY <1>2, <1>3, StaysIssuer DEF Sound
<1>5. TableOf(k) \notin Shared =>
        /\ Tied(k) => Issuer(k) = serving[p].ws
        /\ TableOf(k) \in Personal => MakerOf(k) = serving[p].ws
        /\ k \in DOMAIN rows => rows[k].ws = serving[p].ws
  BY <1>3 DEF OwnsTarget
<1>6. ASSUME TableOf(k) \notin Shared, k \in DOMAIN rows' PROVE rows'[k].ws = serving[p].ws
  <2>1. MayWrite(q, k, rows'[k])
    BY <1>6 DEF Sound, Steady
  <2>2. RowStored(rows', k) /\ OwnerKept(rows', k)
    BY <1>6 DEF Sound, Sane, WellStored, OwnersIn
  <2>3. CASE k \in DOMAIN rows
    BY <1>5, <1>6, <2>1, <2>3 DEF MayWrite
  <2>4. CASE k \notin DOMAIN rows
    BY <1>5, <1>6, <2>1, <2>2, <2>4 DEF MayWrite, MayMake, RowStored, OwnerKept, Tied
  <2> QED
    BY <2>3, <2>4
<1>7. Target(p)' = k
  BY <1>2, <1>3
<1>8. Issuer(Target(p))' = Issuer(k)'
  BY <1>7 DEF Issuer
<1>9. k \in RowIds({TableOf(k)})
  BY <1>2, <1>3
<1> HIDE DEF i
<1> QED
  BY <1>1, <1>4, <1>5, <1>6, <1>7, <1>8, <1>9 DEF OwnsTarget

LEMMA OthersOwn ==
  ASSUME IInv, NEW q \in Requests, Sound(q), NEW p \in Requests \ {q}, Owns(p)
  PROVE  Owns(p)'
<1>1. serving'[p] = serving[p]
  BY DEF Sound, Advance
<1>2. CASE serving[p].ws = Operator
  BY <1>1, <1>2 DEF Owns
<1>3. CASE serving[p].ws # Operator
  <2>1. EditsOwn(p) /\ BuysReleased(p) /\ SeatsNobody(p) /\ MakesNew(p)
    BY <1>3 DEF Owns
  <2>2. EditsOwn(p)'
    <3>1. Past(p)' => Past(p)
      BY <1>1 DEF Past
    <3>2. OwnsTarget(p) => OwnsTarget(p)'
      BY OwnsTargetStays
    <3> QED
      BY <1>1, <2>1, <3>1, <3>2 DEF EditsOwn
  <2>3. MakesNew(p)'
    <3>1. ASSUME NEW t \in Shared, <<t, p>> \in DOMAIN rows' PROVE <<t, p>> \in DOMAIN rows
      <4>1. PICK i : i = <<t, p>>
        OBVIOUS
      <4>2. TableOf(i) \in Shared /\ MakerOf(i) = p
        BY <4>1, RowIdMade
      <4>3. MayWrite(q, i, rows'[i])
        BY <3>1, <4>1 DEF Sound, Steady
      <4> QED
        BY <4>1, <4>2, <4>3, MakersAssumption DEF MayWrite, MayMake
    <3> QED
      BY <1>1, <2>1, <3>1 DEF MakesNew
  <2>4. BuysReleased(p)' /\ SeatsNobody(p)'
    BY <1>1, <2>1 DEF BuysReleased, SeatsNobody, Asks
  <2> QED
    BY <2>2, <2>3, <2>4 DEF Owns
<1> QED
  BY <1>2, <1>3

\* What an edit may do to its own place: take its row, go on with it, or end.
Continues(q) ==
  \/ serving'[q].at = "done"
  \/ At(q, "start") /\ Mine(q) /\ serving'[q].read = rows[Target(q)]
  \/ serving[q].at \notin {"start", "done"} /\ serving'[q].read = serving[q].read

LEMMA ContinuesOwn ==
  ASSUME IInv, NEW q \in Requests, Sound(q), Owns(q), serving[q].ws # Operator, serving[q].kind \notin Makers,
         serving[q].kind \in Editing => Continues(q), SeatsNobody(q)'
  PROVE  Owns(q)'
<1>1. serving'[q].kind = serving[q].kind /\ serving'[q].ws = serving[q].ws /\ serving'[q].id = serving[q].id
  BY DEF Sound, Advance
<1>2. EditsOwn(q)
  BY DEF Owns
<1>3. ASSUME Past(q)' PROVE OwnsTarget(q)' /\ (serving[q].kind \in EditingShared => serving'[q].read.ws = serving[q].ws)
  <2>1. serving[q].kind \in Editing /\ Continues(q) /\ serving'[q].at # "done"
    BY <1>1, <1>3 DEF Past
  <2>2. CASE Mine(q) /\ serving'[q].read = rows[Target(q)]
    <3>1. OwnerKept(rows, Target(q)) /\ RowStored(rows, Target(q)) /\ rows[Target(q)].ws = serving[q].ws
      BY <2>2 DEF Mine, IInv, Sane, WellStored, OwnersIn
    <3>2. OwnsTarget(q)
      BY <3>1 DEF OwnsTarget, OwnerKept, RowStored
    <3> QED
      BY <2>2, <3>1, <3>2, OwnsTargetStays
  <2>3. CASE serving[q].at \notin {"start", "done"} /\ serving'[q].read = serving[q].read
    <3>1. Past(q)
      BY <2>1, <2>3 DEF Past
    <3> QED
      BY <1>2, <2>3, <3>1, OwnsTargetStays DEF EditsOwn
  <2> QED
    BY <2>1, <2>2, <2>3 DEF Continues
<1>4. EditsOwn(q)'
  BY <1>1, <1>3 DEF EditsOwn
<1>5. BuysReleased(q)' /\ MakesNew(q)'
  BY <1>1 DEF BuysReleased, MakesNew, Makers, Asks
<1> QED
  BY <1>4, <1>5 DEF Owns

-----------------------------------------------------------------------------
(* The statements, as the caller's own changes.                             *)

LEMMA KeepQuiet ==
  ASSUME NEW q \in Requests, UNCHANGED <<rows, seat, caps>>
  PROVE  KeepsToOwn(q)
BY DEF KeepsToOwn

\* A row written is the caller's before and after, or a way across.
MayPut(q, i, row) ==
  IF i \in DOMAIN rows THEN (rows[i].ws = serving[q].ws /\ row.ws = rows[i].ws) \/ Across(q, i)
  ELSE row.ws = serving[q].ws

LEMMA KeepWith ==
  ASSUME NEW q \in Requests, NEW i, NEW row, rows' = With(rows, i, row), UNCHANGED <<seat, caps>>, MayPut(q, i, row)
  PROVE  KeepsToOwn(q)
<1>1. DOMAIN rows' = DOMAIN rows \cup {i} /\ \A j \in DOMAIN rows' : rows'[j] = IF j = i THEN row ELSE rows[j]
  BY DEF With
<1>2. OwnChange(q, i)
  BY <1>1 DEF OwnChange, MayPut
<1> QED
  BY <1>1, <1>2 DEF KeepsToOwn

LEMMA KeepPut ==
  ASSUME NEW q \in Requests, NEW here, NEW i, NEW row, NEW next, Put(q, here, i, row, next), MayPut(q, i, row)
  PROVE  KeepsToOwn(q)
BY KeepWith, KeepQuiet DEF Put

\* A deletion of the caller's row, with what cascades from it.
LEMMA KeepCut ==
  ASSUME IInv, NEW q \in Requests, NEW i \in DOMAIN rows, rows[i].ws = serving[q].ws, rows' = Without(Fallen(i)),
         UNCHANGED <<seat, caps>>
  PROVE  KeepsToOwn(q)
<1>1. DOMAIN rows' = DOMAIN rows \ Fallen(i)
  BY DEF Without
<1>2. i \in Fallen(i) /\ \A j \in Fallen(i) : j = i \/ (j \in DOMAIN rows /\ rows[j].link = i)
  BY DEF Fallen
<1>3. ASSUME NEW j \in DOMAIN rows, j \notin DOMAIN rows' PROVE OwnChange(q, j)
  BY <1>1, <1>2, <1>3 DEF OwnChange, Across
<1>4. ASSUME NEW j \in DOMAIN rows, j \in DOMAIN rows', rows'[j] # rows[j] PROVE OwnChange(q, j)
  <2>1. rows[j].link \in Fallen(i)
    BY <1>1, <1>4 DEF Without
  <2>2. rows[j].link \in DOMAIN rows /\ rows[j].link \notin DOMAIN rows'
    BY <1>1, <1>2, <2>1
  <2> QED
    BY <2>2 DEF OwnChange, Across
<1> QED
  BY <1>1, <1>3, <1>4 DEF KeepsToOwn

\* A statement that deletes exactly the caller's rows it names.
LEMMA KeepErase ==
  ASSUME IInv, NEW q \in Requests, NEW here, NEW gone, NEW next, Erase(q, here, gone, next),
         gone \subseteq DOMAIN rows, \A i \in gone : rows[i].ws = serving[q].ws
  PROVE  KeepsToOwn(q)
<1>1. DOMAIN rows' = DOMAIN rows \ gone
  BY DEF Erase, Without
<1>2. ASSUME NEW j \in DOMAIN rows, j \notin DOMAIN rows' PROVE OwnChange(q, j)
  BY <1>1, <1>2 DEF OwnChange
<1>3. ASSUME NEW j \in DOMAIN rows, j \in DOMAIN rows', rows'[j] # rows[j] PROVE OwnChange(q, j)
  <2>1. rows[j].link \in gone
    BY <1>1, <1>3 DEF Erase, Without
  <2> QED
    BY <1>1, <2>1 DEF OwnChange, Across
<1> QED
  BY <1>1, <1>2, <1>3 DEF Erase, KeepsToOwn

LEMMA KeepDelete ==
  ASSUME IInv, NEW q \in Requests, NEW here, Remove(q, here) \/ Delete(q, here)
  PROVE  KeepsToOwn(q)
BY KeepCut, KeepQuiet DEF Delete, Remove, Missing, Mine, tables

LEMMA KeepLink ==
  ASSUME NEW q \in Requests, NEW here, NEW pair, NEW next, Link(q, here, pair, next) \/ JoinList(q, pair)
  PROVE  KeepsToOwn(q)
BY KeepQuiet DEF Link, JoinList

LEMMA KeepChecks ==
  ASSUME NEW q \in Requests, NEW here, NEW next, NEW found, NEW i,
         \/ Finish(q, here) \/ Refuse(q, here) \/ Show(q, here, found) \/ Look(q, here, found, next)
         \/ Fetch(q, here, next) \/ Missing(q, here) \/ GetRow(q) \/ FetchTicket(q, here, next)
         \/ ReadStored(q, here, next) \/ ReadDoc(q, here, next) \/ Encrypt(q, here, next) \/ Reread(q, here, i, next)
         \/ Gate(q, here, i, next) \/ CheckFlag(q, here, i, next)
  PROVE  KeepsToOwn(q)
<1>1. UNCHANGED tables
  BY DEF Finish, Refuse, Show, Look, Fetch, Lookup, Missing, GetRow, FetchTicket, ReadStored, ReadDoc, Encrypt, Reread,
         Gate, ReadPlan, ReadLimit, CountUsage, CheckFlag
<1> QED
  BY <1>1, KeepQuiet DEF tables

\* A row of the request's own, in a table whose rows do not change hands.
LEMMA MayMakeOwn ==
  ASSUME IInv, NEW q \in Requests, NEW t, t \notin Personal \cup Shared, NEW row, row.ws = serving[q].ws
  PROVE  MayPut(q, <<t, q>>, row)
<1> DEFINE i == <<t, q>>
<1>1. TableOf(i) = t /\ MakerOf(i) = q
  BY RowIdMade
<1>2. Tied(i) /\ Issuer(i) = serving[q].ws
  BY <1>1, MakersAssumption DEF Tied, Issuer
<1> HIDE DEF i
<1>3. i \in DOMAIN rows => rows[i].ws = serving[q].ws
  BY <1>2 DEF IInv, Sane, OwnersIn, OwnerKept
<1>4. MayPut(q, i, row)
  BY <1>3 DEF MayPut
<1> QED
  BY <1>4 DEF i

LEMMA KeepInsert ==
  ASSUME IInv, NEW q \in Requests, NEW here, NEW t, t \notin Personal \cup Shared, NEW state, NEW flag, NEW next,
         \/ Insert(q, here, t, state, flag, next) \/ Creation(q, here, t, state, flag)
         \/ GatedCreation(q, t, state, flag)
  PROVE  KeepsToOwn(q)
<1>1. NewRow(q, state, flag).ws = serving[q].ws
  BY DEF NewRow
<1>2. MayPut(q, <<t, q>>, NewRow(q, state, flag))
  BY <1>1, MayMakeOwn
<1>3. ASSUME NEW h, NEW nx, Insert(q, h, t, state, flag, nx) PROVE KeepsToOwn(q)
  BY <1>2, <1>3, KeepPut DEF Insert
<1> QED
  BY <1>3, KeepChecks DEF Creation, GatedCreation

-----------------------------------------------------------------------------
(* An edit: it writes by the id alone what it has fetched as the caller's.   *)

Keeps(q) == KeepsToOwn(q) /\ (serving[q].kind \in Editing => Continues(q))

\* The kinds whose row may have passed to another workspace meanwhile.
LEMMA EditedTables ==
  ASSUME IInv, NEW q \in Requests, serving[q].kind \in Editing, Target(q) \in RowIds({TableOf(Target(q))}),
         TableOf(Target(q)) \in Shared
  PROVE  serving[q].kind \in EditingShared
<1>1. JobFits(serving[q])
  BY DEF IInv, RequestOK
<1>2. CASE TableOf(Target(q)) = "phone_numbers"
  <2>1. serving[q].id \in RowIds({"phone_numbers"})
    BY <1>2 DEF Target
  <2> QED
    BY <1>1, <2>1 DEF JobFits, EditingShared
<1>3. CASE TableOf(Target(q)) = "users"
  <2>1. serving[q].id \in RowIds({"users"})
    BY <1>3 DEF Target
  <2>2. serving[q].kind = "remove_member"
    BY <1>1, <2>1 DEF JobFits
  <2> QED
    BY <2>2 DEF Editing, MergingEdits, NamingEdits
<1>4. CASE TableOf(Target(q)) = "portfolio_companies"
  <2>1. serving[q].id \in RowIds({"portfolio_companies"})
    BY <1>4 DEF Target
  <2>2. serving[q].kind \in OnCompanies \cup OfCompanies
    BY <1>1, <2>1 DEF JobFits
  <2> QED
    BY <2>2 DEF Editing, MergingEdits, NamingEdits, EditingShared, OnCompanies, OfCompanies, OfOperator
<1> QED
  BY <1>2, <1>3, <1>4 DEF Shared

LEMMA KeepEdited ==
  ASSUME IInv, NEW q \in Requests, Owns(q), serving[q].ws # Operator, Past(q), NEW row,
         Target(q) \in DOMAIN rows, row.ws = rows[Target(q)].ws
  PROVE  MayPut(q, Target(q), row)
<1>1. OwnsTarget(q) /\ (serving[q].kind \in EditingShared => serving[q].read.ws = serving[q].ws)
  BY DEF Owns, EditsOwn
<1>2. CASE TableOf(Target(q)) \in Shared
  <2>1. serving[q].kind \in EditingShared
    BY <1>1, <1>2, EditedTables DEF OwnsTarget, Past
  <2> QED
    BY <1>1, <2>1 DEF MayPut, Across, EditingShared
<1>3. CASE TableOf(Target(q)) \notin Shared
  BY <1>1, <1>3 DEF OwnsTarget, MayPut
<1> QED
  BY <1>2, <1>3

LEMMA EditsChange ==
  ASSUME IInv, NEW q \in Requests, Owns(q), serving[q].ws # Operator, serving[q].kind \in Editing,
         NEW here, here \notin {"start", "done"}, NEW row, NEW next, Change(q, here, row, next),
         Target(q) \in DOMAIN rows => row.ws = rows[Target(q)].ws
  PROVE  Keeps(q)
<1>1. Past(q)
  BY DEF Past, Change, ChangeRow, Put, At
<1>2. KeepsToOwn(q)
  <2>1. CASE Target(q) \in DOMAIN rows
    BY <1>1, <2>1, KeepEdited, KeepPut DEF Change, ChangeRow
  <2>2. CASE Target(q) \notin DOMAIN rows
    BY <2>2, KeepQuiet DEF Change, ChangeRow, tables
  <2> QED
    BY <2>1, <2>2
<1>3. serving'[q].read = serving[q].read
  BY MovesHold DEF Change, ChangeRow, Put
<1> QED
  BY <1>1, <1>2, <1>3 DEF Keeps, Continues, Past

LEMMA EditsFetch ==
  ASSUME IInv, NEW q \in Requests, serving[q].ws # Operator, NEW next,
         Fetch(q, "start", next) \/ FetchTicket(q, "start", next)
  PROVE  Keeps(q)
<1>1. KeepsToOwn(q)
  BY KeepQuiet DEF Fetch, Lookup, Missing, FetchTicket, tables
<1>2. CASE Lookup(q, "start", next)
  <2>1. serving'[q].read = rows[Target(q)]
    BY <1>2 DEF Lookup, IInv, RequestOK, Fields
  <2> QED
    BY <1>1, <1>2, <2>1 DEF Keeps, Continues, Lookup
<1>3. CASE At(q, "start") /\ Visible(q) /\ serving' = [serving EXCEPT ![q].at = next, ![q].read = rows[Target(q)]]
  <2>1. serving'[q].read = rows[Target(q)] /\ Mine(q)
    BY <1>3 DEF Visible, IsOperator, IInv, RequestOK, Fields
  <2> QED
    BY <1>1, <1>3, <2>1 DEF Keeps, Continues
<1>4. CASE Ends(q, "refused")
  <2>1. serving'[q].at = "done"
    BY <1>4, MovesHold
  <2> QED
    BY <1>1, <2>1 DEF Keeps, Continues
<1> QED
  BY <1>2, <1>3, <1>4 DEF Fetch, Missing, FetchTicket

LEMMA EditsCheck ==
  ASSUME IInv, NEW q \in Requests, NEW here, here # "done", NEW next, NEW i,
         \/ Finish(q, here) \/ Refuse(q, here) \/ Missing(q, here)
         \/ (here # "start" /\ (Encrypt(q, here, next) \/ Reread(q, here, i, next)))
  PROVE  Keeps(q)
<1>1. KeepsToOwn(q)
  BY KeepChecks
<1>2. CASE Finish(q, here) \/ Refuse(q, here) \/ Missing(q, here)
  <2>1. serving'[q].at = "done"
    BY <1>2, MovesHold DEF Finish, Refuse, Missing
  <2> QED
    BY <1>1, <2>1 DEF Keeps, Continues
<1>3. CASE here # "start" /\ (Encrypt(q, here, next) \/ Reread(q, here, i, next))
  <2>1. serving'[q].read = serving[q].read /\ serving[q].at = here
    BY <1>3, MovesHold DEF Encrypt, Reread, At
  <2> QED
    BY <1>1, <1>3, <2>1 DEF Keeps, Continues
<1> QED
  BY <1>2, <1>3

\* A move between two statements, or an end.
LEMMA EditsMove ==
  ASSUME IInv, NEW q \in Requests, serving[q].at \notin {"start", "done"}, NEW next,
         Goes(q, next) \/ \E answer \in {"ok", "refused", "failed"} : Ends(q, answer),
         UNCHANGED <<rows, seat, caps>>
  PROVE  Keeps(q)
<1>1. serving'[q].read = serving[q].read
  BY MovesHold
<1> QED
  BY <1>1, KeepQuiet DEF Keeps, Continues

LEMMA EditsKeep ==
  ASSUME IInv, NEW q \in Requests, Owns(q), serving[q].ws # Operator, serving[q].kind \in Editing,
         MergingEdit(q) \/ NamedEdit(q)
  PROVE  Keeps(q)
<1>1. ASSUME Change(q, "write", Merged(q), "reread") PROVE Keeps(q)
  BY <1>1, EditsChange, EditsKeepOwner
<1>2. ASSUME Change(q, "write", Named(q), "reread") PROVE Keeps(q)
  BY <1>2, EditsChange, EditsKeepOwner
<1>3. ASSUME Fetch(q, "start", "write") PROVE Keeps(q)
  BY <1>3, EditsFetch
<1>4. ASSUME Reread(q, "reread", Target(q), "done") PROVE Keeps(q)
  BY <1>4, EditsCheck
<1> QED
  BY <1>1, <1>2, <1>3, <1>4 DEF MergingEdit, NamedEdit

-----------------------------------------------------------------------------
(* The handlers, module by module.                                          *)

\* The kinds of which no more is known than that they edit nothing here.
LEMMA KeepOthers ==
  ASSUME NEW q \in Requests, KeepsToOwn(q), serving[q].kind \notin Editing
  PROVE  Keeps(q)
BY DEF Keeps

LEMMA RecordKeepsOwn ==
  ASSUME IInv, NEW q \in Requests, Owns(q), serving[q].ws # Operator, ServeRecord(q)
  PROVE  Keeps(q) /\ serving[q].kind \notin Makers \cup {"update_ticket"}
<1> USE DEF Asks
<1>1. ASSUME \/ UpdateCall(q) \/ UpdateContact(q) \/ UpdateCustomField(q) \/ UpdateClient(q) \/ UpdateDeal(q)
             \/ UpdateEvent(q) \/ UpdateFollowUp(q) \/ MoveStage(q)
      PROVE  Keeps(q) /\ serving[q].kind \notin Makers \cup {"update_ticket"}
  <2>1. serving[q].kind \in Editing /\ serving[q].kind \notin Makers \cup {"update_ticket"}
    BY <1>1 DEF UpdateCall, UpdateContact, UpdateCustomField, UpdateClient, UpdateDeal, UpdateEvent, UpdateFollowUp,
         MoveStage, Editing, MergingEdits, NamingEdits, OnDocuments, OfOperator, OnCompanies, Makers
  <2>2. ASSUME NEW next, Change(q, "stage", Named(q), next) PROVE Keeps(q)
    BY <2>1, <2>2, EditsChange, EditsKeepOwner
  <2>3. ASSUME Change(q, "won", [rows[Target(q)] EXCEPT !.flag = "on"], "answer") PROVE Keeps(q)
    <3>1. Target(q) \in DOMAIN rows => [rows[Target(q)] EXCEPT !.flag = "on"].ws = rows[Target(q)].ws
      BY EditsKeepOwner DEF Columns
    <3> QED
      BY <2>1, <2>3, <3>1, EditsChange
  <2>4. ASSUME NEW here, here # "done", Refuse(q, here) \/ Finish(q, here) PROVE Keeps(q)
    BY <2>4, EditsCheck
  <2>5. ASSUME MoveStage(q) PROVE Keeps(q)
    BY <2>2, <2>3, <2>4, <2>5, EditsFetch DEF MoveStage
  <2>6. MergingEdit(q) => Keeps(q)
    BY <2>1, EditsKeep
  <2> QED
    BY <1>1, <2>1, <2>4, <2>5, <2>6 DEF UpdateCall, UpdateContact, UpdateCustomField, UpdateClient, UpdateDeal,
         UpdateEvent, UpdateFollowUp
<1>2. ASSUME \/ ListCalls(q) \/ ListContacts(q) \/ ExportContacts(q) \/ SearchContacts(q) \/ ListCustomFields(q)
             \/ ListClients(q) \/ ListDeals(q) \/ ListEvents(q) \/ ListFollowUps(q) \/ ListContactsWithFields(q)
             \/ GetCall(q) \/ GetContact(q) \/ GetClient(q) \/ GetDeal(q) \/ GetEvent(q) \/ GetContactWithFields(q)
             \/ CreateCall(q) \/ CreateDeal(q) \/ CreateFollowUp(q) \/ CreateContact(q) \/ CreateCustomField(q)
             \/ CreateClient(q) \/ CreateEvent(q) \/ RespondToCall(q) \/ RecordCall(q) \/ UpdateContactFieldValue(q)
             \/ DeleteCall(q) \/ DeleteContact(q) \/ DeleteCustomField(q) \/ DeleteClient(q) \/ DeleteDeal(q)
             \/ DeleteEvent(q) \/ DeleteFollowUp(q)
      PROVE  Keeps(q) /\ serving[q].kind \notin Makers \cup {"update_ticket"}
  <2>1. serving[q].kind \notin Editing /\ serving[q].kind \notin Makers \cup {"update_ticket"}
    BY <1>2 DEF ListCalls, ListContacts, ExportContacts, SearchContacts, ListCustomFields, ListClients, ListDeals,
         ListEvents, ListFollowUps, ListContactsWithFields, GetCall, GetContact, GetClient, GetDeal, GetEvent,
         GetContactWithFields, CreateCall, CreateDeal, CreateFollowUp, CreateContact, CreateCustomField, CreateClient,
         CreateEvent, RespondToCall, RecordCall, UpdateContactFieldValue, DeleteCall, DeleteContact, DeleteCustomField,
         DeleteClient, DeleteDeal, DeleteEvent, DeleteFollowUp, Editing, MergingEdits, NamingEdits, Makers
  <2>2. ASSUME \/ ListCalls(q) \/ ListContacts(q) \/ ExportContacts(q) \/ SearchContacts(q) \/ ListCustomFields(q)
               \/ ListClients(q) \/ ListDeals(q) \/ ListEvents(q) \/ ListFollowUps(q) \/ ListContactsWithFields(q)
               \/ GetCall(q) \/ GetContact(q) \/ GetClient(q) \/ GetDeal(q) \/ GetEvent(q) \/ GetContactWithFields(q)
        PROVE  KeepsToOwn(q)
    BY <2>2, KeepChecks DEF ListCalls, ListContacts, ExportContacts, SearchContacts, ListCustomFields, ListClients,
         ListDeals, ListEvents, ListFollowUps, ListContactsWithFields, GetCall, GetContact, GetClient, GetDeal,
         GetEvent, GetContactWithFields
  <2>3. ASSUME \/ CreateCall(q) \/ CreateDeal(q) \/ CreateFollowUp(q) \/ CreateContact(q) \/ CreateCustomField(q)
               \/ CreateClient(q) \/ CreateEvent(q)
        PROVE  KeepsToOwn(q)
    BY <2>3, KeepInsert, KeepChecks DEF CreateCall, CreateDeal, CreateFollowUp, CreateContact, CheckEmail,
         CreateCustomField, CreateClient, CreateEvent, Personal, Shared
  <2>4. ASSUME \/ DeleteCall(q) \/ DeleteContact(q) \/ DeleteCustomField(q) \/ DeleteClient(q) \/ DeleteDeal(q)
               \/ DeleteEvent(q) \/ DeleteFollowUp(q)
        PROVE  KeepsToOwn(q)
    BY <2>4, KeepDelete DEF DeleteCall, DeleteContact, DeleteCustomField, DeleteClient, DeleteDeal, DeleteEvent,
         DeleteFollowUp
  <2>5. ASSUME RespondToCall(q) PROVE KeepsToOwn(q)
    <3>1. [NewRow(q, "pending", "on") EXCEPT !.link = Target(q)].ws = serving[q].ws
      BY DEF NewRow
    <3>2. MayPut(q, <<"follow_ups", q>>, [NewRow(q, "pending", "on") EXCEPT !.link = Target(q)])
      BY <3>1, MayMakeOwn DEF Personal, Shared
    <3> QED
      BY <2>5, <3>2, KeepPut, KeepChecks DEF RespondToCall
  <2>8. ASSUME RecordCall(q) PROVE KeepsToOwn(q)
    <3>1. [NewRow(q, "pending", "on") EXCEPT !.link = <<"calls", q>>].ws = serving[q].ws
      BY DEF NewRow
    <3>2. MayPut(q, <<"follow_ups", q>>, [NewRow(q, "pending", "on") EXCEPT !.link = <<"calls", q>>])
      BY <3>1, MayMakeOwn DEF Personal, Shared
    <3> QED
      BY <2>8, <3>2, KeepPut, KeepInsert, KeepChecks DEF RecordCall, Personal, Shared
  <2>6. ASSUME UpdateContactFieldValue(q) PROVE KeepsToOwn(q)
    BY <2>6, KeepLink, KeepChecks, KeepQuiet DEF UpdateContactFieldValue, tables
  <2>7. KeepsToOwn(q)
    BY <1>2, <2>2, <2>3, <2>4, <2>5, <2>6, <2>8
  <2> QED
    BY <2>1, <2>7, KeepOthers
<1> QED
  BY <1>1, <1>2 DEF ServeRecord

\* The creates in the shared tables: on the way to a row that is not there, or past it.
PastMaking == {"answer", "mail", "done"}
MakesOn(q) ==
  \/ serving'[q].at \in PastMaking
  \/ /\ serving[q].at \notin PastMaking
     /\ \A t \in Shared : <<t, q>> \in DOMAIN rows' => <<t, q>> \in DOMAIN rows

LEMMA MakesInsert ==
  ASSUME IInv, NEW q \in Requests, Owns(q), serving[q].ws # Operator, serving[q].kind \in Makers, NEW here,
         here \notin PastMaking, NEW t \in Shared, NEW state, NEW flag, NEW next \in {"answer", "mail"},
         Insert(q, here, t, state, flag, next)
  PROVE  KeepsToOwn(q) /\ MakesOn(q)
<1>1. <<t, q>> \notin DOMAIN rows
  BY DEF Owns, MakesNew, Insert, Put, At, PastMaking
<1>2. MayPut(q, <<t, q>>, NewRow(q, state, flag))
  BY <1>1 DEF MayPut, NewRow
<1>3. KeepsToOwn(q)
  BY <1>2, KeepPut DEF Insert
<1>4. serving'[q].at \in {next, "done"}
  BY MovesHold DEF Insert, Put
<1> QED
  BY <1>3, <1>4 DEF MakesOn, PastMaking

LEMMA MakesCheck ==
  ASSUME IInv, NEW q \in Requests, NEW here, NEW found, NEW next,
         \/ Finish(q, here) \/ Refuse(q, here)
         \/ here \notin PastMaking /\ (Look(q, here, found, next) \/ Gate(q, here, found, next))
  PROVE  KeepsToOwn(q) /\ MakesOn(q)
<1>1. KeepsToOwn(q)
  BY KeepChecks
<1>2. CASE Finish(q, here) \/ Refuse(q, here)
  <2>1. serving'[q].at = "done"
    BY <1>2, MovesHold DEF Finish, Refuse
  <2> QED
    BY <1>1, <2>1 DEF MakesOn, PastMaking
<1>3. CASE here \notin PastMaking /\ (Look(q, here, found, next) \/ Gate(q, here, found, next))
  <2>1. serving[q].at \notin PastMaking /\ rows' = rows
    BY <1>3 DEF Look, Gate, ReadPlan, ReadLimit, CountUsage, At, PastMaking, tables
  <2> QED
    BY <1>1, <2>1 DEF MakesOn
<1> QED
  BY <1>2, <1>3

LEMMA CompanyMakersKeepOwn ==
  ASSUME IInv, NEW q \in Requests, Owns(q), serving[q].ws # Operator, CreateCompany(q) \/ SyncCompany(q)
  PROVE  KeepsToOwn(q) /\ MakesOn(q)
<1> USE DEF Asks
<1>1. serving[q].kind \in Makers
  BY DEF CreateCompany, SyncCompany, Makers
<1>2. ASSUME NEW here, Refuse(q, here) \/ Finish(q, here) PROVE KeepsToOwn(q) /\ MakesOn(q)
  BY <1>2, MakesCheck
<1>3. ASSUME Gate(q, "start", "portfolio_companies", "insert") PROVE KeepsToOwn(q) /\ MakesOn(q)
  BY <1>3, MakesCheck DEF PastMaking
<1>4. ASSUME Insert(q, "insert", "portfolio_companies", "unset", "on", "answer") PROVE KeepsToOwn(q) /\ MakesOn(q)
  BY <1>1, <1>4, MakesInsert DEF PastMaking, Shared
<1>5. ASSUME SyncCompany(q), ClaimWorkspace(q) PROVE KeepsToOwn(q) /\ MakesOn(q)
  <2>1. Target(q) = Home(serving[q].ws) /\ serving[q].ws \in Workspaces
    BY <1>5 DEF SyncCompany, IInv, RequestOK, JobFits, Target, OfVisitors
  <2>2. TableOf(Target(q)) = "tenants" /\ MakerOf(Target(q)) = serving[q].ws
    BY <2>1, RowIdMade DEF Home
  <2>3. Target(q) \in DOMAIN rows => DOMAIN rows[Target(q)] = Columns \cup {"ws"} /\ rows[Target(q)].ws = serving[q].ws
    BY <2>2 DEF IInv, Sane, WellStored, RowStored, Personal
  <2>4. MayPut(q, Target(q), Claimed(q))
    <3>1. Claimed(q).ws = serving[q].ws
      BY <2>3 DEF Claimed, Columns
    <3> QED
      BY <2>3, <3>1 DEF MayPut
  <2>5. KeepsToOwn(q)
    BY <1>5, <2>4, KeepWith, KeepQuiet DEF ClaimWorkspace
  <2>6. \A t \in Shared : <<t, q>> \in DOMAIN rows' => <<t, q>> \in DOMAIN rows
    BY <1>5, <2>1 DEF ClaimWorkspace, With, Home, Shared
  <2> QED
    BY <1>5, <2>5, <2>6 DEF MakesOn, ClaimWorkspace, At, PastMaking
<1> QED
  BY <1>2, <1>3, <1>4, <1>5 DEF CreateCompany, SyncCompany

LEMMA AutomationKeepsOwn ==
  ASSUME IInv, NEW q \in Requests, Owns(q), serving[q].ws # Operator, ServeAutomation(q)
  PROVE  /\ Keeps(q) /\ (serving[q].kind \in Makers => MakesOn(q))
         /\ serving[q].kind \notin {"update_ticket", "purchase_number"}
<1> USE DEF Asks
<1>1. ASSUME \/ UpdateRule(q) \/ UpdateTemplate(q) \/ UpdateIntegration(q) \/ UpdateTarget(q) \/ UpdateCompany(q)
             \/ UpdateSmtp(q) \/ UpdateEmailTrigger(q) \/ UpdateRedirect(q) \/ UpdateExport(q) \/ UpdateImport(q)
      PROVE  Keeps(q) /\ serving[q].kind \notin Makers \cup {"update_ticket"}
  <2>1. serving[q].kind \in Editing /\ serving[q].kind \notin Makers \cup {"update_ticket"}
    BY <1>1 DEF UpdateRule, UpdateTemplate, UpdateIntegration, UpdateTarget, UpdateCompany, UpdateSmtp,
         UpdateEmailTrigger, UpdateRedirect, UpdateExport, UpdateImport,
         Editing, MergingEdits, NamingEdits, OnDocuments, OfOperator, OnCompanies, Makers
  <2>2. ASSUME Change(q, "write", Named(q), "reread") PROVE Keeps(q)
    BY <2>1, <2>2, EditsChange, EditsKeepOwner
  <2>3. ASSUME Change(q, "write", Reactivated(q), "reread") PROVE Keeps(q)
    <3>1. Target(q) \in DOMAIN rows => Reactivated(q).ws = rows[Target(q)].ws
      BY EditsKeepOwner DEF Reactivated, Columns
    <3> QED
      BY <2>1, <2>3, <3>1, EditsChange
  <2>4. ASSUME Change(q, "write", [rows[Target(q)] EXCEPT !.state = serving[q].val], "answer") PROVE Keeps(q)
    <3>1. Target(q) \in DOMAIN rows => [rows[Target(q)] EXCEPT !.state = serving[q].val].ws = rows[Target(q)].ws
      BY EditsKeepOwner DEF Columns
    <3> QED
      BY <2>1, <2>4, <3>1, EditsChange
  <2>5. ASSUME NEW here, here # "done", Refuse(q, here) \/ Finish(q, here) PROVE Keeps(q)
    BY <2>5, EditsCheck
  <2>6. ASSUME NEW next, NEW i, Encrypt(q, "encrypt", next) \/ Reread(q, "reread", i, next) PROVE Keeps(q)
    BY <2>6, EditsCheck
  <2>7. ASSUME UpdateTarget(q) \/ UpdateCompany(q) \/ UpdateSmtp(q) PROVE Keeps(q)
    BY <2>2, <2>3, <2>4, <2>5, <2>6, <2>7, EditsFetch DEF UpdateTarget, UpdateCompany, UpdateSmtp
  <2>8. MergingEdit(q) => Keeps(q)
    BY <2>1, EditsKeep
  <2> QED
    BY <1>1, <2>1, <2>5, <2>7, <2>8 DEF UpdateRule, UpdateTemplate, UpdateIntegration, UpdateEmailTrigger,
         UpdateRedirect, UpdateExport, UpdateImport
<1>2. ASSUME CreateCompany(q) \/ SyncCompany(q)
      PROVE  Keeps(q) /\ MakesOn(q) /\ serving[q].kind \notin {"update_ticket", "purchase_number"}
  <2>1. serving[q].kind \notin Editing /\ serving[q].kind \notin {"update_ticket", "purchase_number"}
    BY <1>2 DEF CreateCompany, SyncCompany, Editing, MergingEdits, NamingEdits
  <2> QED
    BY <1>2, <2>1, CompanyMakersKeepOwn, KeepOthers
<1>3. ASSUME \/ ListRules(q) \/ ListTemplates(q) \/ ListIntegrations(q) \/ ListTargets(q) \/ ListCompanies(q)
             \/ ListEmailTriggers(q) \/ ListRedirects(q) \/ ListExports(q) \/ ListImports(q)
             \/ TestIntegration(q) \/ GetCompany(q) \/ GetSmtp(q) \/ GetEmailTrigger(q) \/ GetRedirect(q)
             \/ GetExport(q) \/ GetImport(q)
      PROVE  Keeps(q) /\ serving[q].kind \notin Makers \cup {"update_ticket"}
  <2>1. serving[q].kind \notin Editing /\ serving[q].kind \notin Makers \cup {"update_ticket"}
    BY <1>3 DEF ListRules, ListTemplates, ListIntegrations, ListTargets, ListCompanies, ListEmailTriggers, ListRedirects,
         ListExports, ListImports, TestIntegration, GetCompany, GetSmtp, GetEmailTrigger, GetRedirect, GetExport,
         GetImport, Editing, MergingEdits, NamingEdits, Makers
  <2>2. KeepsToOwn(q)
    BY <1>3, KeepChecks DEF ListRules, ListTemplates, ListIntegrations, ListTargets, ListCompanies, ListEmailTriggers,
         ListRedirects, ListExports, ListImports, TestIntegration, GetCompany, GetSmtp, GetEmailTrigger, GetRedirect,
         GetExport, GetImport
  <2> QED
    BY <2>1, <2>2, KeepOthers
<1>4. ASSUME \/ CreateRule(q) \/ CreateTemplate(q) \/ CreateIntegration(q) \/ CreateTarget(q)
             \/ CreateEmailTrigger(q) \/ CreateRedirect(q) \/ CreateExport(q) \/ CreateImport(q)
             \/ DeleteRule(q) \/ DeleteTemplate(q) \/ DeleteIntegration(q) \/ DeleteTarget(q) \/ DeleteCompany(q)
             \/ DeleteEmailTrigger(q) \/ DeleteRedirect(q) \/ DeleteExport(q) \/ DeleteImport(q)
      PROVE  Keeps(q) /\ serving[q].kind \notin Makers \cup {"update_ticket"}
  <2>1. serving[q].kind \notin Editing /\ serving[q].kind \notin Makers \cup {"update_ticket"}
    BY <1>4 DEF CreateRule, CreateTemplate, CreateIntegration, CreateTarget, CreateEmailTrigger, CreateRedirect,
         CreateExport, CreateImport, DeleteRule, DeleteTemplate, DeleteIntegration, DeleteTarget, DeleteCompany,
         DeleteEmailTrigger, DeleteRedirect, DeleteExport, DeleteImport, Editing, MergingEdits, NamingEdits, Makers
  <2>2. ASSUME \/ CreateRule(q) \/ CreateTemplate(q) \/ CreateIntegration(q) \/ CreateTarget(q)
               \/ CreateEmailTrigger(q) \/ CreateRedirect(q) \/ CreateExport(q) \/ CreateImport(q)
        PROVE  KeepsToOwn(q)
    BY <2>2, KeepInsert, KeepChecks DEF CreateRule, CreateTemplate, CreateIntegration, CreateTarget,
         CreateEmailTrigger, CreateRedirect, CreateExport, CreateImport, Personal, Shared
  <2>3. ASSUME \/ DeleteRule(q) \/ DeleteTemplate(q) \/ DeleteIntegration(q) \/ DeleteTarget(q) \/ DeleteCompany(q)
               \/ DeleteEmailTrigger(q) \/ DeleteRedirect(q) \/ DeleteExport(q) \/ DeleteImport(q)
        PROVE  KeepsToOwn(q)
    BY <2>3, KeepDelete, KeepChecks DEF DeleteRule, DeleteTemplate, DeleteIntegration, DeleteTarget, DeleteCompany,
         DeleteEmailTrigger, DeleteRedirect, DeleteExport, DeleteImport
  <2> QED
    BY <1>4, <2>1, <2>2, <2>3, KeepOthers
<1>5. "purchase_number" \in Makers
  BY DEF Makers
<1> QED
  BY <1>1, <1>2, <1>3, <1>4, <1>5 DEF ServeAutomation

\* The row of the caller's workspace in a table keyed by it.
LEMMA MayPutPersonal ==
  ASSUME IInv, NEW q \in Requests, NEW i, TableOf(i) \in Personal, MakerOf(i) = serving[q].ws, NEW row,
         row.ws = serving[q].ws
  PROVE  MayPut(q, i, row)
BY DEF MayPut, IInv, Sane, WellStored, RowStored

LEMMA NotTheOperators ==
  ASSUME IInv, NEW q \in Requests, serving[q].ws # Operator
  PROVE  serving[q].kind \notin OfOperator
BY DEF IInv, RequestOK, JobFits

LEMMA DocumentKeepsOwn ==
  ASSUME IInv, NEW q \in Requests, serving[q].ws # Operator,
         UpdateEmailConfig(q) \/ UpdateSite(q) \/ PutBranding(q) \/ UploadLogo(q) \/ DeleteLogo(q)
  PROVE  KeepsToOwn(q)
<1> USE DEF Asks
<1>1. serving[q].kind \in OnDocuments
  BY DEF OnDocuments, UpdateEmailConfig, UpdateSite, PutBranding, UploadLogo, DeleteLogo
<1>2. ASSUME NEW value, SaveStored(q, "write", value, "answer") PROVE KeepsToOwn(q)
  <2> DEFINE row == [serving[q].read EXCEPT ![serving[q].col] = value]
  <2>1. DOMAIN serving[q].read = Columns \cup {"ws"} /\ serving[q].read.ws = serving[q].ws
    BY <1>1, <1>2 DEF SaveStored, Put, At, IInv, Holds, HoldsRow
  <2>2. serving[q].col \in Columns
    BY DEF IInv, RequestOK, JobFits
  <2>3. row.ws = serving[q].ws
    BY <2>1, <2>2 DEF Columns
  <2>4. MayPut(q, Target(q), row)
    BY <1>1, <2>3, DocumentTarget, MayPutPersonal
  <2> QED
    BY <1>2, <2>4, KeepPut DEF SaveStored
<1>3. LET i == LogoOf(serving[q].ws) IN TableOf(i) \in Personal /\ MakerOf(i) = serving[q].ws
  BY DEF LogoOf, TableOf, MakerOf, Personal
<1>4. ASSUME NEW row, row.ws = serving[q].ws, Put(q, "start", LogoOf(serving[q].ws), row, "doc") PROVE KeepsToOwn(q)
  BY <1>3, <1>4, MayPutPersonal, KeepPut
<1>5. [NewRow(q, "image", "on") EXCEPT !.key = None, !.link = None].ws = serving[q].ws
  BY DEF NewRow
<1>6. ASSUME Erase(q, "start", {LogoOf(serving[q].ws)} \cap DOMAIN rows, "doc") PROVE KeepsToOwn(q)
  <2>1. \A i \in {LogoOf(serving[q].ws)} \cap DOMAIN rows : rows[i].ws = serving[q].ws
    BY <1>3 DEF IInv, Sane, WellStored, RowStored
  <2> QED
    BY <1>6, <2>1, KeepErase
<1>7. ASSUME UpdateEmailConfig(q) \/ UpdateSite(q) PROVE FALSE
  BY <1>7, NotTheOperators DEF UpdateEmailConfig, UpdateSite, OfOperator
<1>8. ASSUME PutBranding(q) PROVE KeepsToOwn(q)
  BY <1>2, <1>8, KeepChecks DEF PutBranding
<1>9. ASSUME UploadLogo(q) PROVE KeepsToOwn(q)
  BY <1>2, <1>4, <1>5, <1>9, KeepChecks DEF UploadLogo
<1>10. ASSUME DeleteLogo(q) PROVE KeepsToOwn(q)
  BY <1>2, <1>6, <1>10, KeepChecks DEF DeleteLogo
<1> QED
  BY <1>7, <1>8, <1>9, <1>10

LEMMA SettingKeepsOwn ==
  ASSUME IInv, NEW q \in Requests, serving[q].ws # Operator, ServeSetting(q)
  PROVE  Keeps(q) /\ serving[q].kind \notin Makers \cup {"update_ticket"}
<1> USE DEF Asks
<1>1. ASSUME \/ CreateEmailTemplate(q) \/ UpdateEmailTemplate(q) \/ DeleteEmailTemplate(q)
             \/ UpsertPaymentProvider(q) \/ DeletePaymentProvider(q)
      PROVE  FALSE
  BY <1>1, NotTheOperators DEF CreateEmailTemplate, UpdateEmailTemplate, DeleteEmailTemplate, UpsertPaymentProvider,
       DeletePaymentProvider, OfOperator
<1>2. ASSUME \/ GetEmailConfig(q) \/ GetSite(q) \/ GetBranding(q) \/ GetLogo(q) \/ ListEmailTemplates(q) \/ ListKeys(q)
             \/ ListPaymentProviders(q)
      PROVE  KeepsToOwn(q)
  BY <1>2, KeepChecks DEF GetEmailConfig, GetSite, GetBranding, GetLogo, ListEmailTemplates, ListKeys,
       ListPaymentProviders
<1>3. ASSUME UpsertKey(q) PROVE KeepsToOwn(q)
  <2>1. LET i == KeyOf(serving[q].ws) IN TableOf(i) \in Personal /\ MakerOf(i) = serving[q].ws
    BY DEF KeyOf, TableOf, MakerOf, Personal
  <2>2. [NewRow(q, "new", "on") EXCEPT !.link = None].ws = serving[q].ws
    BY DEF NewRow
  <2>3. MayPut(q, KeyOf(serving[q].ws), [NewRow(q, "new", "on") EXCEPT !.link = None])
    BY <2>1, <2>2, MayPutPersonal
  <2> QED
    BY <1>3, <2>3, KeepPut, KeepChecks, KeepQuiet DEF UpsertKey, tables
<1>4. ASSUME DeleteKey(q) PROVE KeepsToOwn(q)
  BY <1>4, KeepDelete DEF DeleteKey
<1>5. KeepsToOwn(q)
  BY <1>1, <1>2, <1>3, <1>4, DocumentKeepsOwn DEF ServeSetting
<1>6. serving[q].kind \notin Editing /\ serving[q].kind \notin Makers \cup {"update_ticket"}
  BY <1>1 DEF ServeSetting, GetEmailConfig, UpdateEmailConfig, GetSite, UpdateSite, GetBranding, GetLogo, PutBranding,
       UploadLogo, DeleteLogo, ListEmailTemplates, ListKeys, UpsertKey, DeleteKey, ListPaymentProviders,
       Editing, MergingEdits, NamingEdits, OnDocuments, Makers
<1> QED
  BY <1>5, <1>6, KeepOthers

-----------------------------------------------------------------------------
LEMMA TagGroupKeepsOwn ==
  ASSUME IInv, NEW q \in Requests, DeleteTagGroup(q)
  PROVE  KeepsToOwn(q)
<1>1. ASSUME rows' = Ungrouped(Target(q)), UNCHANGED <<seat, caps>>, Asks(q, "delete_tag_group") PROVE KeepsToOwn(q)
  <2>1. DOMAIN rows' = DOMAIN rows
    BY <1>1 DEF Ungrouped
  <2>2. ASSUME NEW i \in DOMAIN rows, rows'[i] # rows[i] PROVE Across(q, i)
    BY <1>1, <2>2 DEF Ungrouped, Across
  <2> QED
    BY <1>1, <2>1, <2>2 DEF KeepsToOwn, OwnChange
<1> QED
  BY <1>1, KeepDelete DEF DeleteTagGroup

LEMMA ListKeepsOwn ==
  ASSUME IInv, NEW q \in Requests, NEW campaign, NEW next, NEW giveUp,
         EnsureList(q, "list", campaign, next) \/ InsertList(q, campaign, next, giveUp)
  PROVE  KeepsToOwn(q)
<1>1. OwnList(q, campaign).ws = serving[q].ws
  BY DEF OwnList
<1>2. MayPut(q, <<"lists", q>>, OwnList(q, campaign))
  BY <1>1, MayMakeOwn DEF Personal, Shared
<1> QED
  BY <1>2, KeepWith, KeepQuiet DEF EnsureList, InsertList, tables

LEMMA CampaignKeepsOwn ==
  ASSUME IInv, NEW q \in Requests, Owns(q), serving[q].ws # Operator, ServeCampaign(q)
  PROVE  Keeps(q) /\ serving[q].kind \notin Makers \cup {"update_ticket"}
<1> USE DEF Asks
<1>1. ASSUME UpdateLead(q) \/ UpdateList(q) \/ UpdateTag(q) \/ UpdateTagGroup(q) \/ UpdateCampaign(q)
      PROVE  Keeps(q) /\ serving[q].kind \notin Makers \cup {"update_ticket"}
  <2>1. serving[q].kind \in Editing /\ serving[q].kind \notin Makers \cup {"update_ticket"}
    BY <1>1 DEF UpdateLead, UpdateList, UpdateTag, UpdateTagGroup, UpdateCampaign,
         Editing, MergingEdits, NamingEdits, OnDocuments, OfOperator, OnCompanies, Makers
  <2>2. ASSUME NEW here, here # "done", Refuse(q, here) PROVE Keeps(q)
    BY <2>2, EditsCheck
  <2>3. MergingEdit(q) \/ NamedEdit(q) => Keeps(q)
    BY <2>1, EditsKeep
  <2> QED
    BY <1>1, <2>1, <2>2, <2>3 DEF UpdateLead, UpdateList, UpdateTag, UpdateTagGroup, UpdateCampaign
<1>2. ASSUME \/ ListLeads(q) \/ GetLead(q) \/ CreateLead(q) \/ DeleteLead(q) \/ ListLists(q) \/ ShowMembers(q)
             \/ AddLead(q) \/ RemoveLead(q) \/ CreateList(q) \/ DeleteList(q) \/ ListTags(q) \/ GetTag(q)
             \/ CreateTag(q) \/ DeleteTag(q) \/ ListTagGroups(q) \/ GetTagGroup(q) \/ CreateTagGroup(q)
             \/ DeleteTagGroup(q) \/ ListCampaigns(q) \/ GetCampaign(q) \/ CreateCampaign(q) \/ DeleteCampaign(q)
             \/ Activate(q) \/ Pause(q)
      PROVE  Keeps(q) /\ serving[q].kind \notin Makers \cup {"update_ticket"}
  <2>1. serving[q].kind \notin Editing /\ serving[q].kind \notin Makers \cup {"update_ticket"}
    BY <1>2 DEF ListLeads, GetLead, CreateLead, DeleteLead, ListLists, ShowMembers, AddLead, RemoveLead, CreateList,
         DeleteList, ListTags, GetTag, CreateTag, DeleteTag, ListTagGroups, GetTagGroup, CreateTagGroup, DeleteTagGroup,
         ListCampaigns, GetCampaign, CreateCampaign, DeleteCampaign, Activate, Pause,
         Editing, MergingEdits, NamingEdits, Makers
  <2>2. ASSUME \/ ListLeads(q) \/ GetLead(q) \/ ListLists(q) \/ ShowMembers(q) \/ ListTags(q) \/ GetTag(q)
               \/ ListTagGroups(q) \/ GetTagGroup(q) \/ ListCampaigns(q) \/ GetCampaign(q)
        PROVE  KeepsToOwn(q)
    BY <2>2, KeepChecks DEF ListLeads, GetLead, ListLists, ShowMembers, ListTags, GetTag, ListTagGroups, GetTagGroup,
         ListCampaigns, GetCampaign
  <2>3. ASSUME DeleteLead(q) \/ DeleteList(q) \/ DeleteTag(q) \/ DeleteCampaign(q) \/ DeleteTagGroup(q)
        PROVE  KeepsToOwn(q)
    BY <2>3, KeepDelete, TagGroupKeepsOwn DEF DeleteLead, DeleteList, DeleteTag, DeleteCampaign
  <2>4. ASSUME CreateList(q) \/ CreateTag(q) \/ CreateTagGroup(q) PROVE KeepsToOwn(q)
    BY <2>4, KeepInsert, KeepChecks DEF CreateList, CreateTag, CreateTagGroup, Personal, Shared
  <2>5. ASSUME AddLead(q) \/ RemoveLead(q) PROVE KeepsToOwn(q)
    BY <2>5, KeepLink, KeepChecks, KeepQuiet DEF AddLead, RemoveLead
  <2>6. ASSUME CreateLead(q) PROVE KeepsToOwn(q)
    <3>1. RouteLead(q) => KeepsToOwn(q)
      BY KeepQuiet DEF RouteLead, tables
    <3> QED
      BY <2>6, <3>1, ListKeepsOwn, KeepInsert, KeepLink, KeepChecks DEF CreateLead, Personal, Shared
  <2>7. ASSUME CreateCampaign(q) PROVE KeepsToOwn(q)
    BY <2>7, ListKeepsOwn, KeepInsert, KeepQuiet, KeepChecks DEF CreateCampaign, Personal, Shared, tables
  <2>8. ASSUME NEW state, NEW flag, Turn(q, state, flag) PROVE KeepsToOwn(q)
    <3> DEFINE row == [rows[Target(q)] EXCEPT !.state = state, !.flag = flag]
    <3>1. Mine(q) => row.ws = serving[q].ws /\ rows[Target(q)].ws = serving[q].ws /\ Target(q) \in DOMAIN rows
      BY EditsKeepOwner DEF Mine, Columns
    <3>2. Mine(q) => MayPut(q, Target(q), row)
      BY <3>1 DEF MayPut
    <3> QED
      BY <2>8, <3>2, KeepPut, KeepChecks DEF Turn
  <2> QED
    BY <1>2, <2>1, <2>2, <2>3, <2>4, <2>5, <2>6, <2>7, <2>8, KeepOthers DEF Activate, Pause
<1> QED
  BY <1>1, <1>2 DEF ServeCampaign

-----------------------------------------------------------------------------
LEMMA PlanKeepsOwn ==
  ASSUME IInv, NEW q \in Requests, serving[q].ws # Operator, ServePlan(q) \/ ServeAccount(q)
  PROVE  Keeps(q) /\ serving[q].kind \notin Makers \cup {"update_ticket"}
<1> USE DEF Asks
<1>1. ASSUME \/ CreatePlan(q) \/ UpdatePlan(q) \/ DeletePlan(q) \/ MergeFeatures(q) \/ SetEntitlement(q)
             \/ GrantTopTier(q) \/ AssignPlan(q) \/ UpdateProvisioning(q) \/ ServeAccount(q)
      PROVE  FALSE
  BY <1>1, NotTheOperators DEF CreatePlan, UpdatePlan, DeletePlan, MergeFeatures, SetEntitlement, GrantTopTier,
       AssignPlan, UpdateProvisioning, ServeAccount, ProvisionFreeAccount, PortfolioSync, SyncCreate, SyncUpdate,
       SyncDelete, DeleteTenant, BulkDeleteTenants, OfOperator, OnCompanies
<1>2. KeepsToOwn(q)
  BY <1>1, KeepChecks, KeepQuiet DEF ServePlan, ListPlans, ListActivePlans, GetPlan, ShowRegistry, GetProvisioning,
       Lookup, tables
<1>3. serving[q].kind \notin Editing /\ serving[q].kind \notin Makers \cup {"update_ticket"}
  BY <1>1 DEF ServePlan, ListPlans, ListActivePlans, GetPlan, ShowRegistry, GetProvisioning, Editing, MergingEdits,
       NamingEdits, Makers
<1> QED
  BY <1>2, <1>3, KeepOthers

LEMMA UpdateTicketKeepsOwn ==
  ASSUME IInv, NEW q \in Requests, Owns(q), serving[q].ws # Operator, UpdateTicket(q)
  PROVE  Keeps(q) /\ SeatsNobody(q)'
<1> USE DEF Asks
<1>1. serving[q].kind = "update_ticket" /\ serving[q].kind \in Editing
  BY DEF UpdateTicket, Editing, MergingEdits, OnDocuments, OfOperator, OnCompanies
<1>2. serving[q].at \notin {"plan", "seat"}
  BY <1>1 DEF Owns, SeatsNobody
<1>3. ~SeatsPlan(q)
  BY DEF SeatsPlan, IsOperator
<1>4. ASSUME Refuse(q, "start") PROVE Keeps(q) /\ SeatsNobody(q)'
  <2>1. serving'[q].at = "done"
    BY <1>4, MovesHold DEF Refuse
  <2> QED
    BY <1>4, <2>1, EditsCheck DEF SeatsNobody
<1>5. ASSUME FetchTicket(q, "start", "write") PROVE Keeps(q) /\ SeatsNobody(q)'
  <2>1. serving'[q].at \in {"write", "done"}
    BY <1>5, MovesHold DEF FetchTicket, IInv, RequestOK, Fields
  <2> QED
    BY <1>5, <2>1, EditsFetch DEF SeatsNobody
<1>6. ASSUME Change(q, "write", EditedTicket(q), IF SeatsPlan(q) THEN "plan" ELSE "reread")
      PROVE  Keeps(q) /\ SeatsNobody(q)'
  <2>1. Target(q) \in DOMAIN rows => EditedTicket(q).ws = rows[Target(q)].ws
    BY EditsKeepOwner DEF EditedTicket, Columns
  <2>2. Change(q, "write", EditedTicket(q), "reread")
    BY <1>3, <1>6
  <2>3. serving'[q].at \in {"reread", "done"}
    BY <2>2, MovesHold DEF Change, ChangeRow, Put
  <2> QED
    BY <1>1, <2>1, <2>2, <2>3, EditsChange DEF SeatsNobody
<1>7. ASSUME Change(q, "stamp", [rows[Target(q)] EXCEPT !.flag.applied = TRUE], "reread")
      PROVE  Keeps(q) /\ SeatsNobody(q)'
  <2>1. Target(q) \in DOMAIN rows => [rows[Target(q)] EXCEPT !.flag.applied = TRUE].ws = rows[Target(q)].ws
    BY EditsKeepOwner DEF Columns
  <2>2. serving'[q].at \in {"reread", "done"}
    BY <1>7, MovesHold DEF Change, ChangeRow, Put
  <2> QED
    BY <1>1, <1>7, <2>1, <2>2, EditsChange DEF SeatsNobody
<1>8. ASSUME Reread(q, "reread", Target(q), "done") PROVE Keeps(q) /\ SeatsNobody(q)'
  <2>1. serving'[q].at = "done"
    BY <1>8, MovesHold DEF Reread
  <2> QED
    BY <1>8, <2>1, EditsCheck DEF SeatsNobody
<1> QED
  BY <1>2, <1>4, <1>5, <1>6, <1>7, <1>8 DEF UpdateTicket, Look, SeatPlan, At

LEMMA DeleteTicketKeepsOwn ==
  ASSUME IInv, NEW q \in Requests, Owns(q), serving[q].ws # Operator, DeleteTicket(q)
  PROVE  Keeps(q)
<1> USE DEF Asks
<1>1. serving[q].kind \in Editing
  BY DEF DeleteTicket, Editing, OnDocuments, OfOperator, OnCompanies
<1>2. Target(q) \in RowIds({"tickets"})
  BY DEF DeleteTicket, IInv, RequestOK, JobFits, Target
<1>3. ASSUME At(q, "delete"), Target(q) \in DOMAIN rows, rows' = Without(Fallen(Target(q))), UNCHANGED <<seat, caps>>,
             serving' = [serving EXCEPT ![q].at = "done", ![q].answer = "ok", ![q].wrote = TRUE]
      PROVE  Keeps(q)
  <2>1. OwnsTarget(q)
    BY <1>1, <1>3 DEF Owns, EditsOwn, Past, At
  <2>2. TableOf(Target(q)) \notin Shared
    <3>1. TableOf(Target(q)) = "tickets"
      BY <1>2, RowIdParts
    <3> QED
      BY <3>1 DEF Shared
  <2>3. rows[Target(q)].ws = serving[q].ws
    BY <1>3, <2>1, <2>2 DEF OwnsTarget
  <2>4. KeepsToOwn(q)
    BY <1>3, <2>3, KeepCut
  <2>5. serving'[q].at = "done"
    BY <1>3 DEF IInv, RequestOK, Fields
  <2> QED
    BY <2>4, <2>5 DEF Keeps, Continues
<1>4. ASSUME At(q, "delete"), Ends(q, "refused"), UNCHANGED tables PROVE Keeps(q)
  BY <1>4, EditsMove DEF At, tables
<1> QED
  BY <1>3, <1>4, EditsFetch DEF DeleteTicket

LEMMA TicketKeepsOwn ==
  ASSUME IInv, NEW q \in Requests, Owns(q), serving[q].ws # Operator, ServeTicket(q)
  PROVE  Keeps(q) /\ serving[q].kind \notin Makers /\ (Asks(q, "update_ticket") => SeatsNobody(q)')
<1> USE DEF Asks
<1>1. ASSUME UpdateTicket(q) \/ DeleteTicket(q)
      PROVE  Keeps(q) /\ serving[q].kind \notin Makers /\ (Asks(q, "update_ticket") => SeatsNobody(q)')
  BY <1>1, UpdateTicketKeepsOwn, DeleteTicketKeepsOwn DEF UpdateTicket, DeleteTicket, Makers
<1>2. ASSUME \/ ListTickets(q) \/ TicketStats(q) \/ GetTicket(q) \/ CreatePublicTicket(q) \/ PublicAnswer(q)
             \/ CreateTicket(q) \/ RecordSignupRequest(q) \/ RecordCheckoutRequest(q) \/ AddTicketMessage(q)
      PROVE  Keeps(q) /\ serving[q].kind \notin Makers \cup {"update_ticket"}
  <2>1. serving[q].kind \notin Editing /\ serving[q].kind \notin Makers \cup {"update_ticket"}
    BY <1>2 DEF ListTickets, TicketStats, GetTicket, CreatePublicTicket, PublicAnswer, CreateTicket,
         RecordSignupRequest, RecordCheckoutRequest, AddTicketMessage, Editing, MergingEdits, NamingEdits, Makers
  <2>2. ASSUME NEW here, NEW ticket, NEW sender, NEW next, AddTo(q, here, ticket, sender, next) PROVE KeepsToOwn(q)
    <3>1. MayPut(q, <<"ticket_messages", q>>, NewMessage(q, ticket, sender))
      BY MayMakeOwn DEF NewMessage, Personal, Shared
    <3> QED
      BY <2>2, <3>1, KeepPut DEF AddTo
  <2>3. ASSUME Put(q, "insert", <<"tickets", q>>, PublicTicket(q), "message") PROVE KeepsToOwn(q)
    <3>1. PublicTicket(q).ws = serving[q].ws
      BY DEF PublicTicket, NewRow
    <3>2. MayPut(q, <<"tickets", q>>, PublicTicket(q))
      BY <3>1, MayMakeOwn DEF Personal, Shared
    <3> QED
      BY <2>3, <3>2, KeepPut
  <2>4. ASSUME CreatePublicTicket(q) PROVE KeepsToOwn(q)
    BY <2>2, <2>3, <2>4, KeepChecks DEF CreatePublicTicket
  <2>5. ASSUME CreateTicket(q) PROVE KeepsToOwn(q)
    <3>1. CheckRequest(q) => KeepsToOwn(q)
      BY KeepChecks DEF CheckRequest
    <3>2. FiledTicket(q).ws = serving[q].ws
      BY DEF FiledTicket, NewRow
    <3>3. MayPut(q, <<"tickets", q>>, FiledTicket(q))
      BY <3>2, MayMakeOwn DEF Personal, Shared
    <3>4. ASSUME NEW next, Gate(q, "start", "tickets", next) PROVE KeepsToOwn(q)
      BY <3>4, KeepChecks
    <3> QED
      BY <2>2, <2>5, <3>1, <3>3, <3>4, KeepPut, KeepChecks DEF CreateTicket
  <2>6. ASSUME RecordSignupRequest(q) \/ RecordCheckoutRequest(q) PROVE KeepsToOwn(q)
    <3>1. RequestRow(q).ws = serving[q].ws
      BY DEF RequestRow, NewRow
    <3>2. MayPut(q, <<"tickets", q>>, RequestRow(q))
      BY <3>1, MayMakeOwn DEF Personal, Shared
    <3>3. ASSUME FileRequest(q) PROVE KeepsToOwn(q)
      BY <2>2, <3>2, <3>3, KeepPut, KeepChecks DEF FileRequest
    <3>4. ASSUME UNCHANGED tables PROVE KeepsToOwn(q)
      BY <3>4, KeepQuiet DEF tables
    <3> QED
      BY <2>6, <3>3, <3>4, KeepChecks DEF RecordSignupRequest, RecordCheckoutRequest
  <2>7. ASSUME AddTicketMessage(q) PROVE KeepsToOwn(q)
    BY <2>2, <2>7, KeepChecks DEF AddTicketMessage
  <2>8. ASSUME ListTickets(q) \/ TicketStats(q) \/ GetTicket(q) \/ PublicAnswer(q) PROVE KeepsToOwn(q)
    BY <2>8, KeepChecks DEF ListTickets, TicketStats, GetTicket, PublicAnswer
  <2> QED
    BY <1>2, <2>1, <2>4, <2>5, <2>6, <2>7, <2>8, KeepOthers
<1> QED
  BY <1>1, <1>2 DEF ServeTicket

-----------------------------------------------------------------------------
LEMMA PurchaseKeepsOwn ==
  ASSUME IInv, NEW q \in Requests, Owns(q), serving[q].ws # Operator, PurchaseNumber(q)
  PROVE  KeepsToOwn(q) /\ MakesOn(q) /\ BuysReleased(q)'
<1> USE DEF Asks
<1> DEFINE Goal == KeepsToOwn(q) /\ MakesOn(q) /\ BuysReleased(q)'
<1>1. serving[q].kind = "purchase_number" /\ serving[q].kind \in Makers
  BY DEF PurchaseNumber, Makers
<1>2. RequestOK(q) /\ DOMAIN serving = Requests /\ BuysReleased(q)
  BY <1>1 DEF IInv, Owns
<1>3. ASSUME UNCHANGED tables \/ (UNCHANGED <<rows, links, seat, caps>>), serving[q].at \notin PastMaking
      PROVE  KeepsToOwn(q) /\ MakesOn(q)
  BY <1>3, KeepQuiet DEF MakesOn, tables
<1>4. ASSUME NEW here, Refuse(q, here) \/ Finish(q, here) PROVE Goal
  <2>1. serving'[q].at = "done"
    BY <1>4, MovesHold DEF Refuse, Finish
  <2> QED
    BY <1>4, <2>1, MakesCheck DEF BuysReleased
<1>5. ASSUME Gate(q, "start", "phone_numbers", "find") PROVE Goal
  <2>1. serving'[q].at \in {"limit", "count", "find", "done"}
    BY <1>2, <1>5, MovesHold DEF Gate, ReadPlan, ReadLimit, CountUsage, RequestOK, Fields
  <2> QED
    BY <1>5, <2>1, MakesCheck DEF BuysReleased, PastMaking
<1>6. ASSUME /\ At(q, "find")
             /\ \A i \in WithNumber(q) : ~Held(i)
             /\ serving' = [serving EXCEPT ![q].at = "key", ![q].saw = WithNumber(q),
                              ![q].read = IF WithNumber(q) = {} THEN None
                                          ELSE rows[CHOOSE i \in WithNumber(q) : TRUE]]
             /\ UNCHANGED tables
      PROVE  Goal
  <2>1. serving'[q].saw = WithNumber(q)
    BY <1>2, <1>6 DEF RequestOK, Fields
  <2>2. ASSUME WithNumber(q) # {} PROVE serving'[q].read.flag # "on"
    <3>1. PICK i : i = CHOOSE j \in WithNumber(q) : TRUE
      OBVIOUS
    <3>2. i \in WithNumber(q)
      BY <2>2, <3>1
    <3>3. serving'[q].read = rows[i]
      BY <1>2, <1>6, <2>2, <3>1 DEF RequestOK, Fields
    <3> QED
      BY <1>6, <3>2, <3>3 DEF Held
  <2> QED
    BY <1>3, <1>6, <2>1, <2>2 DEF BuysReleased, At, PastMaking
<1>7. ASSUME NEW here \in {"key", "account", "order"}, At(q, here), UNCHANGED <<rows, links, seat, caps>>,
             NEW next \in {"account", "order", "persist"},
             Goes(q, next) \/ \E answer \in {"ok", "refused", "failed"} : Ends(q, answer)
      PROVE  Goal
  <2>1. /\ serving'[q].saw = serving[q].saw /\ serving'[q].read = serving[q].read
        /\ serving'[q].kind = serving[q].kind
    BY <1>7, MovesHold, MovesAdvance DEF Advance
  <2> QED
    BY <1>1, <1>2, <1>3, <1>7, <2>1 DEF BuysReleased, At, PastMaking
<1>8. ASSUME Insert(q, "persist", "phone_numbers", "new", "on", "answer") PROVE Goal
  <2>1. serving'[q].at \in {"answer", "done"}
    BY <1>8, MovesHold DEF Insert, Put
  <2>2. KeepsToOwn(q) /\ MakesOn(q)
    BY <1>1, <1>8, MakesInsert DEF PastMaking, Shared
  <2> QED
    BY <2>1, <2>2 DEF BuysReleased
<1>9. ASSUME NEW i \in serving[q].saw, ChangeRow(q, "persist", i, Revived(q, i), "answer") PROVE Goal
  <2>1. serving'[q].at \in {"answer", "done"}
    BY <1>9, MovesHold DEF ChangeRow, Put
  <2>2. Across(q, i)
    BY <1>1, <1>2, <1>9 DEF Across, BuysReleased, ChangeRow, Put, At
  <2>3. KeepsToOwn(q)
    <3>1. CASE i \in DOMAIN rows
      BY <1>9, <2>2, <3>1, KeepPut DEF ChangeRow, MayPut
    <3>2. CASE i \notin DOMAIN rows
      BY <1>9, <3>2, KeepQuiet DEF ChangeRow, tables
    <3> QED
      BY <3>1, <3>2
  <2> QED
    BY <2>1, <2>3 DEF BuysReleased, MakesOn, PastMaking
<1>10. ASSUME FindNumber(q) PROVE Goal
  BY <1>4, <1>6, <1>10 DEF FindNumber
<1>11. ASSUME OrderNumber(q) PROVE Goal
  <2>1. UNCHANGED <<rows, links, seat, caps>> /\ At(q, "order")
    BY <1>11 DEF OrderNumber
  <2>2. Goes(q, "persist") \/ Ends(q, "failed")
    BY <1>11 DEF OrderNumber
  <2> QED
    BY <1>7, <2>1, <2>2
<1>12. ASSUME At(q, "key"), Goes(q, IF OwnKey(q) THEN "persist" ELSE "account"), UNCHANGED tables PROVE Goal
  <2>1. UNCHANGED <<rows, links, seat, caps>>
    BY <1>12 DEF tables
  <2>2. Goes(q, "persist") \/ Goes(q, "account")
    BY <1>12
  <2> QED
    BY <1>7, <1>12, <2>1, <2>2
<1>13. ASSUME At(q, "account"), Goes(q, "order"), UNCHANGED tables PROVE Goal
  <2>1. UNCHANGED <<rows, links, seat, caps>>
    BY <1>13 DEF tables
  <2> QED
    BY <1>7, <1>13, <2>1
<1> HIDE DEF Goal
<1> QED
  BY <1>4, <1>5, <1>8, <1>9, <1>10, <1>11, <1>12, <1>13 DEF PurchaseNumber, Goal

LEMMA InviteKeepsOwn ==
  ASSUME IInv, NEW q \in Requests, Owns(q), serving[q].ws # Operator, InviteTeammate(q)
  PROVE  KeepsToOwn(q) /\ MakesOn(q)
<1>1. serving[q].kind \in Makers
  BY DEF InviteTeammate, Asks, Makers
<1>2. ASSUME NEW here, Refuse(q, here) \/ Finish(q, here) PROVE KeepsToOwn(q) /\ MakesOn(q)
  BY <1>2, MakesCheck
<1>3. ASSUME NEW found, Look(q, "start", found, "gate") PROVE KeepsToOwn(q) /\ MakesOn(q)
  BY <1>3, MakesCheck DEF PastMaking
<1>4. ASSUME Gate(q, "gate", "users", "insert") PROVE KeepsToOwn(q) /\ MakesOn(q)
  BY <1>4, MakesCheck DEF PastMaking
<1>5. ASSUME Insert(q, "insert", "users", "member", "on", "mail") PROVE KeepsToOwn(q) /\ MakesOn(q)
  BY <1>1, <1>5, MakesInsert DEF PastMaking, Shared
<1> QED
  BY <1>2, <1>3, <1>4, <1>5 DEF InviteTeammate, InsertMember

LEMMA DeleteNumberKeepsOwn ==
  ASSUME IInv, NEW q \in Requests, Owns(q), serving[q].ws # Operator, DeleteNumber(q)
  PROVE  Keeps(q)
<1>1. serving[q].kind \in Editing
  BY DEF DeleteNumber, Asks, Editing, OnDocuments, OfOperator, OnCompanies
<1>2. ASSUME NEW here \in {"key", "account", "release"}, At(q, here), NEW next, Goes(q, next),
             UNCHANGED <<rows, seat, caps>>
      PROVE  Keeps(q)
  BY <1>2, EditsMove DEF At
<1>3. ASSUME Change(q, "persist", [rows[Target(q)] EXCEPT !.flag = "off"], "answer") PROVE Keeps(q)
  <2>1. Target(q) \in DOMAIN rows => [rows[Target(q)] EXCEPT !.flag = "off"].ws = rows[Target(q)].ws
    BY EditsKeepOwner DEF Columns
  <2> QED
    BY <1>1, <1>3, <2>1, EditsChange
<1>4. ASSUME Finish(q, "answer") PROVE Keeps(q)
  BY <1>4, EditsCheck
<1> QED
  BY <1>2, <1>3, <1>4, EditsFetch DEF DeleteNumber, ReleaseNumber, tables

LEMMA NumberKeepsOwn ==
  ASSUME IInv, NEW q \in Requests, Owns(q), serving[q].ws # Operator, ServeNumber(q)
  PROVE  /\ Keeps(q) /\ (serving[q].kind \in Makers => MakesOn(q))
         /\ serving[q].kind # "update_ticket" /\ (Asks(q, "purchase_number") => BuysReleased(q)')
<1> USE DEF Asks
<1>1. ASSUME PutAccount(q) PROVE FALSE
  BY <1>1, NotTheOperators DEF PutAccount, OfOperator
<1>2. ASSUME DeleteNumber(q) PROVE Keeps(q) /\ serving[q].kind \notin Makers \cup {"update_ticket"}
  BY <1>2, DeleteNumberKeepsOwn DEF DeleteNumber, Makers
<1>3. ASSUME PurchaseNumber(q) \/ InviteTeammate(q)
      PROVE  /\ Keeps(q) /\ MakesOn(q)
             /\ serving[q].kind # "update_ticket" /\ (serving[q].kind = "purchase_number" => BuysReleased(q)')
  <2>1. serving[q].kind \notin Editing /\ serving[q].kind # "update_ticket"
    BY <1>3 DEF PurchaseNumber, InviteTeammate, Editing, MergingEdits, NamingEdits
  <2>2. InviteTeammate(q) => serving[q].kind # "purchase_number"
    BY DEF InviteTeammate
  <2> QED
    BY <1>3, <2>1, <2>2, PurchaseKeepsOwn, InviteKeepsOwn, KeepOthers
<1>4. ASSUME ListNumbers(q) \/ ShowAccount(q) \/ ListMembers(q) \/ RemoveMember(q)
      PROVE  Keeps(q) /\ serving[q].kind \notin Makers \cup {"update_ticket"}
  <2>1. serving[q].kind \notin Editing /\ serving[q].kind \notin Makers \cup {"update_ticket"}
    BY <1>4 DEF ListNumbers, ShowAccount, ListMembers, RemoveMember, Editing, MergingEdits, NamingEdits, Makers
  <2>2. KeepsToOwn(q)
    BY <1>4, KeepChecks, KeepDelete, KeepQuiet DEF ListNumbers, ShowAccount, ListMembers, RemoveMember, tables
  <2> QED
    BY <2>1, <2>2, KeepOthers
<1>5. "purchase_number" \in Makers
  BY DEF Makers
<1> QED
  BY <1>1, <1>2, <1>3, <1>4, <1>5 DEF ServeNumber

-----------------------------------------------------------------------------
(* The theorem.                                                             *)

LEMMA OwnStep ==
  ASSUME IInv, NEW q \in Requests, Owns(q), serving[q].ws # Operator, Serve(q)
  PROVE  KeepsToOwn(q) /\ Owns(q)'
<1>1. /\ Keeps(q) /\ (serving[q].kind \in Makers => MakesOn(q))
      /\ Asks(q, "update_ticket") => SeatsNobody(q)'
      /\ Asks(q, "purchase_number") => BuysReleased(q)'
  <2> USE DEF Asks
  <2>1. "purchase_number" \in Makers
    BY DEF Makers
  <2> QED
    BY <2>1, RecordKeepsOwn, AutomationKeepsOwn, SettingKeepsOwn, CampaignKeepsOwn, PlanKeepsOwn, TicketKeepsOwn,
       NumberKeepsOwn DEF Serve
<1>2. Sound(q)
  BY ServeKeeps
<1>3. serving'[q].kind = serving[q].kind /\ serving'[q].ws = serving[q].ws
  BY <1>2 DEF Sound, Advance
<1>4. CASE serving[q].kind \in Makers
  <2>1. MakesNew(q)'
    BY <1>1, <1>3, <1>4 DEF MakesOn, MakesNew, Owns, PastMaking
  <2>2. serving[q].kind \notin Editing /\ ~Asks(q, "update_ticket")
    BY <1>4 DEF Makers, Editing, MergingEdits, NamingEdits, Asks
  <2>3. EditsOwn(q)' /\ SeatsNobody(q)'
    BY <1>3, <2>2 DEF EditsOwn, Past, SeatsNobody, Asks
  <2>4. BuysReleased(q)'
    BY <1>1, <1>3 DEF BuysReleased, Asks
  <2> QED
    BY <1>1, <2>1, <2>3, <2>4 DEF Keeps, Owns
<1>5. CASE serving[q].kind \notin Makers
  <2>1. SeatsNobody(q)'
    BY <1>1, <1>3 DEF SeatsNobody, Asks
  <2> QED
    BY <1>1, <1>2, <1>5, <2>1, ContinuesOwn DEF Keeps
<1> QED
  BY <1>4, <1>5

LEMMA IsolationStep ==
  ASSUME IsolationInv, NEW q \in Requests, Serve(q)
  PROVE  IsolationInv' /\ (serving[q].ws # Operator => KeepsToOwn(q))
<1>1. IInv /\ \A p \in Requests : Owns(p)
  BY DEF IsolationInv
<1>2. Sound(q) /\ IInv'
  BY <1>1, ServeKeeps, StepKeeps
<1>3. ASSUME NEW p \in Requests PROVE Owns(p)'
  <2>1. CASE p # q
    BY <1>1, <1>2, <2>1, OthersOwn
  <2>2. CASE p = q /\ serving[q].ws # Operator
    BY <1>1, <2>2, OwnStep
  <2>3. CASE p = q /\ serving[q].ws = Operator
    BY <1>2, <2>3 DEF Sound, Advance, Owns
  <2> QED
    BY <2>1, <2>2, <2>3
<1> QED
  BY <1>1, <1>2, <1>3, OwnStep DEF IsolationInv

LEMMA InitOwns == Init => IsolationInv
<1> SUFFICES ASSUME Init PROVE IsolationInv
  OBVIOUS
<1>1. IInv
  BY InitSound
<1>2. PICK load \in Workloads : rows = load.rows /\ \E asked \in load.asked : serving = [q \in Requests |-> Received(asked[q])]
  BY DEF Init
<1>3. ASSUME NEW q \in Requests PROVE Owns(q)
  <2>1. serving[q].at = "start"
    BY <1>2 DEF Received
  <2>2. MakesNew(q)
    <3>1. ASSUME NEW t \in Shared, <<t, q>> \in DOMAIN rows PROVE FALSE
      <4>1. MakerOf(<<t, q>>) = q
        BY DEF MakerOf
      <4>2. MakerOf(<<t, q>>) \in Workspaces
        BY <1>2, <3>1, WorkloadsAssumption DEF Seeded
      <4> QED
        BY <4>1, <4>2, MakersAssumption
    <3> QED
      BY <3>1 DEF MakesNew
  <2> QED
    BY <2>1, <2>2 DEF Owns, EditsOwn, Past, BuysReleased, SeatsNobody
<1> QED
  BY <1>1, <1>3 DEF IsolationInv

LEMMA StayingOwns ==
  ASSUME IsolationInv, UNCHANGED vars
  PROVE  \A q \in Requests : Owns(q)'
<1>1. serving' = serving /\ rows' = rows
  BY DEF vars
<1>2. ASSUME NEW q \in Requests PROVE Owns(q)'
  <2>1. \A i : Issuer(i)' = Issuer(i)
    BY <1>1 DEF Issuer
  <2>2. Issuer(Target(q))' = Issuer(Target(q))
    BY <1>1 DEF Issuer, Target
  <2>3. OwnsTarget(q) => OwnsTarget(q)'
    BY <1>1, <2>2 DEF OwnsTarget, Target, Tied
  <2>4. Owns(q)
    BY DEF IsolationInv
  <2> QED
    BY <1>1, <2>3, <2>4 DEF Owns, EditsOwn, Past, BuysReleased, SeatsNobody, MakesNew, Asks
<1> QED
  BY <1>2

\* What the handlers have made sure of stays so until they write.
THEOREM Ownership == Spec => []IsolationInv
<1>1. Init => \A q \in Requests : Owns(q)
  BY InitOwns DEF IsolationInv
<1>2. IInv /\ (\A q \in Requests : Owns(q)) /\ [Next]_vars => (\A q \in Requests : Owns(q))'
  BY IsolationStep, StayingOwns DEF IsolationInv, Next
<1>3. Spec => []IInv
  BY Invariance
<1>4. Spec => [](\A q \in Requests : Owns(q))
  BY <1>1, <1>2, <1>3, PTL DEF Spec
<1> QED
  BY <1>3, <1>4, PTL DEF IsolationInv

\* A workspace's requests, and a visitor's, change its own rows only, whatever the
\* other workspaces' requests do between two of their statements. The ways across
\* are the ones Across names.
THEOREM WorkspacesIsolated == Spec => OnlyOwnRows
<1>1. IsolationInv /\ [Next]_vars =>
        [\A q \in Requests : Serve(q) /\ serving[q].ws # Operator => KeepsToOwn(q)]_vars
  BY IsolationStep
<1> QED
  BY <1>1, Ownership, PTL DEF Spec, OnlyOwnRows
=============================================================================
