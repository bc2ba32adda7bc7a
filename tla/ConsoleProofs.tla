--------------------------- MODULE ConsoleProofs ----------------------------
(***************************************************************************)
(* Proofs about the console, for every number of requests and workspaces   *)
(* and every workload the schema and the routes admit                      *)
(* (WorkloadsAssumption). The tables stay as the schema's references leave *)
(* them (Sane) although every handler writes from rows and ids it read     *)
(* statements ago: the invariant says, of each handler that goes on from   *)
(* something it holds, what that still is (Holds). The lemmas climb from   *)
(* the statements (Put, Change, Delete, Link) to the handlers, and from    *)
(* the handlers to the modules that serve them.                            *)
(***************************************************************************)
EXTENDS Console, TLAPS

-----------------------------------------------------------------------------
(* The inductive invariant.                                                 *)

Fields == {"kind", "ws", "id", "col", "val", "ref", "at", "answer", "read", "saw", "limit", "counted", "wrote"}

\* A request is the job it came with, and what it has found so far.
RequestOK(q) ==
  /\ DOMAIN serving[q] = Fields
  /\ serving[q].answer \in {"none", "ok", "refused", "failed"}
  /\ serving[q].wrote \in BOOLEAN
  /\ JobFits(serving[q])

\* The workspace of the request, or of the seed, that made a row. Numbers, users
\* and companies pass from one workspace to another, or come with one; a
\* campaign and every row a request drew an id for stay their issuer's.
Issuer(i) == IF MakerOf(i) \in Workspaces THEN MakerOf(i) ELSE serving[MakerOf(i)].ws
Shared == {"phone_numbers", "users", "portfolio_companies"}
Tied(i) == TableOf(i) = "campaigns" \/ (TableOf(i) \notin Shared \cup Personal /\ MakerOf(i) \in Requests)
OwnerKept(rs, i) == Tied(i) => rs[i].ws = Issuer(i)
OwnersIn(rs) == \A i \in DOMAIN rs : OwnerKept(rs, i)

\* What the handlers that go on from a row or an id they hold rely on.
HoldsRow(q) ==
  serving[q].kind \in OnDocuments /\ serving[q].at \in {"seal", "pointer", "write"} =>
    DOMAIN serving[q].read = Columns \cup {"ws"} /\ serving[q].read.ws = serving[q].ws
SeesNumbers(q) == Asks(q, "purchase_number") => \A i \in serving[q].saw : TableOf(i) = "phone_numbers"
SeatingKinds == {"update_ticket", "portfolio_sync", "sync_create", "sync_update"}
SeesPlans(q) == serving[q].kind \in SeatingKinds => \A p \in serving[q].saw : TableOf(p) = "plans"
RoutesToOwn(q) ==
  Asks(q, "create_lead") =>
    /\ serving[q].at \in {"list", "own list"} =>
         serving[q].read \in RowIds({"campaigns"}) /\ Issuer(serving[q].read) = serving[q].ws
    /\ At(q, "join") => \A l \in serving[q].saw : TableOf(l) = "lists"
SparesTheOperator(q) ==
  At(q, "delete") =>
    /\ Asks(q, "delete_tenant") => Target(q) # Home(Operator)
    /\ Asks(q, "bulk_delete_tenants") => serving[q].read \in RowIds({"tenants"}) \ {Home(Operator)}

Holds(q) == HoldsRow(q) /\ SeesNumbers(q) /\ SeesPlans(q) /\ RoutesToOwn(q) /\ SparesTheOperator(q)

Sane(rs, ls, st, cp) == WellStored(rs, ls, st, cp) /\ OwnersIn(rs)

IInv ==
  /\ DOMAIN serving = Requests
  /\ \A q \in Requests : RequestOK(q) /\ Holds(q)
  /\ Sane(rows, links, seat, caps)

-----------------------------------------------------------------------------
(* One step of one request.                                                 *)

\* It is the same job after it, and the other requests are where they were.
Advance(q) ==
  /\ DOMAIN serving' = Requests
  /\ \A p \in Requests \ {q} : serving'[p] = serving[p]
  /\ DOMAIN serving'[q] = Fields
  /\ serving'[q].kind = serving[q].kind /\ serving'[q].ws = serving[q].ws /\ serving'[q].id = serving[q].id
  /\ serving'[q].col = serving[q].col /\ serving'[q].val = serving[q].val /\ serving'[q].ref = serving[q].ref
  /\ serving'[q].answer \in {"none", "ok", "refused", "failed"}
  /\ serving'[q].wrote \in BOOLEAN

\* A row that stays keeps its workspace, but for the shared tables'; a new row is
\* the request's own, one that is keyed by its workspace, or a pushed company.
MayMake(q, i) ==
  IF TableOf(i) \in Shared THEN MakerOf(i) \in {q} \cup Workspaces
  ELSE TableOf(i) \in Personal \/ MakerOf(i) \in Requests
MayWrite(q, i, row) ==
  IF i \in DOMAIN rows THEN TableOf(i) \in Shared \/ row.ws = rows[i].ws ELSE MayMake(q, i)
Steady(q) == \A i \in DOMAIN rows' : MayWrite(q, i, rows'[i])

Sound(q) == Advance(q) /\ Sane(rows', links', seat', caps') /\ Steady(q)

\* What may be written to the tables besides what the constraints check.
Storable(q, i, row) ==
  /\ i \in RowIds({TableOf(i)})
  /\ DOMAIN row = Columns \cup {"ws"}
  /\ TableOf(i) \in Personal => row.ws = MakerOf(i)
  /\ TableOf(i) = "plans" => i \in DOMAIN rows /\ row.ws = Operator
  /\ Tied(i) => row.ws = Issuer(i)
  /\ MayWrite(q, i, row)

LEMMA WithSteady ==
  ASSUME NEW q \in Requests, NEW i, NEW row, rows' = With(rows, i, row), MayWrite(q, i, row)
  PROVE  Steady(q)
BY DEF With, Steady, MayWrite

LEMMA CutSteady ==
  ASSUME IInv, NEW q \in Requests, NEW gone, rows' = Without(gone)
  PROVE  Steady(q)
<1>1. DOMAIN rows' = DOMAIN rows \ gone
  BY DEF Without
<1>2. ASSUME NEW j \in DOMAIN rows' PROVE rows'[j].ws = rows[j].ws
  <2>1. j \in DOMAIN rows /\ DOMAIN rows[j] = Columns \cup {"ws"}
    BY <1>1 DEF IInv, Sane, WellStored, RowStored
  <2> QED
    BY <1>1, <2>1 DEF Without, Columns
<1> QED
  BY <1>1, <1>2 DEF Steady, MayWrite

LEMMA RowsSteady ==
  ASSUME NEW q \in Requests, rows' = rows
  PROVE  Steady(q)
BY DEF Steady, MayWrite

LEMMA RowIdParts ==
  ASSUME NEW t, NEW i \in RowIds({t})
  PROVE  i = <<t, MakerOf(i)>> /\ TableOf(i) = t /\ MakerOf(i) \in Requests \cup Workspaces
BY DEF RowIds, TableOf, MakerOf

LEMMA RowIdMade ==
  ASSUME NEW t, NEW m \in Requests \cup Workspaces
  PROVE  <<t, m>> \in RowIds({t}) /\ TableOf(<<t, m>>) = t /\ MakerOf(<<t, m>>) = m
BY DEF RowIds, TableOf, MakerOf

LEMMA StaysIssuer ==
  ASSUME IInv, NEW q \in Requests, Advance(q), NEW i, i \in RowIds({TableOf(i)})
  PROVE  Issuer(i)' = Issuer(i)
<1>1. serving[MakerOf(i)].ws = serving'[MakerOf(i)].ws \/ MakerOf(i) \in Workspaces
  <2>1. MakerOf(i) \in Requests \cup Workspaces
    BY DEF RowIds, MakerOf
  <2> QED
    BY <2>1 DEF Advance
<1> QED
  BY <1>1 DEF Issuer, MakerOf

LEMMA StepKeeps ==
  ASSUME IInv, NEW q \in Requests, Sound(q), Holds(q)'
  PROVE  IInv'
<1>1. (DOMAIN serving = Requests)'
  BY DEF Sound, Advance
<1>2. ASSUME NEW p \in Requests PROVE (RequestOK(p) /\ Holds(p))'
  <2>1. RequestOK(p) /\ Holds(p)
    BY DEF IInv
  <2>2. CASE p = q
    <3>1. JobFits(serving[q])'
      BY <2>1, <2>2 DEF JobFits, RequestOK, Sound, Advance
    <3> QED
      BY <2>2, <3>1 DEF RequestOK, Sound, Advance
  <2>3. CASE p # q
    <3>1. serving'[p] = serving[p]
      BY <2>3 DEF Sound, Advance
    <3>2. RequestOK(p)'
      BY <2>1, <3>1 DEF RequestOK, JobFits
    <3>3. RoutesToOwn(p)'
      <4>1. ASSUME NEW i \in RowIds({"campaigns"}) PROVE Issuer(i)' = Issuer(i)
        <5>1. i \in RowIds({TableOf(i)})
          BY RowIdParts
        <5> QED
          BY <5>1, StaysIssuer DEF Sound
      <4> QED
        BY <2>1, <3>1, <4>1 DEF Holds, RoutesToOwn, Asks, At
    <3>4. (HoldsRow(p) /\ SeesNumbers(p) /\ SeesPlans(p) /\ SparesTheOperator(p))'
      BY <2>1, <3>1 DEF Holds, HoldsRow, SeesNumbers, SeesPlans, SparesTheOperator, Asks, At, Target
    <3> QED
      BY <3>2, <3>3, <3>4 DEF Holds
  <2> QED
    BY <2>2, <2>3
<1>3. Sane(rows, links, seat, caps)'
  <2>1. WellStored(rows', links', seat', caps') /\ OwnersIn(rows')
    BY DEF Sound, Sane
  <2>2. ASSUME NEW i \in DOMAIN rows' PROVE Issuer(i)' = Issuer(i)
    BY <2>1, StaysIssuer DEF WellStored, RowStored, Sound
  <2> QED
    BY <2>1, <2>2 DEF Sane, OwnersIn, OwnerKept
<1> QED
  BY <1>1, <1>2, <1>3 DEF IInv

-----------------------------------------------------------------------------
(* Statements that change no table.                                         *)

LEMMA QuietSound ==
  ASSUME IInv, NEW q \in Requests, Advance(q), UNCHANGED <<rows, links, seat, caps>>
  PROVE  Sound(q)
BY RowsSteady DEF IInv, Sound

LEMMA MovesAdvance ==
  ASSUME IInv, NEW q \in Requests, NEW next,
         \/ Goes(q, next) \/ Answers(q, next) \/ Wrote(q, next)
         \/ \E answer \in {"ok", "refused", "failed"} : Ends(q, answer)
  PROVE  Advance(q)
<1> RequestOK(q) /\ DOMAIN serving = Requests
  BY DEF IInv
<1> QED
  BY DEF Goes, Answers, Wrote, Ends, Advance, RequestOK, Fields

LEMMA ChecksQuiet ==
  ASSUME IInv, NEW q \in Requests, NEW here, NEW next, NEW found,
         \/ Finish(q, here) \/ Refuse(q, here) \/ Show(q, here, found) \/ Look(q, here, found, next)
         \/ Lookup(q, here, next) \/ Missing(q, here) \/ FetchTicket(q, here, next) \/ ReadStored(q, here, next)
         \/ Encrypt(q, here, next)
  PROVE  Sound(q)
<1> RequestOK(q) /\ DOMAIN serving = Requests
  BY DEF IInv
<1>1. Advance(q)
  <2>1. CASE Finish(q, here) \/ Refuse(q, here) \/ Missing(q, here)
    BY <2>1, MovesAdvance DEF Finish, Refuse, Missing
  <2>2. CASE Show(q, here, found) \/ Look(q, here, found, next)
    BY <2>2 DEF Show, Look, Advance, RequestOK, Fields
  <2>3. CASE Lookup(q, here, next) \/ ReadStored(q, here, next)
    BY <2>3 DEF Lookup, ReadStored, Advance, RequestOK, Fields
  <2>4. CASE FetchTicket(q, here, next)
    BY <2>4, MovesAdvance DEF FetchTicket, Advance, RequestOK, Fields
  <2>5. CASE Encrypt(q, here, next)
    BY <2>5, MovesAdvance DEF Encrypt
  <2> QED
    BY <2>1, <2>2, <2>3, <2>4, <2>5
<1>2. UNCHANGED <<rows, links, seat, caps>>
  BY DEF Finish, Refuse, Show, Look, Lookup, Missing, FetchTicket, ReadStored, Encrypt, tables
<1> QED
  BY <1>1, <1>2, QuietSound

LEMMA GateSound ==
  ASSUME IInv, NEW q \in Requests, NEW here, NEW feature, NEW next,
         Gate(q, here, feature, next) \/ CheckFlag(q, here, feature, next)
  PROVE  Sound(q)
<1> RequestOK(q) /\ DOMAIN serving = Requests
  BY DEF IInv
<1>1. CASE ReadPlan(q, here, "limit") \/ ReadPlan(q, here, "flag")
  <2>1. Advance(q)
    BY <1>1 DEF ReadPlan, Advance, RequestOK, Fields
  <2> QED
    BY <1>1, <2>1, QuietSound DEF ReadPlan, tables
<1>2. CASE ReadLimit(q, feature, next)
  <2>1. Advance(q)
    BY <1>2 DEF ReadLimit, Ends, Goes, Advance, RequestOK, Fields
  <2> QED
    BY <1>2, <2>1, QuietSound DEF ReadLimit, tables
<1>3. CASE CountUsage(q, feature, next)
  <2>1. Advance(q)
    BY <1>3 DEF CountUsage, Ends, Advance, RequestOK, Fields
  <2> QED
    BY <1>3, <2>1, QuietSound DEF CountUsage, tables
<1>4. CASE /\ At(q, "flag")
           /\ IF \E p \in PlanNamed(serving[q].read) : Granted(p, feature) THEN Goes(q, next) ELSE Ends(q, "refused")
           /\ UNCHANGED tables
  <2>1. Advance(q)
    BY <1>4, MovesAdvance
  <2> QED
    BY <1>4, <2>1, QuietSound DEF tables
<1> QED
  BY <1>1, <1>2, <1>3, <1>4 DEF Gate, CheckFlag
-----------------------------------------------------------------------------
(* Statements that write a row.                                             *)

LEMMA WithKeeps ==
  ASSUME NEW rs, NEW ls, NEW st, NEW cp, Sane(rs, ls, st, cp), NEW i, NEW row,
         i \in RowIds({TableOf(i)}), DOMAIN row = Columns \cup {"ws"},
         row.ws = None \/ TableOf(i) = "tenants" \/ Home(row.ws) \in DOMAIN rs,
         row.link = None \/ TableOf(i) \in Unchecked \/ row.link \in DOMAIN rs,
         TableOf(i) \in Personal => row.ws = MakerOf(i),
         TableOf(i) = "plans" => i \in DOMAIN rs /\ row.ws = Operator,
         Tied(i) => row.ws = Issuer(i)
  PROVE  Sane(With(rs, i, row), ls, st, cp)
<1> DEFINE new == With(rs, i, row)
<1>1. DOMAIN new = DOMAIN rs \cup {i} /\ \A j \in DOMAIN new : new[j] = IF j = i THEN row ELSE rs[j]
  BY DEF With
<1> HIDE DEF new
<1>2. WellStored(rs, ls, st, cp) /\ OwnersIn(rs)
  BY DEF Sane
<1>3. ASSUME NEW j \in DOMAIN new
      PROVE  RowStored(new, j) /\ OwnerKept(new, j)
  <2>1. CASE j = i
    BY <1>1, <2>1 DEF RowStored, OwnerKept
  <2>2. CASE j # i
    <3>1. j \in DOMAIN rs /\ new[j] = rs[j] /\ \A k : k \in DOMAIN rs => k \in DOMAIN new
      BY <1>1, <2>2
    <3>2. RowStored(rs, j) /\ OwnerKept(rs, j)
      BY <1>2, <3>1 DEF WellStored, OwnersIn
    <3> QED
      BY <3>1, <3>2 DEF RowStored, OwnerKept
  <2> QED
    BY <2>1, <2>2
<1>4. {j \in DOMAIN new : TableOf(j) = "plans"} = {j \in DOMAIN rs : TableOf(j) = "plans"}
  BY <1>1
<1>5. WellStored(new, ls, st, cp)
  BY <1>1, <1>2, <1>3, <1>4 DEF WellStored
<1>6. OwnersIn(new)
  BY <1>3 DEF OwnersIn
<1> QED
  BY <1>5, <1>6 DEF Sane, new

LEMMA PutSound ==
  ASSUME IInv, NEW q \in Requests, NEW here, NEW i, NEW row, NEW next, Put(q, here, i, row, next), Storable(q, i, row)
  PROVE  Sound(q)
<1>1. Advance(q)
  BY MovesAdvance DEF Put
<1>2. CASE rows' = rows
  BY <1>1, <1>2, QuietSound DEF Put
<1>3. CASE Fits(i, row) /\ rows' = With(rows, i, row)
  <2>1. Sane(With(rows, i, row), links, seat, caps)
    BY <1>3, WithKeeps DEF IInv, Fits, Housed, Storable
  <2>2. Steady(q)
    BY <1>3, WithSteady DEF Storable
  <2> QED
    BY <1>1, <1>3, <2>1, <2>2 DEF Put, Sound
<1> QED
  BY <1>2, <1>3 DEF Put

\* A stored row stays one as long as it keeps its workspace.
LEMMA SameOwnerStorable ==
  ASSUME IInv, NEW q \in Requests, NEW i \in DOMAIN rows, NEW row, DOMAIN row = Columns \cup {"ws"},
         row.ws = rows[i].ws
  PROVE  Storable(q, i, row)
BY DEF IInv, Sane, WellStored, RowStored, OwnersIn, OwnerKept, Storable, MayWrite

LEMMA ChangeSound ==
  ASSUME IInv, NEW q \in Requests, NEW here, NEW i, NEW row, NEW next, ChangeRow(q, here, i, row, next),
         i \in DOMAIN rows => DOMAIN row = Columns \cup {"ws"} /\ row.ws = rows[i].ws
  PROVE  Sound(q)
<1>1. CASE i \in DOMAIN rows
  BY <1>1, SameOwnerStorable, PutSound DEF ChangeRow
<1>2. CASE i \notin DOMAIN rows
  BY <1>2, MovesAdvance, QuietSound DEF ChangeRow, tables
<1> QED
  BY <1>1, <1>2

\* The edits the handlers bind keep the workspace.
LEMMA EditsKeepOwner ==
  ASSUME IInv, NEW q \in Requests, Target(q) \in DOMAIN rows
  PROVE  /\ DOMAIN rows[Target(q)] = Columns \cup {"ws"}
         /\ DOMAIN Merged(q) = Columns \cup {"ws"} /\ Merged(q).ws = rows[Target(q)].ws
         /\ DOMAIN Named(q) = Columns \cup {"ws"} /\ Named(q).ws = rows[Target(q)].ws
<1>1. DOMAIN rows[Target(q)] = Columns \cup {"ws"}
  BY DEF IInv, Sane, WellStored, RowStored
<1>2. serving[q].col \in Columns
  BY DEF IInv, RequestOK, JobFits
<1> QED
  BY <1>1, <1>2 DEF Merged, Named, Columns

LEMMA EditSound ==
  ASSUME IInv, NEW q \in Requests, MergingEdit(q) \/ NamedEdit(q)
  PROVE  Sound(q)
<1>1. ASSUME NEW here, NEW i, NEW next, Reread(q, here, i, next) PROVE Sound(q)
  <2>1. Advance(q)
    BY <1>1, MovesAdvance DEF Reread
  <2> QED
    BY <1>1, <2>1, QuietSound DEF Reread, tables
<1>2. ASSUME NEW here, NEW next, Fetch(q, here, next) PROVE Sound(q)
  BY <1>2, ChecksQuiet DEF Fetch
<1>3. ASSUME Change(q, "write", Merged(q), "reread") PROVE Sound(q)
  BY <1>3, ChangeSound, EditsKeepOwner DEF Change
<1>4. ASSUME Change(q, "write", Named(q), "reread") PROVE Sound(q)
  BY <1>4, ChangeSound, EditsKeepOwner DEF Change
<1> QED
  BY <1>1, <1>2, <1>3, <1>4 DEF MergingEdit, NamedEdit
LEMMA RereadSound ==
  ASSUME IInv, NEW q \in Requests, NEW here, NEW i, NEW next, Reread(q, here, i, next)
  PROVE  Sound(q)
<1>1. Advance(q)
  BY MovesAdvance DEF Reread
<1> QED
  BY <1>1, QuietSound DEF Reread, tables

LEMMA FetchSound ==
  ASSUME IInv, NEW q \in Requests, NEW here, NEW next, Fetch(q, here, next) \/ GetRow(q)
  PROVE  Sound(q)
BY ChecksQuiet DEF Fetch, GetRow

\* A row of the request's own, in any table but the catalogue and those keyed by
\* the workspace.
LEMMA NewRowStorable ==
  ASSUME IInv, NEW q \in Requests, NEW t, t \notin Personal \cup {"plans"}, NEW row,
         DOMAIN row = Columns \cup {"ws"}, row.ws = serving[q].ws
  PROVE  Storable(q, <<t, q>>, row)
<1> DEFINE i == <<t, q>>
<1>1. i \in RowIds({t}) /\ TableOf(i) = t /\ MakerOf(i) = q
  BY RowIdMade
<1>2. Issuer(i) = serving[q].ws
  BY <1>1, MakersAssumption DEF Issuer
<1> HIDE DEF i
<1>3. i \in DOMAIN rows => OwnerKept(rows, i)
  BY DEF IInv, Sane, OwnersIn
<1>4. MayWrite(q, i, row)
  BY <1>1, <1>2, <1>3 DEF MayWrite, MayMake, OwnerKept, Tied
<1>5. Storable(q, i, row)
  BY <1>1, <1>2, <1>4 DEF Storable
<1> QED
  BY <1>5 DEF i

LEMMA InsertSound ==
  ASSUME IInv, NEW q \in Requests, NEW here, NEW t, t \notin Personal \cup {"plans"}, NEW state, NEW flag, NEW next,
         Insert(q, here, t, state, flag, next) \/ Creation(q, here, t, state, flag)
  PROVE  Sound(q)
<1> DEFINE row == NewRow(q, state, flag)
<1>1. DOMAIN row = Columns \cup {"ws"} /\ row.ws = serving[q].ws
  BY DEF NewRow, Columns
<1>2. Storable(q, <<t, q>>, row)
  BY <1>1, NewRowStorable
<1>3. ASSUME NEW nx, Insert(q, here, t, state, flag, nx) PROVE Sound(q)
  BY <1>2, <1>3, PutSound DEF Insert
<1> QED
  BY <1>3, RereadSound DEF Creation

LEMMA GatedCreationSound ==
  ASSUME IInv, NEW q \in Requests, NEW t, t \notin Personal \cup {"plans"}, NEW state, NEW flag,
         GatedCreation(q, t, state, flag)
  PROVE  Sound(q)
BY GateSound, InsertSound DEF GatedCreation

\* The row of a workspace in a table that is keyed by it.
LEMMA PersonalStorable ==
  ASSUME IInv, NEW q \in Requests, NEW i, NEW row, i \in RowIds({TableOf(i)}), TableOf(i) \in Personal,
         DOMAIN row = Columns \cup {"ws"}, row.ws = MakerOf(i)
  PROVE  Storable(q, i, row)
<1>1. i \in DOMAIN rows => rows[i].ws = MakerOf(i)
  BY DEF IInv, Sane, WellStored, RowStored
<1> QED
  BY <1>1 DEF Storable, MayWrite, MayMake, Tied, Personal, Shared

\* A number, a user or a company: who owns it may change.
LEMMA SharedStorable ==
  ASSUME IInv, NEW q \in Requests, NEW i, NEW row, i \in RowIds({TableOf(i)}), TableOf(i) \in Shared,
         DOMAIN row = Columns \cup {"ws"}, i \in DOMAIN rows \/ MakerOf(i) \in {q} \cup Workspaces
  PROVE  Storable(q, i, row)
BY DEF Storable, MayWrite, MayMake, Tied, Personal, Shared

-----------------------------------------------------------------------------
(* Statements that delete rows.                                             *)

LEMMA CutKeeps ==
  ASSUME IInv, NEW gone, NEW ls \in SUBSET links,
         \A i \in gone : TableOf(i) \notin {"tenants", "plans"},
         \A l \in ls : l[1] \notin gone /\ l[2] \notin gone
  PROVE  Sane(Without(gone), ls, seat, caps)
<1> DEFINE new == Without(gone)
<1>1. /\ DOMAIN new = DOMAIN rows \ gone
      /\ \A j \in DOMAIN new : new[j] = IF rows[j].link \in gone /\ TableOf(j) \notin Unchecked
                                        THEN [rows[j] EXCEPT !.link = None] ELSE rows[j]
  BY DEF Without
<1> HIDE DEF new
<1>2. WellStored(rows, links, seat, caps) /\ OwnersIn(rows)
  BY DEF IInv, Sane
<1>3. ASSUME NEW j \in DOMAIN new
      PROVE  RowStored(new, j) /\ OwnerKept(new, j)
  <2>1. RowStored(rows, j) /\ OwnerKept(rows, j)
    BY <1>1, <1>2 DEF WellStored, OwnersIn
  <2>2. DOMAIN new[j] = Columns \cup {"ws"} /\ new[j].ws = rows[j].ws
    BY <1>1, <2>1 DEF RowStored, Columns
  <2>3. new[j].link = None \/ TableOf(j) \in Unchecked \/ new[j].link \in DOMAIN new
    <3>1. CASE rows[j].link \in gone /\ TableOf(j) \notin Unchecked
      BY <1>1, <2>1, <3>1 DEF RowStored, Columns
    <3>2. CASE ~(rows[j].link \in gone /\ TableOf(j) \notin Unchecked)
      BY <1>1, <2>1, <3>2 DEF RowStored
    <3> QED
      BY <3>1, <3>2
  <2>4. Home(rows[j].ws) \in DOMAIN rows => Home(rows[j].ws) \in DOMAIN new
    BY <1>1 DEF Home, TableOf
  <2> QED
    BY <2>1, <2>2, <2>3, <2>4 DEF RowStored, OwnerKept
<1>4. /\ {j \in DOMAIN new : TableOf(j) = "plans"} = {j \in DOMAIN rows : TableOf(j) = "plans"}
      /\ \A ws : Home(ws) \in DOMAIN rows => Home(ws) \in DOMAIN new
  BY <1>1 DEF Home, TableOf
<1>5. \A ws \in DOMAIN seat : seat[ws] # None => {seat[ws], Home(ws)} \subseteq DOMAIN new /\ TableOf(seat[ws]) = "plans"
  BY <1>1, <1>2, <1>4 DEF WellStored
<1>6. \A l \in ls : {l[1], l[2]} \subseteq DOMAIN new
  BY <1>1, <1>2 DEF WellStored
<1>7. WellStored(new, ls, seat, caps)
  BY <1>2, <1>3, <1>4, <1>5, <1>6 DEF WellStored
<1>8. OwnersIn(new)
  BY <1>3 DEF OwnersIn
<1> QED
  BY <1>7, <1>8 DEF Sane, new
LEMMA OrdinaryTarget ==
  ASSUME IInv, NEW q \in Requests, Target(q) \in DOMAIN rows, serving[q].kind \notin OnPlans \cup OnTenants
  PROVE  TableOf(Target(q)) \notin {"tenants", "plans"}
<1>1. Target(q) \in RowIds({TableOf(Target(q))})
  BY DEF IInv, Sane, WellStored, RowStored
<1>2. (Target(q) \notin RowIds({"plans"})) /\ (Target(q) \notin RowIds({"tenants"}))
  BY DEF IInv, RequestOK, JobFits, Target
<1> QED
  BY <1>1, <1>2

LEMMA FallenOrdinary ==
  ASSUME NEW i, TableOf(i) \notin {"tenants", "plans"}
  PROVE  \A j \in Fallen(i) : TableOf(j) \notin {"tenants", "plans"}
BY DEF Fallen, Cascading

LEMMA DeleteSound ==
  ASSUME IInv, NEW q \in Requests, NEW here, Remove(q, here) \/ Delete(q, here),
         serving[q].kind \notin OnPlans \cup OnTenants
  PROVE  Sound(q)
<1>1. ASSUME Remove(q, here) PROVE Sound(q)
  <2> DEFINE gone == Fallen(Target(q))
             ls == {l \in links : l[1] \notin gone /\ l[2] \notin gone}
  <2>1. \A j \in gone : TableOf(j) \notin {"tenants", "plans"}
    BY <1>1, OrdinaryTarget, FallenOrdinary DEF Remove, Mine
  <2>2. Sane(Without(gone), ls, seat, caps)
    BY <2>1, CutKeeps
  <2>3. RequestOK(q) /\ DOMAIN serving = Requests
    BY DEF IInv
  <2>4. Advance(q)
    BY <1>1, <2>3 DEF Remove, Advance, RequestOK, Fields
  <2>5. Steady(q)
    BY <1>1, CutSteady DEF Remove
  <2> QED
    BY <1>1, <2>2, <2>4, <2>5 DEF Remove, Sound
<1> QED
  BY <1>1, ChecksQuiet DEF Delete

\* Rows of tables that no membership refers to.
LEMMA EraseSound ==
  ASSUME IInv, NEW q \in Requests, NEW here, NEW gone, NEW next, Erase(q, here, gone, next),
         \A i \in gone : TableOf(i) \in {"tenant_logos", "email_templates", "payment_providers"}
  PROVE  Sound(q)
<1>1. \A l \in links : l[1] \notin gone /\ l[2] \notin gone
  BY DEF IInv, Sane, WellStored
<1>2. Sane(Without(gone), links, seat, caps)
  BY <1>1, CutKeeps
<1>3. RequestOK(q) /\ DOMAIN serving = Requests
  BY DEF IInv
<1>4. Advance(q)
  BY <1>3 DEF Erase, Advance, RequestOK, Fields
<1>5. Steady(q)
  BY CutSteady DEF Erase
<1> QED
  BY <1>2, <1>4, <1>5 DEF Erase, Sound

LEMMA LinkSound ==
  ASSUME IInv, NEW q \in Requests, NEW here, NEW pair, NEW next, Link(q, here, pair, next),
         {TableOf(pair[1]), TableOf(pair[2])} \subseteq {"lists", "leads", "contacts", "contact_custom_fields"}
  PROVE  Sound(q)
<1>1. Advance(q)
  BY MovesAdvance DEF Link
<1>2. WellStored(rows', links', seat', caps') /\ OwnersIn(rows')
  BY DEF IInv, Sane, WellStored, Link, OwnersIn
<1>3. Steady(q)
  BY RowsSteady DEF Link
<1> QED
  BY <1>1, <1>2, <1>3 DEF Sound, Sane

-----------------------------------------------------------------------------
(* The handlers that hold nothing.                                          *)

HoldingKinds ==
  OnDocuments \cup SeatingKinds \cup {"purchase_number", "create_lead", "delete_tenant", "bulk_delete_tenants"}

LEMMA HoldsNothing ==
  ASSUME IInv, NEW q \in Requests, Advance(q), serving[q].kind \notin HoldingKinds
  PROVE  Holds(q)'
BY DEF Advance, HoldingKinds, Holds, HoldsRow, SeesNumbers, SeesPlans, RoutesToOwn, SparesTheOperator, Asks
LEMMA RecordKeeps ==
  ASSUME IInv, NEW q \in Requests, ServeRecord(q)
  PROVE  Sound(q) /\ Holds(q)'
<1> USE DEF Asks, Personal
<1>1. ASSUME \/ ListCalls(q) \/ ListContacts(q) \/ ExportContacts(q) \/ SearchContacts(q) \/ ListCustomFields(q)
             \/ ListClients(q) \/ ListDeals(q) \/ ListEvents(q) \/ ListFollowUps(q) \/ ListContactsWithFields(q)
      PROVE  Sound(q)
  BY <1>1, ChecksQuiet DEF ListCalls, ListContacts, ExportContacts, SearchContacts, ListCustomFields, ListClients,
       ListDeals, ListEvents, ListFollowUps, ListContactsWithFields
<1>2. ASSUME \/ GetCall(q) \/ GetContact(q) \/ GetClient(q) \/ GetDeal(q) \/ GetEvent(q) \/ GetContactWithFields(q)
      PROVE  Sound(q)
  BY <1>2, FetchSound, ChecksQuiet DEF GetCall, GetContact, GetClient, GetDeal, GetEvent, GetContactWithFields
<1>3. ASSUME CreateCall(q) \/ CreateDeal(q) \/ CreateFollowUp(q) PROVE Sound(q)
  BY <1>3, GatedCreationSound, ChecksQuiet DEF CreateCall, CreateDeal, CreateFollowUp
<1>4. ASSUME CreateContact(q) \/ CreateCustomField(q) \/ CreateClient(q) \/ CreateEvent(q) PROVE Sound(q)
  BY <1>4, InsertSound, GateSound, ChecksQuiet DEF CreateContact, CheckEmail, CreateCustomField, CreateClient, CreateEvent
<1>5. ASSUME \/ UpdateCall(q) \/ UpdateContact(q) \/ UpdateCustomField(q) \/ UpdateClient(q) \/ UpdateDeal(q)
             \/ UpdateEvent(q) \/ UpdateFollowUp(q)
      PROVE  Sound(q)
  BY <1>5, EditSound, ChecksQuiet DEF UpdateCall, UpdateContact, UpdateCustomField, UpdateClient, UpdateDeal,
       UpdateEvent, UpdateFollowUp
<1>6. ASSUME \/ DeleteCall(q) \/ DeleteContact(q) \/ DeleteCustomField(q) \/ DeleteClient(q) \/ DeleteDeal(q)
             \/ DeleteEvent(q) \/ DeleteFollowUp(q)
      PROVE  Sound(q)
  BY <1>6, DeleteSound DEF DeleteCall, DeleteContact, DeleteCustomField, DeleteClient, DeleteDeal, DeleteEvent,
       DeleteFollowUp, OnPlans, OnTenants
<1>7. ASSUME RespondToCall(q) PROVE Sound(q)
  <2> DEFINE row == [NewRow(q, "pending", "on") EXCEPT !.link = Target(q)]
  <2>1. DOMAIN row = Columns \cup {"ws"} /\ row.ws = serving[q].ws
    BY DEF NewRow, Columns
  <2>2. Storable(q, <<"follow_ups", q>>, row)
    BY <2>1, NewRowStorable
  <2> QED
    BY <1>7, <2>2, PutSound, FetchSound, ChecksQuiet DEF RespondToCall
<1>12. ASSUME RecordCall(q) PROVE Sound(q)
  <2> DEFINE row == [NewRow(q, "pending", "on") EXCEPT !.link = <<"calls", q>>]
  <2>1. DOMAIN row = Columns \cup {"ws"} /\ row.ws = serving[q].ws
    BY DEF NewRow, Columns
  <2>2. Storable(q, <<"follow_ups", q>>, row)
    BY <2>1, NewRowStorable
  <2> QED
    BY <1>12, <2>2, PutSound, InsertSound, ChecksQuiet DEF RecordCall
<1>8. ASSUME UpdateContactFieldValue(q) PROVE Sound(q)
  <2>1. /\ Target(q) \in RowIds({"contacts"})
        /\ serving[q].ref \in RowIds({"contact_custom_fields"})
    BY <1>8 DEF IInv, RequestOK, JobFits, Target, UpdateContactFieldValue
  <2>2. TableOf(Target(q)) = "contacts"
    BY <2>1, RowIdParts
  <2>3. TableOf(serving[q].ref) = "contact_custom_fields"
    BY <2>1, RowIdParts
  <2>4. ASSUME Link(q, "write", FieldValue(q), "reread") PROVE Sound(q)
    BY <2>2, <2>3, <2>4, LinkSound DEF FieldValue
  <2>5. ASSUME /\ IF FieldValue(q) \in links THEN Ends(q, "ok") ELSE Ends(q, "failed")
               /\ UNCHANGED tables
        PROVE  Sound(q)
    <3>1. Advance(q)
      BY <2>5, MovesAdvance
    <3> QED
      BY <2>5, <3>1, QuietSound DEF tables
  <2> QED
    BY <1>8, <2>4, <2>5, FetchSound DEF UpdateContactFieldValue
<1>9. ASSUME MoveStage(q) PROVE Sound(q)
  <2>1. ASSUME NEW next, Change(q, "stage", Named(q), next) PROVE Sound(q)
    BY <2>1, ChangeSound, EditsKeepOwner DEF Change
  <2>2. ASSUME Change(q, "won", [rows[Target(q)] EXCEPT !.flag = "on"], "answer") PROVE Sound(q)
    BY <2>2, ChangeSound, EditsKeepOwner DEF Change, Columns
  <2> QED
    BY <1>9, <2>1, <2>2, FetchSound, ChecksQuiet DEF MoveStage
<1>10. Sound(q)
  BY <1>1, <1>2, <1>3, <1>4, <1>5, <1>6, <1>7, <1>8, <1>9, <1>12 DEF ServeRecord
<1>11. serving[q].kind \notin HoldingKinds
  BY DEF ServeRecord, ListCalls, GetCall, CreateCall, UpdateCall, DeleteCall, RespondToCall, RecordCall, ListContacts,
         ExportContacts, SearchContacts, GetContact, CreateContact, UpdateContact, DeleteContact, ListCustomFields,
         CreateCustomField, UpdateCustomField, DeleteCustomField, GetContactWithFields, ListContactsWithFields,
         UpdateContactFieldValue, ListClients, GetClient, CreateClient, UpdateClient, DeleteClient, ListDeals,
         GetDeal, CreateDeal, UpdateDeal, DeleteDeal, MoveStage, ListEvents, GetEvent, CreateEvent, UpdateEvent,
         DeleteEvent, ListFollowUps, CreateFollowUp, UpdateFollowUp, DeleteFollowUp,
       HoldingKinds, OnDocuments, SeatingKinds
<1> QED
  BY <1>10, <1>11, HoldsNothing DEF Sound
LEMMA AutomationKeeps ==
  ASSUME IInv, NEW q \in Requests, ServeAutomation(q)
  PROVE  Sound(q) /\ Holds(q)'
<1> USE DEF Asks, Personal
<1>1. ASSUME \/ ListRules(q) \/ ListTemplates(q) \/ ListIntegrations(q) \/ ListTargets(q) \/ ListCompanies(q)
             \/ ListEmailTriggers(q) \/ ListRedirects(q) \/ ListExports(q) \/ ListImports(q)
      PROVE  Sound(q)
  BY <1>1, ChecksQuiet DEF ListRules, ListTemplates, ListIntegrations, ListTargets, ListCompanies,
       ListEmailTriggers, ListRedirects, ListExports, ListImports
<1>2. ASSUME \/ TestIntegration(q) \/ GetCompany(q) \/ GetSmtp(q) \/ GetEmailTrigger(q) \/ GetRedirect(q)
             \/ GetExport(q) \/ GetImport(q)
      PROVE  Sound(q)
  BY <1>2, FetchSound, ChecksQuiet DEF TestIntegration, GetCompany, GetSmtp, GetEmailTrigger, GetRedirect, GetExport,
       GetImport
<1>3. ASSUME CreateRule(q) \/ CreateTemplate(q) \/ CreateIntegration(q) PROVE Sound(q)
  BY <1>3, GatedCreationSound, ChecksQuiet DEF CreateRule, CreateTemplate, CreateIntegration
<1>4. ASSUME \/ CreateTarget(q) \/ CreateCompany(q) \/ CreateEmailTrigger(q) \/ CreateRedirect(q) \/ CreateExport(q)
             \/ CreateImport(q)
      PROVE  Sound(q)
  BY <1>4, InsertSound, GateSound, ChecksQuiet DEF CreateTarget, CreateCompany, CreateEmailTrigger, CreateRedirect,
       CreateExport, CreateImport
<1>5. ASSUME \/ UpdateRule(q) \/ UpdateTemplate(q) \/ UpdateIntegration(q) \/ UpdateEmailTrigger(q)
             \/ UpdateRedirect(q) \/ UpdateExport(q) \/ UpdateImport(q)
      PROVE  Sound(q)
  BY <1>5, EditSound, ChecksQuiet DEF UpdateRule, UpdateTemplate, UpdateIntegration, UpdateEmailTrigger,
       UpdateRedirect, UpdateExport, UpdateImport
<1>6. ASSUME \/ DeleteRule(q) \/ DeleteTemplate(q) \/ DeleteIntegration(q) \/ DeleteTarget(q) \/ DeleteCompany(q)
             \/ DeleteEmailTrigger(q) \/ DeleteRedirect(q) \/ DeleteExport(q) \/ DeleteImport(q)
      PROVE  Sound(q)
  BY <1>6, DeleteSound, ChecksQuiet DEF DeleteRule, DeleteTemplate, DeleteIntegration, DeleteTarget, DeleteCompany,
       DeleteEmailTrigger, DeleteRedirect, DeleteExport, DeleteImport, OnPlans, OnTenants
<1>7. ASSUME UpdateTarget(q) PROVE Sound(q)
  <2>1. ASSUME Change(q, "write", Named(q), "reread") PROVE Sound(q)
    BY <2>1, ChangeSound, EditsKeepOwner DEF Change
  <2> QED
    BY <1>7, <2>1, FetchSound, ChecksQuiet, RereadSound DEF UpdateTarget
<1>8. ASSUME UpdateCompany(q) PROVE Sound(q)
  <2>1. ASSUME Change(q, "write", Reactivated(q), "reread") PROVE Sound(q)
    BY <2>1, ChangeSound, EditsKeepOwner DEF Change, Reactivated, Columns
  <2> QED
    BY <1>8, <2>1, FetchSound, ChecksQuiet, RereadSound DEF UpdateCompany
<1>9. ASSUME SyncCompany(q) PROVE Sound(q)
  <2>1. Target(q) = Home(serving[q].ws) /\ serving[q].ws \in Workspaces
    BY <1>9 DEF SyncCompany, IInv, RequestOK, JobFits, Target, OfVisitors
  <2>2. Target(q) \in RowIds({TableOf(Target(q))}) /\ TableOf(Target(q)) = "tenants" /\ MakerOf(Target(q)) = serving[q].ws
    BY <2>1, RowIdMade DEF Home
  <2>3. DOMAIN Claimed(q) = Columns \cup {"ws"} /\ Claimed(q).ws = serving[q].ws
    <3>1. CASE Target(q) \in DOMAIN rows
      <4>1. DOMAIN rows[Target(q)] = Columns \cup {"ws"} /\ rows[Target(q)].ws = serving[q].ws
        BY <2>2, <3>1 DEF IInv, Sane, WellStored, RowStored
      <4> QED
        BY <3>1, <4>1 DEF Claimed, Columns
    <3>2. CASE Target(q) \notin DOMAIN rows
      BY <3>2 DEF Claimed, Columns
    <3> QED
      BY <3>1, <3>2
  <2>4. Storable(q, Target(q), Claimed(q))
    BY <2>2, <2>3, PersonalStorable
  <2>5. ASSUME ClaimWorkspace(q) PROVE Sound(q)
    <3>1. CASE rows' = rows
      BY <2>5, <3>1, MovesAdvance, QuietSound DEF ClaimWorkspace
    <3>2. CASE rows' = With(rows, Target(q), Claimed(q)) /\ Fits(Target(q), Claimed(q)) /\ Wrote(q, "insert")
      BY <2>4, <2>5, <3>2, PutSound DEF ClaimWorkspace, Put
    <3> QED
      BY <2>5, <3>1, <3>2 DEF ClaimWorkspace
  <2> QED
    BY <1>9, <2>5, InsertSound, ChecksQuiet DEF SyncCompany
<1>10. ASSUME UpdateSmtp(q) PROVE Sound(q)
  <2>1. ASSUME Change(q, "write", [rows[Target(q)] EXCEPT !.state = serving[q].val], "answer") PROVE Sound(q)
    BY <2>1, ChangeSound, EditsKeepOwner DEF Change, Columns
  <2> QED
    BY <1>10, <2>1, FetchSound, ChecksQuiet DEF UpdateSmtp
<1>11. Sound(q)
  BY <1>1, <1>2, <1>3, <1>4, <1>5, <1>6, <1>7, <1>8, <1>9, <1>10 DEF ServeAutomation
<1>12. serving[q].kind \notin HoldingKinds
  BY DEF ServeAutomation, ListRules, CreateRule, UpdateRule, DeleteRule, ListTemplates, CreateTemplate,
         UpdateTemplate, DeleteTemplate, ListIntegrations, CreateIntegration, UpdateIntegration, DeleteIntegration,
         TestIntegration, ListTargets, CreateTarget, UpdateTarget, DeleteTarget, ListCompanies, GetCompany,
         CreateCompany, UpdateCompany, DeleteCompany, SyncCompany, GetSmtp, UpdateSmtp, ListEmailTriggers,
         GetEmailTrigger, CreateEmailTrigger, UpdateEmailTrigger, DeleteEmailTrigger, ListRedirects, GetRedirect,
         CreateRedirect, UpdateRedirect, DeleteRedirect, ListExports, GetExport, CreateExport, UpdateExport,
         DeleteExport, ListImports, GetImport, CreateImport, UpdateImport, DeleteImport,
       HoldingKinds, OnDocuments, SeatingKinds
<1> QED
  BY <1>11, <1>12, HoldsNothing DEF Sound
-----------------------------------------------------------------------------
(* The settings, whose documents are written from the row read before.      *)

\* A move keeps what the request holds.
LEMMA MovesHold ==
  ASSUME IInv, NEW q \in Requests, NEW next,
         \/ Goes(q, next) \/ Answers(q, next) \/ Wrote(q, next)
         \/ \E answer \in {"ok", "refused", "failed"} : Ends(q, answer)
  PROVE  /\ serving'[q].at \in {next, "done"}
         /\ serving'[q].read = serving[q].read /\ serving'[q].saw = serving[q].saw
<1> RequestOK(q) /\ DOMAIN serving = Requests
  BY DEF IInv
<1> QED
  BY DEF Goes, Answers, Wrote, Ends, RequestOK, Fields

LEMMA DocumentHolds ==
  ASSUME IInv, NEW q \in Requests, Advance(q), HoldsRow(q)', serving[q].kind \in OnDocuments
  PROVE  Holds(q)'
BY DEF Advance, OnDocuments, SeatingKinds, Holds, SeesNumbers, SeesPlans, RoutesToOwn, SparesTheOperator, Asks

\* A document is the one of the caller's workspace.
LEMMA DocumentTarget ==
  ASSUME IInv, NEW q \in Requests, serving[q].kind \in OnDocuments
  PROVE  /\ Target(q) \in RowIds({TableOf(Target(q))}) /\ TableOf(Target(q)) \in Personal
         /\ MakerOf(Target(q)) = serving[q].ws
<1>1. Target(q) \in RowIds({"email_config", "site", "branding"}) /\ MakerOf(Target(q)) = serving[q].ws
  BY DEF IInv, RequestOK, JobFits, Target
<1> QED
  BY <1>1 DEF RowIds, TableOf, Personal

LEMMA ReadStoredHolds ==
  ASSUME IInv, NEW q \in Requests, NEW here, NEW next, ReadStored(q, here, next), serving[q].kind \in OnDocuments
  PROVE  HoldsRow(q)'
<1>1. DOMAIN Stored(q) = Columns \cup {"ws"} /\ Stored(q).ws = serving[q].ws
  <2>1. CASE Target(q) \in DOMAIN rows
    <3>1. RowStored(rows, Target(q)) /\ TableOf(Target(q)) \in Personal /\ MakerOf(Target(q)) = serving[q].ws
      BY <2>1, DocumentTarget DEF IInv, Sane, WellStored
    <3> QED
      BY <2>1, <3>1 DEF Stored, RowStored
  <2>2. CASE Target(q) \notin DOMAIN rows
    BY <2>2 DEF Stored, Columns
  <2> QED
    BY <2>1, <2>2
<1>2. serving'[q].read = Stored(q) /\ serving'[q].ws = serving[q].ws
  BY DEF ReadStored, IInv, RequestOK, Fields
<1> QED
  BY <1>1, <1>2 DEF HoldsRow

LEMMA ReadDocKeeps ==
  ASSUME IInv, NEW q \in Requests, NEW here, NEW next, ReadDoc(q, here, next)
  PROVE  Sound(q) /\ (serving[q].kind \in OnDocuments => HoldsRow(q)')
<1>1. CASE ReadStored(q, here, "pointer")
  BY <1>1, ReadStoredHolds, ChecksQuiet
<1>2. CASE /\ At(q, "pointer")
           /\ serving' = [serving EXCEPT ![q].at = next, ![q].read.link = IF @ \in DOMAIN rows THEN @ ELSE None]
           /\ UNCHANGED tables
  <2>1. RequestOK(q) /\ DOMAIN serving = Requests /\ HoldsRow(q)
    BY DEF IInv, Holds
  <2>2. Advance(q)
    BY <1>2, <2>1 DEF Advance, RequestOK, Fields
  <2>3. Sound(q)
    BY <1>2, <2>2, QuietSound DEF tables
  <2>4. /\ DOMAIN serving'[q].read = DOMAIN serving[q].read
        /\ "ws" \in DOMAIN serving[q].read => serving'[q].read.ws = serving[q].read.ws
        /\ serving'[q].ws = serving[q].ws
    BY <1>2, <2>1 DEF RequestOK, Fields
  <2> QED
    BY <1>2, <2>1, <2>3, <2>4 DEF HoldsRow, At
<1> QED
  BY <1>1, <1>2 DEF ReadDoc

LEMMA SaveStoredKeeps ==
  ASSUME IInv, NEW q \in Requests, NEW value, SaveStored(q, "write", value, "answer"), serving[q].kind \in OnDocuments
  PROVE  Sound(q) /\ HoldsRow(q)'
<1> DEFINE row == [serving[q].read EXCEPT ![serving[q].col] = value]
<1>1. DOMAIN serving[q].read = Columns \cup {"ws"} /\ serving[q].read.ws = serving[q].ws
  BY DEF SaveStored, Put, At, IInv, Holds, HoldsRow
<1>2. serving[q].col \in Columns
  BY DEF IInv, RequestOK, JobFits
<1>3. DOMAIN row = Columns \cup {"ws"} /\ row.ws = serving[q].ws
  BY <1>1, <1>2 DEF Columns
<1>4. Storable(q, Target(q), row)
  BY <1>3, DocumentTarget, PersonalStorable
<1>5. Sound(q)
  BY <1>4, PutSound DEF SaveStored
<1>6. serving'[q].at \in {"answer", "done"}
  BY MovesHold DEF SaveStored, Put
<1> QED
  BY <1>5, <1>6 DEF HoldsRow

\* The row of a workspace's own key or picture.
LEMMA OwnSettingStorable ==
  ASSUME IInv, NEW q \in Requests, serving[q].kind \notin OfVisitors, NEW t,
         t \in Personal, NEW row, DOMAIN row = Columns \cup {"ws"}, row.ws = serving[q].ws
  PROVE  Storable(q, <<t, serving[q].ws>>, row)
<1>1. serving[q].ws \in Requests \cup Workspaces
  BY DEF IInv, RequestOK, JobFits
<1>2. LET i == <<t, serving[q].ws>> IN TableOf(i) = t /\ i \in RowIds({TableOf(i)}) /\ MakerOf(i) = serving[q].ws
  BY <1>1, RowIdMade
<1> QED
  BY <1>2, PersonalStorable
LEMMA DocumentKeeps ==
  ASSUME IInv, NEW q \in Requests,
         UpdateEmailConfig(q) \/ UpdateSite(q) \/ PutBranding(q) \/ UploadLogo(q) \/ DeleteLogo(q)
  PROVE  Sound(q) /\ Holds(q)'
<1> USE DEF Asks
<1>1. serving[q].kind \in OnDocuments /\ HoldsRow(q)
  BY DEF OnDocuments, UpdateEmailConfig, UpdateSite, PutBranding, UploadLogo, DeleteLogo, IInv, Holds
<1>2. ASSUME NEW here, Refuse(q, here) \/ Finish(q, here) PROVE Sound(q) /\ HoldsRow(q)'
  <2>1. serving'[q].at = "done"
    BY <1>2, MovesHold DEF Refuse, Finish
  <2> QED
    BY <1>2, <2>1, ChecksQuiet DEF HoldsRow
<1>3. ASSUME Encrypt(q, "seal", "write") PROVE Sound(q) /\ HoldsRow(q)'
  <2>1. serving'[q].read = serving[q].read
    BY <1>3, MovesHold DEF Encrypt
  <2> QED
    BY <1>1, <1>3, <2>1, ChecksQuiet DEF HoldsRow, Encrypt, At, Sound, Advance
<1>4. ASSUME NEW here, NEW next, ReadStored(q, here, next) PROVE Sound(q) /\ HoldsRow(q)'
  BY <1>1, <1>4, ChecksQuiet, ReadStoredHolds
<1>5. ASSUME NEW here, NEW next, ReadDoc(q, here, next) PROVE Sound(q) /\ HoldsRow(q)'
  BY <1>1, <1>5, ReadDocKeeps
<1>6. ASSUME NEW value, SaveStored(q, "write", value, "answer") PROVE Sound(q) /\ HoldsRow(q)'
  BY <1>1, <1>6, SaveStoredKeeps
<1>7. ASSUME UploadLogo(q),
             Put(q, "start", LogoOf(serving[q].ws),
                 [NewRow(q, "image", "on") EXCEPT !.key = None, !.link = None], "doc")
      PROVE  Sound(q) /\ HoldsRow(q)'
  <2> DEFINE row == [NewRow(q, "image", "on") EXCEPT !.key = None, !.link = None]
  <2>1. DOMAIN row = Columns \cup {"ws"} /\ row.ws = serving[q].ws
    BY DEF NewRow, Columns
  <2>2. Storable(q, LogoOf(serving[q].ws), row)
    BY <1>7, <2>1, OwnSettingStorable DEF LogoOf, UploadLogo, OfVisitors, Personal
  <2>3. serving'[q].at \in {"doc", "done"}
    BY <1>7, MovesHold DEF Put
  <2> QED
    BY <1>7, <2>2, <2>3, PutSound DEF HoldsRow
<1>8. ASSUME Erase(q, "start", {LogoOf(serving[q].ws)} \cap DOMAIN rows, "doc")
      PROVE  Sound(q) /\ HoldsRow(q)'
  <2>1. \A i \in {LogoOf(serving[q].ws)} \cap DOMAIN rows : TableOf(i) = "tenant_logos"
    BY DEF LogoOf, TableOf
  <2>2. Sound(q)
    BY <1>8, <2>1, EraseSound
  <2>3. serving'[q].at = "doc"
    BY <1>8 DEF Erase, IInv, RequestOK, Fields
  <2> QED
    BY <2>2, <2>3 DEF HoldsRow
<1>9. Sound(q) /\ HoldsRow(q)'
  <2>1. CASE UpdateEmailConfig(q)
    BY <2>1, <1>2, <1>3, <1>4, <1>6 DEF UpdateEmailConfig
  <2>2. CASE UpdateSite(q)
    BY <2>2, <1>2, <1>4, <1>6 DEF UpdateSite
  <2>3. CASE PutBranding(q)
    BY <2>3, <1>2, <1>5, <1>6 DEF PutBranding
  <2>4. CASE UploadLogo(q)
    BY <2>4, <1>2, <1>5, <1>6, <1>7 DEF UploadLogo
  <2>5. CASE DeleteLogo(q)
    BY <2>5, <1>2, <1>5, <1>6, <1>8 DEF DeleteLogo
  <2> QED
    BY <2>1, <2>2, <2>3, <2>4, <2>5
<1> QED
  BY <1>1, <1>9, DocumentHolds DEF Sound
\* The mail templates are written past the constraints' check, but for the one
\* on defaults; a new one links to nothing and an edit does not touch the link.
LEMMA SaveTemplateSound ==
  ASSUME IInv, NEW q \in Requests, NEW i, NEW row, SaveTemplate(q, i, row), Storable(q, i, row), Housed(i, row),
         row.link = None \/ TableOf(i) \in Unchecked \/ row.link \in DOMAIN rows
  PROVE  Sound(q)
<1>1. Advance(q)
  BY MovesAdvance DEF SaveTemplate
<1>2. CASE rows' = rows
  BY <1>1, <1>2, QuietSound DEF SaveTemplate
<1>3. CASE rows' = With(rows, i, row)
  <2>1. Sane(With(rows, i, row), links, seat, caps)
    BY WithKeeps DEF IInv, Housed, Storable
  <2> QED
    BY <1>1, <1>3, <2>1, WithSteady DEF SaveTemplate, Sound, Storable
<1> QED
  BY <1>2, <1>3 DEF SaveTemplate

LEMMA TemplateSound ==
  ASSUME IInv, NEW q \in Requests, CreateEmailTemplate(q) \/ UpdateEmailTemplate(q) \/ DeleteEmailTemplate(q)
  PROVE  Sound(q)
<1> USE DEF Asks, Personal
<1>1. JobFits(serving[q]) /\ WellStored(rows, links, seat, caps)
  BY DEF IInv, RequestOK, Sane
<1>2. ASSUME CreateEmailTemplate(q),
             SaveTemplate(q, <<"email_templates", q>>, [NewRow(q, "new", serving[q].ref) EXCEPT !.link = None])
      PROVE  Sound(q)
  <2> DEFINE row == [NewRow(q, "new", serving[q].ref) EXCEPT !.link = None]
  <2>1. DOMAIN row = Columns \cup {"ws"} /\ row.ws = serving[q].ws /\ row.link = None
    BY DEF NewRow, Columns
  <2>2. Storable(q, <<"email_templates", q>>, row)
    BY <2>1, NewRowStorable
  <2>3. serving[q].ws = Operator /\ Home(Operator) \in DOMAIN rows
    BY <1>1, <1>2 DEF JobFits, OfOperator, CreateEmailTemplate, WellStored
  <2> QED
    BY <1>2, <2>1, <2>2, <2>3, SaveTemplateSound DEF Housed
<1>3. ASSUME UpdateEmailTemplate(q), Target(q) \in DOMAIN rows, SaveTemplate(q, Target(q), Named(q)) PROVE Sound(q)
  <2>1. RowStored(rows, Target(q))
    BY <1>1, <1>3 DEF WellStored
  <2>2. DOMAIN Named(q) = Columns \cup {"ws"} /\ Named(q).ws = rows[Target(q)].ws
    BY <1>3, EditsKeepOwner
  <2>3. Named(q).link = rows[Target(q)].link
    BY <1>1, <1>3, <2>1 DEF JobFits, UpdateEmailTemplate, RowStored, Named, Columns
  <2>4. Storable(q, Target(q), Named(q))
    BY <1>3, <2>2, SameOwnerStorable
  <2> QED
    BY <1>3, <2>1, <2>2, <2>3, <2>4, SaveTemplateSound DEF RowStored, Housed
<1>4. ASSUME DeleteEmailTemplate(q), Erase(q, "start", {Target(q)} \cap DOMAIN rows, "answer") PROVE Sound(q)
  <2>1. Target(q) \in RowIds({"email_templates"})
    BY <1>1, <1>4 DEF JobFits, DeleteEmailTemplate, Target
  <2>2. TableOf(Target(q)) = "email_templates"
    BY <2>1, RowIdParts
  <2> QED
    BY <1>4, <2>2, EraseSound
<1>5. ASSUME NEW next, Goes(q, next), UNCHANGED tables PROVE Sound(q)
  BY <1>5, MovesAdvance, QuietSound DEF tables
<1> QED
  BY <1>2, <1>3, <1>4, <1>5, RereadSound, ChecksQuiet DEF CreateEmailTemplate, UpdateEmailTemplate, DeleteEmailTemplate

LEMMA ProviderSound ==
  ASSUME IInv, NEW q \in Requests, UpsertKey(q) \/ UpsertPaymentProvider(q) \/ DeletePaymentProvider(q)
  PROVE  Sound(q)
<1> USE DEF Asks
<1>1. ASSUME NEW next, Goes(q, next), UNCHANGED tables PROVE Sound(q)
  BY <1>1, MovesAdvance, QuietSound DEF tables
<1>2. CASE UpsertKey(q)
  <2> DEFINE row == [NewRow(q, "new", "on") EXCEPT !.link = None]
  <2>1. DOMAIN row = Columns \cup {"ws"} /\ row.ws = serving[q].ws
    BY DEF NewRow, Columns
  <2>2. Storable(q, KeyOf(serving[q].ws), row)
    BY <1>2, <2>1, OwnSettingStorable DEF KeyOf, UpsertKey, OfVisitors, Personal
  <2>3. ASSUME Put(q, "save", KeyOf(serving[q].ws), row, "answer") PROVE Sound(q)
    BY <2>2, <2>3, PutSound
  <2> HIDE DEF row
  <2> QED
    BY <1>1, <1>2, <2>3, ChecksQuiet DEF UpsertKey, row
<1>3. CASE UpsertPaymentProvider(q)
  <2>1. ASSUME NEW i, ChangeRow(q, "write", i, ReLabelled(q, i), "answer") PROVE Sound(q)
    <3>1. i \in DOMAIN rows => DOMAIN rows[i] = Columns \cup {"ws"}
      BY DEF IInv, Sane, WellStored, RowStored
    <3>2. i \in DOMAIN rows => DOMAIN ReLabelled(q, i) = Columns \cup {"ws"} /\ ReLabelled(q, i).ws = rows[i].ws
      BY <3>1 DEF ReLabelled, Columns
    <3> QED
      BY <2>1, <3>2, ChangeSound
  <2>2. ASSUME Put(q, "write", <<"payment_providers", q>>, NewProvider(q), "answer") PROVE Sound(q)
    <3>1. DOMAIN NewProvider(q) = Columns \cup {"ws"} /\ NewProvider(q).ws = Operator
      BY DEF NewProvider, Columns
    <3>2. serving[q].ws = Operator
      BY <1>3 DEF UpsertPaymentProvider, IInv, RequestOK, JobFits, OfOperator
    <3>3. Storable(q, <<"payment_providers", q>>, NewProvider(q))
      BY <3>1, <3>2, NewRowStorable DEF Personal
    <3> QED
      BY <2>2, <3>3, PutSound
  <2> QED
    BY <1>3, <2>1, <2>2, ChecksQuiet DEF UpsertPaymentProvider
<1>4. CASE DeletePaymentProvider(q)
  BY <1>4, EraseSound, ChecksQuiet DEF DeletePaymentProvider, OfType, Rows
<1> QED
  BY <1>2, <1>3, <1>4

LEMMA SettingKeeps ==
  ASSUME IInv, NEW q \in Requests, ServeSetting(q)
  PROVE  Sound(q) /\ Holds(q)'
<1> USE DEF Asks
<1>1. CASE UpdateEmailConfig(q) \/ UpdateSite(q) \/ PutBranding(q) \/ UploadLogo(q) \/ DeleteLogo(q)
  BY <1>1, DocumentKeeps
<1>2. CASE ~(UpdateEmailConfig(q) \/ UpdateSite(q) \/ PutBranding(q) \/ UploadLogo(q) \/ DeleteLogo(q))
  <2>1. ASSUME \/ GetEmailConfig(q) \/ GetSite(q) \/ GetLogo(q) \/ ListEmailTemplates(q) \/ ListKeys(q)
               \/ ListPaymentProviders(q)
        PROVE  Sound(q)
    BY <2>1, ChecksQuiet DEF GetEmailConfig, GetSite, GetLogo, ListEmailTemplates, ListKeys, ListPaymentProviders
  <2>2. ASSUME GetBranding(q) PROVE Sound(q)
    BY <2>2, ReadDocKeeps, ChecksQuiet DEF GetBranding
  <2>3. ASSUME DeleteKey(q) PROVE Sound(q)
    BY <2>3, DeleteSound DEF DeleteKey, OnPlans, OnTenants
  <2>4. Sound(q)
    BY <1>2, <2>1, <2>2, <2>3, TemplateSound, ProviderSound DEF ServeSetting
  <2>5. serving[q].kind \notin HoldingKinds
    BY <1>2 DEF ServeSetting, GetEmailConfig, GetSite, GetBranding, GetLogo, ListEmailTemplates, CreateEmailTemplate,
         UpdateEmailTemplate, DeleteEmailTemplate, ListKeys, UpsertKey, DeleteKey, ListPaymentProviders,
         UpsertPaymentProvider, DeletePaymentProvider, HoldingKinds, OnDocuments, SeatingKinds
  <2> QED
    BY <2>4, <2>5, HoldsNothing DEF Sound
<1> QED
  BY <1>1, <1>2
-----------------------------------------------------------------------------
(* Campaigns and the lists of their own.                                    *)

LEMMA GateMoves ==
  ASSUME IInv, NEW q \in Requests, NEW here, NEW feature, NEW next, Gate(q, here, feature, next)
  PROVE  serving'[q].at \in {"limit", "count", next, "done"} /\ serving'[q].saw = serving[q].saw
<1> RequestOK(q) /\ DOMAIN serving = Requests
  BY DEF IInv
<1>1. CASE ReadPlan(q, here, "limit")
  BY <1>1 DEF ReadPlan, RequestOK, Fields
<1>2. CASE ReadLimit(q, feature, next)
  BY <1>2 DEF ReadLimit, Ends, Goes, RequestOK, Fields
<1>3. CASE CountUsage(q, feature, next)
  BY <1>3 DEF CountUsage, Ends, RequestOK, Fields
<1> QED
  BY <1>1, <1>2, <1>3 DEF Gate

LEMMA EnsureListKeeps ==
  ASSUME IInv, NEW q \in Requests, NEW here, NEW campaign, NEW next, EnsureList(q, here, campaign, next)
  PROVE  /\ Sound(q)
         /\ \/ serving'[q].at = "own list" /\ serving'[q].read = serving[q].read
            \/ serving'[q].at = next /\ \A l \in serving'[q].saw : TableOf(l) = "lists"
<1>1. RequestOK(q) /\ DOMAIN serving = Requests
  BY DEF IInv
<1>2. Advance(q)
  <2>1. CASE Goes(q, "own list")
    BY <2>1, MovesAdvance
  <2>2. ASSUME NEW l, serving' = [serving EXCEPT ![q].at = next, ![q].saw = {l}] PROVE Advance(q)
    BY <1>1, <2>2 DEF Advance, RequestOK, Fields
  <2> QED
    BY <2>1, <2>2 DEF EnsureList
<1>3. Sound(q)
  BY <1>2, QuietSound DEF EnsureList, tables
<1>4. CASE Goes(q, "own list")
  BY <1>1, <1>3, <1>4 DEF Goes, RequestOK, Fields
<1>5. ASSUME NEW l \in CampaignLists(campaign), serving' = [serving EXCEPT ![q].at = next, ![q].saw = {l}]
      PROVE  serving'[q].at = next /\ \A k \in serving'[q].saw : TableOf(k) = "lists"
  BY <1>1, <1>5 DEF CampaignLists, Rows, RequestOK, Fields
<1> QED
  BY <1>3, <1>4, <1>5 DEF EnsureList

\* The new list is of the campaign's workspace, which the campaign's row keeps there.
LEMMA InsertListKeeps ==
  ASSUME IInv, NEW q \in Requests, NEW campaign, NEW next, NEW giveUp, InsertList(q, campaign, next, giveUp),
         campaign \in RowIds({"campaigns"}), Issuer(campaign) = serving[q].ws
  PROVE  /\ Sound(q)
         /\ \/ serving'[q].at = giveUp
            \/ serving'[q].at = next /\ \A l \in serving'[q].saw : TableOf(l) = "lists"
<1>1. RequestOK(q) /\ DOMAIN serving = Requests
  BY DEF IInv
<1>2. CASE Goes(q, giveUp) /\ rows' = rows
  <2>1. Advance(q)
    BY <1>2, MovesAdvance
  <2>2. serving'[q].at = giveUp
    BY <1>1, <1>2 DEF Goes, RequestOK, Fields
  <2> QED
    BY <1>2, <2>1, <2>2, QuietSound DEF InsertList
<1>3. CASE /\ campaign \in DOMAIN rows
           /\ rows' = With(rows, <<"lists", q>>, OwnList(q, campaign))
           /\ serving' = [serving EXCEPT ![q].at = next, ![q].saw = {<<"lists", q>>}, ![q].wrote = TRUE]
  <2> DEFINE row == OwnList(q, campaign)
  <2>1. DOMAIN row = Columns \cup {"ws"} /\ row.ws = serving[q].ws /\ row.link = campaign
    BY DEF OwnList, Columns
  <2>2. Storable(q, <<"lists", q>>, row)
    BY <2>1, NewRowStorable DEF Personal
  <2>3. TableOf(campaign) = "campaigns"
    BY RowIdParts
  <2>4. rows[campaign].ws = serving[q].ws /\ RowStored(rows, campaign)
    BY <1>3, <2>3 DEF IInv, Sane, OwnersIn, OwnerKept, Tied, WellStored
  <2>5. row.ws = None \/ Home(row.ws) \in DOMAIN rows
    BY <2>1, <2>3, <2>4 DEF RowStored, Personal
  <2>6. Sane(With(rows, <<"lists", q>>, row), links, seat, caps)
    BY <1>3, <2>1, <2>2, <2>5, WithKeeps DEF IInv, Storable
  <2>7. Advance(q)
    BY <1>1, <1>3 DEF Advance, RequestOK, Fields
  <2>8. Sound(q)
    BY <1>3, <2>2, <2>6, <2>7, WithSteady DEF InsertList, Sound, Storable
  <2>9. serving'[q].at = next /\ serving'[q].saw = {<<"lists", q>>}
    BY <1>1, <1>3 DEF RequestOK, Fields
  <2> QED
    BY <2>8, <2>9 DEF TableOf
<1> QED
  BY <1>2, <1>3 DEF InsertList

\* Of create_lead only its routing holds anything.
LEMMA LeadHolds ==
  ASSUME IInv, NEW q \in Requests, Advance(q), RoutesToOwn(q)', Asks(q, "create_lead")
  PROVE  Holds(q)'
BY DEF Advance, OnDocuments, SeatingKinds, Holds, HoldsRow, SeesNumbers, SeesPlans, SparesTheOperator, Asks

LEMMA CreateLeadKeeps ==
  ASSUME IInv, NEW q \in Requests, CreateLead(q)
  PROVE  Sound(q) /\ Holds(q)'
<1>1. RequestOK(q) /\ DOMAIN serving = Requests /\ Asks(q, "create_lead") /\ RoutesToOwn(q)
  BY DEF IInv, Holds, CreateLead
<1>2. ASSUME serving'[q].at \notin {"list", "own list", "join"} PROVE RoutesToOwn(q)'
  BY <1>2 DEF RoutesToOwn, At
<1>3. ASSUME Refuse(q, "start") PROVE Sound(q) /\ RoutesToOwn(q)'
  <2>1. serving'[q].at = "done"
    BY <1>3, MovesHold DEF Refuse
  <2> QED
    BY <1>2, <1>3, <2>1, ChecksQuiet
<1>4. ASSUME Gate(q, "start", "leads", "insert") PROVE Sound(q) /\ RoutesToOwn(q)'
  <2>1. Sound(q)
    BY <1>4, GateSound
  <2>2. serving'[q].at \in {"limit", "count", "insert", "done"}
    BY <1>4, GateMoves
  <2> QED
    BY <1>2, <2>1, <2>2
<1>5. ASSUME Insert(q, "insert", "leads", "new", "on", "reread") PROVE Sound(q) /\ RoutesToOwn(q)'
  <2>1. serving'[q].at \in {"reread", "done"}
    BY <1>5, MovesHold DEF Insert, Put
  <2> QED
    BY <1>2, <1>5, <2>1, InsertSound DEF Personal
<1>6. ASSUME Reread(q, "reread", <<"leads", q>>, "route") PROVE Sound(q) /\ RoutesToOwn(q)'
  <2>1. serving'[q].at \in {"route", "done"}
    BY <1>6, MovesHold DEF Reread
  <2> QED
    BY <1>2, <1>6, <2>1, RereadSound
<1>7. ASSUME RouteLead(q) PROVE Sound(q) /\ RoutesToOwn(q)'
  <2>1. CASE Answers(q, "done")
    <3>1. serving'[q].at = "done"
      BY <2>1, MovesHold
    <3> QED
      BY <1>2, <1>7, <2>1, <3>1, MovesAdvance, QuietSound DEF RouteLead, tables
  <2>2. ASSUME NEW c \in TaggedCampaigns(q),
               serving' = [serving EXCEPT ![q].at = "list", ![q].read = c, ![q].answer = "ok"]
        PROVE  Sound(q) /\ RoutesToOwn(q)'
    <3>1. Advance(q) /\ serving'[q].at = "list" /\ serving'[q].read = c
      BY <1>1, <2>2 DEF Advance, RequestOK, Fields
    <3>2. Sound(q)
      BY <1>7, <3>1, QuietSound DEF RouteLead, tables
    <3>3. c \in DOMAIN rows /\ TableOf(c) = "campaigns" /\ rows[c].ws = serving[q].ws
      BY DEF TaggedCampaigns, Own, Rows
    <3>4. c \in RowIds({TableOf(c)}) /\ Issuer(c) = serving[q].ws
      BY <3>3 DEF IInv, Sane, WellStored, RowStored, OwnersIn, OwnerKept, Tied
    <3>5. Issuer(c)' = serving'[q].ws
      BY <3>1, <3>4, StaysIssuer DEF Advance
    <3>6. Issuer(serving[q].read)' = Issuer(c)'
      BY <3>1 DEF Issuer
    <3> QED
      BY <3>1, <3>2, <3>3, <3>4, <3>5, <3>6 DEF RoutesToOwn, At
  <2> QED
    BY <1>7, <2>1, <2>2 DEF RouteLead
<1>8. ASSUME EnsureList(q, "list", serving[q].read, "join") PROVE Sound(q) /\ RoutesToOwn(q)'
  <2>1. /\ Sound(q)
        /\ \/ serving'[q].at = "own list" /\ serving'[q].read = serving[q].read
           \/ serving'[q].at = "join" /\ \A l \in serving'[q].saw : TableOf(l) = "lists"
    BY <1>8, EnsureListKeeps
  <2>2. CASE serving'[q].at = "own list" /\ serving'[q].read = serving[q].read
    <3> DEFINE c == serving[q].read
    <3>1. c \in RowIds({"campaigns"}) /\ Issuer(c) = serving[q].ws
      BY <1>1, <1>8 DEF RoutesToOwn, EnsureList, At
    <3>2. Issuer(serving[q].read)' = serving'[q].ws
      <4> HIDE DEF c
      <4>1. PICK k : k = c
        OBVIOUS
      <4>2. k \in RowIds({TableOf(k)})
        BY <3>1, <4>1, RowIdParts
      <4>3. Issuer(k)' = Issuer(k)
        BY <2>1, <4>2, StaysIssuer DEF Sound
      <4>4. Issuer(serving[q].read)' = Issuer(k)'
        BY <2>2, <4>1 DEF Issuer, c
      <4> QED
        BY <2>1, <3>1, <4>1, <4>3, <4>4 DEF Sound, Advance
    <3> QED
      BY <2>1, <2>2, <3>1, <3>2 DEF RoutesToOwn, At
  <2>3. CASE serving'[q].at = "join" /\ \A l \in serving'[q].saw : TableOf(l) = "lists"
    BY <2>1, <2>3 DEF RoutesToOwn, At
  <2> QED
    BY <2>1, <2>2, <2>3
<1>9. ASSUME InsertList(q, serving[q].read, "join", "done") PROVE Sound(q) /\ RoutesToOwn(q)'
  <2>1. serving[q].read \in RowIds({"campaigns"}) /\ Issuer(serving[q].read) = serving[q].ws
    BY <1>1, <1>9 DEF RoutesToOwn, InsertList, At
  <2>2. /\ Sound(q)
        /\ \/ serving'[q].at = "done"
           \/ serving'[q].at = "join" /\ \A l \in serving'[q].saw : TableOf(l) = "lists"
    BY <1>9, <2>1, InsertListKeeps
  <2> QED
    BY <2>2 DEF RoutesToOwn, At
<1>10. ASSUME NEW l \in serving[q].saw, JoinList(q, <<l, <<"leads", q>>>>) PROVE Sound(q) /\ RoutesToOwn(q)'
  <2>1. TableOf(l) = "lists"
    BY <1>1, <1>10 DEF RoutesToOwn, JoinList, At
  <2>2. Advance(q) /\ serving'[q].at = "done"
    BY <1>10, MovesAdvance, MovesHold DEF JoinList
  <2>3. Sane(rows', links', seat', caps')
    BY <1>10, <2>1 DEF IInv, Sane, WellStored, OwnersIn, JoinList, TableOf
  <2>4. Steady(q)
    BY <1>10, RowsSteady DEF JoinList
  <2> QED
    BY <1>2, <2>2, <2>3, <2>4 DEF Sound
<1>11. Sound(q) /\ RoutesToOwn(q)'
  BY <1>3, <1>4, <1>5, <1>6, <1>7, <1>8, <1>9, <1>10 DEF CreateLead
<1> QED
  BY <1>1, <1>11, LeadHolds DEF Sound
LEMMA CampaignKeeps ==
  ASSUME IInv, NEW q \in Requests, ServeCampaign(q)
  PROVE  Sound(q) /\ Holds(q)'
<1> USE DEF Asks, Personal
<1>1. ASSUME \/ ListLeads(q) \/ ListLists(q) \/ ListTags(q) \/ ListTagGroups(q) \/ ListCampaigns(q)
      PROVE  Sound(q)
  BY <1>1, ChecksQuiet DEF ListLeads, ListLists, ListTags, ListTagGroups, ListCampaigns
<1>2. ASSUME GetLead(q) \/ GetTag(q) \/ GetTagGroup(q) \/ GetCampaign(q) \/ ShowMembers(q) PROVE Sound(q)
  BY <1>2, FetchSound, ChecksQuiet DEF GetLead, GetTag, GetTagGroup, GetCampaign, ShowMembers
<1>3. ASSUME CreateList(q) \/ CreateTag(q) \/ CreateTagGroup(q) PROVE Sound(q)
  BY <1>3, InsertSound, GateSound, ChecksQuiet DEF CreateList, CreateTag, CreateTagGroup
<1>4. ASSUME UpdateLead(q) \/ UpdateList(q) \/ UpdateTag(q) \/ UpdateTagGroup(q) \/ UpdateCampaign(q) PROVE Sound(q)
  BY <1>4, EditSound, ChecksQuiet DEF UpdateLead, UpdateList, UpdateTag, UpdateTagGroup, UpdateCampaign
<1>5. ASSUME DeleteLead(q) \/ DeleteList(q) \/ DeleteTag(q) \/ DeleteCampaign(q) PROVE Sound(q)
  BY <1>5, DeleteSound DEF DeleteLead, DeleteList, DeleteTag, DeleteCampaign, OnPlans, OnTenants
<1>6. ASSUME AddLead(q) PROVE Sound(q)
  <2>1. Target(q) \in RowIds({"lists"}) /\ serving[q].ref \in RowIds({"leads"})
    BY <1>6 DEF IInv, RequestOK, JobFits, Target, AddLead
  <2>2. TableOf(Target(q)) = "lists"
    BY <2>1, RowIdParts
  <2>3. TableOf(serving[q].ref) = "leads"
    BY <2>1, RowIdParts
  <2>4. ASSUME Link(q, "link", <<Target(q), serving[q].ref>>, "answer") PROVE Sound(q)
    BY <2>2, <2>3, <2>4, LinkSound
  <2> QED
    BY <1>6, <2>4, FetchSound, ChecksQuiet DEF AddLead
<1>7. ASSUME RemoveLead(q) PROVE Sound(q)
  <2>1. ASSUME links' = links \ {Member(q)}, UNCHANGED <<rows, seat, caps, rented>>,
               serving' = [serving EXCEPT ![q].at = "done", ![q].answer = "ok", ![q].wrote = TRUE]
        PROVE  Sound(q)
    <3>1. RequestOK(q) /\ DOMAIN serving = Requests
      BY DEF IInv
    <3>2. Advance(q)
      BY <2>1, <3>1 DEF Advance, RequestOK, Fields
    <3>3. Sane(rows', links', seat', caps')
      BY <2>1 DEF IInv, Sane, WellStored, OwnersIn
    <3> QED
      BY <2>1, <3>2, <3>3, RowsSteady DEF Sound
  <2> QED
    BY <1>7, <2>1, FetchSound, ChecksQuiet DEF RemoveLead
<1>8. ASSUME DeleteTagGroup(q) PROVE Sound(q)
  <2>1. CASE Delete(q, "delete")
    BY <1>8, <2>1, DeleteSound DEF DeleteTagGroup, OnPlans, OnTenants
  <2>2. CASE /\ rows' = Ungrouped(Target(q))
             /\ serving' = [serving EXCEPT ![q].at = "delete", ![q].wrote = Ungrouped(Target(q)) # rows]
             /\ UNCHANGED <<links, seat, caps, rented>>
    <3>1. RequestOK(q) /\ DOMAIN serving = Requests
      BY DEF IInv
    <3>2. Advance(q)
      BY <2>2, <3>1 DEF Advance, RequestOK, Fields
    <3>3. WellStored(rows, links, seat, caps) /\ OwnersIn(rows)
      BY DEF IInv, Sane
    <3>4. DOMAIN rows' = DOMAIN rows
      BY <2>2 DEF Ungrouped
    <3>5. ASSUME NEW i \in DOMAIN rows
          PROVE  RowStored(rows', i) /\ OwnerKept(rows', i) /\ rows'[i].ws = rows[i].ws
      <4>1. RowStored(rows, i) /\ OwnerKept(rows, i)
        BY <3>3 DEF WellStored, OwnersIn
      <4>2. rows'[i] = IF TableOf(i) = "tags" /\ rows[i].link = Target(q)
                       THEN [rows[i] EXCEPT !.link = None] ELSE rows[i]
        BY <2>2 DEF Ungrouped
      <4> QED
        BY <3>4, <4>1, <4>2 DEF RowStored, OwnerKept, Columns
    <3>6. Sane(rows', links', seat', caps')
      BY <2>2, <3>3, <3>4, <3>5 DEF Sane, WellStored, OwnersIn
    <3>7. Steady(q)
      BY <3>4, <3>5 DEF Steady, MayWrite
    <3> QED
      BY <3>2, <3>6, <3>7 DEF Sound
  <2> QED
    BY <1>8, <2>1, <2>2 DEF DeleteTagGroup
<1>9. ASSUME CreateCampaign(q) PROVE Sound(q)
  <2>1. <<"campaigns", q>> \in RowIds({"campaigns"}) /\ Issuer(<<"campaigns", q>>) = serving[q].ws
    BY RowIdMade, MakersAssumption DEF Issuer
  <2>2. ASSUME NEW next, NEW giveUp, InsertList(q, <<"campaigns", q>>, next, giveUp) PROVE Sound(q)
    BY <2>1, <2>2, InsertListKeeps
  <2>3. ASSUME /\ IF <<"campaigns", q>> \in DOMAIN rows THEN Goes(q, "list") ELSE Ends(q, "failed")
               /\ UNCHANGED tables
        PROVE  Sound(q)
    <3>1. Advance(q)
      BY <2>3, MovesAdvance
    <3> QED
      BY <2>3, <3>1, QuietSound DEF tables
  <2> QED
    BY <1>9, <2>2, <2>3, InsertSound, GateSound, ChecksQuiet, EnsureListKeeps DEF CreateCampaign
<1>10. ASSUME Activate(q) \/ Pause(q) PROVE Sound(q)
  <2>1. ASSUME NEW state, NEW flag, Turn(q, state, flag) PROVE Sound(q)
    <3>1. ASSUME Mine(q),
                 Put(q, "start", Target(q), [rows[Target(q)] EXCEPT !.state = state, !.flag = flag], "answer")
          PROVE  Sound(q)
      <4>1. Target(q) \in DOMAIN rows /\ DOMAIN rows[Target(q)] = Columns \cup {"ws"}
        BY <3>1, EditsKeepOwner DEF Mine
      <4> DEFINE row == [rows[Target(q)] EXCEPT !.state = state, !.flag = flag]
      <4>2. DOMAIN row = Columns \cup {"ws"} /\ row.ws = rows[Target(q)].ws
        BY <4>1 DEF Columns
      <4> HIDE DEF row
      <4>3. Storable(q, Target(q), row)
        BY <4>1, <4>2, SameOwnerStorable
      <4> QED
        BY <3>1, <4>3, PutSound DEF row
    <3> QED
      BY <2>1, <3>1, ChecksQuiet DEF Turn
  <2> QED
    BY <1>10, <2>1 DEF Activate, Pause
<1>11. CASE CreateLead(q)
  BY <1>11, CreateLeadKeeps
<1>12. CASE ~CreateLead(q)
  <2>1. Sound(q)
    BY <1>1, <1>2, <1>3, <1>4, <1>5, <1>6, <1>7, <1>8, <1>9, <1>10, <1>12 DEF ServeCampaign
  <2>2. serving[q].kind \notin HoldingKinds
    BY <1>12 DEF ServeCampaign, ListLeads, GetLead, UpdateLead, DeleteLead, ListLists, ShowMembers, AddLead,
         RemoveLead, CreateList, UpdateList, DeleteList, ListTags, GetTag, CreateTag, UpdateTag, DeleteTag,
         ListTagGroups, GetTagGroup, CreateTagGroup, UpdateTagGroup, DeleteTagGroup, ListCampaigns, GetCampaign,
         CreateCampaign, UpdateCampaign, DeleteCampaign, Activate, Pause, HoldingKinds, OnDocuments, SeatingKinds
  <2> QED
    BY <2>1, <2>2, HoldsNothing DEF Sound
<1> QED
  BY <1>11, <1>12
-----------------------------------------------------------------------------
(* The catalogue: plans, limits and seats.                                  *)

LEMMA GoesSound ==
  ASSUME IInv, NEW q \in Requests, NEW next, Goes(q, next) \/ Ends(q, "ok") \/ Ends(q, "refused") \/ Ends(q, "failed"),
         UNCHANGED tables
  PROVE  Sound(q)
BY MovesAdvance, QuietSound DEF tables

LEMMA SeatPlanSound ==
  ASSUME IInv, NEW q \in Requests, NEW here, NEW ws, NEW p, NEW next, SeatPlan(q, here, ws, p, next),
         TableOf(p) = "plans"
  PROVE  Sound(q)
<1>1. Advance(q)
  BY MovesAdvance DEF SeatPlan
<1>2. CASE seat' = seat
  BY <1>1, <1>2, QuietSound DEF SeatPlan
<1>3. CASE Seatable(ws, p) /\ seat' = With(seat, ws, p)
  <2>1. WellStored(rows, links, seat, caps) /\ OwnersIn(rows)
    BY DEF IInv, Sane
  <2>2. \A w \in DOMAIN seat' : seat'[w] # None =>
          {seat'[w], Home(w)} \subseteq DOMAIN rows /\ TableOf(seat'[w]) = "plans"
    BY <1>3, <2>1 DEF With, Seatable, WellStored
  <2>3. WellStored(rows', links', seat', caps') /\ OwnersIn(rows')
    BY <2>1, <2>2 DEF SeatPlan, WellStored, OwnersIn
  <2>4. Steady(q)
    BY RowsSteady DEF SeatPlan
  <2> QED
    BY <1>1, <2>3, <2>4 DEF Sound, Sane
<1> QED
  BY <1>2, <1>3 DEF SeatPlan

LEMMA WriteLimitSound ==
  ASSUME IInv, NEW q \in Requests, NEW here, NEW p, NEW feature, NEW n, NEW next,
         WriteLimit(q, here, p, feature, n, next)
  PROVE  Sound(q)
<1>1. Advance(q)
  BY MovesAdvance DEF WriteLimit
<1>2. DOMAIN caps' = DOMAIN caps
  BY DEF WriteLimit, Limited
<1>3. WellStored(rows', links', seat', caps') /\ OwnersIn(rows')
  BY <1>2 DEF WriteLimit, IInv, Sane, WellStored, OwnersIn
<1>4. Steady(q)
  BY RowsSteady DEF WriteLimit
<1> QED
  BY <1>1, <1>3, <1>4 DEF Sound, Sane

LEMMA CreatePlanSound ==
  ASSUME IInv, NEW q \in Requests, CreatePlan(q)
  PROVE  Sound(q)
<1> DEFINE i == <<"plans", q>>
           row == NewPlan(q)
           new == With(rows, i, row)
<1>1. RequestOK(q) /\ DOMAIN serving = Requests /\ WellStored(rows, links, seat, caps) /\ OwnersIn(rows)
  BY DEF IInv, Sane
<1>2. CASE Refuse(q, "start") \/ (rows' = rows /\ caps' = caps /\ Ends(q, "failed") /\ UNCHANGED <<links, seat, rented>>)
  BY <1>2, ChecksQuiet, MovesAdvance, QuietSound
<1>3. CASE /\ Fits(i, row) /\ rows' = new
           /\ caps' = With(caps, i, [grant |-> NoFeatures, column |-> DefaultColumn])
           /\ serving' = [serving EXCEPT ![q].at = "done", ![q].answer = "ok", ![q].wrote = TRUE]
           /\ UNCHANGED <<links, seat, rented>>
  <2>1. Advance(q)
    BY <1>1, <1>3 DEF Advance, RequestOK, Fields
  <2>2. i \in RowIds({"plans"}) /\ TableOf(i) = "plans"
    BY RowIdMade
  <2>3. DOMAIN row = Columns \cup {"ws"} /\ row.ws = serving[q].ws /\ row.link = None
    BY DEF NewPlan, NewRow, Columns
  <2>4. row.ws = Operator
    BY <1>1, <2>3 DEF CreatePlan, Asks, RequestOK, JobFits, OfOperator
  <2>5. /\ DOMAIN new = DOMAIN rows \cup {i}
        /\ \A j \in DOMAIN new : new[j] = IF j = i THEN row ELSE rows[j]
    BY DEF With
  <2>6. DOMAIN caps' = DOMAIN caps \cup {i}
    BY <1>3 DEF With
  <2>11. MakerOf(i) = q /\ q \notin Workspaces
    BY RowIdMade, MakersAssumption
  <2> HIDE DEF i, row, new
  <2>7. ASSUME NEW j \in DOMAIN new
        PROVE  RowStored(new, j) /\ OwnerKept(new, j)
    <3>1. CASE j = i
      BY <1>1, <2>2, <2>3, <2>4, <2>5, <2>11, <3>1 DEF RowStored, WellStored, OwnerKept, Issuer, Personal
    <3>2. CASE j # i
      <4>1. j \in DOMAIN rows /\ new[j] = rows[j] /\ \A k : k \in DOMAIN rows => k \in DOMAIN new
        BY <2>5, <3>2
      <4>2. RowStored(rows, j) /\ OwnerKept(rows, j)
        BY <1>1, <4>1 DEF WellStored, OwnersIn
      <4> QED
        BY <4>1, <4>2 DEF RowStored, OwnerKept
    <3> QED
      BY <3>1, <3>2
  <2>8. {j \in DOMAIN new : TableOf(j) = "plans"} = {j \in DOMAIN rows : TableOf(j) = "plans"} \cup {i}
    BY <2>2, <2>5
  <2>9. WellStored(new, links, seat, caps')
    BY <1>1, <2>5, <2>6, <2>7, <2>8 DEF WellStored
  <2>10. OwnersIn(new)
    BY <2>7 DEF OwnersIn
  <2>12. \A j \in DOMAIN new : MayWrite(q, j, new[j])
    <3>1. ASSUME NEW j \in DOMAIN new, j # i PROVE j \in DOMAIN rows /\ new[j] = rows[j]
      BY <2>5, <3>1
    <3>2. MayWrite(q, i, new[i])
      <4>1. i \in DOMAIN rows => rows[i].ws = Operator
        BY <1>1, <2>2 DEF WellStored, RowStored
      <4> QED
        BY <2>2, <2>4, <2>5, <2>11, <4>1 DEF MayWrite, MayMake, Shared
    <3> QED
      BY <3>1, <3>2 DEF MayWrite
  <2> QED
    BY <1>3, <2>1, <2>9, <2>10, <2>12 DEF Sound, Sane, Steady
<1> QED
  BY <1>2, <1>3 DEF CreatePlan

LEMMA DeletePlanSound ==
  ASSUME IInv, NEW q \in Requests, DeletePlan(q)
  PROVE  Sound(q)
<1> DEFINE p == Target(q)
           new == Without({p})
<1>1. RequestOK(q) /\ DOMAIN serving = Requests /\ WellStored(rows, links, seat, caps) /\ OwnersIn(rows)
  BY DEF IInv, Sane
<1>2. CASE Missing(q, "start")
  BY <1>2, ChecksQuiet
<1>3. CASE /\ rows' = new
           /\ caps' = [o \in DOMAIN caps \ {p} |-> caps[o]]
           /\ seat' = Unseated(p)
           /\ serving' = [serving EXCEPT ![q].at = "done", ![q].answer = "ok", ![q].wrote = TRUE]
           /\ UNCHANGED <<links, rented>>
  <2>1. Advance(q)
    BY <1>1, <1>3 DEF Advance, RequestOK, Fields
  <2>2. p \in RowIds({"plans"})
    BY <1>1 DEF DeletePlan, Asks, RequestOK, JobFits, Target
  <2>3. TableOf(p) = "plans"
    BY <2>2, RowIdParts
  <2>4. /\ DOMAIN new = DOMAIN rows \ {p}
        /\ \A j \in DOMAIN new : new[j] = IF rows[j].link \in {p} /\ TableOf(j) \notin Unchecked
                                          THEN [rows[j] EXCEPT !.link = None] ELSE rows[j]
    BY DEF Without
  <2>5. DOMAIN caps' = DOMAIN caps \ {p}
    BY <1>3
  <2>6. /\ DOMAIN seat' = DOMAIN seat
        /\ \A ws \in DOMAIN seat : seat'[ws] = IF seat[ws] = p THEN None ELSE seat[ws]
    BY <1>3 DEF Unseated
  <2> HIDE DEF p, new
  <2>7. \A ws : Home(ws) \in DOMAIN rows => Home(ws) \in DOMAIN new
    BY <2>3, <2>4 DEF Home, TableOf
  <2>8. ASSUME NEW j \in DOMAIN new
        PROVE  RowStored(new, j) /\ OwnerKept(new, j)
    <3>1. RowStored(rows, j) /\ OwnerKept(rows, j)
      BY <1>1, <2>4 DEF WellStored, OwnersIn
    <3>2. DOMAIN new[j] = Columns \cup {"ws"} /\ new[j].ws = rows[j].ws
      BY <2>4, <3>1 DEF RowStored, Columns
    <3>3. new[j].link = None \/ TableOf(j) \in Unchecked \/ new[j].link \in DOMAIN new
      <4>1. CASE rows[j].link = p /\ TableOf(j) \notin Unchecked
        BY <2>4, <3>1, <4>1 DEF RowStored, Columns
      <4>2. CASE ~(rows[j].link = p /\ TableOf(j) \notin Unchecked)
        BY <2>4, <3>1, <4>2 DEF RowStored
      <4> QED
        BY <4>1, <4>2
    <3> QED
      BY <2>7, <3>1, <3>2, <3>3 DEF RowStored, OwnerKept
  <2>9. {j \in DOMAIN new : TableOf(j) = "plans"} = {j \in DOMAIN rows : TableOf(j) = "plans"} \ {p}
    BY <2>4
  <2>10. /\ Home(Operator) \in DOMAIN new
         /\ \A l \in links : {l[1], l[2]} \subseteq DOMAIN new
    BY <1>1, <2>3, <2>4, <2>7 DEF WellStored
  <2>11. \A ws \in DOMAIN seat' : seat'[ws] # None =>
           {seat'[ws], Home(ws)} \subseteq DOMAIN new /\ TableOf(seat'[ws]) = "plans"
    BY <1>1, <2>4, <2>6, <2>7 DEF WellStored
  <2>12. WellStored(new, links, seat', caps')
    BY <1>1, <2>5, <2>8, <2>9, <2>10, <2>11 DEF WellStored
  <2>13. OwnersIn(new)
    BY <2>8 DEF OwnersIn
  <2>14. Steady(q)
    BY <1>3, CutSteady DEF new
  <2> QED
    BY <1>3, <2>1, <2>12, <2>13, <2>14 DEF Sound, Sane
<1> QED
  BY <1>2, <1>3 DEF DeletePlan
LEMMA PlanKeeps ==
  ASSUME IInv, NEW q \in Requests, ServePlan(q)
  PROVE  Sound(q) /\ Holds(q)'
<1> USE DEF Asks
<1>1. ASSUME ListPlans(q) \/ ListActivePlans(q) \/ GetPlan(q) \/ GetProvisioning(q) PROVE Sound(q)
  BY <1>1, ChecksQuiet, FetchSound DEF ListPlans, ListActivePlans, GetPlan, GetProvisioning
<1>2. ASSUME UpdatePlan(q) PROVE Sound(q)
  <2>1. ASSUME Change(q, "write", Merged(q), "answer") PROVE Sound(q)
    BY <2>1, ChangeSound, EditsKeepOwner DEF Change
  <2> QED
    BY <1>2, <2>1, FetchSound, ChecksQuiet DEF UpdatePlan
<1>3. ASSUME MergeFeatures(q) PROVE Sound(q)
  <2>1. ASSUME Change(q, "write", [rows[Target(q)] EXCEPT !.state = With(@, serving[q].ref, serving[q].val)], "answer")
        PROVE  Sound(q)
    BY <2>1, ChangeSound, EditsKeepOwner DEF Change, Columns
  <2> QED
    BY <1>3, <2>1, FetchSound, ChecksQuiet DEF MergeFeatures
<1>4. ASSUME SetEntitlement(q) PROVE Sound(q)
  BY <1>4, WriteLimitSound, RereadSound, FetchSound, ChecksQuiet DEF SetEntitlement
<1>5. ASSUME ShowRegistry(q) PROVE Sound(q)
  BY <1>5, GoesSound, ChecksQuiet DEF ShowRegistry
<1>6. ASSUME GrantTopTier(q) PROVE Sound(q)
  BY <1>6, GoesSound, WriteLimitSound, ChecksQuiet DEF GrantTopTier
<1>7. ASSUME AssignPlan(q) PROVE Sound(q)
  <2>1. Target(q) \in RowIds({"plans"})
    BY <1>7 DEF AssignPlan, IInv, RequestOK, JobFits, Target
  <2>2. TableOf(Target(q)) = "plans"
    BY <2>1, RowIdParts
  <2> QED
    BY <1>7, <2>2, SeatPlanSound, GoesSound, FetchSound, ChecksQuiet DEF AssignPlan
<1>8. ASSUME UpdateProvisioning(q) PROVE Sound(q)
  <2>1. ASSUME Change(q, "start", [rows[Target(q)] EXCEPT !.flag = serving[q].val], "slug") PROVE Sound(q)
    BY <2>1, ChangeSound, EditsKeepOwner DEF Change, Columns
  <2>2. ASSUME Change(q, "entry", [rows[Target(q)] EXCEPT !.key = serving[q].ref], "answer") PROVE Sound(q)
    BY <2>2, ChangeSound, EditsKeepOwner DEF Change, Columns
  <2> QED
    BY <1>8, <2>1, <2>2, GoesSound, ChecksQuiet DEF UpdateProvisioning
<1>9. Sound(q)
  BY <1>1, <1>2, <1>3, <1>4, <1>5, <1>6, <1>7, <1>8, CreatePlanSound, DeletePlanSound DEF ServePlan
<1>10. serving[q].kind \notin HoldingKinds
  BY DEF ServePlan, ListPlans, ListActivePlans, GetPlan, CreatePlan, UpdatePlan, DeletePlan, MergeFeatures,
       SetEntitlement, ShowRegistry, GrantTopTier, AssignPlan, GetProvisioning, UpdateProvisioning, HoldingKinds,
       OnDocuments, SeatingKinds
<1> QED
  BY <1>9, <1>10, HoldsNothing DEF Sound

-----------------------------------------------------------------------------
(* Tickets.                                                                 *)

\* What a seating handler sees are plans.
LEMMA SeatingHolds ==
  ASSUME IInv, NEW q \in Requests, Advance(q), SeesPlans(q)', serving[q].kind \in SeatingKinds
  PROVE  Holds(q)'
BY DEF Advance, OnDocuments, SeatingKinds, Holds, HoldsRow, SeesNumbers, RoutesToOwn, SparesTheOperator, Asks

LEMMA AddToSound ==
  ASSUME IInv, NEW q \in Requests, NEW here, NEW ticket, NEW sender, NEW next, AddTo(q, here, ticket, sender, next)
  PROVE  Sound(q)
<1>1. DOMAIN NewMessage(q, ticket, sender) = Columns \cup {"ws"} /\ NewMessage(q, ticket, sender).ws = serving[q].ws
  BY DEF NewMessage, Columns
<1>2. Storable(q, <<"ticket_messages", q>>, NewMessage(q, ticket, sender))
  BY <1>1, NewRowStorable DEF Personal
<1> QED
  BY <1>2, PutSound DEF AddTo

LEMMA UpdateTicketKeeps ==
  ASSUME IInv, NEW q \in Requests, UpdateTicket(q)
  PROVE  Sound(q) /\ Holds(q)'
<1>1. serving[q].kind = "update_ticket" /\ SeesPlans(q) /\ \A p \in serving[q].saw : TableOf(p) = "plans"
  BY DEF UpdateTicket, Asks, IInv, Holds, SeesPlans, SeatingKinds
<1>2. ASSUME serving'[q].saw = serving[q].saw PROVE SeesPlans(q)'
  BY <1>1, <1>2 DEF SeesPlans
<1>3. ASSUME NEW here, Refuse(q, here) PROVE Sound(q) /\ SeesPlans(q)'
  BY <1>2, <1>3, ChecksQuiet, MovesHold DEF Refuse
<1>4. ASSUME FetchTicket(q, "start", "write") PROVE Sound(q) /\ SeesPlans(q)'
  <2>1. serving'[q].saw = serving[q].saw
    BY <1>4, MovesHold DEF FetchTicket, IInv, RequestOK, Fields
  <2> QED
    BY <1>2, <1>4, <2>1, ChecksQuiet
<1>5. ASSUME NEW here, NEW row, NEW next, Change(q, here, row, next),
             Target(q) \in DOMAIN rows => DOMAIN row = Columns \cup {"ws"} /\ row.ws = rows[Target(q)].ws
      PROVE  Sound(q) /\ SeesPlans(q)'
  <2>1. serving'[q].saw = serving[q].saw
    BY <1>5, MovesHold DEF Change, ChangeRow, Put
  <2>2. Sound(q)
    BY <1>5, ChangeSound DEF Change
  <2> QED
    BY <1>2, <2>1, <2>2
<1>6. ASSUME NEW found, NEW next, Look(q, "plan", found, next), \A p \in found : TableOf(p) = "plans"
      PROVE  Sound(q) /\ SeesPlans(q)'
  <2>1. serving'[q].saw = found
    BY <1>6 DEF Look, IInv, RequestOK, Fields
  <2> QED
    BY <1>6, <2>1, ChecksQuiet DEF SeesPlans
<1>7. ASSUME NEW ws, NEW p \in serving[q].saw, SeatPlan(q, "seat", ws, p, "stamp") PROVE Sound(q) /\ SeesPlans(q)'
  <2>1. serving'[q].saw = serving[q].saw
    BY <1>7, MovesHold DEF SeatPlan
  <2> QED
    BY <1>1, <1>2, <1>7, <2>1, SeatPlanSound
<1>8. ASSUME NEW i, Reread(q, "reread", i, "done") PROVE Sound(q) /\ SeesPlans(q)'
  <2>1. serving'[q].saw = serving[q].saw
    BY <1>8, MovesHold DEF Reread
  <2> QED
    BY <1>2, <1>8, <2>1, RereadSound
<1>9. Target(q) \in DOMAIN rows =>
        /\ DOMAIN EditedTicket(q) = Columns \cup {"ws"} /\ EditedTicket(q).ws = rows[Target(q)].ws
        /\ LET stamped == [rows[Target(q)] EXCEPT !.flag.applied = TRUE]
           IN  DOMAIN stamped = Columns \cup {"ws"} /\ stamped.ws = rows[Target(q)].ws
  BY EditsKeepOwner DEF EditedTicket, Columns
<1>10. \A p \in SoldAs(serving[q].read.key) : TableOf(p) = "plans"
  BY DEF SoldAs, PlanNamed, Rows
<1>11. Sound(q) /\ SeesPlans(q)'
  BY <1>3, <1>4, <1>5, <1>6, <1>7, <1>8, <1>9, <1>10 DEF UpdateTicket
<1> QED
  BY <1>1, <1>11, SeatingHolds DEF Sound, SeatingKinds
\* Of a table no membership refers to, with what cascades.
LEMMA CutFallen ==
  ASSUME IInv, NEW i, TableOf(i) \notin {"tenants", "plans", "lists", "leads", "contacts", "contact_custom_fields"}
  PROVE  Sane(Without(Fallen(i)), links, seat, caps)
<1>1. \A j \in Fallen(i) :
        TableOf(j) \notin {"tenants", "plans", "lists", "leads", "contacts", "contact_custom_fields"}
  BY DEF Fallen, Cascading
<1>2. \A l \in links : l[1] \notin Fallen(i) /\ l[2] \notin Fallen(i)
  BY <1>1 DEF IInv, Sane, WellStored
<1> QED
  BY <1>1, <1>2, CutKeeps

LEMMA TicketKeeps ==
  ASSUME IInv, NEW q \in Requests, ServeTicket(q)
  PROVE  Sound(q) /\ Holds(q)'
<1> USE DEF Asks, Personal
<1>1. ASSUME ListTickets(q) \/ TicketStats(q) \/ GetTicket(q) \/ PublicAnswer(q) PROVE Sound(q)
  BY <1>1, ChecksQuiet DEF ListTickets, TicketStats, GetTicket, PublicAnswer
<1>2. ASSUME CreatePublicTicket(q) PROVE Sound(q)
  <2>1. DOMAIN PublicTicket(q) = Columns \cup {"ws"} /\ PublicTicket(q).ws = serving[q].ws
    BY DEF PublicTicket, NewRow, Columns
  <2>2. Storable(q, <<"tickets", q>>, PublicTicket(q))
    BY <2>1, NewRowStorable
  <2> QED
    BY <1>2, <2>2, PutSound, AddToSound, ChecksQuiet DEF CreatePublicTicket
<1>3. ASSUME CreateTicket(q) PROVE Sound(q)
  <2>1. DOMAIN FiledTicket(q) = Columns \cup {"ws"} /\ FiledTicket(q).ws = serving[q].ws
    BY DEF FiledTicket, NewRow, Columns
  <2>2. Storable(q, <<"tickets", q>>, FiledTicket(q))
    BY <2>1, NewRowStorable
  <2>3. ASSUME CheckRequest(q) PROVE Sound(q)
    BY <2>3, ChecksQuiet DEF CheckRequest
  <2> QED
    BY <1>3, <2>2, <2>3, GateSound, PutSound, AddToSound, RereadSound, ChecksQuiet DEF CreateTicket
<1>4. ASSUME RecordSignupRequest(q) \/ RecordCheckoutRequest(q) PROVE Sound(q)
  <2>1. DOMAIN RequestRow(q) = Columns \cup {"ws"} /\ RequestRow(q).ws = serving[q].ws
    BY DEF RequestRow, NewRow, Columns
  <2>2. Storable(q, <<"tickets", q>>, RequestRow(q))
    BY <2>1, NewRowStorable
  <2>3. ASSUME FileRequest(q) PROVE Sound(q)
    BY <2>2, <2>3, PutSound, AddToSound, ChecksQuiet DEF FileRequest
  <2>4. ASSUME serving' = [serving EXCEPT ![q].at = "existing", ![q].read = rows[Target(q)].key], UNCHANGED tables
        PROVE  Sound(q)
    <3>1. RequestOK(q) /\ DOMAIN serving = Requests
      BY DEF IInv
    <3>2. Advance(q)
      BY <2>4, <3>1 DEF Advance, RequestOK, Fields
    <3> QED
      BY <2>4, <3>2, QuietSound DEF tables
  <2> QED
    BY <1>4, <2>3, <2>4, ChecksQuiet DEF RecordSignupRequest, RecordCheckoutRequest
<1>5. ASSUME AddTicketMessage(q) PROVE Sound(q)
  BY <1>5, AddToSound, RereadSound, ChecksQuiet DEF AddTicketMessage
<1>6. ASSUME DeleteTicket(q) PROVE Sound(q)
  <2>1. CASE /\ rows' = Without(Fallen(Target(q)))
             /\ serving' = [serving EXCEPT ![q].at = "done", ![q].answer = "ok", ![q].wrote = TRUE]
             /\ UNCHANGED <<links, seat, caps, rented>>
    <3>1. RequestOK(q) /\ DOMAIN serving = Requests
      BY DEF IInv
    <3>2. Target(q) \in RowIds({"tickets"})
      BY <1>6, <3>1 DEF DeleteTicket, RequestOK, JobFits, Target
    <3>3. TableOf(Target(q)) = "tickets"
      BY <3>2, RowIdParts
    <3>4. Advance(q)
      BY <2>1, <3>1 DEF Advance, RequestOK, Fields
    <3> QED
      BY <2>1, <3>3, <3>4, CutFallen, CutSteady DEF Sound
  <2> QED
    BY <1>6, <2>1, GoesSound, ChecksQuiet DEF DeleteTicket
<1>7. CASE UpdateTicket(q)
  BY <1>7, UpdateTicketKeeps
<1>8. CASE ~UpdateTicket(q)
  <2>1. Sound(q)
    BY <1>1, <1>2, <1>3, <1>4, <1>5, <1>6, <1>8 DEF ServeTicket
  <2>2. serving[q].kind \notin HoldingKinds
    BY <1>8 DEF ServeTicket, ListTickets, TicketStats, GetTicket, CreatePublicTicket, PublicAnswer, CreateTicket,
         RecordSignupRequest, RecordCheckoutRequest, AddTicketMessage, DeleteTicket, HoldingKinds, OnDocuments,
         SeatingKinds
  <2> QED
    BY <2>1, <2>2, HoldsNothing DEF Sound
<1> QED
  BY <1>7, <1>8

-----------------------------------------------------------------------------
(* Numbers, the operator's account and the team.                            *)

LEMMA BuyerHolds ==
  ASSUME IInv, NEW q \in Requests, Advance(q), SeesNumbers(q)', Asks(q, "purchase_number")
  PROVE  Holds(q)'
BY DEF Advance, OnDocuments, SeatingKinds, Holds, HoldsRow, SeesPlans, RoutesToOwn, SparesTheOperator, Asks

LEMMA PurchaseKeeps ==
  ASSUME IInv, NEW q \in Requests, PurchaseNumber(q)
  PROVE  Sound(q) /\ Holds(q)'
<1>1. RequestOK(q) /\ DOMAIN serving = Requests /\ \A i \in serving[q].saw : TableOf(i) = "phone_numbers"
  BY DEF PurchaseNumber, IInv, Holds, SeesNumbers
<1>2. ASSUME serving'[q].saw = serving[q].saw PROVE SeesNumbers(q)'
  BY <1>1, <1>2 DEF SeesNumbers
<1>3. ASSUME NEW here, Refuse(q, here) \/ Finish(q, here) PROVE Sound(q) /\ SeesNumbers(q)'
  BY <1>2, <1>3, ChecksQuiet, MovesHold DEF Refuse, Finish
<1>4. ASSUME Gate(q, "start", "phone_numbers", "find") PROVE Sound(q) /\ SeesNumbers(q)'
  <2>1. Sound(q)
    BY <1>4, GateSound
  <2> QED
    BY <1>2, <1>4, <2>1, GateMoves
<1>5. ASSUME FindNumber(q) PROVE Sound(q) /\ SeesNumbers(q)'
  <2>1. CASE Refuse(q, "find")
    BY <1>3, <2>1
  <2>2. ASSUME NEW read, serving' = [serving EXCEPT ![q].at = "key", ![q].saw = WithNumber(q), ![q].read = read],
               UNCHANGED tables
        PROVE  Sound(q) /\ SeesNumbers(q)'
    <3>1. Advance(q) /\ serving'[q].saw = WithNumber(q)
      BY <1>1, <2>2 DEF Advance, RequestOK, Fields
    <3>2. Sound(q)
      BY <2>2, <3>1, QuietSound DEF tables
    <3> QED
      BY <3>1, <3>2 DEF SeesNumbers, WithNumber, Rows
  <2> QED
    BY <1>5, <2>1, <2>2 DEF FindNumber
<1>6. ASSUME NEW next, Goes(q, next), UNCHANGED tables PROVE Sound(q) /\ SeesNumbers(q)'
  BY <1>2, <1>6, GoesSound, MovesHold
<1>7. ASSUME OrderNumber(q) PROVE Sound(q) /\ SeesNumbers(q)'
  <2>1. Advance(q) /\ serving'[q].saw = serving[q].saw
    BY <1>7, MovesAdvance, MovesHold DEF OrderNumber
  <2> QED
    BY <1>2, <1>7, <2>1, QuietSound DEF OrderNumber
<1>8. ASSUME Insert(q, "persist", "phone_numbers", "new", "on", "answer") PROVE Sound(q) /\ SeesNumbers(q)'
  <2>1. serving'[q].saw = serving[q].saw
    BY <1>8, MovesHold DEF Insert, Put
  <2> QED
    BY <1>2, <1>8, <2>1, InsertSound DEF Personal
<1>9. ASSUME NEW i \in serving[q].saw, ChangeRow(q, "persist", i, Revived(q, i), "answer")
      PROVE  Sound(q) /\ SeesNumbers(q)'
  <2>1. serving'[q].saw = serving[q].saw
    BY <1>9, MovesHold DEF ChangeRow, Put
  <2>2. CASE i \notin DOMAIN rows
    BY <1>2, <1>9, <2>1, <2>2, GoesSound DEF ChangeRow
  <2>3. CASE i \in DOMAIN rows
    <3>1. DOMAIN rows[i] = Columns \cup {"ws"} /\ i \in RowIds({TableOf(i)})
      BY <2>3 DEF IInv, Sane, WellStored, RowStored
    <3>2. DOMAIN Revived(q, i) = Columns \cup {"ws"}
      BY <3>1 DEF Revived
    <3>3. Storable(q, i, Revived(q, i))
      BY <1>1, <2>3, <3>1, <3>2, SharedStorable DEF Shared
    <3> QED
      BY <1>2, <1>9, <2>1, <2>3, <3>3, PutSound DEF ChangeRow
  <2> QED
    BY <2>2, <2>3
<1>10. Sound(q) /\ SeesNumbers(q)'
  BY <1>3, <1>4, <1>5, <1>6, <1>7, <1>8, <1>9 DEF PurchaseNumber
<1> QED
  BY <1>10, BuyerHolds DEF Sound, PurchaseNumber

LEMMA PutAccountSound ==
  ASSUME IInv, NEW q \in Requests, PutAccount(q)
  PROVE  Sound(q)
<1>1. RequestOK(q) /\ DOMAIN serving = Requests
  BY DEF IInv
<1>2. ASSUME ReadAccount(q) PROVE Sound(q)
  <2>1. ASSUME NEW i \in Account,
               serving' = [serving EXCEPT ![q].at = "derive", ![q].saw = {i}, ![q].read = rows[i]], UNCHANGED tables
        PROVE  Sound(q)
    <3>1. Advance(q)
      BY <1>1, <2>1 DEF Advance, RequestOK, Fields
    <3> QED
      BY <2>1, <3>1, QuietSound DEF tables
  <2> QED
    BY <1>2, <2>1, ChecksQuiet DEF ReadAccount
<1>3. ASSUME Derive(q) PROVE Sound(q)
  <2>1. ASSUME NEW limit, serving' = [serving EXCEPT ![q].at = "write", ![q].limit = limit], UNCHANGED tables
        PROVE  Sound(q)
    <3>1. Advance(q)
      BY <1>1, <2>1 DEF Advance, RequestOK, Fields
    <3> QED
      BY <2>1, <3>1, QuietSound DEF tables
  <2> QED
    BY <1>3, <2>1 DEF Derive
<1>4. ASSUME NEW i, ChangeRow(q, "write", i, [rows[i] EXCEPT !.text = ApiKey(q), !.state = serving[q].limit], "answer")
      PROVE  Sound(q)
  <2> DEFINE row == [rows[i] EXCEPT !.text = ApiKey(q), !.state = serving[q].limit]
  <2>1. i \in DOMAIN rows => DOMAIN rows[i] = Columns \cup {"ws"}
    BY DEF IInv, Sane, WellStored, RowStored
  <2>2. i \in DOMAIN rows => DOMAIN row = Columns \cup {"ws"} /\ row.ws = rows[i].ws
    BY <2>1 DEF Columns
  <2> HIDE DEF row
  <2> QED
    BY <1>4, <2>2, ChangeSound DEF row
<1>5. ASSUME NEW row, DOMAIN row = Columns \cup {"ws"}, row.ws = Operator,
             Put(q, "write", <<"telnyx_config", q>>, row, "answer")
      PROVE  Sound(q)
  <2>1. serving[q].ws = Operator
    BY <1>1 DEF PutAccount, Asks, RequestOK, JobFits, OfOperator
  <2>2. Storable(q, <<"telnyx_config", q>>, row)
    BY <1>5, <2>1, NewRowStorable DEF Personal
  <2> QED
    BY <1>5, <2>2, PutSound
<1>6. ASSUME NEW text, NEW state,
             Put(q, "write", <<"telnyx_config", q>>,
                 [ws |-> Operator, key |-> None, text |-> text, state |-> state, flag |-> "on", link |-> None], "answer")
      PROVE  Sound(q)
  BY <1>5, <1>6 DEF Columns
<1> QED
  BY <1>2, <1>3, <1>4, <1>6, ChecksQuiet DEF PutAccount

LEMMA NumberKeeps ==
  ASSUME IInv, NEW q \in Requests, ServeNumber(q)
  PROVE  Sound(q) /\ Holds(q)'
<1> USE DEF Asks, Personal
<1>1. ASSUME ListNumbers(q) \/ ShowAccount(q) \/ ListMembers(q) PROVE Sound(q)
  BY <1>1, ChecksQuiet DEF ListNumbers, ShowAccount, ListMembers
<1>2. ASSUME DeleteNumber(q) PROVE Sound(q)
  <2>1. ASSUME ReleaseNumber(q) PROVE Sound(q)
    <3>1. Advance(q)
      BY <2>1, MovesAdvance DEF ReleaseNumber
    <3> QED
      BY <2>1, <3>1, QuietSound DEF ReleaseNumber
  <2>2. ASSUME Change(q, "persist", [rows[Target(q)] EXCEPT !.flag = "off"], "answer") PROVE Sound(q)
    BY <2>2, ChangeSound, EditsKeepOwner DEF Change, Columns
  <2> QED
    BY <1>2, <2>1, <2>2, GoesSound, FetchSound, ChecksQuiet DEF DeleteNumber
<1>3. ASSUME InviteTeammate(q) PROVE Sound(q)
  BY <1>3, InsertSound, GateSound, ChecksQuiet DEF InviteTeammate, InsertMember
<1>4. ASSUME RemoveMember(q) PROVE Sound(q)
  BY <1>4, DeleteSound, GoesSound, FetchSound, ChecksQuiet DEF RemoveMember, OnPlans, OnTenants
<1>5. CASE PurchaseNumber(q)
  BY <1>5, PurchaseKeeps
<1>6. CASE ~PurchaseNumber(q)
  <2>1. Sound(q)
    BY <1>1, <1>2, <1>3, <1>4, <1>6, PutAccountSound DEF ServeNumber
  <2>2. serving[q].kind \notin HoldingKinds
    BY <1>6 DEF ServeNumber, ListNumbers, DeleteNumber, ShowAccount, PutAccount, ListMembers, InviteTeammate,
         RemoveMember, HoldingKinds, OnDocuments, SeatingKinds
  <2> QED
    BY <2>1, <2>2, HoldsNothing DEF Sound
<1> QED
  BY <1>5, <1>6
-----------------------------------------------------------------------------
(* Workspaces made and deleted.                                             *)

LEMMA RetireKeeps ==
  ASSUME IInv, NEW home \in RowIds({"tenants"}) \ {Home(Operator)},
         NEW ls, ls = {l \in links : l[1] \notin Retired(MakerOf(home)) /\ l[2] \notin Retired(MakerOf(home))},
         NEW st, st = [ws \in DOMAIN seat |-> IF Home(ws) = home THEN None ELSE seat[ws]]
  PROVE  Sane(Without(Retired(MakerOf(home))), ls, st, caps)
<1> DEFINE w == MakerOf(home)
           gone == Retired(w)
           new == Without(gone)
<1>1. WellStored(rows, links, seat, caps) /\ OwnersIn(rows)
  BY DEF IInv, Sane
<1>2. /\ DOMAIN new = DOMAIN rows \ gone
      /\ \A j \in DOMAIN new : new[j] = IF rows[j].link \in gone /\ TableOf(j) \notin Unchecked
                                        THEN [rows[j] EXCEPT !.link = None] ELSE rows[j]
  BY DEF Without
<1>3. home = Home(w) /\ w # Operator
  BY RowIdParts DEF Home
<1>4. \A j \in DOMAIN rows : j \in gone <=> rows[j].ws = w \/ (TableOf(j) \in Cascading /\ j \in gone)
  BY DEF Retired
<1>5. \A ws : Home(ws) \in DOMAIN rows => TableOf(Home(ws)) = "tenants" /\ rows[Home(ws)].ws = ws
  BY <1>1 DEF WellStored, RowStored, Home, TableOf, MakerOf, Personal
<1> HIDE DEF w, gone, new
<1>6. \A ws : Home(ws) \in DOMAIN rows /\ ws # w => Home(ws) \in DOMAIN new
  BY <1>2, <1>4, <1>5 DEF Cascading
<1>7. \A p \in DOMAIN rows : TableOf(p) = "plans" => p \in DOMAIN new
  BY <1>1, <1>2, <1>3, <1>4 DEF WellStored, RowStored, Cascading
<1>8. ASSUME NEW j \in DOMAIN new
      PROVE  RowStored(new, j) /\ OwnerKept(new, j)
  <2>1. RowStored(rows, j) /\ OwnerKept(rows, j)
    BY <1>1, <1>2 DEF WellStored, OwnersIn
  <2>2. DOMAIN new[j] = Columns \cup {"ws"} /\ new[j].ws = rows[j].ws
    BY <1>2, <2>1 DEF RowStored, Columns
  <2>3. rows[j].ws # w
    BY <1>2, <1>4
  <2>4. new[j].link = None \/ TableOf(j) \in Unchecked \/ new[j].link \in DOMAIN new
    <3>1. CASE rows[j].link \in gone /\ TableOf(j) \notin Unchecked
      BY <1>2, <2>1, <3>1 DEF RowStored, Columns
    <3>2. CASE ~(rows[j].link \in gone /\ TableOf(j) \notin Unchecked)
      BY <1>2, <2>1, <3>2 DEF RowStored
    <3> QED
      BY <3>1, <3>2
  <2> QED
    BY <1>6, <2>1, <2>2, <2>3, <2>4 DEF RowStored, OwnerKept
<1>9. {j \in DOMAIN new : TableOf(j) = "plans"} = {j \in DOMAIN rows : TableOf(j) = "plans"}
  BY <1>2, <1>7
<1>10. Home(Operator) \in DOMAIN new
  BY <1>1, <1>3, <1>6 DEF WellStored
<1>11. ls = {l \in links : l[1] \notin gone /\ l[2] \notin gone}
  BY DEF gone, w
<1>12. \A l \in ls : l \in links /\ {l[1], l[2]} \subseteq DOMAIN new
  BY <1>1, <1>2, <1>11 DEF WellStored
<1>13. ASSUME NEW ws \in DOMAIN st, st[ws] # None
       PROVE  {st[ws], Home(ws)} \subseteq DOMAIN new /\ TableOf(st[ws]) = "plans"
  <2>1. ws \in DOMAIN seat /\ Home(ws) # home /\ st[ws] = seat[ws]
    BY <1>13
  <2>2. {seat[ws], Home(ws)} \subseteq DOMAIN rows /\ TableOf(seat[ws]) = "plans"
    BY <1>1, <1>13, <2>1 DEF WellStored
  <2>3. ws # w
    BY <1>3, <2>1
  <2> QED
    BY <1>6, <1>7, <2>1, <2>2, <2>3
<1>14. WellStored(new, ls, st, caps)
  BY <1>1, <1>8, <1>9, <1>10, <1>12, <1>13 DEF WellStored
<1>15. OwnersIn(new)
  BY <1>8 DEF OwnersIn
<1> QED
  BY <1>14, <1>15 DEF Sane, new, gone, w

LEMMA DeleteWorkspaceSound ==
  ASSUME IInv, NEW q \in Requests, NEW home \in RowIds({"tenants"}) \ {Home(Operator)}, NEW next,
         DeleteWorkspace(q, home, next)
  PROVE  Sound(q)
<1>1. Advance(q)
  BY MovesAdvance DEF DeleteWorkspace
<1>2. Sane(rows', links', seat', caps)
  BY RetireKeeps DEF DeleteWorkspace
<1>3. Steady(q)
  BY CutSteady DEF DeleteWorkspace
<1> QED
  BY <1>1, <1>2, <1>3 DEF DeleteWorkspace, Sound

LEMMA RetirerHolds ==
  ASSUME IInv, NEW q \in Requests, Advance(q), SparesTheOperator(q)',
         serving[q].kind \in {"delete_tenant", "bulk_delete_tenants"}
  PROVE  Holds(q)'
BY DEF Advance, OnDocuments, SeatingKinds, Holds, HoldsRow, SeesNumbers, SeesPlans, RoutesToOwn, Asks

LEMMA DeleteTenantKeeps ==
  ASSUME IInv, NEW q \in Requests, DeleteTenant(q)
  PROVE  Sound(q) /\ Holds(q)'
<1>1. RequestOK(q) /\ SparesTheOperator(q) /\ serving[q].kind = "delete_tenant"
  BY DEF IInv, Holds, DeleteTenant, Asks
<1>2. serving[q].ws = Operator /\ Target(q) \in RowIds({"tenants"})
  BY <1>1 DEF RequestOK, JobFits, OfOperator, Target
<1>3. ASSUME NEW here, Refuse(q, here) \/ Finish(q, here) PROVE Sound(q) /\ serving'[q].at = "done"
  BY <1>3, ChecksQuiet, MovesHold DEF Refuse, Finish
<1>4. ASSUME Target(q) # Home(serving[q].ws), Goes(q, "delete"), UNCHANGED tables
      PROVE  Sound(q) /\ Target(q) # Home(Operator)
  BY <1>2, <1>4, GoesSound
<1>5. ASSUME At(q, "delete"), DeleteWorkspace(q, Target(q), "answer") PROVE Sound(q) /\ serving'[q].at # "delete"
  <2>1. Target(q) # Home(Operator)
    BY <1>1, <1>5 DEF SparesTheOperator, Asks
  <2>2. Sound(q)
    BY <1>2, <1>5, <2>1, DeleteWorkspaceSound
  <2> QED
    BY <1>5, <2>2, MovesHold DEF DeleteWorkspace
<1>6. Sound(q) /\ (serving'[q].at # "delete" \/ Target(q) # Home(Operator))
  BY <1>3, <1>4, <1>5 DEF DeleteTenant
<1>7. SparesTheOperator(q)'
  BY <1>1, <1>6 DEF SparesTheOperator, Sound, Advance, At, Asks, Target
<1> QED
  BY <1>1, <1>6, <1>7, RetirerHolds DEF Sound

LEMMA BulkDeleteKeeps ==
  ASSUME IInv, NEW q \in Requests, BulkDeleteTenants(q)
  PROVE  Sound(q) /\ Holds(q)'
<1> DEFINE Spared == serving'[q].at = "delete" => serving'[q].read \in RowIds({"tenants"}) \ {Home(Operator)}
<1>1. RequestOK(q) /\ DOMAIN serving = Requests /\ SparesTheOperator(q) /\ serving[q].kind = "bulk_delete_tenants"
  BY DEF IInv, Holds, BulkDeleteTenants, Asks
<1>2. serving[q].ws = Operator /\ serving[q].ref \subseteq RowIds({"tenants"})
  BY <1>1 DEF RequestOK, JobFits, OfOperator
<1>3. ASSUME NEW found, Look(q, "start", found, "start") PROVE Sound(q) /\ Spared
  <2>1. serving'[q].at = "start"
    BY <1>1, <1>3 DEF Look, RequestOK, Fields
  <2> QED
    BY <1>3, <2>1, ChecksQuiet
<1>4. ASSUME NEW home \in serving[q].ref, home # Home(serving[q].ws), UNCHANGED tables,
             serving' = [serving EXCEPT ![q].at = "delete", ![q].read = home, ![q].saw = @ \cup {home}]
      PROVE  Sound(q) /\ Spared
  <2>1. Advance(q) /\ serving'[q].read = home
    BY <1>1, <1>4 DEF Advance, RequestOK, Fields
  <2>2. Sound(q)
    BY <1>4, <2>1, QuietSound DEF tables
  <2> QED
    BY <1>2, <1>4, <2>1, <2>2
<1>5. ASSUME At(q, "delete"), DeleteWorkspace(q, serving[q].read, "start") PROVE Sound(q) /\ Spared
  <2>1. serving[q].read \in RowIds({"tenants"}) \ {Home(Operator)}
    BY <1>1, <1>5 DEF SparesTheOperator, Asks
  <2>2. Sound(q)
    BY <1>5, <2>1, DeleteWorkspaceSound
  <2>3. serving'[q].at \in {"start", "done"}
    BY <1>5, MovesHold DEF DeleteWorkspace
  <2> QED
    BY <2>2, <2>3
<1>6. ASSUME Goes(q, "start"), UNCHANGED tables PROVE Sound(q) /\ Spared
  <2>1. serving'[q].at \in {"start", "done"}
    BY <1>6, MovesHold
  <2> QED
    BY <1>6, <2>1, GoesSound
<1>7. ASSUME Finish(q, "start") PROVE Sound(q) /\ Spared
  <2>1. serving'[q].at = "done"
    BY <1>7, MovesHold DEF Finish
  <2> QED
    BY <1>7, <2>1, ChecksQuiet
<1>8. Sound(q) /\ Spared
  BY <1>3, <1>4, <1>5, <1>6, <1>7 DEF BulkDeleteTenants
<1>9. SparesTheOperator(q)'
  BY <1>1, <1>8 DEF SparesTheOperator, Sound, Advance, At, Asks
<1> QED
  BY <1>1, <1>8, <1>9, RetirerHolds DEF Sound
LEMMA CreateAccountSound ==
  ASSUME IInv, NEW q \in Requests, NEW here, NEW slug, NEW taken, NEW next, CreateAccount(q, here, slug, taken, next)
  PROVE  Sound(q)
<1>1. CASE /\ Goes(q, IF Known(q) THEN taken ELSE "mint")
           /\ UNCHANGED tables
  BY <1>1, GoesSound
<1>2. CASE Goes(q, taken) /\ rows' = rows /\ seat' = seat /\ UNCHANGED <<links, caps, rented>>
  BY <1>2, MovesAdvance, QuietSound
<1>3. CASE /\ rows' = With(With(rows, <<"tenants", q>>, Workspace(q, q)), <<"users", q>>, Owner(q))
           /\ seat' = With(seat, q, EntrySeat(slug))
           /\ Wrote(q, next)
           /\ UNCHANGED <<links, caps, rented>>
  <2> DEFINE home == <<"tenants", q>>
             user == <<"users", q>>
             half == With(rows, home, Workspace(q, q))
             new == With(half, user, Owner(q))
  <2>1. /\ home = Home(q) /\ home \in RowIds({TableOf(home)}) /\ TableOf(home) = "tenants" /\ MakerOf(home) = q
        /\ user \in RowIds({TableOf(user)}) /\ TableOf(user) = "users" /\ MakerOf(user) = q
    BY RowIdMade DEF Home
  <2>2. /\ DOMAIN Workspace(q, q) = Columns \cup {"ws"} /\ Workspace(q, q).ws = q /\ Workspace(q, q).link = None
        /\ DOMAIN Owner(q) = Columns \cup {"ws"} /\ Owner(q).ws = q /\ Owner(q).link = None
    BY DEF Workspace, Owner, Columns
  <2>3. DOMAIN half = DOMAIN rows \cup {home} /\ DOMAIN new = DOMAIN half \cup {user}
    BY DEF With
  <2>4. /\ DOMAIN seat' = DOMAIN seat \cup {q}
        /\ \A ws \in DOMAIN seat' : seat'[ws] = IF ws = q THEN EntrySeat(slug) ELSE seat[ws]
    BY <1>3 DEF With
  <2>5. EntrySeat(slug) = None \/ (EntrySeat(slug) \in DOMAIN rows /\ TableOf(EntrySeat(slug)) = "plans")
    <3>1. CASE \E p \in PlanNamed(slug) : Active(p)
      <4>1. EntrySeat(slug) \in PlanNamed(slug)
        BY <3>1 DEF EntrySeat
      <4> QED
        BY <4>1 DEF PlanNamed, Rows
    <3>2. CASE ~\E p \in PlanNamed(slug) : Active(p)
      BY <3>2 DEF EntrySeat
    <3> QED
      BY <3>1, <3>2
  <2> HIDE DEF home, user, half, new
  <2>6. Sane(half, links, seat, caps)
    <3>1. Sane(With(rows, home, Workspace(q, q)), links, seat, caps)
      BY <2>1, <2>2, WithKeeps DEF IInv, Tied, Personal
    <3> QED
      BY <3>1 DEF half
  <2>7. Sane(new, links, seat, caps)
    <3>1. Home(q) \in DOMAIN half
      BY <2>1, <2>3
    <3>2. Sane(With(half, user, Owner(q)), links, seat, caps)
      BY <2>1, <2>2, <2>6, <3>1, WithKeeps DEF Tied, Personal, Shared
    <3> QED
      BY <3>2 DEF new
  <2>8. \A ws \in DOMAIN seat' : seat'[ws] # None =>
          {seat'[ws], Home(ws)} \subseteq DOMAIN new /\ TableOf(seat'[ws]) = "plans"
    BY <2>1, <2>3, <2>4, <2>5, <2>7 DEF Sane, WellStored
  <2>9. Sane(new, links, seat', caps)
    BY <2>7, <2>8 DEF Sane, WellStored
  <2>10. rows' = new
    BY <1>3 DEF new, half, home, user
  <2>11. Advance(q)
    BY <1>3, MovesAdvance
  <2>12. ASSUME NEW j \in DOMAIN new PROVE MayWrite(q, j, new[j])
    <3>1. new[j] = IF j = user THEN Owner(q) ELSE IF j = home THEN Workspace(q, q) ELSE rows[j]
      BY <2>3, <2>12 DEF new, half, With
    <3>2. home \in DOMAIN rows => rows[home].ws = q
      BY <2>1 DEF IInv, Sane, WellStored, RowStored, Personal
    <3>3. CASE j = user
      BY <2>1, <3>3 DEF MayWrite, MayMake, Shared
    <3>4. CASE j # user /\ j = home
      BY <2>1, <2>2, <3>1, <3>2, <3>4 DEF MayWrite, MayMake, Personal, Shared
    <3>5. CASE j # user /\ j # home
      BY <2>3, <3>1, <3>5 DEF MayWrite
    <3> QED
      BY <3>3, <3>4, <3>5
  <2> QED
    BY <1>3, <2>9, <2>10, <2>11, <2>12 DEF Sound, Steady
<1> QED
  BY <1>1, <1>2, <1>3 DEF CreateAccount

LEMMA ProvisionSound ==
  ASSUME IInv, NEW q \in Requests, ProvisionFreeAccount(q)
  PROVE  Sound(q)
BY CreateAccountSound, GoesSound, ChecksQuiet DEF ProvisionFreeAccount

LEMMA CompanyTarget ==
  ASSUME IInv, NEW q \in Requests, serving[q].kind \in OnCompanies
  PROVE  /\ Target(q) \in RowIds({TableOf(Target(q))}) /\ TableOf(Target(q)) = "portfolio_companies"
         /\ MakerOf(Target(q)) \in Workspaces
<1>1. Target(q) \in RowIds({"portfolio_companies"}) /\ MakerOf(Target(q)) \in Workspaces
  BY DEF IInv, RequestOK, JobFits, Target
<1> QED
  BY <1>1, RowIdParts

LEMMA CompanyRow ==
  ASSUME IInv, NEW q \in Requests, NEW ws
  PROVE  /\ DOMAIN UpsertCompany(q, ws) = Columns \cup {"ws"}
         /\ Target(q) \in DOMAIN rows =>
              /\ UpsertCompany(q, ws).ws = rows[Target(q)].ws /\ UpsertCompany(q, ws).link = rows[Target(q)].link
              /\ DOMAIN Described(q, Target(q)) = Columns \cup {"ws"}
              /\ Described(q, Target(q)).ws = rows[Target(q)].ws
         /\ Target(q) \notin DOMAIN rows => UpsertCompany(q, ws).ws = ws /\ UpsertCompany(q, ws).link = None
<1>1. Target(q) \in DOMAIN rows => DOMAIN rows[Target(q)] = Columns \cup {"ws"}
  BY EditsKeepOwner
<1> QED
  BY <1>1 DEF UpsertCompany, Described, NewCompany, Columns

LEMMA MirrorSound ==
  ASSUME IInv, NEW q \in Requests, NEW here, NEW next, Mirror(q, here, next), serving[q].kind \in OnCompanies,
         serving[q].val \in Requests \cup Workspaces
  PROVE  Sound(q)
<1> DEFINE val == serving[q].val
           home == <<"tenants", val>>
           first == Workspace(val, serving[q].ref)
           parents == IF home \in DOMAIN rows THEN rows ELSE With(rows, home, first)
           row == UpsertCompany(q, val)
<1>1. CASE rows' = rows /\ Ends(q, "refused") /\ UNCHANGED <<links, seat, caps, rented>>
  BY <1>1, MovesAdvance, QuietSound
<1>2. CASE rows' = With(parents, Target(q), row) /\ Wrote(q, next) /\ UNCHANGED <<links, seat, caps, rented>>
  <2>1. home = Home(val) /\ home \in RowIds({TableOf(home)}) /\ TableOf(home) = "tenants" /\ MakerOf(home) = val
    BY RowIdMade DEF Home
  <2>2. DOMAIN first = Columns \cup {"ws"} /\ first.ws = val /\ first.link = None
    BY DEF Workspace, Columns
  <2>3. /\ home \in DOMAIN parents
        /\ \A i \in DOMAIN rows : i \in DOMAIN parents
        /\ TableOf(Target(q)) = "portfolio_companies"
    BY CompanyTarget DEF With
  <2>4. Sane(rows, links, seat, caps)
    BY DEF IInv
  <2> HIDE DEF home, first
  <2>5. Sane(With(rows, home, first), links, seat, caps)
    BY <2>1, <2>2, <2>4, WithKeeps DEF Tied, Personal
  <2>6. Sane(parents, links, seat, caps)
    BY <2>4, <2>5
  <2>7. DOMAIN row = Columns \cup {"ws"}
    BY CompanyRow
  <2>8. (row.ws = None \/ Home(row.ws) \in DOMAIN parents) /\ (row.link = None \/ row.link \in DOMAIN parents)
    <3>1. CASE Target(q) \in DOMAIN rows
      <4>1. RowStored(rows, Target(q))
        BY <2>4, <3>1 DEF Sane, WellStored
      <4>2. row.ws = rows[Target(q)].ws /\ row.link = rows[Target(q)].link
        BY <3>1, CompanyRow
      <4> QED
        BY <2>3, <4>1, <4>2 DEF RowStored, Unchecked, Personal
    <3>2. CASE Target(q) \notin DOMAIN rows
      <4>1. row.ws = val /\ row.link = None
        BY <3>2, CompanyRow
      <4> QED
        BY <2>1, <2>3, <4>1
    <3> QED
      BY <3>1, <3>2
  <2>9. Target(q) \in RowIds({TableOf(Target(q))}) /\ MakerOf(Target(q)) \in Workspaces
    BY CompanyTarget
  <2>10. ASSUME NEW j \in DOMAIN With(parents, Target(q), row)
         PROVE  MayWrite(q, j, With(parents, Target(q), row)[j])
    <3>1. CASE j = Target(q)
      BY <2>3, <2>9, <3>1 DEF MayWrite, MayMake, Shared
    <3>2. CASE j # Target(q) /\ j \in DOMAIN rows
      <4>1. With(parents, Target(q), row)[j] = rows[j]
        BY <3>2 DEF With
      <4> QED
        BY <3>2, <4>1 DEF MayWrite
    <3>3. CASE j # Target(q) /\ j \notin DOMAIN rows
      <4>1. j = home
        BY <2>10, <3>3 DEF With
      <4> QED
        BY <2>1, <3>3, <4>1 DEF MayWrite, MayMake, Shared, Personal
    <3> QED
      BY <3>1, <3>2, <3>3
  <2> HIDE DEF parents, row
  <2>11. Sane(With(parents, Target(q), row), links, seat, caps)
    BY <2>3, <2>6, <2>7, <2>8, <2>9, WithKeeps DEF Tied, Personal, Shared
  <2>12. Advance(q)
    BY <1>2, MovesAdvance
  <2> QED
    BY <1>2, <2>10, <2>11, <2>12 DEF Sound, Steady
<1> QED
  BY <1>1, <1>2 DEF Mirror

\* The seat on the top plan, at the end of the portfolio's doors.
LEMMA SeatTopKeeps ==
  ASSUME IInv, NEW q \in Requests, NEW here, NEW ws, NEW next, SeatTop(q, here, ws, next),
         serving[q].kind \in SeatingKinds
  PROVE  Sound(q) /\ SeesPlans(q)'
<1>1. \A p \in serving[q].saw : TableOf(p) = "plans"
  BY DEF IInv, Holds, SeesPlans
<1>2. ASSUME serving'[q].saw = serving[q].saw PROVE SeesPlans(q)'
  BY <1>1, <1>2 DEF SeesPlans
<1>3. ASSUME Goes(q, next), UNCHANGED tables PROVE Sound(q) /\ SeesPlans(q)'
  BY <1>2, <1>3, GoesSound, MovesHold
<1>4. ASSUME NEW p \in TopPlans, Look(q, here, {p}, "seat") PROVE Sound(q) /\ SeesPlans(q)'
  <2>1. serving'[q].saw = {p} /\ TableOf(p) = "plans"
    BY <1>4 DEF Look, IInv, RequestOK, Fields, TopPlans, Rows
  <2> QED
    BY <1>4, <2>1, ChecksQuiet DEF SeesPlans
<1>5. ASSUME NEW p \in serving[q].saw, SeatPlan(q, "seat", ws, p, next) PROVE Sound(q) /\ SeesPlans(q)'
  <2>1. serving'[q].saw = serving[q].saw
    BY <1>5, MovesHold DEF SeatPlan
  <2> QED
    BY <1>1, <1>2, <1>5, <2>1, SeatPlanSound
<1> QED
  BY <1>3, <1>4, <1>5 DEF SeatTop

LEMMA CompanyDoorKeeps ==
  ASSUME IInv, NEW q \in Requests, PortfolioSync(q) \/ SyncCreate(q) \/ SyncUpdate(q)
  PROVE  Sound(q) /\ Holds(q)'
<1>1. serving[q].kind \in SeatingKinds /\ serving[q].kind \in OnCompanies
  BY DEF PortfolioSync, SyncCreate, SyncUpdate, Asks, SeatingKinds, OnCompanies
<1>2. ASSUME serving'[q].saw = serving[q].saw PROVE SeesPlans(q)'
  BY <1>1, <1>2 DEF IInv, Holds, SeesPlans
<1>3. ASSUME NEW here, Refuse(q, here) \/ Finish(q, here) PROVE Sound(q) /\ SeesPlans(q)'
  BY <1>2, <1>3, ChecksQuiet, MovesHold DEF Refuse, Finish
<1>4. ASSUME NEW next, Goes(q, next), UNCHANGED tables PROVE Sound(q) /\ SeesPlans(q)'
  BY <1>2, <1>4, GoesSound, MovesHold
<1>5. ASSUME NEW here, NEW ws, NEW next, SeatTop(q, here, ws, next) PROVE Sound(q) /\ SeesPlans(q)'
  BY <1>1, <1>5, SeatTopKeeps
<1>6. ASSUME NEW here, NEW i, NEW row, NEW next, Put(q, here, i, row, next), Storable(q, i, row)
      PROVE  Sound(q) /\ SeesPlans(q)'
  <2>1. serving'[q].saw = serving[q].saw
    BY <1>6, MovesHold DEF Put
  <2> QED
    BY <1>2, <1>6, <2>1, PutSound
<1>7. CASE PortfolioSync(q)
  <2>1. ASSUME NEW i \in {Target(q)}, ChangeRow(q, "refresh", i, Described(q, i), "answer")
        PROVE  Sound(q) /\ SeesPlans(q)'
    <3>1. serving'[q].saw = serving[q].saw
      BY <2>1, MovesHold DEF ChangeRow, Put
    <3>2. i = Target(q)
      OBVIOUS
    <3>3. i \in DOMAIN rows => DOMAIN Described(q, i) = Columns \cup {"ws"} /\ Described(q, i).ws = rows[i].ws
      BY <3>2, CompanyRow
    <3> QED
      BY <1>2, <2>1, <3>1, <3>3, ChangeSound
  <2>2. Storable(q, <<"tenants", q>>, Workspace(q, q))
    <3>1. LET i == <<"tenants", q>> IN i \in RowIds({TableOf(i)}) /\ TableOf(i) = "tenants" /\ MakerOf(i) = q
      BY RowIdMade
    <3>2. DOMAIN Workspace(q, q) = Columns \cup {"ws"} /\ Workspace(q, q).ws = q
      BY DEF Workspace, Columns
    <3> QED
      BY <3>1, <3>2, PersonalStorable DEF Personal
  <2>3. Storable(q, <<"users", q>>, Owner(q))
    <3>1. LET i == <<"users", q>> IN i \in RowIds({TableOf(i)}) /\ TableOf(i) = "users" /\ MakerOf(i) = q
      BY RowIdMade
    <3>2. DOMAIN Owner(q) = Columns \cup {"ws"}
      BY DEF Owner, Workspace, Columns
    <3> QED
      BY <3>1, <3>2, SharedStorable DEF Shared
  <2>4. Storable(q, Target(q), UpsertCompany(q, q))
    BY <1>1, CompanyTarget, CompanyRow, SharedStorable DEF Shared
  <2>5. Sound(q) /\ SeesPlans(q)'
    BY <1>3, <1>4, <1>5, <1>6, <1>7, <2>1, <2>2, <2>3, <2>4 DEF PortfolioSync
  <2> QED
    BY <1>1, <2>5, SeatingHolds DEF Sound
<1>8. ASSUME NEW here, NEW next, Mirror(q, here, next), serving[q].val \in Requests \cup Workspaces
      PROVE  Sound(q) /\ SeesPlans(q)'
  <2>1. serving'[q].saw = serving[q].saw
    BY <1>8, MovesHold DEF Mirror
  <2> QED
    BY <1>1, <1>2, <1>8, <2>1, MirrorSound
<1>9. CASE SyncCreate(q)
  <2>1. serving[q].val \in Requests \cup Workspaces
    BY <1>9 DEF SyncCreate, Asks, IInv, RequestOK, JobFits
  <2>2. Sound(q) /\ SeesPlans(q)'
    BY <1>3, <1>5, <1>8, <1>9, <2>1 DEF SyncCreate
  <2> QED
    BY <1>1, <2>2, SeatingHolds DEF Sound
<1>10. CASE SyncUpdate(q)
  <2>1. serving[q].val # None => serving[q].val \in Requests \cup Workspaces
    BY <1>10 DEF SyncUpdate, Asks, IInv, RequestOK, JobFits
  <2>2. Target(q) \in DOMAIN rows => Storable(q, Target(q), Described(q, Target(q)))
    BY CompanyRow, SameOwnerStorable
  <2>3. Sound(q) /\ SeesPlans(q)'
    BY <1>3, <1>4, <1>5, <1>6, <1>8, <1>10, <2>1, <2>2 DEF SyncUpdate
  <2> QED
    BY <1>1, <2>3, SeatingHolds DEF Sound
<1> QED
  BY <1>7, <1>9, <1>10

LEMMA AccountKeeps ==
  ASSUME IInv, NEW q \in Requests, ServeAccount(q)
  PROVE  Sound(q) /\ Holds(q)'
<1>1. ASSUME SyncDelete(q) PROVE Sound(q)
  <2>1. CASE rows' = Without(Fallen(Target(q))) /\ Wrote(q, "answer") /\ UNCHANGED <<links, seat, caps, rented>>
    <3>1. TableOf(Target(q)) = "portfolio_companies"
      BY <1>1, CompanyTarget DEF SyncDelete, Asks, OnCompanies
    <3>2. Advance(q)
      BY <2>1, MovesAdvance
    <3> QED
      BY <2>1, <3>1, <3>2, CutFallen, CutSteady DEF Sound
  <2> QED
    BY <1>1, <2>1, ChecksQuiet DEF SyncDelete
<1>2. CASE SyncDelete(q) \/ ProvisionFreeAccount(q)
  <2>1. Sound(q)
    BY <1>1, <1>2, ProvisionSound
  <2>2. serving[q].kind \notin HoldingKinds
    BY <1>2 DEF SyncDelete, ProvisionFreeAccount, Asks, HoldingKinds, OnDocuments, SeatingKinds
  <2> QED
    BY <2>1, <2>2, HoldsNothing DEF Sound
<1> QED
  BY <1>2, DeleteTenantKeeps, BulkDeleteKeeps, CompanyDoorKeeps DEF ServeAccount

-----------------------------------------------------------------------------
(* The theorems.                                                            *)

LEMMA InitSound == Init => IInv
<1> SUFFICES ASSUME Init PROVE IInv
  OBVIOUS
<1>1. PICK load \in Workloads :
        /\ rows = load.rows /\ links = load.links /\ seat = load.seat /\ caps = load.caps
        /\ \E asked \in load.asked : serving = [q \in Requests |-> Received(asked[q])]
  BY DEF Init
<1>2. PICK asked \in load.asked : serving = [q \in Requests |-> Received(asked[q])]
  BY <1>1
<1>3. WellStored(rows, links, seat, caps) /\ Seeded(rows) /\ \A q \in Requests : JobFits(asked[q])
  BY <1>1, WorkloadsAssumption
<1>4. ASSUME NEW q \in Requests PROVE RequestOK(q) /\ Holds(q)
  <2>1. serving[q] = Received(asked[q])
    BY <1>2
  <2>2. JobFits(serving[q])
    BY <1>3, <2>1 DEF JobFits, Received
  <2>3. RequestOK(q)
    BY <2>1, <2>2 DEF RequestOK, Received, Fields
  <2>4. serving[q].at = "start" /\ serving[q].saw = {}
    BY <2>1 DEF Received
  <2> QED
    BY <2>3, <2>4 DEF Holds, HoldsRow, SeesNumbers, SeesPlans, RoutesToOwn, SparesTheOperator, At
<1>5. OwnersIn(rows)
  <2>1. ASSUME NEW i \in DOMAIN rows PROVE OwnerKept(rows, i)
    <3>1. MakerOf(i) \in Workspaces /\ (TableOf(i) = "campaigns" => rows[i].ws = MakerOf(i))
      BY <1>3 DEF Seeded
    <3> QED
      BY <3>1, MakersAssumption DEF OwnerKept, Tied, Issuer
  <2> QED
    BY <2>1 DEF OwnersIn
<1> QED
  BY <1>2, <1>3, <1>4, <1>5 DEF IInv, Sane

LEMMA ServeKeeps ==
  ASSUME IInv, NEW q \in Requests, Serve(q)
  PROVE  Sound(q) /\ Holds(q)'
BY RecordKeeps, AutomationKeeps, SettingKeeps, CampaignKeeps, PlanKeeps, TicketKeeps, AccountKeeps, NumberKeeps
   DEF Serve

\* The inductive invariant holds: every handler of the console, one statement at
\* a time and in any company, keeps it.
THEOREM Invariance == Spec => []IInv
<1>1. Init => IInv
  BY InitSound
<1>2. IInv /\ [Next]_vars => IInv'
  <2> SUFFICES ASSUME IInv, [Next]_vars PROVE IInv'
    OBVIOUS
  <2>1. ASSUME NEW q \in Requests, Serve(q) PROVE IInv'
    BY <2>1, ServeKeeps, StepKeeps
  <2>2. CASE UNCHANGED vars
    <3>1. serving' = serving /\ rows' = rows /\ links' = links /\ seat' = seat /\ caps' = caps
      BY <2>2 DEF vars
    <3>2. ASSUME NEW q \in Requests PROVE RequestOK(q)'
      <4>1. RequestOK(q)
        BY DEF IInv
      <4>2. JobFits(serving[q])'
        BY <3>1, <4>1 DEF RequestOK, JobFits
      <4> QED
        BY <3>1, <4>1, <4>2 DEF RequestOK
    <3>3. \A i : Issuer(i)' = Issuer(i)
      BY <3>1 DEF Issuer
    <3>4. ASSUME NEW q \in Requests PROVE Holds(q)'
      <4>1. Holds(q)
        BY DEF IInv
      <4>2. HoldsRow(q)'
        BY <3>1, <4>1 DEF Holds, HoldsRow
      <4>3. SeesNumbers(q)' /\ SeesPlans(q)'
        BY <3>1, <4>1 DEF Holds, SeesNumbers, SeesPlans, Asks
      <4>4. RoutesToOwn(q)'
        BY <3>1, <3>3, <4>1 DEF Holds, RoutesToOwn, Asks, At
      <4>5. SparesTheOperator(q)'
        BY <3>1, <4>1 DEF Holds, SparesTheOperator, Asks, At, Target
      <4> QED
        BY <4>2, <4>3, <4>4, <4>5 DEF Holds
    <3>5. OwnersIn(rows)'
      BY <3>1, <3>3 DEF IInv, Sane, OwnersIn, OwnerKept
    <3>6. WellStored(rows, links, seat, caps)'
      BY <3>1 DEF IInv, Sane, WellStored, RowStored
    <3> QED
      BY <3>1, <3>2, <3>4, <3>5, <3>6 DEF IInv, Sane
  <2> QED
    BY <2>1, <2>2 DEF Next
<1> QED
  BY <1>1, <1>2, PTL DEF Spec

\* Types, and the schema's references: no row, membership, seat or limit outlives
\* what it refers to, whatever is deleted while other handlers are half way.
THEOREM TypeCorrect == Spec => []TypeOK
<1>1. IInv => TypeOK
  <2> SUFFICES ASSUME IInv PROVE TypeOK
    OBVIOUS
  <2>1. WellStored(rows, links, seat, caps)
    BY DEF IInv, Sane
  <2>2. ASSUME NEW i \in DOMAIN rows
        PROVE  /\ MakerOf(i) \in Requests \cup Workspaces
               /\ Housed(i, rows[i])
               /\ rows[i].link = None \/ TableOf(i) \in Unchecked \/ rows[i].link \in DOMAIN rows
    <3>1. RowStored(rows, i)
      BY <2>1 DEF WellStored
    <3>2. MakerOf(i) \in Requests \cup Workspaces
      BY <3>1, RowIdParts DEF RowStored
    <3> QED
      BY <3>1, <3>2 DEF RowStored, Housed, Personal
  <2>3. \A l \in links : l[1] \in DOMAIN rows /\ l[2] \in DOMAIN rows
    BY <2>1 DEF WellStored
  <2>4. \A ws \in DOMAIN seat : seat[ws] # None => seat[ws] \in Rows("plans") /\ Home(ws) \in DOMAIN rows
    BY <2>1 DEF WellStored, Rows
  <2>5. DOMAIN caps = Rows("plans")
    BY <2>1 DEF WellStored, Rows
  <2>6. \A q \in Requests :
          serving[q].answer \in {"none", "ok", "refused", "failed"} /\ serving[q].wrote \in BOOLEAN
    BY DEF IInv, RequestOK
  <2> QED
    BY <2>2, <2>3, <2>4, <2>5, <2>6 DEF TypeOK
<1> QED
  BY <1>1, Invariance, PTL
=============================================================================
