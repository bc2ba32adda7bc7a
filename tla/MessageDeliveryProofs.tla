------------------------ MODULE MessageDeliveryProofs ------------------------
(***************************************************************************)
(* What the run messages checks on three messages, proved for every set of *)
(* messages and every limit: the log's rows are sound, nothing accepted is *)
(* forgotten, and the log implements MessageLifecycle.                     *)
(*                                                                         *)
(* The sender writes the row long after it has read the provider's answer, *)
(* and the events arrive in any order: the invariant says of a row about   *)
(* to be inserted what it says of one that is there, and that an event     *)
(* reports no delivery that has not happened.                              *)
(***************************************************************************)
EXTENDS MessageDelivery, FiniteSetTheorems, TLAPS

\* The status and the timestamps of one row agree.
Agrees(row) ==
  /\ (row.status = "delivered") <=> (row.deliveredAt # Null)
  /\ row.status \in {"sent", "delivered"} => row.sentAt # Null
  /\ row.status \in {"queued", "logged"} => row.sentAt = Null

\* A row of message m, there or about to be: it shows a delivery only of a text
\* that was delivered, and no event finds a row that was only logged.
Sound(m, row) ==
  /\ Agrees(row)
  /\ row.status = "delivered" => carrier[m] = "delivered"
  /\ row.status = "logged" => row.id = FALSE

\* A message has no row until its request or task is through.
NotYetStored == \A m \in Messages : sender[m] # "done" => rows[m] = NoRow

\* A row about to be inserted is sound.
AnswersSound ==
  \A m \in Messages : sender[m] = "insert" => answer[m] # NoRow /\ Sound(m, answer[m])

\* So is every row that is there.
RowsSound == \A m \in Messages : rows[m] # NoRow => Sound(m, rows[m])

\* An event says delivered only of a text that was delivered.
ReportsTrue ==
  \A r \in reports : Mapped(r) = "delivered" => carrier[r.msg] = "delivered"

\* What became of a text once it was handed to Telnyx.
Accounted ==
  \A m \in Messages : carrier[m] # "none" =>
    rows[m] # NoRow \/ sender[m] \in {"asked", "insert"} \/ m \in cut

\* A request or task that died does nothing more.
CutIsDone == \A m \in cut : sender[m] = "done"

\* An event that found its row was answered when the row was there.
AckedFoundRow == \A r \in acked \ missed : rows[r.msg] # NoRow

\* The inductive invariant.
IInv ==
  /\ TypeOK
  /\ NotYetStored
  /\ AnswersSound
  /\ RowsSound
  /\ ReportsTrue
  /\ Accounted
  /\ CutIsDone
  /\ AckedFoundRow
  /\ AckedIsShown

-----------------------------------------------------------------------------
(* The operators the model is built from.                                   *)

\* outcome_from_provider settles on a sound row.
LEMMA OutcomeAgrees ==
  ASSUME NEW status \in {"queued", "sent", "delivered", "failed"}, NEW id \in BOOLEAN
  PROVE  /\ Outcome(status, id) \in Row
         /\ Outcome(status, id).status = status
         /\ Agrees(Outcome(status, id))
BY DEF Outcome, Row, Stamps, Null, Agrees

\* What handle_message_event can read in an event.
Verdicts == {"sent", "delivered", "failed", "other"}

\* The three UPDATEs of handle_message_event: they keep a row sound and matched,
\* leave its stamps, never undo a delivery, and never go back to queued.
LEMMA AppliedKeeps ==
  ASSUME NEW row \in Row, NEW v \in Verdicts, Agrees(row)
  PROVE  /\ Applied(row, v) \in Row
         /\ Agrees(Applied(row, v))
         /\ Applied(row, v).id = row.id
         /\ Applied(row, v).status \in {row.status, v}
         /\ row.status = "delivered" => Applied(row, v).status = "delivered"
         /\ v = "delivered" => Applied(row, v).status = "delivered"
         /\ v \in {"sent", "failed"} => Applied(row, v).status # "queued"
         /\ Applied(row, v).status = "queued" => row.status = "queued"
         /\ row.sentAt # Null => Applied(row, v).sentAt = row.sentAt
         /\ row.deliveredAt # Null => Applied(row, v).deliveredAt = row.deliveredAt
<1> USE DEF Applied, Coalesce, Row, Stamps, Null, Agrees, Verdicts
<1>1. CASE v = "delivered"
  BY <1>1
<1>2. CASE v = "sent" /\ row.status # "delivered"
  BY <1>2
<1>3. CASE v = "failed" /\ row.status # "delivered"
  BY <1>3
<1>4. CASE v = "other" \/ (v \in {"sent", "failed"} /\ row.status = "delivered")
  BY <1>4
<1> QED BY <1>1, <1>2, <1>3, <1>4

-----------------------------------------------------------------------------
(* Every step keeps the invariant.                                          *)

\* What only the columns of the log and its events matter to.
LEMMA IdleStep ==
  ASSUME IInv, held' \in BOOLEAN, configured' \in BOOLEAN,
         UNCHANGED <<sender, answer, carrier, rows, reports, acked, cut, overlapped, missed>>
  PROVE  IInv'
BY DEF IInv, TypeOK, NotYetStored, AnswersSound, RowsSound, ReportsTrue, Accounted, CutIsDone,
       AckedFoundRow, AckedIsShown, Sound, Agrees, Mapped

\* A sender that has not reached Telnyx goes on, or gives up.
LEMMA EarlyStep ==
  ASSUME IInv, NEW m \in Messages, NEW step \in Steps \ {"asked", "insert"},
         sender[m] \notin {"asked", "insert", "done"}, SenderStep(m, step)
  PROVE  IInv'
<1> USE DEF SenderStep, Goto
<1>1. TypeOK'
  BY DEF IInv, TypeOK
<1>2. NotYetStored' /\ AnswersSound' /\ RowsSound' /\ Accounted' /\ CutIsDone'
  BY DEF IInv, TypeOK, NotYetStored, CutIsDone, AnswersSound, RowsSound, Accounted, Sound
<1>3. ReportsTrue' /\ AckedFoundRow' /\ AckedIsShown'
  BY DEF IInv, ReportsTrue, AckedFoundRow, AckedIsShown, Mapped
<1> QED BY <1>1, <1>2, <1>3 DEF IInv

\* enforce_feature_limit lets a message through.
LEMMA PassStep ==
  ASSUME IInv, NEW m \in Messages, PassLimit(m)
  PROVE  IInv'
<1> USE DEF PassLimit, Goto
<1>0. Logged \in Row /\ Agrees(Logged) /\ Logged.status = "logged" /\ Logged.id = FALSE
  BY DEF Logged, Row, Stamps, Null, Agrees
<1>1. TypeOK'
  BY <1>0 DEF IInv, TypeOK, Steps
<1>2. AnswersSound'
  <2>1. answer'[m] = Logged \/ sender'[m] # "insert"
    BY DEF IInv, TypeOK
  <2>2. Sound(m, Logged)
    BY <1>0 DEF Sound
  <2>3. \A k \in Messages \ {m} : answer'[k] = answer[k] /\ sender'[k] = sender[k]
    BY DEF IInv, TypeOK
  <2>4. \A k \in Messages : sender'[k] = "insert" => answer'[k] # NoRow /\ Sound(k, answer'[k])
    BY <1>0, <2>1, <2>2, <2>3, NoRowAssumption DEF IInv, AnswersSound
  <2> QED BY <2>4 DEF AnswersSound, Sound, Agrees
<1>3. NotYetStored' /\ RowsSound' /\ Accounted' /\ CutIsDone'
  BY DEF IInv, TypeOK, NotYetStored, CutIsDone, RowsSound, Accounted, Sound
<1>4. ReportsTrue' /\ AckedFoundRow' /\ AckedIsShown'
  BY DEF IInv, ReportsTrue, AckedFoundRow, AckedIsShown, Mapped
<1> QED BY <1>1, <1>2, <1>3, <1>4 DEF IInv

\* deliver_outbound asks Telnyx.
LEMMA AskStep ==
  ASSUME IInv, NEW m \in Messages, Ask(m)
  PROVE  IInv'
<1> USE DEF Ask, Goto
<1>1. TypeOK'
  BY DEF IInv, TypeOK, Steps, Carrier
<1>2. rows[m] = NoRow /\ m \notin cut /\ carrier[m] = "none"
  BY DEF IInv, NotYetStored, CutIsDone, Accounted
<1>3. \A k \in Messages \ {m} : carrier'[k] = carrier[k] /\ sender'[k] = sender[k]
  BY DEF IInv, TypeOK
<1>4. sender'[m] = "asked" /\ carrier'[m] = "asked"
  BY DEF IInv, TypeOK
<1>5. NotYetStored' /\ Accounted' /\ CutIsDone'
  BY <1>2, <1>3, <1>4 DEF IInv, NotYetStored, Accounted, CutIsDone
<1>6. AnswersSound' /\ RowsSound'
  BY <1>2, <1>3, <1>4 DEF IInv, AnswersSound, RowsSound, Sound, Agrees
<1>7. ReportsTrue' /\ AckedFoundRow' /\ AckedIsShown'
  <2>1. \A r \in reports : r.msg \in Messages
    BY DEF IInv, TypeOK, Report
  <2> QED BY <1>2, <1>3, <2>1 DEF IInv, ReportsTrue, AckedFoundRow, AckedIsShown, Mapped
<1> QED BY <1>1, <1>5, <1>6, <1>7 DEF IInv

\* The sender has an answer, or has given up waiting for one.
LEMMA ConcludeStep ==
  ASSUME IInv, NEW m \in Messages, NEW row \in Row, sender[m] = "asked",
         Conclude(m, row), Sound(m, row),
         UNCHANGED <<held, configured, carrier, rows, reports, acked, cut, overlapped, missed>>
  PROVE  IInv'
<1> USE DEF Conclude, Goto
<1>1. TypeOK'
  BY DEF IInv, TypeOK, Steps
<1>2. /\ sender'[m] = "insert" /\ answer'[m] = row
      /\ \A k \in Messages \ {m} : answer'[k] = answer[k] /\ sender'[k] = sender[k]
  BY DEF IInv, TypeOK
<1>3. NotYetStored' /\ Accounted' /\ CutIsDone'
  BY <1>2 DEF IInv, NotYetStored, Accounted, CutIsDone
<1>4. \A k \in Messages : sender'[k] = "insert" => answer'[k] # NoRow /\ Sound(k, answer'[k])
  BY <1>2, NoRowAssumption DEF IInv, AnswersSound
<1>5. AnswersSound' /\ RowsSound'
  BY <1>4 DEF IInv, AnswersSound, RowsSound, Sound, Agrees
<1>6. ReportsTrue' /\ AckedFoundRow' /\ AckedIsShown'
  BY DEF IInv, ReportsTrue, AckedFoundRow, AckedIsShown, Mapped
<1> QED BY <1>1, <1>3, <1>5, <1>6 DEF IInv

\* The three ways of hearing from Telnyx: the row they settle on is sound.
LEMMA HearStep ==
  ASSUME IInv, NEW m \in Messages, HearAccepted(m) \/ HearRefusal(m) \/ HearNothing(m)
  PROVE  IInv'
<1>1. PICK status \in {"queued", "sent", "delivered", "failed"}, id \in BOOLEAN :
        /\ Conclude(m, Outcome(status, id))
        /\ status = "delivered" => carrier[m] = "delivered"
  <2>1. CASE HearAccepted(m)
    <3>1. PICK status \in Words(m), id \in BOOLEAN : Conclude(m, Outcome(status, id))
      BY <2>1 DEF HearAccepted
    <3>2. status \in {"queued", "sent", "delivered", "failed"}
            /\ (status = "delivered" => carrier[m] = "delivered")
      BY <3>1 DEF Words
    <3> QED BY <3>1, <3>2
  <2>2. CASE HearRefusal(m) \/ HearNothing(m)
    BY <2>2 DEF HearRefusal, HearNothing
  <2> QED BY <2>1, <2>2
<1>2. Outcome(status, id) \in Row /\ Sound(m, Outcome(status, id))
  BY <1>1, OutcomeAgrees DEF Sound
<1>3. sender[m] = "asked" /\ UNCHANGED <<held, configured, carrier, rows, reports, acked, cut,
                                       overlapped, missed>>
  BY DEF HearAccepted, HearRefusal, HearNothing
<1> QED BY <1>1, <1>2, <1>3, ConcludeStep

\* The INSERT.
LEMMA InsertStep ==
  ASSUME IInv, NEW m \in Messages, Insert(m)
  PROVE  IInv'
<1> USE DEF Insert, Goto
<1>1. TypeOK'
  BY DEF IInv, TypeOK, Steps
<1>2. /\ rows'[m] = answer[m] /\ answer[m] # NoRow /\ Sound(m, answer[m])
      /\ sender'[m] = "done" /\ rows[m] = NoRow
      /\ \A k \in Messages \ {m} : rows'[k] = rows[k] /\ sender'[k] = sender[k]
  BY DEF IInv, TypeOK, AnswersSound, NotYetStored
<1>3. NotYetStored' /\ Accounted' /\ CutIsDone'
  BY <1>2 DEF IInv, NotYetStored, Accounted, CutIsDone
<1>4. AnswersSound' /\ RowsSound'
  BY <1>2 DEF IInv, AnswersSound, RowsSound, Sound, Agrees
<1>5. \A r \in acked \ missed : r.msg \in Messages /\ r.msg # m
  BY <1>2 DEF IInv, TypeOK, Report, AckedFoundRow
<1>6. ReportsTrue' /\ AckedFoundRow' /\ AckedIsShown'
  BY <1>2, <1>5 DEF IInv, ReportsTrue, AckedFoundRow, AckedIsShown, Mapped
<1> QED BY <1>1, <1>3, <1>4, <1>6 DEF IInv

\* A request or task dies.
LEMMA DieStep ==
  ASSUME IInv, (\E m \in Messages : Die(m)) \/ Restart
  PROVE  IInv'
<1>1. /\ \A k \in Messages : sender'[k] = sender[k] \/ (sender'[k] = "done" /\ k \in cut')
      /\ cut \subseteq cut'
      /\ \A k \in cut' : sender'[k] = "done"
      /\ sender' \in [Messages -> Steps] /\ cut' \subseteq Messages
  BY DEF IInv, TypeOK, CutIsDone, Steps, Die, Restart, Goto
<1>2. UNCHANGED <<held, configured, answer, carrier, rows, reports, acked, overlapped, missed>>
  BY DEF Die, Restart
<1>3. TypeOK'
  BY <1>1, <1>2 DEF IInv, TypeOK
<1>4. NotYetStored' /\ Accounted' /\ CutIsDone'
  BY <1>1, <1>2 DEF IInv, NotYetStored, Accounted, CutIsDone
<1>5. AnswersSound' /\ RowsSound'
  BY <1>1, <1>2 DEF IInv, AnswersSound, RowsSound, Sound, Agrees
<1>6. ReportsTrue' /\ AckedFoundRow' /\ AckedIsShown'
  BY <1>2 DEF IInv, ReportsTrue, AckedFoundRow, AckedIsShown, Mapped
<1> QED BY <1>3, <1>4, <1>5, <1>6 DEF IInv

\* Telnyx and the carrier: a delivery is never taken back, and an event that
\* reports one is made by it.
LEMMA CarrierKeeps ==
  ASSUME IInv, NEW m \in Messages, NEW to \in Carrier \ {"none"},
         carrier[m] \notin {"none", "delivered"}, carrier' = [carrier EXCEPT ![m] = to],
         UNCHANGED <<held, configured, sender, answer, rows, acked, cut, overlapped, missed>>,
         reports' \subseteq Report, reports \subseteq reports',
         \A r \in reports' \ reports : r.msg = m /\ (Mapped(r) = "delivered" => to = "delivered")
  PROVE  IInv'
<1>1. TypeOK'
  BY DEF IInv, TypeOK
<1>2. /\ carrier[m] \notin {"none", "delivered"} /\ carrier'[m] = to
      /\ \A k \in Messages \ {m} : carrier'[k] = carrier[k]
  BY DEF IInv, TypeOK
<1>3. NotYetStored' /\ CutIsDone'
  BY DEF IInv, NotYetStored, CutIsDone
<1>4. Accounted'
  BY <1>2 DEF IInv, Accounted
<1>5. AnswersSound' /\ RowsSound'
  BY <1>2 DEF IInv, AnswersSound, RowsSound, Sound, Agrees
<1>6. ReportsTrue'
  <2>1. ASSUME NEW r \in reports', Mapped(r) = "delivered" PROVE carrier'[r.msg] = "delivered"
    <3>1. CASE r \in reports
      <4>1. r.msg \in Messages /\ carrier[r.msg] = "delivered"
        BY <2>1, <3>1 DEF IInv, TypeOK, Report, ReportsTrue
      <4> QED BY <1>2, <4>1
    <3>2. CASE r \notin reports
      BY <1>2, <2>1, <3>2
    <3> QED BY <3>1, <3>2
  <2> QED BY <2>1 DEF ReportsTrue, Mapped
<1>7. AckedFoundRow' /\ AckedIsShown'
  BY DEF IInv, AckedFoundRow, AckedIsShown, Mapped
<1> QED BY <1>1, <1>3, <1>4, <1>5, <1>6, <1>7 DEF IInv

\* Telnyx and the carrier keep the invariant, with what they report.
LEMMA ProviderKeeps ==
  ASSUME IInv, NEW m \in Messages, ProviderStep(m)
  PROVE  IInv'
<1>1. PICK to \in Carrier \ {"none"} :
        /\ carrier[m] \notin {"none", "delivered"} /\ carrier' = [carrier EXCEPT ![m] = to]
        /\ UNCHANGED <<held, configured, sender, answer, rows, acked, cut, overlapped>>
        /\ \/ reports' = reports
           \/ \E word \in {"sent", "delivered", "failed", "other"}, errors \in BOOLEAN :
                /\ reports' = reports \cup {[msg |-> m, word |-> word, errors |-> errors]}
                /\ word = "delivered" => to = "delivered"
  BY DEF ProviderStep, TelnyxAccepts, TelnyxRefuses, CarrierTakes, NetworkConfirms,
         NetworkFails, CarrierStep, Carrier
<1>2. missed' = missed
  BY DEF ProviderStep, TelnyxAccepts, TelnyxRefuses, CarrierTakes, NetworkConfirms,
         NetworkFails, CarrierStep
<1>3. reports \subseteq Report
  BY DEF IInv, TypeOK
<1>4. /\ reports' \subseteq Report /\ reports \subseteq reports'
      /\ \A r \in reports' \ reports : r.msg = m /\ (Mapped(r) = "delivered" => to = "delivered")
  BY <1>1, <1>3 DEF Report, Mapped
<1> QED BY <1>1, <1>2, <1>4, CarrierKeeps

\* An event is applied: what the UPDATEs make of a row is sound, and shows it.
LEMMA ApplyStep ==
  ASSUME IInv, NEW r \in reports, Apply(r)
  PROVE  IInv'
<1>0. /\ r \in Report /\ r.msg \in Messages /\ Mapped(r) \in Verdicts
      /\ UNCHANGED <<held, configured, sender, answer, carrier, reports, cut, overlapped>>
      /\ acked' = acked \cup {r}
  BY DEF IInv, TypeOK, Report, Mapped, Verdicts, Apply
<1>1. CASE ~Matches(r.msg)
  <2>1. missed' = missed \cup {r} /\ rows' = rows
    BY <1>1 DEF Apply
  <2>2. acked' \ missed' \subseteq acked \ missed
    BY <1>0, <2>1
  <2>3. TypeOK' /\ NotYetStored' /\ CutIsDone' /\ Accounted'
    BY <1>0, <2>1 DEF IInv, TypeOK, NotYetStored, CutIsDone, Accounted
  <2>4. AnswersSound' /\ RowsSound' /\ ReportsTrue'
    BY <1>0, <2>1 DEF IInv, AnswersSound, RowsSound, ReportsTrue, Sound, Agrees, Mapped
  <2>5. AckedFoundRow' /\ AckedIsShown'
    BY <2>1, <2>2 DEF IInv, AckedFoundRow, AckedIsShown, Mapped
  <2> QED BY <2>3, <2>4, <2>5 DEF IInv
<1>2. CASE Matches(r.msg)
  <2> DEFINE old == rows[r.msg]
             new == Applied(old, Mapped(r))
  <2>1. old \in Row /\ old # NoRow /\ old.id /\ Sound(r.msg, old)
    BY <1>0, <1>2 DEF Matches, IInv, TypeOK, RowsSound
  <2>2. /\ rows' = [rows EXCEPT ![r.msg] = new] /\ missed' = missed
    BY <1>2 DEF Apply
  <2>3. /\ new \in Row /\ Agrees(new) /\ new.id = old.id
        /\ new.status \in {old.status, Mapped(r)}
        /\ old.status = "delivered" => new.status = "delivered"
        /\ Mapped(r) = "delivered" => new.status = "delivered"
        /\ Mapped(r) \in {"sent", "failed"} => new.status # "queued"
        /\ new.status = "queued" => old.status = "queued"
    BY <1>0, <2>1, AppliedKeeps DEF Sound
  <2> HIDE DEF new
  <2>4. new # NoRow /\ rows'[r.msg] = new
        /\ \A k \in Messages \ {r.msg} : rows'[k] = rows[k]
    BY <1>0, <2>2, <2>3, NoRowAssumption DEF IInv, TypeOK
  <2>5. Sound(r.msg, new)
    <3>1. Mapped(r) = "delivered" => carrier[r.msg] = "delivered"
      BY DEF IInv, ReportsTrue
    <3>2. new.status # "logged"
      BY <1>0, <2>1, <2>3 DEF Sound, Verdicts
    <3> QED BY <2>1, <2>3, <3>1, <3>2 DEF Sound
  <2>6. TypeOK'
    BY <1>0, <2>2, <2>3 DEF IInv, TypeOK
  <2>7. NotYetStored' /\ CutIsDone' /\ Accounted'
    BY <1>0, <2>1, <2>4 DEF IInv, NotYetStored, CutIsDone, Accounted
  <2>8. \A k \in Messages : rows'[k] # NoRow => Sound(k, rows'[k])
    BY <2>4, <2>5 DEF IInv, RowsSound
  <2>9. AnswersSound' /\ RowsSound' /\ ReportsTrue'
    BY <1>0, <2>8 DEF IInv, AnswersSound, RowsSound, ReportsTrue, Sound, Agrees, Mapped
  <2>10. ASSUME NEW q \in acked' \ missed'
         PROVE  /\ rows'[q.msg] # NoRow
                /\ Mapped(q) = "delivered" => rows'[q.msg].status = "delivered"
                /\ Mapped(q) \in {"sent", "failed"} => rows'[q.msg].status # "queued"
    <3>1. CASE q = r
      BY <2>3, <2>4, <3>1
    <3>2. CASE q # r
      <4>1. q \in acked \ missed /\ q.msg \in Messages
        BY <1>0, <2>2, <2>10, <3>2 DEF IInv, TypeOK, Report
      <4>2. /\ rows[q.msg] # NoRow
            /\ Mapped(q) = "delivered" => rows[q.msg].status = "delivered"
            /\ Mapped(q) \in {"sent", "failed"} => rows[q.msg].status # "queued"
        BY <4>1 DEF IInv, AckedFoundRow, AckedIsShown
      <4>3. CASE q.msg = r.msg
        BY <2>3, <2>4, <4>2, <4>3
      <4>4. CASE q.msg # r.msg
        BY <2>4, <4>1, <4>2, <4>4
      <4> QED BY <4>3, <4>4
    <3> QED BY <3>1, <3>2
  <2>11. AckedFoundRow' /\ AckedIsShown'
    BY <2>10 DEF AckedFoundRow, AckedIsShown, Mapped
  <2> QED BY <2>6, <2>7, <2>9, <2>11 DEF IInv
<1> QED BY <1>1, <1>2

\* Every step of a request or task keeps the invariant.
LEMMA SenderKeeps ==
  ASSUME IInv, NEW m \in Messages, MessageStep(m)
  PROVE  IInv'
<1>1. ASSUME CheckHeld(m) \/ StartReply(m) \/ RefuseOverLimit(m) \/ CheckConfig(m)
      PROVE  IInv'
  <2>1. PICK step \in Steps \ {"asked", "insert"} : SenderStep(m, step)
    BY <1>1 DEF CheckHeld, StartReply, RefuseOverLimit, CheckConfig, Steps
  <2>2. sender[m] \notin {"asked", "insert", "done"}
    BY <1>1 DEF CheckHeld, StartReply, RefuseOverLimit, CheckConfig
  <2> QED BY <2>1, <2>2, EarlyStep
<1>2. ASSUME PassLimit(m) \/ Ask(m) \/ Insert(m) \/ Die(m)
      PROVE  IInv'
  BY <1>2, PassStep, AskStep, InsertStep, DieStep
<1>3. ASSUME HearAccepted(m) \/ HearRefusal(m) \/ HearNothing(m)
      PROVE  IInv'
  BY <1>3, HearStep
<1> QED BY <1>1, <1>2, <1>3 DEF MessageStep

\* The initial states satisfy the invariant.
LEMMA InitIInv ==
  ASSUME Init
  PROVE  IInv
<1> USE DEF Init
<1>1. TypeOK
  BY DEF TypeOK, Steps, Carrier
<1>2. NotYetStored /\ AnswersSound /\ RowsSound /\ ReportsTrue
  BY DEF NotYetStored, AnswersSound, RowsSound, ReportsTrue
<1>3. Accounted /\ CutIsDone /\ AckedFoundRow /\ AckedIsShown
  BY DEF Accounted, CutIsDone, AckedFoundRow, AckedIsShown
<1> QED BY <1>1, <1>2, <1>3 DEF IInv

\* Every step keeps the invariant.
LEMMA StepIInv ==
  ASSUME IInv, [Next]_vars
  PROVE  IInv'
<1>0. held \in BOOLEAN /\ configured \in BOOLEAN
  BY DEF IInv, TypeOK
<1>1. ASSUME SwitchNumber \/ SwitchConfig \/ UNCHANGED vars
      PROVE  IInv'
  <2>1. /\ held' \in BOOLEAN /\ configured' \in BOOLEAN
        /\ UNCHANGED <<sender, answer, carrier, rows, reports, acked, cut, overlapped, missed>>
    BY <1>0, <1>1 DEF SwitchNumber, SwitchConfig, vars
  <2> QED BY <2>1, IdleStep
<1>2. ASSUME NEW m \in Messages, MessageStep(m) \/ ProviderStep(m)
      PROVE  IInv'
  BY <1>2, SenderKeeps, ProviderKeeps
<1>3. ASSUME Restart PROVE IInv'
  BY <1>3, DieStep
<1> QED BY <1>1, <1>2, <1>3, ApplyStep DEF Next

\* The inductive invariant holds in every state.
THEOREM Invariance == Spec => []IInv
<1>1. Init => IInv
  BY InitIInv
<1>2. IInv /\ [Next]_vars => IInv'
  BY StepIInv
<1> QED BY <1>1, <1>2, PTL DEF Spec

\* The state is always well typed.
THEOREM TypeCorrect == Spec => []TypeOK
<1>1. IInv => TypeOK
  BY DEF IInv
<1> QED BY <1>1, Invariance, PTL

\* The status and the timestamps of a row never contradict each other, in
\* whatever order its INSERT and its events come (handle_message_event).
THEOREM RowsAgree == Spec => []StampsAgree
<1>1. IInv => StampsAgree
  BY DEF IInv, RowsSound, Sound, Agrees, StampsAgree, Stored
<1> QED BY <1>1, Invariance, PTL

\* No text that Telnyx accepted is without a row or a reason.
THEOREM AcceptedIsAccounted == Spec => []AcceptedAccounted
<1>1. IInv => AcceptedAccounted
  BY DEF IInv, Accounted, AcceptedAccounted, Stored, Outbound, Messages
<1> QED BY <1>1, Invariance, PTL

\* What an event found its row with, the row shows for good.
THEOREM EventsShown == Spec => []AckedIsShown
<1>1. IInv => AckedIsShown
  BY DEF IInv
<1> QED BY <1>1, Invariance, PTL

-----------------------------------------------------------------------------
(* What a step does to the log.                                             *)

\* A step inserts one row, applies one event to a row that is there, or leaves
\* the log alone; and it confirms at most one delivery.
LEMMA LogStep ==
  ASSUME IInv, [Next]_vars
  PROVE  \/ rows' = rows /\ carrier' = carrier
         \/ \E m \in Messages : Insert(m)
         \/ \E r \in reports : Matches(r.msg) /\ Apply(r)
         \/ \E m \in Messages, to \in Carrier :
              /\ rows' = rows /\ carrier' = [carrier EXCEPT ![m] = to]
              /\ carrier[m] # "delivered"
<1>1. ASSUME NEW m \in Messages, Ask(m)
      PROVE  /\ rows' = rows /\ carrier' = [carrier EXCEPT ![m] = "asked"]
             /\ carrier[m] # "delivered" /\ "asked" \in Carrier
  BY <1>1 DEF Ask, IInv, NotYetStored, CutIsDone, Accounted, Carrier
<1>2. ASSUME NEW m \in Messages, MessageStep(m), ~Ask(m), ~Insert(m)
      PROVE  rows' = rows /\ carrier' = carrier
  BY <1>2 DEF MessageStep, CheckHeld, StartReply, RefuseOverLimit, PassLimit, CheckConfig,
              SenderStep, HearAccepted, HearRefusal, HearNothing, Die
<1>3. ASSUME NEW m \in Messages, ProviderStep(m)
      PROVE  \E to \in Carrier : /\ rows' = rows /\ carrier' = [carrier EXCEPT ![m] = to]
                                /\ carrier[m] # "delivered"
  BY <1>3 DEF ProviderStep, TelnyxAccepts, TelnyxRefuses, CarrierTakes, NetworkConfirms,
              NetworkFails, CarrierStep, Carrier
<1>4. ASSUME NEW r \in reports, Apply(r), ~Matches(r.msg)
      PROVE  rows' = rows /\ carrier' = carrier
  BY <1>4 DEF Apply
<1>5. ASSUME SwitchNumber \/ SwitchConfig \/ Restart \/ UNCHANGED vars
      PROVE  rows' = rows /\ carrier' = carrier
  BY <1>5 DEF SwitchNumber, SwitchConfig, Restart, vars
<1> QED BY <1>1, <1>2, <1>3, <1>4, <1>5 DEF Next

\* The event that a step applies: what it makes of its row.
LEMMA AppliedRow ==
  ASSUME IInv, NEW r \in reports, Matches(r.msg), Apply(r)
  PROVE  /\ r.msg \in Messages /\ Mapped(r) \in Verdicts
         /\ rows[r.msg] \in Row /\ rows[r.msg] # NoRow /\ rows[r.msg].id
         /\ Sound(r.msg, rows[r.msg])
         /\ rows'[r.msg] = Applied(rows[r.msg], Mapped(r))
         /\ \A k \in Messages \ {r.msg} : rows'[k] = rows[k]
         /\ carrier' = carrier
BY DEF IInv, TypeOK, Report, RowsSound, Matches, Mapped, Verdicts, Apply

\* The timestamps that a row has are never moved (the COALESCEs).
THEOREM StampsAreKept == Spec => StampsKept
<1> DEFINE Kept == \A m \in Stored :
             /\ rows[m].sentAt # Null => rows'[m].sentAt = rows[m].sentAt
             /\ rows[m].deliveredAt # Null => rows'[m].deliveredAt = rows[m].deliveredAt
<1>1. ASSUME IInv, [Next]_vars PROVE Kept
  <2>1. ASSUME NEW m \in Messages, Insert(m) PROVE Kept
    <3>1. rows[m] = NoRow /\ rows' = [rows EXCEPT ![m] = answer[m]]
      BY <1>1, <2>1 DEF Insert, IInv, NotYetStored
    <3>2. rows \in [Messages -> Row \cup {NoRow}]
      BY <1>1 DEF IInv, TypeOK
    <3>3. \A k \in Stored : k # m /\ rows'[k] = rows[k]
      BY <3>1, <3>2 DEF Stored
    <3> QED BY <3>3
  <2>2. ASSUME NEW r \in reports, Matches(r.msg), Apply(r) PROVE Kept
    <3>1. /\ rows[r.msg].sentAt # Null => rows'[r.msg].sentAt = rows[r.msg].sentAt
          /\ rows[r.msg].deliveredAt # Null => rows'[r.msg].deliveredAt = rows[r.msg].deliveredAt
          /\ \A k \in Messages \ {r.msg} : rows'[k] = rows[k]
      <4>1. /\ Mapped(r) \in Verdicts /\ rows[r.msg] \in Row /\ Agrees(rows[r.msg])
            /\ rows'[r.msg] = Applied(rows[r.msg], Mapped(r))
            /\ \A k \in Messages \ {r.msg} : rows'[k] = rows[k]
        BY <1>1, <2>2, AppliedRow DEF Sound
      <4> QED BY <4>1, AppliedKeeps
    <3> QED BY <3>1 DEF Stored
  <2> QED BY <1>1, <2>1, <2>2, LogStep
<1>2. IInv /\ [Next]_vars => [Kept]_vars
  BY <1>1
<1> QED BY <1>2, Invariance, PTL DEF Spec, StampsKept

-----------------------------------------------------------------------------
(* The log implements MessageLifecycle.                                     *)

\* The initial log is the empty one.
LEMMA LifecycleStart == Init => Lifecycle!LifecycleInit
BY DEF Init, Lifecycle!LifecycleInit

\* The row of one message is all that Appear and Move change.
LEMMA ShownMoves ==
  ASSUME IInv, NEW m \in Messages, NEW row \in Row,
         rows' = [rows EXCEPT ![m] = row]
  PROVE  [k \in Messages |-> IF rows'[k] = NoRow THEN "none" ELSE rows'[k].status]
         = [[k \in Messages |-> IF rows[k] = NoRow THEN "none" ELSE rows[k].status]
              EXCEPT ![m] = row.status]
<1>1. row # NoRow
  BY NoRowAssumption
<1>2. rows \in [Messages -> Row \cup {NoRow}]
  BY DEF IInv, TypeOK
<1>3. rows'[m] = row /\ \A k \in Messages \ {m} : rows'[k] = rows[k]
  BY <1>2
<1> DEFINE Shows(table) == [k \in Messages |-> IF table[k] = NoRow THEN "none" ELSE table[k].status]
<1>4. \A k \in Messages : Shows(rows')[k] = [Shows(rows) EXCEPT ![m] = row.status][k]
  BY <1>1, <1>3
<1>5. Shows(rows') = [Shows(rows) EXCEPT ![m] = row.status]
  <2>1. [Shows(rows) EXCEPT ![m] = row.status]
        = [k \in Messages |-> [Shows(rows) EXCEPT ![m] = row.status][k]]
    OBVIOUS
  <2>2. Shows(rows') = [k \in Messages |-> Shows(rows')[k]]
    OBVIOUS
  <2> QED BY <1>4, <2>1, <2>2
<1> QED BY <1>5

\* Every step of the log is a step of the lifecycle, or none: the INSERT is
\* Appear, an event applied is Move, a confirmation is Confirm.
LEMMA LifecycleStep ==
  ASSUME IInv, [Next]_vars
  PROVE  [Lifecycle!LifecycleNext]_<<[m \in Messages |-> IF rows[m] = NoRow THEN "none"
                                                      ELSE rows[m].status],
                                    {m \in Messages : carrier[m] = "delivered"}>>
<1> DEFINE Status == [m \in Messages |-> IF rows[m] = NoRow THEN "none" ELSE rows[m].status]
           Reached == {m \in Messages : carrier[m] = "delivered"}
           Goal == Lifecycle!LifecycleNext \/ (Status' = Status /\ Reached' = Reached)
<1>0. ASSUME NEW m \in Messages, NEW s \in Lifecycle!Shown,
             Lifecycle!Appear(m, s) \/ Lifecycle!Move(m, s)
      PROVE  Lifecycle!LifecycleNext
  BY <1>0 DEF Lifecycle!LifecycleNext
<1>1. ASSUME rows' = rows, carrier' = carrier PROVE Goal
  BY <1>1
<1>2. ASSUME NEW m \in Messages, Insert(m) PROVE Goal
  <2>1. /\ rows' = [rows EXCEPT ![m] = answer[m]] /\ carrier' = carrier
        /\ rows[m] = NoRow /\ answer[m] \in Row
        /\ answer[m].status = "delivered" => carrier[m] = "delivered"
    BY <1>2 DEF Insert, IInv, TypeOK, NotYetStored, AnswersSound, Sound
  <2> PICK s : s = answer[m].status
    OBVIOUS
  <2>2. Status' = [Status EXCEPT ![m] = s]
    BY <2>1, ShownMoves
  <2>3. s \in Lifecycle!Shown \ {"none"}
    BY <2>1 DEF Row, Lifecycle!Shown
  <2>4. Lifecycle!Appear(m, s)
    BY <2>1, <2>2, <2>3 DEF Lifecycle!Appear
  <2>5. Lifecycle!LifecycleNext
    BY <1>0, <2>3, <2>4
  <2> QED BY <2>5
<1>3. ASSUME NEW r \in reports, Matches(r.msg), Apply(r) PROVE Goal
  <2> DEFINE m == r.msg
             row == Applied(rows[m], Mapped(r))
  <2>1. /\ m \in Messages /\ Mapped(r) \in Verdicts /\ rows[m] \in Row /\ rows[m] # NoRow
        /\ rows[m].id /\ Sound(m, rows[m]) /\ carrier' = carrier
    BY <1>3, AppliedRow
  <2>2. /\ row \in Row /\ row.status \in {rows[m].status, Mapped(r)}
        /\ rows[m].status = "delivered" => row.status = "delivered"
        /\ row.status = "queued" => rows[m].status = "queued"
    BY <2>1, AppliedKeeps DEF Sound
  <2>3. rows' = [rows EXCEPT ![m] = row]
    BY <1>3 DEF Apply
  <2>4. Status' = [Status EXCEPT ![m] = row.status] /\ Status[m] = rows[m].status
    <3> HIDE DEF row
    <3> QED BY <2>1, <2>2, <2>3, ShownMoves
  <2>5. CASE row.status = rows[m].status
    BY <2>1, <2>4, <2>5
  <2>6. CASE row.status # rows[m].status
    <3>1. row.status = Mapped(r) /\ rows[m].status \in {"queued", "sent", "failed"}
      BY <2>1, <2>2, <2>6 DEF Row, Sound
    <3>2. row.status \in {"sent", "failed", "delivered"}
      BY <2>1, <2>2, <2>6, <3>1 DEF Verdicts, Row
    <3>3. row.status = "delivered" => m \in Reached
      BY <1>3, <2>1, <3>1 DEF IInv, ReportsTrue
    <3>4. Lifecycle!Move(m, Mapped(r))
      BY <2>1, <2>4, <3>1, <3>2, <3>3 DEF Lifecycle!Move
    <3>5. Mapped(r) \in Lifecycle!Shown
      BY <3>1, <3>2 DEF Lifecycle!Shown
    <3>6. Lifecycle!LifecycleNext
      BY <1>0, <2>1, <3>4, <3>5
    <3> QED BY <3>6
  <2> QED BY <2>5, <2>6
<1>4. ASSUME NEW m \in Messages, NEW to \in Carrier, rows' = rows,
             carrier' = [carrier EXCEPT ![m] = to], carrier[m] # "delivered"
      PROVE  Goal
  <2>1. carrier \in [Messages -> Carrier] /\ Status' = Status
    BY <1>4 DEF IInv, TypeOK
  <2>2. CASE to = "delivered"
    <3>1. Reached' = Reached \cup {m}
      BY <1>4, <2>1, <2>2
    <3>2. Lifecycle!Confirm(m)
      BY <2>1, <3>1 DEF Lifecycle!Confirm
    <3> QED BY <3>2 DEF Lifecycle!LifecycleNext
  <2>3. CASE to # "delivered"
    <3>1. Reached' = Reached
      BY <1>4, <2>1, <2>3
    <3> QED BY <2>1, <3>1
  <2> QED BY <2>2, <2>3
<1> HIDE DEF Goal
<1>5. Goal
  BY <1>1, <1>2, <1>3, <1>4, LogStep
<1> QED BY <1>5 DEF Goal

\* The Messages log moves only as handle_message_event documents: every
\* behaviour of the sender, the carrier and the events maps to one of
\* MessageLifecycle.
THEOREM ImplementsLifecycle == Spec => KeepsLifecycle
<1>1. Init => Lifecycle!LifecycleInit
  BY LifecycleStart
<1>2. IInv /\ [Next]_vars
      => [Lifecycle!LifecycleNext]_<<[m \in Messages |-> IF rows[m] = NoRow THEN "none"
                                                      ELSE rows[m].status],
                                    {m \in Messages : carrier[m] = "delivered"}>>
  BY LifecycleStep
<1> QED BY <1>1, <1>2, Invariance, PTL DEF Spec, KeepsLifecycle, Lifecycle!LifecycleSpec

-----------------------------------------------------------------------------
(* The plan's limit.                                                        *)

\* The stored messages of the console: what create_message is limited to.
Kept == Stored \cap Gated

\* While no send was let through beside another, one at most is between the
\* count and its row, and there is room for it.
Room ==
  Limit >= 0 /\ ~overlapped =>
    /\ Cardinality(Kept) <= Limit
    /\ \A m \in Messages : UnderWay(m) => Cardinality(Kept) + 1 <= Limit
    /\ \A m, k \in Messages : UnderWay(m) /\ UnderWay(k) => m = k

\* The counts are those of finite sets.
LEMMA Counts ==
  /\ IsFiniteSet(Stored) /\ IsFiniteSet(Kept)
  /\ Cardinality(Stored) \in Nat /\ Cardinality(Kept) \in Nat
  /\ Cardinality(Kept) <= Cardinality(Stored)
<1>1. Stored \subseteq Messages /\ Kept \subseteq Stored
  BY DEF Stored, Kept
<1>2. IsFiniteSet(Stored)
  BY <1>1, FiniteAssumption, FS_Subset
<1> QED BY <1>1, <1>2, FS_Subset, FS_CardinalityType

\* A step that lets no send through and stores none of the console's.
LEMMA CalmStep ==
  ASSUME Room, Kept' = Kept, overlapped' = overlapped,
         \A k \in Messages : UnderWay(k)' => UnderWay(k)
  PROVE  Room'
BY DEF Room

\* create_message counts the stored messages and lets one through.
LEMMA LetThrough ==
  ASSUME IInv, Room, NEW m \in Messages, PassLimit(m)
  PROVE  Room'
<1>1. Kept' = Kept /\ ~LimitReached
  BY DEF PassLimit, Kept, Stored
<1>2. \A k \in Messages \ {m} : UnderWay(k)' => UnderWay(k)
  BY DEF PassLimit, Goto, IInv, TypeOK, UnderWay
<1>3. ~overlapped' => \A k \in Messages \ {m} : ~UnderWay(k)
  BY DEF PassLimit
<1> SUFFICES ASSUME Limit >= 0, ~overlapped'
    PROVE  /\ Cardinality(Kept) + 1 <= Limit
           /\ \A k \in Messages : UnderWay(k)' => k = m
  BY <1>1, Counts, LimitAssumption DEF Room
<1>4. Cardinality(Stored) + 1 <= Limit
  BY <1>1, Counts, LimitAssumption DEF LimitReached
<1>5. Cardinality(Kept) + 1 <= Limit
  BY <1>4, Counts, LimitAssumption
<1>6. \A k \in Messages : UnderWay(k)' => k = m
  BY <1>2, <1>3
<1> QED BY <1>5, <1>6

\* create_message stores its message: it had room, and no other is under way.
LEMMA StoreOne ==
  ASSUME IInv, Room, NEW m \in Gated, Insert(m)
  PROVE  Room'
<1>1. m \in Messages /\ UnderWay(m) /\ overlapped' = overlapped
  BY DEF Insert, UnderWay, Gated, Messages
<1>2. \A k \in Messages : UnderWay(k)' => UnderWay(k) /\ k # m
  BY <1>1 DEF Insert, Goto, IInv, TypeOK, UnderWay
<1>3. Kept' = Kept \cup {m} /\ m \notin Kept
  <2>1. rows[m] = NoRow /\ answer[m] # NoRow
    BY <1>1 DEF IInv, NotYetStored, AnswersSound, Insert
  <2>2. rows' = [rows EXCEPT ![m] = answer[m]] /\ rows \in [Messages -> Row \cup {NoRow}]
    BY DEF Insert, IInv, TypeOK
  <2>3. Stored' = Stored \cup {m} /\ m \notin Stored
    BY <1>1, <2>1, <2>2 DEF Stored
  <2>4. Kept' = Stored' \cap Gated
    BY DEF Kept
  <2> QED BY <2>3, <2>4 DEF Kept
<1>4. Cardinality(Kept') = Cardinality(Kept) + 1
  BY <1>3, Counts, FS_AddElement
<1>5. ASSUME Limit >= 0, ~overlapped
      PROVE  /\ Cardinality(Kept) + 1 <= Limit
             /\ \A k \in Messages : ~UnderWay(k)'
  BY <1>1, <1>2, <1>5 DEF Room
<1> QED BY <1>1, <1>4, <1>5 DEF Room

\* Every step keeps the room.
LEMMA RoomStep ==
  ASSUME IInv, Room, [Next]_vars
  PROVE  Room'
<1>1. ASSUME NEW m \in Messages, MessageStep(m), ~PassLimit(m), ~(m \in Gated /\ Insert(m))
      PROVE  Room'
  <2>1. overlapped' = overlapped
    BY <1>1 DEF MessageStep, CheckHeld, StartReply, RefuseOverLimit, CheckConfig, SenderStep,
                Ask, HearAccepted, HearRefusal, HearNothing, Insert, Die
  <2>2. \A k \in Messages : UnderWay(k)' => UnderWay(k)
    BY <1>1, KindAssumption
       DEF MessageStep, CheckHeld, StartReply, RefuseOverLimit, CheckConfig, SenderStep, Ask,
           HearAccepted, HearRefusal, HearNothing, Insert, Die, Goto, Conclude, UnderWay, IInv,
           TypeOK, Gated
  <2>3. Kept' = Kept
    <3>1. CASE rows' = rows
      BY <3>1 DEF Kept, Stored
    <3>2. CASE Insert(m) /\ m \notin Gated
      <4>1. \A k \in Gated : k \in Messages /\ rows'[k] = rows[k]
        BY <3>2 DEF Insert, IInv, TypeOK, Gated, Messages
      <4> QED BY <4>1 DEF Kept, Stored
    <3> QED BY <1>1, <3>1, <3>2
            DEF MessageStep, CheckHeld, StartReply, RefuseOverLimit, CheckConfig, SenderStep,
                Ask, HearAccepted, HearRefusal, HearNothing, Die
  <2> QED BY <2>1, <2>2, <2>3, CalmStep
<1>2. ASSUME NEW m \in Messages, ProviderStep(m)
      PROVE  Room'
  <2>1. UNCHANGED <<rows, sender, overlapped>>
    BY <1>2 DEF ProviderStep, TelnyxAccepts, TelnyxRefuses, CarrierTakes, NetworkConfirms,
                NetworkFails, CarrierStep
  <2> QED BY <2>1, CalmStep DEF Kept, Stored, UnderWay
<1>3. ASSUME NEW r \in reports, Apply(r)
      PROVE  Room'
  <2>1. UNCHANGED <<sender, overlapped>>
    BY <1>3 DEF Apply
  <2>2. \A k \in Messages : rows'[k] = NoRow <=> rows[k] = NoRow
    <3>1. CASE Matches(r.msg)
      <4>1. /\ Mapped(r) \in Verdicts /\ rows[r.msg] \in Row /\ Agrees(rows[r.msg])
            /\ rows[r.msg] # NoRow /\ rows'[r.msg] = Applied(rows[r.msg], Mapped(r))
            /\ \A k \in Messages \ {r.msg} : rows'[k] = rows[k]
        BY <1>3, <3>1, AppliedRow DEF Sound
      <4>2. rows'[r.msg] \in Row
        BY <4>1, AppliedKeeps
      <4> QED BY <4>1, <4>2, NoRowAssumption
    <3>2. CASE ~Matches(r.msg)
      BY <1>3, <3>2 DEF Apply
    <3> QED BY <3>1, <3>2
  <2>3. Kept' = Kept
    BY <2>2 DEF Kept, Stored
  <2> QED BY <2>1, <2>3, CalmStep DEF UnderWay
<1>4. ASSUME SwitchNumber \/ SwitchConfig \/ UNCHANGED vars
      PROVE  Room'
  BY <1>4, CalmStep DEF SwitchNumber, SwitchConfig, vars, Kept, Stored, UnderWay
<1>5. ASSUME Restart
      PROVE  Room'
  <2>1. UNCHANGED <<rows, overlapped>>
    BY <1>5 DEF Restart
  <2>2. \A k \in Messages : UnderWay(k)' => UnderWay(k)
    BY <1>5 DEF Restart, UnderWay, IInv, TypeOK
  <2> QED BY <2>1, <2>2, CalmStep DEF Kept, Stored
<1> QED BY <1>1, <1>2, <1>3, <1>4, <1>5, LetThrough, StoreOne DEF Next

\* The messages of the console keep to max_messages as long as no two of them
\* are between enforce_feature_limit's count and their rows at once.
THEOREM LimitIsHeld == Spec => []LimitHeldUnlessOverlapped
<1>1. Init => Room
  <2>1. ASSUME Init PROVE Kept = {} /\ \A m \in Messages : ~UnderWay(m)
    BY <2>1 DEF Init, Kept, Stored, UnderWay
  <2> QED BY <2>1, FS_EmptySet, LimitAssumption DEF Room
<1>2. IInv /\ Room /\ [Next]_vars => Room'
  BY RoomStep
<1>3. Room => LimitHeldUnlessOverlapped
  BY DEF Room, LimitHeldUnlessOverlapped, Kept
<1> QED BY <1>1, <1>2, <1>3, Invariance, PTL DEF Spec
=============================================================================
