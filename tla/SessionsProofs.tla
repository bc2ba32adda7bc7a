---------------------------- MODULE SessionsProofs ----------------------------
(***************************************************************************)
(* What the run sessions checks on three requests, proved for every number *)
(* of requests, every bound of the clock and (CallerStaysIn aside) every   *)
(* skew between the database's clock and the server's, either being ahead. *)
(*                                                                         *)
(* None of the properties is inductive: they speak of rows and tokens, and *)
(* the next one is written from what a request has read some statements    *)
(* before. The invariant says of every request in flight what it holds.    *)
(***************************************************************************)
EXTENDS Sessions, FiniteSetTheorems, TLAPS

\* The routes of the middleware, whose request came with a token.
TokenKinds == {"call", "change", "logout", "initial"}

\* Which statement a request of which kind can be at.
PlacedAt(step) ==
  CASE step = "tenant" -> TokenKinds \cup {"login"}
    [] step = "in"     -> TokenKinds
    [] step = "write"  -> {"change", "logout", "initial", "reset"}
    [] step = "mint"   -> {"change", "logout", "login"}
    [] step \in {"retire", "insert"} -> {"forgot"}
    [] step = "mark"   -> {"reset"}
    [] step = "revoke" -> {"suspend"}
    [] step \in {"start", "done"} -> Kinds
    [] OTHER -> {}

Placed ==
  /\ at[Door] \in {"latch", "mint", "claim", "done"}
  /\ kind[Door] = "call"
  /\ \A r \in Requests : kind[r] \in PlacedAt(at[r])

\* A request with a token holds one that was minted; a reset holds a code.
Carried ==
  \A r \in Requests :
    /\ at[r] \in {"tenant", "in", "write", "mint"} /\ kind[r] \in TokenKinds
         => tokens[session[r]] # NoToken
    /\ at[r] \in {"write", "mark"} /\ kind[r] = "reset" => code[r] \in Requests

\* Minting is the last thing a request does.
MintedLast == \A i \in Makers : tokens[i] # NoToken => at[i] = "done"

\* The line is of no later second than the database shows, and a token of no later
\* one than either clock does.
NothingAhead ==
  /\ line <= DbNow
  /\ \A i \in Makers : tokens[i] # NoToken => tokens[i].iat <= DbNow \/ tokens[i].iat <= ServerNow
  /\ \A i \in Makers : at[i] = "mint" /\ kind[i] = "change" => seen[i] <= DbNow

\* What a request in flight rests on is the current password, or it is excused:
\* the password it just set or a sign-in proved, the session it came with.
RestsFor(r) ==
  /\ at[r] = "mint" /\ kind[r] = "change" => password = r \/ r \in excused
  /\ at[r] \in {"tenant", "mint"} /\ kind[r] = "login" => session[r] = password \/ r \in excused
  /\ at[r] = "tenant" /\ kind[r] \in TokenKinds /\ tokens[session[r]].iat >= seen[r]
       => tokens[session[r]].knew = password \/ r \in excused
  /\ at[r] \in {"in", "write", "mint"} /\ kind[r] = "logout"
       => tokens[session[r]].knew = password \/ r \in excused

\* So for every request, and for the sign-up that has not minted.
RestsOnCurrent ==
  /\ at[Door] # "done" => password = Door \/ Door \in excused
  /\ \A r \in Requests : RestsFor(r)

\* Whoever moved the line last and changed the password mints by that line.
ChangerMintsByLine ==
  \A r \in Requests :
    lineBy = r /\ kind[r] = "change" /\ at[r] = "mint" => seen[r] = line

\* change_password's half of CallerStaysIn, which no skew disturbs.
ChangerStaysIn ==
  \A r \in Requests : lineBy = r /\ kind[r] = "change" /\ tokens[r] # NoToken => tokens[r].iat >= line

\* logout_all's half: the token lags behind the line by the skew at most.
LogoutLagsBySkew ==
  \A r \in Requests :
    lineBy = r /\ kind[r] = "logout" /\ tokens[r] # NoToken => tokens[r].iat + DbAhead >= line + ServerAhead

\* A request past the check of code c, before and after it has set the password.
Resets(r, c) == kind[r] = "reset" /\ code[r] = c
Holds(r, c) == Resets(r, c) /\ at[r] \in {"write", "mark"}

\* Of a code that is not in doubt one request at most is past the check, what it
\* set with it is the only thing ever set, and until it is marked that request
\* stands at the mark.
CodesTracked ==
  /\ \A c \in Requests : at[c] # "done" => codes[c] = "none"
  /\ \A c \in Requests : codes[c] = "none" => redeemed[c] = {}
  /\ \A r, c \in Requests : Holds(r, c) => codes[c] # "none"
  /\ \A c \in Requests \ doubtful :
       /\ \A r, k \in Requests : Holds(r, c) /\ Holds(k, c) => r = k
       /\ \A r \in Requests : Holds(r, c) /\ at[r] = "write" => redeemed[c] = {}
       /\ \A r, k \in redeemed[c] : r = k
       /\ redeemed[c] # {} /\ codes[c] = "live" => \E r \in Requests : Holds(r, c) /\ at[r] = "mark"

\* Unless crowded, one request at a time issues a code, and when it inserts it
\* there is no other.
OneIssuer ==
  ~crowded =>
    /\ \A r, k \in Requests : at[r] \in {"retire", "insert"} /\ at[k] \in {"retire", "insert"} => r = k
    /\ \A r \in Requests : at[r] = "insert" => \A c \in Requests : codes[c] # "live"

\* The latch opens once, before the one token that may use it is minted.
LatchOpensOnce ==
  /\ \A i \in Makers : tokens[i] # NoToken /\ tokens[i].minted => at[Door] = "done"
  /\ \A r \in Requests : at[r] = "write" /\ kind[r] = "initial" => at[Door] = "done"
  /\ chosen # {} => at[Door] = "done" /\ ~undelivered

\* Who is barred came while the workspace was shut, and it still is.
BarredWhileShut == barred # {} => Shut

\* The inductive invariant.
IInv ==
  /\ TypeOK
  /\ Placed /\ Carried /\ MintedLast
  /\ NothingAhead /\ RestsOnCurrent /\ SessionEndsWithPassword
  /\ ChangerMintsByLine /\ ChangerStaysIn /\ LogoutLagsBySkew
  /\ CodesTracked
  /\ OneIssuer /\ OneLiveCode
  /\ LatchOpensOnce /\ FirstPasswordOnce
  /\ BarredWhileShut /\ SuspendedIsShut

-----------------------------------------------------------------------------
(* Types.                                                                   *)

\* The steps that write the account's password, under their common statement.
LEMMA PasswordTypes ==
  ASSUME TypeOK, NEW r \in Requests, SetPassword(r)
  PROVE  /\ password' \in Makers /\ undelivered' \in BOOLEAN
         /\ line' \in 0..(MaxTime + DbAhead) /\ lineBy' \in Makers
         /\ excused' \subseteq Makers
<1>1. DbNow \in 0..(MaxTime + DbAhead) /\ r \in Makers
  BY ClockAssumption DEF TypeOK, DbNow, Makers
<1>2. CASE exists
  BY <1>1, <1>2 DEF TypeOK, SetPassword, MoveLine, InFlight, PastLine
<1>3. CASE ~exists
  BY <1>3 DEF TypeOK, SetPassword
<1> QED BY <1>2, <1>3

\* A minted token is one.
LEMMA MintTypes ==
  ASSUME TypeOK, NEW i \in Makers, NEW iat \in Nat, NEW minted \in BOOLEAN, NEW knew \in Makers,
         Mint(i, iat, minted, knew)
  PROVE  tokens' \in [Makers -> Token \cup {NoToken}]
BY DEF TypeOK, Mint, Token

\* Every step keeps the state well typed.
LEMMA TypeStep ==
  ASSUME IInv, [Next]_vars
  PROVE  TypeOK'
<1> USE ClockAssumption, DoorAssumption DEF row, request, history, Makers, Steps, Kinds, Goto
<1>0. TypeOK /\ Placed /\ Carried
  BY DEF IInv
<1>1. ASSUME Tick PROVE TypeOK'
  BY <1>0, <1>1 DEF TypeOK, Tick
<1>2. ASSUME DoorDelivered \/ DoorLatch PROVE TypeOK'
  BY <1>0, <1>2 DEF TypeOK, DoorDelivered, DoorLatch
<1>3. ASSUME DoorMint PROVE TypeOK'
  <2>1. tokens' \in [Makers -> Token \cup {NoToken}]
    BY <1>0, <1>3 DEF DoorMint, Mint, ServerNow, TypeOK, Token
  <2> QED BY <1>0, <1>3, <2>1 DEF TypeOK, DoorMint
<1>4. ASSUME NEW i \in Makers, Die(i) PROVE TypeOK'
  <2>1. doubtful' \subseteq Requests
    BY <1>0, <1>4 DEF Die, TypeOK, Placed, Carried, PlacedAt
  <2> QED BY <1>0, <1>4, <2>1 DEF TypeOK, Die
<1>5. ASSUME NEW c \in Requests, Expire(c) PROVE TypeOK'
  BY <1>0, <1>5 DEF TypeOK, Expire
<1>6. ASSUME NEW r \in Requests, NEW k \in {"call", "change", "logout", "initial"}, NEW t \in Makers, Enter(r, k, t)
      PROVE  TypeOK'
  BY <1>0, <1>6 DEF TypeOK, Enter
<1>7. ASSUME NEW r \in Requests, Login(r) PROVE TypeOK'
  BY <1>0, <1>7 DEF TypeOK, Login
<1>20. ASSUME NEW r \in Requests, Suspend(r) PROVE TypeOK'
  BY <1>0, <1>20 DEF TypeOK, Suspend
<1>21. ASSUME NEW r \in Requests, Reopen(r) PROVE TypeOK'
  BY <1>0, <1>21 DEF TypeOK, Reopen
<1>22. ASSUME NEW r \in Requests, DeleteTenant(r) PROVE TypeOK'
  BY <1>0, <1>22 DEF TypeOK, DeleteTenant
<1>18. ASSUME NEW r \in Requests, Forgot(r) PROVE TypeOK'
  <2>1. crowded' \in BOOLEAN
    BY <1>18 DEF Forgot
  <2>2. UNCHANGED <<now, row, open, codes, session, seen, code, tokens, excused, lineBy, redeemed,
                    doubtful, chosen, barred>>
        /\ kind' = [kind EXCEPT ![r] = "forgot"] /\ at' = [at EXCEPT ![r] = "retire"]
    BY <1>18 DEF Forgot
  <2> QED BY <1>0, <2>1, <2>2 DEF TypeOK
<1>8. ASSUME NEW r \in Requests, NEW c \in Requests, Reset(r, c) PROVE TypeOK'
  BY <1>0, <1>8 DEF TypeOK, Reset
<1>9. ASSUME NEW r \in Requests, Pass(r) \/ Served(r) \/ Ready(r) \/ LoginTenant(r) PROVE TypeOK'
  BY <1>0, <1>9 DEF TypeOK, Pass, Served, Ready, LoginTenant
<1>10. ASSUME NEW r \in Requests, Reissue(r) PROVE TypeOK'
  BY <1>0, <1>10, PasswordTypes DEF TypeOK, Reissue
<1>11. ASSUME NEW r \in Requests, Change(r) PROVE TypeOK'
  BY <1>0, <1>11, PasswordTypes DEF TypeOK, Change, DbNow
<1>12. ASSUME NEW r \in Requests, Choose(r) PROVE TypeOK'
  BY <1>0, <1>12, PasswordTypes DEF TypeOK, Choose
<1>13. ASSUME NEW r \in Requests, ResetWrite(r) PROVE TypeOK'
  BY <1>0, <1>13, PasswordTypes DEF TypeOK, ResetWrite
<1>14. ASSUME NEW r \in Requests, Logout(r) \/ Revoke(r) PROVE TypeOK'
  BY <1>0, <1>14 DEF TypeOK, Logout, Revoke, MoveLine, DbNow
<1>15. ASSUME NEW r \in Requests, ChangeMint(r) \/ LogoutMint(r) \/ LoginMint(r) PROVE TypeOK'
  <2>1. seen[r] \in Nat /\ ServerNow \in Nat /\ session[r] \in Makers
    BY <1>0 DEF TypeOK, ServerNow
  <2>2. LogoutMint(r) => tokens[session[r]].knew \in Makers
    BY <1>0, <2>1 DEF TypeOK, LogoutMint, Carried, TokenKinds, Token
  <2>3. tokens' \in [Makers -> Token \cup {NoToken}]
    BY <1>0, <1>15, <2>1, <2>2, MintTypes DEF ChangeMint, LogoutMint, LoginMint
  <2>4. UNCHANGED <<now, row, open, codes, kind, session, seen, code, history>>
        /\ at' = [at EXCEPT ![r] = "done"]
    BY <1>15 DEF ChangeMint, LogoutMint, LoginMint
  <2> QED BY <1>0, <2>3, <2>4 DEF TypeOK
<1>16. ASSUME NEW r \in Requests, Insert(r) \/ ResetMark(r) PROVE TypeOK'
  BY <1>0, <1>16 DEF TypeOK, Insert, ResetMark
<1>19. ASSUME NEW r \in Requests, Retire(r) PROVE TypeOK'
  <2>1. codes' \in [Requests -> {"none", "live", "used"}] /\ crowded' \in BOOLEAN
    BY <1>0, <1>19 DEF TypeOK, Retire
  <2> QED BY <1>0, <1>19, <2>1 DEF TypeOK, Retire
<1>17. ASSUME UNCHANGED vars PROVE TypeOK'
  BY <1>0, <1>17 DEF TypeOK, vars
<1> QED
  BY <1>1, <1>2, <1>3, <1>4, <1>5, <1>6, <1>7, <1>8, <1>9, <1>10, <1>11, <1>12, <1>13, <1>14, <1>15, <1>16,
     <1>17, <1>18, <1>19, <1>20, <1>21, <1>22 DEF Next, Arrive, Proceed

-----------------------------------------------------------------------------
(* Whose step it is.                                                        *)

\* The steps of request r.
StepOf(r) == Arrive(r) \/ Proceed(r) \/ Die(r)

\* A request's step leaves the others where they are, and everything of theirs.
LEMMA RequestsKeepApart ==
  ASSUME TypeOK, NEW r \in Requests, StepOf(r)
  PROVE  /\ now' = now
         /\ \A i \in Makers \ {r} :
              /\ at'[i] = at[i] /\ kind'[i] = kind[i] /\ session'[i] = session[i]
              /\ seen'[i] = seen[i] /\ code'[i] = code[i] /\ tokens'[i] = tokens[i]
<1> USE DEF TypeOK, row, request, history, Goto, Makers
<1>1. ASSUME NEW k \in {"call", "change", "logout", "initial"}, NEW t \in Makers, Enter(r, k, t)
      PROVE  \A i \in Makers \ {r} : at'[i] = at[i] /\ kind'[i] = kind[i] /\ session'[i] = session[i]
                                     /\ seen'[i] = seen[i] /\ code'[i] = code[i] /\ tokens'[i] = tokens[i]
  BY <1>1 DEF Enter
<1>2. CASE \E c \in Requests : Reset(r, c)
  BY <1>2 DEF Reset
<1>3. CASE Login(r) \/ Forgot(r) \/ Reissue(r) \/ Suspend(r) \/ Reopen(r) \/ DeleteTenant(r)
  BY <1>3 DEF Login, Forgot, Reissue, Suspend, Reopen, DeleteTenant
<1>4. CASE Pass(r) \/ Served(r) \/ Ready(r) \/ LoginTenant(r) \/ Logout(r) \/ Revoke(r) \/ Retire(r) \/ Insert(r)
           \/ ResetMark(r) \/ Die(r)
  BY <1>4 DEF Pass, Served, Ready, LoginTenant, Logout, Revoke, Retire, Insert, ResetMark, Die
<1>5. CASE Change(r) \/ Choose(r) \/ ResetWrite(r)
  BY <1>5 DEF Change, Choose, ResetWrite
<1>6. CASE ChangeMint(r) \/ LogoutMint(r) \/ LoginMint(r)
  BY <1>6 DEF ChangeMint, LogoutMint, LoginMint, Mint
<1>7. now' = now
  BY DEF StepOf, Arrive, Proceed, Die, Enter, Login, Forgot, Reset, Reissue, Suspend, Reopen, DeleteTenant,
         Pass, Served, Ready, Change, ChangeMint, Logout, LogoutMint, Choose, LoginTenant, LoginMint, Retire,
         Insert, ResetWrite, ResetMark, Revoke
<1> QED
  BY <1>1, <1>2, <1>3, <1>4, <1>5, <1>6, <1>7 DEF StepOf, Arrive, Proceed

\* What is no request's step: the clock, a code's age, the sign-up.
DoorStep == DoorDelivered \/ DoorLatch \/ DoorMint \/ Die(Door)
Passive  == Tick \/ (\E c \in Requests : Expire(c)) \/ UNCHANGED vars

\* A step is a request's, the sign-up's, or nobody's.
LEMMA StepKinds ==
  ASSUME [Next]_vars
  PROVE  (\E r \in Requests : StepOf(r)) \/ DoorStep \/ Passive
BY DEF Next, StepOf, DoorStep, Passive, Makers

\* Nobody's step touches only the clock and the codes.
LEMMA PassiveSteps ==
  ASSUME Passive
  PROVE  UNCHANGED <<exists, password, line, undelivered, open, kind, at, session, seen, code, tokens,
                     excused, lineBy, redeemed, doubtful, crowded, chosen, barred>>
BY DEF Passive, Tick, Expire, vars, row, request, history

\* The sign-up's step touches the latch, its place and its token.
LEMMA DoorSteps ==
  ASSUME TypeOK, Placed, DoorStep
  PROVE  /\ UNCHANGED <<now, exists, password, line, open, codes, kind, session, seen, code,
                        excused, lineBy, redeemed, doubtful, crowded, chosen, barred>>
         /\ at[Door] # "done" /\ at'[Door] \in {"mint", "claim", "done"}
         /\ \A r \in Requests : at'[r] = at[r] /\ tokens'[r] = tokens[r]
         /\ \/ tokens'[Door] = tokens[Door]
            \/ /\ tokens'[Door] = [iat |-> ServerNow, minted |-> at[Door] = "claim", knew |-> Door]
               /\ at'[Door] = "done"
         /\ undelivered' = undelivered \/ at[Door] = "latch"
<1> USE DoorAssumption DEF TypeOK, row, request, history, Goto, Makers
<1>1. CASE DoorDelivered \/ DoorLatch
  BY <1>1 DEF DoorDelivered, DoorLatch
<1>2. CASE DoorMint
  BY <1>2 DEF DoorMint, Mint
<1>3. CASE Die(Door)
  BY <1>3 DEF Die, Placed
<1> QED BY <1>1, <1>2, <1>3 DEF DoorStep

-----------------------------------------------------------------------------
(* Where requests stand, and what they hold there.                          *)

\* Every request is at a statement of its handler.
LEMMA PlacedStep ==
  ASSUME IInv, [Next]_vars
  PROVE  Placed'
<1>0. TypeOK /\ Placed
  BY DEF IInv
<1>1. CASE Passive
  BY <1>0, <1>1, PassiveSteps DEF Placed
<1>2. CASE DoorStep
  BY <1>0, <1>2, DoorSteps DEF Placed
<1>3. ASSUME NEW r \in Requests, StepOf(r) PROVE Placed'
  <2> USE <1>0 DEF TypeOK, Placed, PlacedAt, TokenKinds, Goto, Makers
  <2>1. at'[Door] = at[Door] /\ kind'[Door] = kind[Door]
        /\ \A k \in Requests \ {r} : at'[k] = at[k] /\ kind'[k] = kind[k]
    BY <1>3, RequestsKeepApart, DoorAssumption
  <2>2. kind'[r] \in PlacedAt(at'[r])
    <3>1. CASE (\E c \in Requests : Reset(r, c)) \/ Login(r) \/ Forgot(r) \/ Suspend(r)
      BY <3>1 DEF Reset, Login, Forgot, Suspend, Kinds
    <3>2. CASE \E k \in {"call", "change", "logout", "initial"}, t \in Makers : Enter(r, k, t)
      BY <3>2 DEF Enter, Kinds
    <3>3. CASE Reissue(r) \/ Reopen(r) \/ DeleteTenant(r) \/ Die(r)
      BY <3>3 DEF Reissue, Reopen, DeleteTenant, Die
    <3>4. CASE Pass(r) \/ Served(r) \/ Ready(r) \/ LoginTenant(r)
      BY <3>4 DEF Pass, Served, Ready, LoginTenant
    <3>5. CASE Logout(r) \/ Revoke(r) \/ Retire(r) \/ Insert(r) \/ ResetMark(r)
      BY <3>5 DEF Logout, Revoke, Retire, Insert, ResetMark
    <3>6. CASE Change(r) \/ Choose(r) \/ ResetWrite(r)
      BY <3>6 DEF Change, Choose, ResetWrite
    <3>7. CASE ChangeMint(r) \/ LogoutMint(r) \/ LoginMint(r)
      BY <3>7 DEF ChangeMint, LogoutMint, LoginMint
    <3> QED BY <1>3, <3>1, <3>2, <3>3, <3>4, <3>5, <3>6, <3>7 DEF StepOf, Arrive, Proceed
  <2> QED BY <2>1, <2>2
<1> QED BY <1>1, <1>2, <1>3, StepKinds

\* The steps that mint.
Mints(r) == ChangeMint(r) \/ LogoutMint(r) \/ LoginMint(r)

\* A token is minted once, and no other step touches any.
LEMMA TokensOf ==
  ASSUME TypeOK, NEW r \in Requests, StepOf(r)
  PROVE  Mints(r) \/ tokens' = tokens
BY DEF StepOf, Arrive, Proceed, Mints, Enter, Login, Forgot, Reset, Reissue, Suspend, Reopen, DeleteTenant,
       Pass, Served, Ready, Change, Logout, Choose, LoginTenant, Retire, Insert, ResetWrite, ResetMark, Revoke, Die

\* A minting request is done afterwards and was not before.
LEMMA MintsLast ==
  ASSUME TypeOK, NEW r \in Requests, Mints(r)
  PROVE  at[r] = "mint" /\ at'[r] = "done" /\ UNCHANGED <<now, row, open, codes, kind, session, seen, code, history>>
BY DEF TypeOK, Mints, ChangeMint, LogoutMint, LoginMint, Goto, Makers

\* A token that was handed out stays what it is.
LEMMA TokensKept ==
  ASSUME IInv, [Next]_vars, NEW i \in Makers, tokens[i] # NoToken
  PROVE  tokens'[i] = tokens[i]
<1>0. TypeOK /\ Placed /\ MintedLast
  BY DEF IInv
<1>1. CASE Passive
  BY <1>1, PassiveSteps
<1>2. CASE DoorStep
  BY <1>0, <1>2, DoorSteps DEF MintedLast, Makers
<1>3. ASSUME NEW r \in Requests, StepOf(r) PROVE tokens'[i] = tokens[i]
  BY <1>0, <1>3, RequestsKeepApart, TokensOf, MintsLast DEF MintedLast
<1> QED BY <1>1, <1>2, <1>3, StepKinds

\* Who is done stays so.
LEMMA DoneStays ==
  ASSUME IInv, [Next]_vars, NEW i \in Makers, at[i] = "done"
  PROVE  at'[i] = "done"
<1>0. TypeOK /\ Placed
  BY DEF IInv
<1>1. CASE Passive
  BY <1>1, PassiveSteps
<1>2. CASE DoorStep
  BY <1>0, <1>2, DoorSteps DEF Makers
<1>3. ASSUME NEW r \in Requests, StepOf(r) PROVE at'[i] = "done"
  <2>1. CASE i = r
    BY <1>3, <2>1 DEF StepOf, Arrive, Proceed, Enter, Login, Forgot, Reset, Reissue, Suspend, Reopen, DeleteTenant,
         Pass, Served, Ready, Change, ChangeMint, Logout, LogoutMint, Choose, LoginTenant, LoginMint, Retire,
         Insert, ResetWrite, ResetMark, Revoke, Die
  <2> QED BY <1>0, <1>3, <2>1, RequestsKeepApart
<1> QED BY <1>1, <1>2, <1>3, StepKinds

\* A token's maker is done, and stays so.
LEMMA MintedLastStep ==
  ASSUME IInv, [Next]_vars
  PROVE  MintedLast'
<1>0. TypeOK /\ Placed /\ MintedLast
  BY DEF IInv
<1> SUFFICES ASSUME NEW i \in Makers, tokens'[i] # NoToken PROVE at'[i] = "done"
  BY DEF MintedLast
<1>1. CASE tokens'[i] = tokens[i]
  BY <1>0, <1>1, DoneStays DEF MintedLast
<1>2. CASE tokens'[i] # tokens[i]
  <2>1. CASE Passive
    BY <1>2, <2>1, PassiveSteps
  <2>2. CASE DoorStep
    BY <1>0, <1>2, <2>2, DoorSteps DEF Makers
  <2>3. ASSUME NEW r \in Requests, StepOf(r) PROVE at'[i] = "done"
    BY <1>0, <1>2, <2>3, RequestsKeepApart, TokensOf, MintsLast
  <2> QED BY <2>1, <2>2, <2>3, StepKinds
<1> QED BY <1>1, <1>2

\* What a request needs on its way it has taken along.
LEMMA CarriedStep ==
  ASSUME IInv, [Next]_vars
  PROVE  Carried'
<1>0. TypeOK /\ Placed /\ Carried
  BY DEF IInv
<1> SUFFICES ASSUME NEW k \in Requests
             PROVE  /\ at'[k] \in {"tenant", "in", "write", "mint"} /\ kind'[k] \in TokenKinds
                         => tokens'[session'[k]] # NoToken
                    /\ at'[k] \in {"write", "mark"} /\ kind'[k] = "reset" => code'[k] \in Requests
  BY DEF Carried
<1> DEFINE Goal == /\ at'[k] \in {"tenant", "in", "write", "mint"} /\ kind'[k] \in TokenKinds
                         => tokens'[session'[k]] # NoToken
                   /\ at'[k] \in {"write", "mark"} /\ kind'[k] = "reset" => code'[k] \in Requests
<1>1. ASSUME NEW t \in Makers, tokens[t] # NoToken PROVE tokens'[t] # NoToken
  BY <1>1, TokensKept
<1>2. session[k] \in Makers /\ k \in Makers
  BY <1>0 DEF TypeOK, Makers
<1>3. ASSUME at'[k] = at[k] /\ kind'[k] = kind[k] /\ session'[k] = session[k] /\ code'[k] = code[k] PROVE Goal
  BY <1>0, <1>1, <1>2, <1>3 DEF Carried
<1>4. CASE Passive
  BY <1>3, <1>4, PassiveSteps
<1>5. CASE DoorStep
  BY <1>0, <1>3, <1>5, DoorSteps
<1>6. ASSUME NEW r \in Requests, StepOf(r), r # k PROVE Goal
  BY <1>0, <1>2, <1>3, <1>6, RequestsKeepApart
<1>7. CASE StepOf(k)
  <2> USE <1>0, <1>1, <1>2 DEF TypeOK, TokenKinds, Goto, Makers
  <2>1. CASE \E c \in Requests : Reset(k, c)
    BY <2>1 DEF Reset
  <2>2. ASSUME NEW l \in TokenKinds, NEW t \in Makers, Enter(k, l, t) PROVE Goal
    BY <2>2 DEF Enter
  <2>3. CASE Login(k) \/ Forgot(k) \/ Suspend(k) \/ Reissue(k) \/ Reopen(k) \/ DeleteTenant(k) \/ Die(k)
    BY <2>3 DEF Login, Forgot, Suspend, Reissue, Reopen, DeleteTenant, Die
  <2>4. CASE Pass(k) \/ Served(k) \/ Ready(k)
    BY <2>4 DEF Pass, Served, Ready, Carried, Placed, PlacedAt
  <2>5. CASE LoginTenant(k) \/ Logout(k) \/ Revoke(k) \/ Retire(k) \/ Insert(k) \/ ResetMark(k)
    BY <2>5 DEF LoginTenant, Logout, Revoke, Retire, Insert, ResetMark, Carried
  <2>6. CASE Change(k) \/ Choose(k) \/ ResetWrite(k)
    BY <2>6 DEF Change, Choose, ResetWrite, Carried
  <2>7. CASE Mints(k)
    BY <2>7, MintsLast
  <2> QED BY <1>7, <2>1, <2>2, <2>3, <2>4, <2>5, <2>6, <2>7 DEF StepOf, Arrive, Proceed, Mints
<1> QED BY <1>4, <1>5, <1>6, <1>7, StepKinds

-----------------------------------------------------------------------------
(* The line and the password.                                               *)

\* The four requests that set the password do the same: the line moves to the
\* present second, and who is in flight or of that second is excused.
Sets(r) ==
  /\ Reissue(r) \/ Change(r) \/ Choose(r) \/ ResetWrite(r)
  /\ exists /\ exists' = exists
  /\ password' = r /\ undelivered' = FALSE
  /\ line' = DbNow /\ lineBy' = r
  /\ excused' = excused \cup (InFlight \ {r}) \cup PastLine
  /\ tokens' = tokens /\ session' = session

\* The steps that move the line and leave the password alone.
Moves(r) == (Logout(r) \/ Revoke(r)) /\ line' = DbNow /\ lineBy' = r

\* A request's step sets the password, moves the line, or leaves both alone.
LEMMA LineOf ==
  ASSUME TypeOK, NEW r \in Requests, StepOf(r)
  PROVE  \/ Sets(r)
         \/ Moves(r) /\ UNCHANGED <<password, undelivered, excused>>
         \/ UNCHANGED <<password, undelivered, line, lineBy>> /\ excused \subseteq excused'
<1>1. CASE Reissue(r)
  BY <1>1 DEF Reissue, SetPassword, MoveLine, Sets
<1>2. CASE Change(r) \/ Choose(r) \/ ResetWrite(r)
  BY <1>2 DEF Change, Choose, ResetWrite, SetPassword, MoveLine, Sets
<1>3. CASE Logout(r) \/ Revoke(r)
  BY <1>3 DEF Logout, Revoke, MoveLine, Moves
<1>4. CASE \E k \in TokenKinds, t \in Makers : Enter(r, k, t)
  BY <1>4 DEF Enter, row
<1>5. CASE Mints(r)
  BY <1>5, MintsLast DEF row, history
<1>6. CASE (\E c \in Requests : Reset(r, c)) \/ Login(r) \/ Forgot(r) \/ Suspend(r) \/ Reopen(r) \/ DeleteTenant(r)
  BY <1>6 DEF Reset, Login, Forgot, Suspend, Reopen, DeleteTenant, row, history
<1>7. CASE Pass(r) \/ Served(r) \/ Ready(r) \/ LoginTenant(r) \/ Retire(r) \/ Insert(r) \/ ResetMark(r) \/ Die(r)
  BY <1>7 DEF Pass, Served, Ready, LoginTenant, Retire, Insert, ResetMark, Die, row, history
<1> QED
  BY <1>1, <1>2, <1>3, <1>4, <1>5, <1>6, <1>7 DEF StepOf, Arrive, Proceed, Mints, TokenKinds

\* The line never goes back: it stays, or moves to the present second.
LEMMA LineStep ==
  ASSUME IInv, [Next]_vars
  PROVE  line' \in {line, DbNow}
<1>0. TypeOK /\ Placed
  BY DEF IInv
<1>1. CASE Passive
  BY <1>1, PassiveSteps
<1>2. CASE DoorStep
  BY <1>0, <1>2, DoorSteps
<1>3. ASSUME NEW r \in Requests, StepOf(r) PROVE line' \in {line, DbNow}
  BY <1>0, <1>3, LineOf DEF Sets, Moves
<1> QED BY <1>1, <1>2, <1>3, StepKinds

\* The clock does not go back.
LEMMA ClockStep ==
  ASSUME IInv, [Next]_vars
  PROVE  /\ now' \in {now, now + 1}
         /\ DbNow <= DbNow' /\ DbNow \in Nat /\ DbNow' \in Nat
         /\ ServerNow <= ServerNow' /\ ServerNow \in Nat /\ ServerNow' \in Nat
<1>0. TypeOK /\ Placed
  BY DEF IInv
<1>1. now' \in {now, now + 1}
  <2>1. CASE Passive
    BY <2>1 DEF Passive, Tick, Expire, vars
  <2>2. CASE DoorStep
    BY <1>0, <2>2, DoorSteps
  <2>3. ASSUME NEW r \in Requests, StepOf(r) PROVE now' = now
    BY <1>0, <2>3, RequestsKeepApart
  <2> QED BY <2>1, <2>2, <2>3, StepKinds
<1>2. now \in Nat /\ DbAhead \in Nat /\ ServerAhead \in Nat
  BY <1>0, ClockAssumption DEF TypeOK
<1>3. ASSUME NEW a \in Nat, NEW n \in Nat, NEW m \in {n, n + 1}
      PROVE  n + a <= m + a /\ n + a \in Nat /\ m + a \in Nat
  OBVIOUS
<1>4. now + DbAhead <= now' + DbAhead /\ now + DbAhead \in Nat /\ now' + DbAhead \in Nat
  BY <1>1, <1>2, <1>3
<1>5. now + ServerAhead <= now' + ServerAhead /\ now + ServerAhead \in Nat /\ now' + ServerAhead \in Nat
  BY <1>1, <1>2, <1>3
<1> QED BY <1>1, <1>4, <1>5 DEF DbNow, ServerNow

\* What a request mints is of no later second than one of the clocks shows.
LEMMA MintedByClock ==
  ASSUME IInv, [Next]_vars, NEW i \in Makers, tokens'[i] # tokens[i]
  PROVE  tokens'[i].iat \in {ServerNow, seen[i]} /\ (tokens'[i].iat <= DbNow \/ tokens'[i].iat <= ServerNow)
<1>0. TypeOK /\ Placed /\ NothingAhead
  BY DEF IInv
<1>1. ServerNow \in Nat
  BY ClockStep
<1>2. CASE Passive
  BY <1>2, PassiveSteps
<1>3. CASE DoorStep
  BY <1>0, <1>1, <1>3, DoorSteps DEF Makers
<1>4. ASSUME NEW r \in Requests, StepOf(r)
      PROVE  tokens'[i].iat \in {ServerNow, seen[i]} /\ (tokens'[i].iat <= DbNow \/ tokens'[i].iat <= ServerNow)
  <2>1. i = r /\ Mints(r)
    BY <1>0, <1>4, RequestsKeepApart, TokensOf
  <2>2. CASE ChangeMint(r)
    BY <1>0, <2>1, <2>2 DEF TypeOK, NothingAhead, ChangeMint, Mint
  <2>3. CASE LogoutMint(r) \/ LoginMint(r)
    BY <1>0, <1>1, <2>1, <2>3 DEF TypeOK, LogoutMint, LoginMint, Mint
  <2> QED BY <2>1, <2>2, <2>3 DEF Mints
<1> QED BY <1>2, <1>3, <1>4, StepKinds

\* What a password change wrote down was the present second.
LEMMA SeenByClock ==
  ASSUME IInv, [Next]_vars, NEW i \in Makers, at'[i] = "mint", kind'[i] = "change"
  PROVE  \/ at[i] = "mint" /\ kind[i] = "change" /\ seen'[i] = seen[i]
         \/ i \in Requests /\ Change(i) /\ exists /\ seen'[i] = DbNow
<1> DEFINE Goal == \/ at[i] = "mint" /\ kind[i] = "change" /\ seen'[i] = seen[i]
                   \/ i \in Requests /\ Change(i) /\ exists /\ seen'[i] = DbNow
<1>0. TypeOK /\ Placed
  BY DEF IInv
<1>1. CASE Passive
  BY <1>1, PassiveSteps
<1>2. CASE DoorStep
  BY <1>0, <1>2, DoorSteps DEF Makers, Placed
<1>3. ASSUME NEW r \in Requests, StepOf(r) PROVE Goal
  <2>1. CASE i # r
    BY <1>0, <1>3, <2>1, RequestsKeepApart
  <2>2. CASE i = r
    <3> USE <1>0, <2>2 DEF TypeOK, Goto, Makers
    <3>1. CASE Change(r)
      BY <3>1 DEF Change
    <3>2. CASE \E k \in TokenKinds, t \in Makers : Enter(r, k, t)
      BY <3>2 DEF Enter
    <3>3. CASE (\E c \in Requests : Reset(r, c)) \/ Login(r) \/ Forgot(r) \/ Suspend(r) \/ Reissue(r) \/ Reopen(r)
               \/ DeleteTenant(r) \/ Die(r)
      BY <3>3 DEF Reset, Login, Forgot, Suspend, Reissue, Reopen, DeleteTenant, Die
    <3>4. CASE Pass(r) \/ Served(r) \/ Ready(r) \/ LoginTenant(r)
      BY <3>4 DEF Pass, Served, Ready, LoginTenant
    <3>5. CASE Logout(r) \/ Revoke(r) \/ Retire(r) \/ Insert(r) \/ ResetMark(r)
      BY <3>5 DEF Logout, Revoke, Retire, Insert, ResetMark
    <3>6. CASE Choose(r) \/ ResetWrite(r)
      BY <3>6 DEF Choose, ResetWrite
    <3>7. CASE Mints(r)
      BY <3>7, MintsLast
    <3> QED BY <1>3, <3>1, <3>2, <3>3, <3>4, <3>5, <3>6, <3>7 DEF StepOf, Arrive, Proceed, Mints, TokenKinds
  <2> QED BY <2>1, <2>2
<1> QED BY <1>1, <1>2, <1>3, StepKinds

\* No step puts anything ahead of the clocks.
LEMMA NothingAheadStep ==
  ASSUME IInv, [Next]_vars
  PROVE  NothingAhead'
<1>0. TypeOK /\ TypeOK' /\ NothingAhead
  BY TypeStep DEF IInv
<1>1. /\ DbNow <= DbNow' /\ DbNow \in Nat /\ DbNow' \in Nat
      /\ ServerNow <= ServerNow' /\ ServerNow \in Nat /\ ServerNow' \in Nat
  BY ClockStep
<1>2. line' <= DbNow'
  <2>1. line' <= DbNow /\ line' \in Nat
    BY <1>0, <1>1, LineStep, ClockAssumption DEF NothingAhead, TypeOK
  <2> QED BY <1>1, <2>1
<1>3. ASSUME NEW i \in Makers, tokens'[i] # NoToken PROVE tokens'[i].iat <= DbNow' \/ tokens'[i].iat <= ServerNow'
  <2>1. tokens'[i] \in Token
    BY <1>0, <1>3 DEF TypeOK
  <2>2. (tokens'[i].iat <= DbNow \/ tokens'[i].iat <= ServerNow) /\ tokens'[i].iat \in Nat
    BY <1>0, <1>3, <2>1, MintedByClock DEF NothingAhead, Token
  <2> QED BY <1>1, <2>2
<1>4. ASSUME NEW i \in Makers, at'[i] = "mint", kind'[i] = "change" PROVE seen'[i] <= DbNow'
  <2>1. seen'[i] <= DbNow /\ seen'[i] \in Nat
    BY <1>0, <1>1, <1>4, SeenByClock DEF NothingAhead, TypeOK
  <2> QED BY <1>1, <2>1
<1> QED BY <1>2, <1>3, <1>4 DEF NothingAhead

\* A deleted account does not come back.
LEMMA GoneStays ==
  ASSUME IInv, [Next]_vars, exists'
  PROVE  exists
<1>0. TypeOK /\ Placed
  BY DEF IInv
<1>1. CASE Passive
  BY <1>1, PassiveSteps
<1>2. CASE DoorStep
  BY <1>0, <1>2, DoorSteps
<1>3. ASSUME NEW r \in Requests, StepOf(r) PROVE exists
  BY <1>0, <1>3, MintsLast DEF TypeOK, StepOf, Arrive, Proceed, Mints, row, Enter, Login, Forgot, Reset, Reissue,
     Suspend, Reopen, DeleteTenant, Pass, Served, Ready, Change, Logout, Choose, LoginTenant, Retire, Insert,
     ResetWrite, ResetMark, Revoke, Die
<1> QED BY <1>1, <1>2, <1>3, StepKinds

\* A step sets the password, or leaves it and excuses nobody less.
LEMMA PasswordStep ==
  ASSUME IInv, [Next]_vars
  PROVE  (\E r \in Requests : StepOf(r) /\ Sets(r)) \/ (password' = password /\ excused \subseteq excused')
<1>0. TypeOK /\ Placed
  BY DEF IInv
<1> QED BY <1>0, StepKinds, PassiveSteps, DoorSteps, LineOf

\* What a request's own step leads it to rests on the current password.
LEMMA RestsOwnStep ==
  ASSUME IInv, NEW r \in Requests, StepOf(r), ~Sets(r)
  PROVE  RestsFor(r)'
<1>0. TypeOK /\ Placed /\ Carried /\ RestsFor(r) /\ SessionEndsWithPassword
  BY DEF IInv, RestsOnCurrent
<1>1. password' = password /\ excused \subseteq excused'
  BY <1>0, LineOf
<1> USE <1>0, <1>1 DEF TypeOK, TokenKinds, Goto, Makers, RestsFor
<1>2. ASSUME NEW k \in TokenKinds, NEW t \in Makers, Enter(r, k, t) PROVE RestsFor(r)'
  <2>1. kind'[r] = k /\ session'[r] = t /\ seen'[r] = line /\ tokens' = tokens /\ tokens[t] # NoToken
        /\ (t \in excused => r \in excused') /\ at'[r] = (IF exists THEN "tenant" ELSE "done")
    BY <1>2 DEF Enter
  <2> QED BY <2>1 DEF SessionEndsWithPassword, Usable
<1>3. CASE Login(r)
  BY <1>3 DEF Login
<1>4. CASE (\E c \in Requests : Reset(r, c)) \/ Forgot(r) \/ Suspend(r) \/ Reissue(r) \/ Reopen(r)
           \/ DeleteTenant(r) \/ Die(r)
  BY <1>4 DEF Reset, Forgot, Suspend, Reissue, Reopen, DeleteTenant, Die
<1>5. CASE Pass(r) \/ Served(r)
  BY <1>5 DEF Pass, Served, Placed, PlacedAt
<1>6. CASE Ready(r) \/ LoginTenant(r)
  BY <1>6 DEF Ready, LoginTenant
<1>7. CASE Logout(r) \/ Revoke(r) \/ Retire(r) \/ Insert(r) \/ ResetMark(r)
  BY <1>7 DEF Logout, Revoke, Retire, Insert, ResetMark
<1>8. CASE Choose(r) \/ ResetWrite(r)
  BY <1>8 DEF Choose, ResetWrite
<1>9. CASE Change(r)
  BY <1>9 DEF Change, Sets, SetPassword, MoveLine
<1>10. CASE Mints(r)
  BY <1>10, MintsLast
<1> QED
  BY <1>2, <1>3, <1>4, <1>5, <1>6, <1>7, <1>8, <1>9, <1>10 DEF StepOf, Arrive, Proceed, Mints

\* A request that stands still rests on what it did.
LEMMA RestsStandingStill ==
  ASSUME IInv, [Next]_vars, NEW k \in Requests,
         at'[k] = at[k] /\ kind'[k] = kind[k] /\ session'[k] = session[k] /\ seen'[k] = seen[k],
         password' = password, excused \subseteq excused'
  PROVE  RestsFor(k)'
<1>0. TypeOK /\ Carried /\ RestsFor(k) /\ session[k] \in Makers
  BY DEF IInv, RestsOnCurrent, TypeOK, Makers
<1>1. at[k] \in {"tenant", "in", "write", "mint"} /\ kind[k] \in TokenKinds => tokens'[session[k]] = tokens[session[k]]
  BY <1>0, TokensKept DEF Carried
<1> QED BY <1>0, <1>1 DEF RestsFor, TokenKinds

\* Who sets a password goes on to mint only as its change.
LEMMA SetterGoesOn ==
  ASSUME TypeOK, Placed, NEW r \in Requests, StepOf(r), Sets(r)
  PROVE  at'[r] \in {"mint", "mark", "done"} /\ (at'[r] = "mint" => kind'[r] = "change")
BY DEF TypeOK, Sets, Goto, Makers, Reissue, Change, Choose, ResetWrite

\* What is in flight rests on the current password or is excused.
LEMMA RestsOnCurrentStep ==
  ASSUME IInv, [Next]_vars
  PROVE  RestsOnCurrent'
<1>0. TypeOK /\ Placed /\ RestsOnCurrent
  BY DEF IInv
<1>1. CASE Passive
  <2>1. UNCHANGED <<password, kind, at, session, seen, excused>>
    BY <1>1, PassiveSteps
  <2>2. \A r \in Requests : RestsFor(r)'
    BY <2>1, RestsStandingStill
  <2> QED BY <1>0, <2>1, <2>2 DEF RestsOnCurrent
<1>2. CASE DoorStep
  <2>1. UNCHANGED <<password, kind, session, seen, excused>> /\ at[Door] # "done"
        /\ \A r \in Requests : at'[r] = at[r]
    BY <1>0, <1>2, DoorSteps
  <2>2. \A r \in Requests : RestsFor(r)'
    BY <2>1, RestsStandingStill
  <2> QED BY <1>0, <2>1, <2>2 DEF RestsOnCurrent
<1>3. ASSUME NEW r \in Requests, StepOf(r), Sets(r) PROVE RestsOnCurrent'
  <2>1. \A i \in Makers \ {r} : at'[i] = at[i] /\ (at'[i] \notin {"start", "done"} => i \in excused')
    BY <1>0, <1>3, RequestsKeepApart DEF Sets, InFlight
  <2>2. at'[r] \in {"mint", "mark", "done"} /\ (at'[r] = "mint" => kind'[r] = "change") /\ password' = r
    BY <1>0, <1>3, SetterGoesOn DEF Sets
  <2>3. at'[Door] # "done" => Door \in excused'
    BY <1>0, <2>1, DoorAssumption DEF Makers, Placed
  <2>4. \A k \in Requests : RestsFor(k)'
    BY <2>1, <2>2 DEF RestsFor, Makers, TokenKinds
  <2> QED BY <2>3, <2>4 DEF RestsOnCurrent
<1>4. ASSUME NEW r \in Requests, StepOf(r), ~Sets(r) PROVE RestsOnCurrent'
  <2>1. password' = password /\ excused \subseteq excused'
    BY <1>0, <1>4, LineOf
  <2>2. \A i \in Makers \ {r} : at'[i] = at[i] /\ kind'[i] = kind[i] /\ session'[i] = session[i] /\ seen'[i] = seen[i]
    BY <1>0, <1>4, RequestsKeepApart
  <2>3. \A k \in Requests : RestsFor(k)'
    BY <1>4, <2>1, <2>2, RestsOwnStep, RestsStandingStill DEF Makers
  <2>4. at'[Door] # "done" => password' = Door \/ Door \in excused'
    BY <1>0, <2>1, <2>2, DoorAssumption DEF RestsOnCurrent, Makers
  <2> QED BY <2>3, <2>4 DEF RestsOnCurrent
<1> QED BY <1>1, <1>2, <1>3, <1>4, StepKinds

\* What a new token rests on is the current password, or its maker is excused.
LEMMA MintedRests ==
  ASSUME IInv, [Next]_vars, NEW i \in Makers, tokens'[i] # tokens[i]
  PROVE  tokens'[i].knew = password \/ i \in excused
<1>0. TypeOK /\ Placed /\ RestsOnCurrent
  BY DEF IInv
<1>1. CASE Passive
  BY <1>1, PassiveSteps
<1>2. CASE DoorStep
  BY <1>0, <1>2, DoorSteps DEF Makers, RestsOnCurrent
<1>3. ASSUME NEW r \in Requests, StepOf(r) PROVE tokens'[i].knew = password \/ i \in excused
  <2>1. i = r /\ Mints(r)
    BY <1>0, <1>3, RequestsKeepApart, TokensOf
  <2> QED BY <1>0, <2>1 DEF TypeOK, RestsOnCurrent, RestsFor, Mints, ChangeMint, LogoutMint, LoginMint, Mint
<1> QED BY <1>1, <1>2, <1>3, StepKinds

\* A step leaves no usable token of another password but an excused one.
LEMMA SessionEndsStep ==
  ASSUME IInv, [Next]_vars
  PROVE  SessionEndsWithPassword'
<1>0. TypeOK /\ TypeOK' /\ NothingAhead /\ SessionEndsWithPassword
  BY TypeStep DEF IInv
<1> SUFFICES ASSUME NEW i \in Makers, exists', tokens'[i] # NoToken, tokens'[i].iat >= line'
             PROVE  tokens'[i].knew = password' \/ i \in excused'
  BY DEF SessionEndsWithPassword, Usable
<1>1. exists /\ DbNow \in Nat /\ ServerNow \in Nat /\ line' \in {line, DbNow} /\ line <= DbNow /\ line \in Nat
  BY <1>0, GoneStays, ClockStep, LineStep, ClockAssumption DEF NothingAhead, TypeOK
<1>2. ASSUME NEW r \in Requests, StepOf(r), Sets(r) PROVE i \in excused'
  <2>1. tokens[i] # NoToken /\ tokens[i].iat \in Nat /\ tokens[i].iat >= DbNow
    BY <1>0, <1>2 DEF Sets, TypeOK, Token
  <2>2. tokens[i].iat = DbNow \/ tokens[i].iat \in DbNow..ServerNow
    BY <1>0, <1>1, <2>1 DEF NothingAhead
  <2> QED BY <1>2, <2>1, <2>2 DEF Sets, PastLine
<1>3. CASE password' = password /\ excused \subseteq excused'
  <2>1. CASE tokens'[i] = tokens[i]
    <3>1. tokens[i].iat \in Nat
      BY <1>0, <2>1 DEF TypeOK, Token
    <3>2. tokens[i].iat >= line
      BY <1>1, <2>1, <3>1
    <3> QED BY <1>0, <1>1, <1>3, <2>1, <3>2 DEF SessionEndsWithPassword, Usable
  <2>2. CASE tokens'[i] # tokens[i]
    BY <1>3, <2>2, MintedRests
  <2> QED BY <2>1, <2>2
<1> QED BY <1>2, <1>3, PasswordStep

-----------------------------------------------------------------------------
(* The caller's own token.                                                  *)

\* Whoever moves the line is at a write, and has not minted.
LEMMA MoverStep ==
  ASSUME IInv, [Next]_vars
  PROVE  \/ UNCHANGED <<line, lineBy>>
         \/ (line' = DbNow /\ at[lineBy'] \in {"start", "write", "revoke"})
<1>0. TypeOK /\ Placed
  BY DEF IInv
<1>1. CASE Passive
  BY <1>1, PassiveSteps
<1>2. CASE DoorStep
  BY <1>0, <1>2, DoorSteps
<1>3. ASSUME NEW r \in Requests, StepOf(r)
      PROVE  UNCHANGED <<line, lineBy>> \/ (line' = DbNow /\ at[lineBy'] \in {"start", "write", "revoke"})
  <2>1. CASE Sets(r)
    BY <2>1 DEF Sets, Reissue, Change, Choose, ResetWrite
  <2>2. CASE Moves(r)
    BY <2>2 DEF Moves, Logout, Revoke
  <2>3. CASE UNCHANGED <<password, undelivered, line, lineBy>>
    BY <2>3
  <2> QED BY <1>0, <1>3, <2>1, <2>2, <2>3, LineOf
<1> QED BY <1>1, <1>2, <1>3, StepKinds

\* Only a request at its start changes what it is.
LEMMA KindStays ==
  ASSUME IInv, [Next]_vars, NEW i \in Makers, at[i] # "start"
  PROVE  kind'[i] = kind[i]
<1>0. TypeOK /\ Placed
  BY DEF IInv
<1>1. CASE Passive
  BY <1>1, PassiveSteps
<1>2. CASE DoorStep
  BY <1>0, <1>2, DoorSteps
<1>3. ASSUME NEW r \in Requests, StepOf(r) PROVE kind'[i] = kind[i]
  <2>1. CASE i = r
    BY <1>3, <2>1, <1>0, MintsLast DEF StepOf, Arrive, Proceed, Mints, Enter, Login, Forgot, Reset, Reissue, Suspend,
       Reopen, DeleteTenant, Pass, Served, Ready, Change, Logout, Choose, LoginTenant, Retire, Insert, ResetWrite,
       ResetMark, Revoke, Die
  <2> QED BY <1>0, <1>3, <2>1, RequestsKeepApart
<1> QED BY <1>1, <1>2, <1>3, StepKinds

\* A change that still mints by the line it wrote does so until the line moves.
LEMMA ChangerMintsByLineStep ==
  ASSUME IInv, [Next]_vars
  PROVE  ChangerMintsByLine'
<1>0. TypeOK /\ ChangerMintsByLine
  BY DEF IInv
<1> SUFFICES ASSUME NEW r \in Requests, lineBy' = r, kind'[r] = "change", at'[r] = "mint" PROVE seen'[r] = line'
  BY DEF ChangerMintsByLine
<1>1. CASE at[r] = "mint" /\ kind[r] = "change" /\ seen'[r] = seen[r]
  BY <1>0, <1>1, MoverStep DEF ChangerMintsByLine
<1>2. CASE Change(r) /\ exists /\ seen'[r] = DbNow
  BY <1>2 DEF Change, SetPassword, MoveLine
<1> QED BY <1>1, <1>2, SeenByClock DEF Makers

\* A token minted by a change is of the second it wrote, one of a logout of the
\* second the server's clock shows.
LEMMA CallerMints ==
  ASSUME IInv, [Next]_vars, NEW r \in Requests, tokens'[r] # tokens[r]
  PROVE  /\ at[r] = "mint" /\ kind'[r] = kind[r] /\ UNCHANGED <<line, lineBy>>
         /\ kind[r] = "change" => tokens'[r].iat = seen[r]
         /\ kind[r] = "logout" => tokens'[r].iat = ServerNow
<1>0. TypeOK /\ Placed
  BY DEF IInv
<1>1. CASE Passive
  BY <1>1, PassiveSteps
<1>2. CASE DoorStep
  BY <1>0, <1>2, DoorSteps
<1>3. ASSUME NEW k \in Requests, StepOf(k)
      PROVE  /\ at[r] = "mint" /\ kind'[r] = kind[r] /\ UNCHANGED <<line, lineBy>>
             /\ kind[r] = "change" => tokens'[r].iat = seen[r]
             /\ kind[r] = "logout" => tokens'[r].iat = ServerNow
  <2>1. r = k /\ Mints(r)
    BY <1>0, <1>3, RequestsKeepApart, TokensOf DEF Makers
  <2>2. at[r] = "mint" /\ kind'[r] = kind[r] /\ UNCHANGED <<line, lineBy>>
    BY <1>0, <2>1, MintsLast DEF row, history
  <2>3. /\ kind[r] = "change" => tokens'[r].iat = seen[r]
        /\ kind[r] = "logout" => tokens'[r].iat = ServerNow
    BY <1>0, <2>1 DEF TypeOK, Makers, Mints, ChangeMint, LogoutMint, LoginMint, Mint
  <2> QED BY <2>2, <2>3
<1> QED BY <1>1, <1>2, <1>3, StepKinds

\* The token of whoever moved the line last stays where its second put it.
LEMMA CallerStep ==
  ASSUME IInv, [Next]_vars
  PROVE  ChangerStaysIn' /\ LogoutLagsBySkew'
<1>0. TypeOK /\ NothingAhead /\ MintedLast /\ ChangerMintsByLine /\ ChangerStaysIn /\ LogoutLagsBySkew
  BY DEF IInv
<1> SUFFICES ASSUME NEW r \in Requests, lineBy' = r, tokens'[r] # NoToken
             PROVE  /\ kind'[r] = "change" => tokens'[r].iat >= line'
                    /\ kind'[r] = "logout" => tokens'[r].iat + DbAhead >= line' + ServerAhead
  BY DEF ChangerStaysIn, LogoutLagsBySkew
<1>1. CASE tokens'[r] # tokens[r]
  <2>1. lineBy = r /\ line' = line /\ kind'[r] = kind[r] /\ at[r] = "mint"
    BY <1>1, CallerMints
  <2>2. /\ line \in Nat /\ now \in Nat /\ DbAhead \in Nat /\ ServerAhead \in Nat
        /\ line <= now + DbAhead /\ ServerNow = now + ServerAhead
    BY <1>0, ClockAssumption DEF TypeOK, NothingAhead, DbNow, ServerNow
  <2>3. kind[r] = "change" => tokens'[r].iat = line
    BY <1>0, <1>1, <2>1, CallerMints DEF ChangerMintsByLine
  <2>4. kind[r] = "logout" => tokens'[r].iat = ServerNow
    BY <1>1, CallerMints
  <2> QED BY <2>1, <2>2, <2>3, <2>4
<1>2. CASE tokens'[r] = tokens[r]
  <2>1. at[r] = "done"
    BY <1>0, <1>2 DEF MintedLast, Makers
  <2>2. lineBy = r /\ line' = line /\ kind'[r] = kind[r]
    BY <2>1, MoverStep, KindStays DEF Makers
  <2> QED BY <1>0, <1>2, <2>2 DEF ChangerStaysIn, LogoutLagsBySkew
<1> QED BY <1>1, <1>2

-----------------------------------------------------------------------------
(* The reset codes.                                                         *)

\* What most steps do to the codes: a live one may age, a request past the check
\* may leave it, and one that leaves the mark has marked it or left it in doubt.
CodesFade ==
  /\ redeemed' = redeemed /\ doubtful \subseteq doubtful' /\ doubtful' \subseteq Requests
  /\ \A c \in Requests : codes'[c] = codes[c] \/ (codes[c] = "live" /\ codes'[c] = "used")
  /\ \A c \in Requests : at'[c] # "done" => at[c] # "done"
  /\ \A r, c \in Requests : Holds(r, c)' => Holds(r, c) /\ at'[r] = at[r]
  /\ \A r, c \in Requests : Holds(r, c) /\ at[r] = "mark"
       => Holds(r, c)' \/ c \in doubtful' \/ codes'[c] = "used"

\* A code is then tracked as it was.
LEMMA FadingTracked ==
  ASSUME IInv, CodesFade
  PROVE  CodesTracked'
<1>0. CodesTracked
  BY DEF IInv
<1>1. \A c \in Requests : at'[c] # "done" => codes'[c] = "none"
  BY <1>0 DEF CodesTracked, CodesFade
<1>2. \A c \in Requests : codes'[c] = "none" => redeemed'[c] = {}
  BY <1>0 DEF CodesTracked, CodesFade
<1>3. \A r, c \in Requests : Holds(r, c)' => codes'[c] # "none"
  BY <1>0 DEF CodesTracked, CodesFade
<1>4. ASSUME NEW c \in Requests \ doubtful'
      PROVE  /\ \A r, k \in Requests : Holds(r, c)' /\ Holds(k, c)' => r = k
             /\ \A r \in Requests : Holds(r, c)' /\ at'[r] = "write" => redeemed'[c] = {}
             /\ \A r, k \in redeemed'[c] : r = k
             /\ redeemed'[c] # {} /\ codes'[c] = "live" => \E r \in Requests : Holds(r, c)' /\ at'[r] = "mark"
  <2>1. c \in Requests /\ c \notin doubtful /\ redeemed'[c] = redeemed[c]
    BY <1>4 DEF CodesFade
  <2>2. \A r, k \in Requests : Holds(r, c)' /\ Holds(k, c)' => r = k
    BY <1>0, <2>1 DEF CodesTracked, CodesFade
  <2>3. \A r \in Requests : Holds(r, c)' /\ at'[r] = "write" => redeemed'[c] = {}
    BY <1>0, <2>1 DEF CodesTracked, CodesFade
  <2>4. \A r, k \in redeemed'[c] : r = k
    BY <1>0, <2>1 DEF CodesTracked
  <2>5. ASSUME redeemed'[c] # {}, codes'[c] = "live" PROVE \E r \in Requests : Holds(r, c)' /\ at'[r] = "mark"
    <3>1. codes[c] = "live"
      BY <2>1, <2>5 DEF CodesFade
    <3>2. PICK r \in Requests : Holds(r, c) /\ at[r] = "mark"
      BY <1>0, <2>1, <2>5, <3>1 DEF CodesTracked
    <3>3. Holds(r, c)' /\ at'[r] = at[r]
      BY <1>4, <2>1, <2>5, <3>2 DEF CodesFade
    <3> QED BY <3>2, <3>3
  <2> QED BY <2>2, <2>3, <2>4, <2>5
<1> QED BY <1>1, <1>2, <1>3, <1>4 DEF CodesTracked

\* Who is at none of a reset's statements, before or after, lets the codes fade.
LEMMA BystanderFades ==
  ASSUME IInv, NEW r \in Requests, StepOf(r),
         ~(kind[r] = "reset" /\ at[r] \in {"write", "mark"}),
         ~(kind'[r] = "reset" /\ at'[r] \in {"write", "mark"}),
         redeemed' = redeemed, doubtful' = doubtful,
         \A c \in Requests : codes'[c] = codes[c] \/ (codes[c] = "live" /\ codes'[c] = "used")
  PROVE  CodesFade
<1>0. TypeOK
  BY DEF IInv
<1>1. \A i \in Makers \ {r} : at'[i] = at[i] /\ kind'[i] = kind[i] /\ code'[i] = code[i]
  BY <1>0, RequestsKeepApart
<1>2. at[r] # "done"
  BY <1>0, MintsLast DEF TypeOK, StepOf, Arrive, Proceed, Mints, Enter, Login, Forgot, Reset, Reissue, Suspend, Reopen,
     DeleteTenant, Pass, Served, Ready, Change, Logout, Choose, LoginTenant, Retire, Insert, ResetWrite, ResetMark,
     Revoke, Die
<1>3. \A k, c \in Requests : Holds(k, c)' <=> Holds(k, c) /\ k # r
  BY <1>1 DEF Holds, Resets, Makers
<1>4. \A k, c \in Requests : Holds(k, c) => k # r
  BY DEF Holds, Resets
<1> QED BY <1>0, <1>1, <1>2, <1>3, <1>4 DEF CodesFade, TypeOK, Makers

\* A reset that ends with its mark or dies lets them fade too.
LEMMA LeavingFades ==
  ASSUME IInv, NEW r \in Requests, ResetMark(r) \/ Die(r)
  PROVE  CodesFade
<1>0. TypeOK /\ Placed /\ Carried
  BY DEF IInv
<1>1. StepOf(r) /\ r \in Makers
  BY DEF StepOf, Proceed, Makers
<1>2. \A i \in Makers \ {r} : at'[i] = at[i] /\ kind'[i] = kind[i] /\ code'[i] = code[i]
  BY <1>0, <1>1, RequestsKeepApart
<1>3. at'[r] = "done" /\ at[r] # "done" /\ redeemed' = redeemed /\ code' = code /\ kind' = kind
  BY <1>0, <1>1 DEF ResetMark, Die, TypeOK, Goto, row, request, history
<1>4. \A k, c \in Requests : Holds(k, c)' <=> Holds(k, c) /\ k # r
  BY <1>2, <1>3 DEF Holds, Resets, Makers
<1>5. at[r] = "mark" => kind[r] = "reset" /\ code[r] \in Requests
  BY <1>0 DEF Placed, PlacedAt, Carried
<1>6. doubtful \subseteq doubtful' /\ doubtful' \subseteq Requests
  BY <1>0, <1>5 DEF ResetMark, Die, TypeOK, history
<1>7. \A c \in Requests : codes'[c] = codes[c] \/ (codes[c] = "live" /\ codes'[c] = "used")
  <2>1. CASE ResetMark(r)
    <3>1. at[r] = "mark" /\ codes' = [codes EXCEPT ![code[r]] = "used"]
      BY <2>1 DEF ResetMark
    <3>2. codes[code[r]] # "none"
      BY <1>5, <3>1 DEF IInv, CodesTracked, Holds, Resets
    <3>3. codes[code[r]] \in {"live", "used"} /\ codes \in [Requests -> {"none", "live", "used"}]
      BY <1>0, <1>5, <3>1, <3>2 DEF TypeOK
    <3> QED BY <3>1, <3>3
  <2>2. CASE Die(r)
    <3>1. codes' = codes
      BY <2>2 DEF Die, row
    <3> QED BY <3>1
  <2> QED BY <2>1, <2>2
<1>8. \A c \in Requests : Holds(r, c) /\ at[r] = "mark" => c \in doubtful' \/ codes'[c] = "used"
  <2>1. CASE ResetMark(r)
    BY <1>0, <1>5, <2>1 DEF ResetMark, TypeOK, Holds, Resets
  <2>2. CASE Die(r)
    BY <2>2 DEF Die, Holds, Resets
  <2> QED BY <2>1, <2>2
<1> QED BY <1>2, <1>3, <1>4, <1>6, <1>7, <1>8 DEF CodesFade, Makers

\* A step of nobody's, or of the sign-up's, lets them fade.
LEMMA OthersFade ==
  ASSUME IInv, [Next]_vars, Passive \/ DoorStep
  PROVE  CodesFade
<1>0. TypeOK /\ Placed
  BY DEF IInv
<1>1. UNCHANGED <<redeemed, doubtful, kind, code>> /\ \A r \in Requests : at'[r] = at[r]
  BY <1>0, PassiveSteps, DoorSteps
<1>2. \A c \in Requests : codes'[c] = codes[c] \/ (codes[c] = "live" /\ codes'[c] = "used")
  <2>1. CASE DoorStep
    BY <1>0, <2>1, DoorSteps
  <2>2. CASE Passive
    BY <1>0, <2>2 DEF Passive, Tick, Expire, vars, TypeOK
  <2> QED BY <2>1, <2>2
<1>3. \A k, c \in Requests : Holds(k, c)' <=> Holds(k, c)
  BY <1>1 DEF Holds, Resets
<1> QED BY <1>0, <1>1, <1>2, <1>3 DEF CodesFade, TypeOK

\* A request whose step is none of forgot_password's and reset_password's on the
\* codes lets them fade.
LEMMA MostStepsFade ==
  ASSUME IInv, NEW r \in Requests, StepOf(r),
         ~Insert(r), ~(\E c \in Requests : Reset(r, c)), ~ResetWrite(r)
  PROVE  CodesFade
<1>0. TypeOK /\ Placed
  BY DEF IInv
<1> USE <1>0 DEF TypeOK, Placed, PlacedAt, TokenKinds, Goto, Makers, row, history, request
<1>1. CASE ResetMark(r) \/ Die(r)
  BY <1>1, LeavingFades
<1>2. CASE \E k \in TokenKinds, t \in Makers : Enter(r, k, t)
  BY <1>2, BystanderFades DEF Enter
<1>3. CASE Login(r) \/ Forgot(r) \/ Suspend(r)
  BY <1>3, BystanderFades DEF Login, Forgot, Suspend
<1>4. CASE Reissue(r) \/ Reopen(r)
  BY <1>4, BystanderFades DEF Reissue, Reopen
<1>5. CASE DeleteTenant(r) \/ Retire(r)
  BY <1>5, BystanderFades DEF DeleteTenant, Retire
<1>6. CASE Pass(r) \/ Served(r) \/ LoginTenant(r)
  BY <1>6, BystanderFades DEF Pass, Served, LoginTenant
<1>7. CASE Ready(r)
  BY <1>7, BystanderFades DEF Ready
<1>8. CASE Logout(r) \/ Revoke(r) \/ Change(r) \/ Choose(r)
  BY <1>8, BystanderFades DEF Logout, Revoke, Change, Choose
<1>9. CASE Mints(r)
  <2>1. UNCHANGED <<redeemed, doubtful, codes, kind>> /\ at[r] = "mint" /\ at'[r] = "done"
    BY <1>9, MintsLast
  <2> QED BY <2>1, BystanderFades
<1> QED
  BY <1>1, <1>2, <1>3, <1>4, <1>5, <1>6, <1>7, <1>8, <1>9 DEF StepOf, Arrive, Proceed, Mints

\* A code that is inserted is a new one: nobody is past its check.
LEMMA InsertTracked ==
  ASSUME IInv, NEW r \in Requests, Insert(r)
  PROVE  CodesTracked'
<1>0. TypeOK /\ Placed /\ CodesTracked /\ r \in Makers
  BY DEF IInv, Makers
<1>1. /\ UNCHANGED <<redeemed, doubtful, kind, code>>
      /\ at[r] = "insert" /\ at' = [at EXCEPT ![r] = "done"]
      /\ codes' = IF exists THEN [codes EXCEPT ![r] = "live"] ELSE codes
  BY DEF Insert, Goto, history
<1>2. \A k \in Requests : at'[k] = (IF k = r THEN "done" ELSE at[k])
  BY <1>0, <1>1 DEF TypeOK, Makers
<1>3. \A k, c \in Requests : Holds(k, c)' <=> Holds(k, c)
  BY <1>1, <1>2 DEF Holds, Resets
<1>4. codes[r] = "none" /\ redeemed[r] = {} /\ \A k \in Requests : ~Holds(k, r)
  BY <1>0, <1>1 DEF CodesTracked
<1>5. \A c \in Requests \ {r} : codes'[c] = codes[c]
  BY <1>0, <1>1 DEF TypeOK
<1>6. ASSUME NEW c \in Requests \ doubtful'
      PROVE  /\ \A k, l \in Requests : Holds(k, c)' /\ Holds(l, c)' => k = l
             /\ \A k \in Requests : Holds(k, c)' /\ at'[k] = "write" => redeemed'[c] = {}
             /\ \A k, l \in redeemed'[c] : k = l
             /\ redeemed'[c] # {} /\ codes'[c] = "live" => \E k \in Requests : Holds(k, c)' /\ at'[k] = "mark"
  <2>1. CASE c = r
    BY <1>1, <1>3, <1>4, <2>1
  <2>2. CASE c # r
    <3>1. c \in Requests \ doubtful /\ redeemed'[c] = redeemed[c] /\ codes'[c] = codes[c]
      BY <1>1, <1>5, <1>6, <2>2
    <3>2. \A k \in Requests : Holds(k, c) => at'[k] = at[k]
      BY <1>1, <1>2 DEF Holds
    <3> QED BY <1>0, <1>3, <3>1, <3>2 DEF CodesTracked
  <2> QED BY <2>1, <2>2
<1> QED BY <1>0, <1>1, <1>2, <1>3, <1>4, <1>5, <1>6 DEF CodesTracked

\* A reset that passes the check of a live code is the only one, or puts the code
\* in doubt.
LEMMA ResetTracked ==
  ASSUME IInv, NEW r \in Requests, NEW c \in Requests, Reset(r, c)
  PROVE  CodesTracked'
<1>0. TypeOK /\ CodesTracked /\ r \in Makers
  BY DEF IInv, Makers
<1>1. /\ UNCHANGED <<redeemed, codes>> /\ at[r] = "start" /\ codes[c] = "live"
      /\ at' = [at EXCEPT ![r] = "write"] /\ kind' = [kind EXCEPT ![r] = "reset"] /\ code' = [code EXCEPT ![r] = c]
      /\ doubtful' = IF ResetBusy(c) THEN doubtful \cup {c} ELSE doubtful
  BY DEF Reset, Goto
<1>2. \A k \in Requests : at'[k] = (IF k = r THEN "write" ELSE at[k])
  BY <1>0, <1>1 DEF TypeOK, Makers
<1>3. \A k, d \in Requests : Holds(k, d)' <=> Holds(k, d) \/ (k = r /\ d = c)
  BY <1>0, <1>1 DEF Holds, Resets, TypeOK, Makers
<1>4. \A d \in Requests : ~Holds(r, d)
  BY <1>1 DEF Holds
<1>5. ASSUME NEW d \in Requests \ doubtful'
      PROVE  /\ \A k, l \in Requests : Holds(k, d)' /\ Holds(l, d)' => k = l
             /\ \A k \in Requests : Holds(k, d)' /\ at'[k] = "write" => redeemed'[d] = {}
             /\ \A k, l \in redeemed'[d] : k = l
             /\ redeemed'[d] # {} /\ codes'[d] = "live" => \E k \in Requests : Holds(k, d)' /\ at'[k] = "mark"
  <2>1. d \in Requests \ doubtful /\ redeemed'[d] = redeemed[d] /\ codes'[d] = codes[d]
    BY <1>1, <1>5
  <2>2. CASE d = c
    <3>1. \A k \in Requests : ~Holds(k, c)
      BY <1>1, <1>5, <2>2 DEF ResetBusy, Holds, Resets
    <3>2. redeemed[c] = {}
      BY <1>0, <1>1, <2>1, <2>2, <3>1 DEF CodesTracked
    <3> QED BY <1>3, <2>1, <2>2, <3>1, <3>2
  <2>3. CASE d # c
    <3>1. \A k \in Requests : Holds(k, d) => at'[k] = at[k]
      BY <1>2, <1>4
    <3> QED BY <1>0, <1>3, <2>1, <2>3, <3>1 DEF CodesTracked
  <2> QED BY <2>2, <2>3
<1> QED BY <1>0, <1>1, <1>2, <1>3, <1>5 DEF CodesTracked

\* The reset that sets the password is the first to do so with its code.
LEMMA ResetWriteTracked ==
  ASSUME IInv, NEW r \in Requests, ResetWrite(r)
  PROVE  CodesTracked'
<1>0. TypeOK /\ CodesTracked /\ r \in Makers /\ code[r] \in Requests
  BY DEF IInv, Makers, Carried, ResetWrite
<1> DEFINE c == code[r]
<1>1. /\ UNCHANGED <<codes, doubtful, kind, code>> /\ at[r] = "write" /\ kind[r] = "reset"
      /\ at' = [at EXCEPT ![r] = "mark"]
      /\ redeemed' = [redeemed EXCEPT ![c] = IF exists THEN @ \cup {r} ELSE @]
  BY DEF ResetWrite, Goto
<1>2. \A k \in Requests : at'[k] = (IF k = r THEN "mark" ELSE at[k])
  BY <1>0, <1>1 DEF TypeOK, Makers
<1>3. Holds(r, c) /\ \A k, d \in Requests : Holds(k, d)' <=> Holds(k, d)
  BY <1>1, <1>2 DEF Holds, Resets
<1>4. \A d \in Requests \ {c} : redeemed'[d] = redeemed[d]
  BY <1>0, <1>1 DEF TypeOK
<1>5. redeemed'[c] = redeemed[c] \/ redeemed'[c] = redeemed[c] \cup {r}
  BY <1>0, <1>1 DEF TypeOK
<1>6. codes[c] # "none"
  BY <1>0, <1>3 DEF CodesTracked
<1>7. ASSUME NEW d \in Requests \ doubtful'
      PROVE  /\ \A k, l \in Requests : Holds(k, d)' /\ Holds(l, d)' => k = l
             /\ \A k \in Requests : Holds(k, d)' /\ at'[k] = "write" => redeemed'[d] = {}
             /\ \A k, l \in redeemed'[d] : k = l
             /\ redeemed'[d] # {} /\ codes'[d] = "live" => \E k \in Requests : Holds(k, d)' /\ at'[k] = "mark"
  <2>1. d \in Requests \ doubtful /\ codes'[d] = codes[d]
    BY <1>1, <1>7
  <2>2. CASE d = c
    <3>1. redeemed[c] = {} /\ \A k \in Requests : Holds(k, c) => k = r
      BY <1>0, <1>1, <1>3, <2>1, <2>2 DEF CodesTracked
    <3> QED BY <1>2, <1>3, <1>5, <2>2, <3>1
  <2>3. CASE d # c
    <3>1. \A k \in Requests : Holds(k, d) => at'[k] = at[k]
      BY <1>2, <2>3 DEF Holds, Resets
    <3> QED BY <1>0, <1>3, <1>4, <2>1, <2>3, <3>1 DEF CodesTracked
  <2> QED BY <2>2, <2>3
<1>8. \A d \in Requests : at'[d] # "done" => codes'[d] = "none"
  BY <1>0, <1>1, <1>2 DEF CodesTracked
<1>9. \A d \in Requests : codes'[d] = "none" => redeemed'[d] = {}
  BY <1>0, <1>1, <1>4, <1>6 DEF CodesTracked
<1> QED BY <1>0, <1>1, <1>3, <1>7, <1>8, <1>9 DEF CodesTracked

\* Every step keeps track of the codes.
LEMMA CodesTrackedStep ==
  ASSUME IInv, [Next]_vars
  PROVE  CodesTracked'
<1>1. CASE Passive \/ DoorStep
  BY <1>1, OthersFade, FadingTracked
<1>2. ASSUME NEW r \in Requests, StepOf(r) PROVE CodesTracked'
  BY <1>2, MostStepsFade, FadingTracked, InsertTracked, ResetTracked, ResetWriteTracked
<1> QED BY <1>1, <1>2, StepKinds

-----------------------------------------------------------------------------
(* Who issues a code.                                                       *)

Issues(r) == at[r] \in {"retire", "insert"}

\* Most steps issue no code and make none live.
IssuesFade ==
  /\ crowded => crowded'
  /\ \A r \in Requests : Issues(r)' => Issues(r) /\ at'[r] = at[r]
  /\ \A c \in Requests : codes'[c] = "live" => codes[c] = "live"

\* A step that is none of forgot_password's on the codes is one of these.
LEMMA MostIssueNothing ==
  ASSUME IInv, [Next]_vars, \A r \in Requests : ~Forgot(r) /\ ~Retire(r) /\ ~Insert(r)
  PROVE  IssuesFade
<1>0. TypeOK /\ Placed
  BY DEF IInv
<1>1. CASE Passive \/ DoorStep
  <2>1. crowded' = crowded /\ \A r \in Requests : at'[r] = at[r]
    BY <1>0, <1>1, PassiveSteps, DoorSteps
  <2>2. \A c \in Requests : codes'[c] = "live" => codes[c] = "live"
    BY <1>1, OthersFade DEF CodesFade
  <2> QED BY <2>1, <2>2 DEF IssuesFade, Issues
<1>2. ASSUME NEW r \in Requests, StepOf(r) PROVE IssuesFade
  <2> USE <1>0 DEF TypeOK, Goto, Makers
  <2>1. \A k \in Requests \ {r} : at'[k] = at[k]
    BY <1>2, RequestsKeepApart
  <2>2. ASSUME crowded => crowded', at'[r] \notin {"retire", "insert"},
               \A c \in Requests : codes'[c] = "live" => codes[c] = "live"
        PROVE  IssuesFade
    BY <2>1, <2>2 DEF IssuesFade, Issues
  <2>3. CASE (\E c \in Requests : Reset(r, c)) \/ Login(r) \/ Suspend(r) \/ Reissue(r) \/ Reopen(r) \/ DeleteTenant(r)
    BY <2>2, <2>3 DEF Reset, Login, Suspend, Reissue, Reopen, DeleteTenant, history
  <2>4. CASE \E k \in TokenKinds, t \in Makers : Enter(r, k, t)
    BY <2>2, <2>4 DEF Enter
  <2>5. CASE Pass(r) \/ Served(r) \/ Ready(r) \/ LoginTenant(r)
    BY <2>2, <2>5 DEF Pass, Served, Ready, LoginTenant, history
  <2>6. CASE Logout(r) \/ Revoke(r) \/ Change(r) \/ Choose(r)
    BY <2>2, <2>6 DEF Logout, Revoke, Change, Choose
  <2>7. CASE ResetWrite(r) \/ ResetMark(r) \/ Die(r)
    BY <2>2, <2>7 DEF ResetWrite, ResetMark, Die, history
  <2>8. CASE Mints(r)
    BY <2>2, <2>8, MintsLast DEF history
  <2> QED
    BY <1>2, <2>3, <2>4, <2>5, <2>6, <2>7, <2>8 DEF StepOf, Arrive, Proceed, Mints, TokenKinds
<1> QED BY <1>1, <1>2, StepKinds

\* One request at a time issues a code, and leaves one live, unless crowded.
LEMMA IssuerStep ==
  ASSUME IInv, [Next]_vars
  PROVE  OneIssuer' /\ OneLiveCode'
<1>0. TypeOK /\ Placed /\ OneIssuer /\ OneLiveCode
  BY DEF IInv
<1>1. CASE IssuesFade
  BY <1>0, <1>1 DEF IssuesFade, Issues, OneIssuer, OneLiveCode
<1>2. ASSUME NEW r \in Requests, Forgot(r) PROVE OneIssuer' /\ OneLiveCode'
  <2>1. /\ at[r] = "start" /\ codes' = codes /\ crowded' = (crowded \/ ForgotBusy(r))
        /\ \A k \in Requests : at'[k] = (IF k = r THEN "retire" ELSE at[k])
    BY <1>0, <1>2 DEF Forgot, Goto, TypeOK, Makers
  <2>2. ASSUME ~crowded' PROVE \A k \in Requests \ {r} : ~Issues(k)
    BY <1>0, <2>1, <2>2 DEF ForgotBusy, Issues, Placed, PlacedAt
  <2> QED BY <1>0, <2>1, <2>2 DEF OneIssuer, OneLiveCode, Issues
<1>3. ASSUME NEW r \in Requests, Retire(r) PROVE OneIssuer' /\ OneLiveCode'
  <2>1. /\ at[r] = "retire"
        /\ \A k \in Requests : at'[k] = (IF k = r THEN "insert" ELSE at[k])
        /\ crowded' \/ (crowded' = crowded /\ \A c \in Requests : codes'[c] # "live")
    BY <1>0, <1>3 DEF Retire, Goto, TypeOK, Makers
  <2> QED BY <1>0, <2>1 DEF OneIssuer, OneLiveCode
<1>4. ASSUME NEW r \in Requests, Insert(r) PROVE OneIssuer' /\ OneLiveCode'
  <2>1. /\ at[r] = "insert" /\ crowded' = crowded
        /\ \A k \in Requests : at'[k] = (IF k = r THEN "done" ELSE at[k])
        /\ \A c \in Requests \ {r} : codes'[c] = codes[c]
    BY <1>0, <1>4 DEF Insert, Goto, TypeOK, Makers, history
  <2> QED BY <1>0, <2>1 DEF OneIssuer, OneLiveCode
<1> QED BY <1>1, <1>2, <1>3, <1>4, MostIssueNothing

-----------------------------------------------------------------------------
(* The latch of the first password.                                         *)

\* Only the sign-up mints a token with the claim.
LEMMA MintedByDoor ==
  ASSUME IInv, [Next]_vars, NEW i \in Makers, tokens'[i] # NoToken, tokens'[i].minted
  PROVE  at'[Door] = "done"
<1>0. TypeOK /\ Placed /\ LatchOpensOnce
  BY DEF IInv
<1>1. CASE tokens'[i] = tokens[i]
  BY <1>0, <1>1, DoneStays DEF LatchOpensOnce, Makers
<1>2. CASE tokens'[i] # tokens[i]
  <2>1. CASE Passive
    BY <1>2, <2>1, PassiveSteps
  <2>2. CASE DoorStep
    BY <1>0, <1>2, <2>2, DoorSteps DEF Makers
  <2>3. ASSUME NEW r \in Requests, StepOf(r) PROVE at'[Door] = "done"
    <3>1. i = r /\ Mints(r)
      BY <1>0, <1>2, <2>3, RequestsKeepApart, TokensOf
    <3>2. ~tokens'[r].minted
      BY <1>0, <3>1 DEF TypeOK, Makers, Mints, ChangeMint, LogoutMint, LoginMint, Mint
    <3> QED BY <3>1, <3>2
  <2> QED BY <2>1, <2>2, <2>3, StepKinds
<1> QED BY <1>1, <1>2

\* Who gets to choose a first password came with the sign-up's token.
LEMMA ChooserCameLate ==
  ASSUME IInv, [Next]_vars, NEW r \in Requests, at'[r] = "write", kind'[r] = "initial"
  PROVE  at[Door] = "done"
<1>0. TypeOK /\ Placed /\ Carried /\ LatchOpensOnce
  BY DEF IInv
<1>1. CASE at[r] = "write" /\ kind[r] = "initial"
  BY <1>0, <1>1 DEF LatchOpensOnce
<1>2. CASE Passive \/ DoorStep
  BY <1>0, <1>1, <1>2, PassiveSteps, DoorSteps
<1>3. ASSUME NEW k \in Requests, StepOf(k), k # r PROVE at[Door] = "done"
  BY <1>0, <1>1, <1>3, RequestsKeepApart DEF Makers
<1>4. CASE StepOf(r)
  <2> USE <1>0 DEF TypeOK, Goto, Makers
  <2>1. CASE Ready(r)
    BY <2>1 DEF Ready, Carried, TokenKinds, LatchOpensOnce
  <2>2. CASE (\E c \in Requests : Reset(r, c)) \/ Login(r) \/ Forgot(r) \/ Suspend(r) \/ Reissue(r) \/ Reopen(r)
             \/ DeleteTenant(r) \/ Die(r)
    BY <2>2 DEF Reset, Login, Forgot, Suspend, Reissue, Reopen, DeleteTenant, Die
  <2>3. CASE \E k \in TokenKinds, t \in Makers : Enter(r, k, t)
    BY <2>3 DEF Enter
  <2>4. CASE Pass(r) \/ Served(r) \/ LoginTenant(r) \/ Logout(r) \/ Revoke(r) \/ Retire(r) \/ Insert(r)
             \/ ResetMark(r)
    BY <2>4 DEF Pass, Served, LoginTenant, Logout, Revoke, Retire, Insert, ResetMark
  <2>5. CASE Change(r) \/ Choose(r) \/ ResetWrite(r)
    BY <2>5 DEF Change, Choose, ResetWrite
  <2>6. CASE Mints(r)
    BY <2>6, MintsLast
  <2> QED
    BY <1>4, <2>1, <2>2, <2>3, <2>4, <2>5, <2>6 DEF StepOf, Arrive, Proceed, Mints, TokenKinds
<1> QED BY <1>2, <1>3, <1>4, StepKinds

\* A first password is chosen through the open latch, which closes behind it.
LEMMA ChosenStep ==
  ASSUME IInv, [Next]_vars
  PROVE  \/ chosen' = chosen /\ (undelivered' = undelivered \/ undelivered' = FALSE \/ at[Door] # "done")
         \/ \E r \in Requests : at[r] = "write" /\ kind[r] = "initial" /\ undelivered
                                /\ chosen' = chosen \cup {r} /\ undelivered' = FALSE /\ at'[Door] = at[Door]
<1> DEFINE Goal ==
      \/ chosen' = chosen /\ (undelivered' = undelivered \/ undelivered' = FALSE \/ at[Door] # "done")
      \/ \E r \in Requests : at[r] = "write" /\ kind[r] = "initial" /\ undelivered
                             /\ chosen' = chosen \cup {r} /\ undelivered' = FALSE /\ at'[Door] = at[Door]
<1>0. TypeOK /\ Placed
  BY DEF IInv
<1>1. CASE Passive
  BY <1>1, PassiveSteps
<1>2. CASE DoorStep
  BY <1>0, <1>2, DoorSteps
<1>3. ASSUME NEW r \in Requests, StepOf(r) PROVE Goal
  <2>1. CASE Choose(r)
    <3>1. at'[Door] = at[Door]
      BY <1>0, <1>3, RequestsKeepApart, DoorAssumption DEF Makers
    <3>2. at[r] = "write" /\ kind[r] = "initial"
      BY <2>1 DEF Choose
    <3>3. CASE undelivered /\ exists
      BY <2>1, <3>1, <3>2, <3>3 DEF Choose, SetPassword
    <3>4. CASE ~(undelivered /\ exists)
      BY <2>1, <3>4 DEF Choose, SetPassword
    <3> QED BY <3>3, <3>4
  <2>2. CASE ~Choose(r)
    <3>1. chosen' = chosen
      BY <1>0, <1>3, <2>2, MintsLast DEF TypeOK, StepOf, Arrive, Proceed, Mints, history, Enter, Login, Forgot, Reset,
         Reissue, Suspend, Reopen, DeleteTenant, Pass, Served, Ready, Change, Logout, LoginTenant, Retire, Insert,
         ResetWrite, ResetMark, Revoke, Die
    <3>2. undelivered' = undelivered \/ undelivered' = FALSE
      BY <1>0, <1>3, LineOf DEF Sets
    <3> QED BY <3>1, <3>2
  <2> QED BY <2>1, <2>2
<1> QED BY <1>1, <1>2, <1>3, StepKinds

\* The latch is open once at most, and what was chosen through it stays.
LEMMA LatchStep ==
  ASSUME IInv, [Next]_vars
  PROVE  LatchOpensOnce' /\ FirstPasswordOnce'
<1>0. TypeOK /\ Placed /\ LatchOpensOnce /\ FirstPasswordOnce /\ Door \in Makers
  BY DEF IInv, Makers
<1>1. \A r \in Requests : at'[r] = "write" /\ kind'[r] = "initial" => at'[Door] = "done"
  BY <1>0, ChooserCameLate, DoneStays
<1>2. \A i \in Makers : tokens'[i] # NoToken /\ tokens'[i].minted => at'[Door] = "done"
  BY MintedByDoor
<1>3. CASE chosen' = chosen /\ (undelivered' = undelivered \/ undelivered' = FALSE \/ at[Door] # "done")
  <2>1. chosen' # {} => at'[Door] = "done" /\ ~undelivered'
    BY <1>0, <1>3, DoneStays DEF LatchOpensOnce
  <2> QED BY <1>0, <1>1, <1>2, <1>3, <2>1 DEF LatchOpensOnce, FirstPasswordOnce
<1>4. ASSUME NEW r \in Requests, at[r] = "write", kind[r] = "initial", undelivered,
             chosen' = chosen \cup {r}, undelivered' = FALSE, at'[Door] = at[Door]
      PROVE  LatchOpensOnce' /\ FirstPasswordOnce'
  <2>1. chosen = {} /\ at[Door] = "done"
    BY <1>0, <1>4 DEF LatchOpensOnce
  <2> QED BY <1>1, <1>2, <1>4, <2>1 DEF LatchOpensOnce, FirstPasswordOnce
<1> QED BY <1>3, <1>4, ChosenStep

-----------------------------------------------------------------------------
(* The suspended workspace.                                                 *)

\* Who comes while the workspace is shut is barred until it is opened or deleted;
\* nothing else opens it.
LEMMA BarredStep ==
  ASSUME IInv, [Next]_vars
  PROVE  \/ barred' = {}
         \/ barred' = barred /\ (Shut => Shut')
         \/ \E r \in Requests : /\ at[r] = "start" /\ at'[r] \in {"tenant", "done"}
                                /\ barred' = barred \cup {r} /\ Shut /\ Shut'
<1> DEFINE Goal ==
      \/ barred' = {}
      \/ barred' = barred /\ (Shut => Shut')
      \/ \E r \in Requests : /\ at[r] = "start" /\ at'[r] \in {"tenant", "done"}
                             /\ barred' = barred \cup {r} /\ Shut /\ Shut'
<1>0. TypeOK /\ Placed
  BY DEF IInv
<1>1. CASE Passive
  BY <1>1, PassiveSteps DEF Shut
<1>2. CASE DoorStep
  BY <1>0, <1>2, DoorSteps DEF Shut
<1>3. ASSUME NEW r \in Requests, StepOf(r) PROVE Goal
  <2> USE <1>0 DEF TypeOK, Goto, Makers, row, history, request, Shut
  <2>1. ASSUME NEW k \in TokenKinds, NEW t \in Makers, Enter(r, k, t) PROVE Goal
    BY <2>1 DEF Enter
  <2>2. CASE Login(r)
    BY <2>2 DEF Login
  <2>3. CASE Reopen(r) \/ DeleteTenant(r) \/ Suspend(r)
    BY <2>3 DEF Reopen, DeleteTenant, Suspend
  <2>4. CASE Forgot(r) \/ Reissue(r) \/ (\E c \in Requests : Reset(r, c))
    BY <2>4 DEF Forgot, Reissue, Reset
  <2>5. CASE Pass(r) \/ Served(r) \/ Ready(r) \/ LoginTenant(r) \/ Retire(r) \/ Insert(r) \/ ResetMark(r) \/ Die(r)
    BY <2>5 DEF Pass, Served, Ready, LoginTenant, Retire, Insert, ResetMark, Die
  <2>6. CASE Logout(r) \/ Revoke(r) \/ Change(r) \/ Choose(r) \/ ResetWrite(r)
    BY <2>6 DEF Logout, Revoke, Change, Choose, ResetWrite
  <2>7. CASE Mints(r)
    BY <2>7, MintsLast
  <2> QED
    BY <1>3, <2>1, <2>2, <2>3, <2>4, <2>5, <2>6, <2>7 DEF StepOf, Arrive, Proceed, Mints, TokenKinds
<1> QED BY <1>1, <1>2, <1>3, StepKinds

\* Who stands at the middleware's second read goes no further while it is shut.
LEMMA ShutOut ==
  ASSUME IInv, [Next]_vars, Shut, NEW r \in Requests, at[r] = "tenant"
  PROVE  at'[r] \in {"tenant", "done"} /\ tokens'[r] = tokens[r]
<1>0. TypeOK /\ Placed
  BY DEF IInv
<1>1. CASE Passive \/ DoorStep
  BY <1>0, <1>1, PassiveSteps, DoorSteps
<1>2. ASSUME NEW k \in Requests, StepOf(k), k # r PROVE at'[r] \in {"tenant", "done"} /\ tokens'[r] = tokens[r]
  BY <1>0, <1>2, RequestsKeepApart DEF Makers
<1>3. CASE StepOf(r)
  <2>1. Pass(r) \/ LoginTenant(r) \/ Die(r)
    BY <1>0, <1>3 DEF StepOf, Arrive, Proceed, Enter, Login, Forgot, Reset, Reissue, Suspend, Reopen, DeleteTenant,
       Served, Ready, Change, ChangeMint, Logout, LogoutMint, Choose, LoginMint, Retire, Insert, ResetWrite,
       ResetMark, Revoke
  <2> QED BY <1>0, <2>1 DEF Pass, LoginTenant, Die, TypeOK, Goto, Makers
<1> QED BY <1>1, <1>2, <1>3, StepKinds

\* Who is barred stays where the middleware stopped him.
LEMMA SuspendedStep ==
  ASSUME IInv, [Next]_vars
  PROVE  BarredWhileShut' /\ SuspendedIsShut'
<1>0. TypeOK /\ Placed /\ MintedLast /\ BarredWhileShut /\ SuspendedIsShut /\ barred \subseteq Requests
  BY DEF IInv, TypeOK
<1>1. CASE barred' = {}
  BY <1>1 DEF BarredWhileShut, SuspendedIsShut
<1>2. ASSUME NEW r \in barred PROVE at'[r] \in {"tenant", "done"} /\ tokens'[r] = NoToken
  <2>1. Shut /\ r \in Requests /\ r \in Makers /\ at[r] \in {"tenant", "done"} /\ tokens[r] = NoToken
    BY <1>0, <1>2 DEF BarredWhileShut, SuspendedIsShut, Makers
  <2>2. CASE at[r] = "tenant"
    BY <2>1, <2>2, ShutOut
  <2>3. CASE at[r] = "done"
    BY <2>1, <2>3, DoneStays, CallerMints
  <2> QED BY <2>1, <2>2, <2>3
<1>3. CASE barred' = barred /\ (Shut => Shut')
  BY <1>0, <1>2, <1>3 DEF BarredWhileShut, SuspendedIsShut
<1>4. ASSUME NEW r \in Requests, at[r] = "start", at'[r] \in {"tenant", "done"}, barred' = barred \cup {r}, Shut'
      PROVE  BarredWhileShut' /\ SuspendedIsShut'
  <2>1. tokens'[r] = NoToken
    BY <1>0, <1>4, CallerMints DEF MintedLast, Makers
  <2> QED BY <1>2, <1>4, <2>1 DEF BarredWhileShut, SuspendedIsShut
<1> QED BY <1>1, <1>3, <1>4, BarredStep

-----------------------------------------------------------------------------
(* The invariant.                                                           *)

\* The account has just been made, and nothing has happened.
LEMMA InitIInv == Init => IInv
<1> SUFFICES ASSUME Init PROVE IInv
  OBVIOUS
<1> USE ClockAssumption, DoorAssumption DEF Init, Makers
<1>1. TypeOK
  <2>1. now \in 0..MaxTime /\ line \in 0..(MaxTime + DbAhead)
    OBVIOUS
  <2>2. at \in [Makers -> Steps] /\ kind \in [Makers -> Kinds]
    BY DEF Steps, Kinds
  <2>3. redeemed \in [Requests -> SUBSET Requests] /\ tokens \in [Makers -> Token \cup {NoToken}]
    OBVIOUS
  <2> QED BY <2>1, <2>2, <2>3 DEF TypeOK
<1>2. Placed /\ Carried /\ MintedLast
  BY DEF Placed, Carried, MintedLast, PlacedAt, Kinds
<1>3. NothingAhead
  BY DEF NothingAhead, DbNow
<1>4. RestsOnCurrent /\ SessionEndsWithPassword
  BY DEF RestsOnCurrent, RestsFor, SessionEndsWithPassword, Usable
<1>5. ChangerMintsByLine /\ ChangerStaysIn /\ LogoutLagsBySkew
  BY DEF ChangerMintsByLine, ChangerStaysIn, LogoutLagsBySkew
<1>6. CodesTracked
  BY DEF CodesTracked, Holds, Resets
<1>7. OneIssuer /\ OneLiveCode
  BY DEF OneIssuer, OneLiveCode
<1>8. LatchOpensOnce /\ FirstPasswordOnce
  BY DEF LatchOpensOnce, FirstPasswordOnce
<1>9. BarredWhileShut /\ SuspendedIsShut
  BY DEF BarredWhileShut, SuspendedIsShut
<1> QED BY <1>1, <1>2, <1>3, <1>4, <1>5, <1>6, <1>7, <1>8, <1>9 DEF IInv

\* Every step keeps it.
LEMMA NextIInv == IInv /\ [Next]_vars => IInv'
<1> SUFFICES ASSUME IInv, [Next]_vars PROVE IInv'
  OBVIOUS
<1>1. TypeOK' /\ Placed' /\ Carried' /\ MintedLast'
  BY TypeStep, PlacedStep, CarriedStep, MintedLastStep
<1>2. NothingAhead' /\ RestsOnCurrent' /\ SessionEndsWithPassword'
  BY NothingAheadStep, RestsOnCurrentStep, SessionEndsStep
<1>3. ChangerMintsByLine' /\ ChangerStaysIn' /\ LogoutLagsBySkew'
  BY ChangerMintsByLineStep, CallerStep
<1>4. CodesTracked' /\ OneIssuer' /\ OneLiveCode'
  BY CodesTrackedStep, IssuerStep
<1>5. LatchOpensOnce' /\ FirstPasswordOnce' /\ BarredWhileShut' /\ SuspendedIsShut'
  BY LatchStep, SuspendedStep
<1> QED BY <1>1, <1>2, <1>3, <1>4, <1>5 DEF IInv

\* The invariant holds in every behaviour.
THEOREM Invariance == Spec => []IInv
BY InitIInv, NextIInv, PTL DEF Spec

\* Every state of the account and its requests is well typed.
THEOREM TypeCorrect == Spec => []TypeOK
<1>1. IInv => TypeOK
  BY DEF IInv
<1> QED BY <1>1, Invariance, PTL

\* A change of the password, a reset, a first password or a re-issue ends every
\* session that rests on another password, but for those of its own second and of
\* requests already past their check (the line of change_password and the rest).
THEOREM SessionsEnd == Spec => []SessionEndsWithPassword
<1>1. IInv => SessionEndsWithPassword
  BY DEF IInv
<1> QED BY <1>1, Invariance, PTL

\* Whoever changes the password stays signed in, whatever the skew of the clocks
\* (change_password mints by the line it wrote).
THEOREM ChangerNeverLockedOut == Spec => []ChangerStaysIn
<1>1. IInv => ChangerStaysIn
  BY DEF IInv
<1> QED BY <1>1, Invariance, PTL

\* Whoever logs out everywhere gets a token that is behind the line by the skew
\* at most (logout_all mints by the server's clock, the line is the database's).
THEOREM LogoutLag == Spec => []LogoutLagsBySkew
<1>1. IInv => LogoutLagsBySkew
  BY DEF IInv
<1> QED BY <1>1, Invariance, PTL

\* So while the server's clock is not behind the database's, whoever moves the line
\* stays signed in.
THEOREM CallersStayIn == ASSUME DbAhead <= ServerAhead PROVE Spec => []CallerStaysIn
<1>1. IInv => CallerStaysIn
  <2> SUFFICES ASSUME IInv, NEW r \in Requests, lineBy = r, kind[r] \in {"change", "logout"}, tokens[r] # NoToken
               PROVE  tokens[r].iat >= line
    BY DEF CallerStaysIn
  <2>1. tokens[r].iat \in Nat
    BY DEF IInv, TypeOK, Makers, Token
  <2>2. CASE kind[r] = "change"
    BY <2>2 DEF IInv, ChangerStaysIn
  <2>3. CASE kind[r] = "logout"
    <3>1. tokens[r].iat + DbAhead >= line + ServerAhead
      BY <2>3 DEF IInv, LogoutLagsBySkew
    <3>2. line \in Nat /\ DbAhead \in Nat /\ ServerAhead \in Nat
      BY ClockAssumption DEF IInv, TypeOK
    <3> QED BY <2>1, <3>1, <3>2
  <2> QED BY <2>2, <2>3
<1> QED BY <1>1, Invariance, PTL

\* A reset code sets one password, unless two requests were past its check at once
\* or one died before it marked the code (reset_password).
THEOREM CodesRedeemedOnce == Spec => []CodeRedeemedOnce
<1>1. IInv => CodeRedeemedOnce
  <2> SUFFICES ASSUME IInv, NEW c \in Requests \ doubtful PROVE ~(Cardinality(redeemed[c]) > 1)
    BY DEF CodeRedeemedOnce
  <2>1. \A r, k \in redeemed[c] : r = k
    BY DEF IInv, CodesTracked
  <2>2. CASE redeemed[c] = {}
    BY <2>2, FS_EmptySet
  <2>3. ASSUME NEW r \in redeemed[c] PROVE ~(Cardinality(redeemed[c]) > 1)
    <3>1. redeemed[c] = {r}
      BY <2>1
    <3>2. Cardinality(redeemed[c]) = 1
      BY <3>1, FS_Singleton
    <3> QED BY <3>2
  <2> QED BY <2>2, <2>3
<1> QED BY <1>1, Invariance, PTL

\* Of the codes of an account one is live, unless requests for them overlapped or
\* a retirement failed (send_reset_for_log).
THEOREM OneCodeLive == Spec => []OneLiveCode
<1>1. IInv => OneLiveCode
  BY DEF IInv
<1> QED BY <1>1, Invariance, PTL

\* The session of the sign-up chooses a first password at most once
\* (set_initial_password and its latch).
THEOREM FirstPasswordChosenOnce == Spec => []FirstPasswordOnce
<1>1. IInv => FirstPasswordOnce
  BY DEF IInv
<1> QED BY <1>1, Invariance, PTL

\* Nobody who comes while the workspace is suspended is let in or gets a token
\* (auth_middleware, login).
THEOREM SuspensionShuts == Spec => []SuspendedIsShut
<1>1. IInv => SuspendedIsShut
  BY DEF IInv
<1> QED BY <1>1, Invariance, PTL
=============================================================================
