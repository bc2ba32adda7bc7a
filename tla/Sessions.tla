------------------------------- MODULE Sessions -------------------------------
(***************************************************************************)
(* The sessions of one account, the owner's of a workspace                 *)
(* (src/src/auth/handlers.rs, auth/middleware.rs): who holds a token that  *)
(* the middleware still lets in, after sign-up, sign-in, password change,  *)
(* reset, first password, logout everywhere, the operator's re-issue,      *)
(* suspension and deletion of the workspace.                               *)
(*                                                                         *)
(* A token is only signed, never stored: what ends it is the column        *)
(* sessions_valid_from, the LINE, compared in whole seconds with the second*)
(* the token was minted in. Each request reads, hashes, writes and mints at*)
(* different moments, so requests overtake each other at every await: one  *)
(* action per statement.                                                   *)
(*                                                                         *)
(* A request serves once, and names what it makes: the password it sets,   *)
(* the token it mints, the reset code it issues.                           *)
(***************************************************************************)
EXTENDS Naturals, FiniteSets

CONSTANTS
  Requests,
  Door,       \* the sign-up that made the account: one more maker
  DbAhead,    \* how far the database's clock is ahead of the time,
  ServerAhead,    \* and how far the server's: either can be ahead of the other
  MaxTime,    \* bound: the clock stops here
  NoToken

Makers == Requests \cup {Door}

\* knew: the password whose knowledge the session rests on (for properties).
Token == [iat : Nat, minted : BOOLEAN, knew : Makers]

ASSUME DoorAssumption  == Door \notin Requests
ASSUME ClockAssumption == DbAhead \in Nat /\ ServerAhead \in Nat /\ MaxTime \in Nat
ASSUME NoTokenAssumption == NoToken \notin Token

VARIABLES
  now,          \* the time, in seconds
  exists,       \* the account's row in users
  password,     \* users.password_hash, as the maker that set it
  line,         \* users.sessions_valid_from; 0 for NULL: it ends nothing
  undelivered,  \* users.password_undelivered
  open,         \* tenants.is_active
  codes,        \* password_resets: each maker's code
  kind,         \* what each request is
  at,           \* where it is
  session,      \* the token it came with
  seen,         \* the line as it read it, or the line it wrote
  code,         \* the reset code it came with
  tokens,       \* the token each maker has minted
  \* history, for the properties only
  excused,      \* makers whose token may outlive the password it rests on
  lineBy,       \* who moved the line last
  redeemed,     \* for each code, the requests that set a password with it
  doubtful,     \* codes two requests used at once, or whose request died
  crowded,      \* two requests for a code overlapped, or a retirement failed
  chosen,       \* requests that set a first password
  barred        \* requests that came while the workspace was shut

row     == <<exists, password, line, undelivered>>
request == <<kind, at, session, seen, code>>
history == <<excused, lineBy, redeemed, doubtful, crowded, chosen, barred>>
vars == <<now, row, open, codes, request, tokens, history>>

Kinds == {"call", "change", "logout", "initial", "login", "forgot", "reset", "suspend"}
Steps == {"start", "latch", "mint", "tenant", "in", "write", "retire", "insert",
          "mark", "revoke", "claim", "done"}

TypeOK ==
  /\ now \in 0..MaxTime
  /\ exists \in BOOLEAN /\ undelivered \in BOOLEAN /\ open \in BOOLEAN
  /\ password \in Makers /\ lineBy \in Makers
  /\ line \in 0..(MaxTime + DbAhead)
  /\ codes \in [Requests -> {"none", "live", "used"}]
  /\ kind \in [Makers -> Kinds]
  /\ at \in [Makers -> Steps]
  /\ session \in [Makers -> Makers]
  /\ seen \in [Makers -> Nat]
  /\ code \in [Makers -> Makers]
  /\ tokens \in [Makers -> Token \cup {NoToken}]
  /\ excused \subseteq Makers /\ doubtful \subseteq Requests
  /\ redeemed \in [Requests -> SUBSET Requests]
  /\ crowded \in BOOLEAN
  /\ chosen \subseteq Requests /\ barred \subseteq Requests

Init ==
  /\ now = 0
  /\ exists = TRUE /\ password = Door /\ line = 0 /\ undelivered = FALSE
  /\ open = TRUE
  /\ codes = [r \in Requests |-> "none"]
  /\ kind = [i \in Makers |-> "call"]
  /\ at = [i \in Makers |-> IF i = Door THEN "latch" ELSE "start"]
  /\ session = [i \in Makers |-> Door]
  /\ seen = [i \in Makers |-> 0]
  /\ code = [i \in Makers |-> Door]
  /\ tokens = [i \in Makers |-> NoToken]
  /\ excused = {} /\ lineBy = Door
  /\ redeemed = [r \in Requests |-> {}]
  /\ doubtful = {} /\ crowded = FALSE /\ chosen = {} /\ barred = {}

Tick ==
  /\ now < MaxTime
  /\ now' = now + 1
  /\ UNCHANGED <<row, open, codes, request, tokens, history>>

Goto(i, step) == at' = [at EXCEPT ![i] = step]

\* tenant_is_active = Some(false); a workspace that is not there is not suspended.
Shut == exists /\ ~open

-----------------------------------------------------------------------------
(* What several requests do.                                                *)

\* Mutant: rounded up.
DbNowCeiling == now + DbAhead + 1

\* NOW() of a statement, floored to its second.
DbNow == now + DbAhead

\* Utc::now() of the server, which signs the iat of a token.
ServerNow == now + ServerAhead

\* Requests past their first read, and not yet through.
InFlight == {i \in Makers : at[i] \notin {"start", "done"}}

\* Tokens of the second the line moves to, and of the seconds after it that the
\* server's clock, if it is ahead, has shown already: iat < line ends none of them.
PastLine ==
  {i \in Makers : tokens[i] # NoToken /\ tokens[i].iat \in {DbNow} \cup (DbNow..ServerNow)}

MoveLine(i) ==
  /\ line' = DbNow
  /\ lineBy' = i

\* UPDATE users SET password_hash, password_undelivered = false,
\* sessions_valid_from = NOW(): the same in every handler. Nothing without a row.
SetPassword(i) ==
  IF exists
  THEN /\ password' = i /\ undelivered' = FALSE
       /\ MoveLine(i)
       /\ excused' = excused \cup (InFlight \ {i}) \cup PastLine
  ELSE UNCHANGED <<password, undelivered, line, lineBy, excused>>

Mint(i, iat, minted, knew) ==
  tokens' = [tokens EXCEPT ![i] = [iat |-> iat, minted |-> minted, knew |-> knew]]

\* The request ends: it was refused, a statement failed, or its client hung up.
Die(i) ==
  /\ at[i] \notin {"start", "done"}
  /\ Goto(i, "done")
  /\ doubtful' = IF at[i] = "mark" THEN doubtful \cup {code[i]} ELSE doubtful
  /\ UNCHANGED <<now, row, open, codes, kind, session, seen, code, tokens, excused, lineBy,
                 redeemed, crowded, chosen, barred>>

-----------------------------------------------------------------------------
(* register, after create_account has committed the account.                *)

\* The mail with the minted password went out, or the visitor chose the password;
\* otherwise the account is marked, so that this one session may choose one.
DoorDelivered ==
  /\ at[Door] = "latch"
  /\ Goto(Door, "mint")
  /\ UNCHANGED <<now, row, open, codes, kind, session, seen, code, tokens, history>>

DoorLatch ==
  /\ at[Door] = "latch"
  /\ undelivered' = exists
  /\ Goto(Door, "claim")
  /\ UNCHANGED <<now, exists, password, line, open, codes, kind, session, seen, code, tokens,
                 history>>

DoorMint ==
  /\ at[Door] \in {"mint", "claim"}
  /\ Mint(Door, ServerNow, at[Door] = "claim", Door)    \* claims.pwd_minted
  /\ Goto(Door, "done")
  /\ UNCHANGED <<now, row, open, codes, kind, session, seen, code, history>>

-----------------------------------------------------------------------------
(* auth_middleware: every request that comes with a token.                  *)

\* The read of the users row: its existence and its line.
Enter(r, k, t) ==
  /\ at[r] = "start"
  /\ tokens[t] # NoToken
  /\ kind' = [kind EXCEPT ![r] = k]
  /\ session' = [session EXCEPT ![r] = t]
  /\ seen' = [seen EXCEPT ![r] = line]
  /\ Goto(r, IF exists THEN "tenant" ELSE "done")
  /\ excused' = IF t \in excused THEN excused \cup {r} ELSE excused
  /\ barred' = IF Shut THEN barred \cup {r} ELSE barred
  /\ UNCHANGED <<now, row, open, codes, code, tokens, lineBy, redeemed, doubtful, crowded, chosen>>

\* Mutant: the workspace is not looked at.
PassUnlessRevoked(r) ==
  /\ at[r] = "tenant" /\ kind[r] # "login"
  /\ Goto(r, IF tokens[session[r]].iat >= seen[r] THEN "in" ELSE "done")
  /\ UNCHANGED <<now, row, open, codes, kind, session, seen, code, tokens, history>>

\* The read of the workspace, and the comparison with the line read before.
Pass(r) ==
  /\ at[r] = "tenant" /\ kind[r] # "login"
  /\ Goto(r, IF ~Shut /\ tokens[session[r]].iat >= seen[r] THEN "in" ELSE "done")
  /\ UNCHANGED <<now, row, open, codes, kind, session, seen, code, tokens, history>>

\* Any other protected route: served.
Served(r) ==
  /\ at[r] = "in" /\ kind[r] = "call"
  /\ Goto(r, "done")
  /\ UNCHANGED <<now, row, open, codes, kind, session, seen, code, tokens, history>>

-----------------------------------------------------------------------------
(* change_password, logout_all, set_initial_password.                       *)

\* change_password reads the row and verifies the current password (a wrong one
\* is a request that ends here); logout_all reads the row; set_initial_password
\* needs the claim.
Ready(r) ==
  /\ at[r] = "in"
  /\ \/ kind[r] \in {"change", "logout"} /\ exists
     \/ kind[r] = "initial" /\ tokens[session[r]].minted
  /\ Goto(r, "write")
  /\ UNCHANGED <<now, row, open, codes, kind, session, seen, code, tokens, history>>

\* The UPDATE ... RETURNING of change_password: without a row it is an error.
Change(r) ==
  /\ at[r] = "write" /\ kind[r] = "change"
  /\ SetPassword(r)
  /\ seen' = [seen EXCEPT ![r] = DbNow]
  /\ Goto(r, IF exists THEN "mint" ELSE "done")
  /\ UNCHANGED <<now, exists, open, codes, kind, session, code, tokens, redeemed, doubtful,
                 crowded, chosen, barred>>

\* Mutant: the new token keeps the second of the caller's old one.
ChangeMintEchoed(r) ==
  /\ at[r] = "mint" /\ kind[r] = "change"
  /\ Mint(r, tokens[session[r]].iat, FALSE, r)
  /\ Goto(r, "done")
  /\ UNCHANGED <<now, row, open, codes, kind, session, seen, code, history>>

\* The caller's new token, of the very second that was written.
ChangeMint(r) ==
  /\ at[r] = "mint" /\ kind[r] = "change"
  /\ Mint(r, seen[r], FALSE, r)
  /\ Goto(r, "done")
  /\ UNCHANGED <<now, row, open, codes, kind, session, seen, code, history>>

\* The UPDATE of logout_all; the row may be gone by now.
Logout(r) ==
  /\ at[r] = "write" /\ kind[r] = "logout"
  /\ IF exists THEN MoveLine(r) ELSE UNCHANGED <<line, lineBy>>
  /\ Goto(r, "mint")
  /\ UNCHANGED <<now, exists, password, undelivered, open, codes, kind, session, seen, code,
                 tokens, excused, redeemed, doubtful, crowded, chosen, barred>>

\* Its new token, of the second the server's clock shows.
LogoutMint(r) ==
  /\ at[r] = "mint" /\ kind[r] = "logout"
  /\ Mint(r, ServerNow, FALSE, tokens[session[r]].knew)
  /\ Goto(r, "done")
  /\ UNCHANGED <<now, row, open, codes, kind, session, seen, code, history>>

\* Mutant: the claim alone opens the door.
ChooseUnlatched(r) ==
  /\ at[r] = "write" /\ kind[r] = "initial"
  /\ SetPassword(r)
  /\ chosen' = IF exists THEN chosen \cup {r} ELSE chosen
  /\ Goto(r, "done")
  /\ UNCHANGED <<now, exists, open, codes, kind, session, seen, code, tokens, redeemed, doubtful,
                 crowded, barred>>

\* UPDATE ... WHERE id AND password_undelivered.
Choose(r) ==
  /\ at[r] = "write" /\ kind[r] = "initial"
  /\ IF undelivered
     THEN SetPassword(r) /\ chosen' = IF exists THEN chosen \cup {r} ELSE chosen
     ELSE UNCHANGED <<password, undelivered, line, lineBy, excused, chosen>>
  /\ Goto(r, "done")
  /\ UNCHANGED <<now, exists, open, codes, kind, session, seen, code, tokens, redeemed, doubtful,
                 crowded, barred>>

-----------------------------------------------------------------------------
(* login.                                                                   *)

\* The read of the row, and the verification of the password that came: a wrong
\* one is a request that changes nothing.
Login(r) ==
  /\ at[r] = "start" /\ exists
  /\ kind' = [kind EXCEPT ![r] = "login"]
  /\ session' = [session EXCEPT ![r] = password]    \* the password it proved
  /\ barred' = IF Shut THEN barred \cup {r} ELSE barred
  /\ Goto(r, "tenant")
  /\ UNCHANGED <<now, row, open, codes, seen, code, tokens, excused, lineBy, redeemed,
                 doubtful, crowded, chosen>>

LoginTenant(r) ==
  /\ at[r] = "tenant" /\ kind[r] = "login"
  /\ Goto(r, IF Shut THEN "done" ELSE "mint")
  /\ UNCHANGED <<now, row, open, codes, kind, session, seen, code, tokens, history>>

LoginMint(r) ==
  /\ at[r] = "mint" /\ kind[r] = "login"
  /\ Mint(r, ServerNow, FALSE, session[r])
  /\ Goto(r, "done")
  /\ UNCHANGED <<now, row, open, codes, kind, session, seen, code, history>>

-----------------------------------------------------------------------------
(* forgot_password (and the operator's send_reset_for_log), reset_password. *)

ForgotBusy(r) ==
  \E k \in Requests \ {r} : kind[k] = "forgot" /\ at[k] \in {"retire", "insert"}

Forgot(r) ==
  /\ at[r] = "start" /\ exists
  /\ kind' = [kind EXCEPT ![r] = "forgot"]
  /\ crowded' = (crowded \/ ForgotBusy(r))
  /\ Goto(r, "retire")
  /\ UNCHANGED <<now, row, open, codes, session, seen, code, tokens, excused, lineBy, redeemed,
                 doubtful, chosen, barred>>

\* Mutant: the earlier code is not retired.
RetireNothing(r) ==
  /\ at[r] = "retire"
  /\ Goto(r, "insert")
  /\ UNCHANGED <<now, row, open, codes, kind, session, seen, code, tokens, history>>

\* UPDATE ... SET used = true: every live code; an error is ignored.
Retire(r) ==
  /\ at[r] = "retire"
  /\ \/ /\ codes' = [c \in Requests |-> IF codes[c] = "live" THEN "used" ELSE codes[c]]
        /\ UNCHANGED crowded
     \/ crowded' = TRUE /\ UNCHANGED codes
  /\ Goto(r, "insert")
  /\ UNCHANGED <<now, row, open, kind, session, seen, code, tokens, excused, lineBy, redeemed,
                 doubtful, chosen, barred>>

\* The INSERT of the new code, unless the account went; then the mail.
Insert(r) ==
  /\ at[r] = "insert"
  /\ codes' = IF exists THEN [codes EXCEPT ![r] = "live"] ELSE codes
  /\ Goto(r, "done")
  /\ UNCHANGED <<now, row, open, kind, session, seen, code, tokens, history>>

\* 24 hours pass for a code.
Expire(c) ==
  /\ codes[c] = "live"
  /\ codes' = [codes EXCEPT ![c] = "used"]
  /\ UNCHANGED <<now, row, open, request, tokens, history>>

ResetBusy(c) ==
  \E k \in Requests : kind[k] = "reset" /\ code[k] = c /\ at[k] \in {"write", "mark"}

\* The SELECT of an unused, unexpired code.
Reset(r, c) ==
  /\ at[r] = "start" /\ codes[c] = "live"
  /\ kind' = [kind EXCEPT ![r] = "reset"]
  /\ code' = [code EXCEPT ![r] = c]
  /\ doubtful' = IF ResetBusy(c) THEN doubtful \cup {c} ELSE doubtful
  /\ Goto(r, "write")
  /\ UNCHANGED <<now, row, open, codes, session, seen, tokens, excused, lineBy, redeemed,
                 crowded, chosen, barred>>

\* Mutant: a reset leaves the sessions alone.
ResetWriteLineless(r) ==
  /\ at[r] = "write" /\ kind[r] = "reset"
  /\ password' = IF exists THEN r ELSE password
  /\ undelivered' = FALSE
  /\ redeemed' = [redeemed EXCEPT ![code[r]] = @ \cup {r}]
  /\ Goto(r, "mark")
  /\ UNCHANGED <<now, exists, line, lineBy, open, codes, kind, session, seen, code, tokens,
                 excused, doubtful, crowded, chosen, barred>>

\* The UPDATE of the account.
ResetWrite(r) ==
  /\ at[r] = "write" /\ kind[r] = "reset"
  /\ SetPassword(r)
  /\ redeemed' = [redeemed EXCEPT ![code[r]] = IF exists THEN @ \cup {r} ELSE @]
  /\ Goto(r, "mark")
  /\ UNCHANGED <<now, exists, open, codes, kind, session, seen, code, tokens, doubtful, crowded,
                 chosen, barred>>

\* Mutant: the code stays usable.
ResetMarkNothing(r) ==
  /\ at[r] = "mark"
  /\ Goto(r, "done")
  /\ UNCHANGED <<now, row, open, codes, kind, session, seen, code, tokens, history>>

\* Only then is the code marked used.
ResetMark(r) ==
  /\ at[r] = "mark"
  /\ codes' = [codes EXCEPT ![code[r]] = "used"]
  /\ Goto(r, "done")
  /\ UNCHANGED <<now, row, open, kind, session, seen, code, tokens, history>>

-----------------------------------------------------------------------------
(* The operator.                                                            *)

\* resend_owner_credentials: a new password, mailed or handed over.
Reissue(r) ==
  /\ at[r] = "start"
  /\ SetPassword(r)
  /\ Goto(r, "done")
  /\ UNCHANGED <<now, exists, open, codes, kind, session, seen, code, tokens, redeemed, doubtful,
                 crowded, chosen, barred>>

\* set_tenant_suspension: the flag, then the line (best-effort) ...
Suspend(r) ==
  /\ at[r] = "start" /\ exists
  /\ kind' = [kind EXCEPT ![r] = "suspend"]
  /\ open' = FALSE
  /\ Goto(r, "revoke")
  /\ UNCHANGED <<now, row, codes, session, seen, code, tokens, history>>

Revoke(r) ==
  /\ at[r] = "revoke"
  /\ IF exists THEN MoveLine(r) ELSE UNCHANGED <<line, lineBy>>
  /\ Goto(r, "done")
  /\ UNCHANGED <<now, exists, password, undelivered, open, codes, kind, session, seen, code,
                 tokens, excused, redeemed, doubtful, crowded, chosen, barred>>

\* ... and the way back.
Reopen(r) ==
  /\ at[r] = "start" /\ exists
  /\ open' = TRUE
  /\ barred' = {}
  /\ Goto(r, "done")
  /\ UNCHANGED <<now, row, codes, kind, session, seen, code, tokens, excused, lineBy, redeemed,
                 doubtful, crowded, chosen>>

\* delete_tenant: the workspace, its account and its codes go in one statement.
DeleteTenant(r) ==
  /\ at[r] = "start"
  /\ exists' = FALSE
  /\ codes' = [c \in Requests |-> IF codes[c] = "live" THEN "used" ELSE codes[c]]
  /\ barred' = {}
  /\ Goto(r, "done")
  /\ UNCHANGED <<now, password, line, undelivered, open, kind, session, seen, code, tokens,
                 excused, lineBy, redeemed, doubtful, crowded, chosen>>

-----------------------------------------------------------------------------

Arrive(r) ==
  \/ \E k \in {"call", "change", "logout", "initial"}, t \in Makers : Enter(r, k, t)
  \/ Login(r) \/ Forgot(r) \/ (\E c \in Requests : Reset(r, c))
  \/ Reissue(r) \/ Suspend(r) \/ Reopen(r) \/ DeleteTenant(r)

Proceed(r) ==
  \/ Pass(r) \/ Served(r) \/ Ready(r) \/ Change(r) \/ ChangeMint(r) \/ Logout(r)
  \/ LogoutMint(r) \/ Choose(r) \/ LoginTenant(r) \/ LoginMint(r) \/ Retire(r)
  \/ Insert(r) \/ ResetWrite(r) \/ ResetMark(r) \/ Revoke(r)

Next ==
  \/ Tick
  \/ DoorDelivered \/ DoorLatch \/ DoorMint
  \/ \E r \in Requests : Arrive(r) \/ Proceed(r)
  \/ \E i \in Makers : Die(i)
  \/ \E c \in Requests : Expire(c)

Spec == Init /\ [][Next]_vars

-----------------------------------------------------------------------------
(* What the sign-in promises.                                               *)

\* What auth_middleware would let in, were it to read everything at once.
Usable(i) == exists /\ tokens[i] # NoToken /\ tokens[i].iat >= line

\* A session rests on the password the account has now: a change, a reset, a
\* first password or a re-issue ends every other. It ends neither a token of its
\* own second (a server clock ahead of the database's makes that the last second
\* and the skew), nor one minted by a request that was already past its check (a
\* sign-in with the old password, a logout-all of an old session, the sign-up
\* itself), nor what these sign in anew.
SessionEndsWithPassword ==
  \A i \in Makers : Usable(i) => tokens[i].knew = password \/ i \in excused

\* Whoever moves the line by changing the password or logging out everywhere
\* holds a token on the right side of it, until somebody else moves it (the
\* re-mint of change_password and logout_all). change_password mints by the line
\* it wrote, logout_all by the server's clock, which must not be the one behind.
CallerStaysIn ==
  \A r \in Requests :
    lineBy = r /\ kind[r] \in {"change", "logout"} /\ tokens[r] # NoToken
    => tokens[r].iat >= line

\* A reset code sets one password, unless two requests were past its check at
\* once or one died before it could mark the code (reset_password marks last).
CodeRedeemedOnce ==
  \A c \in Requests : Cardinality(redeemed[c]) > 1 => c \in doubtful

\* "the earlier link is retired so only one is live" (send_reset_for_log), but
\* for requests that overlap and a retirement that fails.
OneLiveCode ==
  crowded \/ \A c, d \in Requests : codes[c] = "live" /\ codes[d] = "live" => c = d

\* The sign-up session chooses a first password at most once, and so never
\* replaces one it has chosen (the latch password_undelivered).
FirstPasswordOnce == \A r, k \in chosen : r = k

\* Nobody who comes while the workspace is suspended gets anywhere, with a token
\* or a password, until it is opened again.
SuspendedIsShut ==
  \A r \in barred : at[r] \in {"tenant", "done"} /\ tokens[r] = NoToken
=============================================================================
