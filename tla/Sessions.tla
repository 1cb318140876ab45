------------------------------- MODULE Sessions -------------------------------
(***************************************************************************)
(* The sessions of one account: its password, the refresh tokens that are  *)
(* rotated at every use, and the links that reset the password.  Every     *)
(* request is a sequence of statements, and only Rotate runs two of them   *)
(* in a transaction; it holds the row of the token it consumes.            *)
(*                                                                         *)
(* Revoking all tokens is one UPDATE under READ COMMITTED: it sees the     *)
(* tokens committed when it starts and waits for those a rotation holds.   *)
(* What is created after it started is not revoked.                        *)
(***************************************************************************)
EXTENDS Naturals, FiniteSets

CONSTANTS
  Requests,      \* request goroutines
  Tokens,        \* refresh tokens
  Links,         \* password reset links
  NoToken, NoLink,
  MaxPasswords   \* bound: password changes per behaviour

VARIABLES
  password,      \* version of the password hash
  active,        \* is_active
  token,         \* the rows of refresh_tokens
  link,          \* the reset links of email_tokens
  proc,          \* where each request is
  failedRevoke,  \* the last password whose change failed to revoke the tokens
                 \* (history)
  redeemed       \* how often each link set the password (history)

vars == <<password, active, token, link, proc, failedRevoke, redeemed>>

\* opened is the version of the password the session was opened with (in
\* proc, of a request that changes the password: the version it has set);
\* overtaken says that a revocation of all tokens started while the request
\* that created it, or created an ancestor of it, was under way.
Token == [state : {"none", "live", "over"},
          parent : Tokens \cup {NoToken}, opened : 0..MaxPasswords, overtaken : BOOLEAN]
NewToken == [state |-> "none", parent |-> NoToken, opened |-> 0, overtaken |-> FALSE]

\* rotating: in the transaction of Rotate, with the token it consumed.
Pcs == {"idle", "issuing", "validated", "checked", "rotating", "requesting",
        "redeeming", "updating", "revoking", "sweeping"}
Proc == [pc : Pcs, token : Tokens \cup {NoToken}, link : Links \cup {NoLink},
         opened : 0..MaxPasswords, overtaken : BOOLEAN, sees : SUBSET Tokens,
         changes : BOOLEAN]
Idle == [pc |-> "idle", token |-> NoToken, link |-> NoLink, opened |-> 0,
         overtaken |-> FALSE, sees |-> {}, changes |-> FALSE]

TypeOK ==
  /\ password \in 0..MaxPasswords
  /\ active \in BOOLEAN
  /\ token \in [Tokens -> Token]
  /\ link \in [Links -> {"none", "live", "over"}]
  /\ proc \in [Requests -> Proc]
  /\ failedRevoke \in 0..MaxPasswords
  /\ redeemed \in [Links -> Nat]

Init ==
  /\ password = 0
  /\ active = TRUE
  /\ token = [t \in Tokens |-> NewToken]
  /\ link = [l \in Links |-> "none"]
  /\ proc = [r \in Requests |-> Idle]
  /\ failedRevoke = 0
  /\ redeemed = [l \in Links |-> 0]

At(r, pc) == proc[r].pc = pc
Become(r, p) == proc' = [proc EXCEPT ![r] = p]
Live == {t \in Tokens : token[t].state = "live"}
Fresh == {t \in Tokens : token[t].state = "none"}
\* A row that was revoked or has expired: only its parent is still asked for.
Over(t) == [token[t] EXCEPT !.state = "over", !.opened = 0, !.overtaken = FALSE]
Held(t) == \E r \in Requests : At(r, "rotating") /\ proc[r].token = t

-----------------------------------------------------------------------------
(* The statements.                                                         *)

\* RevokeRefreshToken: waits for a rotation that holds the row.
RevokeRefreshToken(t) ==
  t \in Live /\ ~Held(t) /\ token' = [token EXCEPT ![t] = Over(t)]

\* RevokeAllUserRefreshTokens, of the rows it has seen.
RevokeAllOf(rows) ==
  /\ \A t \in rows : ~Held(t)
  /\ token' = [t \in Tokens |->
       IF t \in rows \cap Live THEN Over(t) ELSE token[t]]

\* CreateEmailToken
CreateEmailToken(l) == link[l] = "none" /\ link' = [link EXCEPT ![l] = "live"]

\* DeleteEmailTokensByUserAndType
DeleteEmailTokens == link' = [l \in Links |-> IF link[l] = "none" THEN "none" ELSE "over"]

\* ClaimEmailToken: the row of the link, if it has not been used.
ClaimEmailToken(l) == link[l] = "live" /\ link' = [link EXCEPT ![l] = "over"]

\* GetEmailTokenByToken, and what ResetPassword makes of the row.
Redeemable == {l \in Links : link[l] = "live"}

\* UpdateUserPassword
UpdateUserPassword(l) ==
  /\ password < MaxPasswords
  /\ password' = password + 1
  /\ redeemed' = [k \in Links |-> redeemed[k] + IF k = l THEN 1 ELSE 0]

\* The request has changed the password and is to end the sessions.
Ending(r) == proc[r].changes /\ proc[r].pc \in {"revoking", "sweeping"}

\* A request may end at any statement: an error is answered or logged.
Fail(r) ==
  /\ ~At(r, "idle")
  /\ Become(r, Idle)
  /\ failedRevoke' = IF Ending(r) /\ proc[r].opened > failedRevoke
                     THEN proc[r].opened ELSE failedRevoke
  /\ UNCHANGED <<password, active, token, link, redeemed>>

-----------------------------------------------------------------------------
(* Login: the password is verified against the row that was read.          *)

Verify(r) ==
  /\ At(r, "idle")
  /\ active
  /\ Become(r, [Idle EXCEPT !.pc = "issuing", !.opened = password])
  /\ UNCHANGED <<password, active, token, link, failedRevoke, redeemed>>

Create(t, r, parent) ==
  [state |-> "live", parent |-> parent, opened |-> proc[r].opened,
   overtaken |-> proc[r].overtaken]

Issue(r) ==
  /\ At(r, "issuing")
  /\ \E t \in Fresh : token' = [token EXCEPT ![t] = Create(t, r, NoToken)]
  /\ Become(r, Idle)
  /\ UNCHANGED <<password, active, link, failedRevoke, redeemed>>

-----------------------------------------------------------------------------
(* RefreshAccessToken: ValidateToken, GetUserByID, RotateToken.            *)

Validate(r) ==
  /\ At(r, "idle")
  /\ \E t \in Live : Become(r, [Idle EXCEPT !.pc = "validated", !.token = t])
  /\ UNCHANGED <<password, active, token, link, failedRevoke, redeemed>>

CheckUser(r) ==
  /\ At(r, "validated")
  /\ active
  /\ Become(r, [proc[r] EXCEPT !.pc = "checked"])
  /\ UNCHANGED <<password, active, token, link, failedRevoke, redeemed>>

\* Is a revocation that saw the token still to reach it?
Awaited(t) == \E r \in Requests : At(r, "sweeping") /\ t \in proc[r].sees

\* Mutant: the token is consumed whatever became of it.
ConsumeAgain(r) ==
  /\ At(r, "checked")
  /\ ~Held(proc[r].token)
  /\ Become(r, [proc[r] EXCEPT !.pc = "rotating", !.opened = token[proc[r].token].opened,
                               !.overtaken = token[proc[r].token].overtaken])
  /\ UNCHANGED <<password, active, token, link, failedRevoke, redeemed>>

\* ConsumeRefreshToken: nothing is consumed that was revoked or has expired
\* since it was validated.
Consume(r) ==
  /\ At(r, "checked")
  /\ ~Held(proc[r].token)
  /\ LET t == proc[r].token IN
     \/ /\ t \in Live
        /\ Become(r, [proc[r] EXCEPT !.pc = "rotating", !.opened = token[t].opened,
                                     !.overtaken = token[t].overtaken \/ Awaited(t)])
     \/ t \notin Live /\ Become(r, Idle)
  /\ UNCHANGED <<password, active, token, link, failedRevoke, redeemed>>

\* The commit of Rotate; a failure rolls it back (Fail).
Commit(r) ==
  /\ At(r, "rotating")
  /\ \E t \in Fresh :
       token' = [token EXCEPT ![t] = Create(t, r, proc[r].token),
                              ![proc[r].token] = Over(proc[r].token)]
  /\ Become(r, Idle)
  /\ UNCHANGED <<password, active, link, failedRevoke, redeemed>>

\* RotateToken runs both in one transaction.
RotateToken(r) == Consume(r) \/ Commit(r)
RefreshAccessToken(r) == Validate(r) \/ CheckUser(r) \/ RotateToken(r)

\* Logout.
Revoke(r) ==
  /\ At(r, "idle")
  /\ \E t \in Tokens : RevokeRefreshToken(t)
  /\ UNCHANGED <<password, active, link, proc, failedRevoke, redeemed>>

Expire(t) ==
  /\ t \in Live
  /\ ~Held(t)
  /\ token' = [token EXCEPT ![t] = Over(t)]
  /\ UNCHANGED <<password, active, link, proc, failedRevoke, redeemed>>

-----------------------------------------------------------------------------
(* Reset links.                                                            *)

\* SendPasswordReset: DeleteByUserAndType, whose failure is logged.
DropLinks(r) ==
  /\ At(r, "idle")
  /\ active
  /\ UNCHANGED link \/ DeleteEmailTokens
  /\ Become(r, [Idle EXCEPT !.pc = "requesting"])
  /\ UNCHANGED <<password, active, token, failedRevoke, redeemed>>

MakeLink(r) ==
  /\ At(r, "requesting")
  /\ \E l \in Links : CreateEmailToken(l)
  /\ Become(r, Idle)
  /\ UNCHANGED <<password, active, token, failedRevoke, redeemed>>

\* ResetPassword: GetByToken.
ReadLink(r) ==
  /\ At(r, "idle")
  /\ \E l \in Redeemable : Become(r, [Idle EXCEPT !.pc = "redeeming", !.link = l])
  /\ UNCHANGED <<password, active, token, link, failedRevoke, redeemed>>

\* Mutant: the claim does not say whether it was this request's.
ClaimAnyway(r) ==
  /\ At(r, "redeeming")
  /\ link' = [link EXCEPT ![proc[r].link] = IF @ = "live" THEN "over" ELSE @]
  /\ Become(r, [proc[r] EXCEPT !.pc = "updating", !.changes = TRUE])
  /\ UNCHANGED <<password, active, token, failedRevoke, redeemed>>

\* claim
Claim(r) ==
  /\ At(r, "redeeming")
  /\ LET l == proc[r].link IN
     \/ /\ ClaimEmailToken(l)
        /\ Become(r, [proc[r] EXCEPT !.pc = "updating", !.changes = TRUE])
     \/ link[l] # "live" /\ Become(r, Idle) /\ UNCHANGED link
  /\ UNCHANGED <<password, active, token, failedRevoke, redeemed>>

SendPasswordReset(r) == DropLinks(r) \/ MakeLink(r)

-----------------------------------------------------------------------------
(* Password changes and the end of all sessions.                           *)

\* ChangePassword has verified the old password, or AdminResetPassword has
\* found the user.
StartChange(r) ==
  /\ At(r, "idle")
  /\ active
  /\ Become(r, [Idle EXCEPT !.pc = "updating", !.changes = TRUE])
  /\ UNCHANGED <<password, active, token, link, failedRevoke, redeemed>>

\* Mutant: the sessions are left alone.
UpdateAlone(r) ==
  /\ At(r, "updating")
  /\ UpdateUserPassword(proc[r].link)
  /\ Become(r, Idle)
  /\ UNCHANGED <<active, token, link, failedRevoke>>

\* UpdateUserPassword
Update(r) ==
  /\ At(r, "updating")
  /\ UpdateUserPassword(proc[r].link)
  /\ Become(r, [proc[r] EXCEPT !.pc = "revoking", !.opened = password + 1])
  /\ UNCHANGED <<active, token, link, failedRevoke>>

\* LogoutAllSessions
StartLogoutAll(r) ==
  /\ At(r, "idle")
  /\ Become(r, [Idle EXCEPT !.pc = "revoking"])
  /\ UNCHANGED <<password, active, token, link, failedRevoke, redeemed>>

\* RevokeAllUserRefreshTokens starts: requests that are about to create a
\* token are overtaken.
Sweep(r) ==
  /\ At(r, "revoking")
  /\ proc' = [q \in Requests |->
       IF q = r THEN [proc[q] EXCEPT !.pc = "sweeping", !.sees = Live]
       ELSE IF proc[q].pc \in {"issuing", "rotating"} THEN [proc[q] EXCEPT !.overtaken = TRUE]
       ELSE proc[q]]
  /\ UNCHANGED <<password, active, token, link, failedRevoke, redeemed>>

RevokeAll(r) ==
  /\ At(r, "sweeping")
  /\ RevokeAllOf(proc[r].sees)
  /\ Become(r, Idle)
  /\ UNCHANGED <<password, active, link, failedRevoke, redeemed>>

\* The password is set first, and then the sessions are ended.
EndSessions(r) == Sweep(r) \/ RevokeAll(r)
SetPassword(r) == Update(r) \/ EndSessions(r)

\* ResetPassword: the link is claimed before the password is written.
ResetPassword(r) == ReadLink(r) \/ Claim(r)

\* An administrator deactivates or activates the account.
SetActive ==
  /\ active' = ~active
  /\ UNCHANGED <<password, token, link, proc, failedRevoke, redeemed>>

Next ==
  \/ \E r \in Requests :
       \/ Fail(r) \/ Verify(r) \/ Issue(r)
       \/ RefreshAccessToken(r) \/ Revoke(r)
       \/ SendPasswordReset(r) \/ ResetPassword(r)
       \/ StartChange(r) \/ SetPassword(r) \/ StartLogoutAll(r)
  \/ \E t \in Tokens : Expire(t)
  \/ SetActive

Spec == Init /\ [][Next]_vars

-----------------------------------------------------------------------------
(* What is redeemed is spent: of all the requests that present one refresh *)
(* token, or one reset link, together, at most one is given a new token,   *)
(* or sets the password.                                                   *)
SpentOnce ==
  /\ \A t, u \in Tokens :
       (token[t].parent # NoToken /\ token[t].parent = token[u].parent) => t = u
  /\ \A l \in Links : redeemed[l] <= 1

(* A session opened with an earlier password is over once the change that  *)
(* replaced it has revoked the tokens.  The exceptions are the ones the    *)
(* code accepts or cannot see: the revocation is still to come or failed,  *)
(* or it overtook the request that was opening or renewing the session.    *)
PasswordEndsSessions ==
  \A t \in Live : token[t].opened # password =>
    \/ token[t].overtaken
    \/ token[t].opened < failedRevoke
    \/ \E r \in Requests : Ending(r) /\ token[t].opened < proc[r].opened
=============================================================================
