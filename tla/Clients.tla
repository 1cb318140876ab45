------------------------------- MODULE Clients -------------------------------
(***************************************************************************)
(* A browser of several tabs and the cookie they share.  Requests carry    *)
(* the refresh token the cookie held when they were sent; the server acts  *)
(* on them in any order, and the answers, with the cookies they set or     *)
(* clear, arrive in any order or not at all.                               *)
(*                                                                         *)
(* A statement of the server, or a transaction, is one step here: Sessions *)
(* has what may come between the statements of a rotation and of the       *)
(* revocation of all tokens.                                               *)
(***************************************************************************)
EXTENDS FiniteSets

CONSTANTS
  Tabs,      \* requests of the browser that may be under way together
  Tokens,    \* refresh tokens
  NoToken

VARIABLES
  token,     \* the rows of refresh_tokens: [state, session]
  jar,       \* the cookie refresh_token of the browser
  access,    \* the browser holds an access token that is valid
  tab,       \* the request each tab waits for, and its answer
  ended,     \* the sessions that a logout has ended (history)
  swept,     \* the sessions that a logout of all has reached (history)
  signedOut, \* the browser was last told that it is logged out, or never
             \* was logged in (history)
  lost       \* an answer was lost (history)

vars == <<token, jar, access, tab, ended, swept, signedOut, lost>>

\* A session is named after the token its login was given.
Token == [state : {"none", "live", "revoked"}, session : Tokens \cup {NoToken}]
Idle == [pc |-> "idle", sent |-> NoToken, cookie |-> NoToken, sets |-> FALSE]
Kinds == {"refresh", "logout", "logout_all", "change"}
Answers == {"login_answer", "refresh_answer", "logout_answer", "change_answer"}

TypeOK ==
  /\ token \in [Tokens -> Token]
  /\ jar \in Tokens \cup {NoToken}
  /\ access \in BOOLEAN
  /\ tab \in [Tabs -> [pc : {"idle", "rotating"} \cup Kinds \cup Answers, sent : Tokens \cup {NoToken},
                       cookie : Tokens \cup {NoToken}, sets : BOOLEAN]]
  /\ ended \subseteq Tokens
  /\ swept \subseteq Tokens
  /\ signedOut \in BOOLEAN
  /\ lost \in BOOLEAN

Init ==
  /\ token = [t \in Tokens |-> [state |-> "none", session |-> NoToken]]
  /\ jar = NoToken
  /\ access = FALSE
  /\ tab = [r \in Tabs |-> Idle]
  /\ ended = {}
  /\ swept = {}
  /\ signedOut = TRUE
  /\ lost = FALSE

At(r, pc) == tab[r].pc = pc
Become(r, p) == tab' = [tab EXCEPT ![r] = p]
Live == {t \in Tokens : token[t].state = "live"}
Fresh == {t \in Tokens : token[t].state = "none"}

-----------------------------------------------------------------------------
(* The statements.                                                         *)

\* CreateRefreshToken
Created(session) == [state |-> "live", session |-> session]

\* GetRefreshTokenByToken and IsValid
Valid(t) == t \in Live

\* Mutant: whatever became of the token.
RevocableAnyway(t) == t # NoToken

\* RevokeRefreshToken: the row of a token that is live; there is no row, and
\* an error, for one that was revoked or rotated before.
Revocable(t) == t \in Live

\* RevokeAllUserRefreshTokens
AllRevoked ==
  [t \in Tokens |-> IF t \in Live THEN [token[t] EXCEPT !.state = "revoked"] ELSE token[t]]

-----------------------------------------------------------------------------
(* The handlers.                                                           *)

\* Auth: a Bearer token that is missing, expired or wrong is answered 401.
Authenticated == access

\* RefreshToken and Logout read the cookie, and answer 401 if there is none.
HasCookie == jar # NoToken

Admitted(kind) == IF kind \in {"logout_all", "change"} THEN Authenticated ELSE HasCookie

\* An answer that sets the cookie, or clears it: both name the same one.
Answer(kind, cookie) == [Idle EXCEPT !.pc = kind, !.cookie = cookie, !.sets = TRUE]
SetCookie(kind, t) == Answer(kind, t)
ClearCookie(kind) == Answer(kind, NoToken)

\* An answer that says nothing of it, as every error does.
Plain(kind) == [Idle EXCEPT !.pc = kind]

\* Login, RefreshToken, Logout, LogoutAllSessions, ChangePassword: with the
\* token the service has made, or with an error.
HandleLogin(t) == SetCookie("login_answer", t)
HandleRefresh(t) == IF t # NoToken THEN SetCookie("refresh_answer", t) ELSE Plain("refresh_answer")
HandleLogout(ok) == IF ok THEN ClearCookie("logout_answer") ELSE Plain("logout_answer")
HandleLogoutAll == ClearCookie("logout_answer")
HandleChange == Plain("change_answer")

-----------------------------------------------------------------------------
(* The services.                                                           *)

\* Login and Register: the credentials are right.
Login(r) ==
  /\ At(r, "idle")
  /\ \E t \in Fresh :
       /\ token' = [token EXCEPT ![t] = Created(t)]
       /\ Become(r, HandleLogin(t))
  /\ UNCHANGED <<jar, access, ended, swept, signedOut, lost>>

Send(r) ==
  /\ At(r, "idle")
  /\ \E kind \in Kinds : Admitted(kind) /\ Become(r, [Idle EXCEPT !.pc = kind, !.sent = jar])
  /\ UNCHANGED <<token, jar, access, ended, swept, signedOut, lost>>

\* RefreshToken: ValidateToken, and the answer to a token that is no good.
\* Mutant: it clears the cookie, as the one of a logout does.
ValidateOrClear(r) ==
  /\ At(r, "refresh")
  /\ Become(r, IF Valid(tab[r].sent) THEN [tab[r] EXCEPT !.pc = "rotating"]
               ELSE ClearCookie("refresh_answer"))
  /\ UNCHANGED <<token, jar, access, ended, swept, signedOut, lost>>

ValidateToken(r) ==
  /\ At(r, "refresh")
  /\ Become(r, IF Valid(tab[r].sent) THEN [tab[r] EXCEPT !.pc = "rotating"]
               ELSE HandleRefresh(NoToken))
  /\ UNCHANGED <<token, jar, access, ended, swept, signedOut, lost>>

\* Mutant: the token is replaced without being looked at again.
RotateValidated(r) ==
  /\ At(r, "rotating")
  /\ LET t == tab[r].sent IN
     \E u \in Fresh :
       /\ token' = [token EXCEPT ![t].state = "revoked", ![u] = Created(token[t].session)]
       /\ Become(r, HandleRefresh(u))
  /\ UNCHANGED <<jar, access, ended, swept, signedOut, lost>>

\* RotateToken: the token is consumed, if it is still good, and replaced.
RotateToken(r) ==
  /\ At(r, "rotating")
  /\ LET t == tab[r].sent IN
     \/ /\ Valid(t)
        /\ \E u \in Fresh :
             /\ token' = [token EXCEPT ![t].state = "revoked", ![u] = Created(token[t].session)]
             /\ Become(r, HandleRefresh(u))
     \/ ~Valid(t) /\ UNCHANGED token /\ Become(r, HandleRefresh(NoToken))
  /\ UNCHANGED <<jar, access, ended, swept, signedOut, lost>>

\* Logout of a token that was rotated meanwhile is an error, answered 500,
\* and clears no cookie.
Logout(r) ==
  /\ At(r, "logout")
  /\ LET t == tab[r].sent IN
     \/ /\ Revocable(t)
        /\ token' = [token EXCEPT ![t].state = "revoked"]
        /\ ended' = ended \cup {token[t].session}
        /\ Become(r, HandleLogout(TRUE))
     \/ ~Revocable(t) /\ UNCHANGED <<token, ended>> /\ Become(r, HandleLogout(FALSE))
  /\ UNCHANGED <<jar, access, swept, signedOut, lost>>

LogoutAllSessions(r) ==
  /\ At(r, "logout_all")
  /\ token' = AllRevoked
  /\ swept' = swept \cup {token[t].session : t \in Live}
  /\ Become(r, HandleLogoutAll)
  /\ UNCHANGED <<jar, access, ended, signedOut, lost>>

\* ChangePassword ends the sessions, this one too; a failure to is logged.
\* The cookie stays.
ChangePassword(r) ==
  /\ At(r, "change")
  /\ \/ token' = AllRevoked /\ swept' = swept \cup {token[t].session : t \in Live}
     \/ UNCHANGED <<token, swept>>
  /\ Become(r, HandleChange)
  /\ UNCHANGED <<jar, access, ended, signedOut, lost>>

-----------------------------------------------------------------------------
(* The browser.                                                            *)

\* A cookie that is set replaces the one there is.  An answer of a login or a
\* refresh brings an access token.
Deliver(r) ==
  /\ tab[r].pc \in Answers
  /\ LET kind == tab[r].pc IN
     /\ jar' = IF tab[r].sets THEN tab[r].cookie ELSE jar
     /\ access' = (access \/ (tab[r].sets /\ kind # "logout_answer"))
     /\ signedOut' = IF tab[r].sets /\ kind \in {"login_answer", "logout_answer"}
                     THEN kind = "logout_answer" ELSE signedOut
  /\ Become(r, Idle)
  /\ UNCHANGED <<token, ended, swept, lost>>

LoseAnswer(r) ==
  /\ ~At(r, "idle")
  /\ Become(r, Idle)
  /\ lost' = TRUE
  /\ UNCHANGED <<token, jar, access, ended, swept, signedOut>>

\* Access tokens are not stored: they are valid until they expire.
ExpireAccess ==
  /\ access
  /\ access' = FALSE
  /\ UNCHANGED <<token, jar, tab, ended, swept, signedOut, lost>>

Next ==
  \/ \E r \in Tabs :
       \/ Login(r) \/ Send(r) \/ ValidateToken(r) \/ RotateToken(r) \/ Logout(r) \/ LogoutAllSessions(r)
       \/ ChangePassword(r)
       \/ Deliver(r) \/ LoseAnswer(r)
  \/ ExpireAccess

Spec == Init /\ [][Next]_vars

-----------------------------------------------------------------------------
(* What the browser holds is what it was told.  A session that a logout    *)
(* has ended has no token that is still good, though a refresh was under   *)
(* way.  And with every answer delivered, in whatever order, the cookie is *)
(* good unless the browser was told that it is logged out or its session   *)
(* was ended: tabs that refresh together do not log it out.                *)
CookieHonest ==
  /\ \A t \in Live : token[t].session \notin ended
  /\ (~lost /\ ~signedOut /\ \A r \in Tabs : At(r, "idle")) =>
       jar # NoToken /\ (jar \in Live \/ token[jar].session \in ended \cup swept)
=============================================================================
