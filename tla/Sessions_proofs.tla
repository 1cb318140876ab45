--------------------------- MODULE Sessions_proofs ---------------------------
(***************************************************************************)
(* What is redeemed is spent once, and a changed password ends the         *)
(* sessions opened before it, for any tokens, links and requests.          *)
(*                                                                         *)
(* A token: whoever is past ConsumeRefreshToken holds a live row that      *)
(* nobody else holds, and only the commit that gives it a successor makes  *)
(* it a parent.  A link: whoever is past the claim has used it up, and     *)
(* nobody has set a password with it yet.                                  *)
(*                                                                         *)
(* A session is excused if it has the current password, was overtaken, or  *)
(* a change it precedes has failed to end the sessions or is still to end  *)
(* them.  The last excuse is the delicate one: it goes when the revocation *)
(* is done, which ends what it has seen.  So everything it has not seen    *)
(* must have another excuse from the moment it starts.                     *)
(***************************************************************************)
EXTENDS Sessions, TLAPS

\* At most one request holds a token, and only spent tokens are parents.
TokensSpent ==
  /\ \A r \in Requests :
       /\ proc[r].pc \in {"validated", "checked", "rotating"} => proc[r].token \in Tokens
       /\ At(r, "rotating") => proc[r].token \in Live
  /\ \A r, q \in Requests :
       (At(r, "rotating") /\ At(q, "rotating") /\ r # q) => proc[r].token # proc[q].token
  /\ \A t \in Tokens : token[t].parent # NoToken => token[token[t].parent].state = "over"
  /\ \A t, u \in Tokens :
       (token[t].parent # NoToken /\ token[t].parent = token[u].parent) => t = u

\* At most one request has claimed a link, or has set the password with it.
LinksSpent ==
  /\ \A l \in Links : redeemed[l] \in {0, 1} /\ (redeemed[l] = 1 => link[l] = "over")
  /\ \A r \in Requests :
       /\ At(r, "redeeming") => proc[r].link \in Links
       /\ \A l \in Links : (At(r, "updating") /\ proc[r].link = l)
                             => link[l] = "over" /\ redeemed[l] = 0
  /\ \A r, q \in Requests, l \in Links :
       (/\ At(r, "updating") /\ proc[r].link = l
        /\ At(q, "updating") /\ proc[q].link = l) => r = q

\* Why a session, or the request that makes one, may have an old password.
Excused(x) ==
  \/ x.overtaken
  \/ x.opened = password
  \/ x.opened < failedRevoke
  \/ \E r \in Requests : Ending(r) /\ x.opened < proc[r].opened

\* Why the revocation of q need not end it.
Escaped(x, q) == x.overtaken \/ proc[q].opened <= x.opened

Making(r) == proc[r].pc \in {"issuing", "rotating"}

SessionsExcused ==
  /\ \A t \in Tokens : token[t].opened <= password
  /\ \A r \in Requests : /\ proc[r].opened <= password
                         /\ At(r, "updating") => proc[r].changes
  /\ \A t \in Live : Excused(token[t])
  /\ \A r \in Requests : Making(r) => Excused(proc[r])
  /\ \A q \in Requests : At(q, "sweeping") =>
       /\ \A t \in Live \ proc[q].sees : Escaped(token[t], q)
       /\ \A r \in Requests : Making(r) => Escaped(proc[r], q)

SessionsInv == TypeOK /\ TokensSpent /\ LinksSpent /\ SessionsExcused

-----------------------------------------------------------------------------
(* The rows and the requests have numbers for passwords.                   *)
LEMMA Numbers ==
  ASSUME MaxPasswords \in Nat, SessionsInv
  PROVE  /\ password \in Nat /\ failedRevoke \in Nat
         /\ \A t \in Tokens : token[t] \in Token /\ token[t].opened \in Nat
         /\ \A r \in Requests : proc[r] \in Proc /\ proc[r].opened \in Nat
BY DEF SessionsInv, TypeOK, Token, Proc

(* A request that does nothing.                                            *)
LEMMA IdleTyped ==
  ASSUME MaxPasswords \in Nat
  PROVE  Idle \in Proc /\ Idle.pc = "idle" /\ Idle.opened = 0
BY DEF Idle, Proc, Pcs

(* The row of a token that is over.                                        *)
LEMMA OverTyped ==
  ASSUME MaxPasswords \in Nat, NEW t \in Tokens, token[t] \in Token
  PROVE  /\ Over(t) \in Token /\ Over(t).state = "over" /\ Over(t).opened = 0
         /\ Over(t).parent = token[t].parent
<1>1. 0 \in 0..MaxPasswords
  OBVIOUS
<1>2. QED
  BY <1>1 DEF Over, Token

(* An excuse lasts while the password does, if what a request that changes *)
(* the password leaves undone is written down.                             *)
LEMMA ExcuseStays ==
  ASSUME MaxPasswords \in Nat, SessionsInv, NEW x, x.opened \in Nat, Excused(x),
         password' = password, failedRevoke' \in Nat, failedRevoke <= failedRevoke',
         \A q \in Requests : Ending(q) =>
            \/ Ending(q)' /\ proc'[q].opened = proc[q].opened
            \/ proc[q].opened <= failedRevoke'
  PROVE  Excused(x)'
<1>1. CASE x.overtaken \/ x.opened = password \/ x.opened < failedRevoke
  BY <1>1, Numbers DEF Excused
<1>2. CASE \E q \in Requests : Ending(q) /\ x.opened < proc[q].opened
  <2>1. PICK q \in Requests : Ending(q) /\ x.opened < proc[q].opened
    BY <1>2
  <2>2. CASE Ending(q)' /\ proc'[q].opened = proc[q].opened
    BY <2>1, <2>2 DEF Excused
  <2>3. CASE proc[q].opened <= failedRevoke'
    <3>1. x.opened < failedRevoke'
      BY <2>1, <2>3, Numbers
    <3>2. QED
      BY <3>1 DEF Excused
  <2>4. QED
    BY <2>1, <2>2, <2>3
<1>3. QED
  BY <1>1, <1>2 DEF Excused

-----------------------------------------------------------------------------
(* A request moves on and writes neither a token nor the password.  What   *)
(* it becomes must be in order: a token it holds is live and nobody        *)
(* else's, a link it has claimed was live before, and a session it is to   *)
(* make has its excuses.                                                   *)
LEMMA MoveKeeps ==
  ASSUME MaxPasswords \in Nat, SessionsInv, NEW r \in Requests, NEW p \in Proc, Become(r, p),
         UNCHANGED <<password, token, redeemed>>, active' \in BOOLEAN,
         failedRevoke' \in 0..MaxPasswords, failedRevoke <= failedRevoke',
         link' \in [Links -> {"none", "live", "over"}],
         \A l \in Links : link[l] = "over" => link'[l] = "over",
         p.pc \in {"validated", "checked"} => p.token \in Tokens,
         p.pc = "rotating" => p.token \in Live /\ ~Held(p.token),
         p.pc = "redeeming" => p.link \in Links,
         p.pc = "updating" =>
           \A l \in Links : p.link = l => link[l] = "live" /\ link'[l] = "over",
         p.opened <= password,
         p.pc = "updating" => p.changes,
         p.pc # "sweeping",
         p.pc \in {"issuing", "rotating"} =>
           Excused(p) /\ \A q \in Requests : At(q, "sweeping") => Escaped(p, q),
         Ending(r) => \/ p.changes /\ p.pc = "revoking" /\ p.opened = proc[r].opened
                      \/ proc[r].opened <= failedRevoke'
  PROVE  SessionsInv'
<1>1. proc'[r] = p /\ \A q \in Requests : q # r => proc'[q] = proc[q]
  BY DEF Become, SessionsInv, TypeOK
<1>2. TypeOK'
  BY DEF Become, SessionsInv, TypeOK
<1>3. TokensSpent'
  <2>1. Live' = Live /\ \A t \in Tokens : token'[t] = token[t]
    BY DEF Live
  <2>2. \A q \in Requests : At(q, "rotating") => proc[q].token \in Live
    BY DEF SessionsInv, TokensSpent
  <2>3. p.pc = "rotating" =>
          \A q \in Requests : At(q, "rotating") => proc[q].token # p.token
    BY DEF Held
  <2>4. Live \subseteq Tokens
    BY DEF Live
  <2>5. \A q \in Requests :
          /\ proc'[q].pc \in {"validated", "checked", "rotating"} => proc'[q].token \in Tokens
          /\ proc'[q].pc = "rotating" => proc'[q].token \in Live
    BY <1>1, <2>4 DEF SessionsInv, TokensSpent, At
  <2>6. \A q, s \in Requests : (proc'[q].pc = "rotating" /\ proc'[s].pc = "rotating" /\ q # s)
                                 => proc'[q].token # proc'[s].token
    BY <1>1, <2>3 DEF SessionsInv, TokensSpent, At
  <2>7. QED
    BY <2>1, <2>5, <2>6 DEF SessionsInv, TokensSpent, At
<1>4. LinksSpent'
  BY <1>1 DEF SessionsInv, LinksSpent, At
<1>5. SessionsExcused'
  <2>1. \A q \in Requests : Ending(q) =>
          \/ Ending(q)' /\ proc'[q].opened = proc[q].opened
          \/ proc[q].opened <= failedRevoke'
    BY <1>1 DEF Ending
  <2>2. ASSUME NEW x, x.opened \in Nat, Excused(x) PROVE Excused(x)'
    BY <2>1, <2>2, ExcuseStays
  <2>3. Live' = Live /\ Live \subseteq Tokens
    BY DEF Live
  <2>4. \A t \in Live' : Excused(token[t])'
    BY <2>2, <2>3, Numbers DEF SessionsInv, SessionsExcused
  <2>5. \A q \in Requests : Making(q)' => Excused(proc[q])'
    <3> SUFFICES ASSUME NEW q \in Requests, Making(q)' PROVE Excused(proc[q])'
      OBVIOUS
    <3>1. PICK x : x = proc'[q]
      OBVIOUS
    <3>2. Excused(x) /\ x.opened \in Nat
      BY <1>1, <3>1, Numbers DEF SessionsInv, SessionsExcused, Making, Proc
    <3>3. Excused(x)'
      BY <2>2, <3>2
    <3>4. QED
      BY <3>1, <3>3 DEF Excused
  <2>6. ASSUME NEW q \in Requests, At(q, "sweeping")'
        PROVE  /\ \A t \in Live' \ proc'[q].sees : Escaped(token[t], q)'
               /\ \A s \in Requests : Making(s)' => Escaped(proc[s], q)'
    <3>1. q # r /\ proc'[q] = proc[q] /\ At(q, "sweeping")
      BY <1>1, <2>6 DEF At
    <3>2. QED
      BY <1>1, <2>3, <3>1 DEF SessionsInv, SessionsExcused, Making, Escaped
  <2>7. QED
    BY <1>1, <2>4, <2>5, <2>6 DEF SessionsInv, SessionsExcused, At
<1>6. QED
  BY <1>2, <1>3, <1>4, <1>5 DEF SessionsInv

(* The end of a request without an effect on the rows of tokens.           *)
LEMMA EndKeeps ==
  ASSUME MaxPasswords \in Nat, SessionsInv, NEW r \in Requests, Become(r, Idle),
         UNCHANGED <<password, token, redeemed>>, active' \in BOOLEAN,
         failedRevoke' \in 0..MaxPasswords, failedRevoke <= failedRevoke',
         link' \in [Links -> {"none", "live", "over"}],
         \A l \in Links : link[l] = "over" => link'[l] = "over",
         Ending(r) => proc[r].opened <= failedRevoke'
  PROVE  SessionsInv'
BY IdleTyped, Numbers, MoveKeeps

(* A request that fails: a revocation it owed is written down.             *)
LEMMA FailKeeps ==
  ASSUME MaxPasswords \in Nat, SessionsInv, NEW r \in Requests, Fail(r)
  PROVE  SessionsInv'
<1>1. /\ failedRevoke' \in 0..MaxPasswords /\ failedRevoke <= failedRevoke'
      /\ Ending(r) => proc[r].opened <= failedRevoke'
  <2>1. proc[r].opened \in 0..MaxPasswords /\ failedRevoke \in 0..MaxPasswords
    BY DEF SessionsInv, TypeOK, Proc
  <2>2. QED
    BY <2>1, Numbers DEF Fail
<1>2. link' \in [Links -> {"none", "live", "over"}] /\ active' \in BOOLEAN
  BY DEF Fail, SessionsInv, TypeOK
<1>3. QED
  BY <1>1, <1>2, EndKeeps DEF Fail

(* Steps that write nothing but where the request is.                      *)
LEMMA QuietKeeps ==
  ASSUME MaxPasswords \in Nat, SessionsInv, NEW r \in Requests, NEW p \in Proc, Become(r, p),
         UNCHANGED <<password, active, token, link, failedRevoke, redeemed>>, ~Ending(r),
         p.pc \in {"validated", "checked"} => p.token \in Tokens,
         p.pc = "rotating" => p.token \in Live /\ ~Held(p.token),
         p.pc = "redeeming" => p.link \in Links,
         p.pc = "updating" => p.link \notin Links,
         p.opened <= password,
         p.pc = "updating" => p.changes,
         p.pc # "sweeping",
         p.pc \in {"issuing", "rotating"} =>
           Excused(p) /\ \A q \in Requests : At(q, "sweeping") => Escaped(p, q)
  PROVE  SessionsInv'
<1>1. /\ active' \in BOOLEAN
      /\ failedRevoke' \in 0..MaxPasswords /\ failedRevoke <= failedRevoke'
      /\ link' \in [Links -> {"none", "live", "over"}]
  BY Numbers DEF SessionsInv, TypeOK
<1>2. QED
  BY <1>1, MoveKeeps

(* A login has the current password, which no change under way is past.    *)
LEMMA VerifyKeeps ==
  ASSUME MaxPasswords \in Nat, SessionsInv, NEW r \in Requests, Verify(r)
  PROVE  SessionsInv'
<1> DEFINE p == [Idle EXCEPT !.pc = "issuing", !.opened = password]
<1>1. p \in Proc /\ p.pc = "issuing" /\ p.opened = password
  BY DEF Idle, Proc, Pcs, SessionsInv, TypeOK
<1>2. Become(r, p) /\ ~Ending(r)
  BY DEF Verify, Ending, At
<1> HIDE DEF p
<1>3. Excused(p) /\ \A q \in Requests : Escaped(p, q)
  BY <1>1 DEF Excused, Escaped, SessionsInv, SessionsExcused
<1>4. QED
  BY <1>1, <1>2, <1>3, Numbers, QuietKeeps DEF Verify

(* ValidateToken.                                                          *)
LEMMA ValidateKeeps ==
  ASSUME MaxPasswords \in Nat, SessionsInv, NEW r \in Requests, Validate(r)
  PROVE  SessionsInv'
<1>1. PICK t \in Live : Become(r, [Idle EXCEPT !.pc = "validated", !.token = t])
  BY DEF Validate
<1> DEFINE p == [Idle EXCEPT !.pc = "validated", !.token = t]
<1>2. t \in Tokens /\ 0 \in 0..MaxPasswords
  BY DEF Live
<1>3. p \in Proc /\ p.pc = "validated" /\ p.token \in Tokens /\ p.opened = 0
  BY <1>2 DEF Idle, Proc, Pcs
<1>4. Become(r, p) /\ ~Ending(r)
  BY <1>1 DEF Validate, Ending, At
<1> HIDE DEF p
<1>5. QED
  BY <1>3, <1>4, Numbers, QuietKeeps DEF Validate

(* GetUserByID of a refresh.                                               *)
LEMMA CheckKeeps ==
  ASSUME MaxPasswords \in Nat, SessionsInv, NEW r \in Requests, CheckUser(r)
  PROVE  SessionsInv'
<1> DEFINE p == [proc[r] EXCEPT !.pc = "checked"]
<1>1. proc[r] \in Proc /\ proc[r].token \in Tokens /\ proc[r].opened <= password
  BY Numbers DEF CheckUser, At, SessionsInv, TokensSpent, SessionsExcused
<1>2. p \in Proc /\ p.pc = "checked" /\ p.token \in Tokens /\ p.opened <= password
  BY <1>1 DEF Proc, Pcs
<1>3. Become(r, p) /\ ~Ending(r)
  BY DEF CheckUser, Ending, At
<1> HIDE DEF p
<1>4. QED
  BY <1>2, <1>3, QuietKeeps DEF CheckUser

(* ConsumeRefreshToken: the session that is renewed has an excuse.  If a   *)
(* revocation has seen the token, the new one is overtaken.                *)
LEMMA ConsumeKeeps ==
  ASSUME MaxPasswords \in Nat, SessionsInv, NEW r \in Requests, Consume(r)
  PROVE  SessionsInv'
<1>1. PICK t \in Tokens : t = proc[r].token
  BY DEF Consume, At, SessionsInv, TokensSpent
<1>2. /\ proc[r] \in Proc /\ token[t] \in Token /\ ~Ending(r) /\ ~Held(t)
      /\ token[t].opened <= password
  BY <1>1, Numbers DEF Consume, At, Ending, SessionsInv, SessionsExcused
<1>3. CASE Become(r, Idle)
  BY <1>2, <1>3, IdleTyped, Numbers, QuietKeeps DEF Consume
<1>4. CASE /\ t \in Live
           /\ Become(r, [proc[r] EXCEPT !.pc = "rotating", !.opened = token[t].opened,
                                        !.overtaken = token[t].overtaken \/ Awaited(t)])
  <2> DEFINE p == [proc[r] EXCEPT !.pc = "rotating", !.opened = token[t].opened,
                                  !.overtaken = token[t].overtaken \/ Awaited(t)]
  <2>1. (token[t].overtaken \/ Awaited(t)) \in BOOLEAN
    OBVIOUS
  <2>2. p \in Proc
    BY <1>2, <2>1 DEF Proc, Token, Pcs
  <2>3. /\ p.pc = "rotating" /\ p.token = t /\ p.opened = token[t].opened
        /\ p.overtaken <=> token[t].overtaken \/ Awaited(t)
    BY <1>1, <1>2 DEF Proc
  <2>4. Become(r, p)
    BY <1>4
  <2> HIDE DEF p
  <2>5. Excused(token[t])
    BY <1>4 DEF SessionsInv, SessionsExcused
  <2>6. Excused(p)
    BY <2>3, <2>5 DEF Excused
  <2>7. \A q \in Requests : At(q, "sweeping") => Escaped(p, q)
    BY <1>4, <2>3 DEF Awaited, Escaped, SessionsInv, SessionsExcused
  <2>8. QED
    BY <1>2, <1>4, <2>2, <2>3, <2>4, <2>6, <2>7, QuietKeeps DEF Consume
<1>5. QED
  BY <1>1, <1>3, <1>4 DEF Consume

(* SendPasswordReset makes links fresh or useless, never unused again.     *)
LEMMA SendKeeps ==
  ASSUME MaxPasswords \in Nat, SessionsInv, NEW r \in Requests, SendPasswordReset(r)
  PROVE  SessionsInv'
<1>1. /\ link' \in [Links -> {"none", "live", "over"}]
      /\ \A l \in Links : link[l] = "over" => link'[l] = "over"
  BY DEF SendPasswordReset, DropLinks, MakeLink, DeleteEmailTokens, CreateEmailToken,
         SessionsInv, TypeOK
<1>2. /\ active' \in BOOLEAN
      /\ failedRevoke' \in 0..MaxPasswords /\ failedRevoke <= failedRevoke'
      /\ UNCHANGED <<password, token, failedRevoke, redeemed>> /\ ~Ending(r)
  BY Numbers DEF SendPasswordReset, DropLinks, MakeLink, At, Ending, SessionsInv, TypeOK
<1> DEFINE p == [Idle EXCEPT !.pc = "requesting"]
<1>3. p \in Proc /\ p.pc = "requesting" /\ p.opened = 0
  BY IdleTyped DEF Proc, Pcs
<1>4. Become(r, p) \/ Become(r, Idle)
  BY DEF SendPasswordReset, DropLinks, MakeLink
<1> HIDE DEF p
<1>5. QED
  BY <1>1, <1>2, <1>3, <1>4, Numbers, EndKeeps, MoveKeeps

(* GetByToken of a reset.                                                  *)
LEMMA ReadLinkKeeps ==
  ASSUME MaxPasswords \in Nat, SessionsInv, NEW r \in Requests, ReadLink(r)
  PROVE  SessionsInv'
<1>1. PICK l \in Redeemable : Become(r, [Idle EXCEPT !.pc = "redeeming", !.link = l])
  BY DEF ReadLink
<1> DEFINE p == [Idle EXCEPT !.pc = "redeeming", !.link = l]
<1>2. l \in Links /\ 0 \in 0..MaxPasswords
  BY DEF Redeemable
<1>3. p \in Proc /\ p.pc = "redeeming" /\ p.link \in Links /\ p.opened = 0
  BY <1>2 DEF Idle, Proc, Pcs
<1>4. Become(r, p) /\ ~Ending(r)
  BY <1>1 DEF ReadLink, Ending, At
<1> HIDE DEF p
<1>5. QED
  BY <1>3, <1>4, Numbers, QuietKeeps DEF ReadLink

(* claim: the link it takes was live, so nobody has set a password with it *)
(* or is about to.                                                         *)
LEMMA ClaimKeeps ==
  ASSUME MaxPasswords \in Nat, SessionsInv, NEW r \in Requests, Claim(r)
  PROVE  SessionsInv'
<1>1. PICK l \in Links : l = proc[r].link
  BY DEF Claim, SessionsInv, LinksSpent
<1>2. /\ proc[r] \in Proc /\ proc[r].opened <= password /\ ~Ending(r)
      /\ UNCHANGED <<password, active, token, failedRevoke, redeemed>>
      /\ active' \in BOOLEAN
      /\ failedRevoke' \in 0..MaxPasswords /\ failedRevoke <= failedRevoke'
  BY Numbers DEF Claim, At, Ending, SessionsInv, SessionsExcused, TypeOK
<1>3. CASE Become(r, Idle) /\ UNCHANGED link
  <2>1. link' \in [Links -> {"none", "live", "over"}]
    BY <1>3 DEF SessionsInv, TypeOK
  <2>2. QED
    BY <1>2, <1>3, <2>1, EndKeeps
<1>4. CASE /\ ClaimEmailToken(l)
           /\ Become(r, [proc[r] EXCEPT !.pc = "updating", !.changes = TRUE])
  <2> DEFINE p == [proc[r] EXCEPT !.pc = "updating", !.changes = TRUE]
  <2>1. p \in Proc /\ p.pc = "updating" /\ p.link = l /\ p.opened = proc[r].opened /\ p.changes
    BY <1>1, <1>2 DEF Proc, Pcs
  <2>2. /\ link[l] = "live" /\ link'[l] = "over"
        /\ link' \in [Links -> {"none", "live", "over"}]
        /\ \A k \in Links : link[k] = "over" => link'[k] = "over"
    BY <1>4 DEF ClaimEmailToken, SessionsInv, TypeOK
  <2>3. Become(r, p)
    BY <1>4
  <2> HIDE DEF p
  <2>4. QED
    BY <1>2, <2>1, <2>2, <2>3, MoveKeeps
<1>5. QED
  BY <1>1, <1>3, <1>4 DEF Claim

(* ChangePassword and AdminResetPassword use no link.                      *)
LEMMA StartKeeps ==
  ASSUME MaxPasswords \in Nat, NoLink \notin Links, SessionsInv, NEW r \in Requests,
         StartChange(r) \/ StartLogoutAll(r)
  PROVE  SessionsInv'
<1>1. PICK p \in {[Idle EXCEPT !.pc = "updating", !.changes = TRUE],
                [Idle EXCEPT !.pc = "revoking"]} : Become(r, p)
  BY DEF StartChange, StartLogoutAll
<1>2. 0 \in 0..MaxPasswords
  OBVIOUS
<1>3. /\ p \in Proc /\ p.pc \in {"updating", "revoking"} /\ p.link = NoLink /\ p.opened = 0
      /\ p.pc = "updating" => p.changes
  BY <1>2 DEF Idle, Proc, Pcs
<1>4. ~Ending(r) /\ UNCHANGED <<password, active, token, link, failedRevoke, redeemed>>
  BY DEF StartChange, StartLogoutAll, Ending, At
<1>5. QED
  BY <1>1, <1>3, <1>4, Numbers, QuietKeeps

-----------------------------------------------------------------------------
(* A new token has no children, and its parent no other child, for it was  *)
(* live until now.  The session has the excuses the request had.           *)
LEMMA CreateKeeps ==
  ASSUME MaxPasswords \in Nat, SessionsInv, NEW r \in Requests, Making(r), Become(r, Idle),
         UNCHANGED <<password, active, link, failedRevoke, redeemed>>,
         NEW t \in Fresh, NEW parent \in Tokens \cup {NoToken},
         token' \in [Tokens -> Token], token'[t] = Create(t, r, parent),
         parent # NoToken =>
           At(r, "rotating") /\ parent = proc[r].token /\ token'[parent] = Over(parent),
         \A u \in Tokens \ {t} : (u # parent \/ parent = NoToken) => token'[u] = token[u]
  PROVE  SessionsInv'
<1>1. /\ proc'[r] = Idle /\ proc' \in [Requests -> Proc]
      /\ \A q \in Requests : q # r => proc'[q] = proc[q]
  BY IdleTyped DEF Become, SessionsInv, TypeOK
<1>2. TypeOK'
  BY <1>1 DEF SessionsInv, TypeOK
<1>3. /\ t \in Tokens /\ token[t].state = "none" /\ token'[t].state = "live"
      /\ token'[t].parent = parent /\ token'[t].opened = proc[r].opened
      /\ token'[t].overtaken = proc[r].overtaken
  BY DEF Fresh, Create
<1>4. parent # NoToken => /\ parent \in Tokens /\ parent \in Live /\ parent # t
                          /\ token'[parent].state = "over"
                          /\ token'[parent].parent = token[parent].parent
                          /\ token'[parent].opened = 0
  <2> SUFFICES ASSUME parent # NoToken
               PROVE  /\ parent \in Tokens /\ parent \in Live /\ parent # t
                      /\ token'[parent].state = "over"
                      /\ token'[parent].parent = token[parent].parent
                      /\ token'[parent].opened = 0
    OBVIOUS
  <2>1. parent \in Tokens /\ parent \in Live /\ parent # t
    BY <1>3 DEF SessionsInv, TokensSpent, Live
  <2>2. token[parent] \in Token /\ token'[parent] = Over(parent)
    BY <2>1, Numbers
  <2>3. QED
    BY <2>1, <2>2, OverTyped
<1>5. /\ \A u \in Tokens \ {t} : token'[u].parent = token[u].parent
      /\ \A u \in Tokens : token[u].state = "over" => token'[u].state = "over"
      /\ \A u \in Live : (u # parent \/ parent = NoToken) => token'[u] = token[u]
      /\ \A u \in Live' : u = t \/ (u \in Live /\ token'[u] = token[u])
  BY <1>3, <1>4 DEF Live
<1>6. TokensSpent'
  <2>1. \A q \in Requests :
          /\ proc'[q].pc \in {"validated", "checked", "rotating"} => proc'[q].token \in Tokens
          /\ proc'[q].pc = "rotating" => q # r /\ proc'[q].token \in Live
    BY <1>1, IdleTyped DEF SessionsInv, TokensSpent, At
  <2>2. \A q \in Requests : proc'[q].pc = "rotating" => proc'[q].token \in Live'
    <3> SUFFICES ASSUME NEW q \in Requests, proc'[q].pc = "rotating"
                 PROVE  proc'[q].token \in Live'
      OBVIOUS
    <3>1. q # r /\ proc'[q].token \in Live /\ proc'[q] = proc[q]
      BY <1>1, <2>1
    <3>2. parent # NoToken => proc'[q].token # parent
      BY <3>1 DEF SessionsInv, TokensSpent, At
    <3>3. QED
      BY <1>5, <3>1, <3>2 DEF Live
  <2>3. \A q, s \in Requests : (proc'[q].pc = "rotating" /\ proc'[s].pc = "rotating" /\ q # s)
                                 => proc'[q].token # proc'[s].token
    BY <1>1, <2>1 DEF SessionsInv, TokensSpent, At
  <2>4. \A u \in Tokens : token'[u].parent # NoToken => token'[token'[u].parent].state = "over"
    <3>1. \A u \in Tokens : token[u].parent \in Tokens \cup {NoToken}
      BY Numbers DEF Token
    <3>2. QED
      BY <1>3, <1>4, <1>5, <3>1 DEF SessionsInv, TokensSpent
  <2>5. \A u \in Tokens : (token[u].parent = parent /\ parent # NoToken) => FALSE
    BY <1>4 DEF SessionsInv, TokensSpent, Live
  <2>6. \A u, v \in Tokens :
          (token'[u].parent # NoToken /\ token'[u].parent = token'[v].parent) => u = v
    BY <1>3, <1>5, <2>5 DEF SessionsInv, TokensSpent
  <2>7. QED
    BY <2>1, <2>2, <2>3, <2>4, <2>6 DEF TokensSpent, At
<1>7. LinksSpent'
  BY <1>1, IdleTyped DEF SessionsInv, LinksSpent, At
<1>8. SessionsExcused'
  <2>1. ~Ending(r)
    BY DEF Ending, Making
  <2>2. \A q \in Requests : Ending(q) => Ending(q)' /\ proc'[q].opened = proc[q].opened
    BY <1>1, <2>1 DEF Ending
  <2>3. ASSUME NEW x, x.opened \in Nat, Excused(x) PROVE Excused(x)'
    BY <2>2, <2>3, Numbers, ExcuseStays
  <2>4. \A u \in Live' : Excused(token[u])'
    <3> SUFFICES ASSUME NEW u \in Live' PROVE Excused(token[u])'
      OBVIOUS
    <3>1. CASE u = t
      <4>1. PICK x : x = proc[r]
        OBVIOUS
      <4>2. Excused(x) /\ x.opened \in Nat
        BY <4>1, Numbers DEF SessionsInv, SessionsExcused
      <4>3. Excused(x)'
        BY <2>3, <4>2
      <4>4. token'[u].opened = x.opened /\ token'[u].overtaken = x.overtaken
        BY <1>3, <3>1, <4>1
      <4>5. QED
        BY <4>3, <4>4 DEF Excused
    <3>2. CASE u \in Live /\ token'[u] = token[u]
      <4>1. PICK x : x = token[u]
        OBVIOUS
      <4>2. Excused(x) /\ x.opened \in Nat
        BY <3>2, <4>1, Numbers DEF SessionsInv, SessionsExcused, Live
      <4>3. Excused(x)'
        BY <2>3, <4>2
      <4>4. QED
        BY <3>2, <4>1, <4>3 DEF Excused
    <3>3. QED
      BY <1>5, <3>1, <3>2
  <2>5. \A q \in Requests : Making(q)' => Excused(proc[q])'
    <3> SUFFICES ASSUME NEW q \in Requests, Making(q)' PROVE Excused(proc[q])'
      OBVIOUS
    <3>1. PICK x : x = proc'[q]
      OBVIOUS
    <3>2. Excused(x) /\ x.opened \in Nat
      BY <1>1, <3>1, IdleTyped, Numbers DEF SessionsInv, SessionsExcused, Making
    <3>3. Excused(x)'
      BY <2>3, <3>2
    <3>4. QED
      BY <3>1, <3>3 DEF Excused
  <2>6. ASSUME NEW q \in Requests, At(q, "sweeping")'
        PROVE  /\ \A u \in Live' \ proc'[q].sees : Escaped(token[u], q)'
               /\ \A s \in Requests : Making(s)' => Escaped(proc[s], q)'
    <3>1. q # r /\ proc'[q] = proc[q] /\ At(q, "sweeping")
      BY <1>1, <2>6, IdleTyped DEF At
    <3>2. Escaped(proc[r], q)
      BY <3>1 DEF SessionsInv, SessionsExcused
    <3>3. \A u \in Live' \ proc'[q].sees : Escaped(token[u], q)'
      BY <1>3, <1>5, <3>1, <3>2 DEF SessionsInv, SessionsExcused, Escaped
    <3>4. \A s \in Requests : Making(s)' => Escaped(proc[s], q)'
      BY <1>1, <3>1, IdleTyped DEF SessionsInv, SessionsExcused, Making, Escaped
    <3>5. QED
      BY <3>3, <3>4
  <2>7. \A u \in Tokens : token'[u].opened <= password'
    BY <1>3, <1>4, Numbers DEF SessionsInv, SessionsExcused
  <2>8. \A q \in Requests : /\ proc'[q].opened <= password'
                            /\ At(q, "updating")' => proc'[q].changes
    BY <1>1, IdleTyped, Numbers DEF SessionsInv, SessionsExcused, At
  <2>9. QED
    BY <2>4, <2>5, <2>6, <2>7, <2>8 DEF SessionsExcused
<1>9. QED
  BY <1>2, <1>6, <1>7, <1>8 DEF SessionsInv

(* The token of a login.                                                   *)
LEMMA IssueKeeps ==
  ASSUME MaxPasswords \in Nat, SessionsInv, NEW r \in Requests, Issue(r)
  PROVE  SessionsInv'
<1>1. PICK t \in Fresh : token' = [token EXCEPT ![t] = Create(t, r, NoToken)]
  BY DEF Issue
<1>2. t \in Tokens /\ proc[r] \in Proc
  BY Numbers DEF Fresh
<1>3. Create(t, r, NoToken) \in Token
  BY <1>2 DEF Create, Token, Proc
<1>4. /\ token' \in [Tokens -> Token] /\ token'[t] = Create(t, r, NoToken)
      /\ \A u \in Tokens \ {t} : token'[u] = token[u]
  BY <1>1, <1>2, <1>3 DEF SessionsInv, TypeOK
<1>5. QED
  BY <1>4, CreateKeeps DEF Issue, At, Making

(* The token of a rotation: the commit of Rotate.                          *)
LEMMA CommitKeeps ==
  ASSUME MaxPasswords \in Nat, NoToken \notin Tokens, SessionsInv,
         NEW r \in Requests, Commit(r)
  PROVE  SessionsInv'
<1>1. PICK p \in Tokens : p = proc[r].token /\ p \in Live
  BY DEF Commit, SessionsInv, TokensSpent, Live
<1>2. PICK t \in Fresh :
        token' = [token EXCEPT ![t] = Create(t, r, p), ![p] = Over(p)]
  BY <1>1 DEF Commit
<1>3. t \in Tokens /\ t # p /\ proc[r] \in Proc /\ token[p] \in Token
  BY <1>1, Numbers DEF Fresh, Live
<1>4. Create(t, r, p) \in Token /\ Over(p) \in Token
  <2>1. Create(t, r, p) \in Token
    BY <1>3 DEF Create, Token, Proc
  <2>2. Over(p) \in Token
    BY <1>3, OverTyped
  <2>3. QED
    BY <2>1, <2>2
<1>5. /\ token' \in [Tokens -> Token] /\ token'[t] = Create(t, r, p) /\ token'[p] = Over(p)
      /\ \A u \in Tokens \ {t} : u # p => token'[u] = token[u]
  <2> DEFINE c == Create(t, r, p)
             o == Over(p)
  <2>1. token \in [Tokens -> Token] /\ c \in Token /\ o \in Token
        /\ token' = [token EXCEPT ![t] = c, ![p] = o]
    BY <1>2, <1>4 DEF SessionsInv, TypeOK
  <2> HIDE DEF c, o
  <2>2. /\ token' \in [Tokens -> Token] /\ token'[t] = c /\ token'[p] = o
        /\ \A u \in Tokens \ {t} : u # p => token'[u] = token[u]
    BY <1>3, <2>1
  <2>3. QED
    BY <2>2 DEF c, o
<1>6. /\ Making(r) /\ At(r, "rotating") /\ Become(r, Idle) /\ p \in Tokens \cup {NoToken}
      /\ UNCHANGED <<password, active, link, failedRevoke, redeemed>>
  BY DEF Commit, At, Making
<1>7. /\ p # NoToken => At(r, "rotating") /\ p = proc[r].token /\ token'[p] = Over(p)
      /\ \A u \in Tokens \ {t} : (u # p \/ p = NoToken) => token'[u] = token[u]
  BY <1>1, <1>5, <1>6
<1>8. QED
  BY <1>5, <1>6, <1>7, CreateKeeps

-----------------------------------------------------------------------------
(* Tokens end that no rotation holds: logout, expiry, and the revocation   *)
(* of all, which gives up the excuse it was for those it has not seen.     *)
LEMMA OverKeeps ==
  ASSUME MaxPasswords \in Nat, SessionsInv, NEW K \in SUBSET Live, \A t \in K : ~Held(t),
         token' = [t \in Tokens |-> IF t \in K THEN Over(t) ELSE token[t]],
         UNCHANGED <<password, active, link, failedRevoke, redeemed>>,
         \/ UNCHANGED proc
         \/ \E r \in Requests : /\ At(r, "sweeping") /\ Become(r, Idle)
                                /\ proc[r].sees \cap Live \subseteq K
  PROVE  SessionsInv'
<1>1. /\ proc' \in [Requests -> Proc]
      /\ \A q \in Requests : proc'[q] = proc[q] \/ (proc'[q] = Idle /\ At(q, "sweeping"))
  BY IdleTyped DEF Become, SessionsInv, TypeOK
<1>2. \A t \in Tokens : /\ Over(t) \in Token /\ Over(t).state = "over" /\ Over(t).opened = 0
                        /\ Over(t).parent = token[t].parent
  <2> SUFFICES ASSUME NEW t \in Tokens
               PROVE  /\ Over(t) \in Token /\ Over(t).state = "over" /\ Over(t).opened = 0
                      /\ Over(t).parent = token[t].parent
    OBVIOUS
  <2>1. token[t] \in Token
    BY Numbers
  <2>2. QED
    BY <2>1, OverTyped
<1>3. /\ token' \in [Tokens -> Token]
      /\ \A t \in Tokens : token'[t].parent = token[t].parent
      /\ \A t \in Tokens : token[t].state = "over" => token'[t].state = "over"
      /\ \A t \in Live' : t \in Live \ K /\ token'[t] = token[t]
      /\ \A t \in Live \ K : t \in Live'
      /\ \A t \in Tokens : token'[t].opened = 0 \/ token'[t] = token[t]
  BY <1>2, Numbers DEF Live
<1>4. TypeOK'
  BY <1>1, <1>3 DEF SessionsInv, TypeOK
<1>5. TokensSpent'
  <2>1. \A q \in Requests : proc'[q].pc \in {"validated", "checked", "rotating", "updating",
                                             "redeeming", "issuing"}
                              => proc'[q] = proc[q]
    BY <1>1, IdleTyped
  <2>2. \A q \in Requests :
          /\ proc'[q].pc \in {"validated", "checked", "rotating"} => proc'[q].token \in Tokens
          /\ proc'[q].pc = "rotating" => proc'[q].token \in Live'
    BY <1>3, <2>1 DEF SessionsInv, TokensSpent, At, Held
  <2>3. \A q, s \in Requests : (proc'[q].pc = "rotating" /\ proc'[s].pc = "rotating" /\ q # s)
                                 => proc'[q].token # proc'[s].token
    BY <2>1 DEF SessionsInv, TokensSpent, At
  <2>4. \A t \in Tokens : token'[t].parent # NoToken => token'[token'[t].parent].state = "over"
    <3>1. \A t \in Tokens : token[t].parent \in Tokens \cup {NoToken}
      BY Numbers DEF Token
    <3>2. QED
      BY <1>3, <3>1 DEF SessionsInv, TokensSpent
  <2>5. QED
    BY <1>3, <2>2, <2>3, <2>4 DEF SessionsInv, TokensSpent, At
<1>6. LinksSpent'
  BY <1>1, IdleTyped DEF SessionsInv, LinksSpent, At
<1>7. SessionsExcused'
  <2>1. ASSUME NEW x, x.opened \in Nat, Excused(x),
               \A q \in Requests : At(q, "sweeping") => Escaped(x, q) \/ proc'[q] = proc[q]
        PROVE  Excused(x)'
    <3>1. CASE x.overtaken \/ x.opened = password \/ x.opened < failedRevoke
      BY <3>1 DEF Excused
    <3>2. CASE ~x.overtaken /\ \E q \in Requests : Ending(q) /\ x.opened < proc[q].opened
      <4>1. PICK q \in Requests : Ending(q) /\ x.opened < proc[q].opened
        BY <3>2
      <4>2. ~(proc[q].opened <= x.opened)
        BY <2>1, <4>1, Numbers
      <4>3. proc'[q] = proc[q]
        BY <1>1, <2>1, <3>2, <4>2 DEF Escaped
      <4>4. QED
        BY <4>1, <4>3 DEF Excused, Ending
    <3>3. QED
      BY <2>1, <3>1, <3>2 DEF Excused
  <2>2. ASSUME NEW t \in Live' PROVE Excused(token[t])'
    <3>1. PICK x : x = token[t]
      OBVIOUS
    <3>2. t \in Live \ K /\ token'[t] = x /\ t \in Tokens
      BY <1>3, <2>2, <3>1 DEF Live
    <3>3. Excused(x) /\ x.opened \in Nat
      BY <3>1, <3>2, Numbers DEF SessionsInv, SessionsExcused
    <3>4. \A q \in Requests : At(q, "sweeping") => Escaped(x, q) \/ proc'[q] = proc[q]
      <4> SUFFICES ASSUME NEW q \in Requests, At(q, "sweeping"), proc'[q] # proc[q]
                   PROVE  Escaped(x, q)
        OBVIOUS
      <4>1. proc[q].sees \cap Live \subseteq K
        BY DEF Become, SessionsInv, TypeOK
      <4>2. t \in Live \ proc[q].sees
        BY <3>2, <4>1
      <4>3. QED
        BY <3>1, <4>2 DEF SessionsInv, SessionsExcused
    <3>5. Excused(x)'
      BY <2>1, <3>3, <3>4
    <3>6. QED
      BY <3>2, <3>5 DEF Excused
  <2>3. ASSUME NEW q \in Requests, Making(q)' PROVE Excused(proc[q])'
    <3>1. PICK x : x = proc[q]
      OBVIOUS
    <3>2. proc'[q] = x /\ Making(q)
      BY <1>1, <2>3, <3>1, IdleTyped DEF Making
    <3>3. Excused(x) /\ x.opened \in Nat
      BY <3>1, <3>2, Numbers DEF SessionsInv, SessionsExcused
    <3>4. \A s \in Requests : At(s, "sweeping") => Escaped(x, s)
      BY <3>1, <3>2 DEF SessionsInv, SessionsExcused
    <3>5. Excused(x)'
      BY <2>1, <3>3, <3>4
    <3>6. QED
      BY <3>2, <3>5 DEF Excused
  <2>4. ASSUME NEW q \in Requests, At(q, "sweeping")'
        PROVE  /\ \A t \in Live' \ proc'[q].sees : Escaped(token[t], q)'
               /\ \A s \in Requests : Making(s)' => Escaped(proc[s], q)'
    <3>1. proc'[q] = proc[q] /\ At(q, "sweeping")
      BY <1>1, <2>4, IdleTyped DEF At
    <3>2. \A t \in Live' \ proc'[q].sees : Escaped(token[t], q)'
      BY <1>3, <3>1 DEF SessionsInv, SessionsExcused, Escaped
    <3>3. \A s \in Requests : Making(s)' => Escaped(proc[s], q)'
      BY <1>1, <3>1, IdleTyped DEF SessionsInv, SessionsExcused, Making, Escaped
    <3>4. QED
      BY <3>2, <3>3
  <2>5. \A t \in Tokens : token'[t].opened <= password'
    BY <1>3, Numbers DEF SessionsInv, SessionsExcused
  <2>6. \A q \in Requests : /\ proc'[q].opened <= password'
                            /\ At(q, "updating")' => proc'[q].changes
    BY <1>1, IdleTyped, Numbers DEF SessionsInv, SessionsExcused, At
  <2>7. QED
    BY <2>2, <2>3, <2>4, <2>5, <2>6 DEF SessionsExcused
<1>8. QED
  BY <1>4, <1>5, <1>6, <1>7 DEF SessionsInv

(* One token ends, by logout or by its expiry.                             *)
LEMMA RevokeKeeps ==
  ASSUME MaxPasswords \in Nat, SessionsInv
  PROVE  /\ \A r \in Requests : Revoke(r) => SessionsInv'
         /\ \A t \in Tokens : Expire(t) => SessionsInv'
<1>1. ASSUME NEW t \in Live, ~Held(t), token' = [token EXCEPT ![t] = Over(t)],
             UNCHANGED <<password, active, link, proc, failedRevoke, redeemed>>
      PROVE  SessionsInv'
  <2>1. token' = [u \in Tokens |-> IF u \in {t} THEN Over(u) ELSE token[u]]
    BY <1>1 DEF SessionsInv, TypeOK
  <2>2. {t} \in SUBSET Live /\ \A u \in {t} : ~Held(u)
    BY <1>1
  <2>3. QED
    BY <1>1, <2>1, <2>2, OverKeeps
<1>2. QED
  BY <1>1 DEF Revoke, RevokeRefreshToken, Expire

(* RevokeAllUserRefreshTokens has reached all it has seen.                 *)
LEMMA RevokeAllKeeps ==
  ASSUME MaxPasswords \in Nat, SessionsInv, NEW r \in Requests, RevokeAll(r)
  PROVE  SessionsInv'
<1> DEFINE K == proc[r].sees \cap Live
<1>1. K \in SUBSET Live /\ \A t \in K : ~Held(t)
  BY DEF RevokeAll, RevokeAllOf
<1>2. token' = [t \in Tokens |-> IF t \in K THEN Over(t) ELSE token[t]]
  BY DEF RevokeAll, RevokeAllOf
<1>3. /\ At(r, "sweeping") /\ Become(r, Idle) /\ proc[r].sees \cap Live \subseteq K
      /\ UNCHANGED <<password, active, link, failedRevoke, redeemed>>
  BY DEF RevokeAll
<1> HIDE DEF K
<1>4. QED
  BY <1>1, <1>2, <1>3, OverKeeps

(* RevokeAllUserRefreshTokens starts: what it cannot see is overtaken.     *)
LEMMA SweepKeeps ==
  ASSUME MaxPasswords \in Nat, SessionsInv, NEW r \in Requests, Sweep(r)
  PROVE  SessionsInv'
<1>1. /\ UNCHANGED <<password, active, token, link, failedRevoke, redeemed>>
      /\ At(r, "revoking")
  BY DEF Sweep
<1>2. \A q \in Requests :
        proc'[q] = IF q = r THEN [proc[q] EXCEPT !.pc = "sweeping", !.sees = Live]
                   ELSE IF proc[q].pc \in {"issuing", "rotating"}
                   THEN [proc[q] EXCEPT !.overtaken = TRUE]
                   ELSE proc[q]
  BY DEF Sweep
<1>3. /\ proc'[r] = [proc[r] EXCEPT !.pc = "sweeping", !.sees = Live]
      /\ \A q \in Requests \ {r} : Making(q) => proc'[q] = [proc[q] EXCEPT !.overtaken = TRUE]
      /\ \A q \in Requests \ {r} : ~Making(q) => proc'[q] = proc[q]
  BY <1>2 DEF Making
<1>4. /\ proc'[r].pc = "sweeping" /\ proc'[r].sees = Live /\ proc'[r].opened = proc[r].opened
      /\ proc'[r].changes = proc[r].changes /\ proc'[r] \in Proc
  <2>1. proc[r] \in Proc /\ Live \in SUBSET Tokens
    BY Numbers DEF Live
  <2>2. QED
    BY <1>3, <2>1 DEF Proc, Pcs
<1>5. \A q \in Requests \ {r} :
        /\ proc'[q] \in Proc /\ proc'[q].pc = proc[q].pc /\ proc'[q].opened = proc[q].opened
        /\ proc'[q].token = proc[q].token /\ proc'[q].link = proc[q].link
        /\ proc'[q].sees = proc[q].sees /\ proc'[q].changes = proc[q].changes
  <2> SUFFICES ASSUME NEW q \in Requests \ {r}
               PROVE /\ proc'[q] \in Proc /\ proc'[q].pc = proc[q].pc
                     /\ proc'[q].opened = proc[q].opened
                     /\ proc'[q].token = proc[q].token /\ proc'[q].link = proc[q].link
                     /\ proc'[q].sees = proc[q].sees /\ proc'[q].changes = proc[q].changes
    OBVIOUS
  <2>1. proc[q] \in Proc
    BY Numbers
  <2>2. CASE Making(q)
    <3>1. proc'[q] = [proc[q] EXCEPT !.overtaken = TRUE]
      BY <1>3, <2>2
    <3>2. QED
      BY <2>1, <3>1 DEF Proc
  <2>3. CASE ~Making(q)
    <3>1. proc'[q] = proc[q]
      BY <1>3, <2>3
    <3>2. QED
      BY <2>1, <3>1
  <2>4. QED
    BY <2>2, <2>3
<1>6. \A q \in Requests \ {r} : Making(q) => proc'[q].overtaken
  <2> SUFFICES ASSUME NEW q \in Requests \ {r}, Making(q) PROVE proc'[q].overtaken
    OBVIOUS
  <2>1. proc[q] \in Proc
    BY Numbers
  <2>2. QED
    BY <1>3, <2>1 DEF Proc
<1>7. Live' = Live /\ Live \subseteq Tokens
  BY <1>1 DEF Live
<1>8. TypeOK'
  <2>1. proc' \in [Requests -> Proc]
    BY <1>4, <1>5 DEF Sweep
  <2>2. QED
    BY <1>1, <2>1 DEF SessionsInv, TypeOK
<1>9. TokensSpent'
  BY <1>1, <1>4, <1>5, <1>7 DEF SessionsInv, TokensSpent, At
<1>10. LinksSpent'
  BY <1>1, <1>4, <1>5 DEF SessionsInv, LinksSpent, At
<1>11. SessionsExcused'
  <2>1. \A q \in Requests : Ending(q) => Ending(q)' /\ proc'[q].opened = proc[q].opened
    BY <1>4, <1>5 DEF Ending
  <2>2. ASSUME NEW x, x.opened \in Nat, Excused(x) PROVE Excused(x)'
    BY <1>1, <2>1, <2>2, Numbers, ExcuseStays
  <2>3. \A t \in Live' : Excused(token[t])'
    BY <1>1, <1>7, <2>2, Numbers DEF SessionsInv, SessionsExcused
  <2>4. \A q \in Requests : Making(q)' => q # r /\ Making(q) /\ proc'[q].overtaken
    BY <1>4, <1>5, <1>6 DEF Making
  <2>5. \A q \in Requests : Making(q)' => Excused(proc[q])'
    BY <2>4 DEF Excused
  <2>6. ASSUME NEW q \in Requests, At(q, "sweeping")'
        PROVE  \A t \in Live' \ proc'[q].sees : Escaped(token[t], q)'
    <3>1. CASE q = r
      BY <1>4, <1>7, <3>1
    <3>2. CASE q # r
      BY <1>1, <1>5, <1>7, <2>6, <3>2 DEF SessionsInv, SessionsExcused, Escaped, At
    <3>3. QED
      BY <3>1, <3>2
  <2>7. \A q, s \in Requests : Making(s)' => Escaped(proc[s], q)'
    BY <2>4 DEF Escaped
  <2>8. \A q \in Requests : /\ proc'[q].opened <= password'
                            /\ At(q, "updating")' => proc'[q].changes
    BY <1>1, <1>4, <1>5 DEF SessionsInv, SessionsExcused, At
  <2>9. QED
    BY <1>1, <2>3, <2>5, <2>6, <2>7, <2>8 DEF SessionsInv, SessionsExcused
<1>12. QED
  BY <1>8, <1>9, <1>10, <1>11 DEF SessionsInv

(* UpdateUserPassword: every session now has an earlier password, and the  *)
(* request that set the new one excuses them all until it has ended them.  *)
LEMMA UpdateKeeps ==
  ASSUME MaxPasswords \in Nat, SessionsInv, NEW r \in Requests, Update(r)
  PROVE  SessionsInv'
<1> DEFINE p == [proc[r] EXCEPT !.pc = "revoking", !.opened = password + 1]
<1>1. /\ UNCHANGED <<active, token, link, failedRevoke>> /\ At(r, "updating")
      /\ password' = password + 1 /\ password < MaxPasswords
      /\ redeemed' = [k \in Links |-> redeemed[k] + IF k = proc[r].link THEN 1 ELSE 0]
  BY DEF Update, UpdateUserPassword
<1>2. proc[r] \in Proc /\ password + 1 \in 0..MaxPasswords
  BY <1>1, Numbers
<1>3. /\ p \in Proc /\ p.pc = "revoking" /\ p.opened = password + 1
      /\ p.changes = proc[r].changes
  BY <1>2 DEF Proc, Pcs
<1>4. /\ proc'[r] = p /\ proc' \in [Requests -> Proc]
      /\ \A q \in Requests : q # r => proc'[q] = proc[q]
  BY <1>3 DEF Update, Become, SessionsInv, TypeOK
<1> HIDE DEF p
<1>5. /\ \A l \in Links : redeemed[l] \in {0, 1}
      /\ \A l \in Links : l # proc[r].link => redeemed'[l] = redeemed[l]
      /\ \A l \in Links : l = proc[r].link =>
           redeemed[l] = 0 /\ redeemed'[l] = 1 /\ link[l] = "over"
  BY <1>1 DEF SessionsInv, LinksSpent
<1>6. \A l \in Links : redeemed'[l] \in {0, 1}
  BY <1>5
<1>7. TypeOK'
  <2>1. redeemed' \in [Links -> Nat]
    BY <1>1, <1>6
  <2>2. QED
    BY <1>1, <1>2, <1>4, <2>1 DEF SessionsInv, TypeOK
<1>8. Live' = Live /\ Live \subseteq Tokens
  BY <1>1 DEF Live
<1>9. TokensSpent'
  BY <1>1, <1>3, <1>4, <1>8 DEF SessionsInv, TokensSpent, At
<1>10. LinksSpent'
  <2>1. \A l \in Links : redeemed'[l] = 1 => link'[l] = "over"
    BY <1>1, <1>5 DEF SessionsInv, LinksSpent
  <2>2. ASSUME NEW q \in Requests, At(q, "updating")'
        PROVE  q # r /\ At(q, "updating") /\ proc'[q] = proc[q]
    BY <1>3, <1>4, <2>2 DEF At
  <2>3. \A q \in Requests : At(q, "redeeming")' => proc'[q].link \in Links
    BY <1>3, <1>4 DEF SessionsInv, LinksSpent, At
  <2>4. \A q \in Requests, l \in Links :
          (At(q, "updating")' /\ proc'[q].link = l) => link'[l] = "over" /\ redeemed'[l] = 0
    BY <1>1, <1>5, <2>2 DEF SessionsInv, LinksSpent
  <2>5. \A q, s \in Requests, l \in Links :
          (/\ At(q, "updating")' /\ proc'[q].link = l
           /\ At(s, "updating")' /\ proc'[s].link = l) => q = s
    BY <2>2 DEF SessionsInv, LinksSpent
  <2>6. QED
    BY <1>6, <2>1, <2>3, <2>4, <2>5 DEF LinksSpent
<1>11. SessionsExcused'
  <2>1. Ending(r)'
    BY <1>1, <1>3, <1>4 DEF Ending, SessionsInv, SessionsExcused
  <2>2. ASSUME NEW x, x.opened \in Nat, x.opened <= password PROVE Excused(x)'
    <3>1. x.opened < proc'[r].opened
      BY <1>3, <1>4, <2>2, Numbers
    <3>2. QED
      BY <2>1, <3>1 DEF Excused
  <2>3. \A t \in Live' : Excused(token[t])'
    BY <1>1, <1>8, <2>2, Numbers DEF SessionsInv, SessionsExcused
  <2>4. ASSUME NEW q \in Requests, Making(q)' PROVE Excused(proc[q])'
    <3>1. PICK x : x = proc[q]
      OBVIOUS
    <3>2. proc'[q] = x /\ Making(q)
      BY <1>3, <1>4, <2>4, <3>1 DEF Making
    <3>3. x.opened \in Nat /\ x.opened <= password
      BY <3>1, Numbers DEF SessionsInv, SessionsExcused
    <3>4. Excused(x)'
      BY <2>2, <3>3
    <3>5. QED
      BY <3>2, <3>4 DEF Excused
  <2>5. ASSUME NEW q \in Requests, At(q, "sweeping")'
        PROVE  /\ \A t \in Live' \ proc'[q].sees : Escaped(token[t], q)'
               /\ \A s \in Requests : Making(s)' => Escaped(proc[s], q)'
    <3>1. proc'[q] = proc[q] /\ At(q, "sweeping")
      BY <1>3, <1>4, <2>5 DEF At
    <3>2. \A s \in Requests : Making(s)' => Making(s) /\ proc'[s] = proc[s]
      BY <1>3, <1>4 DEF Making
    <3>3. QED
      BY <1>1, <1>8, <3>1, <3>2 DEF SessionsInv, SessionsExcused, Escaped
  <2>6. \A t \in Tokens : token'[t].opened <= password'
    BY <1>1, Numbers DEF SessionsInv, SessionsExcused
  <2>7. ASSUME NEW q \in Requests
        PROVE  proc'[q].opened <= password' /\ (At(q, "updating")' => proc'[q].changes)
    <3>1. CASE q = r
      BY <1>1, <1>3, <1>4, <3>1, Numbers DEF At
    <3>2. CASE q # r
      BY <1>1, <1>4, <3>2, Numbers DEF At, SessionsInv, SessionsExcused
    <3>3. QED
      BY <3>1, <3>2
  <2>8. QED
    BY <2>3, <2>4, <2>5, <2>6, <2>7 DEF SessionsExcused
<1>12. QED
  BY <1>7, <1>9, <1>10, <1>11 DEF SessionsInv

-----------------------------------------------------------------------------
(* SessionsInv is inductive.                                               *)
LEMMA InitInv ==
  ASSUME MaxPasswords \in Nat
  PROVE  Init => SessionsInv
<1> SUFFICES ASSUME Init PROVE SessionsInv
  OBVIOUS
<1>1. 0 \in 0..MaxPasswords
  OBVIOUS
<1>2. NewToken \in Token /\ Idle \in Proc
  BY <1>1, IdleTyped DEF NewToken, Token
<1>3. TypeOK
  BY <1>1, <1>2 DEF Init, TypeOK
<1>4. Live = {} /\ \A r \in Requests : proc[r] = Idle
  BY DEF Init, Live, NewToken
<1>5. TokensSpent /\ LinksSpent /\ SessionsExcused
  BY <1>4, IdleTyped
     DEF Init, NewToken, TokensSpent, LinksSpent, SessionsExcused, At, Making
<1>6. QED
  BY <1>3, <1>5 DEF SessionsInv

(* Every step keeps it.                                                    *)
LEMMA StepInv ==
  ASSUME MaxPasswords \in Nat, NoToken \notin Tokens, NoLink \notin Links
  PROVE  SessionsInv /\ [Next]_vars => SessionsInv'
<1> SUFFICES ASSUME SessionsInv, [Next]_vars PROVE SessionsInv'
  OBVIOUS
<1>1. ASSUME NEW r \in Requests, Fail(r) \/ Verify(r) \/ Issue(r) PROVE SessionsInv'
  BY <1>1, FailKeeps, VerifyKeeps, IssueKeeps
<1>2. ASSUME NEW r \in Requests, RefreshAccessToken(r) PROVE SessionsInv'
  BY <1>2, ValidateKeeps, CheckKeeps, ConsumeKeeps, CommitKeeps
     DEF RefreshAccessToken, RotateToken
<1>3. ASSUME NEW r \in Requests, Revoke(r) PROVE SessionsInv'
  BY <1>3, RevokeKeeps
<1>4. ASSUME NEW r \in Requests, SendPasswordReset(r) \/ ResetPassword(r) PROVE SessionsInv'
  BY <1>4, SendKeeps, ReadLinkKeeps, ClaimKeeps DEF ResetPassword
<1>5. ASSUME NEW r \in Requests, StartChange(r) \/ StartLogoutAll(r) PROVE SessionsInv'
  BY <1>5, StartKeeps
<1>6. ASSUME NEW r \in Requests, SetPassword(r) PROVE SessionsInv'
  BY <1>6, UpdateKeeps, SweepKeeps, RevokeAllKeeps DEF SetPassword, EndSessions
<1>7. ASSUME NEW t \in Tokens, Expire(t) PROVE SessionsInv'
  BY <1>7, RevokeKeeps
<1>8. ASSUME UNCHANGED <<password, token, link, proc, failedRevoke, redeemed>>,
             active' \in BOOLEAN
      PROVE  SessionsInv'
  <2>1. TypeOK'
    BY <1>8 DEF SessionsInv, TypeOK
  <2>2. Live' = Live
    BY <1>8 DEF Live
  <2>3. TokensSpent' /\ LinksSpent'
    BY <1>8, <2>2 DEF SessionsInv, TokensSpent, LinksSpent, At
  <2>4. SessionsExcused'
    BY <1>8, <2>2 DEF SessionsInv, SessionsExcused, Excused, Escaped, Ending, Making, At
  <2>5. QED
    BY <2>1, <2>3, <2>4 DEF SessionsInv
<1>9. CASE SetActive
  BY <1>8, <1>9 DEF SetActive
<1>10. CASE UNCHANGED vars
  <2>1. active' \in BOOLEAN
    BY <1>10 DEF vars, SessionsInv, TypeOK
  <2>2. QED
    BY <1>8, <1>10, <2>1 DEF vars
<1>11. QED
  BY <1>1, <1>2, <1>3, <1>4, <1>5, <1>6, <1>7, <1>9, <1>10 DEF Next

(* SpentOnce holds of every behaviour (RotateToken, whose conditional      *)
(* UPDATE consumes a refresh token, and the claim of ResetPassword): the   *)
(* only assumption is that the markers for "no token" and "no link" are    *)
(* none.                                                                   *)
THEOREM RedeemedOnce ==
  ASSUME MaxPasswords \in Nat, NoToken \notin Tokens, NoLink \notin Links
  PROVE  Spec => []SpentOnce
<1>1. SessionsInv => SpentOnce
  BY DEF SessionsInv, TokensSpent, LinksSpent, SpentOnce
<1>2. QED
  BY <1>1, InitInv, StepInv, PTL DEF Spec

(* PasswordEndsSessions holds of every behaviour (ChangePassword,          *)
(* ResetPassword, AdminResetPassword and RevokeAllUserRefreshTokens        *)
(* against logins and rotations under way).                                *)
THEOREM OldSessionsEnd ==
  ASSUME MaxPasswords \in Nat, NoToken \notin Tokens, NoLink \notin Links
  PROVE  Spec => []PasswordEndsSessions
<1>1. SessionsInv => PasswordEndsSessions
  BY DEF SessionsInv, SessionsExcused, Excused, PasswordEndsSessions
<1>2. QED
  BY <1>1, InitInv, StepInv, PTL DEF Spec
=============================================================================
