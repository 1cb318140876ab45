---------------------------- MODULE Accounts_proofs ----------------------------
(***************************************************************************)
(* Proofs about the run of MCAccounts, for any requests, tokens, links,    *)
(* accounts, names, mailboxes, keys, posts and comments.  Sessions is      *)
(* proved in a module of its own, for two sizes of the run; accounts,      *)
(* pictures, the browser and what hangs on posts and on comments are       *)
(* proved here, about the instances M, P, C, PC and CC.  Then each part is *)
(* shown to be a behaviour of its component, which no other part disturbs. *)
(* Sessions is taken in twice, by MCAccounts and with its proofs, and the  *)
(* first lemma about each size says that this is the same.                 *)
(***************************************************************************)
EXTENDS MCAccounts, Naturals, TLAPS

RotationProofs ==
  INSTANCE Sessions_proofs
    WITH token <- rows, Tokens <- RotatedTokens, Links <- {}, MaxPasswords <- 1
ResetProofs ==
  INSTANCE Sessions_proofs
    WITH token <- rows, Tokens <- ResetTokens, Links <- ResetLinks, MaxPasswords <- 2

-----------------------------------------------------------------------------
(* The sessions of the first size.                                         *)
LEMMA RotationSame ==
  /\ Rotation!Init <=> RotationProofs!Init
  /\ Rotation!Next <=> RotationProofs!Next
  /\ Rotation!vars = RotationProofs!vars
  /\ Rotation!SpentOnce <=> RotationProofs!SpentOnce
  /\ Rotation!PasswordEndsSessions <=> RotationProofs!PasswordEndsSessions
BY Zenon DEF Rotation!vars, Rotation!NewToken, Rotation!Idle, Rotation!Init, Rotation!At,
             Rotation!Become, Rotation!Live, Rotation!Fresh, Rotation!Over, Rotation!Held,
             Rotation!RevokeRefreshToken, Rotation!RevokeAllOf, Rotation!CreateEmailToken,
             Rotation!DeleteEmailTokens, Rotation!ClaimEmailToken, Rotation!Redeemable,
             Rotation!UpdateUserPassword, Rotation!Ending, Rotation!Fail, Rotation!Verify,
             Rotation!Create, Rotation!Issue, Rotation!Validate, Rotation!CheckUser,
             Rotation!Awaited, Rotation!Consume, Rotation!Commit, Rotation!RotateToken,
             Rotation!RefreshAccessToken, Rotation!Revoke, Rotation!Expire,
             Rotation!DropLinks, Rotation!MakeLink, Rotation!ReadLink, Rotation!Claim,
             Rotation!SendPasswordReset, Rotation!StartChange, Rotation!Update,
             Rotation!StartLogoutAll, Rotation!Sweep, Rotation!RevokeAll,
             Rotation!EndSessions, Rotation!SetPassword, Rotation!ResetPassword,
             Rotation!SetActive, Rotation!Next, Rotation!SpentOnce,
             Rotation!PasswordEndsSessions, RotationProofs!vars, RotationProofs!NewToken,
             RotationProofs!Idle, RotationProofs!Init, RotationProofs!At,
             RotationProofs!Become, RotationProofs!Live, RotationProofs!Fresh,
             RotationProofs!Over, RotationProofs!Held, RotationProofs!RevokeRefreshToken,
             RotationProofs!RevokeAllOf, RotationProofs!CreateEmailToken,
             RotationProofs!DeleteEmailTokens, RotationProofs!ClaimEmailToken,
             RotationProofs!Redeemable, RotationProofs!UpdateUserPassword,
             RotationProofs!Ending, RotationProofs!Fail, RotationProofs!Verify,
             RotationProofs!Create, RotationProofs!Issue, RotationProofs!Validate,
             RotationProofs!CheckUser, RotationProofs!Awaited, RotationProofs!Consume,
             RotationProofs!Commit, RotationProofs!RotateToken,
             RotationProofs!RefreshAccessToken, RotationProofs!Revoke,
             RotationProofs!Expire, RotationProofs!DropLinks, RotationProofs!MakeLink,
             RotationProofs!ReadLink, RotationProofs!Claim,
             RotationProofs!SendPasswordReset, RotationProofs!StartChange,
             RotationProofs!Update, RotationProofs!StartLogoutAll, RotationProofs!Sweep,
             RotationProofs!RevokeAll, RotationProofs!EndSessions,
             RotationProofs!SetPassword, RotationProofs!ResetPassword,
             RotationProofs!SetActive, RotationProofs!Next, RotationProofs!SpentOnce,
             RotationProofs!PasswordEndsSessions

(* The part goes as its specification says, and is the only one.           *)
LEMMA RotationApart ==
  part = "rotation" /\ Spec => RotationProofs!Spec /\ [](part = "rotation")
<1>1. part = "rotation" /\ Init => RotationProofs!Init
  BY RotationSame DEF Init
<1>2. part = "rotation" /\ [Next]_vars
      => [RotationProofs!Next]_RotationProofs!vars /\ (part = "rotation")'
  BY RotationSame DEF Next, vars, RotationProofs!vars
<1>3. QED
  BY <1>1, <1>2, PTL DEF Spec, RotationProofs!Spec

(* The sessions of the second size.                                        *)
LEMMA ResetSame ==
  /\ Reset!Init <=> ResetProofs!Init
  /\ Reset!Next <=> ResetProofs!Next
  /\ Reset!vars = ResetProofs!vars
  /\ Reset!SpentOnce <=> ResetProofs!SpentOnce
  /\ Reset!PasswordEndsSessions <=> ResetProofs!PasswordEndsSessions
BY Zenon DEF Reset!vars, Reset!NewToken, Reset!Idle, Reset!Init, Reset!At, Reset!Become,
             Reset!Live, Reset!Fresh, Reset!Over, Reset!Held, Reset!RevokeRefreshToken,
             Reset!RevokeAllOf, Reset!CreateEmailToken, Reset!DeleteEmailTokens,
             Reset!ClaimEmailToken, Reset!Redeemable, Reset!UpdateUserPassword,
             Reset!Ending, Reset!Fail, Reset!Verify, Reset!Create, Reset!Issue,
             Reset!Validate, Reset!CheckUser, Reset!Awaited, Reset!Consume, Reset!Commit,
             Reset!RotateToken, Reset!RefreshAccessToken, Reset!Revoke, Reset!Expire,
             Reset!DropLinks, Reset!MakeLink, Reset!ReadLink, Reset!Claim,
             Reset!SendPasswordReset, Reset!StartChange, Reset!Update, Reset!StartLogoutAll,
             Reset!Sweep, Reset!RevokeAll, Reset!EndSessions, Reset!SetPassword,
             Reset!ResetPassword, Reset!SetActive, Reset!Next, Reset!SpentOnce,
             Reset!PasswordEndsSessions, ResetProofs!vars, ResetProofs!NewToken,
             ResetProofs!Idle, ResetProofs!Init, ResetProofs!At, ResetProofs!Become,
             ResetProofs!Live, ResetProofs!Fresh, ResetProofs!Over, ResetProofs!Held,
             ResetProofs!RevokeRefreshToken, ResetProofs!RevokeAllOf,
             ResetProofs!CreateEmailToken, ResetProofs!DeleteEmailTokens,
             ResetProofs!ClaimEmailToken, ResetProofs!Redeemable,
             ResetProofs!UpdateUserPassword, ResetProofs!Ending, ResetProofs!Fail,
             ResetProofs!Verify, ResetProofs!Create, ResetProofs!Issue,
             ResetProofs!Validate, ResetProofs!CheckUser, ResetProofs!Awaited,
             ResetProofs!Consume, ResetProofs!Commit, ResetProofs!RotateToken,
             ResetProofs!RefreshAccessToken, ResetProofs!Revoke, ResetProofs!Expire,
             ResetProofs!DropLinks, ResetProofs!MakeLink, ResetProofs!ReadLink,
             ResetProofs!Claim, ResetProofs!SendPasswordReset, ResetProofs!StartChange,
             ResetProofs!Update, ResetProofs!StartLogoutAll, ResetProofs!Sweep,
             ResetProofs!RevokeAll, ResetProofs!EndSessions, ResetProofs!SetPassword,
             ResetProofs!ResetPassword, ResetProofs!SetActive, ResetProofs!Next,
             ResetProofs!SpentOnce, ResetProofs!PasswordEndsSessions

(* The part goes as its specification says, and is the only one.           *)
LEMMA ResetApart ==
  part = "reset" /\ Spec => ResetProofs!Spec /\ [](part = "reset")
<1>1. part = "reset" /\ Init => ResetProofs!Init
  BY ResetSame DEF Init
<1>2. part = "reset" /\ [Next]_vars
      => [ResetProofs!Next]_ResetProofs!vars /\ (part = "reset")'
  BY ResetSame DEF Next, vars, ResetProofs!vars
<1>3. QED
  BY <1>1, <1>2, PTL DEF Spec, ResetProofs!Spec

-----------------------------------------------------------------------------
(* One account per name and, the root account aside, per mailbox: for any  *)
(* accounts, requests, operator commands and booting servers.  The unique  *)
(* indexes compare texts, so what carries the proof is that every address  *)
(* but the configured one is in lower case by the time it is stored.       *)
Proc == [pc : M!Pcs, id : ResetTokens \cup {NoId}, name : Names \cup {NoName},
         email : M!Address \cup {NoAddress}]
LowerCase == [box : Boxes, lower : {TRUE}]

\* The table: ids and the columns with unique indexes.
RowsUnique ==
  \A u, v \in rows : u # v => u.id # v.id /\ u.name # v.name /\ u.email # v.email

\* What is stored, and what a request is about to store.
StoredLower == \A u \in rows : u.email \in LowerCase \cup {M!RootAddress}
TypedLower ==
  \A r \in Requests :
    /\ proc[r].pc \in {"named", "hashed", "comparing", "updating"} =>
         proc[r].email \in LowerCase
    /\ proc[r].pc \in {"named", "hashed"} => proc[r].name \in Names

MembersInv ==
  /\ rows \subseteq M!Row
  /\ proc \in [Requests -> Proc]
  /\ RowsUnique /\ StoredLower /\ TypedLower

-----------------------------------------------------------------------------
(* Indexes on texts are indexes on mailboxes if the texts are normalized.  *)
LEMMA InvImpliesDistinct == MembersInv => M!AccountsDistinct
<1> SUFFICES ASSUME MembersInv, NEW u \in rows, NEW v \in rows, u.id # v.id
             PROVE  /\ u.name # v.name
                    /\ u.email.box = v.email.box => M!RootAddress \in {u.email, v.email}
  BY DEF M!AccountsDistinct
<1>1. \A a, b \in LowerCase : a.box = b.box => a = b
  <2>1. \A a \in LowerCase : a.lower = TRUE
    BY DEF LowerCase
  <2>2. \A a \in LowerCase : a = [box |-> a.box, lower |-> a.lower]
    BY DEF LowerCase
  <2>3. QED
    BY <2>1, <2>2
<1>2. u.name # v.name /\ u.email # v.email
  BY DEF MembersInv, RowsUnique
<1>3. u.email \in LowerCase \cup {M!RootAddress} /\ v.email \in LowerCase \cup {M!RootAddress}
  BY DEF MembersInv, StoredLower
<1>4. QED
  BY <1>1, <1>2, <1>3

(* A request moves within its type.                                        *)
LEMMA BecomeTyped ==
  ASSUME proc \in [Requests -> Proc], NEW r \in Requests, NEW p \in Proc, M!Become(r, p)
  PROVE  /\ proc' \in [Requests -> Proc]
         /\ proc'[r] = p
         /\ \A q \in Requests : q # r => proc'[q] = proc[q]
BY DEF M!Become

(* A step that writes no row of users keeps the invariant, if an address   *)
(* the request holds is in lower case.                                     *)
LEMMA StepKeeps ==
  ASSUME MembersInv, UNCHANGED rows, NEW r \in Requests, NEW p \in Proc, M!Become(r, p),
         p.pc \in {"named", "hashed", "comparing", "updating"} => p.email \in LowerCase,
         p.pc \in {"named", "hashed"} => p.name \in Names
  PROVE  MembersInv'
<1>1. /\ proc' \in [Requests -> Proc] /\ proc'[r] = p
      /\ \A q \in Requests : q # r => proc'[q] = proc[q]
  BY BecomeTyped DEF MembersInv
<1>2. TypedLower'
  BY <1>1 DEF MembersInv, TypedLower
<1>3. QED
  BY <1>1, <1>2 DEF MembersInv, RowsUnique, StoredLower

(* The end of a request, whatever it did to the rows.                      *)
LEMMA IdleTyped == M!Idle \in Proc /\ M!Idle.pc = "idle"
BY DEF M!Idle, Proc, M!Pcs

(* A request ends, and the rows are in order.                              *)
LEMMA EndKeeps ==
  ASSUME MembersInv, NEW r \in Requests, M!Become(r, M!Idle),
         rows' \subseteq M!Row, RowsUnique', StoredLower'
  PROVE  MembersInv'
<1>1. /\ proc' \in [Requests -> Proc] /\ proc'[r] = M!Idle
      /\ \A q \in Requests : q # r => proc'[q] = proc[q]
  BY BecomeTyped, IdleTyped DEF MembersInv
<1>2. TypedLower'
  BY <1>1, IdleTyped DEF MembersInv, TypedLower
<1>3. QED
  BY <1>1, <1>2 DEF MembersInv

(* The statements that write rows of users.                                *)
LEMMA InsertKeeps ==
  ASSUME MembersInv, NEW i \in M!NewId, NEW n \in Names,
         NEW a \in LowerCase \cup {M!RootAddress},
         a \in M!Address, M!Insert(M!NewRow(i, n, a))
  PROVE  rows' \subseteq M!Row /\ RowsUnique' /\ StoredLower'
<1> DEFINE row == M!NewRow(i, n, a)
<1>1. /\ row \in M!Row /\ row.id = i /\ row.name = n /\ row.email = a
      /\ \A u \in rows : u.id # i
  BY DEF M!NewRow, M!Row, M!NewId
<1>2. M!Unique(row) /\ rows' = rows \cup {row}
  BY DEF M!Insert
<1> HIDE DEF row
<1>3. QED
  BY <1>1, <1>2 DEF M!Unique, MembersInv, RowsUnique, StoredLower

(* UpdateUser and DeactivateUser: one row is replaced.                     *)
LEMMA ReplaceKeeps ==
  ASSUME MembersInv, NEW u \in rows, NEW row \in M!Row, M!Replace(u, row), M!Unique(row),
         row.id = u.id,
         row.email \in LowerCase \cup {M!RootAddress}
  PROVE  rows' \subseteq M!Row /\ RowsUnique' /\ StoredLower'
BY DEF M!Replace, M!Unique, MembersInv, RowsUnique, StoredLower

(* AdminSetUserActive touches neither names nor addresses.                 *)
LEMMA SetActiveKeeps ==
  ASSUME MembersInv, NEW i, NEW on \in BOOLEAN, M!SetActive(i, on)
  PROVE  rows' \subseteq M!Row /\ RowsUnique' /\ StoredLower'
<1> DEFINE Set(u) == IF u.id = i THEN [u EXCEPT !.active = on] ELSE u
<1>1. rows' = {Set(u) : u \in rows}
  BY DEF M!SetActive
<1>2. \A u \in rows : /\ Set(u) \in M!Row /\ Set(u).id = u.id
                      /\ Set(u).name = u.name /\ Set(u).email = u.email
  BY DEF MembersInv, M!Row
<1> HIDE DEF Set
<1>3. rows' \subseteq M!Row /\ StoredLower'
  BY <1>1, <1>2 DEF MembersInv, StoredLower
<1>4. RowsUnique'
  <2> SUFFICES ASSUME NEW x \in rows', NEW y \in rows', x # y
               PROVE  x.id # y.id /\ x.name # y.name /\ x.email # y.email
    BY DEF RowsUnique
  <2>1. PICK u \in rows, v \in rows : x = Set(u) /\ y = Set(v)
    BY <1>1
  <2>2. u # v
    BY <2>1
  <2>3. QED
    BY <1>2, <2>1, <2>2 DEF MembersInv, RowsUnique
<1>5. QED
  BY <1>3, <1>4

-----------------------------------------------------------------------------
(* AccountsDistinct holds of every behaviour, if the configured root        *)
(* account has a name and an address (UserService.CreateUser, UpdateUser,   *)
(* the unique indexes of users and bootstrapRootUser).                      *)
LEMMA RowsStayDistinct ==
  ASSUME RootName \in Names, RootBox \in Boxes
  PROVE  M!Spec => []M!AccountsDistinct
<1>1. M!Init => MembersInv
  BY IdleTyped DEF M!Init, MembersInv, RowsUnique, StoredLower, TypedLower
<1>2. MembersInv /\ [M!Next]_M!vars => MembersInv'
  <2> SUFFICES ASSUME MembersInv, [M!Next]_M!vars PROVE MembersInv'
    OBVIOUS
  <2>0. /\ \A r \in Requests : proc[r] \in Proc
        /\ \A a \in M!Address : M!Normalized(a) \in LowerCase
        /\ LowerCase \subseteq M!Address /\ M!RootAddress \in M!Address
        /\ \A u \in rows : u \in M!Row /\ u.email \in LowerCase \cup {M!RootAddress}
    BY DEF MembersInv, StoredLower, M!Normalized, M!Address, LowerCase, M!RootAddress
  <2>1. ASSUME NEW r \in Requests, M!Fail(r) PROVE MembersInv'
    BY <2>1, IdleTyped, StepKeeps DEF M!Fail, M!Refused
  <2>2. ASSUME NEW r \in Requests, M!CheckName(r) PROVE MembersInv'
    <3>1. PICK q \in M!Registration :
            M!Become(r, [M!Idle EXCEPT !.pc = "named", !.name = q.name,
            !.email = M!Normalized(q.email)])
      BY <2>2 DEF M!CheckName
    <3> DEFINE p == [M!Idle EXCEPT !.pc = "named", !.name = q.name,
    !.email = M!Normalized(q.email)]
    <3>2. q.name \in Names /\ M!Normalized(q.email) \in LowerCase
      BY <2>0 DEF M!Registration
    <3>3. p \in Proc /\ p.name \in Names /\ p.email \in LowerCase
      BY <2>0, <3>2 DEF M!Idle, Proc, M!Pcs
    <3> HIDE DEF p
    <3>4. QED
      BY <2>2, <3>1, <3>3, StepKeeps DEF M!CheckName, p
  <2>3. ASSUME NEW r \in Requests, M!CheckEmail(r) PROVE MembersInv'
    <3> DEFINE p == [proc[r] EXCEPT !.pc = "hashed"]
    <3>1. proc[r].email \in LowerCase /\ proc[r].name \in Names
      BY <2>3 DEF M!CheckEmail, M!At, MembersInv, TypedLower
    <3>2. p \in Proc /\ p.email = proc[r].email /\ p.name = proc[r].name
      BY <2>0 DEF Proc, M!Pcs
    <3>3. (M!Become(r, p) \/ M!Become(r, M!Idle)) /\ UNCHANGED rows
      BY <2>3 DEF M!CheckEmail, M!Refused
    <3> HIDE DEF p
    <3>4. QED
      BY <3>1, <3>2, <3>3, IdleTyped, StepKeeps
  <2>4. ASSUME NEW r \in Requests, M!CreateUser(r) PROVE MembersInv'
    <3>1. proc[r].email \in LowerCase /\ proc[r].name \in Names
      BY <2>4 DEF M!CreateUser, M!At, MembersInv, TypedLower
    <3>2. PICK i \in M!NewId : M!Insert(M!NewRow(i, proc[r].name, proc[r].email))
      BY <2>4 DEF M!CreateUser
    <3>3. rows' \subseteq M!Row /\ RowsUnique' /\ StoredLower'
      BY <2>0, <3>1, <3>2, InsertKeeps
    <3>4. QED
      BY <2>4, <3>3, EndKeeps DEF M!CreateUser
  <2>5. ASSUME NEW r \in Requests, M!LoadForUpdate(r) PROVE MembersInv'
    <3>1. PICK pc \in {"updating", "comparing"}, i \in ResetTokens, a \in M!Address :
            M!Become(r, [M!Idle EXCEPT !.pc = pc, !.id = i, !.email = M!Normalized(a)])
      BY <2>5 DEF M!LoadForUpdate
    <3> DEFINE p == [M!Idle EXCEPT !.pc = pc, !.id = i, !.email = M!Normalized(a)]
    <3>2. p \in Proc /\ p.pc = pc /\ p.email \in LowerCase
      BY <2>0 DEF M!Idle, Proc, M!Pcs
    <3>3. M!Become(r, p) /\ UNCHANGED rows
      BY <2>5, <3>1 DEF M!LoadForUpdate
    <3> HIDE DEF p
    <3>4. QED
      BY <3>2, <3>3, StepKeeps
  <2>6. ASSUME NEW r \in Requests, M!CompareEmail(r) PROVE MembersInv'
    <3> DEFINE p == [proc[r] EXCEPT !.pc = "updating"]
    <3>1. proc[r].email \in LowerCase
      BY <2>6 DEF M!CompareEmail, M!At, MembersInv, TypedLower
    <3>2. p \in Proc /\ p.pc = "updating" /\ p.email = proc[r].email
      BY <2>0 DEF Proc, M!Pcs
    <3>3. (M!Become(r, p) \/ M!Become(r, M!Idle)) /\ UNCHANGED rows
      BY <2>6 DEF M!CompareEmail, M!Refused
    <3> HIDE DEF p
    <3>4. QED
      BY <3>1, <3>2, <3>3, IdleTyped, StepKeeps
  <2>7. ASSUME NEW r \in Requests, M!UpdateUser(r) PROVE MembersInv'
    <3>1. proc[r].email \in LowerCase
      BY <2>7 DEF M!UpdateUser, M!At, MembersInv, TypedLower
    <3>2. PICK u \in rows :
            LET row == [u EXCEPT !.email = proc[r].email] IN M!Unique(row) /\ M!Replace(u, row)
      BY <2>7 DEF M!UpdateUser, M!SetEmail
    <3> DEFINE row == [u EXCEPT !.email = proc[r].email]
    <3>3. row \in M!Row /\ row.id = u.id /\ row.email = proc[r].email
      BY <2>0, <3>1 DEF M!Row
    <3>4. M!Unique(row) /\ M!Replace(u, row)
      BY <3>2
    <3> HIDE DEF row
    <3>5. rows' \subseteq M!Row /\ RowsUnique' /\ StoredLower'
      BY <3>1, <3>3, <3>4, ReplaceKeeps
    <3>6. QED
      BY <2>7, <3>5, EndKeeps DEF M!UpdateUser
  <2>8. ASSUME NEW r \in Requests, M!DeactivateUser(r) PROVE MembersInv'
    <3>1. PICK u \in rows : M!Replace(u, [u EXCEPT !.active = FALSE])
      BY <2>8 DEF M!DeactivateUser, M!SetInactive
    <3> DEFINE row == [u EXCEPT !.active = FALSE]
    <3>2. /\ row \in M!Row /\ row.id = u.id /\ row.email = u.email /\ row.name = u.name
          /\ u.email \in LowerCase \cup {M!RootAddress}
      BY <2>0 DEF M!Row
    <3> HIDE DEF row
    <3>3. M!Unique(row)
      BY <3>2 DEF M!Unique, MembersInv, RowsUnique
    <3>4. rows' \subseteq M!Row /\ RowsUnique' /\ StoredLower'
      BY <3>1, <3>2, <3>3, ReplaceKeeps DEF row
    <3>5. QED
      BY <2>8, <3>4, EndKeeps DEF M!DeactivateUser
  <2>9. ASSUME NEW r \in Requests, M!AdminSetActive(r) PROVE MembersInv'
    <3>1. PICK i \in ResetTokens, on \in BOOLEAN : M!SetActive(i, on)
      BY <2>9 DEF M!AdminSetActive
    <3>2. QED
      BY <2>9, <3>1, SetActiveKeeps, EndKeeps DEF M!AdminSetActive
  <2>10. ASSUME NEW r \in Requests,
                NEW pc \in M!Pcs \ {"named", "hashed", "comparing", "updating"},
                NEW i \in ResetTokens, M!Become(r, [M!Idle EXCEPT !.pc = pc, !.id = i]),
                UNCHANGED rows
         PROVE  MembersInv'
    <3> DEFINE p == [M!Idle EXCEPT !.pc = pc, !.id = i]
    <3>1. p \in Proc /\ p.pc = pc
      BY DEF M!Idle, Proc
    <3>2. M!Become(r, p)
      BY <2>10
    <3> HIDE DEF p
    <3>3. QED
      BY <2>10, <3>1, <3>2, StepKeeps
  <2>11. ASSUME NEW r \in Requests,
                M!LoadForDeactivation(r) \/ M!RequireRole(r) \/ M!AdminFindUser(r)
         PROVE  MembersInv'
    <3>1. /\ UNCHANGED rows
          /\ \E pc \in {"deactivating", "admitted", "assigning"}, i \in ResetTokens :
               M!Become(r, [M!Idle EXCEPT !.pc = pc, !.id = i])
      BY <2>11 DEF M!LoadForDeactivation, M!RequireRole, M!AdminFindUser
    <3>2. {"deactivating", "admitted", "assigning"}
            \subseteq M!Pcs \ {"named", "hashed", "comparing", "updating"}
      BY DEF M!Pcs
    <3>3. QED
      BY <2>10, <3>1, <3>2
  <2>12. ASSUME NEW r \in Requests, NEW pc \in {"assigning", "revoking", "deactivating"},
                M!Command(r, pc)
         PROVE  MembersInv'
    <3>1. PICK u \in M!Row : M!Become(r, [M!Idle EXCEPT !.pc = pc, !.id = u.id])
      BY <2>12 DEF M!Command
    <3>2. /\ u.id \in ResetTokens /\ UNCHANGED rows
          /\ pc \in M!Pcs \ {"named", "hashed", "comparing", "updating"}
      BY <2>12 DEF M!Command, M!Row, M!Pcs
    <3>3. QED
      BY <2>10, <3>1, <3>2
  <2>13. ASSUME NEW r \in Requests,
                M!AdminAssignRole(r) \/ M!AdminRemoveRole(r) \/ M!RevokeRole(r)
         PROVE  MembersInv'
    BY <2>13, IdleTyped, StepKeeps DEF M!AdminAssignRole, M!AdminRemoveRole, M!RevokeRole
  <2>14. ASSUME UNCHANGED <<rows, proc>> PROVE MembersInv'
    BY <2>14 DEF MembersInv, RowsUnique, StoredLower, TypedLower
  <2>15. ASSUME NEW s \in Requests, M!CreateRoot(s) PROVE MembersInv'
    <3>1. CASE UNCHANGED rows
      BY <2>14, <2>15, <3>1 DEF M!CreateRoot
    <3>2. CASE \E i \in M!NewId : M!Insert(M!NewRow(i, RootName, M!RootAddress))
      <4>1. rows' \subseteq M!Row /\ RowsUnique' /\ StoredLower'
        BY <2>0, <3>2, InsertKeeps
      <4>2. QED
        BY <2>15, <4>1 DEF M!CreateRoot, MembersInv, TypedLower
    <3>3. QED
      BY <2>15, <3>1, <3>2 DEF M!CreateRoot
  <2>16. ASSUME NEW s \in Requests, M!Bootstrap(s) \/ M!StartBoot(s) PROVE MembersInv'
    BY <2>14, <2>15, <2>16
       DEF M!Bootstrap, M!BootstrapRootUser, M!GrantAdminRole, M!StartBoot, M!LookForRoot,
           M!LoadRoot
  <2>17. ASSUME NEW s \in Requests, M!Stop(s) PROVE MembersInv'
    <3>1. \A r \in Requests : proc'[r] \in Proc
      BY <2>0, <2>17, IdleTyped DEF M!Stop
    <3>2. proc' \in [Requests -> Proc]
      BY <2>17, <3>1 DEF M!Stop
    <3>3. TypedLower'
      BY <2>17, IdleTyped DEF M!Stop, MembersInv, TypedLower
    <3>4. QED
      BY <2>17, <3>2, <3>3 DEF M!Stop, MembersInv, RowsUnique, StoredLower
  <2>18. ASSUME NEW r \in Requests,
                \/ M!Register(r) \/ M!UpdateAccount(r) \/ M!DeactivateAccount(r)
                \/ M!SetUserStatus(r) \/ M!GrantRole(r) \/ M!WithdrawRole(r)
                \/ M!CmdCreate(r) \/ M!CmdSetRole(r) \/ M!CmdDeactivate(r)
         PROVE  MembersInv'
    BY <2>2, <2>3, <2>4, <2>5, <2>6, <2>7, <2>8, <2>9, <2>11, <2>12, <2>13, <2>18
       DEF M!Register, M!UpdateAccount, M!DeactivateAccount, M!SetUserStatus, M!GrantRole,
           M!WithdrawRole,
           M!CmdCreate, M!CmdSetRole, M!CmdDeactivate
  <2>19. CASE UNCHANGED M!vars
    BY <2>14, <2>19 DEF M!vars
  <2>20. QED
    BY <2>1, <2>11, <2>16, <2>17, <2>18, <2>19 DEF M!Next
<1>3. QED
  BY <1>1, <1>2, InvImpliesDistinct, PTL DEF M!Spec

(* The part goes as its specification says, and is the only one.           *)
LEMMA MembersApart ==
  part = "members" /\ Spec => M!Spec /\ [](part = "members")
<1>1. part = "members" /\ Init => M!Init
  BY DEF Init
<1>2. part = "members" /\ [Next]_vars => [M!Next]_M!vars /\ (part = "members")'
  BY DEF Next, vars, M!vars
<1>3. QED
  BY <1>1, <1>2, PTL DEF Spec, M!Spec

-----------------------------------------------------------------------------
(* The picture an account names is there, for any number of uploads at     *)
(* once, any columns and any keys: a key is named in at most one column,   *)
(* by the one request that made it, and once another has replaced it,      *)
(* never again.                                                            *)

\* A request knows its column once it was received.
ColumnChosen == \A r \in Requests : ~P!At(r, "idle") => proc[r].column \in ResetTokens

\* The requests that have stored an object and not yet answered.
Holding(r) == proc[r].pc \in {"stored", "named", "undoing"}

\* Keys are made once: what a request holds, has read or a column names was
\* made before, and a request that holds an object has a key of its own.
KeysMade ==
  /\ \A c \in ResetTokens : rows[c] \in redeemed \cup {NoKey}
  /\ \A r \in Requests : proc[r].old \in redeemed \cup {NoKey}
  /\ \A r \in Requests : proc[r].key \in redeemed \cup {NoKey}
  /\ \A r \in Requests : Holding(r) => proc[r].key # NoKey
  /\ \A q, r \in Requests : (q # r /\ Holding(q)) => proc[q].key # proc[r].key

\* No two columns name one object.
ColumnsApart ==
  \A c, d \in ResetTokens : (c # d /\ rows[c] = rows[d]) => rows[c] = NoKey

\* An object that was stored and not yet named is there, and nothing else
\* knows of it.
Unnamed(r) ==
  /\ proc[r].key \in link
  /\ proc[r].key \notin password
  /\ \A c \in ResetTokens : rows[c] # proc[r].key
  /\ \A q \in Requests : proc[q].old # proc[r].key
StoredUnnamed == \A r \in Requests : P!At(r, "stored") => Unnamed(r)

\* The key a request has read is named by its own column or by none; by none
\* once the request has named another.
OldElsewhere ==
  \A r \in Requests : \A c \in ResetTokens :
    rows[c] = proc[r].old =>
      proc[r].old = NoKey \/ (~P!At(r, "named") /\ c = proc[r].column)

\* What the cleanups delete is not named, and what an undo deletes is named
\* only if the answer to the UPDATE was lost.
RemovingUnnamed == \A k \in password : k # NoKey /\ \A c \in ResetTokens : rows[c] # k
UndoneUnnamed ==
  \A r \in Requests : P!At(r, "undoing") =>
    proc[r].key \in lost \/ \A c \in ResetTokens : rows[c] # proc[r].key

ImageInv ==
  /\ P!TypeOK /\ ColumnChosen /\ KeysMade /\ ColumnsApart /\ StoredUnnamed
  /\ OldElsewhere /\ RemovingUnnamed /\ UndoneUnnamed /\ P!PictureServed

-----------------------------------------------------------------------------
(* A request moves within its type, and the others stay.                   *)
LEMMA UploadTyped ==
  ASSUME proc \in [Requests -> P!Request], NEW r \in Requests, NEW p \in P!Request,
         P!Become(r, p)
  PROVE  /\ proc' \in [Requests -> P!Request]
         /\ proc'[r] = p
         /\ \A q \in Requests : q # r => proc'[q] = proc[q]
BY DEF P!Become

(* What a column names after an UPDATE.                                    *)
LEMMA NameTyped ==
  ASSUME P!TypeOK, NEW r \in Requests, proc[r].column \in ResetTokens, P!Name(r)
  PROVE  /\ rows' \in [ResetTokens -> RotatedTokens \cup {NoKey}]
         /\ rows'[proc[r].column] = proc[r].key
         /\ \A c \in ResetTokens : c # proc[r].column => rows'[c] = rows[c]
BY DEF P!Name, P!TypeOK, P!Request

(* The invariant says nothing of a request that holds and has read nothing. *)
LEMMA BeginsClean ==
  ASSUME ImageInv, NEW r \in Requests,
         NEW p \in P!Request, P!Become(r, p),
         p.pc \in {"idle", "received"}, p.key = NoKey, p.old = NoKey,
         p.pc = "received" => p.column \in ResetTokens,
         UNCHANGED <<rows, link, password, redeemed, lost>>, active' \in BOOLEAN
  PROVE  ImageInv'
<1>0. /\ proc' \in [Requests -> P!Request] /\ proc'[r] = p
      /\ \A q \in Requests : q # r => proc'[q] = proc[q]
  BY UploadTyped DEF ImageInv, P!TypeOK
<1>1. P!TypeOK' /\ ColumnChosen'
  BY <1>0 DEF ImageInv, P!TypeOK, ColumnChosen, P!At
<1>2. KeysMade' /\ ColumnsApart'
  BY <1>0 DEF ImageInv, KeysMade, Holding, ColumnsApart
<1>3. StoredUnnamed'
  BY <1>0 DEF ImageInv, StoredUnnamed, Unnamed, KeysMade, Holding, P!At
<1>4. OldElsewhere' /\ RemovingUnnamed' /\ UndoneUnnamed' /\ P!PictureServed'
  BY <1>0 DEF ImageInv, OldElsewhere, RemovingUnnamed, UndoneUnnamed, P!PictureServed, P!At
<1>5. QED
  BY <1>1, <1>2, <1>3, <1>4 DEF ImageInv

(* The key a request reads is one its own column names.                    *)
LEMMA LoadKeeps ==
  ASSUME ImageInv, NEW r \in Requests, P!LoadUser(r)
  PROVE  ImageInv'
<1> DEFINE p == [proc[r] EXCEPT !.pc = "loaded", !.old = rows[proc[r].column]]
<1>1. proc[r].column \in ResetTokens /\ P!At(r, "received") /\ proc[r] \in P!Request
  BY DEF P!LoadUser, ImageInv, ColumnChosen, P!TypeOK, P!At
<1>2. /\ p \in P!Request /\ p.pc = "loaded" /\ p.column = proc[r].column
      /\ p.key = proc[r].key /\ p.old = rows[proc[r].column]
  BY <1>1 DEF ImageInv, P!TypeOK, P!Request
<1>3. P!Become(r, p) /\ UNCHANGED <<active, rows, link, password, redeemed, lost>>
  BY DEF P!LoadUser
<1>4. /\ proc' \in [Requests -> P!Request] /\ proc'[r] = p
      /\ \A q \in Requests : q # r => proc'[q] = proc[q]
  BY <1>2, <1>3, UploadTyped DEF ImageInv, P!TypeOK
<1> HIDE DEF p
<1>5. P!TypeOK' /\ ColumnChosen'
  BY <1>1, <1>2, <1>3, <1>4 DEF ImageInv, P!TypeOK, ColumnChosen, P!At
<1>6. KeysMade' /\ ColumnsApart'
  BY <1>1, <1>2, <1>3, <1>4 DEF ImageInv, KeysMade, Holding, ColumnsApart, P!At
<1>7. StoredUnnamed'
  BY <1>1, <1>2, <1>3, <1>4 DEF ImageInv, StoredUnnamed, Unnamed, P!At
<1>8. OldElsewhere'
  BY <1>1, <1>2, <1>3, <1>4 DEF ImageInv, OldElsewhere, ColumnsApart, P!At
<1>9. RemovingUnnamed' /\ UndoneUnnamed' /\ P!PictureServed'
  BY <1>1, <1>2, <1>3, <1>4 DEF ImageInv, RemovingUnnamed, UndoneUnnamed, P!PictureServed, P!At
<1>10. QED
  BY <1>5, <1>6, <1>7, <1>8, <1>9 DEF ImageInv

(* A key that was just made is known to nobody else.                       *)
LEMMA PutKeeps ==
  ASSUME NoKey \notin RotatedTokens, ImageInv, NEW r \in Requests, P!Put(r)
  PROVE  ImageInv'
<1>1. PICK k \in RotatedTokens \ redeemed :
        /\ redeemed' = redeemed \cup {k}
        /\ \/ link' = link \cup {k} /\ P!Become(r, [proc[r] EXCEPT !.pc = "stored", !.key = k])
           \/ link' \in {link, link \cup {k}} /\ P!Become(r, P!Idle)
  BY DEF P!Put
<1>2. /\ proc[r].column \in ResetTokens /\ P!At(r, "loaded") /\ proc[r] \in P!Request
      /\ UNCHANGED <<active, rows, password, lost>>
  BY DEF P!Put, ImageInv, ColumnChosen, P!TypeOK, P!At
<1>3. CASE link' = link \cup {k} /\ P!Become(r, [proc[r] EXCEPT !.pc = "stored", !.key = k])
  <2> DEFINE p == [proc[r] EXCEPT !.pc = "stored", !.key = k]
  <2>1. /\ p \in P!Request /\ p.pc = "stored" /\ p.column = proc[r].column
        /\ p.key = k /\ p.old = proc[r].old
    BY <1>2 DEF P!Request
  <2>2. /\ proc' \in [Requests -> P!Request] /\ proc'[r] = p
        /\ \A q \in Requests : q # r => proc'[q] = proc[q]
    BY <1>3, <2>1, UploadTyped DEF ImageInv, P!TypeOK
  <2> HIDE DEF p
  <2>3. P!TypeOK' /\ ColumnChosen'
    BY <1>1, <1>2, <1>3, <2>1, <2>2 DEF ImageInv, P!TypeOK, ColumnChosen, P!At
  <2>4. KeysMade'
    BY <1>1, <1>2, <1>3, <2>1, <2>2 DEF ImageInv, KeysMade, Holding, P!At
  <2>5. ColumnsApart'
    BY <1>2 DEF ImageInv, ColumnsApart
  <2>6. StoredUnnamed'
    BY <1>1, <1>2, <1>3, <2>1, <2>2
       DEF ImageInv, P!TypeOK, StoredUnnamed, Unnamed, KeysMade, Holding, P!At
  <2>7. OldElsewhere'
    BY <1>2, <2>1, <2>2 DEF ImageInv, OldElsewhere, P!At
  <2>8. RemovingUnnamed' /\ UndoneUnnamed' /\ P!PictureServed'
    BY <1>2, <1>3, <2>1, <2>2 DEF ImageInv, RemovingUnnamed, UndoneUnnamed, P!PictureServed,
                                  P!At
  <2>9. QED
    BY <2>3, <2>4, <2>5, <2>6, <2>7, <2>8 DEF ImageInv
<1>4. CASE link' \in {link, link \cup {k}} /\ P!Become(r, P!Idle)
  <2>1. P!Idle \in P!Request /\ P!Idle.pc = "idle" /\ P!Idle.key = NoKey /\ P!Idle.old = NoKey
    BY DEF P!Idle, P!Request
  <2>2. /\ proc' \in [Requests -> P!Request] /\ proc'[r] = P!Idle
        /\ \A q \in Requests : q # r => proc'[q] = proc[q]
    BY <1>4, <2>1, UploadTyped DEF ImageInv, P!TypeOK
  <2>3. P!TypeOK' /\ ColumnChosen'
    BY <1>1, <1>2, <1>4, <2>1, <2>2 DEF ImageInv, P!TypeOK, ColumnChosen, P!At
  <2>4. KeysMade'
    BY <1>1, <1>2, <1>4, <2>1, <2>2 DEF ImageInv, KeysMade, Holding, P!At
  <2>5. ColumnsApart'
    BY <1>2 DEF ImageInv, ColumnsApart
  <2>6. StoredUnnamed'
    BY <1>1, <1>2, <1>4, <2>1, <2>2 DEF ImageInv, StoredUnnamed, Unnamed, KeysMade, Holding,
                                        P!At
  <2>7. OldElsewhere'
    BY <1>2, <2>1, <2>2 DEF ImageInv, OldElsewhere, P!At
  <2>8. RemovingUnnamed' /\ UndoneUnnamed' /\ P!PictureServed'
    BY <1>2, <1>4, <2>1, <2>2 DEF ImageInv, RemovingUnnamed, UndoneUnnamed, P!PictureServed,
                                  P!At
  <2>9. QED
    BY <2>3, <2>4, <2>5, <2>6, <2>7, <2>8 DEF ImageInv
<1>5. QED
  BY <1>1, <1>3, <1>4

(* A column comes to name a key that no other column, no cleanup and no    *)
(* request but the one that made it knows.                                 *)
LEMMA NameKeeps ==
  ASSUME ImageInv, NEW r \in Requests, P!At(r, "stored"), P!Name(r),
         NEW pc \in {"named", "undoing"}, P!Become(r, [proc[r] EXCEPT !.pc = pc]),
         lost' \in {lost, lost \cup {proc[r].key}},
         pc = "undoing" => proc[r].key \in lost',
         UNCHANGED <<active, link, password, redeemed>>
  PROVE  ImageInv'
<1> DEFINE p == [proc[r] EXCEPT !.pc = pc]
<1>1. /\ proc[r].column \in ResetTokens /\ proc[r] \in P!Request
      /\ Unnamed(r) /\ Holding(r) /\ proc[r].key \in redeemed /\ proc[r].key # NoKey
  BY DEF ImageInv, ColumnChosen, P!TypeOK, StoredUnnamed, KeysMade, Holding, P!At
<1>2. /\ p \in P!Request /\ p.pc = pc /\ p.column = proc[r].column
      /\ p.key = proc[r].key /\ p.old = proc[r].old
  BY <1>1 DEF P!Request
<1>3. /\ proc' \in [Requests -> P!Request] /\ proc'[r] = p
      /\ \A q \in Requests : q # r => proc'[q] = proc[q]
  BY <1>2, UploadTyped DEF ImageInv, P!TypeOK
<1>4. /\ rows' \in [ResetTokens -> RotatedTokens \cup {NoKey}]
      /\ rows'[proc[r].column] = proc[r].key
      /\ \A c \in ResetTokens : c # proc[r].column => rows'[c] = rows[c]
  BY <1>1, NameTyped DEF ImageInv
<1> HIDE DEF p
<1>5. P!TypeOK' /\ ColumnChosen'
  BY <1>1, <1>2, <1>3, <1>4 DEF ImageInv, P!TypeOK, ColumnChosen, P!At
<1>6. KeysMade'
  BY <1>1, <1>2, <1>3, <1>4 DEF ImageInv, KeysMade, Holding, P!At
<1>7. ColumnsApart'
  BY <1>1, <1>4 DEF ImageInv, ColumnsApart, Unnamed
<1>8. StoredUnnamed'
  BY <1>1, <1>2, <1>3, <1>4 DEF ImageInv, StoredUnnamed, Unnamed, KeysMade, Holding, P!At
<1>9. OldElsewhere'
  BY <1>1, <1>2, <1>3, <1>4 DEF ImageInv, OldElsewhere, Unnamed, P!At
<1>10. RemovingUnnamed'
  BY <1>1, <1>4 DEF ImageInv, RemovingUnnamed, Unnamed
<1>11. UndoneUnnamed'
  BY <1>1, <1>2, <1>3, <1>4 DEF ImageInv, UndoneUnnamed, KeysMade, Holding, P!At
<1>12. P!PictureServed'
  BY <1>1, <1>4 DEF ImageInv, P!PictureServed, Unnamed
<1>13. QED
  BY <1>5, <1>6, <1>7, <1>8, <1>9, <1>10, <1>11, <1>12 DEF ImageInv

(* An UPDATE without an effect leaves a key that nobody knows to be undone. *)
LEMMA UpdateKeeps ==
  ASSUME ImageInv, NEW r \in Requests, P!UpdateProfile(r)
  PROVE  ImageInv'
<1>1. P!At(r, "stored") /\ UNCHANGED <<active, link, password, redeemed>>
  BY DEF P!UpdateProfile
<1>2. CASE P!Name(r) /\ P!Become(r, [proc[r] EXCEPT !.pc = "named"]) /\ UNCHANGED lost
  BY <1>1, <1>2, NameKeeps
<1>3. CASE UNCHANGED <<rows, lost>> /\ P!Become(r, [proc[r] EXCEPT !.pc = "undoing"])
  <2> DEFINE p == [proc[r] EXCEPT !.pc = "undoing"]
  <2>1. proc[r].column \in ResetTokens /\ proc[r] \in P!Request /\ Unnamed(r) /\ Holding(r)
    BY <1>1 DEF ImageInv, ColumnChosen, P!TypeOK, StoredUnnamed, Holding, P!At
  <2>2. /\ p \in P!Request /\ p.pc = "undoing" /\ p.column = proc[r].column
        /\ p.key = proc[r].key /\ p.old = proc[r].old
    BY <2>1 DEF P!Request
  <2>3. /\ proc' \in [Requests -> P!Request] /\ proc'[r] = p
        /\ \A q \in Requests : q # r => proc'[q] = proc[q]
    BY <1>3, <2>2, UploadTyped DEF ImageInv, P!TypeOK
  <2> HIDE DEF p
  <2>4. P!TypeOK' /\ ColumnChosen'
    BY <1>1, <1>3, <2>1, <2>2, <2>3 DEF ImageInv, P!TypeOK, ColumnChosen, P!At
  <2>5. KeysMade' /\ ColumnsApart'
    BY <1>1, <1>3, <2>1, <2>2, <2>3 DEF ImageInv, KeysMade, Holding, ColumnsApart, P!At
  <2>6. StoredUnnamed' /\ OldElsewhere'
    BY <1>1, <1>3, <2>2, <2>3 DEF ImageInv, StoredUnnamed, Unnamed, OldElsewhere, P!At
  <2>7. RemovingUnnamed' /\ P!PictureServed'
    BY <1>1, <1>3 DEF ImageInv, RemovingUnnamed, P!PictureServed
  <2>8. UndoneUnnamed'
    BY <1>1, <1>3, <2>1, <2>2, <2>3 DEF ImageInv, UndoneUnnamed, Unnamed, P!At
  <2>9. QED
    BY <2>4, <2>5, <2>6, <2>7, <2>8 DEF ImageInv
<1>4. CASE /\ P!Name(r)
           /\ lost' = lost \cup {proc[r].key}
           /\ P!Become(r, [proc[r] EXCEPT !.pc = "undoing"])
  BY <1>1, <1>4, NameKeeps
<1>5. QED
  BY <1>2, <1>3, <1>4 DEF P!UpdateProfile

(* An undo deletes what no column names, or what a lost answer is about;   *)
(* no other request holds that object.                                     *)
LEMMA UndoKeeps ==
  ASSUME ImageInv, NEW r \in Requests, P!Undo(r)
  PROVE  ImageInv'
<1>1. /\ P!At(r, "undoing") /\ Holding(r) /\ P!Become(r, P!Idle)
      /\ link' \in {link, link \ {proc[r].key}}
      /\ UNCHANGED <<active, rows, password, redeemed, lost>>
  BY DEF P!Undo, Holding, P!At
<1>2. P!Idle \in P!Request /\ P!Idle.pc = "idle" /\ P!Idle.key = NoKey /\ P!Idle.old = NoKey
  BY DEF P!Idle, P!Request
<1>3. /\ proc' \in [Requests -> P!Request] /\ proc'[r] = P!Idle
      /\ \A q \in Requests : q # r => proc'[q] = proc[q]
  BY <1>1, <1>2, UploadTyped DEF ImageInv, P!TypeOK
<1>4. P!TypeOK' /\ ColumnChosen'
  BY <1>1, <1>2, <1>3 DEF ImageInv, P!TypeOK, ColumnChosen, P!At
<1>5. KeysMade' /\ ColumnsApart'
  BY <1>1, <1>2, <1>3 DEF ImageInv, KeysMade, Holding, ColumnsApart
<1>6. StoredUnnamed'
  BY <1>1, <1>2, <1>3 DEF ImageInv, StoredUnnamed, Unnamed, KeysMade, Holding, P!At
<1>7. OldElsewhere' /\ RemovingUnnamed' /\ UndoneUnnamed'
  BY <1>1, <1>2, <1>3 DEF ImageInv, OldElsewhere, RemovingUnnamed, UndoneUnnamed, P!At
<1>8. P!PictureServed'
  BY <1>1 DEF ImageInv, P!PictureServed, UndoneUnnamed
<1>9. QED
  BY <1>4, <1>5, <1>6, <1>7, <1>8 DEF ImageInv

(* What a request hands to a cleanup was replaced, and is no key that is    *)
(* yet to be named.                                                        *)
LEMMA AnswerKeeps ==
  ASSUME ImageInv, NEW r \in Requests, P!Answer(r)
  PROVE  ImageInv'
<1>1. /\ P!At(r, "named") /\ P!Become(r, P!Idle)
      /\ password' = password \cup ({proc[r].old} \ {NoKey})
      /\ UNCHANGED <<active, rows, link, redeemed, lost>>
  BY DEF P!Answer
<1>2. P!Idle \in P!Request /\ P!Idle.pc = "idle" /\ P!Idle.key = NoKey /\ P!Idle.old = NoKey
  BY DEF P!Idle, P!Request
<1>3. /\ proc' \in [Requests -> P!Request] /\ proc'[r] = P!Idle
      /\ \A q \in Requests : q # r => proc'[q] = proc[q]
  BY <1>1, <1>2, UploadTyped DEF ImageInv, P!TypeOK
<1>4. P!TypeOK' /\ ColumnChosen'
  BY <1>1, <1>2, <1>3 DEF ImageInv, P!TypeOK, ColumnChosen, KeysMade, P!At
<1>5. KeysMade' /\ ColumnsApart'
  BY <1>1, <1>2, <1>3 DEF ImageInv, KeysMade, Holding, ColumnsApart
<1>6. StoredUnnamed'
  BY <1>1, <1>2, <1>3 DEF ImageInv, StoredUnnamed, Unnamed, KeysMade, Holding, P!At
<1>7. OldElsewhere' /\ UndoneUnnamed' /\ P!PictureServed'
  BY <1>1, <1>2, <1>3 DEF ImageInv, OldElsewhere, UndoneUnnamed, P!PictureServed, P!At
<1>8. RemovingUnnamed'
  BY <1>1 DEF ImageInv, RemovingUnnamed, OldElsewhere
<1>9. QED
  BY <1>4, <1>5, <1>6, <1>7, <1>8 DEF ImageInv

(* A cleanup deletes what nobody names or is about to name.                *)
LEMMA RemoveKeeps ==
  ASSUME ImageInv, NEW k \in RotatedTokens, P!RemoveOld(k)
  PROVE  ImageInv'
<1>1. /\ k \in password /\ link' \in {link, link \ {k}} /\ password' = password \ {k}
      /\ UNCHANGED <<active, rows, proc, redeemed, lost>>
  BY DEF P!RemoveOld
<1>2. P!TypeOK' /\ ColumnChosen' /\ KeysMade' /\ ColumnsApart'
  BY <1>1 DEF ImageInv, P!TypeOK, ColumnChosen, KeysMade, Holding, ColumnsApart, P!At
<1>3. StoredUnnamed' /\ OldElsewhere' /\ RemovingUnnamed' /\ UndoneUnnamed'
  BY <1>1 DEF ImageInv, StoredUnnamed, Unnamed, OldElsewhere, RemovingUnnamed,
              UndoneUnnamed, P!At
<1>4. P!PictureServed'
  BY <1>1 DEF ImageInv, P!PictureServed, RemovingUnnamed
<1>5. QED
  BY <1>2, <1>3, <1>4 DEF ImageInv

(* A crash forgets the requests and the cleanups, and breaks nothing.      *)
LEMMA CrashKeeps == ImageInv /\ P!Crash => ImageInv'
<1> SUFFICES ASSUME ImageInv, P!Crash PROVE ImageInv'
  OBVIOUS
<1>1. /\ proc' \in [Requests -> P!Request]
      /\ \A r \in Requests :
           /\ proc'[r].pc = "idle"
           /\ proc'[r].key = NoKey /\ proc'[r].old = NoKey
      /\ password' = {} /\ UNCHANGED <<active, rows, link, redeemed, lost>>
  BY DEF P!Crash, P!Idle, P!Request
<1>2. QED
  BY <1>1 DEF ImageInv, P!TypeOK, ColumnChosen, KeysMade, Holding, ColumnsApart, StoredUnnamed,
              OldElsewhere, RemovingUnnamed, UndoneUnnamed, P!PictureServed, P!At

-----------------------------------------------------------------------------
(* PictureServed holds of every behaviour, provided the constant that      *)
(* stands for no key is none: no undo and no cleanup of the code removes   *)
(* the object that the account's row names (UserService.UploadAvatar).     *)
LEMMA PicturesStay ==
  ASSUME NoKey \notin RotatedTokens PROVE P!Spec => []P!PictureServed
<1>1. P!Init => ImageInv
  BY DEF P!Init, P!Idle, P!Request, ImageInv, P!TypeOK, ColumnChosen, KeysMade, Holding,
         ColumnsApart,
         StoredUnnamed, OldElsewhere, RemovingUnnamed, UndoneUnnamed, P!PictureServed, P!At
<1>2. ImageInv /\ [P!Next]_P!vars => ImageInv'
  <2> SUFFICES ASSUME ImageInv, [P!Next]_P!vars PROVE ImageInv'
    OBVIOUS
  <2>1. ASSUME NEW r \in Requests, P!Receive(r) PROVE ImageInv'
    <3>1. PICK c \in ResetTokens : P!Become(r, [P!Idle EXCEPT !.pc = "received", !.column = c])
      BY <2>1 DEF P!Receive
    <3> DEFINE p == [P!Idle EXCEPT !.pc = "received", !.column = c]
    <3>2. /\ p \in P!Request
          /\ p.pc = "received" /\ p.column = c /\ p.key = NoKey /\ p.old = NoKey
      BY DEF P!Idle, P!Request
    <3> HIDE DEF p
    <3>3. QED
      BY <2>1, <3>1, <3>2, BeginsClean DEF P!Receive, p, ImageInv, P!TypeOK
  <2>2. ASSUME NEW r \in Requests, P!LoadUser(r) PROVE ImageInv'
    BY <2>2, LoadKeeps
  <2>3. ASSUME NEW r \in Requests, P!Reject(r) PROVE ImageInv'
    <3>1. /\ P!Idle \in P!Request
          /\ P!Idle.pc = "idle" /\ P!Idle.key = NoKey /\ P!Idle.old = NoKey
      BY DEF P!Idle, P!Request
    <3>2. QED
      BY <2>3, <3>1, BeginsClean DEF P!Reject, ImageInv, P!TypeOK
  <2>4. ASSUME NEW r \in Requests, P!Put(r) PROVE ImageInv'
    BY <2>4, PutKeeps
  <2>5. ASSUME NEW r \in Requests, P!UpdateProfile(r) PROVE ImageInv'
    BY <2>5, UpdateKeeps
  <2>6. ASSUME NEW r \in Requests, P!Undo(r) PROVE ImageInv'
    BY <2>6, UndoKeeps
  <2>7. ASSUME NEW r \in Requests, P!Answer(r) PROVE ImageInv'
    BY <2>7, AnswerKeeps
  <2>8. ASSUME NEW k \in RotatedTokens, P!RemoveOld(k) PROVE ImageInv'
    BY <2>8, RemoveKeeps
  <2>9. CASE P!SetActive
    BY <2>9 DEF P!SetActive, ImageInv, P!TypeOK, ColumnChosen, KeysMade, Holding, ColumnsApart,
                StoredUnnamed, Unnamed, OldElsewhere, RemovingUnnamed, UndoneUnnamed,
                P!PictureServed, P!At
  <2>10. CASE P!Crash
    BY <2>10, CrashKeeps
  <2>11. CASE UNCHANGED P!vars
    BY <2>11 DEF P!vars, ImageInv, P!TypeOK, ColumnChosen, KeysMade, Holding, ColumnsApart,
                 StoredUnnamed, Unnamed, OldElsewhere, RemovingUnnamed, UndoneUnnamed,
                 P!PictureServed, P!At
  <2>12. QED
    BY <2>1, <2>2, <2>3, <2>4, <2>5, <2>6, <2>7, <2>8, <2>9, <2>10, <2>11
       DEF P!Next, P!UploadImage
<1>3. ImageInv => P!PictureServed
  BY DEF ImageInv
<1>4. QED
  BY <1>1, <1>2, <1>3, PTL DEF P!Spec

(* The part goes as its specification says, and is the only one.           *)
LEMMA ImagesApart ==
  part = "pictures" /\ Spec => P!Spec /\ [](part = "pictures")
<1>1. part = "pictures" /\ Init => P!Init
  BY DEF Init
<1>2. part = "pictures" /\ [Next]_vars => [P!Next]_P!vars /\ (part = "pictures")'
  BY DEF Next, vars, P!vars
<1>3. QED
  BY <1>1, <1>2, PTL DEF Spec, P!Spec

-----------------------------------------------------------------------------
(* The browser.  A request of it has the fields it has, in its place.      *)
Tab == [pc : {"idle", "rotating"} \cup C!Kinds \cup C!Answers,
        sent : RotatedTokens \cup {NoToken}, cookie : RotatedTokens \cup {NoToken},
        sets : BOOLEAN]

\* Which answers set the cookie, and to what.
AnswersSet ==
  \A r \in Requests :
    /\ proc[r].cookie # NoToken =>
         proc[r].sets /\ proc[r].pc \in {"login_answer", "refresh_answer"}
    /\ proc[r].sets => proc[r].pc \in C!Answers
    /\ (proc[r].sets /\ proc[r].pc # "logout_answer") => proc[r].cookie # NoToken
    /\ C!At(r, "login_answer") => proc[r].sets

\* A token that was never made is known to nobody; a session is named after
\* a token that was made, and has one token that is good.
Known(t) == t \in RotatedTokens => rows[t].state # "none"
SessionsOne ==
  /\ Known(link) /\ \A r \in Requests : Known(proc[r].sent) /\ Known(proc[r].cookie)
  /\ \A t \in RotatedTokens : rows[t].state # "none" =>
       rows[t].session \in RotatedTokens /\ Known(rows[t].session)
  /\ \A s \in password : Known(s)
  /\ \A t, u \in C!Live : rows[t].session = rows[u].session => t = u
  /\ \A t \in C!Live : rows[t].session \notin password

\* A token in an answer is known to nobody else.
CookiesSecret ==
  \A r \in Requests : proc[r].cookie # NoToken =>
    /\ proc[r].cookie # link
    /\ \A q \in Requests : /\ proc[q].sent # proc[r].cookie
                           /\ q # r => proc[q].cookie # proc[r].cookie

\* A token is good, or a logout ended its session.
Good(t) == t \in C!Live \/ rows[t].session \in password \cup failedRevoke
CookiesGood == \A r \in Requests : proc[r].cookie # NoToken => Good(proc[r].cookie)

\* What replaced the browser's token is on its way to it.
JarFollowed ==
  /\ ~redeemed => link # NoToken
  /\ (~lost /\ link # NoToken /\ ~Good(link)) => \E r \in Requests : proc[r].cookie # NoToken

BrowserTyped ==
  /\ rows \in [RotatedTokens -> C!Token]
  /\ link \in RotatedTokens \cup {NoToken}
  /\ proc \in [Requests -> Tab]
  /\ password \subseteq RotatedTokens
  /\ redeemed \in BOOLEAN /\ lost \in BOOLEAN

BrowserInv ==
  BrowserTyped /\ AnswersSet /\ SessionsOne /\ CookiesSecret /\ CookiesGood /\ JarFollowed

(* A request goes on and the others stay.                                  *)
LEMMA TabMoves ==
  ASSUME proc \in [Requests -> Tab], NEW r \in Requests, NEW p \in Tab, C!Become(r, p)
  PROVE  /\ proc' \in [Requests -> Tab] /\ proc'[r] = p
         /\ \A q \in Requests : q # r => proc'[q] = proc[q]
BY DEF C!Become

(* A step that brings no cookie: tokens go, but with their sessions; the   *)
(* request held no cookie, or its answer is lost.                          *)
LEMMA SettleKeeps ==
  ASSUME NoToken \notin RotatedTokens,
         BrowserInv, NEW r \in Requests, NEW p \in Tab, C!Become(r, p),
         p.cookie = NoToken, p.sets => p.pc = "logout_answer", p.pc # "login_answer",
         p.sent \in {NoToken, link, proc[r].sent},
         proc[r].cookie = NoToken \/ lost', lost' \in BOOLEAN, lost => lost',
         rows' \in [RotatedTokens -> C!Token],
         \A t \in RotatedTokens :
           /\ rows'[t].session = rows[t].session
           /\ rows'[t].state = "none" <=> rows[t].state = "none",
         C!Live' \subseteq C!Live,
         \A t \in C!Live \ C!Live' : rows[t].session \in password' \cup failedRevoke',
         password \subseteq password', failedRevoke \subseteq failedRevoke',
         \A t \in C!Live' : rows[t].session \notin password',
         \A s \in password' : s \in RotatedTokens /\ Known(s),
         UNCHANGED <<link, redeemed>>
  PROVE  BrowserInv'
<1>1. /\ proc' \in [Requests -> Tab] /\ proc'[r] = p
      /\ \A q \in Requests : q # r => proc'[q] = proc[q]
  BY TabMoves DEF BrowserInv, BrowserTyped
<1>2. \A t : Known(t) <=> Known(t)'
  BY DEF Known
<1>3. \A t \in RotatedTokens : Good(t) => Good(t)'
  BY DEF Good
<1>4. BrowserTyped'
  BY <1>1 DEF BrowserInv, BrowserTyped
<1>5. AnswersSet'
  BY <1>1 DEF BrowserInv, AnswersSet, C!At, Tab, C!Answers
<1>6. SessionsOne'
  <2>1. \A q \in Requests : (Known(proc[q].sent))' /\ (Known(proc[q].cookie))'
    <3>1. Known(NoToken)
      BY DEF Known
    <3>2. Known(link) /\ \A q \in Requests : Known(proc[q].sent) /\ Known(proc[q].cookie)
      BY DEF BrowserInv, SessionsOne
    <3> QED  BY <1>1, <1>2, <3>1, <3>2
  <2>2. \A t, u \in C!Live' : rows'[t].session = rows'[u].session => t = u
    BY DEF BrowserInv, SessionsOne, C!Live
  <2>3. \A t \in C!Live' : rows'[t].session = rows[t].session
    BY DEF C!Live
  <2> QED  BY <1>2, <2>1, <2>2, <2>3 DEF BrowserInv, SessionsOne
<1>7. CookiesSecret'
  BY <1>1 DEF BrowserInv, CookiesSecret
<1>8. CookiesGood'
  BY <1>1, <1>3, <1>4 DEF BrowserInv, CookiesGood, Tab
<1>9. JarFollowed'
  <2> SUFFICES ASSUME ~lost', link # NoToken, ~Good(link)'
               PROVE  \E q \in Requests : proc'[q].cookie # NoToken
    BY DEF BrowserInv, JarFollowed
  <2>1. ~lost /\ ~Good(link)
    BY <1>3 DEF BrowserInv, BrowserTyped, Good
  <2>2. PICK q \in Requests : proc[q].cookie # NoToken
    BY <2>1 DEF BrowserInv, JarFollowed
  <2> QED  BY <1>1, <2>2
<1> QED  BY <1>4, <1>5, <1>6, <1>7, <1>8, <1>9 DEF BrowserInv

(* A step that makes a token u of the session s and puts it in an answer.  *)
LEMMA MakeKeeps ==
  ASSUME NoToken \notin RotatedTokens,
         BrowserInv, NEW r \in Requests, NEW p \in Tab, C!Become(r, p), NEW u \in C!Fresh,
         p.cookie = u, p.sets, p.pc \in {"login_answer", "refresh_answer"},
         p.sent = NoToken, proc[r].cookie = NoToken,
         NEW s \in RotatedTokens, s = u \/ Known(s), s \notin password,
         rows' \in [RotatedTokens -> C!Token],
         rows'[u] = [state |-> "live", session |-> s],
         \A t \in RotatedTokens \ {u} :
           /\ rows'[t].session = rows[t].session
           /\ rows'[t].state = "none" <=> rows[t].state = "none",
         C!Live' \ {u} \subseteq C!Live,
         \A t \in C!Live' \ {u} : rows[t].session # s,
         \A t \in C!Live \ C!Live' : t = proc[r].sent,
         UNCHANGED <<link, password, failedRevoke, redeemed, lost>>
  PROVE  BrowserInv'
<1>1. /\ proc' \in [Requests -> Tab] /\ proc'[r] = p
      /\ \A q \in Requests : q # r => proc'[q] = proc[q]
  BY TabMoves DEF BrowserInv, BrowserTyped
<1>2. u \in RotatedTokens /\ u # NoToken /\ ~Known(u)
  BY DEF C!Fresh, Known
<1>3. \A t : Known(t) => t # u /\ Known(t)'
  BY <1>2 DEF Known
<1>4. Known(u)' /\ Good(u)' /\ Known(s)'
  BY <1>2, <1>3 DEF Known, Good, C!Live
<1>5. \A t \in RotatedTokens : (t # u /\ t # proc[r].sent /\ Good(t)) => Good(t)'
  BY DEF Good
<1>6. BrowserTyped'
  BY <1>1 DEF BrowserInv, BrowserTyped
<1>7. AnswersSet'
  BY <1>1, <1>2 DEF BrowserInv, AnswersSet, C!At, Tab, C!Answers
<1>8. SessionsOne'
  <2>1. \A q \in Requests : (Known(proc[q].sent))' /\ (Known(proc[q].cookie))'
    <3>1. Known(NoToken)'
      BY DEF Known
    <3>2. \A q \in Requests : q # r => Known(proc[q].sent) /\ Known(proc[q].cookie)
      BY DEF BrowserInv, SessionsOne
    <3> QED  BY <1>1, <1>3, <1>4, <3>1, <3>2
  <2>2. Known(link)'
    BY <1>3 DEF BrowserInv, SessionsOne
  <2>3. ASSUME NEW t \in RotatedTokens, rows'[t].state # "none"
        PROVE  rows'[t].session \in RotatedTokens /\ (Known(rows[t].session))'
    <3>1. CASE t = u
      BY <1>4, <3>1
    <3>2. CASE t # u
      BY <1>3, <2>3, <3>2 DEF BrowserInv, SessionsOne
    <3> QED  BY <3>1, <3>2
  <2>4. \A x \in password : Known(x)'
    BY <1>3 DEF BrowserInv, SessionsOne
  <2>5. \A t \in C!Live' \ {u} : t \in C!Live /\ rows'[t].session = rows[t].session
    BY DEF C!Live
  <2>6. \A t \in C!Live' : rows'[t].session \notin password
    BY <2>5 DEF BrowserInv, SessionsOne
  <2>7. \A t, v \in C!Live' : rows'[t].session = rows'[v].session => t = v
    BY <2>5 DEF BrowserInv, SessionsOne
  <2> QED  BY <2>1, <2>2, <2>3, <2>4, <2>6, <2>7 DEF SessionsOne
<1>9. CookiesSecret'
  <2>1. /\ u # link
        /\ \A q \in Requests : u # proc[q].sent /\ u # proc[q].cookie
    BY <1>3 DEF BrowserInv, SessionsOne
  <2>2. \A q \in Requests : proc'[q].sent \in {NoToken, proc[q].sent}
    BY <1>1
  <2> QED  BY <1>1, <1>2, <2>1, <2>2 DEF BrowserInv, CookiesSecret
<1>10. CookiesGood'
  <2> SUFFICES ASSUME NEW q \in Requests, proc'[q].cookie # NoToken
               PROVE  (Good(proc[q].cookie))'
    BY DEF CookiesGood
  <2>1. CASE q = r
    BY <1>1, <1>4, <2>1
  <2>2. CASE q # r
    <3> DEFINE w == proc[q].cookie
    <3>1. proc'[q].cookie = w /\ w # NoToken /\ w \in RotatedTokens
      BY <1>1, <2>2 DEF BrowserInv, BrowserTyped, Tab
    <3>2. w # u /\ w # proc[r].sent /\ Good(w)
      BY <1>3, <3>1 DEF BrowserInv, SessionsOne, CookiesSecret, CookiesGood
    <3>3. Good(w)'
      <4> HIDE DEF w
      <4>1. Good(w) => w \in C!Live \/ rows[w].session \in password \cup failedRevoke
        BY DEF Good
      <4>2. w \in C!Live' \/ rows'[w].session \in password' \cup failedRevoke'
        BY <3>1, <3>2, <4>1
      <4>3. w = w'
        BY <3>1 DEF w
      <4> QED  BY <4>2, <4>3 DEF Good
    <3> QED  BY <3>1, <3>3
  <2> QED  BY <2>1, <2>2
<1>11. JarFollowed'
  BY <1>1, <1>2 DEF BrowserInv, JarFollowed
<1> QED  BY <1>6, <1>7, <1>8, <1>9, <1>10, <1>11 DEF BrowserInv

(* The steps that bring no cookie.                                         *)
LEMMA SendKeeps ==
  ASSUME NoToken \notin RotatedTokens, BrowserInv, NEW r \in Requests, C!Send(r)
  PROVE  BrowserInv'
<1>1. PICK kind \in C!Kinds : C!Become(r, [C!Idle EXCEPT !.pc = kind, !.sent = link])
  BY DEF C!Send
<1> DEFINE p == [C!Idle EXCEPT !.pc = kind, !.sent = link]
<1>2. /\ p \in Tab /\ p.cookie = NoToken /\ p.sent = link /\ ~p.sets
      /\ p.pc # "login_answer"
  BY DEF BrowserInv, BrowserTyped, C!Idle, C!Kinds, Tab
<1>3. proc[r].cookie = NoToken
  BY DEF C!Send, C!At, BrowserInv, AnswersSet
<1>4. /\ \A t \in C!Live : rows[t].session \notin password
      /\ \A s \in password : s \in RotatedTokens /\ Known(s)
      /\ lost \in BOOLEAN /\ rows \in [RotatedTokens -> C!Token]
  BY DEF BrowserInv, SessionsOne, BrowserTyped
<1>5. C!Live' = C!Live /\ UNCHANGED <<rows, link, password, failedRevoke, redeemed, lost>>
  BY DEF C!Send, C!Live
<1> HIDE DEF p
<1>6. QED
  BY <1>1, <1>2, <1>3, <1>4, <1>5, SettleKeeps DEF p

LEMMA ValidateKeeps ==
  ASSUME NoToken \notin RotatedTokens, BrowserInv, NEW r \in Requests, C!ValidateToken(r)
  PROVE  BrowserInv'
<1> DEFINE p == IF C!Valid(proc[r].sent) THEN [proc[r] EXCEPT !.pc = "rotating"]
                ELSE C!HandleRefresh(NoToken)
<1>1. proc[r] \in Tab /\ proc[r].cookie = NoToken /\ ~proc[r].sets /\ C!Become(r, p)
  BY DEF C!ValidateToken, C!At, BrowserInv, AnswersSet, BrowserTyped, C!Answers
<1>2. /\ p \in Tab /\ p.cookie = NoToken /\ p.sent \in {NoToken, proc[r].sent} /\ ~p.sets
      /\ p.pc # "login_answer"
  BY <1>1 DEF C!Idle, C!HandleRefresh, C!Plain, C!Answers, Tab
<1>3. /\ \A t \in C!Live : rows[t].session \notin password
      /\ \A s \in password : s \in RotatedTokens /\ Known(s)
      /\ lost \in BOOLEAN /\ rows \in [RotatedTokens -> C!Token]
  BY DEF BrowserInv, SessionsOne, BrowserTyped
<1>4. C!Live' = C!Live /\ UNCHANGED <<rows, link, password, failedRevoke, redeemed, lost>>
  BY DEF C!ValidateToken, C!Live
<1> HIDE DEF p
<1>5. QED
  BY <1>1, <1>2, <1>3, <1>4, SettleKeeps

LEMMA LoseKeeps ==
  ASSUME NoToken \notin RotatedTokens, BrowserInv, NEW r \in Requests, C!LoseAnswer(r)
  PROVE  BrowserInv'
<1>1. /\ C!Idle \in Tab /\ C!Idle.cookie = NoToken /\ C!Idle.sent = NoToken /\ ~C!Idle.sets
      /\ C!Idle.pc # "login_answer"
  BY DEF C!Idle, Tab
<1>2. /\ \A t \in C!Live : rows[t].session \notin password
      /\ \A s \in password : s \in RotatedTokens /\ Known(s)
      /\ rows \in [RotatedTokens -> C!Token]
  BY DEF BrowserInv, SessionsOne, BrowserTyped
<1>3. /\ C!Live' = C!Live /\ UNCHANGED <<rows, link, password, failedRevoke, redeemed>>
      /\ lost' = TRUE /\ C!Become(r, C!Idle)
  BY DEF C!LoseAnswer, C!Live
<1>4. QED
  BY <1>1, <1>2, <1>3, SettleKeeps

LEMMA LogoutKeeps ==
  ASSUME NoToken \notin RotatedTokens, BrowserInv, NEW r \in Requests, C!Logout(r)
  PROVE  BrowserInv'
<1> DEFINE t == proc[r].sent
<1>1. proc[r] \in Tab /\ proc[r].cookie = NoToken
  BY DEF C!Logout, C!At, BrowserInv, AnswersSet, BrowserTyped
<1>2. /\ \A u \in C!Live : rows[u].session \notin password
      /\ \A s \in password : s \in RotatedTokens /\ Known(s)
      /\ lost \in BOOLEAN /\ rows \in [RotatedTokens -> C!Token]
  BY DEF BrowserInv, SessionsOne, BrowserTyped
<1>3. CASE C!Revocable(t)
  <2> DEFINE p == C!HandleLogout(TRUE)
  <2>1. /\ p \in Tab /\ p.cookie = NoToken /\ p.sent = NoToken /\ p.pc = "logout_answer"
    BY DEF C!HandleLogout, C!ClearCookie, C!Answer, C!Idle, C!Answers, Tab
  <2>2. /\ rows' = [rows EXCEPT ![t].state = "revoked"]
        /\ password' = password \cup {rows[t].session}
        /\ C!Become(r, p)
        /\ UNCHANGED <<link, failedRevoke, redeemed, lost>>
    BY <1>3 DEF C!Logout
  <2>3. t \in RotatedTokens /\ rows[t].state = "live"
    BY <1>3 DEF C!Revocable, C!Live
  <2> HIDE DEF t, p
  <2>4. /\ rows' \in [RotatedTokens -> C!Token]
        /\ \A u \in RotatedTokens :
             /\ rows'[u].session = rows[u].session
             /\ rows'[u].state = "none" <=> rows[u].state = "none"
             /\ u # t => rows'[u] = rows[u]
        /\ rows'[t].state = "revoked"
    BY <1>2, <2>2, <2>3 DEF C!Token
  <2>5. C!Live' = C!Live \ {t}
    BY <2>3, <2>4 DEF C!Live
  <2>6. rows[t].session \in RotatedTokens /\ Known(rows[t].session)
    BY <2>3 DEF BrowserInv, SessionsOne
  <2>7. \A u \in C!Live' : rows[u].session \notin password'
    BY <1>2, <2>2, <2>3, <2>5 DEF BrowserInv, SessionsOne, C!Live
  <2>8. QED
    BY <1>1, <1>2, <2>1, <2>2, <2>4, <2>5, <2>6, <2>7, SettleKeeps
<1>4. CASE ~C!Revocable(t)
  <2> DEFINE p == C!HandleLogout(FALSE)
  <2>1. /\ p \in Tab /\ p.cookie = NoToken /\ p.sent = NoToken /\ ~p.sets
        /\ p.pc # "login_answer"
    BY DEF C!HandleLogout, C!Plain, C!Idle, C!Answers, Tab
  <2>2. C!Become(r, p) /\ UNCHANGED <<rows, link, password, failedRevoke, redeemed, lost>>
    BY <1>4 DEF C!Logout
  <2>3. C!Live' = C!Live
    BY <2>2 DEF C!Live
  <2> HIDE DEF p
  <2>4. QED
    BY <1>1, <1>2, <2>1, <2>2, <2>3, SettleKeeps
<1>5. QED
  BY <1>3, <1>4

(* The revocation of all tokens reaches the session of each.               *)
LEMMA RevokedAll ==
  ASSUME BrowserInv, rows' = C!AllRevoked,
         failedRevoke' = failedRevoke \cup {rows[t].session : t \in C!Live}
  PROVE  /\ rows' \in [RotatedTokens -> C!Token]
         /\ \A t \in RotatedTokens :
              /\ rows'[t].session = rows[t].session
              /\ rows'[t].state = "none" <=> rows[t].state = "none"
         /\ C!Live' = {}
         /\ \A t \in C!Live : rows[t].session \in failedRevoke'
<1>1. \A t \in RotatedTokens : rows[t] \in C!Token
  BY DEF BrowserInv, BrowserTyped
<1>2. rows' \in [RotatedTokens -> C!Token]
  BY <1>1 DEF C!AllRevoked, C!Token
<1>3. \A t \in RotatedTokens :
        rows'[t] = IF t \in C!Live THEN [rows[t] EXCEPT !.state = "revoked"] ELSE rows[t]
  BY DEF C!AllRevoked
<1>4. \A t \in RotatedTokens :
        /\ rows'[t].session = rows[t].session
        /\ rows'[t].state = "none" <=> rows[t].state = "none"
        /\ rows'[t].state # "live"
  BY <1>1, <1>3 DEF C!Token, C!Live
<1>5. QED
  BY <1>2, <1>4 DEF C!Live

LEMMA LogoutAllKeeps ==
  ASSUME NoToken \notin RotatedTokens, BrowserInv, NEW r \in Requests, C!LogoutAllSessions(r)
  PROVE  BrowserInv'
<1> DEFINE p == C!HandleLogoutAll
<1>1. /\ p \in Tab /\ p.cookie = NoToken /\ p.sent = NoToken /\ p.pc = "logout_answer"
  BY DEF C!HandleLogoutAll, C!ClearCookie, C!Answer, C!Idle, C!Answers, Tab
<1>2. proc[r].cookie = NoToken
  BY DEF C!LogoutAllSessions, C!At, BrowserInv, AnswersSet
<1>3. /\ \A s \in password : s \in RotatedTokens /\ Known(s)
      /\ lost \in BOOLEAN
  BY DEF BrowserInv, SessionsOne, BrowserTyped
<1>4. /\ rows' = C!AllRevoked
      /\ failedRevoke' = failedRevoke \cup {rows[t].session : t \in C!Live}
      /\ C!Become(r, p) /\ UNCHANGED <<link, password, redeemed, lost>>
  BY DEF C!LogoutAllSessions
<1> HIDE DEF p
<1>5. QED
  BY <1>1, <1>2, <1>3, <1>4, RevokedAll, SettleKeeps

LEMMA ChangeKeeps ==
  ASSUME NoToken \notin RotatedTokens, BrowserInv, NEW r \in Requests, C!ChangePassword(r)
  PROVE  BrowserInv'
<1> DEFINE p == C!HandleChange
<1>1. /\ p \in Tab /\ p.cookie = NoToken /\ p.sent = NoToken /\ ~p.sets
      /\ p.pc # "login_answer"
  BY DEF C!HandleChange, C!Plain, C!Idle, C!Answers, Tab
<1>2. proc[r].cookie = NoToken
  BY DEF C!ChangePassword, C!At, BrowserInv, AnswersSet
<1>3. /\ \A t \in C!Live : rows[t].session \notin password
      /\ \A s \in password : s \in RotatedTokens /\ Known(s)
      /\ lost \in BOOLEAN /\ rows \in [RotatedTokens -> C!Token]
  BY DEF BrowserInv, SessionsOne, BrowserTyped
<1>4. C!Become(r, p) /\ UNCHANGED <<link, password, redeemed, lost>>
  BY DEF C!ChangePassword
<1> HIDE DEF p
<1>5. CASE /\ rows' = C!AllRevoked
           /\ failedRevoke' = failedRevoke \cup {rows[t].session : t \in C!Live}
  BY <1>1, <1>2, <1>3, <1>4, <1>5, RevokedAll, SettleKeeps
<1>6. CASE UNCHANGED <<rows, failedRevoke>>
  <2>1. C!Live' = C!Live
    BY <1>6 DEF C!Live
  <2>2. QED
    BY <1>1, <1>2, <1>3, <1>4, <1>6, <2>1, SettleKeeps
<1>7. QED
  BY <1>5, <1>6 DEF C!ChangePassword

(* The steps that make a token.                                            *)
LEMMA LoginKeeps ==
  ASSUME NoToken \notin RotatedTokens, BrowserInv, NEW r \in Requests, C!Login(r)
  PROVE  BrowserInv'
<1>1. PICK u \in C!Fresh : /\ rows' = [rows EXCEPT ![u] = C!Created(u)]
                           /\ C!Become(r, C!HandleLogin(u))
  BY DEF C!Login
<1> DEFINE p == C!HandleLogin(u)
<1>2. u \in RotatedTokens /\ rows[u].state = "none"
  BY DEF C!Fresh
<1>3. /\ p \in Tab /\ p.cookie = u /\ p.sets /\ p.pc = "login_answer" /\ p.sent = NoToken
  BY <1>2 DEF C!HandleLogin, C!SetCookie, C!Answer, C!Idle, C!Answers, Tab
<1>4. proc[r].cookie = NoToken
  BY DEF C!Login, C!At, BrowserInv, AnswersSet
<1>5. rows \in [RotatedTokens -> C!Token]
  BY DEF BrowserInv, BrowserTyped
<1>6. /\ rows' \in [RotatedTokens -> C!Token]
      /\ rows'[u] = [state |-> "live", session |-> u]
      /\ \A t \in RotatedTokens \ {u} : rows'[t] = rows[t]
  BY <1>1, <1>2, <1>5 DEF C!Created, C!Token
<1>7. u \notin password /\ \A t \in C!Live : rows[t].session # u
  BY <1>2 DEF BrowserInv, SessionsOne, Known, C!Live
<1>8. C!Live' = C!Live \cup {u}
  BY <1>2, <1>6 DEF C!Live
<1>9. UNCHANGED <<link, password, failedRevoke, redeemed, lost>>
  BY DEF C!Login
<1> HIDE DEF p
<1>10. QED
  BY <1>1, <1>2, <1>3, <1>4, <1>6, <1>7, <1>8, <1>9, MakeKeeps DEF p

LEMMA RotateKeeps ==
  ASSUME NoToken \notin RotatedTokens, BrowserInv, NEW r \in Requests, C!RotateToken(r)
  PROVE  BrowserInv'
<1> DEFINE t == proc[r].sent
<1>1. proc[r].cookie = NoToken
  BY DEF C!RotateToken, C!At, BrowserInv, AnswersSet, C!Answers
<1>2. rows \in [RotatedTokens -> C!Token]
  BY DEF BrowserInv, BrowserTyped
<1>3. UNCHANGED <<link, password, failedRevoke, redeemed, lost>>
  BY DEF C!RotateToken
<1>4. CASE C!Valid(t)
  <2>1. PICK u \in C!Fresh :
          /\ rows' = [rows EXCEPT ![t].state = "revoked", ![u] = C!Created(rows[t].session)]
          /\ C!Become(r, C!HandleRefresh(u))
    BY <1>4 DEF C!RotateToken
  <2> DEFINE p == C!HandleRefresh(u)
             s == rows[t].session
  <2>2. u \in RotatedTokens /\ rows[u].state = "none" /\ u # NoToken
    BY DEF C!Fresh
  <2>3. t \in RotatedTokens /\ rows[t].state = "live" /\ t # u /\ t \in C!Live
    BY <1>4, <2>2 DEF C!Valid, C!Live
  <2>4. /\ p \in Tab /\ p.cookie = u /\ p.sets /\ p.pc = "refresh_answer" /\ p.sent = NoToken
    BY <2>2 DEF C!HandleRefresh, C!SetCookie, C!Answer, C!Idle, C!Answers, Tab
  <2>5. s \in RotatedTokens /\ Known(s) /\ s \notin password
    BY <2>3 DEF BrowserInv, SessionsOne
  <2>6. \A v \in C!Live : rows[v].session = s => v = t
    BY <2>3 DEF BrowserInv, SessionsOne
  <2> HIDE DEF t, p
  <2>7. /\ rows' \in [RotatedTokens -> C!Token]
        /\ rows'[u] = [state |-> "live", session |-> s]
        /\ \A v \in RotatedTokens \ {u} :
             /\ rows'[v].session = rows[v].session
             /\ rows'[v].state = "none" <=> rows[v].state = "none"
             /\ v # t => rows'[v] = rows[v]
        /\ rows'[t].state = "revoked"
    BY <1>2, <2>1, <2>2, <2>3, <2>5 DEF C!Created, C!Token
  <2>8. C!Live' = (C!Live \ {t}) \cup {u}
    BY <2>2, <2>3, <2>7 DEF C!Live
  <2>9. /\ C!Live' \ {u} \subseteq C!Live
        /\ \A v \in C!Live' \ {u} : rows[v].session # s
        /\ \A v \in C!Live \ C!Live' : v = proc[r].sent
    BY <2>6, <2>8 DEF t
  <2>10. C!Become(r, p)
    BY <2>1 DEF p
  <2> HIDE DEF s
  <2>11. QED
    BY <1>1, <1>3, <2>2, <2>4, <2>5, <2>7, <2>9, <2>10, MakeKeeps
<1>5. CASE ~C!Valid(t)
  <2> DEFINE p == C!HandleRefresh(NoToken)
  <2>1. /\ p \in Tab /\ p.cookie = NoToken /\ p.sent = NoToken /\ ~p.sets
        /\ p.pc # "login_answer"
    BY DEF C!HandleRefresh, C!Plain, C!Idle, C!Answers, Tab
  <2>2. /\ \A u \in C!Live : rows[u].session \notin password
        /\ \A s \in password : s \in RotatedTokens /\ Known(s)
        /\ lost \in BOOLEAN
    BY DEF BrowserInv, SessionsOne, BrowserTyped
  <2>3. C!Become(r, p) /\ UNCHANGED rows
    BY <1>5 DEF C!RotateToken
  <2>4. C!Live' = C!Live
    BY <2>3 DEF C!Live
  <2> HIDE DEF p
  <2>5. QED
    BY <1>1, <1>2, <1>3, <2>1, <2>2, <2>3, <2>4, SettleKeeps
<1>6. QED
  BY <1>4, <1>5

(* The answer that the browser gets: its cookie is good, and no other      *)
(* answer has it.                                                          *)
LEMMA DeliverKeeps ==
  ASSUME NoToken \notin RotatedTokens, BrowserInv, NEW r \in Requests, C!Deliver(r)
  PROVE  BrowserInv'
<1> DEFINE c == proc[r].cookie
<1>1. /\ proc[r] \in Tab
      /\ link' = IF proc[r].sets THEN c ELSE link
      /\ C!Become(r, C!Idle)
      /\ UNCHANGED <<rows, password, failedRevoke, lost>>
  BY DEF C!Deliver, BrowserInv, BrowserTyped
<1>2. /\ C!Idle \in Tab /\ C!Idle.cookie = NoToken /\ C!Idle.sent = NoToken /\ ~C!Idle.sets
      /\ C!Idle.pc = "idle"
  BY DEF C!Idle, Tab
<1>3. /\ proc' \in [Requests -> Tab] /\ proc'[r] = C!Idle
      /\ \A q \in Requests : q # r => proc'[q] = proc[q]
  BY <1>1, <1>2, TabMoves DEF BrowserInv, BrowserTyped
<1>4. \/ ~proc[r].sets /\ link' = link /\ redeemed' = redeemed
      \/ proc[r].sets /\ c # NoToken /\ link' = c /\ redeemed' \in {redeemed, FALSE}
      \/ proc[r].sets /\ link' = c /\ redeemed'
  <2>1. redeemed' = IF proc[r].sets /\ proc[r].pc \in {"login_answer", "logout_answer"}
                    THEN proc[r].pc = "logout_answer" ELSE redeemed
    BY DEF C!Deliver
  <2>2. proc[r].sets /\ proc[r].pc # "logout_answer" => c # NoToken
    BY DEF BrowserInv, AnswersSet
  <2>3. proc[r].sets \in BOOLEAN
    BY <1>1 DEF Tab
  <2>4. CASE ~proc[r].sets
    BY <1>1, <2>1, <2>4
  <2>5. CASE proc[r].sets /\ proc[r].pc = "logout_answer"
    BY <1>1, <2>1, <2>5
  <2>6. CASE proc[r].sets /\ proc[r].pc # "logout_answer"
    BY <1>1, <2>1, <2>2, <2>6
  <2>7. QED
    BY <2>3, <2>4, <2>5, <2>6
<1>5. \A t : (Known(t) <=> Known(t)') /\ (Good(t) <=> Good(t)')
  BY <1>1 DEF Known, Good, C!Live
<1>6. BrowserTyped'
  BY <1>1, <1>3, <1>4 DEF BrowserInv, BrowserTyped, Tab
<1>7. AnswersSet'
  BY <1>2, <1>3 DEF BrowserInv, AnswersSet, C!At
<1>8. SessionsOne'
  <2>1. Known(link')
    BY <1>1 DEF BrowserInv, SessionsOne
  <2>2. \A q \in Requests : Known(proc'[q].sent) /\ Known(proc'[q].cookie)
    BY <1>2, <1>3 DEF BrowserInv, SessionsOne, Known
  <2>3. QED
    BY <1>1, <2>1, <2>2 DEF BrowserInv, SessionsOne, Known, C!Live
<1>9. CookiesSecret'
  BY <1>1, <1>2, <1>3 DEF BrowserInv, CookiesSecret
<1>10. CookiesGood'
  BY <1>1, <1>2, <1>3 DEF BrowserInv, CookiesGood, Good, C!Live
<1>11. JarFollowed'
  <2>1. ~redeemed' => link' # NoToken
    BY <1>4 DEF BrowserInv, JarFollowed
  <2>2. ASSUME ~lost, link' # NoToken, ~Good(link')
        PROVE  \E q \in Requests : proc'[q].cookie # NoToken
    <3>1. ~proc[r].sets /\ link' = link
      BY <1>1, <2>2 DEF BrowserInv, CookiesGood
    <3>2. c = NoToken
      BY <3>1 DEF BrowserInv, AnswersSet
    <3>3. PICK q \in Requests : proc[q].cookie # NoToken
      BY <2>2, <3>1 DEF BrowserInv, JarFollowed
    <3>4. QED
      BY <1>3, <3>2, <3>3
  <2>3. QED
    BY <1>1, <2>1, <2>2 DEF JarFollowed, Good, C!Live
<1>12. QED
  BY <1>6, <1>7, <1>8, <1>9, <1>10, <1>11 DEF BrowserInv

LEMMA CookiesStay ==
  ASSUME NoToken \notin RotatedTokens PROVE C!Spec => []C!CookieHonest
<1>1. C!Init => BrowserInv
  <2> SUFFICES ASSUME C!Init PROVE BrowserInv
    OBVIOUS
  <2>1. C!Idle \in Tab /\ C!Live = {}
    BY DEF C!Init, C!Idle, C!Live, Tab
  <2>2. BrowserTyped
    BY <2>1 DEF C!Init, BrowserTyped, C!Token
  <2>3. AnswersSet /\ CookiesSecret /\ CookiesGood /\ JarFollowed
    BY DEF C!Init, C!Idle, AnswersSet, CookiesSecret, CookiesGood, JarFollowed, C!At
  <2>4. SessionsOne
    BY <2>1 DEF C!Init, C!Idle, SessionsOne, Known
  <2>5. QED
    BY <2>2, <2>3, <2>4 DEF BrowserInv
<1>2. BrowserInv /\ [C!Next]_C!vars => BrowserInv'
  <2> SUFFICES ASSUME BrowserInv, [C!Next]_C!vars PROVE BrowserInv'
    OBVIOUS
  <2>1. CASE C!ExpireAccess \/ UNCHANGED C!vars
    BY <2>1 DEF C!ExpireAccess, C!vars, BrowserInv, BrowserTyped, AnswersSet, SessionsOne,
                CookiesSecret, CookiesGood, JarFollowed, Known, Good, C!Live, C!At
  <2>2. QED
    BY <2>1, LoginKeeps, SendKeeps, ValidateKeeps, RotateKeeps, LogoutKeeps, LogoutAllKeeps,
       ChangeKeeps, DeliverKeeps, LoseKeeps DEF C!Next
<1>3. BrowserInv => C!CookieHonest
  BY DEF BrowserInv, BrowserTyped, SessionsOne, AnswersSet, JarFollowed, Good, C!CookieHonest,
         C!At, C!Answers
<1>4. QED
  BY <1>1, <1>2, <1>3, PTL DEF C!Spec

(* The part goes as its specification says, and is the only one.           *)
LEMMA BrowserApart ==
  part = "browser" /\ Spec => C!Spec /\ [](part = "browser")
<1>1. part = "browser" /\ Init => C!Init
  BY DEF Init
<1>2. part = "browser" /\ [Next]_vars => [C!Next]_C!vars /\ (part = "browser")'
  BY DEF Next, vars, C!vars
<1>3. QED
  BY <1>1, <1>2, PTL DEF Spec, C!Spec

-----------------------------------------------------------------------------
(* What hangs on posts: no comment is written in this part.                *)
Contents == [media : SUBSET Attached, tags : SUBSET Attached, mentions : SUBSET Attached]
Parts == {"media", "tags", "mentions"}

LEMMA PostNothing ==
  PC!Nothing \in Contents /\ DOMAIN PC!Nothing = Parts /\ \A f \in Parts : PC!Nothing[f] = {}
BY DEF PC!Nothing, Contents, Parts

LEMMA ContentsAre ==
  /\ \A k \in Contents : DOMAIN k = Parts /\ \A f \in Parts : k[f] \subseteq Attached
  /\ \A k, l \in Contents : (\A f \in Parts : k[f] = l[f]) => k = l
  /\ \A k \in Contents : k = [f \in Parts |-> k[f]]
<1>1. \A k \in Contents : DOMAIN k = Parts /\ \A f \in Parts : k[f] \subseteq Attached
  BY DEF Contents, Parts
<1>2. \A k \in Contents : k = [f \in Parts |-> k[f]]
  BY DEF Contents, Parts
<1>3. \A k, l \in Contents : (\A f \in Parts : k[f] = l[f]) => k = l
  BY DEF Contents, Parts
<1>4. QED
  BY <1>1, <1>2, <1>3

LEMMA ThingsPosts == PC!Things = ResetTokens /\ PC!NoRow.parent = NoId
BY DEF PC!Things, PC!NoRow

-----------------------------------------------------------------------------
PostPcs == {"idle", "media", "update", "untag", "tags", "unmention", "mentions", "delete"}
PostRecord == [pc : PostPcs, update : BOOLEAN, thing : ResetTokens \cup {NoId},
  parent : {NoId},
               want : Contents, done : Contents, cut : Contents]
PostRow == [state : {"none", "live", "deleted"}, parent : {NoId}, parts : Contents]

CreatesPost(x) == x.pc \in {"media", "tags", "mentions"} /\ ~x.update
UpdatesPost(x) == x.pc \in {"untag", "tags", "unmention", "mentions"} /\ x.update
HoldsRow(x) == x.pc \in {"untag", "tags", "unmention", "mentions"}

\* What a request knows of its post, by where it is.
PostFits(x) ==
  /\ x.pc = "media" => ~x.update
  /\ x.pc \in {"untag", "unmention", "update"} => x.update
  /\ x.pc # "idle" => x.thing \in ResetTokens
  /\ x.pc \in {"update", "delete"} => rows[x.thing].state # "none"
  /\ x.pc = "update" => x.want.media = {} /\ x.done = PC!Nothing /\ x.cut = PC!Nothing
  /\ CreatesPost(x) =>
       /\ rows[x.thing].state = "none" /\ x.cut = PC!Nothing
       /\ x.pc # "media" => x.done.media = x.want.media
       /\ x.pc = "mentions" => x.done.tags = x.want.tags
  /\ UpdatesPost(x) =>
       /\ PC!Live(x.thing)
       /\ x.want.media = {} /\ x.done.media = {} /\ x.cut.media = {}
       /\ x.pc # "untag" => x.cut.tags = rows[x.thing].parts.tags
       /\ x.pc = "mentions" => x.cut.mentions = rows[x.thing].parts.mentions
       /\ x.pc \in {"unmention", "mentions"} => x.done.tags = x.want.tags

\* Two requests that may not be about one post.
PostClash(x, y) ==
  /\ x.pc # "idle" /\ y.pc # "idle" /\ x.thing = y.thing
  /\ CreatesPost(x) \/ CreatesPost(y) \/ (HoldsRow(x) /\ HoldsRow(y))

PostRows ==
  /\ rows \in [ResetTokens -> PostRow] /\ active \in [ResetTokens -> Contents]
  /\ \A x \in ResetTokens : /\ rows[x].state = "none" => rows[x].parts = PC!Nothing
                            /\ PC!Live(x) => rows[x].parts = active[x]
PostRequests ==
  /\ proc \in [Requests -> PostRecord]
  /\ \A r \in Requests : PostFits(proc[r])
  /\ \A r, q \in Requests : r # q => ~PostClash(proc[r], proc[q])

\* What the reader has filled in, by where it is.
PostFilled(pc) ==
  CASE pc = "tags" -> {"media"}
    [] pc = "mentions" -> {"media", "tags"}
    [] pc = "done" -> {"media", "tags", "mentions"}
    [] OTHER -> {}
PostShelf == [parts : Contents, replies : {{}}, count : {0}]
PostView == [pc : {"off", "media", "tags", "mentions", "done"}, page : SUBSET ResetTokens,
             ids : SUBSET ResetTokens, shown : [ResetTokens -> PostShelf],
             failed : SUBSET (ResetTokens \X Parts), faults : Nat,
             changed : SUBSET (ResetTokens \cup {NoId})]
PostPages ==
  /\ link \in PostView
  /\ link.page = link.ids /\ (link.pc = "off" => link.ids = {})
  /\ \A x \in ResetTokens \ link.ids, f \in Parts : link.shown[x].parts[f] = {}
  /\ \A x \in ResetTokens, f \in Parts : <<x, f>> \in link.failed => f \in PostFilled(link.pc)
  /\ \A x \in link.ids \ link.changed, f \in Parts :
       link.shown[x].parts[f]
         = IF f \in PostFilled(link.pc) /\ <<x, f>> \notin link.failed
           THEN rows[x].parts[f] ELSE {}
PostsInv == PostRows /\ PostRequests /\ PostPages

LEMMA PostIdle ==
  /\ PC!Idle \in PostRecord /\ PC!Idle.pc = "idle" /\ ~PC!Idle.update /\ PC!Idle.thing = NoId
  /\ PC!Idle.want = PC!Nothing /\ PC!Idle.done = PC!Nothing /\ PC!Idle.cut = PC!Nothing
BY PostNothing DEF PC!Idle, PostRecord, PostPcs

LEMMA InitPosts == PC!Init => PostsInv
<1> SUFFICES ASSUME PC!Init PROVE PostsInv
  OBVIOUS
<1>2. PostRequests
  BY PostIdle DEF PC!Init, PostRequests, PostFits, PostClash, CreatesPost, UpdatesPost
<1>3. PostRows
  BY ThingsPosts, PostNothing DEF PC!Init, PostRows, PostRow, PC!NoRow, PC!Live
<1>4. PostPages
  <2>1. /\ link = PC!NoView /\ link.failed = {} /\ link.ids = {} /\ link.page = {}
    BY DEF PC!Init, PC!NoView
  <2>2. PC!Blank \in PostShelf
    BY PostNothing DEF PC!Blank, PostShelf
  <2>3. PC!NoView.shown \in [ResetTokens -> PostShelf]
    BY <2>2, ThingsPosts DEF PC!NoView, PostView
  <2>4. link \in PostView
    BY <2>1, <2>3 DEF PC!NoView, PostView
  <2>5. \A x \in ResetTokens, f \in Parts : link.shown[x].parts[f] = {}
    BY <2>1, ThingsPosts, PostNothing DEF PC!NoView, PC!Blank
  <2>6. QED
    BY <2>1, <2>4, <2>5 DEF PostPages, PostView
<1>5. QED
  BY <1>2, <1>3, <1>4 DEF PostsInv

(* One request moves, and nothing else changes.                            *)
LEMMA PostMoves ==
  ASSUME PostsInv, NEW r \in Requests, NEW x \in PostRecord, proc' = [proc EXCEPT ![r] = x],
         PostFits(x), \A q \in Requests \ {r} : ~PostClash(x, proc[q]),
         UNCHANGED <<rows, active, link>>
  PROVE  PostsInv'
<1>1. /\ proc' \in [Requests -> PostRecord] /\ proc'[r] = x
      /\ \A q \in Requests : q # r => proc'[q] = proc[q]
  BY DEF PostsInv, PostRequests
<1>2. \A y : PostFits(y)' <=> PostFits(y)
  BY DEF PostFits, CreatesPost, UpdatesPost, PC!Live
<1>3. \A q \in Requests : PostFits(proc'[q])
  BY <1>1 DEF PostsInv, PostRequests
<1>4. \A q \in Requests : PostFits(proc[q])'
  BY <1>2, <1>3
<1>5. \A p, q \in Requests : p # q => ~PostClash(proc'[p], proc'[q])
  BY <1>1 DEF PostsInv, PostRequests, PostClash
<1>6. (\A p, q \in Requests : p # q => ~PostClash(proc[p], proc[q]))'
  BY <1>5 DEF PostClash, CreatesPost, HoldsRow
<1>7. PostRequests'
  BY <1>1, <1>4, <1>6 DEF PostRequests
<1>8. QED
  BY <1>7 DEF PostsInv, PostRows, PostPages, PC!Live

(* A request becomes what it asks for.                                     *)
LEMMA AcceptPosts ==
  ASSUME PostsInv, NEW r \in Requests,
         PC!CreatePost(r) \/ PC!UpdatePost(r) \/ PC!DeletePost(r)
  PROVE  PostsInv'
<1>1. proc[r].pc = "idle"
  BY DEF PC!CreatePost, PC!UpdatePost, PC!DeletePost, PC!Accept, PC!At
<1>2. \A q \in Requests : PostFits(proc[q]) /\ proc[q] \in PostRecord
  BY DEF PostsInv, PostRequests
<1>3. CASE PC!CreatePost(r)
  <2>1. PICK p \in ResetTokens, want \in PostContents :
          /\ rows[p].state = "none" /\ \A q \in Requests : proc[q].thing # p
          /\ PC!Accept(r, [PC!Idle EXCEPT !.pc = "media", !.thing = p, !.want = want])
    BY <1>3 DEF PC!CreatePost
  <2> DEFINE x == [PC!Idle EXCEPT !.pc = "media", !.thing = p, !.want = want]
  <2>2. want \in Contents
    BY ContentsAssumption DEF Contents
  <2>3. /\ x \in PostRecord /\ x.pc = "media" /\ ~x.update /\ x.thing = p
        /\ x.want = want /\ x.done = PC!Nothing /\ x.cut = PC!Nothing
    BY <2>2, PostIdle DEF PostRecord, PostPcs
  <2>4. proc' = [proc EXCEPT ![r] = x] /\ UNCHANGED <<rows, active, link>>
    BY <2>1 DEF PC!Accept
  <2> HIDE DEF x
  <2>5. PostFits(x)
    BY <2>1, <2>3 DEF PostFits, CreatesPost, UpdatesPost
  <2>6. \A q \in Requests \ {r} : ~PostClash(x, proc[q])
    BY <2>1, <2>3 DEF PostClash
  <2>7. QED
    BY <2>3, <2>4, <2>5, <2>6, PostMoves
<1>4. CASE PC!UpdatePost(r)
  <2>1. PICK p \in ResetTokens, want \in PostContents :
          /\ PC!Live(p)
          /\ PC!Accept(r, [PC!Idle EXCEPT !.pc = "update", !.update = TRUE, !.thing = p,
                                          !.want = [want EXCEPT !.media = {}]])
    BY <1>4 DEF PC!UpdatePost
  <2> DEFINE k == [want EXCEPT !.media = {}]
             x == [PC!Idle EXCEPT !.pc = "update", !.update = TRUE, !.thing = p, !.want = k]
  <2>2. want \in Contents
    BY ContentsAssumption DEF Contents
  <2>3. k \in Contents /\ k.media = {}
    BY <2>2 DEF Contents
  <2> HIDE DEF k
  <2>4. /\ x \in PostRecord /\ x.pc = "update" /\ x.update /\ x.thing = p
        /\ x.want = k /\ x.done = PC!Nothing /\ x.cut = PC!Nothing
    BY <2>3, PostIdle DEF PostRecord, PostPcs
  <2>5. proc' = [proc EXCEPT ![r] = x] /\ UNCHANGED <<rows, active, link>>
    BY <2>1 DEF PC!Accept, k
  <2> HIDE DEF x
  <2>6. PostFits(x)
    BY <2>1, <2>3, <2>4 DEF PostFits, CreatesPost, UpdatesPost, PC!Live
  <2>7. \A q \in Requests \ {r} : ~PostClash(x, proc[q])
    BY <1>2, <2>1, <2>4 DEF PostClash, CreatesPost, HoldsRow, PostFits, PC!Live
  <2>8. QED
    BY <2>4, <2>5, <2>6, <2>7, PostMoves
<1>5. CASE PC!DeletePost(r)
  <2>1. PICK p \in ResetTokens :
          PC!Live(p) /\ PC!Accept(r, [PC!Idle EXCEPT !.pc = "delete", !.thing = p])
    BY <1>5 DEF PC!DeletePost
  <2> DEFINE x == [PC!Idle EXCEPT !.pc = "delete", !.thing = p]
  <2>2. x \in PostRecord /\ x.pc = "delete" /\ x.thing = p
    BY PostIdle DEF PostRecord, PostPcs
  <2>3. proc' = [proc EXCEPT ![r] = x] /\ UNCHANGED <<rows, active, link>>
    BY <2>1 DEF PC!Accept
  <2> HIDE DEF x
  <2>4. PostFits(x)
    BY <2>1, <2>2 DEF PostFits, CreatesPost, UpdatesPost, PC!Live
  <2>5. \A q \in Requests \ {r} : ~PostClash(x, proc[q])
    BY <1>2, <2>1, <2>2 DEF PostClash, CreatesPost, HoldsRow, PostFits, PC!Live
  <2>6. QED
    BY <2>2, <2>3, <2>4, <2>5, PostMoves
<1>6. QED
  BY <1>3, <1>4, <1>5

(* The steps within a transaction.                                         *)
LEMMA PostGoesOn ==
  ASSUME PostsInv, NEW r \in Requests, NEW pc \in PostPcs, PC!Goto(r, pc),
         NEW x, x = [proc[r] EXCEPT !.pc = pc]
  PROVE  /\ x \in PostRecord /\ proc' = [proc EXCEPT ![r] = x]
         /\ x.pc = pc /\ x.update = proc[r].update /\ x.thing = proc[r].thing
         /\ x.want = proc[r].want /\ x.done = proc[r].done /\ x.cut = proc[r].cut
         /\ UNCHANGED <<rows, active, link>>
<1>1. proc[r] \in PostRecord /\ proc \in [Requests -> PostRecord]
  BY DEF PostsInv, PostRequests
<1>2. QED
  BY <1>1 DEF PC!Goto, PostRecord

LEMMA UpdateRowKeeps ==
  ASSUME PostsInv, NEW r \in Requests, PC!UpdateRow(r)
  PROVE  PostsInv'
<1> DEFINE x == [proc[r] EXCEPT !.pc = "untag"]
<1>1. proc[r].pc = "update" /\ PC!Live(proc[r].thing) /\ ~PC!RowHeld(r) /\ PC!Goto(r, "untag")
  BY DEF PC!UpdateRow, PC!At
<1>2. "untag" \in PostPcs
  BY DEF PostPcs
<1>3. /\ x \in PostRecord /\ proc' = [proc EXCEPT ![r] = x]
      /\ x.pc = "untag" /\ x.update = proc[r].update /\ x.thing = proc[r].thing
      /\ x.want = proc[r].want /\ x.done = proc[r].done /\ x.cut = proc[r].cut
      /\ UNCHANGED <<rows, active, link>>
  BY <1>1, <1>2, PostGoesOn
<1> HIDE DEF x
<1>4. PostFits(proc[r]) /\ \A q \in Requests : r # q => ~PostClash(proc[r], proc[q])
  BY DEF PostsInv, PostRequests
<1>5. PostFits(x)
  BY <1>1, <1>3, <1>4, PostNothing DEF PostFits, CreatesPost, UpdatesPost, PC!Nothing
<1>6. \A q \in Requests \ {r} : ~PostClash(x, proc[q])
  BY <1>1, <1>3, <1>4 DEF PostClash, CreatesPost, HoldsRow, PostFits, PC!RowHeld
<1>7. QED
  BY <1>3, <1>5, <1>6, PostMoves

LEMMA MediaAddedKeeps ==
  ASSUME PostsInv, NEW r \in Requests, PC!MediaAdded(r)
  PROVE  PostsInv'
<1> DEFINE x == [proc[r] EXCEPT !.pc = "tags"]
<1>1. proc[r].pc = "media" /\ proc[r].done.media = proc[r].want.media /\ PC!Goto(r, "tags")
  BY DEF PC!MediaAdded, PC!At, PC!Done
<1>2. "tags" \in PostPcs
  BY DEF PostPcs
<1>3. /\ x \in PostRecord /\ proc' = [proc EXCEPT ![r] = x]
      /\ x.pc = "tags" /\ x.update = proc[r].update /\ x.thing = proc[r].thing
      /\ x.want = proc[r].want /\ x.done = proc[r].done /\ x.cut = proc[r].cut
      /\ UNCHANGED <<rows, active, link>>
  BY <1>1, <1>2, PostGoesOn
<1> HIDE DEF x
<1>4. PostFits(proc[r]) /\ \A q \in Requests : r # q => ~PostClash(proc[r], proc[q])
  BY DEF PostsInv, PostRequests
<1>5. PostFits(x)
  BY <1>1, <1>3, <1>4 DEF PostFits, CreatesPost, UpdatesPost
<1>6. \A q \in Requests \ {r} : ~PostClash(x, proc[q])
  BY <1>1, <1>3, <1>4 DEF PostClash, CreatesPost, HoldsRow, PostFits
<1>7. QED
  BY <1>3, <1>5, <1>6, PostMoves

LEMMA LinkKeeps ==
  ASSUME PostsInv, NEW r \in Requests, PC!LinkPostHashtags(r)
  PROVE  PostsInv'
<1> DEFINE pc == IF proc[r].update THEN "unmention" ELSE "mentions"
           x == [proc[r] EXCEPT !.pc = pc]
<1>1. proc[r].pc = "tags" /\ proc[r].done.tags = proc[r].want.tags /\ PC!Goto(r, pc)
  BY DEF PC!LinkPostHashtags, PC!At, PC!Done
<1>2. pc \in PostPcs
  BY DEF PostPcs
<1>3. /\ x \in PostRecord /\ proc' = [proc EXCEPT ![r] = x]
      /\ x.pc = pc /\ x.update = proc[r].update /\ x.thing = proc[r].thing
      /\ x.want = proc[r].want /\ x.done = proc[r].done /\ x.cut = proc[r].cut
      /\ UNCHANGED <<rows, active, link>>
  BY <1>1, <1>2, PostGoesOn
<1> HIDE DEF x
<1>4. PostFits(proc[r]) /\ \A q \in Requests : r # q => ~PostClash(proc[r], proc[q])
  BY DEF PostsInv, PostRequests
<1>5. PostFits(x)
  BY <1>1, <1>3, <1>4 DEF PostFits, CreatesPost, UpdatesPost
<1>6. \A q \in Requests \ {r} : ~PostClash(x, proc[q])
  BY <1>1, <1>3, <1>4 DEF PostClash, CreatesPost, HoldsRow, PostFits
<1>7. QED
  BY <1>3, <1>5, <1>6, PostMoves

(* What was there is cut.                                                  *)
LEMMA CutKeeps ==
  ASSUME PostsInv, NEW r \in Requests,
         PC!DeletePostHashtags(r) \/ PC!DeleteMentionsByPost(r)
  PROVE  PostsInv'
<1>1. proc[r] \in PostRecord /\ proc \in [Requests -> PostRecord]
  BY DEF PostsInv, PostRequests
<1>2. PostFits(proc[r]) /\ \A q \in Requests : r # q => ~PostClash(proc[r], proc[q])
  BY DEF PostsInv, PostRequests
<1> DEFINE old == rows[proc[r].thing].parts
<1>3. proc[r].pc \in {"untag", "unmention"} /\ proc[r].update /\ proc[r].thing \in ResetTokens
  BY <1>2 DEF PC!DeletePostHashtags, PC!DeleteMentionsByPost, PC!At, PostFits
<1>4. old \in Contents /\ proc[r].cut \in Contents /\ old.tags \subseteq Attached
      /\ old.mentions \subseteq Attached
  BY <1>1, <1>3, ContentsAre DEF PostsInv, PostRows, PostRow, PostRecord, Contents
<1>5. CASE PC!DeletePostHashtags(r)
  <2> DEFINE k == [proc[r].cut EXCEPT !.tags = old.tags]
             x == [proc[r] EXCEPT !.pc = "tags", !.cut = k]
  <2>1. k \in Contents /\ k.tags = old.tags /\ k.media = proc[r].cut.media
        /\ k.mentions = proc[r].cut.mentions
    BY <1>4 DEF Contents
  <2>2. proc' = [proc EXCEPT ![r] = x] /\ UNCHANGED <<rows, active, link>>
          /\ proc[r].pc = "untag"
    BY <1>1, <1>5 DEF PC!DeletePostHashtags, PC!At, PostRecord
  <2> HIDE DEF k
  <2>3. /\ x \in PostRecord
        /\ x.pc = "tags" /\ x.update = proc[r].update /\ x.thing = proc[r].thing
        /\ x.want = proc[r].want /\ x.done = proc[r].done /\ x.cut = k
    BY <1>1, <2>1 DEF PostRecord, PostPcs
  <2> HIDE DEF x
  <2>4. PostFits(x)
    BY <1>2, <1>3, <2>1, <2>2, <2>3 DEF PostFits, CreatesPost, UpdatesPost
  <2>5. \A q \in Requests \ {r} : ~PostClash(x, proc[q])
    BY <1>2, <1>3, <2>2, <2>3 DEF PostClash, CreatesPost, HoldsRow
  <2>6. QED
    BY <2>2, <2>3, <2>4, <2>5, PostMoves
<1>6. CASE PC!DeleteMentionsByPost(r)
  <2> DEFINE k == [proc[r].cut EXCEPT !.mentions = old.mentions]
             x == [proc[r] EXCEPT !.pc = "mentions", !.cut = k]
  <2>1. k \in Contents /\ k.tags = proc[r].cut.tags /\ k.media = proc[r].cut.media
        /\ k.mentions = old.mentions
    BY <1>4 DEF Contents
  <2>2. proc' = [proc EXCEPT ![r] = x] /\ UNCHANGED <<rows, active, link>>
          /\ proc[r].pc = "unmention"
    BY <1>1, <1>6 DEF PC!DeleteMentionsByPost, PC!At, PostRecord
  <2> HIDE DEF k
  <2>3. /\ x \in PostRecord
        /\ x.pc = "mentions" /\ x.update = proc[r].update /\ x.thing = proc[r].thing
        /\ x.want = proc[r].want /\ x.done = proc[r].done /\ x.cut = k
    BY <1>1, <2>1 DEF PostRecord, PostPcs
  <2> HIDE DEF x
  <2>4. PostFits(x)
    BY <1>2, <1>3, <2>1, <2>2, <2>3 DEF PostFits, CreatesPost, UpdatesPost
  <2>5. \A q \in Requests \ {r} : ~PostClash(x, proc[q])
    BY <1>2, <1>3, <2>2, <2>3 DEF PostClash, CreatesPost, HoldsRow
  <2>6. QED
    BY <2>2, <2>3, <2>4, <2>5, PostMoves
<1>7. QED
  BY <1>5, <1>6

(* One more row of what is asked for.                                      *)
LEMMA AddKeeps ==
  ASSUME PostsInv, NEW r \in Requests,
         \/ PC!AddPostMedia(r)
         \/ PC!UpsertHashtag(r)
         \/ PC!InsertMention(r)
  PROVE  PostsInv'
<1>1. proc[r] \in PostRecord /\ proc \in [Requests -> PostRecord]
  BY DEF PostsInv, PostRequests
<1>2. PostFits(proc[r]) /\ \A q \in Requests : r # q => ~PostClash(proc[r], proc[q])
  BY DEF PostsInv, PostRequests
<1>3. proc[r].done \in Contents /\ proc[r].want \in Contents /\ \A f \in Parts :
        proc[r].done[f] \subseteq Attached /\ proc[r].want[f] \subseteq Attached
  BY <1>1, ContentsAre DEF PostRecord
<1>4. PICK f \in Parts : /\ PC!Add(r, f)
                         /\ proc[r].pc = f
  BY DEF PC!AddPostMedia, PC!UpsertHashtag, PC!InsertMention, PC!At, Parts
<1>5. PICK k \in proc[r].want[f] \ proc[r].done[f] : proc' = [proc EXCEPT ![r].done[f]
        = @ \cup {k}]
  BY <1>4 DEF PC!Add
<1> DEFINE d == [proc[r].done EXCEPT ![f] = proc[r].done[f] \cup {k}]
           x == [proc[r] EXCEPT !.done = d]
<1>6. UNCHANGED <<rows, active, link>> /\ proc' = [proc EXCEPT ![r] = x]
  BY <1>1, <1>4, <1>5 DEF PC!Add, PostRecord
<1>7. proc[r].done[f] \cup {k} \subseteq Attached
  BY <1>3, <1>5
<1>8. d \in Contents /\ \A g \in Parts : g # f => d[g] = proc[r].done[g]
  BY <1>3, <1>7 DEF Contents, Parts
<1> HIDE DEF d
<1>9. /\ x \in PostRecord
      /\ x.pc = f /\ x.update = proc[r].update /\ x.thing = proc[r].thing
      /\ x.want = proc[r].want /\ x.done = d /\ x.cut = proc[r].cut
  BY <1>1, <1>4, <1>8 DEF PostRecord
<1> HIDE DEF x
<1>10. PostFits(x)
  <2>1. \A g : g # f /\ g \in Parts => x.done[g] = proc[r].done[g]
    BY <1>8, <1>9
  <2>2. /\ f # "media" => x.done.media = proc[r].done.media
        /\ f # "tags" => x.done.tags = proc[r].done.tags
    BY <2>1 DEF Parts
  <2>3. f \in {"media", "tags", "mentions"}
    BY DEF Parts
  <2>4. QED
    BY <1>2, <1>4, <1>9, <2>2, <2>3 DEF PostFits, CreatesPost, UpdatesPost
<1>11. \A q \in Requests \ {r} : ~PostClash(x, proc[q])
  BY <1>2, <1>4, <1>9 DEF PostClash, CreatesPost, HoldsRow
<1>12. QED
  BY <1>6, <1>9, <1>10, <1>11, PostMoves

LEMMA FailPosts ==
  ASSUME PostsInv, NEW r \in Requests, PC!Fail(r)
  PROVE  PostsInv'
<1>1. proc[r].pc # "told"
  BY DEF PostsInv, PostRequests, PostRecord, PostPcs
<1>2. PC!Idle \in PostRecord /\ PC!Idle.pc = "idle"
  BY PostIdle
<1>3. proc' = [proc EXCEPT ![r] = PC!Idle] /\ UNCHANGED <<rows, active, link>>
  BY <1>1 DEF PC!Fail, PC!At
<1>4. PostFits(PC!Idle) /\ \A q : ~PostClash(PC!Idle, q)
  BY <1>2 DEF PostFits, PostClash, CreatesPost, UpdatesPost
<1>5. QED
  BY <1>2, <1>3, <1>4, PostMoves

(* A row is written, and what was being filled counts it as changed.       *)
LEMMA PostPagesLast ==
  ASSUME PostsInv, NEW p \in ResetTokens, NEW row \in PostRow,
    rows' = [rows EXCEPT ![p] = row],
         PC!Changed(p)
  PROVE  PostPages'
<1>1. rows \in [ResetTokens -> PostRow] /\ PostPages
  BY DEF PostsInv, PostRows
<1>2. rows'[p] = row /\ row.parent = NoId /\ \A x \in ResetTokens : x # p =>
        rows'[x] = rows[x]
  BY <1>1 DEF PostRow
<1>3. CASE link.pc = "off"
  <2>1. link' = link
    BY <1>3 DEF PC!Changed
  <2>2. PostFilled(link.pc) = {}
    BY <1>3 DEF PostFilled
  <2>3. QED
    BY <1>1, <2>1, <2>2 DEF PostPages, PostView
<1>4. CASE link.pc # "off"
  <2>1. link' = [link EXCEPT !.changed = link.changed \cup {p, NoId}]
    BY <1>2, <1>4 DEF PC!Changed
  <2>2. /\ link' \in PostView
        /\ link'.pc = link.pc /\ link'.page = link.page /\ link'.ids = link.ids
        /\ link'.shown = link.shown /\ link'.failed = link.failed
        /\ link'.changed = link.changed \cup {p, NoId}
    BY <1>1, <2>1 DEF PostPages, PostView
  <2>3. \A x \in link'.ids \ link'.changed : x \in link.ids \ link.changed
          /\ rows'[x] = rows[x]
    BY <1>1, <1>2, <2>2 DEF PostPages, PostView
  <2>4. \A x \in link'.ids \ link'.changed, f \in Parts :
          link'.shown[x].parts[f]
            = IF f \in PostFilled(link'.pc) /\ <<x, f>> \notin link'.failed
              THEN rows'[x].parts[f] ELSE {}
    <3>1. \A x \in link.ids \ link.changed, f \in Parts :
            link.shown[x].parts[f]
              = IF f \in PostFilled(link.pc) /\ <<x, f>> \notin link.failed
                THEN rows[x].parts[f] ELSE {}
      BY <1>1 DEF PostPages
    <3>2. QED
      BY <2>2, <2>3, <3>1
  <2>5. /\ link'.page = link'.ids /\ link'.pc # "off"
        /\ \A x \in ResetTokens \ link'.ids, f \in Parts : link'.shown[x].parts[f] = {}
        /\ \A x \in ResetTokens, f \in Parts : <<x, f>> \in link'.failed =>
             f \in PostFilled(link'.pc)
    BY <1>1, <1>4, <2>2 DEF PostPages, PostView
  <2>6. QED
    BY <2>2, <2>4, <2>5 DEF PostPages, PostView, PostFilled
<1>5. QED
  BY <1>3, <1>4

LEMMA PostWritten ==
  ASSUME PostsInv, NEW r \in Requests, NEW p \in ResetTokens, NEW row \in PostRow,
    NEW want \in Contents,
         rows' = [rows EXCEPT ![p] = row], active' = [active EXCEPT ![p] = want],
         proc' = [proc EXCEPT ![r] = PC!Idle], PC!Changed(p),
         row.state # "none", row.state = "live" => row.parts = want,
         \A q \in Requests \ {r} :
           proc[q].thing = p => ~CreatesPost(proc[q]) /\ ~HoldsRow(proc[q])
  PROVE  PostsInv'
<1>1. /\ rows \in [ResetTokens -> PostRow] /\ active \in [ResetTokens -> Contents]
      /\ \A x \in ResetTokens : /\ rows[x].state = "none" => rows[x].parts = PC!Nothing
                                /\ PC!Live(x) => rows[x].parts = active[x]
  BY DEF PostsInv, PostRows
<1>2. /\ proc \in [Requests -> PostRecord]
      /\ \A q \in Requests : PostFits(proc[q])
      /\ \A q, s \in Requests : q # s => ~PostClash(proc[q], proc[s])
  BY DEF PostsInv, PostRequests
<1>3. /\ rows'[p] = row /\ active'[p] = want
      /\ \A x \in ResetTokens : x # p => rows'[x] = rows[x] /\ active'[x] = active[x]
      /\ rows' \in [ResetTokens -> PostRow] /\ active' \in [ResetTokens -> Contents]
  BY <1>1
<1>4. PostRows'
  BY <1>1, <1>3 DEF PostRows, PC!Live
<1>5. /\ proc'[r] = PC!Idle /\ \A q \in Requests : q # r => proc'[q] = proc[q]
      /\ proc' \in [Requests -> PostRecord] /\ PC!Idle.pc = "idle" /\ ~PC!Idle.update
  BY <1>2, PostIdle
<1>6. \A q \in Requests : PostFits(proc[q])'
  <2> TAKE q \in Requests
  <2>1. CASE q = r
    BY <1>5, <2>1 DEF PostFits, CreatesPost, UpdatesPost
  <2>2. CASE q # r /\ proc[q].thing # p
    <3>1. proc'[q] = proc[q] /\ PostFits(proc[q])
      BY <1>2, <1>5, <2>2
    <3>2. proc[q].thing \in ResetTokens => rows'[proc[q].thing] = rows[proc[q].thing]
      BY <1>3, <2>2
    <3>3. QED
      BY <3>1, <3>2 DEF PostFits, CreatesPost, UpdatesPost, PC!Live
  <2>3. CASE q # r /\ proc[q].thing = p
    <3>1. proc'[q] = proc[q] /\ PostFits(proc[q]) /\ ~CreatesPost(proc[q])
            /\ ~HoldsRow(proc[q])
      BY <1>2, <1>5, <2>3
    <3>2. rows'[proc[q].thing].state # "none"
      BY <1>3, <2>3
    <3>3. QED
      BY <3>1, <3>2 DEF PostFits, CreatesPost, UpdatesPost, HoldsRow
  <2>4. QED
    BY <2>1, <2>2, <2>3
<1>7. \A q, s \in Requests : q # s => ~PostClash(proc'[q], proc'[s])
  BY <1>2, <1>5 DEF PostClash
<1>8. (\A q, s \in Requests : q # s => ~PostClash(proc[q], proc[s]))'
  BY <1>7 DEF PostClash, CreatesPost, HoldsRow
<1>9. PostRequests'
  BY <1>5, <1>6, <1>8 DEF PostRequests
<1>10. PostPages'
  BY PostPagesLast
<1>11. QED
  BY <1>4, <1>9, <1>10 DEF PostsInv

LEMMA CommitPostKeeps ==
  ASSUME PostsInv, NEW r \in Requests, PC!CommitPost(r)
  PROVE  PostsInv'
<1> DEFINE p == proc[r].thing
<1>1. proc[r] \in PostRecord /\ PostFits(proc[r]) /\ \A q \in Requests : r # q =>
        ~PostClash(proc[r], proc[q])
  BY DEF PostsInv, PostRequests
<1>2. proc[r].pc = "mentions" /\ proc[r].done.mentions = proc[r].want.mentions
        /\ p \in ResetTokens
      /\ proc[r].done.tags = proc[r].want.tags
  BY <1>1 DEF PC!CommitPost, PC!At, PC!Done, PostFits, CreatesPost, UpdatesPost
<1>3. rows \in [ResetTokens -> PostRow] /\ active \in [ResetTokens -> Contents]
      /\ (rows[p].state = "none" => rows[p].parts = PC!Nothing)
      /\ (PC!Live(p) => rows[p].parts = active[p])
  <2>1. \A x \in ResetTokens : /\ rows[x].state = "none" => rows[x].parts = PC!Nothing
                               /\ PC!Live(x) => rows[x].parts = active[x]
    BY DEF PostsInv, PostRows
  <2>2. rows \in [ResetTokens -> PostRow] /\ active \in [ResetTokens -> Contents]
    BY DEF PostsInv, PostRows
  <2>3. QED
    BY <1>2, <2>1, <2>2
<1>4. rows[p].parts \in Contents /\ proc[r].want \in Contents
        /\ proc[r].done \in Contents /\ proc[r].cut \in Contents
      /\ active[p] \in Contents
  BY <1>1, <1>2, <1>3 DEF PostRow, PostRecord
<1> DEFINE parts == [f \in DOMAIN rows[p].parts |-> PC!Kept(r, f)]
           want == [proc[r].want EXCEPT !.media = IF proc[r].update THEN active[p].media
                                                  ELSE proc[r].want.media]
           row == [rows[p] EXCEPT !.state = IF proc[r].update THEN rows[p].state ELSE "live",
                                  !.parts = parts]
<1>5. /\ DOMAIN rows[p].parts = Parts
      /\ \A f \in Parts : rows[p].parts[f] \subseteq Attached
           /\ proc[r].done[f] \subseteq Attached
  BY <1>4, ContentsAre
<1>6. \A f \in Parts : parts[f] = (rows[p].parts[f] \ proc[r].cut[f]) \cup proc[r].done[f]
  BY <1>5 DEF PC!Kept
<1>7. parts \in Contents
  <2>1. \A f \in Parts : parts[f] \in SUBSET Attached
    BY <1>5, <1>6
  <2>2. parts = [f \in {"media", "tags", "mentions"} |-> parts[f]]
    BY <1>5 DEF Parts
  <2> HIDE DEF parts
  <2>3. QED
    BY <2>1, <2>2 DEF Contents, Parts
<1>8. want \in Contents /\ want.tags = proc[r].want.tags
        /\ want.mentions = proc[r].want.mentions
      /\ want.media = IF proc[r].update THEN active[p].media ELSE proc[r].want.media
  BY <1>4 DEF Contents
<1>9. parts = want
  <2>1. CASE proc[r].update
    <3>1. /\ PC!Live(p) /\ proc[r].done.media = {} /\ proc[r].cut.media = {}
          /\ proc[r].cut.tags = rows[p].parts.tags
               /\ proc[r].cut.mentions = rows[p].parts.mentions
      BY <1>1, <1>2, <2>1 DEF PostFits, UpdatesPost
    <3>2. rows[p].parts = active[p]
      BY <1>3, <3>1
    <3> HIDE DEF parts, want
    <3>3. parts.media = active[p].media /\ parts.tags = proc[r].done.tags
            /\ parts.mentions = proc[r].done.mentions
      BY <1>6, <3>1, <3>2 DEF Parts
    <3>4. \A f \in Parts : parts[f] = want[f]
      BY <1>2, <1>8, <2>1, <3>3 DEF Parts
    <3>5. QED
      BY <1>7, <1>8, <3>4, ContentsAre
  <2>2. CASE ~proc[r].update
    <3>1. /\ rows[p].state = "none" /\ proc[r].cut = PC!Nothing
               /\ proc[r].done.media = proc[r].want.media
      BY <1>1, <1>2, <2>2 DEF PostFits, CreatesPost
    <3>2. \A f \in Parts : rows[p].parts[f] = {}
      BY <1>3, <3>1, PostNothing
    <3> HIDE DEF parts, want
    <3>3. \A f \in Parts : parts[f] = proc[r].done[f]
      BY <1>6, <3>2
    <3>4. \A f \in Parts : parts[f] = want[f]
      BY <1>2, <1>8, <2>2, <3>1, <3>3 DEF Parts
    <3>5. QED
      BY <1>7, <1>8, <3>4, ContentsAre
  <2>3. QED
    BY <2>1, <2>2
<1>10. /\ rows' = [rows EXCEPT ![p] = row] /\ active' = [active EXCEPT ![p] = want]
       /\ proc' = [proc EXCEPT ![r] = PC!Idle] /\ PC!Changed(p)
  BY <1>1, <1>2, <1>3, <1>4 DEF PC!CommitPost, PostRow
<1> HIDE DEF parts
<1>11. row \in PostRow /\ row.parts = parts
       /\ row.state = IF proc[r].update THEN rows[p].state ELSE "live"
  BY <1>2, <1>3, <1>7 DEF PostRow
<1> HIDE DEF want, row
<1>12. row.state # "none"
  BY <1>1, <1>2, <1>11 DEF PostFits, UpdatesPost, PC!Live
<1>13. \A q \in Requests \ {r} : proc[q].thing = p => ~CreatesPost(proc[q])
         /\ ~HoldsRow(proc[q])
  BY <1>1, <1>2 DEF PostClash, CreatesPost, HoldsRow
<1> HIDE DEF p
<1>14. QED
  BY <1>2, <1>8, <1>9, <1>10, <1>11, <1>12, <1>13, PostWritten

LEMMA SoftDeleteKeeps ==
  ASSUME PostsInv, NEW r \in Requests, PC!SoftDelete(r)
  PROVE  PostsInv'
<1> DEFINE p == proc[r].thing
           row == [rows[p] EXCEPT !.state = "deleted"]
<1>1. proc[r] \in PostRecord /\ PostFits(proc[r]) /\ \A q \in Requests : r # q =>
        ~PostClash(proc[r], proc[q])
  BY DEF PostsInv, PostRequests
<1>2. proc[r].pc = "delete" /\ p \in ResetTokens /\ ~PC!RowHeld(r)
  BY <1>1 DEF PC!SoftDelete, PC!At, PostFits
<1>3. rows \in [ResetTokens -> PostRow] /\ active \in [ResetTokens -> Contents]
  BY DEF PostsInv, PostRows
<1>4. /\ rows' = [rows EXCEPT ![p] = row] /\ active' = [active EXCEPT ![p] = active[p]]
      /\ proc' = [proc EXCEPT ![r] = PC!Idle] /\ PC!Changed(p)
  BY <1>2, <1>3 DEF PC!SoftDelete
<1>5. row \in PostRow /\ row.state = "deleted" /\ active[p] \in Contents
  BY <1>2, <1>3 DEF PostRow
<1> HIDE DEF row
<1>6. \A q \in Requests \ {r} : proc[q].thing = p => ~CreatesPost(proc[q])
        /\ ~HoldsRow(proc[q])
  BY <1>1, <1>2 DEF PostClash, CreatesPost, PC!RowHeld, HoldsRow
<1> HIDE DEF p
<1>7. QED
  BY <1>2, <1>4, <1>5, <1>6, PostWritten

(* The reader opens a page.                                                *)
LEMMA OpenPostsKeeps ==
  ASSUME PostsInv, PC!OpenPosts
  PROVE  PostsInv'
<1> DEFINE page == {p \in ResetTokens : PC!Live(p)}
<1>1. /\ link.pc = "off" /\ UNCHANGED <<rows, active, proc>>
      /\ link' = [link EXCEPT !.pc = "media", !.ids = page, !.page = page,
           !.shown = link.shown]
  BY DEF PC!OpenPosts, PC!Show
<1>2. PostPages
  BY DEF PostsInv
<1>3. page \subseteq ResetTokens
  OBVIOUS
<1> HIDE DEF page
<1>4. /\ link' \in PostView
      /\ link'.pc = "media" /\ link'.page = page /\ link'.ids = page
      /\ link'.shown = link.shown /\ link'.failed = link.failed
           /\ link'.changed = link.changed
  BY <1>1, <1>2, <1>3 DEF PostPages, PostView
<1>5. PostFilled("media") = {} /\ PostFilled("off") = {}
  BY DEF PostFilled
<1>6. \A x \in ResetTokens, f \in Parts : <<x, f>> \notin link.failed
  BY <1>1, <1>2, <1>5 DEF PostPages, PostView
<1>7. \A x \in page \ link.changed, f \in Parts : link.shown[x].parts[f] = {}
  BY <1>1, <1>2, <1>3, <1>5 DEF PostPages, PostView
<1>8. PostPages'
  <2>1. \A x \in ResetTokens \ link'.ids, f \in Parts : link'.shown[x].parts[f] = {}
    <3>1. \A x \in ResetTokens, f \in Parts : link.shown[x].parts[f] = {}
      BY <1>1, <1>2, <1>5 DEF PostPages, PostView
    <3>2. QED
      BY <1>4, <3>1
  <2>2. \A x \in ResetTokens, f \in Parts : <<x, f>> \in link'.failed =>
          f \in PostFilled(link'.pc)
    BY <1>4, <1>6
  <2>3. \A x \in link'.ids \ link'.changed, f \in Parts :
       link'.shown[x].parts[f]
         = IF f \in PostFilled(link'.pc) /\ <<x, f>> \notin link'.failed
           THEN rows'[x].parts[f] ELSE {}
    BY <1>4, <1>5, <1>7
  <2>4. QED
    BY <1>4, <2>1, <2>2, <2>3 DEF PostPages, PostView, PostFilled
<1>9. PostRows' /\ PostRequests'
  BY <1>1 DEF PostsInv, PostRows, PostRequests, PC!Live, PostFits, PostClash, CreatesPost,
     UpdatesPost, HoldsRow
<1>10. QED
  BY <1>8, <1>9 DEF PostsInv

(* A statement fills a field of the page, or fails.                        *)
LEMMA FillPosts ==
  ASSUME PostsInv, NEW pc \in {"media", "tags", "mentions"},
         NEW next \in {"tags", "mentions", "done"}, NEW field \in Parts,
         NEW found, found = [x \in PC!Things |-> rows[x].parts[field]],
         PostFilled(next) = PostFilled(pc) \cup {field}, field \notin PostFilled(pc),
         PC!Fill(pc, next, field, found)
  PROVE  PostsInv'
<1>1. PostPages /\ link.pc = pc /\ UNCHANGED <<rows, active, proc>>
        /\ rows \in [ResetTokens -> PostRow]
  BY DEF PC!Fill, PC!Show, PC!Miss, PostsInv, PostRows
<1>2. PostRows' /\ PostRequests'
  BY <1>1 DEF PostsInv, PostRows, PostRequests, PC!Live, PostFits, PostClash, CreatesPost,
     UpdatesPost, HoldsRow
<1>3. /\ link.shown \in [ResetTokens -> PostShelf]
      /\ link.ids \subseteq ResetTokens /\ link.page = link.ids
  BY <1>1 DEF PostPages, PostView
<1> DEFINE parts == [x \in PC!Things |-> [link.shown[x].parts EXCEPT ![field] = found[x]]]
           shown == PC!With("parts", parts)
<1>4. CASE PC!Show(next, link.ids, link.page, shown)
  <2>1. \A x \in ResetTokens : found[x] = rows[x].parts[field] /\ found[x] \in SUBSET Attached
    BY <1>1, ThingsPosts, ContentsAre DEF PostRow
  <2>2. \A x \in ResetTokens : /\ parts[x] \in Contents
          /\ parts[x][field] = rows[x].parts[field]
                               /\ \A f \in Parts : f # field =>
                                    parts[x][f] = link.shown[x].parts[f]
    <3> TAKE x \in ResetTokens
    <3> DEFINE k == link.shown[x].parts
    <3>1. k \in Contents /\ parts[x] = [k EXCEPT ![field] = found[x]]
      BY <1>3, ThingsPosts DEF PostShelf
    <3>2. found[x] = rows[x].parts[field] /\ found[x] \in SUBSET Attached
      BY <2>1
    <3> DEFINE new == rows[x].parts[field]
    <3> HIDE DEF k, parts, new
    <3>3. new \in SUBSET Attached /\ parts[x] = [k EXCEPT ![field] = new]
      BY <3>1, <3>2 DEF new
    <3>4. /\ parts[x] \in Contents /\ parts[x][field] = new
          /\ \A f \in Parts : f # field => parts[x][f] = k[f]
      BY <3>1, <3>3 DEF Contents, Parts
    <3>5. QED
      BY <3>4 DEF k, new
  <2> HIDE DEF parts
  <2>3. /\ shown \in [ResetTokens -> PostShelf]
        /\ \A x \in link.ids : shown[x].parts = parts[x]
        /\ \A x \in ResetTokens \ link.ids : shown[x] = link.shown[x]
    <3>1. \A x \in ResetTokens : shown[x] = IF x \in link.ids
                                            THEN [link.shown[x] EXCEPT !.parts = parts[x]]
                                            ELSE link.shown[x]
      BY ThingsPosts DEF PC!With
    <3>2. \A x \in ResetTokens : /\ [link.shown[x] EXCEPT !.parts = parts[x]] \in PostShelf
                                 /\ [link.shown[x] EXCEPT !.parts = parts[x]].parts = parts[x]
      BY <1>3, <2>2 DEF PostShelf
    <3>3. shown = [x \in ResetTokens |-> shown[x]]
      BY ThingsPosts DEF PC!With
    <3> HIDE DEF shown
    <3>4. \A x \in ResetTokens : shown[x] \in PostShelf
      BY <1>3, <3>1, <3>2
    <3>5. shown \in [ResetTokens -> PostShelf]
      BY <3>3, <3>4
    <3>6. ASSUME NEW x \in link.ids PROVE shown[x].parts = parts[x]
      <4>1. x \in ResetTokens
        BY <1>3
      <4>2. shown[x] = [link.shown[x] EXCEPT !.parts = parts[x]]
        BY <3>1, <4>1
      <4>3. [link.shown[x] EXCEPT !.parts = parts[x]].parts = parts[x]
        BY <3>2, <4>1
      <4>4. QED
        BY <4>2, <4>3
    <3>7. \A x \in ResetTokens \ link.ids : shown[x] = link.shown[x]
      BY <3>1
    <3>8. QED
      BY <3>5, <3>6, <3>7
  <2> HIDE DEF shown
  <2>4. link' = [link EXCEPT !.pc = next, !.ids = link.ids, !.page = link.page,
          !.shown = shown]
    BY <1>4 DEF PC!Show
  <2>5. /\ link' \in PostView
        /\ link'.pc = next /\ link'.page = link.page /\ link'.ids = link.ids
        /\ link'.shown = shown /\ link'.failed = link.failed /\ link'.changed = link.changed
    BY <1>1, <2>3, <2>4 DEF PostPages, PostView
  <2>6. \A x \in link'.ids \ link'.changed, f \in Parts :
       link'.shown[x].parts[f]
         = IF f \in PostFilled(link'.pc) /\ <<x, f>> \notin link'.failed
           THEN rows'[x].parts[f] ELSE {}
    <3> SUFFICES ASSUME NEW x \in link.ids \ link.changed, NEW f \in Parts
                 PROVE  shown[x].parts[f]
                          = IF f \in PostFilled(next) /\ <<x, f>> \notin link.failed
                            THEN rows[x].parts[f] ELSE {}
      BY <1>1, <2>5
    <3>1. x \in ResetTokens /\ shown[x].parts = parts[x]
      BY <1>3, <2>3
    <3>2. CASE f = field
      <4>1. <<x, f>> \notin link.failed
        BY <1>1, <3>1, <3>2 DEF PostPages, PostView
      <4>2. QED
        BY <2>2, <3>1, <3>2, <4>1
    <3>3. CASE f # field
      <4>1. link.shown[x].parts[f]
              = IF f \in PostFilled(pc) /\ <<x, f>> \notin link.failed
                THEN rows[x].parts[f] ELSE {}
        BY <1>1 DEF PostPages, PostView
      <4>2. QED
        BY <2>2, <3>1, <3>3, <4>1
    <3>4. QED
      BY <3>2, <3>3
  <2>7. \A x \in ResetTokens \ link'.ids, f \in Parts : link'.shown[x].parts[f] = {}
    BY <1>1, <2>3, <2>5 DEF PostPages, PostView
  <2>8. \A x \in ResetTokens, f \in Parts : <<x, f>> \in link'.failed =>
          f \in PostFilled(link'.pc)
    BY <1>1, <2>5 DEF PostPages, PostView
  <2>9. PostPages'
    BY <1>3, <2>5, <2>6, <2>7, <2>8 DEF PostPages, PostView, PostFilled
  <2>10. QED
    BY <1>2, <2>9 DEF PostsInv
<1>5. CASE PC!Miss(next, link.ids, field)
  <2> DEFINE failed == link.failed \cup {<<x, field>> : x \in link.ids}
  <2>1. link' = [link EXCEPT !.pc = next, !.ids = link.ids, !.faults = link.faults + 1,
          !.failed = failed]
    BY <1>5 DEF PC!Miss
  <2>2. failed \subseteq ResetTokens \X Parts
    BY <1>1, <1>3 DEF PostPages, PostView
  <2>3. \A x \in ResetTokens, f \in Parts :
          <<x, f>> \in failed <=> <<x, f>> \in link.failed \/ (x \in link.ids /\ f = field)
    OBVIOUS
  <2> HIDE DEF failed
  <2>4. /\ link' \in PostView
        /\ link'.pc = next /\ link'.page = link.page /\ link'.ids = link.ids
        /\ link'.shown = link.shown /\ link'.failed = failed /\ link'.changed = link.changed
    <3>1. link \in PostView
      BY <1>1 DEF PostPages, PostView
    <3>2. link.faults + 1 \in Nat /\ failed \in SUBSET (ResetTokens \X Parts)
      BY <2>2, <3>1 DEF PostView
    <3>3. QED
      BY <2>1, <3>1, <3>2 DEF PostView
  <2>5. \A x \in link'.ids \ link'.changed, f \in Parts :
       link'.shown[x].parts[f]
         = IF f \in PostFilled(link'.pc) /\ <<x, f>> \notin link'.failed
           THEN rows'[x].parts[f] ELSE {}
    <3> SUFFICES ASSUME NEW x \in link.ids \ link.changed, NEW f \in Parts
                 PROVE  link.shown[x].parts[f]
                          = IF f \in PostFilled(next) /\ <<x, f>> \notin failed
                            THEN rows[x].parts[f] ELSE {}
      BY <1>1, <2>4
    <3>1. x \in ResetTokens
      BY <1>3
    <3>2. link.shown[x].parts[f]
            = IF f \in PostFilled(pc) /\ <<x, f>> \notin link.failed
              THEN rows[x].parts[f] ELSE {}
      BY <1>1 DEF PostPages, PostView
    <3>3. QED
      BY <2>3, <3>1, <3>2
  <2>6. \A x \in ResetTokens \ link'.ids, f \in Parts : link'.shown[x].parts[f] = {}
    BY <1>1, <2>4 DEF PostPages, PostView
  <2>7. \A x \in ResetTokens, f \in Parts : <<x, f>> \in link'.failed =>
          f \in PostFilled(link'.pc)
    BY <1>1, <2>3, <2>4 DEF PostPages, PostView
  <2>8. PostPages'
    BY <1>3, <2>4, <2>5, <2>6, <2>7 DEF PostPages, PostView, PostFilled
  <2>9. QED
    BY <1>2, <2>8 DEF PostsInv
<1>6. QED
  BY <1>4, <1>5 DEF PC!Fill

(* There are no comments here.                                             *)
LEMMA NoComments ==
  ASSUME PostsInv
  PROVE  /\ \A r \in Requests :
              /\ ~PC!CreateComment(r) /\ ~PC!AddCommentMedia(r) /\ ~PC!CommitComment(r)
              /\ ~PC!InsertCommentMention(r) /\ ~PC!CommentDone(r) /\ ~PC!DeleteComment(r)
         /\ ~PC!OpenComments /\ ~PC!EnrichMedia /\ ~PC!EnrichCommentMentions
         /\ ~PC!GetRepliesPreview /\ ~PC!GetReplyCounts
<1>1. \A r \in Requests : proc[r].pc \notin {"attach", "told"}
  BY DEF PostsInv, PostRequests, PostRecord, PostPcs
<1>2. link.pc \notin {"enrich", "enrichMentions", "previews", "counts"}
  BY DEF PostsInv, PostPages, PostView
<1>3. \A r \in Requests : ~PC!CreateComment(r) /\ ~PC!DeleteComment(r)
  BY DEF PC!CreateComment, PC!DeleteComment
<1>4. \A r \in Requests : ~PC!AddCommentMedia(r) /\ ~PC!CommitComment(r)
  BY <1>1 DEF PC!AddCommentMedia, PC!CommitComment, PC!At
<1>5. \A r \in Requests : ~PC!InsertCommentMention(r) /\ ~PC!CommentDone(r)
  BY <1>1 DEF PC!InsertCommentMention, PC!CommentDone, PC!At
<1>6. ~PC!OpenComments
  BY DEF PC!OpenComments
<1>7. ~PC!EnrichMedia /\ ~PC!EnrichCommentMentions
  BY <1>2 DEF PC!EnrichMedia, PC!EnrichCommentMentions, PC!Fill
<1>8. ~PC!GetRepliesPreview /\ ~PC!GetReplyCounts
  BY <1>2 DEF PC!GetRepliesPreview, PC!GetReplyCounts
<1>9. QED
  BY <1>3, <1>4, <1>5, <1>6, <1>7, <1>8

LEMMA PostsStep ==
  ASSUME PostsInv, PC!Next \/ UNCHANGED <<rows, active, proc, link>>
  PROVE  PostsInv'
<1>1. CASE \E r \in Requests : PC!UpdateRow(r) \/ PC!MediaAdded(r) \/ PC!LinkPostHashtags(r)
  BY <1>1, UpdateRowKeeps, MediaAddedKeeps, LinkKeeps
<1>2. CASE \E r \in Requests : PC!CreatePost(r) \/ PC!UpdatePost(r) \/ PC!DeletePost(r)
  BY <1>2, AcceptPosts
<1>3. CASE \E r \in Requests : PC!DeletePostHashtags(r) \/ PC!DeleteMentionsByPost(r)
  BY <1>3, CutKeeps
<1>4. CASE \E r \in Requests : PC!AddPostMedia(r) \/ PC!UpsertHashtag(r)
             \/ PC!InsertMention(r)
  BY <1>4, AddKeeps
<1>5. CASE \E r \in Requests : PC!CommitPost(r) \/ PC!SoftDelete(r) \/ PC!Fail(r)
  BY <1>5, CommitPostKeeps, SoftDeleteKeeps, FailPosts
<1>6. CASE PC!OpenPosts
  BY <1>6, OpenPostsKeeps
<1>7. CASE PC!GetMedia \/ PC!GetTags \/ PC!GetMentions
  <2>1. /\ PostFilled("media") = {} /\ PostFilled("tags") = {"media"}
        /\ PostFilled("mentions") = {"media", "tags"}
        /\ PostFilled("done") = {"media", "tags", "mentions"}
    BY DEF PostFilled
  <2>2. CASE PC!GetMedia
    <3>1. PC!Fill("media", "tags", "media", PC!MediaOf)
            /\ PC!MediaOf = [x \in PC!Things |-> rows[x].parts["media"]]
      BY <2>2 DEF PC!GetMedia, PC!MediaOf
    <3>2. "media" \in Parts
      BY DEF Parts
    <3> HIDE DEF PC!MediaOf
    <3>3. QED
      BY <2>1, <3>1, <3>2, FillPosts
  <2>3. CASE PC!GetTags
    <3>1. PC!Fill("tags", "mentions", "tags", PC!TagsOf)
            /\ PC!TagsOf = [x \in PC!Things |-> rows[x].parts["tags"]]
      BY <2>3 DEF PC!GetTags, PC!TagsOf
    <3>2. "tags" \in Parts
      BY DEF Parts
    <3>3. QED
      BY <2>1, <3>1, <3>2, FillPosts
  <2>4. CASE PC!GetMentions
    <3>1. PC!Fill("mentions", "done", "mentions", PC!MentionsOf)
          /\ PC!MentionsOf = [x \in PC!Things |-> rows[x].parts["mentions"]]
      BY <2>4 DEF PC!GetMentions, PC!MentionsOf
    <3>2. "mentions" \in Parts
      BY DEF Parts
    <3>3. QED
      BY <2>1, <3>1, <3>2, FillPosts
  <2>5. QED
    BY <1>7, <2>2, <2>3, <2>4
<1>8. CASE UNCHANGED <<rows, active, proc, link>>
  BY <1>8 DEF PostsInv, PostRows, PostRequests, PostPages, PC!Live, PostFits, PostClash,
     CreatesPost,
              UpdatesPost, HoldsRow
<1>9. QED
  BY <1>1, <1>2, <1>3, <1>4, <1>5, <1>6, <1>7, <1>8, NoComments DEF PC!Next

LEMMA PostsWhole == PostsInv => PC!ContentsWhole
<1> SUFFICES ASSUME PostsInv PROVE PC!ContentsWhole
  OBVIOUS
<1>1. PostRows /\ PostRequests /\ PostPages
  BY DEF PostsInv
<1>2. \A x \in PC!Things : PC!Live(x) => rows[x].parts = active[x]
  BY <1>1, ThingsPosts DEF PostRows, PC!Live
<1>3. ASSUME link.pc = "done", NEW x \in PC!Shown \ link.changed
      PROVE  /\ link.shown[x].parts = [f \in DOMAIN PC!Nothing |-> PC!Unless(f, x,
                  rows[x].parts[f], {})]
             /\ x \notin {}
  <2>1. \A y \in ResetTokens : link.shown[y] \in PostShelf
    BY <1>1 DEF PostPages, PostView
  <2>2. link.page \subseteq ResetTokens /\ link.page = link.ids
    BY <1>1 DEF PostPages, PostView
  <2>3. \A y \in link.page : link.shown[y].replies = {}
    BY <2>1, <2>2 DEF PostShelf
  <2>4. x \in link.ids /\ x \in ResetTokens
    BY <1>3, <2>2, <2>3 DEF PC!Shown
  <2>5. PostFilled(link.pc) = Parts
    BY <1>3 DEF PostFilled, Parts
  <2>6. \A f \in Parts : link.shown[x].parts[f] = PC!Unless(f, x, rows[x].parts[f], {})
    BY <1>1, <1>3, <2>4, <2>5 DEF PostPages, PostView, PC!Unless
  <2>7. link.shown[x].parts \in Contents
    BY <2>1, <2>4 DEF PostShelf
  <2>8. link.shown[x].parts = [f \in Parts |-> link.shown[x].parts[f]]
    BY <2>7, ContentsAre
  <2>9. link.shown[x].parts = [f \in DOMAIN PC!Nothing |-> PC!Unless(f, x, rows[x].parts[f],
          {})]
    BY <2>6, <2>8, PostNothing
  <2>10. QED
    BY <2>9
<1>4. QED
  BY <1>2, <1>3 DEF PC!ContentsWhole

-----------------------------------------------------------------------------
(* What hangs on comments.                                                 *)
LEMMA CommentNothing ==
  CC!Nothing \in Contents /\ DOMAIN CC!Nothing = Parts /\ \A f \in Parts : CC!Nothing[f] = {}
BY DEF CC!Nothing, Contents, Parts

LEMMA ThingsComments ==
  /\ CC!Things = Comments
  /\ CC!NoRow.state = "none" /\ CC!NoRow.parent = NoId /\ CC!NoRow.parts = CC!Nothing
BY ContentsAssumption DEF CC!Things, CC!NoRow

-----------------------------------------------------------------------------
CommentRecord == [pc : {"idle", "attach", "told", "delete"}, update : {FALSE},
                  thing : Comments \cup {NoId}, parent : Comments \cup {NoId},
                  want : Contents, done : Contents, cut : Contents]
CommentRow == [state : {"none", "live", "deleted"}, parent : Comments \cup {NoId},
  parts : Contents]

\* What a request knows of its comment, by where it is.
CommentFits(x, row, want) ==
  /\ x.pc = "delete" => row.state # "none"
  /\ x.pc = "attach" =>
       row.state = "none" /\ x.want.tags = {} /\ x.done.mentions = {}
  /\ x.pc = "told" =>
       /\ row.state # "none"
       /\ row.parts.media = x.want.media /\ want.media = x.want.media /\ want.tags = {}
       /\ row.parts.mentions \subseteq x.done.mentions
       /\ want.mentions = row.parts.mentions \cup (x.want.mentions \ x.done.mentions)

\* A comment has one author.
SameAuthor(x, y) ==
  x.pc \in {"attach", "told"} /\ y.pc \in {"attach", "told"} /\ x.thing = y.thing

CommentRows ==
  /\ rows \in [Comments -> CommentRow] /\ active \in [Comments -> Contents]
  /\ \A x \in Comments : /\ rows[x].parts.tags = {}
                         /\ rows[x].state = "none" => rows[x] = CC!NoRow
                         /\ CC!Live(x) /\ ~CC!Telling(x) => rows[x].parts = active[x]
CommentRequests ==
  /\ proc \in [Commenters -> CommentRecord]
  /\ \A r \in Commenters : proc[r].pc # "idle" =>
       proc[r].thing \in Comments
         /\ CommentFits(proc[r], rows[proc[r].thing], active[proc[r].thing])
  /\ \A r, q \in Commenters : r # q => ~SameAuthor(proc[r], proc[q])

LEMMA CommentIdle ==
  /\ CC!Idle \in CommentRecord /\ CC!Idle.pc = "idle"
  /\ CC!Idle.want = CC!Nothing /\ CC!Idle.done = CC!Nothing
BY CommentNothing DEF CC!Idle, CommentRecord

\* Request r goes on as x, and row and want are those of comment c from then on.
CommentWritten(r, x, c, row, want) ==
  /\ proc' = [proc EXCEPT ![r] = x]
  /\ rows' = [rows EXCEPT ![c] = row] /\ active' = [active EXCEPT ![c] = want]
  /\ x.pc # "idle" => x.thing = c /\ CommentFits(x, row, want)
  /\ row.parts.tags = {}
  /\ row.state = "none" => row = CC!NoRow
  /\ row.state = "live" =>
       \/ row.parts = want
       \/ x.pc = "told"
       \/ \E q \in Commenters \ {r} : proc[q].pc = "told" /\ proc[q].thing = c
  /\ proc[r].pc = "told" => proc[r].thing = c
  /\ \A q \in Commenters \ {r} :
       /\ ~SameAuthor(x, proc[q])
       /\ proc[q].pc # "idle" /\ proc[q].thing = c => CommentFits(proc[q], row, want)

(* One request moves, and writes its comment or what was asked for it.     *)
LEMMA CommentMoves ==
  ASSUME CommentRows, CommentRequests, NEW r \in Commenters, NEW x \in CommentRecord,
         NEW c \in Comments, NEW row \in CommentRow, NEW want \in Contents,
         CommentWritten(r, x, c, row, want)
  PROVE  CommentRows' /\ CommentRequests'
<1>1. /\ rows \in [Comments -> CommentRow] /\ active \in [Comments -> Contents]
      /\ \A y \in Comments : /\ rows[y].parts.tags = {}
                             /\ rows[y].state = "none" => rows[y] = CC!NoRow
                             /\ CC!Live(y) /\ ~CC!Telling(y) => rows[y].parts = active[y]
  BY DEF CommentRows
<1>2. /\ proc \in [Commenters -> CommentRecord]
      /\ \A q \in Commenters : proc[q].pc # "idle" =>
           proc[q].thing \in Comments
             /\ CommentFits(proc[q], rows[proc[q].thing], active[proc[q].thing])
      /\ \A p, q \in Commenters : p # q => ~SameAuthor(proc[p], proc[q])
  BY DEF CommentRequests
<1>3. /\ rows' \in [Comments -> CommentRow] /\ active' \in [Comments -> Contents]
      /\ rows'[c] = row /\ active'[c] = want
      /\ \A y \in Comments : y # c => rows'[y] = rows[y] /\ active'[y] = active[y]
  BY <1>1 DEF CommentWritten
<1>4. /\ proc' \in [Commenters -> CommentRecord] /\ proc'[r] = x
      /\ \A q \in Commenters : q # r => proc'[q] = proc[q]
  BY <1>2 DEF CommentWritten
<1>5. ASSUME NEW y \in Comments, CC!Live(y)', ~CC!Telling(y)'
      PROVE  rows'[y].parts = active'[y]
  <2>1. rows'[y].state = "live" /\ \A q \in Commenters : ~(proc'[q].pc = "told"
          /\ proc'[q].thing = y)
    BY <1>5 DEF CC!Live, CC!Telling, CC!At
  <2>2. CASE y = c
    <3>1. x.pc = "told" => x.thing = c
      BY DEF CommentWritten
    <3>2. x.pc # "told" /\ \A q \in Commenters \ {r} : ~(proc[q].pc = "told"
            /\ proc[q].thing = c)
      BY <1>4, <2>1, <2>2, <3>1 DEF CommentWritten
    <3>3. QED
      BY <1>3, <2>1, <2>2, <3>2 DEF CommentWritten
  <2>3. CASE y # c
    <3>1. \A q \in Commenters : ~(proc[q].pc = "told" /\ proc[q].thing = y)
      BY <1>4, <2>1, <2>3 DEF CommentWritten
    <3>2. CC!Live(y) /\ ~CC!Telling(y)
      BY <1>3, <2>1, <2>3, <3>1 DEF CC!Live, CC!Telling, CC!At
    <3>3. QED
      BY <1>1, <1>3, <2>3, <3>2
  <2>4. QED
    BY <2>2, <2>3
<1>6. \A y \in Comments : /\ rows'[y].parts.tags = {}
                          /\ rows'[y].state = "none" => rows'[y] = CC!NoRow
  BY <1>1, <1>3 DEF CommentWritten
<1>7. CommentRows'
  BY <1>3, <1>5, <1>6 DEF CommentRows
<1>8. \A q \in Commenters : proc'[q].pc # "idle" =>
        proc'[q].thing \in Comments
          /\ CommentFits(proc'[q], rows'[proc'[q].thing], active'[proc'[q].thing])
  <2> SUFFICES ASSUME NEW q \in Commenters, proc'[q].pc # "idle"
               PROVE  proc'[q].thing \in Comments
                      /\ CommentFits(proc'[q], rows'[proc'[q].thing], active'[proc'[q].thing])
    OBVIOUS
  <2>1. CASE q = r
    BY <1>3, <1>4, <2>1 DEF CommentWritten
  <2>2. CASE q # r
    BY <1>2, <1>3, <1>4, <2>2 DEF CommentWritten
  <2>3. QED
    BY <2>1, <2>2
<1>9. \A p, q \in Commenters : p # q => ~SameAuthor(proc'[p], proc'[q])
  BY <1>2, <1>4 DEF SameAuthor, CommentWritten
<1>10. CommentRequests'
  BY <1>4, <1>8, <1>9 DEF CommentRequests, CommentFits, SameAuthor
<1>11. QED
  BY <1>7, <1>10

-----------------------------------------------------------------------------
(* Pages of comments.                                                      *)
Looks == {"media", "mentions", "replies", "count"}
Counts == {0} \cup {CC!Cardinality(S) : S \in SUBSET Comments}
Shelf == [parts : Contents, replies : SUBSET Comments, count : Counts]
PageState == [pc : {"off", "enrich", "enrichMentions", "previews", "counts", "done"},
              page : SUBSET Comments, ids : SUBSET Comments, shown : [Comments -> Shelf],
              failed : SUBSET (Comments \X Looks), faults : Nat,
              changed : SUBSET (Comments \cup {NoId})]

\* The previews that are shown.
Reps(v) == UNION {v.shown[x].replies : x \in v.page}

FilledPage(v) ==
  IF v.ids # v.page THEN {"media", "mentions", "replies"}
  ELSE CASE v.pc = "enrichMentions" -> {"media"}
         [] v.pc = "previews" -> {"media", "mentions"}
         [] v.pc = "counts" -> {"media", "mentions", "replies"}
         [] v.pc = "done" -> {"media", "mentions", "replies", "count"}
         [] OTHER -> {}
FilledReps(v) ==
  IF v.ids = v.page THEN {"media", "mentions", "count"}
  ELSE CASE v.pc = "enrichMentions" -> {"media"}
         [] v.pc = "counts" -> {"media", "mentions"}
         [] OTHER -> {}
\* What has been looked up for a comment.
FilledFor(v, x) ==
  IF x \in v.page
  THEN {f \in FilledPage(v) : f = "replies" => rows[x].parent = NoId}
  ELSE IF x \in Reps(v) THEN FilledReps(v) ELSE {}

Layout(v) ==
  /\ v.ids = v.page \/ v.ids = Reps(v)
  /\ v.ids # v.page => Reps(v) # {} /\ v.pc \in {"enrich", "enrichMentions", "counts"}
  /\ v.pc = "off" => v.page = {}
  /\ v.ids = v.page /\ v.pc \in {"off", "enrich", "enrichMentions", "previews"} =>
       Reps(v) = {}
Parents(v) ==
  /\ \A x \in v.page \cup Reps(v) : rows[x].state # "none"
  /\ \A x \in Reps(v) : rows[x].parent # NoId
  /\ \A x, y \in v.page : rows[x].parent = rows[y].parent
  /\ Reps(v) # {} \/ v.pc = "previews" => \A x \in v.page : rows[x].parent = NoId

ValueOf(x, f) ==
  CASE f = "media" -> rows[x].parts.media
    [] f = "mentions" -> rows[x].parts.mentions
    [] f = "replies" -> CC!Preview(x)
    [] f = "count" -> CC!Cardinality(CC!RepliesOf(x))
Got(v, x, f) ==
  CASE f = "media" -> v.shown[x].parts.media
    [] f = "mentions" -> v.shown[x].parts.mentions
    [] f = "replies" -> v.shown[x].replies
    [] f = "count" -> v.shown[x].count
NoValue(f) == IF f = "count" THEN 0 ELSE {}

Shows(v) ==
  /\ \A x \in Comments : v.shown[x].parts.tags = {}
  /\ \A x \in Comments \ (v.page \cup Reps(v)) : v.shown[x] = CC!Blank
  /\ \A x \in Comments, f \in Looks : <<x, f>> \in v.failed => f \in FilledFor(v, x)
  /\ \A x \in (v.page \cup Reps(v)) \ v.changed, f \in Looks :
       Got(v, x, f)
         = IF f \in FilledFor(v, x) /\ <<x, f>> \notin v.failed
           THEN ValueOf(x, f) ELSE NoValue(f)
CommentPages == link \in PageState /\ Layout(link) /\ Parents(link) /\ Shows(link)
CommentsInv == CommentRows /\ CommentRequests /\ CommentPages

LEMMA BlankIs ==
  /\ CC!Blank \in Shelf /\ CC!Blank.parts.tags = {} /\ CC!Blank.replies = {}
  /\ \A v, x : v.shown[x] = CC!Blank => \A f \in Looks : Got(v, x, f) = NoValue(f)
<1>1. CC!Blank \in Shelf /\ CC!Blank.parts = CC!Nothing /\ CC!Blank.replies = {}
        /\ CC!Blank.count = 0
  BY CommentNothing DEF CC!Blank, Shelf, Counts
<1>2. CC!Nothing.tags = {} /\ CC!Nothing.media = {} /\ CC!Nothing.mentions = {}
  BY DEF CC!Nothing
<1>3. QED
  BY <1>1, <1>2 DEF Got, NoValue, Looks

LEMMA InitComments == CC!Init => CommentsInv
<1> SUFFICES ASSUME CC!Init PROVE CommentsInv
  OBVIOUS
<1>1. CC!NoRow \in CommentRow /\ CC!NoRow.parts.tags = {}
  BY CommentNothing DEF CC!NoRow, CommentRow, CC!Nothing
<1>2. CommentRows
  BY <1>1, ThingsComments, CommentNothing DEF CC!Init, CommentRows, CC!Live
<1>3. CommentRequests
  BY CommentIdle DEF CC!Init, CommentRequests, SameAuthor
<1>4. /\ link.pc = "off" /\ link.page = {} /\ link.ids = {} /\ link.failed = {}
      /\ link.shown = [x \in Comments |-> CC!Blank]
  BY ThingsComments DEF CC!Init, CC!NoView
<1>5. link \in PageState
  <2>1. [x \in Comments |-> CC!Blank] \in [Comments -> Shelf]
    BY BlankIs
  <2>2. QED
    BY <2>1, ThingsComments DEF CC!Init, CC!NoView, PageState
<1>6. Reps(link) = {}
  BY <1>4 DEF Reps
<1>7. Layout(link) /\ Parents(link)
  BY <1>4, <1>6 DEF Layout, Parents
<1>8. Shows(link)
  BY <1>4, <1>6, BlankIs DEF Shows
<1>9. QED
  BY <1>2, <1>3, <1>5, <1>7, <1>8 DEF CommentsInv, CommentPages

(* A comment is written: what does not count as changed is as it was.      *)
LEMMA CommentPagesLast ==
  ASSUME CommentsInv, NEW c \in Comments, NEW row \in CommentRow,
         rows' = [rows EXCEPT ![c] = row], CC!Changed(c), row.state # "none",
         rows[c].state # "none" => row.parent = rows[c].parent
  PROVE  CommentPages'
<1>1. rows \in [Comments -> CommentRow] /\ link \in PageState /\ Layout(link) /\ Parents(link)
      /\ Shows(link)
  BY DEF CommentsInv, CommentRows, CommentPages
<1>2. rows'[c] = row /\ \A x \in Comments : x # c => rows'[x] = rows[x]
  BY <1>1
<1>3. \A x \in Comments : rows[x].state # "none" =>
        rows'[x].state # "none" /\ rows'[x].parent = rows[x].parent
  BY <1>2
<1>4. PICK changed \in SUBSET (Comments \cup {NoId}) :
        /\ link' = [link EXCEPT !.changed = changed]
        /\ link.pc # "off" => c \in changed /\ row.parent \in changed
        /\ link.changed \subseteq changed
  <2>1. CASE link.pc = "off"
    <3>1. link' = [link EXCEPT !.changed = link.changed]
      BY <1>1, <2>1 DEF CC!Changed, PageState
    <3>2. QED
      BY <1>1, <2>1, <3>1 DEF PageState
  <2>2. CASE link.pc # "off"
    <3>1. link' = [link EXCEPT !.changed = link.changed \cup {c, row.parent}]
      BY <1>2, <2>2 DEF CC!Changed
    <3>2. row.parent \in Comments \cup {NoId}
      BY DEF CommentRow
    <3>3. link.changed \cup {c, row.parent} \in SUBSET (Comments \cup {NoId})
      BY <1>1, <3>2 DEF PageState
    <3>4. QED
      BY <3>1, <3>3
  <2>3. QED
    BY <2>1, <2>2
<1>5. /\ link' \in PageState /\ link'.pc = link.pc /\ link'.page = link.page
      /\ link'.ids = link.ids /\ link'.shown = link.shown /\ link'.failed = link.failed
      /\ link'.changed = changed
  BY <1>1, <1>4 DEF PageState
<1>6. Reps(link') = Reps(link) /\ FilledPage(link') = FilledPage(link)
      /\ FilledReps(link') = FilledReps(link)
  BY <1>5 DEF Reps, FilledPage, FilledReps
<1>7. link.page \subseteq Comments /\ Reps(link) \subseteq Comments
  BY <1>1 DEF PageState, Reps, Shelf
<1>8. Layout(link')
  BY <1>1, <1>5, <1>6 DEF Layout
<1>9. Parents(link)'
  <2>1. \A x \in link.page \cup Reps(link) :
          rows'[x].state # "none" /\ rows'[x].parent = rows[x].parent
    BY <1>1, <1>3, <1>7 DEF Parents
  <2>2. /\ \A x \in link'.page \cup Reps(link') : rows'[x].state # "none"
        /\ \A x \in Reps(link') : rows'[x].parent # NoId
        /\ \A x, y \in link'.page : rows'[x].parent = rows'[y].parent
        /\ Reps(link') # {} \/ link'.pc = "previews" =>
             \A x \in link'.page : rows'[x].parent = NoId
    BY <1>1, <1>5, <1>6, <2>1 DEF Parents
  <2>3. QED
    BY <2>2 DEF Parents, Reps
<1>10. \A x \in Comments : FilledFor(link, x)' = FilledFor(link, x)
  <2> SUFFICES ASSUME NEW x \in Comments PROVE FilledFor(link, x)' = FilledFor(link, x)
    OBVIOUS
  <2>1. x \in link.page => rows'[x].parent = rows[x].parent
    BY <1>1, <1>3 DEF Parents
  <2>2. FilledFor(link, x)' =
          IF x \in link'.page
          THEN {f \in FilledPage(link') : f = "replies" => rows'[x].parent = NoId}
          ELSE IF x \in Reps(link') THEN FilledReps(link') ELSE {}
    BY DEF FilledFor, FilledPage, FilledReps, Reps
  <2>3. QED
    BY <1>5, <1>6, <2>1, <2>2 DEF FilledFor
<1>11. ASSUME NEW x \in (link.page \cup Reps(link)) \ changed
       PROVE  \A f \in Looks : ValueOf(x, f)' = ValueOf(x, f)
  <2>1. link.pc # "off"
    BY <1>1, <1>11 DEF Layout, Reps
  <2>2. x # c /\ row.parent # x
    BY <1>4, <1>11, <2>1
  <2>3. rows'[x] = rows[x]
    BY <1>2, <1>7, <1>11, <2>2
  <2>4. \A d \in Comments : CC!Live(d)' /\ rows'[d].parent = x <=> CC!Live(d)
          /\ rows[d].parent = x
    BY <1>2, <1>3, <2>2 DEF CC!Live
  <2>5. CC!RepliesOf(x)' = CC!RepliesOf(x)
    BY <2>4 DEF CC!RepliesOf
  <2>6. CC!Preview(x)' = CC!Preview(x)
          /\ CC!Cardinality(CC!RepliesOf(x)') = CC!Cardinality(CC!RepliesOf(x))
    BY <2>5 DEF CC!Preview
  <2>7. QED
    BY <2>3, <2>5, <2>6 DEF ValueOf, Looks
<1>12. Shows(link)'
  <2>1. /\ \A x \in Comments : link'.shown[x].parts.tags = {}
        /\ \A x \in Comments \ (link'.page \cup Reps(link')) : link'.shown[x] = CC!Blank
    BY <1>1, <1>5, <1>6 DEF Shows
  <2>2. \A x \in Comments, f \in Looks : <<x, f>> \in link'.failed =>
          f \in FilledFor(link, x)'
    BY <1>1, <1>5, <1>10 DEF Shows
  <2>3. \A x, f : Got(link, x, f)' = Got(link, x, f)
    BY <1>5 DEF Got
  <2>4. ASSUME NEW x \in (link'.page \cup Reps(link')) \ link'.changed, NEW f \in Looks
        PROVE  Got(link, x, f)'
                 = IF f \in FilledFor(link, x)' /\ <<x, f>> \notin link'.failed
                   THEN ValueOf(x, f)' ELSE NoValue(f)
    <3>1. x \in (link.page \cup Reps(link)) \ changed
            /\ x \in (link.page \cup Reps(link)) \ link.changed
      BY <1>4, <1>5, <1>6, <2>4
    <3>2. x \in Comments
      BY <1>7, <3>1
    <3>3. Got(link, x, f)
            = IF f \in FilledFor(link, x) /\ <<x, f>> \notin link.failed
              THEN ValueOf(x, f) ELSE NoValue(f)
      BY <1>1, <3>1 DEF Shows
    <3>4. ValueOf(x, f)' = ValueOf(x, f)
      BY <1>11, <3>1
    <3>5. QED
      BY <1>5, <1>10, <2>3, <3>2, <3>3, <3>4
  <2>5. \A x \in (link'.page \cup Reps(link')) \ link'.changed, f \in Looks :
          Got(link, x, f)' = IF f \in FilledFor(link, x)' /\ <<x, f>> \notin link'.failed
                             THEN ValueOf(x, f)' ELSE NoValue(f)
    BY <2>4
  <2>6. QED
    BY <2>1, <2>2, <2>5 DEF Shows, Reps, CC!Blank, CC!Nothing, NoValue
<1>13. QED
  BY <1>5, <1>8, <1>9, <1>12 DEF CommentPages, Layout, Reps, PageState, Shelf, Contents,
     Counts, Looks

LEMMA CommentPagesSame ==
  ASSUME CommentsInv, UNCHANGED <<rows, link>>
  PROVE  CommentPages'
<1>1. link' = link /\ rows' = rows /\ CommentPages
  BY DEF CommentsInv
<1>2. /\ Reps(link)' = Reps(link) /\ FilledPage(link)' = FilledPage(link)
      /\ FilledReps(link)' = FilledReps(link)
  BY <1>1 DEF Reps, FilledPage, FilledReps
<1>3. \A x : FilledFor(link, x)' = FilledFor(link, x)
  BY <1>1, <1>2 DEF FilledFor
<1>4. \A x : CC!RepliesOf(x)' = CC!RepliesOf(x)
  BY <1>1 DEF CC!RepliesOf, CC!Live
<1>5. \A x : CC!Preview(x)' = CC!Preview(x)
        /\ CC!Cardinality(CC!RepliesOf(x))' = CC!Cardinality(CC!RepliesOf(x))
  BY <1>4 DEF CC!Preview
<1>6. \A x, f : ValueOf(x, f)' = ValueOf(x, f) /\ Got(link, x, f)' = Got(link, x, f)
  BY <1>1, <1>5 DEF ValueOf, Got
<1>7. Layout(link)' /\ Parents(link)'
  BY <1>1, <1>2 DEF CommentPages, Layout, Parents
<1>8. Shows(link)'
  BY <1>1, <1>2, <1>3, <1>6 DEF CommentPages, Shows, CC!Blank, CC!Nothing, NoValue
<1>9. (link \in PageState)'
  BY <1>1 DEF CommentPages, PageState, Shelf, Contents, Counts, Looks
<1>10. QED
  BY <1>7, <1>8, <1>9 DEF CommentPages

(* A request takes a comment to write or to delete.                        *)
LEMMA AcceptComments ==
  ASSUME CommentsInv, NEW r \in Commenters, CC!CreateComment(r) \/ CC!DeleteComment(r)
  PROVE  CommentsInv'
<1>1. proc[r].pc = "idle"
  BY DEF CC!CreateComment, CC!DeleteComment, CC!Accept, CC!At
<1>2. /\ rows \in [Comments -> CommentRow] /\ active \in [Comments -> Contents]
      /\ \A y \in Comments : /\ rows[y].parts.tags = {}
                             /\ rows[y].state = "none" => rows[y] = CC!NoRow
                             /\ CC!Live(y) /\ ~CC!Telling(y) => rows[y].parts = active[y]
  BY DEF CommentsInv, CommentRows
<1>3. \A q \in Commenters : proc[q].pc # "idle" =>
           proc[q].thing \in Comments
             /\ CommentFits(proc[q], rows[proc[q].thing], active[proc[q].thing])
  BY DEF CommentsInv, CommentRequests
<1>4. \E c \in Comments : \E x \in CommentRecord :
        /\ proc' = [proc EXCEPT ![r] = x] /\ UNCHANGED <<rows, active, link>>
        /\ x.pc # "idle" /\ x.thing = c /\ CommentFits(x, rows[c], active[c])
        /\ \A q \in Commenters \ {r} : ~SameAuthor(x, proc[q])
  <2>1. CASE CC!CreateComment(r)
    <3>1. PICK c \in Comments, want \in CommentContents :
            \E parent \in {NoId} \cup {d \in Comments : CC!Live(d) /\ rows[d].parent = NoId} :
              /\ rows[c].state = "none" /\ \A q \in Commenters : proc[q].thing # c
              /\ CC!Accept(r, [CC!Idle EXCEPT !.pc = "attach", !.thing = c, !.parent = parent,
                                              !.want = [want EXCEPT !.tags = {}]])
      BY <2>1 DEF CC!CreateComment
    <3>2. PICK parent \in {NoId} \cup Comments :
            CC!Accept(r, [CC!Idle EXCEPT !.pc = "attach", !.thing = c, !.parent = parent,
                                         !.want = [want EXCEPT !.tags = {}]])
      BY <3>1
    <3> DEFINE k == [want EXCEPT !.tags = {}]
               x == [CC!Idle EXCEPT !.pc = "attach", !.thing = c, !.parent = parent,
                 !.want = k]
    <3>3. k \in Contents /\ k.tags = {}
      BY ContentsAssumption DEF Contents
    <3>4. proc' = [proc EXCEPT ![r] = x] /\ UNCHANGED <<rows, active, link>>
      BY <3>2 DEF CC!Accept
    <3> HIDE DEF k
    <3>5. x \in CommentRecord /\ x.pc = "attach" /\ x.thing = c /\ x.want = k
            /\ x.done = CC!Nothing
      BY <3>3, CommentIdle DEF CommentRecord
    <3> HIDE DEF x
    <3>6. CommentFits(x, rows[c], active[c])
      BY <3>1, <3>3, <3>5 DEF CommentFits, CC!Nothing
    <3>7. \A q \in Commenters \ {r} : ~SameAuthor(x, proc[q])
      BY <3>1, <3>5 DEF SameAuthor
    <3>8. QED
      BY <3>4, <3>5, <3>6, <3>7
  <2>2. CASE CC!DeleteComment(r)
    <3>1. PICK c \in Comments : CC!Live(c)
            /\ CC!Accept(r, [CC!Idle EXCEPT !.pc = "delete", !.thing = c])
      BY <2>2 DEF CC!DeleteComment
    <3> DEFINE x == [CC!Idle EXCEPT !.pc = "delete", !.thing = c]
    <3>2. proc' = [proc EXCEPT ![r] = x] /\ UNCHANGED <<rows, active, link>>
      BY <3>1 DEF CC!Accept
    <3>3. x \in CommentRecord /\ x.pc = "delete" /\ x.thing = c
      BY CommentIdle DEF CommentRecord
    <3> HIDE DEF x
    <3>4. CommentFits(x, rows[c], active[c])
            /\ \A q \in Commenters \ {r} : ~SameAuthor(x, proc[q])
      BY <3>1, <3>3 DEF CommentFits, SameAuthor, CC!Live
    <3>5. QED
      BY <3>2, <3>3, <3>4
  <2>3. QED
    BY <2>1, <2>2
<1>5. PICK c \in Comments, x \in CommentRecord :
        /\ proc' = [proc EXCEPT ![r] = x] /\ UNCHANGED <<rows, active, link>>
        /\ x.pc # "idle" /\ x.thing = c /\ CommentFits(x, rows[c], active[c])
        /\ \A q \in Commenters \ {r} : ~SameAuthor(x, proc[q])
  BY <1>4
<1>6. CommentPages'
  BY <1>5, CommentPagesSame
<1> DEFINE row == rows[c]
           want == active[c]
<1>7. /\ row \in CommentRow /\ want \in Contents
      /\ rows' = [rows EXCEPT ![c] = row] /\ active' = [active EXCEPT ![c] = want]
      /\ row.parts.tags = {} /\ (row.state = "none" => row = CC!NoRow)
  BY <1>2, <1>5
<1>8. row.state = "live" =>
        \/ row.parts = want
        \/ \E q \in Commenters \ {r} : proc[q].pc = "told" /\ proc[q].thing = c
  BY <1>1, <1>2 DEF CC!Live, CC!Telling, CC!At
<1>9. \A q \in Commenters \ {r} :
           proc[q].pc # "idle" /\ proc[q].thing = c => CommentFits(proc[q], row, want)
  BY <1>3
<1>10. x.thing = c /\ CommentFits(x, row, want) /\ proc' = [proc EXCEPT ![r] = x]
       /\ \A q \in Commenters \ {r} : ~SameAuthor(x, proc[q])
  BY <1>5
<1> HIDE DEF row, want
<1>11. CommentRows /\ CommentRequests
  BY DEF CommentsInv
<1>12. CommentRows' /\ CommentRequests'
  <2>1. CommentWritten(r, x, c, row, want)
    BY <1>1, <1>7, <1>8, <1>9, <1>10 DEF CommentWritten
  <2>2. QED
    BY <1>2, <1>4, <1>6, <1>7, <1>10, <1>11, <2>1, CommentMoves
<1>13. QED
  BY <1>6, <1>12 DEF CommentsInv

(* One row of the media, in the transaction of the comment.                *)
LEMMA AddCommentMediaKeeps ==
  ASSUME CommentsInv, NEW r \in Commenters, CC!AddCommentMedia(r)
  PROVE  CommentsInv'
<1> DEFINE c == proc[r].thing
           row == rows[c]
           want == active[c]
<1>1. proc[r].pc = "attach" /\ CC!Add(r, "media")
  BY DEF CC!AddCommentMedia, CC!At
<1>2. /\ rows \in [Comments -> CommentRow] /\ active \in [Comments -> Contents]
      /\ proc[r] \in CommentRecord /\ proc \in [Commenters -> CommentRecord] /\ c \in Comments
      /\ CommentFits(proc[r], row, want)
      /\ \A q \in Commenters \ {r} : ~SameAuthor(proc[r], proc[q])
      /\ \A q \in Commenters \ {r} : proc[q].pc # "idle" /\ proc[q].thing = c =>
           CommentFits(proc[q], row, want)
  BY <1>1 DEF CommentsInv, CommentRows, CommentRequests
<1>3. PICK k \in proc[r].want["media"] \ proc[r].done["media"] :
        proc' = [proc EXCEPT ![r].done["media"] = @ \cup {k}]
  BY <1>1 DEF CC!Add
<1> DEFINE d == [proc[r].done EXCEPT !.media = proc[r].done.media \cup {k}]
           x == [proc[r] EXCEPT !.done = d]
<1>4. proc' = [proc EXCEPT ![r] = x] /\ UNCHANGED <<rows, active, link>>
  BY <1>1, <1>2, <1>3 DEF CC!Add, CommentRecord
<1>5. proc[r].done \in Contents /\ proc[r].want \in Contents
  BY <1>2 DEF CommentRecord
<1>6. d \in Contents /\ d.mentions = proc[r].done.mentions
  BY <1>3, <1>5 DEF Contents
<1> HIDE DEF d
<1>7. /\ x \in CommentRecord /\ x.pc = "attach" /\ x.thing = c /\ x.want = proc[r].want
      /\ x.done = d
  BY <1>1, <1>2, <1>6 DEF CommentRecord
<1> HIDE DEF x
<1>8. CommentFits(x, row, want) /\ \A q \in Commenters \ {r} : ~SameAuthor(x, proc[q])
  BY <1>1, <1>2, <1>6, <1>7 DEF CommentFits, SameAuthor
<1>9. row.state = "none" /\ row.parts.tags = {} /\ row = CC!NoRow
  BY <1>1, <1>2 DEF CommentFits, CommentsInv, CommentRows
<1>10. /\ row \in CommentRow /\ want \in Contents
       /\ rows' = [rows EXCEPT ![c] = row] /\ active' = [active EXCEPT ![c] = want]
  BY <1>2, <1>4
<1> HIDE DEF row, want, c
<1>11. CommentRows /\ CommentRequests
  BY DEF CommentsInv
<1>12. CommentRows' /\ CommentRequests'
  <2>1. CommentWritten(r, x, c, row, want)
    BY <1>1, <1>2, <1>4, <1>7, <1>8, <1>9, <1>10 DEF CommentWritten
  <2>2. QED
    BY <1>2, <1>4, <1>6, <1>7, <1>10, <1>11, <2>1, CommentMoves
<1>13. QED
  BY <1>4, <1>12, CommentPagesSame DEF CommentsInv

(* The comment and its media are committed.                                *)
LEMMA CommitCommentKeeps ==
  ASSUME CommentsInv, NEW r \in Commenters, CC!CommitComment(r)
  PROVE  CommentsInv'
<1> DEFINE c == proc[r].thing
           want == proc[r].want
           parts == [CC!Nothing EXCEPT !.media = proc[r].done.media]
           row == [state |-> "live", parent |-> proc[r].parent, parts |-> parts]
           x == [proc[r] EXCEPT !.pc = "told"]
<1>1. proc[r].pc = "attach" /\ proc[r].done.media = proc[r].want.media
  BY DEF CC!CommitComment, CC!At, CC!Done
<1>2. /\ rows \in [Comments -> CommentRow] /\ active \in [Comments -> Contents]
      /\ proc[r] \in CommentRecord /\ proc \in [Commenters -> CommentRecord] /\ c \in Comments
      /\ CommentFits(proc[r], rows[c], active[c])
      /\ \A q \in Commenters \ {r} : ~SameAuthor(proc[r], proc[q])
      /\ \A q \in Commenters \ {r} : proc[q].pc # "idle" /\ proc[q].thing = c =>
           CommentFits(proc[q], rows[c], active[c])
  BY <1>1 DEF CommentsInv, CommentRows, CommentRequests
<1>3. /\ rows' = [rows EXCEPT ![c] = row] /\ active' = [active EXCEPT ![c] = want]
      /\ proc' = [proc EXCEPT ![r] = x] /\ CC!Changed(c)
  BY <1>2 DEF CC!CommitComment
<1>4. proc[r].done \in Contents /\ want \in Contents
  BY <1>2 DEF CommentRecord
<1>5. /\ parts \in Contents /\ parts.media = want.media /\ parts.tags = {}
           /\ parts.mentions = {}
  BY <1>1, <1>4 DEF Contents, CC!Nothing
<1> HIDE DEF parts
<1>6. row \in CommentRow /\ row.state = "live" /\ row.parts = parts
  BY <1>2, <1>5 DEF CommentRow, CommentRecord
<1>7. /\ x \in CommentRecord /\ x.pc = "told" /\ x.thing = c /\ x.want = want
      /\ x.done = proc[r].done
  BY <1>2 DEF CommentRecord
<1>8. rows[c].state = "none" /\ want.tags = {} /\ proc[r].done.mentions = {}
  BY <1>1, <1>2 DEF CommentFits
<1> HIDE DEF row, x
<1>9. CommentFits(x, row, want)
  BY <1>5, <1>6, <1>7, <1>8 DEF CommentFits
<1>10. \A q \in Commenters \ {r} :
         /\ ~SameAuthor(x, proc[q])
         /\ proc[q].pc # "idle" /\ proc[q].thing = c => CommentFits(proc[q], row, want)
  <2> TAKE q \in Commenters \ {r}
  <2>1. ~SameAuthor(x, proc[q])
    BY <1>1, <1>2, <1>7 DEF SameAuthor
  <2>2. ASSUME proc[q].pc # "idle", proc[q].thing = c PROVE CommentFits(proc[q], row, want)
    <3>1. CommentFits(proc[q], rows[c], active[c]) /\ ~SameAuthor(proc[r], proc[q])
      BY <1>2, <2>2
    <3>2. proc[q].pc \notin {"attach", "told", "delete"}
      BY <1>1, <1>8, <2>2, <3>1 DEF CommentFits, SameAuthor
    <3>3. QED
      BY <3>2 DEF CommentFits
  <2>3. QED
    BY <2>1, <2>2
<1>11. CommentPages'
  BY <1>2, <1>3, <1>6, <1>8, CommentPagesLast
<1> HIDE DEF want, c
<1>12. CommentRows /\ CommentRequests
  BY DEF CommentsInv
<1>13. CommentRows' /\ CommentRequests'
  <2>1. CommentWritten(r, x, c, row, want)
    BY <1>1, <1>2, <1>3, <1>4, <1>5, <1>6, <1>7, <1>9, <1>10 DEF CommentWritten
  <2>2. QED
    BY <1>2, <1>4, <1>6, <1>7, <1>10, <1>12, <2>1, CommentMoves
<1>14. QED
  BY <1>11, <1>13 DEF CommentsInv

\* A request that is about a comment, its row, and the other requests.
About(r, c, row, want) ==
  /\ row = rows[c] /\ want = active[c] /\ row \in CommentRow /\ want \in Contents
  /\ rows \in [Comments -> CommentRow] /\ active \in [Comments -> Contents]
  /\ proc[r] \in CommentRecord /\ proc \in [Commenters -> CommentRecord]
  /\ c = proc[r].thing /\ c \in Comments /\ CommentFits(proc[r], row, want)
  /\ row.parts.tags = {}
  /\ row.state = "none" => row = CC!NoRow
  /\ CC!Live(c) /\ ~CC!Telling(c) => row.parts = want
  /\ \A q \in Commenters \ {r} :
       /\ ~SameAuthor(proc[r], proc[q])
       /\ proc[q].pc # "idle" /\ proc[q].thing = c => CommentFits(proc[q], row, want)

LEMMA AboutComment ==
  ASSUME CommentsInv, NEW r \in Commenters, proc[r].pc # "idle"
  PROVE  About(r, proc[r].thing, rows[proc[r].thing], active[proc[r].thing])
<1>1. CommentRows /\ CommentRequests
  BY DEF CommentsInv
<1>2. proc[r].thing \in Comments
        /\ CommentFits(proc[r], rows[proc[r].thing], active[proc[r].thing])
  BY <1>1 DEF CommentRequests
<1>3. \A q \in Commenters \ {r} :
       /\ ~SameAuthor(proc[r], proc[q])
       /\ proc[q].pc # "idle" /\ proc[q].thing = proc[r].thing =>
            CommentFits(proc[q], rows[proc[r].thing], active[proc[r].thing])
  BY <1>1 DEF CommentRequests
<1>4. QED
  BY <1>1, <1>2, <1>3 DEF About, CommentRows, CommentRequests

LEMMA IdleMoves ==
  ASSUME NEW r \in Commenters, NEW c, NEW row, NEW want, About(r, c, row, want),
         NEW new \in CommentRow, NEW a \in Contents,
         proc' = [proc EXCEPT ![r] = CC!Idle],
         rows' = [rows EXCEPT ![c] = new], active' = [active EXCEPT ![c] = a],
         new.state = "live" => new.parts = a
           \/ \E q \in Commenters \ {r} : proc[q].pc = "told" /\ proc[q].thing = c,
         new = row \/ (row.state # "none" /\ new.state = "deleted" /\ new.parts = row.parts),
         a = want \/ proc[r].pc = "told"
  PROVE  CommentWritten(r, CC!Idle, c, new, a)
<1>1. CC!Idle.pc = "idle"
  BY CommentIdle
<1>2. \A q \in Commenters \ {r} : ~SameAuthor(CC!Idle, proc[q])
  BY <1>1 DEF SameAuthor
<1>3. ASSUME NEW q \in Commenters \ {r}, proc[q].pc # "idle", proc[q].thing = c
      PROVE  CommentFits(proc[q], new, a)
  <2>1. CommentFits(proc[q], row, want) /\ ~SameAuthor(proc[r], proc[q])
    BY <1>3 DEF About
  <2>2. CASE a = want
    BY <1>3, <2>1, <2>2 DEF CommentFits
  <2>3. CASE proc[r].pc = "told"
    <3>1. proc[q].pc \notin {"attach", "told"}
      BY <1>3, <2>1, <2>3 DEF SameAuthor, About
    <3>2. QED
      BY <2>1, <3>1 DEF CommentFits
  <2>4. QED
    BY <2>2, <2>3
<1>4. QED
  BY <1>1, <1>2, <1>3 DEF CommentWritten, About

(* A request that wrote a comment, deletes one or fails is through.        *)
LEMMA CommentEnds ==
  ASSUME CommentsInv, NEW r \in Commenters,
         CC!CommentDone(r) \/ CC!SoftDelete(r) \/ CC!Fail(r)
  PROVE  CommentsInv'
<1> DEFINE c == proc[r].thing
           row == rows[c]
           want == active[c]
<1>1. proc[r].pc # "idle" /\ proc' = [proc EXCEPT ![r] = CC!Idle]
  BY DEF CC!CommentDone, CC!SoftDelete, CC!Fail, CC!At
<1>2. About(r, c, row, want)
  BY <1>1, AboutComment
<1>3. /\ rows \in [Comments -> CommentRow] /\ active \in [Comments -> Contents]
      /\ c \in Comments /\ row \in CommentRow /\ want \in Contents
           /\ CommentFits(proc[r], row, want)
      /\ rows[c] = row /\ active[c] = want /\ row.parts.tags = {} /\ row.parts \in Contents
      /\ (row.state = "live" /\ ~CC!Telling(c) => row.parts = want)
  BY <1>2 DEF About, CommentRow, CC!Live
<1>4. CommentRows /\ CommentRequests /\ CC!Idle \in CommentRecord
  BY CommentIdle DEF CommentsInv
<1> HIDE DEF c, row, want
<1>5. row.state = "live" /\ proc[r].pc # "told" =>
        row.parts = want \/ \E q \in Commenters \ {r} : proc[q].pc = "told"
          /\ proc[q].thing = c
  BY <1>3 DEF CC!Telling, CC!At
<1>6. CASE CC!CommentDone(r)
  <2>1. /\ proc[r].pc = "told" /\ proc[r].done.mentions = proc[r].want.mentions
        /\ UNCHANGED <<rows, active, link>>
    BY <1>6 DEF CC!CommentDone, CC!At, CC!Done
  <2>2. row.parts = want
    <3>1. row.parts.media = want.media /\ row.parts.tags = want.tags
            /\ row.parts.mentions = want.mentions
      BY <1>3, <2>1 DEF CommentFits
    <3>2. \A f \in Parts : row.parts[f] = want[f]
      BY <3>1 DEF Parts
    <3>3. QED
      BY <1>3, <3>2, ContentsAre
  <2>3. rows' = [rows EXCEPT ![c] = row] /\ active' = [active EXCEPT ![c] = want]
    BY <1>3, <2>1
  <2>4. CommentWritten(r, CC!Idle, c, row, want)
    BY <1>1, <1>2, <1>3, <2>2, <2>3, IdleMoves
  <2>5. CommentRows' /\ CommentRequests'
    BY <1>3, <1>4, <2>4, CommentMoves
  <2>6. QED
    BY <2>1, <2>5, CommentPagesSame DEF CommentsInv
<1>7. CASE CC!SoftDelete(r)
  <2> DEFINE new == [row EXCEPT !.state = "deleted"]
  <2>1. /\ proc[r].pc = "delete" /\ rows' = [rows EXCEPT ![c] = new] /\ CC!Changed(c)
        /\ UNCHANGED active
    BY <1>3, <1>7 DEF CC!SoftDelete, CC!At, c
  <2>2. new \in CommentRow /\ new.state = "deleted" /\ new.parts = row.parts
        /\ new.parent = row.parent
    BY <1>3 DEF CommentRow
  <2>3. row.state # "none"
    BY <1>3, <2>1 DEF CommentFits
  <2> HIDE DEF new
  <2>4. active' = [active EXCEPT ![c] = want]
    BY <1>3, <2>1
  <2>5. CommentWritten(r, CC!Idle, c, new, want)
    BY <1>1, <1>2, <1>3, <2>1, <2>2, <2>3, <2>4, IdleMoves
  <2>6. CommentRows' /\ CommentRequests'
    BY <1>3, <1>4, <2>2, <2>5, CommentMoves
  <2>7. CommentPages'
    BY <1>3, <2>1, <2>2, <2>3, CommentPagesLast
  <2>8. QED
    BY <2>6, <2>7 DEF CommentsInv
<1>8. CASE CC!Fail(r)
  <2> DEFINE a == IF proc[r].pc = "told" THEN row.parts ELSE want
  <2>1. active' = [active EXCEPT ![c] = a] /\ UNCHANGED <<rows, link>> /\ a \in Contents
    BY <1>3, <1>8 DEF CC!Fail, CC!At, c
  <2>2. rows' = [rows EXCEPT ![c] = row]
    BY <1>3, <2>1
  <2>3. row.state = "live" =>
          row.parts = a \/ \E q \in Commenters \ {r} : proc[q].pc = "told"
            /\ proc[q].thing = c
    BY <1>5
  <2>4. a = want \/ proc[r].pc = "told"
    OBVIOUS
  <2> HIDE DEF a
  <2>5. CommentWritten(r, CC!Idle, c, row, a)
    BY <1>1, <1>2, <1>3, <2>1, <2>2, <2>3, <2>4, IdleMoves
  <2>6. CommentRows' /\ CommentRequests'
    BY <1>3, <1>4, <2>1, <2>5, CommentMoves
  <2>7. QED
    BY <2>1, <2>6, CommentPagesSame DEF CommentsInv
<1>9. QED
  BY <1>6, <1>7, <1>8

(* A mention is stored, or the error is logged.                            *)
LEMMA InsertCommentMentionKeeps ==
  ASSUME CommentsInv, NEW r \in Commenters, CC!InsertCommentMention(r)
  PROVE  CommentsInv'
<1> DEFINE c == proc[r].thing
           row == rows[c]
           want == active[c]
<1>1. proc[r].pc = "told" /\ CC!Changed(c)
  BY DEF CC!InsertCommentMention, CC!At
<1>2. About(r, c, row, want)
  BY <1>1, AboutComment
<1>3. /\ rows \in [Comments -> CommentRow] /\ active \in [Comments -> Contents]
      /\ c \in Comments /\ row \in CommentRow /\ want \in Contents
           /\ CommentFits(proc[r], row, want)
      /\ rows[c] = row /\ active[c] = want /\ row.parts.tags = {} /\ row.parts \in Contents
      /\ proc[r] \in CommentRecord /\ proc \in [Commenters -> CommentRecord]
           /\ proc[r].thing = c
      /\ row.state # "none"
  BY <1>1, <1>2 DEF About, CommentRow, CC!Live, CommentFits
<1>4. PICK u \in proc[r].want.mentions \ proc[r].done.mentions :
        /\ proc' = [proc EXCEPT ![r].done.mentions = @ \cup {u}]
        /\ \/ rows' = [rows EXCEPT ![c].parts.mentions = @ \cup {u}] /\ UNCHANGED active
           \/ active' = [active EXCEPT ![c].mentions = @ \ {u}] /\ UNCHANGED rows
  BY DEF CC!InsertCommentMention
<1> DEFINE d == [proc[r].done EXCEPT !.mentions = proc[r].done.mentions \cup {u}]
           x == [proc[r] EXCEPT !.done = d]
<1>5. proc' = [proc EXCEPT ![r] = x]
  BY <1>3, <1>4 DEF CommentRecord
<1>6. proc[r].done \in Contents /\ proc[r].want \in Contents /\ u \in Attached
  BY <1>3, <1>4 DEF CommentRecord, Contents
<1>7. d \in Contents /\ d.mentions = proc[r].done.mentions \cup {u}
  BY <1>6 DEF Contents
<1> HIDE DEF d
<1>8. /\ x \in CommentRecord /\ x.pc = "told" /\ x.thing = c /\ x.want = proc[r].want
           /\ x.done = d
  BY <1>1, <1>3, <1>7 DEF CommentRecord
<1> HIDE DEF x
<1>9. PICK parts \in Contents, a \in Contents :
        /\ rows' = [rows EXCEPT ![c] = [row EXCEPT !.parts = parts]]
        /\ active' = [active EXCEPT ![c] = a]
        /\ parts.media = row.parts.media /\ parts.tags = {}
        /\ a.media = want.media /\ a.tags = want.tags
        /\ \/ parts.mentions = row.parts.mentions \cup {u} /\ a.mentions = want.mentions
           \/ parts.mentions = row.parts.mentions /\ a.mentions = want.mentions \ {u}
  <2>1. CASE rows' = [rows EXCEPT ![c].parts.mentions = @ \cup {u}] /\ UNCHANGED active
    <3> DEFINE parts == [row.parts EXCEPT !.mentions = row.parts.mentions \cup {u}]
    <3>1. parts \in Contents /\ parts.media = row.parts.media /\ parts.tags = {}
          /\ parts.mentions = row.parts.mentions \cup {u}
      BY <1>3, <1>6 DEF Contents
    <3>2. rows' = [rows EXCEPT ![c] = [row EXCEPT !.parts = parts]]
      BY <1>3, <2>1 DEF CommentRow
    <3>3. active' = [active EXCEPT ![c] = want]
      BY <1>3, <2>1
    <3> HIDE DEF parts
    <3>4. QED
      BY <1>3, <3>1, <3>2, <3>3
  <2>2. CASE active' = [active EXCEPT ![c].mentions = @ \ {u}] /\ UNCHANGED rows
    <3> DEFINE a == [want EXCEPT !.mentions = want.mentions \ {u}]
    <3>1. a \in Contents /\ a.media = want.media /\ a.tags = want.tags
          /\ a.mentions = want.mentions \ {u}
      BY <1>3 DEF Contents
    <3>2. active' = [active EXCEPT ![c] = a]
      BY <1>3, <2>2
    <3>3. [row EXCEPT !.parts = row.parts] = row
      BY <1>3 DEF CommentRow
    <3>4. rows' = [rows EXCEPT ![c] = row]
      BY <1>3, <2>2
    <3> HIDE DEF a
    <3>5. QED
      BY <1>3, <3>1, <3>2, <3>3, <3>4
  <2>3. QED
    BY <1>4, <2>1, <2>2
<1> DEFINE new == [row EXCEPT !.parts = parts]
<1>10. new \in CommentRow /\ new.parts = parts /\ new.state = row.state
         /\ new.parent = row.parent
  BY <1>3 DEF CommentRow
<1>11. rows' = [rows EXCEPT ![c] = new]
  BY <1>9
<1> HIDE DEF new, row, want, c
<1>12. CommentFits(x, new, a)
  <2>1. /\ row.parts.media = proc[r].want.media /\ want.media = proc[r].want.media
             /\ want.tags = {}
        /\ row.parts.mentions \subseteq proc[r].done.mentions
        /\ want.mentions = row.parts.mentions \cup (proc[r].want.mentions \ proc[r].done.mentions)
    BY <1>1, <1>3 DEF CommentFits
  <2>2. parts.mentions \subseteq proc[r].done.mentions \cup {u}
    BY <1>9, <2>1
  <2>3. a.mentions = parts.mentions \cup (proc[r].want.mentions \ (proc[r].done.mentions \cup {u}))
    BY <1>4, <1>9, <2>1
  <2>4. QED
    BY <1>3, <1>7, <1>8, <1>9, <1>10, <2>1, <2>2, <2>3 DEF CommentFits
<1>13. \A q \in Commenters \ {r} :
         /\ ~SameAuthor(x, proc[q])
         /\ proc[q].pc # "idle" /\ proc[q].thing = c => CommentFits(proc[q], new, a)
  <2> TAKE q \in Commenters \ {r}
  <2>1. ~SameAuthor(proc[r], proc[q]) /\ ~SameAuthor(x, proc[q])
    BY <1>1, <1>2, <1>3, <1>8 DEF About, SameAuthor
  <2>2. proc[q].thing = c => proc[q].pc \notin {"attach", "told"}
    BY <1>1, <1>3, <2>1 DEF SameAuthor
  <2>3. QED
    BY <1>3, <1>10, <2>1, <2>2 DEF CommentFits
<1>14. CommentWritten(r, x, c, new, a)
  BY <1>1, <1>3, <1>5, <1>8, <1>9, <1>10, <1>11, <1>12, <1>13 DEF CommentWritten
<1>15. CommentRows /\ CommentRequests
  BY DEF CommentsInv
<1>16. CommentRows' /\ CommentRequests'
  BY <1>3, <1>8, <1>9, <1>10, <1>14, <1>15, CommentMoves
<1>17. CC!Changed(c) /\ rows[c] = row
  BY <1>1, <1>3 DEF c
<1>18. CommentPages'
  BY <1>3, <1>10, <1>11, <1>17, CommentPagesLast
<1>19. QED
  BY <1>16, <1>18 DEF CommentsInv

\* The page w differs from that in view by one look-up for the rows in hand.
LookedUp(w, f) ==
  /\ w \in PageState /\ w.page = link.page /\ w.changed = link.changed
  /\ Layout(w) /\ Parents(w) /\ Reps(w) = Reps(link)
  /\ \A x \in Comments : FilledFor(w, x) = FilledFor(link, x) \cup IF x \in link.ids
                                                                   THEN {f} ELSE {}
  /\ \A x \in link.ids : f \notin FilledFor(link, x)
  /\ \/ /\ w.failed = link.failed
        /\ \A x \in Comments : x \notin link.ids => w.shown[x] = link.shown[x]
        /\ \A x \in link.ids : /\ Got(w, x, f) = ValueOf(x, f)
                               /\ w.shown[x].parts.tags = link.shown[x].parts.tags
                               /\ \A g \in Looks : g # f => Got(w, x, g) = Got(link, x, g)
     \/ /\ w.shown = link.shown
        /\ w.failed = link.failed \cup {<<x, f>> : x \in link.ids}

LEMMA LookUpShows ==
  ASSUME CommentPages, NEW w, NEW f \in Looks, LookedUp(w, f)
  PROVE  Shows(w)
<1>1. link \in PageState /\ Layout(link) /\ Shows(link)
  BY DEF CommentPages
<1>2. link.ids \subseteq link.page \cup Reps(link)
        /\ link.page \cup Reps(link) \subseteq Comments
  BY <1>1 DEF Layout, Reps, PageState, Shelf
<1>3. /\ w.page = link.page /\ w.changed = link.changed /\ Reps(w) = Reps(link)
      /\ \A x \in Comments : FilledFor(w, x) = FilledFor(link, x) \cup IF x \in link.ids
                                                                       THEN {f} ELSE {}
      /\ \A x \in link.ids : f \notin FilledFor(link, x)
  BY DEF LookedUp
<1>4. /\ \A x \in Comments : link.shown[x].parts.tags = {}
      /\ \A x \in Comments \ (link.page \cup Reps(link)) : link.shown[x] = CC!Blank
      /\ \A x \in Comments, g \in Looks : <<x, g>> \in link.failed => g \in FilledFor(link, x)
      /\ \A x \in (link.page \cup Reps(link)) \ link.changed, g \in Looks :
           Got(link, x, g)
             = IF g \in FilledFor(link, x) /\ <<x, g>> \notin link.failed
               THEN ValueOf(x, g) ELSE NoValue(g)
  BY <1>1 DEF Shows
<1>5. CASE /\ w.failed = link.failed
           /\ \A x \in Comments : x \notin link.ids => w.shown[x] = link.shown[x]
           /\ \A x \in link.ids : /\ Got(w, x, f) = ValueOf(x, f)
                                  /\ w.shown[x].parts.tags = link.shown[x].parts.tags
                                  /\ \A g \in Looks : g # f => Got(w, x, g) = Got(link, x, g)
  <2>1. \A x \in Comments : w.shown[x].parts.tags = {}
    BY <1>4, <1>5
  <2>2. \A x \in Comments \ (w.page \cup Reps(w)) : w.shown[x] = CC!Blank
    BY <1>2, <1>3, <1>4, <1>5
  <2>3. \A x \in Comments, g \in Looks : <<x, g>> \in w.failed => g \in FilledFor(w, x)
    BY <1>3, <1>4, <1>5
  <2>4. ASSUME NEW x \in (w.page \cup Reps(w)) \ w.changed, NEW g \in Looks
        PROVE  Got(w, x, g)
                 = IF g \in FilledFor(w, x) /\ <<x, g>> \notin w.failed
                   THEN ValueOf(x, g) ELSE NoValue(g)
    <3>1. x \in Comments /\ x \in (link.page \cup Reps(link)) \ link.changed
      BY <1>2, <1>3, <2>4
    <3>2. Got(link, x, g)
            = IF g \in FilledFor(link, x) /\ <<x, g>> \notin link.failed
              THEN ValueOf(x, g) ELSE NoValue(g)
      BY <1>4, <3>1
    <3>3. CASE x \in link.ids /\ g = f
      <4>1. Got(w, x, g) = ValueOf(x, g) /\ g \in FilledFor(w, x)
              /\ g \notin FilledFor(link, x)
        BY <1>3, <1>5, <3>1, <3>3
      <4>2. <<x, g>> \notin w.failed
        BY <1>4, <1>5, <3>1, <4>1
      <4>3. QED
        BY <4>1, <4>2
    <3>4. CASE x \in link.ids /\ g # f
      <4>1. Got(w, x, g) = Got(link, x, g) /\ (g \in FilledFor(w, x) <=>
              g \in FilledFor(link, x))
        BY <1>3, <1>5, <3>1, <3>4
      <4>2. QED
        BY <1>5, <3>2, <4>1
    <3>5. CASE x \notin link.ids
      <4>1. w.shown[x] = link.shown[x] /\ FilledFor(w, x) = FilledFor(link, x)
        BY <1>3, <1>5, <3>1, <3>5
      <4>2. Got(w, x, g) = Got(link, x, g)
        BY <4>1 DEF Got
      <4>3. QED
        BY <1>5, <3>2, <4>1, <4>2
    <3>6. QED
      BY <3>3, <3>4, <3>5
  <2>5. QED
    BY <2>1, <2>2, <2>3, <2>4 DEF Shows
<1>6. CASE /\ w.shown = link.shown
           /\ w.failed = link.failed \cup {<<x, f>> : x \in link.ids}
  <2>1. /\ \A x \in Comments : w.shown[x].parts.tags = {}
        /\ \A x \in Comments \ (w.page \cup Reps(w)) : w.shown[x] = CC!Blank
    BY <1>3, <1>4, <1>6
  <2>2. \A x \in Comments, g \in Looks :
          <<x, g>> \in w.failed <=> <<x, g>> \in link.failed \/ (x \in link.ids /\ g = f)
    BY <1>6
  <2>3. \A x \in Comments, g \in Looks : <<x, g>> \in w.failed => g \in FilledFor(w, x)
    BY <1>3, <1>4, <2>2
  <2>4. ASSUME NEW x \in (w.page \cup Reps(w)) \ w.changed, NEW g \in Looks
        PROVE  Got(w, x, g)
                 = IF g \in FilledFor(w, x) /\ <<x, g>> \notin w.failed
                   THEN ValueOf(x, g) ELSE NoValue(g)
    <3>1. x \in Comments /\ x \in (link.page \cup Reps(link)) \ link.changed
      BY <1>2, <1>3, <2>4
    <3>2. Got(link, x, g)
            = IF g \in FilledFor(link, x) /\ <<x, g>> \notin link.failed
              THEN ValueOf(x, g) ELSE NoValue(g)
      BY <1>4, <3>1
    <3>3. Got(w, x, g) = Got(link, x, g)
      BY <1>6 DEF Got
    <3>4. CASE x \in link.ids /\ g = f
      BY <1>3, <2>2, <3>1, <3>2, <3>3, <3>4
    <3>5. CASE ~(x \in link.ids /\ g = f)
      <4>1. (g \in FilledFor(w, x) <=> g \in FilledFor(link, x))
            /\ (<<x, g>> \in w.failed <=> <<x, g>> \in link.failed)
        BY <1>3, <2>2, <3>1, <3>5
      <4>2. QED
        BY <3>2, <3>3, <4>1
    <3>6. QED
      BY <3>4, <3>5
  <2>5. QED
    BY <2>1, <2>3, <2>4 DEF Shows
<1>7. QED
  BY <1>5, <1>6 DEF LookedUp

\* Where a page goes keeps its layout.
Goes(w, f) ==
  /\ w.page = link.page /\ Reps(w) = Reps(link)
  /\ Layout(w) /\ Parents(w)
  /\ \A x \in Comments : FilledFor(w, x) = FilledFor(link, x) \cup IF x \in link.ids
                                                                   THEN {f} ELSE {}
  /\ \A x \in link.ids : f \notin FilledFor(link, x)

(* From one look-up to the next.                                           *)
LEMMA PageGoes ==
  ASSUME CommentPages, NEW w, w.page = link.page, Reps(w) = Reps(link), NEW f,
         \/ link.pc = "enrich" /\ w.pc = "enrichMentions" /\ w.ids = link.ids /\ f = "media"
         \/ link.pc = "enrichMentions" /\ w.pc = CC!AfterMentions /\ w.ids = link.ids
              /\ f = "mentions"
         \/ link.pc = "counts" /\ w.pc = (IF link.ids = link.page THEN "done" ELSE "counts")
            /\ w.ids = link.page /\ f = "count"
  PROVE  Goes(w, f)
<1>1. link \in PageState /\ Layout(link) /\ Parents(link)
  BY DEF CommentPages
<1>2. /\ link.page \subseteq Comments
      /\ link.ids = link.page \/ link.ids = Reps(link)
      /\ \A x \in Reps(link) : x \notin link.page /\ x \in Comments
  BY <1>1 DEF Layout, Parents, PageState, Reps, Shelf
<1>3. /\ \A x \in link.page : FilledFor(link, x)
           = {g \in FilledPage(link) : g = "replies" => rows[x].parent = NoId}
      /\ \A x \in link.page : FilledFor(w, x)
           = {g \in FilledPage(w) : g = "replies" => rows[x].parent = NoId}
      /\ \A x \in Reps(link) : FilledFor(link, x) = FilledReps(link)
           /\ FilledFor(w, x) = FilledReps(w)
      /\ \A x \in Comments : x \notin link.page /\ x \notin Reps(link) =>
           FilledFor(link, x) = {} /\ FilledFor(w, x) = {}
  BY <1>2 DEF FilledFor
<1>4. ASSUME /\ FilledReps(w) = FilledReps(link) \cup IF link.ids = link.page THEN {} ELSE {f}
             /\ link.ids # link.page => f \notin FilledReps(link)
                  /\ FilledPage(w) = FilledPage(link)
             /\ link.ids = link.page => \A x \in link.page :
                  /\ f \notin FilledFor(link, x)
                  /\ FilledFor(w, x) = FilledFor(link, x) \cup {f}
      PROVE  /\ \A x \in Comments :
                  FilledFor(w, x) = FilledFor(link, x) \cup IF x \in link.ids THEN {f} ELSE {}
             /\ \A x \in link.ids : f \notin FilledFor(link, x)
  <2>1. CASE link.ids = link.page
    <3>1. \A x \in Reps(link) : x \notin link.ids /\ FilledFor(w, x) = FilledFor(link, x)
      BY <1>2, <1>3, <1>4, <2>1
    <3>2. QED
      BY <1>3, <1>4, <2>1, <3>1
  <2>2. CASE link.ids # link.page
    <3>1. link.ids = Reps(link) /\ \A x \in link.page : x \notin link.ids
            /\ FilledFor(w, x) = FilledFor(link, x)
      BY <1>2, <1>3, <1>4, <2>2
    <3>2. QED
      BY <1>3, <1>4, <2>2, <3>1
  <2>3. QED
    BY <2>1, <2>2
<1>5. CASE link.pc = "enrich" /\ w.pc = "enrichMentions" /\ w.ids = link.ids /\ f = "media"
  <2>1. Layout(w) /\ Parents(w)
    BY <1>1, <1>5 DEF Layout, Parents
  <2>2. CASE link.ids = link.page
    <3>1. /\ FilledPage(link) = {} /\ FilledPage(w) = {"media"}
          /\ FilledReps(w) = FilledReps(link)
      BY <1>5, <2>2 DEF FilledPage, FilledReps
    <3>2. \A x \in link.page : FilledFor(link, x) = {} /\ FilledFor(w, x) = {"media"}
      BY <1>3, <3>1
    <3>3. QED
      BY <1>4, <1>5, <2>1, <2>2, <3>1, <3>2 DEF Goes
  <2>3. CASE link.ids # link.page
    <3>1. /\ FilledPage(w) = FilledPage(link)
          /\ FilledReps(link) = {} /\ FilledReps(w) = {"media"}
      BY <1>5, <2>3 DEF FilledPage, FilledReps
    <3>2. QED
      BY <1>4, <1>5, <2>1, <2>3, <3>1 DEF Goes
  <2>4. QED
    BY <2>2, <2>3
<1>6. CASE link.pc = "enrichMentions" /\ w.pc = CC!AfterMentions /\ w.ids = link.ids
             /\ f = "mentions"
  <2>1. CASE link.ids = link.page /\ \A x \in link.page : rows[x].parent = NoId
    <3>1. w.pc = "previews"
      BY <1>6, <2>1 DEF CC!AfterMentions
    <3>2. /\ FilledPage(link) = {"media"} /\ FilledPage(w) = {"media", "mentions"}
          /\ FilledReps(w) = FilledReps(link)
      BY <1>6, <2>1, <3>1 DEF FilledPage, FilledReps
    <3>3. \A x \in link.page : FilledFor(link, x) = {"media"}
            /\ FilledFor(w, x) = {"media", "mentions"}
      BY <1>3, <3>2
    <3>4. Layout(w) /\ Parents(w)
      BY <1>1, <1>6, <2>1, <3>1 DEF Layout, Parents
    <3>5. QED
      BY <1>4, <1>6, <2>1, <3>2, <3>3, <3>4 DEF Goes
  <2>2. CASE link.ids = link.page /\ ~ \A x \in link.page : rows[x].parent = NoId
    <3>1. w.pc = "counts"
      BY <1>6, <2>2 DEF CC!AfterMentions
    <3>2. \A x \in link.page : rows[x].parent # NoId
      BY <1>1, <2>2 DEF Parents
    <3>3. /\ FilledPage(link) = {"media"} /\ FilledPage(w) = {"media", "mentions", "replies"}
          /\ FilledReps(w) = FilledReps(link)
      BY <1>6, <2>2, <3>1 DEF FilledPage, FilledReps
    <3>4. \A x \in link.page : FilledFor(link, x) = {"media"}
            /\ FilledFor(w, x) = {"media", "mentions"}
      BY <1>3, <3>2, <3>3
    <3>5. Layout(w) /\ Parents(w)
      BY <1>1, <1>6, <2>2, <3>1 DEF Layout, Parents
    <3>6. QED
      BY <1>4, <1>6, <2>2, <3>3, <3>4, <3>5 DEF Goes
  <2>3. CASE link.ids # link.page
    <3>1. w.pc = "counts"
      BY <1>6, <2>3 DEF CC!AfterMentions
    <3>2. /\ FilledPage(w) = FilledPage(link)
          /\ FilledReps(link) = {"media"} /\ FilledReps(w) = {"media", "mentions"}
      BY <1>6, <2>3, <3>1 DEF FilledPage, FilledReps
    <3>3. Layout(w) /\ Parents(w)
      BY <1>1, <1>6, <2>3, <3>1 DEF Layout, Parents
    <3>4. QED
      BY <1>4, <1>6, <2>3, <3>2, <3>3 DEF Goes
  <2>4. QED
    BY <2>1, <2>2, <2>3
<1>7. CASE /\ link.pc = "counts" /\ w.pc = (IF link.ids = link.page THEN "done" ELSE "counts")
           /\ w.ids = link.page /\ f = "count"
  <2>1. Layout(w) /\ Parents(w)
    BY <1>1, <1>7 DEF Layout, Parents
  <2>2. CASE link.ids = link.page
    <3>1. /\ FilledPage(link) = {"media", "mentions", "replies"}
          /\ FilledPage(w) = {"media", "mentions", "replies", "count"}
          /\ FilledReps(w) = FilledReps(link)
      BY <1>7, <2>2 DEF FilledPage, FilledReps
    <3>2. \A x \in link.page : "count" \notin FilledFor(link, x)
                               /\ FilledFor(w, x) = FilledFor(link, x) \cup {"count"}
      BY <1>3, <3>1
    <3>3. QED
      BY <1>4, <1>7, <2>1, <2>2, <3>1, <3>2 DEF Goes
  <2>3. CASE link.ids # link.page
    <3>1. /\ FilledPage(w) = FilledPage(link)
          /\ FilledReps(link) = {"media", "mentions"}
               /\ FilledReps(w) = {"media", "mentions", "count"}
      BY <1>7, <2>3 DEF FilledPage, FilledReps
    <3>2. QED
      BY <1>4, <1>7, <2>1, <2>3, <3>1 DEF Goes
  <2>4. QED
    BY <2>2, <2>3
<1>8. QED
  BY <1>5, <1>6, <1>7

LEMMA ReaderKeeps ==
  ASSUME CommentsInv, UNCHANGED <<rows, active, proc>>
  PROVE  /\ CommentRows' /\ CommentRequests'
         /\ \A w : Parents(w)' <=> Parents(w)
         /\ \A w : Shows(w)' <=> Shows(w)
         /\ \A w : Layout(w)' <=> Layout(w)
<1>1. CommentRows' /\ CommentRequests'
  BY DEF CommentsInv, CommentRows, CommentRequests, CC!Live, CC!Telling, CC!At, CommentFits,
     SameAuthor
<1>2. \A w : Parents(w)' <=> Parents(w)
  BY DEF Parents, Reps
<1>3. \A w : Layout(w)' <=> Layout(w)
  BY DEF Layout, Reps
<1>4. \A x : CC!RepliesOf(x)' = CC!RepliesOf(x)
  BY DEF CC!RepliesOf, CC!Live
<1>5. \A x : CC!Preview(x)' = CC!Preview(x)
  BY <1>4 DEF CC!Preview
<1>6. \A x, f : ValueOf(x, f)' = ValueOf(x, f)
  BY <1>4, <1>5 DEF ValueOf
<1>7. \A w, x : FilledFor(w, x)' = FilledFor(w, x)
  BY DEF FilledFor, FilledPage, FilledReps, Reps
<1>8. \A w : Shows(w)' <=> Shows(w)
  <2> TAKE w
  <2>1. \A x : FilledFor(w, x)' = FilledFor(w, x)
    BY <1>7
  <2>2. \A x, f : Got(w, x, f)' = Got(w, x, f)
    BY DEF Got
  <2>3. QED
    BY <1>6, <2>1, <2>2 DEF Shows, Reps, CC!Blank, CC!Nothing, NoValue
<1>9. QED
  BY <1>1, <1>2, <1>3, <1>8

LEMMA PageKept ==
  ASSUME CommentsInv, UNCHANGED <<rows, active, proc>>,
         link' \in PageState, Layout(link'), Parents(link'), Shows(link')
  PROVE  CommentsInv'
<1>1. CommentRows' /\ CommentRequests'
  BY ReaderKeeps
<1>2. PICK w : w = link'
  OBVIOUS
<1>3. Layout(w)' /\ Parents(w)' /\ Shows(w)'
  BY <1>2, ReaderKeeps
<1>4. (link \in PageState)'
  BY DEF PageState, Shelf, Contents, Counts, Looks
<1>5. CommentPages'
  BY <1>2, <1>3, <1>4 DEF CommentPages, Layout, Parents, Shows
<1>6. QED
  BY <1>1, <1>5 DEF CommentsInv

(* Media or mentions for the rows in hand.                                 *)
LEMMA EnrichKeeps ==
  ASSUME CommentsInv, CC!EnrichMedia \/ CC!EnrichCommentMentions
  PROVE  CommentsInv'
<1>1. /\ link \in PageState /\ rows \in [Comments -> CommentRow] /\ CommentPages
      /\ link.shown \in [Comments -> Shelf] /\ link.ids \subseteq Comments
  BY DEF CommentsInv, CommentPages, CommentRows, PageState
<1>2. PICK pc, next, f :
        /\ f \in {"media", "mentions"}
        /\ CC!Fill(pc, next, f, [x \in Comments |-> rows[x].parts[f]])
        /\ \/ pc = "enrich" /\ next = "enrichMentions" /\ f = "media"
           \/ pc = "enrichMentions" /\ next = CC!AfterMentions /\ f = "mentions"
  <2>1. CASE CC!EnrichMedia
    <3>1. CC!MediaOf = [x \in Comments |-> rows[x].parts["media"]]
      BY ThingsComments DEF CC!MediaOf
    <3>2. CC!Fill("enrich", "enrichMentions", "media",
            [x \in Comments |-> rows[x].parts["media"]])
      BY <2>1, <3>1 DEF CC!EnrichMedia
    <3>3. QED
      BY <3>2
  <2>2. CASE CC!EnrichCommentMentions
    <3>1. CC!MentionsOf = [x \in Comments |-> rows[x].parts["mentions"]]
      BY ThingsComments DEF CC!MentionsOf
    <3>2. CC!Fill("enrichMentions", CC!AfterMentions, "mentions",
            [x \in Comments |-> rows[x].parts["mentions"]])
      BY <2>2, <3>1 DEF CC!EnrichCommentMentions
    <3> HIDE DEF CC!AfterMentions
    <3>3. QED
      BY <3>2
  <2>3. QED
    BY <2>1, <2>2
<1> DEFINE found == [x \in Comments |-> rows[x].parts[f]]
<1>3. /\ link.pc = pc /\ UNCHANGED <<rows, active, proc>> /\ f \in Looks
      /\ f \in {"media", "mentions"} /\ f \in Parts
      /\ next \in {"enrichMentions", "previews", "counts"}
  BY <1>2 DEF CC!Fill, CC!Show, CC!Miss, CC!AfterMentions, Looks, Parts
<1> DEFINE parts == [x \in CC!Things |-> [link.shown[x].parts EXCEPT ![f] = found[x]]]
           shown == CC!With("parts", parts)
<1>4. CASE CC!Show(next, link.ids, link.page, shown)
  <2>1. \A x \in Comments : found[x] = rows[x].parts[f] /\ found[x] \in SUBSET Attached
    <3>1. \A x \in Comments : rows[x].parts \in Contents
      BY <1>1 DEF CommentRow
    <3>2. QED
      BY <1>3, <3>1, ContentsAre
  <2>2. \A x \in Comments :
          /\ parts[x] \in Contents /\ parts[x][f] = rows[x].parts[f]
          /\ \A g \in Parts : g # f => parts[x][g] = link.shown[x].parts[g]
    <3> TAKE x \in Comments
    <3> DEFINE k == link.shown[x].parts
               new == rows[x].parts[f]
    <3>1. k \in Contents /\ parts[x] = [k EXCEPT ![f] = new] /\ new \in SUBSET Attached
      BY <1>1, <2>1, ThingsComments DEF Shelf
    <3> HIDE DEF k, parts, new
    <3>2. /\ parts[x] \in Contents /\ parts[x][f] = new
          /\ \A g \in Parts : g # f => parts[x][g] = k[g]
      BY <1>3, <3>1 DEF Contents, Parts
    <3>3. QED
      BY <3>2 DEF k, new
  <2> HIDE DEF parts
  <2>3. \A x \in Comments : shown[x] = IF x \in link.ids
                                       THEN [link.shown[x] EXCEPT !.parts = parts[x]]
                                       ELSE link.shown[x]
    BY ThingsComments DEF CC!With
  <2>4. \A x \in Comments :
          /\ [link.shown[x] EXCEPT !.parts = parts[x]] \in Shelf
          /\ [link.shown[x] EXCEPT !.parts = parts[x]].parts = parts[x]
          /\ [link.shown[x] EXCEPT !.parts = parts[x]].replies = link.shown[x].replies
          /\ [link.shown[x] EXCEPT !.parts = parts[x]].count = link.shown[x].count
    BY <1>1, <2>2 DEF Shelf
  <2>5. shown = [x \in Comments |-> shown[x]]
    BY ThingsComments DEF CC!With
  <2> HIDE DEF shown
  <2>6. shown \in [Comments -> Shelf]
    <3>1. \A x \in Comments : shown[x] \in Shelf
      BY <1>1, <2>3, <2>4
    <3>2. QED
      BY <2>5, <3>1
  <2>7. \A x \in Comments : shown[x].replies = link.shown[x].replies
          /\ shown[x].count = link.shown[x].count
    BY <2>3, <2>4
  <2> DEFINE w == [link EXCEPT !.pc = next, !.ids = link.ids, !.page = link.page,
    !.shown = shown]
  <2>8. link' = w
    BY <1>4 DEF CC!Show
  <2>9. /\ w \in PageState /\ w.pc = next /\ w.page = link.page /\ w.ids = link.ids
             /\ w.shown = shown
        /\ w.failed = link.failed /\ w.changed = link.changed
    BY <1>1, <1>3, <2>6 DEF PageState
  <2> HIDE DEF w
  <2>10. Reps(w) = Reps(link)
    BY <1>1, <2>7, <2>9 DEF Reps, PageState
  <2>11. Goes(w, f)
    BY <1>1, <1>2, <1>3, <2>9, <2>10, PageGoes
  <2>12. \A x \in link.ids :
           /\ Got(w, x, f) = ValueOf(x, f)
           /\ w.shown[x].parts.tags = link.shown[x].parts.tags
           /\ \A g \in Looks : g # f => Got(w, x, g) = Got(link, x, g)
    <3> TAKE x \in link.ids
    <3>0. x \in Comments
      BY <1>1
    <3>1. /\ x \in Comments /\ w.shown[x].parts = parts[x]
          /\ w.shown[x].replies = link.shown[x].replies
               /\ w.shown[x].count = link.shown[x].count
      <4>1. shown[x] = [link.shown[x] EXCEPT !.parts = parts[x]]
        BY <2>3, <3>0
      <4>2. shown[x].parts = parts[x]
        BY <2>4, <3>0, <4>1
      <4>3. QED
        BY <2>7, <2>9, <3>0, <4>2
    <3>2. /\ parts[x][f] = rows[x].parts[f] /\ parts[x].tags = link.shown[x].parts.tags
          /\ f # "media" => parts[x].media = link.shown[x].parts.media
          /\ f # "mentions" => parts[x].mentions = link.shown[x].parts.mentions
      BY <1>3, <2>2, <3>1 DEF Parts
    <3>3. QED
      BY <1>3, <3>1, <3>2 DEF Got, ValueOf, Looks
  <2>13. \A x \in Comments : x \notin link.ids => w.shown[x] = link.shown[x]
    BY <2>3, <2>9
  <2>14. LookedUp(w, f)
    BY <2>9, <2>11, <2>12, <2>13 DEF LookedUp, Goes
  <2>15. Shows(w)
    BY <1>1, <1>3, <2>14, LookUpShows
  <2>16. QED
    BY <1>3, <2>8, <2>9, <2>14, <2>15, PageKept DEF LookedUp
<1>5. CASE CC!Miss(next, link.ids, f)
  <2> DEFINE failed == link.failed \cup {<<x, f>> : x \in link.ids}
             w == [link EXCEPT !.pc = next, !.ids = link.ids, !.faults = link.faults + 1,
               !.failed = failed]
  <2>1. link' = w
    BY <1>5 DEF CC!Miss
  <2>2. link.faults + 1 \in Nat /\ failed \in SUBSET (Comments \X Looks)
    BY <1>1, <1>3 DEF PageState
  <2> HIDE DEF failed
  <2>3. /\ w \in PageState /\ w.pc = next /\ w.page = link.page /\ w.ids = link.ids
             /\ w.shown = link.shown
        /\ w.failed = failed /\ w.changed = link.changed
    BY <1>1, <1>3, <2>2 DEF PageState
  <2> HIDE DEF w
  <2>4. Reps(w) = Reps(link)
    BY <2>3 DEF Reps
  <2>5. Goes(w, f)
    BY <1>1, <1>2, <1>3, <2>3, <2>4, PageGoes
  <2>6. LookedUp(w, f)
    BY <2>3, <2>5 DEF LookedUp, Goes, failed
  <2>7. Shows(w)
    BY <1>1, <1>3, <2>6, LookUpShows
  <2>8. QED
    BY <1>3, <2>1, <2>3, <2>6, <2>7, PageKept DEF LookedUp
<1>6. QED
  BY <1>2, <1>4, <1>5 DEF CC!Fill

(* The number of replies of each.                                          *)
LEMMA GetReplyCountsKeeps ==
  ASSUME CommentsInv, CC!GetReplyCounts
  PROVE  CommentsInv'
<1>1. /\ link \in PageState /\ rows \in [Comments -> CommentRow] /\ CommentPages
      /\ link.shown \in [Comments -> Shelf] /\ link.ids \subseteq Comments
      /\ link.page \subseteq Comments
  BY DEF CommentsInv, CommentPages, CommentRows, PageState
<1> DEFINE next == IF link.ids = link.page THEN "done" ELSE "counts"
           shown == CC!With("count", [c \in Comments |-> CC!Cardinality(CC!RepliesOf(c))])
<1>2. link.pc = "counts" /\ UNCHANGED <<rows, active, proc>> /\ "count" \in Looks
      /\ next \in {"counts", "done"}
  BY DEF CC!GetReplyCounts, CC!Show, CC!Miss, Looks
<1>3. CASE CC!Show(next, link.page, link.page, shown)
  <2>1. \A x \in Comments : CC!Cardinality(CC!RepliesOf(x)) \in Counts
    BY DEF Counts, CC!RepliesOf
  <2>2. \A x \in Comments :
          /\ shown[x] \in Shelf
          /\ shown[x].count = IF x \in link.ids
                              THEN CC!Cardinality(CC!RepliesOf(x)) ELSE link.shown[x].count
          /\ shown[x].replies = link.shown[x].replies /\ shown[x].parts = link.shown[x].parts
          /\ x \notin link.ids => shown[x] = link.shown[x]
    <3> TAKE x \in Comments
    <3>1. PICK n \in Counts : n = CC!Cardinality(CC!RepliesOf(x))
      BY <2>1
    <3>2. shown[x] = IF x \in link.ids
                     THEN [link.shown[x] EXCEPT !.count = n] ELSE link.shown[x]
      BY <3>1, ThingsComments DEF CC!With
    <3>3. link.shown[x] \in Shelf
      BY <1>1
    <3> DEFINE new == [link.shown[x] EXCEPT !.count = n]
    <3>4. /\ new \in Shelf /\ new.count = n
          /\ new.replies = link.shown[x].replies /\ new.parts = link.shown[x].parts
      BY <3>3 DEF Shelf
    <3> HIDE DEF new, shown
    <3>5. shown[x] = IF x \in link.ids THEN new ELSE link.shown[x]
      BY <3>2 DEF new
    <3>6. QED
      BY <3>1, <3>3, <3>4, <3>5
  <2>4. shown = [x \in Comments |-> shown[x]]
    BY ThingsComments DEF CC!With
  <2> HIDE DEF shown
  <2>5. shown \in [Comments -> Shelf]
    <3>1. \A x \in Comments : shown[x] \in Shelf
      BY <2>2
    <3>2. QED
      BY <2>4, <3>1
  <2>6. \A x \in Comments : shown[x].replies = link.shown[x].replies
          /\ shown[x].parts = link.shown[x].parts
    BY <2>2
  <2> DEFINE w == [link EXCEPT !.pc = next, !.ids = link.page, !.page = link.page,
    !.shown = shown]
  <2>7. link' = w
    BY <1>3 DEF CC!Show
  <2>8. /\ w \in PageState /\ w.pc = next /\ w.page = link.page /\ w.ids = link.page
             /\ w.shown = shown
        /\ w.failed = link.failed /\ w.changed = link.changed
    BY <1>1, <1>2, <2>5 DEF PageState
  <2> HIDE DEF w
  <2>9. Reps(w) = Reps(link)
    BY <1>1, <2>6, <2>8 DEF Reps
  <2>10. Goes(w, "count")
    BY <1>1, <1>2, <2>8, <2>9, PageGoes
  <2>11. \A x \in link.ids :
           /\ Got(w, x, "count") = ValueOf(x, "count")
           /\ w.shown[x].parts.tags = link.shown[x].parts.tags
           /\ \A g \in Looks : g # "count" => Got(w, x, g) = Got(link, x, g)
    <3> TAKE x \in link.ids
    <3>1. /\ x \in Comments /\ w.shown[x].count = CC!Cardinality(CC!RepliesOf(x))
          /\ w.shown[x].replies = link.shown[x].replies
               /\ w.shown[x].parts = link.shown[x].parts
      BY <1>1, <2>2, <2>6, <2>8
    <3>2. QED
      BY <3>1 DEF Got, ValueOf, Looks
  <2>12. \A x \in Comments : x \notin link.ids => w.shown[x] = link.shown[x]
    BY <2>2, <2>8
  <2>13. LookedUp(w, "count")
    BY <2>8, <2>10, <2>11, <2>12 DEF LookedUp, Goes
  <2>14. Shows(w)
    BY <1>1, <1>2, <2>13, LookUpShows
  <2>15. QED
    BY <1>2, <2>7, <2>8, <2>13, <2>14, PageKept DEF LookedUp
<1>4. CASE CC!Miss(next, link.page, "count")
  <2> DEFINE failed == link.failed \cup {<<x, "count">> : x \in link.ids}
             w == [link EXCEPT !.pc = next, !.ids = link.page, !.faults = link.faults + 1,
               !.failed = failed]
  <2>1. link' = w
    BY <1>4 DEF CC!Miss
  <2>2. link.faults + 1 \in Nat /\ failed \in SUBSET (Comments \X Looks)
    BY <1>1, <1>2 DEF PageState
  <2> HIDE DEF failed
  <2>3. /\ w \in PageState /\ w.pc = next /\ w.page = link.page /\ w.ids = link.page
        /\ w.shown = link.shown /\ w.failed = failed /\ w.changed = link.changed
    BY <1>1, <1>2, <2>2 DEF PageState
  <2> HIDE DEF w
  <2>4. Reps(w) = Reps(link)
    BY <2>3 DEF Reps
  <2>5. Goes(w, "count")
    BY <1>1, <1>2, <2>3, <2>4, PageGoes
  <2>6. LookedUp(w, "count")
    BY <2>3, <2>5 DEF LookedUp, Goes, failed
  <2>7. Shows(w)
    BY <1>1, <1>2, <2>6, LookUpShows
  <2>8. QED
    BY <1>2, <2>1, <2>3, <2>6, <2>7, PageKept DEF LookedUp
<1>5. QED
  BY <1>3, <1>4 DEF CC!GetReplyCounts

(* The reader opens the comments of a post or the replies to one of them.  *)
LEMMA OpenCommentsKeeps ==
  ASSUME CommentsInv, CC!OpenComments
  PROVE  CommentsInv'
<1>1. /\ link \in PageState /\ CommentPages /\ Layout(link) /\ Shows(link)
  BY DEF CommentsInv, CommentPages
<1>2. PICK parent \in {NoId} \cup Comments :
        LET page == {c \in Comments : CC!Live(c) /\ rows[c].parent = parent} IN
        link.pc = "off" /\ page # {} /\ CC!Show("enrich", page, page, link.shown)
  BY DEF CC!OpenComments
<1> DEFINE page == {c \in Comments : CC!Live(c) /\ rows[c].parent = parent}
           w == [link EXCEPT !.pc = "enrich", !.ids = page, !.page = page,
             !.shown = link.shown]
<1>3. link.pc = "off" /\ UNCHANGED <<rows, active, proc>> /\ link' = w
  BY <1>2 DEF CC!Show
<1>4. page \subseteq Comments /\ \A x \in page : rows[x].state # "none"
        /\ rows[x].parent = parent
  BY DEF CC!Live
<1> HIDE DEF page
<1>5. /\ w \in PageState /\ w.pc = "enrich" /\ w.page = page /\ w.ids = page
           /\ w.shown = link.shown
      /\ w.failed = link.failed /\ w.changed = link.changed
  BY <1>1, <1>4 DEF PageState
<1> HIDE DEF w
<1>6. link.page = {} /\ Reps(link) = {} /\ \A x \in Comments : link.shown[x] = CC!Blank
  BY <1>1, <1>3 DEF Layout, Shows, Reps
<1>7. Reps(w) = {}
  BY <1>4, <1>5, <1>6, BlankIs DEF Reps
<1>8. Layout(w) /\ Parents(w)
  BY <1>4, <1>5, <1>7 DEF Layout, Parents
<1>9. \A x \in Comments : FilledFor(w, x) = {} /\ FilledFor(link, x) = {}
  BY <1>5, <1>6, <1>7 DEF FilledFor, FilledPage
<1>10. Shows(w)
  <2>1. \A x \in Comments : w.shown[x].parts.tags = {} /\ w.shown[x] = CC!Blank
    BY <1>5, <1>6, BlankIs
  <2>2. \A x \in Comments, f \in Looks : <<x, f>> \notin w.failed
    BY <1>1, <1>5, <1>9 DEF Shows
  <2>3. \A x \in Comments, f \in Looks : Got(w, x, f) = NoValue(f)
    BY <2>1, BlankIs
  <2>4. QED
    BY <1>4, <1>5, <1>7, <1>9, <2>1, <2>2, <2>3 DEF Shows
<1>11. QED
  BY <1>3, <1>5, <1>8, <1>10, PageKept

(* The first replies to each comment of the page, if the look-up works.    *)
LEMMA GetRepliesPreviewKeeps ==
  ASSUME CommentsInv, CC!GetRepliesPreview
  PROVE  CommentsInv'
<1>1. /\ link \in PageState /\ CommentPages /\ Layout(link) /\ Shows(link) /\ Parents(link)
      /\ link.shown \in [Comments -> Shelf] /\ link.page \subseteq Comments
  BY DEF CommentsInv, CommentPages, PageState
<1> DEFINE found == UNION {CC!Preview(c) : c \in link.page}
           next == IF found = {} THEN "counts" ELSE "enrich"
           ids == IF found = {} THEN link.page ELSE found
           shown == CC!With("replies", [c \in Comments |-> CC!Preview(c)])
<1>2. link.pc = "previews" /\ UNCHANGED <<rows, active, proc>> /\ "replies" \in Looks
  BY DEF CC!GetRepliesPreview, CC!Show, CC!Miss, Looks
<1>3. /\ link.ids = link.page /\ Reps(link) = {}
      /\ \A x \in link.page : rows[x].parent = NoId
  BY <1>1, <1>2 DEF Layout, Parents
<1>4. /\ FilledPage(link) = {"media", "mentions"}
  BY <1>2, <1>3 DEF FilledPage
<1>5. \A x \in Comments : FilledFor(link, x) = IF x \in link.page
                                               THEN {"media", "mentions"} ELSE {}
  BY <1>3, <1>4 DEF FilledFor
<1>6. CASE CC!Show(next, ids, link.page, shown)
  <2>1. \A x \in Comments : CC!Preview(x) \in SUBSET Comments
                           /\ \A d \in CC!Preview(x) : rows[d].parent = x
                                /\ rows[d].state # "none"
    BY DEF CC!Preview, CC!RepliesOf, CC!Live
  <2>2. \A x \in Comments :
          /\ shown[x] \in Shelf
          /\ shown[x].replies = IF x \in link.page
                                THEN CC!Preview(x) ELSE link.shown[x].replies
          /\ shown[x].count = link.shown[x].count /\ shown[x].parts = link.shown[x].parts
          /\ x \notin link.page => shown[x] = link.shown[x]
    <3> TAKE x \in Comments
    <3>1. PICK new \in SUBSET Comments : new = CC!Preview(x)
      BY <2>1
    <3>2. shown[x] = IF x \in link.page
                     THEN [link.shown[x] EXCEPT !.replies = new] ELSE link.shown[x]
      BY <1>3, <3>1, ThingsComments DEF CC!With
    <3>3. link.shown[x] \in Shelf
      BY <1>1
    <3> DEFINE other == [link.shown[x] EXCEPT !.replies = new]
    <3>4. /\ other \in Shelf /\ other.replies = new
          /\ other.count = link.shown[x].count /\ other.parts = link.shown[x].parts
      BY <3>3 DEF Shelf
    <3> HIDE DEF other, shown
    <3>5. shown[x] = IF x \in link.page THEN other ELSE link.shown[x]
      BY <3>2 DEF other
    <3>6. QED
      BY <3>1, <3>3, <3>4, <3>5
  <2>3. shown \in [Comments -> Shelf]
    <3>1. shown = [x \in Comments |-> shown[x]]
      BY ThingsComments DEF CC!With
    <3> HIDE DEF shown
    <3>2. QED
      BY <2>2, <3>1
  <2>4. found \subseteq Comments /\ \A x \in found : rows[x].parent # NoId
          /\ rows[x].state # "none"
    BY <1>1, <2>1, ContentsAssumption
  <2>5. found \cap link.page = {}
    BY <1>3, <2>4
  <2> DEFINE w == [link EXCEPT !.pc = next, !.ids = ids, !.page = link.page, !.shown = shown]
  <2>6. link' = w
    BY <1>6 DEF CC!Show
  <2> HIDE DEF found, shown
  <2>7. next \in {"counts", "enrich"} /\ ids \subseteq Comments
    BY <1>1, <2>4
  <2>8. /\ w \in PageState /\ w.pc = next /\ w.page = link.page /\ w.ids = ids
             /\ w.shown = shown
        /\ w.failed = link.failed /\ w.changed = link.changed
    BY <1>1, <2>3, <2>7 DEF PageState
  <2> HIDE DEF w
  <2>9. Reps(w) = found
    BY <1>1, <2>2, <2>8 DEF Reps, found
  <2>10. ids = link.page <=> found = {}
    BY <2>5
  <2>11. Layout(w)
    BY <1>1, <1>2, <2>7, <2>8, <2>9, <2>10 DEF Layout
  <2>12. Parents(w)
    BY <1>1, <1>3, <2>4, <2>8, <2>9 DEF Parents
  <2>13. FilledPage(w) = {"media", "mentions", "replies"}
         /\ (found # {} => FilledReps(w) = {})
    BY <2>8, <2>10 DEF FilledPage, FilledReps
  <2>14. \A x \in Comments : FilledFor(w, x) = FilledFor(link, x) \cup IF x \in link.page
                                                                       THEN {"replies"}
    ELSE {}
    <3>1. \A x \in link.page : FilledFor(w, x) = {"media", "mentions", "replies"}
      BY <1>3, <2>8, <2>13 DEF FilledFor
    <3>2. \A x \in Comments : x \notin link.page => FilledFor(w, x) = {}
      BY <2>8, <2>9, <2>13 DEF FilledFor
    <3>3. QED
      BY <1>5, <3>1, <3>2
  <2>15. Shows(w)
    <3>1. /\ \A x \in Comments : link.shown[x].parts.tags = {}
          /\ \A x \in Comments \ link.page : link.shown[x] = CC!Blank
          /\ \A x \in Comments, f \in Looks : <<x, f>> \in link.failed =>
               f \in FilledFor(link, x)
          /\ \A x \in link.page \ link.changed, f \in Looks :
               Got(link, x, f)
                 = IF f \in FilledFor(link, x) /\ <<x, f>> \notin link.failed
                   THEN ValueOf(x, f) ELSE NoValue(f)
      BY <1>1, <1>3 DEF Shows
    <3>2. \A x \in Comments : w.shown[x].parts.tags = {}
      BY <2>2, <2>8, <3>1
    <3>3. \A x \in Comments \ w.page : w.shown[x] = CC!Blank
      BY <2>2, <2>8, <3>1
    <3>4. \A x \in Comments, f \in Looks : <<x, f>> \in w.failed => f \in FilledFor(w, x)
      BY <2>8, <2>14, <3>1
    <3>5. ASSUME NEW x \in (w.page \cup Reps(w)) \ w.changed, NEW f \in Looks
          PROVE  Got(w, x, f)
                   = IF f \in FilledFor(w, x) /\ <<x, f>> \notin w.failed
                     THEN ValueOf(x, f) ELSE NoValue(f)
      <4>1. CASE x \in link.page
        <5>1. x \in Comments /\ x \in link.page \ link.changed
          BY <1>1, <2>8, <3>5, <4>1
        <5>2. w.shown[x].replies = CC!Preview(x) /\ w.shown[x].count = link.shown[x].count
              /\ w.shown[x].parts = link.shown[x].parts
          BY <2>2, <2>8, <4>1, <5>1
        <5>3. CASE f = "replies"
          <6>1. Got(w, x, f) = ValueOf(x, f)
            BY <5>2, <5>3 DEF Got, ValueOf
          <6>2. f \in FilledFor(w, x) /\ f \notin FilledFor(link, x)
            BY <1>5, <2>14, <4>1, <5>1, <5>3
          <6>3. QED
            BY <2>8, <3>1, <5>1, <6>1, <6>2
        <5>4. CASE f # "replies"
          <6>1. Got(w, x, f) = Got(link, x, f)
            BY <5>2, <5>4 DEF Got, Looks
          <6>2. f \in FilledFor(w, x) <=> f \in FilledFor(link, x)
            BY <2>14, <5>1, <5>4
          <6>3. QED
            BY <2>8, <3>1, <5>1, <6>1, <6>2
        <5>5. QED
          BY <5>3, <5>4
      <4>2. CASE x \notin link.page
        <5>1. x \in Comments \ link.page
          BY <2>4, <2>8, <2>9, <3>5, <4>2
        <5>2. Got(w, x, f) = NoValue(f)
          BY <2>8, <3>3, <5>1, BlankIs
        <5>3. FilledFor(w, x) = {}
          BY <1>5, <2>14, <5>1
        <5>4. QED
          BY <5>2, <5>3
      <4>3. QED
        BY <4>1, <4>2
    <3>6. QED
      BY <3>2, <3>3, <3>4, <3>5 DEF Shows
  <2>16. QED
    BY <1>2, <2>6, <2>8, <2>11, <2>12, <2>15, PageKept
<1>7. CASE CC!Miss("counts", link.page, "replies")
  <2> DEFINE failed == link.failed \cup {<<x, "replies">> : x \in link.ids}
             w == [link EXCEPT !.pc = "counts", !.ids = link.page,
               !.faults = link.faults + 1, !.failed = failed]
  <2>1. link' = w
    BY <1>7 DEF CC!Miss
  <2>2. link.faults + 1 \in Nat /\ failed \in SUBSET (Comments \X Looks)
    BY <1>1, <1>2, <1>3 DEF PageState
  <2> HIDE DEF failed
  <2>3. /\ w \in PageState /\ w.pc = "counts" /\ w.page = link.page /\ w.ids = link.page
        /\ w.shown = link.shown /\ w.failed = failed /\ w.changed = link.changed
    BY <1>1, <2>2 DEF PageState
  <2> HIDE DEF w
  <2>4. Reps(w) = {} /\ Reps(w) = Reps(link)
    BY <1>3, <2>3 DEF Reps
  <2>5. Layout(w) /\ Parents(w)
    BY <1>1, <1>3, <2>3, <2>4 DEF Layout, Parents
  <2>6. FilledPage(w) = {"media", "mentions", "replies"}
    BY <2>3 DEF FilledPage
  <2>7. \A x \in Comments : FilledFor(w, x) = IF x \in link.page
                                              THEN {"media", "mentions", "replies"} ELSE {}
    BY <1>3, <2>3, <2>4, <2>6 DEF FilledFor
  <2>8. /\ \A x \in Comments :
             FilledFor(w, x) = FilledFor(link, x) \cup IF x \in link.ids
                                                       THEN {"replies"} ELSE {}
        /\ \A x \in link.ids : "replies" \notin FilledFor(link, x)
    BY <1>1, <1>3, <1>5, <2>7
  <2>9. LookedUp(w, "replies")
    BY <2>3, <2>4, <2>5, <2>8 DEF LookedUp, failed
  <2>10. Shows(w)
    BY <1>1, <1>2, <2>9, LookUpShows
  <2>11. QED
    BY <1>2, <2>1, <2>3, <2>5, <2>10, PageKept
<1>8. QED
  BY <1>6, <1>7 DEF CC!GetRepliesPreview

(* There are no posts here.                                                *)
LEMMA NoPosts ==
  ASSUME CommentsInv
  PROVE  /\ \A r \in Commenters :
              /\ ~CC!CreatePost(r) /\ ~CC!UpdatePost(r) /\ ~CC!DeletePost(r)
                   /\ ~CC!UpdateRow(r)
              /\ ~CC!AddPostMedia(r) /\ ~CC!MediaAdded(r) /\ ~CC!DeletePostHashtags(r)
              /\ ~CC!UpsertHashtag(r) /\ ~CC!LinkPostHashtags(r)
                   /\ ~CC!DeleteMentionsByPost(r)
              /\ ~CC!InsertMention(r) /\ ~CC!CommitPost(r)
         /\ ~CC!OpenPosts /\ ~CC!GetMedia /\ ~CC!GetTags /\ ~CC!GetMentions
<1>1. \A r \in Commenters : proc[r].pc \notin {"media", "update", "untag", "tags",
        "unmention", "mentions"}
  BY DEF CommentsInv, CommentRequests, CommentRecord
<1>2. link.pc \notin {"media", "tags", "mentions"}
  BY DEF CommentsInv, CommentPages, PageState
<1>3. \A r \in Commenters : ~CC!CreatePost(r) /\ ~CC!UpdatePost(r) /\ ~CC!DeletePost(r)
  BY ContentsAssumption DEF CC!CreatePost, CC!UpdatePost, CC!DeletePost
<1>4. \A r \in Commenters : ~CC!UpdateRow(r) /\ ~CC!AddPostMedia(r) /\ ~CC!MediaAdded(r)
        /\ ~CC!DeletePostHashtags(r)
  BY <1>1 DEF CC!UpdateRow, CC!AddPostMedia, CC!MediaAdded, CC!DeletePostHashtags, CC!At
<1>5. \A r \in Commenters : ~CC!UpsertHashtag(r) /\ ~CC!LinkPostHashtags(r)
  BY <1>1 DEF CC!UpsertHashtag, CC!LinkPostHashtags, CC!At
<1>6. \A r \in Commenters : ~CC!DeleteMentionsByPost(r) /\ ~CC!InsertMention(r)
        /\ ~CC!CommitPost(r)
  BY <1>1 DEF CC!DeleteMentionsByPost, CC!InsertMention, CC!CommitPost, CC!At
<1>7. ~CC!OpenPosts
  BY ContentsAssumption DEF CC!OpenPosts
<1>8. ~CC!GetMedia /\ ~CC!GetTags /\ ~CC!GetMentions
  BY <1>2 DEF CC!GetMedia, CC!GetTags, CC!GetMentions, CC!Fill
<1>9. QED
  BY <1>3, <1>4, <1>5, <1>6, <1>7, <1>8

LEMMA CommentsStep ==
  ASSUME CommentsInv, CC!Next \/ UNCHANGED <<rows, active, proc, link>>
  PROVE  CommentsInv'
<1>1. CASE \E r \in Commenters : CC!CreateComment(r) \/ CC!DeleteComment(r)
  BY <1>1, AcceptComments
<1>2. CASE \E r \in Commenters : CC!AddCommentMedia(r) \/ CC!CommitComment(r)
  BY <1>2, AddCommentMediaKeeps, CommitCommentKeeps
<1>3. CASE \E r \in Commenters : CC!InsertCommentMention(r)
  BY <1>3, InsertCommentMentionKeeps
<1>4. CASE \E r \in Commenters : CC!CommentDone(r) \/ CC!SoftDelete(r) \/ CC!Fail(r)
  BY <1>4, CommentEnds
<1>5. CASE CC!EnrichMedia \/ CC!EnrichCommentMentions
  BY <1>5, EnrichKeeps
<1>6. CASE CC!OpenComments \/ CC!GetRepliesPreview \/ CC!GetReplyCounts
  BY <1>6, OpenCommentsKeeps, GetRepliesPreviewKeeps, GetReplyCountsKeeps
<1>7. CASE UNCHANGED <<rows, active, proc, link>>
  <2>1. CommentPages'
    BY <1>7, CommentPagesSame
  <2>2. CommentRows' /\ CommentRequests'
    BY <1>7, ReaderKeeps
  <2>3. QED
    BY <2>1, <2>2 DEF CommentsInv
<1>8. QED
  BY <1>1, <1>2, <1>3, <1>4, <1>5, <1>6, <1>7, NoPosts DEF CC!Next

LEMMA CommentsWhole == CommentsInv => CC!ContentsWhole
<1> SUFFICES ASSUME CommentsInv PROVE CC!ContentsWhole
  OBVIOUS
<1>1. CommentRows /\ link \in PageState /\ Layout(link) /\ Parents(link) /\ Shows(link)
  BY DEF CommentsInv, CommentPages
<1>2. \A x \in CC!Things : (CC!Live(x) /\ ~CC!Telling(x)) => rows[x].parts = active[x]
  BY <1>1, ThingsComments DEF CommentRows
<1>3. link.page \subseteq Comments /\ CC!Shown = link.page \cup Reps(link)
        /\ Reps(link) \subseteq Comments
  BY <1>1 DEF CC!Shown, Reps, PageState, Shelf
<1>4. ASSUME link.pc = "done", NEW x \in CC!Shown \ link.changed
      PROVE  /\ link.shown[x].parts = [f \in DOMAIN CC!Nothing |-> CC!Unless(f, x,
                  rows[x].parts[f], {})]
             /\ link.shown[x].count = CC!Unless("count", x, CC!Cardinality(CC!RepliesOf(x)),
                  0)
             /\ (x \in link.page /\ rows[x].parent = NoId) =>
                  link.shown[x].replies = CC!Unless("replies", x, CC!Preview(x), {})
  <2>1. x \in Comments /\ x \in (link.page \cup Reps(link)) \ link.changed
    BY <1>3, <1>4
  <2>2. link.ids = link.page
    BY <1>1, <1>4 DEF Layout
  <2>3. FilledPage(link) = {"media", "mentions", "replies", "count"}
        /\ FilledReps(link) = {"media", "mentions", "count"}
    BY <1>4, <2>2 DEF FilledPage, FilledReps
  <2>4. /\ {"media", "mentions", "count"} \subseteq FilledFor(link, x)
        /\ (x \in link.page /\ rows[x].parent = NoId) => "replies" \in FilledFor(link, x)
    BY <2>1, <2>3 DEF FilledFor
  <2>5. /\ \A f \in Looks : f \in FilledFor(link, x) =>
             Got(link, x, f) = IF <<x, f>> \notin link.failed
                               THEN ValueOf(x, f) ELSE NoValue(f)
        /\ link.shown[x].parts.tags = {} /\ rows[x].parts.tags = {}
    BY <1>1, <2>1 DEF Shows, CommentRows
  <2>6. link.shown[x].parts.media = CC!Unless("media", x, rows[x].parts.media, {})
    BY <2>4, <2>5 DEF Looks, Got, ValueOf, NoValue, CC!Unless
  <2>7. link.shown[x].parts.mentions = CC!Unless("mentions", x, rows[x].parts.mentions, {})
    BY <2>4, <2>5 DEF Looks, Got, ValueOf, NoValue, CC!Unless
  <2>8. link.shown[x].parts.tags = CC!Unless("tags", x, rows[x].parts.tags, {})
    BY <2>5 DEF CC!Unless
  <2>9. link.shown[x].count = CC!Unless("count", x, CC!Cardinality(CC!RepliesOf(x)), 0)
    BY <2>4, <2>5 DEF Looks, Got, ValueOf, NoValue, CC!Unless
  <2>10. (x \in link.page /\ rows[x].parent = NoId) =>
           link.shown[x].replies = CC!Unless("replies", x, CC!Preview(x), {})
    BY <2>4, <2>5 DEF Looks, Got, ValueOf, NoValue, CC!Unless
  <2>11. \A f \in Parts : link.shown[x].parts[f] = CC!Unless(f, x, rows[x].parts[f], {})
    BY <2>6, <2>7, <2>8 DEF Parts
  <2>12. link.shown[x].parts = [f \in Parts |-> link.shown[x].parts[f]]
    BY <1>1, <2>1, ContentsAre DEF PageState, Shelf
  <2>13. link.shown[x].parts = [f \in DOMAIN CC!Nothing |-> CC!Unless(f, x,
           rows[x].parts[f], {})]
    BY <2>11, <2>12, CommentNothing
  <2>14. QED
    BY <2>9, <2>10, <2>13
<1>5. QED
  BY <1>2, <1>4 DEF CC!ContentsWhole

-----------------------------------------------------------------------------
(* Each part goes as its specification says, and is the only one.          *)
LEMMA PostsStay == PC!Spec => []PC!ContentsWhole
<1>1. PostsInv /\ [PC!Next]_PC!vars => PostsInv'
  BY PostsStep DEF PC!vars
<1>2. QED
  BY <1>1, InitPosts, PostsWhole, PTL DEF PC!Spec

LEMMA CommentsStay == CC!Spec => []CC!ContentsWhole
<1>1. CommentsInv /\ [CC!Next]_CC!vars => CommentsInv'
  BY CommentsStep DEF CC!vars
<1>2. QED
  BY <1>1, InitComments, CommentsWhole, PTL DEF CC!Spec

LEMMA PostsApart ==
  part = "posts" /\ Spec => PC!Spec /\ [](part = "posts")
<1>1. part = "posts" /\ Init => PC!Init
  BY DEF Init
<1>2. part = "posts" /\ [Next]_vars => [PC!Next]_PC!vars /\ (part = "posts")'
  BY DEF Next, vars, PC!vars
<1>3. QED
  BY <1>1, <1>2, PTL DEF Spec, PC!Spec

LEMMA CommentsApart ==
  part = "comments" /\ Spec => CC!Spec /\ [](part = "comments")
<1>1. part = "comments" /\ Init => CC!Init
  BY DEF Init
<1>2. part = "comments" /\ [Next]_vars => [CC!Next]_CC!vars /\ (part = "comments")'
  BY DEF Next, vars, CC!vars
<1>3. QED
  BY <1>1, <1>2, PTL DEF Spec, CC!Spec

-----------------------------------------------------------------------------
(* Of the requests that present one refresh token or one reset link, at    *)
(* most one is given a new token or sets the password (the conditional     *)
(* UPDATE of ConsumeRefreshToken and the claim of ResetPassword).          *)
THEOREM RedeemedOnce ==
  ASSUME NoToken \notin RotatedTokens \cup ResetTokens, NoLink \notin ResetLinks
  PROVE  Spec => []SpentOnce
<1>1. RotationProofs!Spec => []RotationProofs!SpentOnce
  BY RotationProofs!RedeemedOnce DEF RotationProofs!RedeemedOnce
<1>2. part = "rotation" /\ RotationProofs!SpentOnce => SpentOnce
  BY RotationSame DEF SpentOnce
<1>3. ResetProofs!Spec => []ResetProofs!SpentOnce
  BY ResetProofs!RedeemedOnce DEF ResetProofs!RedeemedOnce
<1>4. part = "reset" /\ ResetProofs!SpentOnce => SpentOnce
  BY ResetSame DEF SpentOnce
<1>5. part \notin {"rotation", "reset"} => SpentOnce
  BY DEF SpentOnce
<1>6. part \notin {"rotation", "reset"} /\ [Next]_vars => (part \notin {"rotation", "reset"})'
  BY DEF Next, vars
<1>7. part = "rotation" \/ part = "reset" \/ part \notin {"rotation", "reset"}
  OBVIOUS
<1>8. QED
  BY <1>1, <1>2, <1>3, <1>4, <1>5, <1>6, <1>7, RotationApart, ResetApart, PTL DEF Spec

(* A session opened with an earlier password is over once the change has   *)
(* revoked the tokens, but for the exceptions PasswordEndsSessions names   *)
(* (ChangePassword, ResetPassword, AdminResetPassword against log-ins and  *)
(* rotations under way).                                                   *)
THEOREM OldSessionsEnd ==
  ASSUME NoToken \notin RotatedTokens \cup ResetTokens, NoLink \notin ResetLinks
  PROVE  Spec => []PasswordEndsSessions
<1>1. RotationProofs!Spec => []RotationProofs!PasswordEndsSessions
  BY RotationProofs!OldSessionsEnd DEF RotationProofs!OldSessionsEnd
<1>2. part = "rotation" /\ RotationProofs!PasswordEndsSessions => PasswordEndsSessions
  BY RotationSame DEF PasswordEndsSessions
<1>3. ResetProofs!Spec => []ResetProofs!PasswordEndsSessions
  BY ResetProofs!OldSessionsEnd DEF ResetProofs!OldSessionsEnd
<1>4. part = "reset" /\ ResetProofs!PasswordEndsSessions => PasswordEndsSessions
  BY ResetSame DEF PasswordEndsSessions
<1>5. part \notin {"rotation", "reset"} => PasswordEndsSessions
  BY DEF PasswordEndsSessions
<1>6. part \notin {"rotation", "reset"} /\ [Next]_vars => (part \notin {"rotation", "reset"})'
  BY DEF Next, vars
<1>7. part = "rotation" \/ part = "reset" \/ part \notin {"rotation", "reset"}
  OBVIOUS
<1>8. QED
  BY <1>1, <1>2, <1>3, <1>4, <1>5, <1>6, <1>7, RotationApart, ResetApart, PTL DEF Spec

(* Two accounts never share a name or a mailbox, but for the configured    *)
(* root address (registration, changes of an address, operator commands    *)
(* and servers that boot together).                                        *)
THEOREM OneAccountEach ==
  ASSUME RootName \in Names, RootBox \in Boxes
  PROVE  Spec => []AccountsDistinct
<1>1. M!Spec => []M!AccountsDistinct
  BY RowsStayDistinct
<1>2. M!AccountsDistinct => AccountsDistinct
  BY DEF AccountsDistinct
<1>3. part # "members" => AccountsDistinct
  BY DEF AccountsDistinct
<1>4. part # "members" /\ [Next]_vars => (part # "members")'
  BY DEF Next, vars
<1>5. part = "members" \/ part # "members"
  OBVIOUS
<1>6. QED
  BY <1>1, <1>2, <1>3, <1>4, <1>5, MembersApart, PTL DEF Spec

(* The picture an account names is in the storage, but for a lost answer   *)
(* (UpdateProfile and the removal or undo that follows it).                *)
THEOREM PicturesServed ==
  ASSUME NoKey \notin RotatedTokens
  PROVE  Spec => []PictureServed
<1>1. P!Spec => []P!PictureServed
  BY PicturesStay
<1>2. P!PictureServed => PictureServed
  BY DEF PictureServed
<1>3. part # "pictures" => PictureServed
  BY DEF PictureServed
<1>4. part # "pictures" /\ [Next]_vars => (part # "pictures")'
  BY DEF Next, vars
<1>5. part = "pictures" \/ part # "pictures"
  OBVIOUS
<1>6. QED
  BY <1>1, <1>2, <1>3, <1>4, <1>5, ImagesApart, PTL DEF Spec

(* What the browser holds is what it was told: a session that a logout     *)
(* ended has no good token, and with every answer delivered, in whatever   *)
(* order, tabs that refresh together have not logged the browser out       *)
(* (RefreshToken, Logout, LogoutAllSessions and the cookies they set).     *)
THEOREM CookiesHonest ==
  ASSUME NoToken \notin RotatedTokens
  PROVE  Spec => []CookieHonest
<1>1. C!Spec => []C!CookieHonest
  BY CookiesStay
<1>2. C!CookieHonest => CookieHonest
  BY DEF CookieHonest
<1>3. part # "browser" => CookieHonest
  BY DEF CookieHonest
<1>4. part # "browser" /\ [Next]_vars => (part # "browser")'
  BY DEF Next, vars
<1>5. part = "browser" \/ part # "browser"
  OBVIOUS
<1>6. QED
  BY <1>1, <1>2, <1>3, <1>4, <1>5, BrowserApart, PTL DEF Spec

(* What hangs on a post is what the last change that committed asked for,  *)
(* never a mixture of two, and a page shows of every row that did not      *)
(* change under it what hangs on it, with the first replies and their      *)
(* number, or a blank where a look-up failed (the transactions of posts,   *)
(* CreateComment and what it adds after its commit, Hydrate, and the       *)
(* enrichment of comments).                                                *)
THEOREM ContentsComplete == Spec => []ContentsWhole
<1>1. PC!ContentsWhole /\ part = "posts" => ContentsWhole
  BY DEF ContentsWhole
<1>2. CC!ContentsWhole /\ part = "comments" => ContentsWhole
  BY DEF ContentsWhole
<1>3. part \notin {"posts", "comments"} => ContentsWhole
  BY DEF ContentsWhole
<1>4. part \notin {"posts", "comments"} /\ [Next]_vars => (part \notin {"posts", "comments"})'
  BY DEF Next, vars
<1>5. part = "posts" \/ part = "comments" \/ part \notin {"posts", "comments"}
  OBVIOUS
<1>6. QED
  BY <1>1, <1>2, <1>3, <1>4, <1>5, PostsStay, CommentsStay, PostsApart, CommentsApart,
     PTL DEF Spec
=============================================================================
