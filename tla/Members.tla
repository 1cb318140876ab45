------------------------------- MODULE Members -------------------------------
(***************************************************************************)
(* The accounts of the users schema: registration, changes of address,     *)
(* deactivation, roles, and the root account every server makes sure of    *)
(* while it boots.  A request runs its statements one after the other      *)
(* outside a transaction, so what a check has found may be stale when the  *)
(* row is written; the unique indexes have the last word.                  *)
(*                                                                         *)
(* An address is a mailbox and how it is written: the indexes compare the  *)
(* text, a mail server the mailbox.                                        *)
(***************************************************************************)
EXTENDS FiniteSets

CONSTANTS
  Ids,            \* ids of accounts
  Names, Boxes,   \* user names; mailboxes
  Requests,       \* request goroutines
  Servers,        \* instances of the server
  RootName,       \* ROOT_USERNAME
  RootBox,        \* ROOT_EMAIL, stored as configured
  NoId, NoName, NoAddress

Address == [box : Boxes, lower : BOOLEAN]
RootAddress == [box |-> RootBox, lower |-> FALSE]

VARIABLES
  user,     \* the table users: the rows there are
  roles,    \* the table user_roles, of the role "admin"
  proc,     \* where each request is
  server    \* where each server is: down, booting or serving

vars == <<user, roles, proc, server>>

Row == [id : Ids, name : Names, email : Address, active : BOOLEAN]
Idle == [pc |-> "idle", id |-> NoId, name |-> NoName, email |-> NoAddress]
Pcs == {"idle", "named", "hashed", "comparing", "updating", "deactivating", "admitted",
        "assigning", "revoking"}

TypeOK ==
  /\ user \subseteq Row
  /\ roles \subseteq Ids
  /\ proc \in [Requests -> [pc : Pcs, id : Ids \cup {NoId}, name : Names \cup {NoName},
                            email : Address \cup {NoAddress}]]
  /\ server \in [Servers -> {"down", "looking", "loading", "creating", "granting", "serving"}]

Init ==
  /\ user = {}
  /\ roles = {}
  /\ proc = [r \in Requests |-> Idle]
  /\ server = [s \in Servers |-> "down"]

At(r, pc) == proc[r].pc = pc
Become(r, p) == proc' = [proc EXCEPT ![r] = p]
Boot(s, stage) == server' = [server EXCEPT ![s] = stage]
Up == \E s \in Servers : server[s] = "serving"

-----------------------------------------------------------------------------
(* The statements.                                                         *)

\* ExistsUsername, ExistsEmail, ExistsEmailExcludingUser: of active accounts
\* and of deactivated ones.
Exists(field, value, except) == \E u \in user : u[field] = value /\ u.id # except

\* GetUserByEmail, GetUserByID, GetUserByIDAny, GetUserByUsername
Select(field, value, any) == {u \in user : u[field] = value /\ (any \/ u.active)}

\* UNIQUE username, UNIQUE email
Unique(row) ==
  \A u \in user : u.id # row.id => u.name # row.name /\ u.email # row.email

\* CreateUser
Insert(row) == Unique(row) /\ user' = user \cup {row}

Replace(old, row) == user' = (user \ {old}) \cup {row}

\* UpdateUser: an address, whatever is_active has become.
SetEmail(id, email) ==
  \E u \in user : LET row == [u EXCEPT !.email = email] IN
    u.id = id /\ Unique(row) /\ Replace(u, row)

\* DeactivateUser
SetInactive(id) ==
  \E u \in user : u.id = id /\ Replace(u, [u EXCEPT !.active = FALSE])

\* AdminSetUserActive: an unknown id changes no row and is no error.
SetActive(id, active) ==
  user' = {IF u.id = id THEN [u EXCEPT !.active = active] ELSE u : u \in user}

\* AssignRoleToUser does nothing for a role that is held; the foreign key
\* refuses an id without a row.
AssignRole(id) == Select("id", id, TRUE) # {} /\ roles' = roles \cup {id}

\* RemoveRoleFromUser
RemoveRole(id) == roles' = roles \ {id}

\* CheckUserHasAnyRole looks at the role and not at is_active.
HasAnyRole(id) == id \in roles

-----------------------------------------------------------------------------
(* The repository: what the service is told of a statement.                *)

Taken(field, value) == Exists(field, value, NoId)
TakenByOther(email, id) == Exists("email", email, id)

\* The active account, or ErrNotFound.
Found(field, value) == Select(field, value, FALSE)

\* GetUserByIDAny
FoundAny(id) == Select("id", id, TRUE)

\* CreateUser: is_active by default.
NewRow(id, name, email) == [id |-> id, name |-> name, email |-> email, active |-> TRUE]

\* A statement that violates a unique index is a conflict, answered 409; any
\* other failure is a 500.  Either ends the request.
Refused(r) == Become(r, Idle)
Fail(r) == ~At(r, "idle") /\ Refused(r) /\ UNCHANGED <<user, roles, server>>

\* Mutant: the address is kept as it was typed.
AsTyped(a) == a

\* Addresses are trimmed and put in lower case.
Normalized(a) == [a EXCEPT !.lower = TRUE]

-----------------------------------------------------------------------------
(* The service: CreateUser is ExistsUsername, ExistsEmail, CreateUser.     *)

\* What validateCreateRequest and validateUpdateRequest let pass.
Registration == [name : Names, email : Address]

\* GetUserByID, GetUserByUsername, GetUserByEmail
Account(field, value) == {u \in Found(field, value) : u.active}

CheckName(r) ==
  /\ At(r, "idle")
  /\ \E q \in Registration :
       /\ ~Taken("name", q.name)
       /\ Become(r, [Idle EXCEPT !.pc = "named", !.name = q.name, !.email = Normalized(q.email)])
  /\ UNCHANGED <<user, roles, server>>

CheckEmail(r) ==
  /\ At(r, "named")
  /\ IF Taken("email", proc[r].email) THEN Refused(r)
     ELSE Become(r, [proc[r] EXCEPT !.pc = "hashed"])
  /\ UNCHANGED <<user, roles, server>>

NewId == Ids \ {u.id : u \in user}

\* Mutant: the row is written whatever the table has come to hold.
CreateAnyway(r) ==
  /\ At(r, "hashed")
  /\ \E i \in NewId : user' = user \cup {NewRow(i, proc[r].name, proc[r].email)}
  /\ Become(r, Idle)
  /\ UNCHANGED <<roles, server>>

CreateUser(r) ==
  /\ At(r, "hashed")
  /\ \E i \in NewId : Insert(NewRow(i, proc[r].name, proc[r].email))
  /\ Become(r, Idle)
  /\ UNCHANGED <<roles, server>>

\* Register: the tokens and the mails that follow are in Clients and
\* EmailDelivery; if they fail the account is there all the same.
Register(r) == (Up /\ CheckName(r)) \/ CheckEmail(r) \/ CreateUser(r)

-----------------------------------------------------------------------------
(* A member's own account: the handlers let nobody else through.           *)

\* resolveUser, by id or by name
Own(i) == Up /\ Account("id", i) # {}

\* UpdateUser compares the address only when it changes.
LoadForUpdate(r) ==
  /\ At(r, "idle")
  /\ \E i \in Ids, a \in Address :
       /\ Own(i)
       /\ \E u \in Account("id", i) :
            Become(r, [Idle EXCEPT !.pc = IF Normalized(a) = u.email THEN "updating" ELSE "comparing",
                                   !.id = i, !.email = Normalized(a)])
  /\ UNCHANGED <<user, roles, server>>

CompareEmail(r) ==
  /\ At(r, "comparing")
  /\ IF TakenByOther(proc[r].email, proc[r].id) THEN Refused(r)
     ELSE Become(r, [proc[r] EXCEPT !.pc = "updating"])
  /\ UNCHANGED <<user, roles, server>>

UpdateUser(r) ==
  /\ At(r, "updating")
  /\ SetEmail(proc[r].id, proc[r].email)
  /\ Become(r, Idle)
  /\ UNCHANGED <<roles, server>>

LoadForDeactivation(r) ==
  /\ At(r, "idle")
  /\ \E i \in Ids : Own(i) /\ Become(r, [Idle EXCEPT !.pc = "deactivating", !.id = i])
  /\ UNCHANGED <<user, roles, server>>

DeactivateUser(r) ==
  /\ At(r, "deactivating")
  /\ SetInactive(proc[r].id)
  /\ Become(r, Idle)
  /\ UNCHANGED <<roles, server>>

\* The handlers UpdateUser and DeactivateUser.
UpdateAccount(r) == LoadForUpdate(r) \/ CompareEmail(r) \/ UpdateUser(r)
DeactivateAccount(r) == LoadForDeactivation(r) \/ DeactivateUser(r)

-----------------------------------------------------------------------------
(* Administration.  The role is checked before the handler runs, once.     *)

RequireRole(r) ==
  /\ At(r, "idle")
  /\ Up
  /\ \E a \in Ids : HasAnyRole(a) /\ Become(r, [Idle EXCEPT !.pc = "admitted", !.id = a])
  /\ UNCHANGED <<user, roles, server>>

AdminSetActive(r) ==
  /\ At(r, "admitted")
  /\ \E i \in Ids, active \in BOOLEAN : SetActive(i, active)
  /\ Become(r, Idle)
  /\ UNCHANGED <<roles, server>>

\* AssignRole looks the account up, active or not.
AdminFindUser(r) ==
  /\ At(r, "admitted")
  /\ \E i \in Ids : FoundAny(i) # {}
                    /\ Become(r, [Idle EXCEPT !.pc = "assigning", !.id = i])
  /\ UNCHANGED <<user, roles, server>>

AdminAssignRole(r) ==
  /\ At(r, "assigning")
  /\ AssignRole(proc[r].id)
  /\ Become(r, Idle)
  /\ UNCHANGED <<user, server>>

AdminRemoveRole(r) ==
  /\ At(r, "admitted")
  /\ \E i \in Ids : RemoveRole(i)
  /\ Become(r, Idle)
  /\ UNCHANGED <<user, server>>

\* The handlers SetUserStatus, AssignRole and RemoveRole.
SetUserStatus(r) == AdminSetActive(r)
GrantRole(r) == AdminFindUser(r) \/ AdminAssignRole(r)
WithdrawRole(r) == AdminRemoveRole(r)

-----------------------------------------------------------------------------
(* The operator's commands (darkvoidctl): a process with a pool of its own *)
(* that runs whether a server is up or not, and the same services.         *)

CmdCreate(r) == CheckName(r)

\* runUser, resolveUser: the account of that name, if it is active.
Command(r, pc) ==
  /\ At(r, "idle")
  /\ \E n \in Names, u \in Row :
       u \in Account("name", n) /\ Become(r, [Idle EXCEPT !.pc = pc, !.id = u.id])
  /\ UNCHANGED <<user, roles, server>>

\* Revoked without a look at who holds the role.
RevokeRole(r) ==
  /\ At(r, "revoking")
  /\ RemoveRole(proc[r].id)
  /\ Become(r, Idle)
  /\ UNCHANGED <<user, server>>

CmdSetRole(r) == Command(r, "assigning") \/ Command(r, "revoking") \/ RevokeRole(r)
CmdDeactivate(r) == Command(r, "deactivating")

-----------------------------------------------------------------------------
(* The root account, at every boot.  A boot that fails ends the process.   *)

StartBoot(s) ==
  /\ server[s] = "down"
  /\ Boot(s, "looking")
  /\ UNCHANGED <<user, roles, proc>>

LookForRoot(s) ==
  /\ server[s] = "looking"
  /\ Boot(s, IF Taken("name", RootName) THEN "loading" ELSE "creating")
  /\ UNCHANGED <<user, roles, proc>>

\* A deactivated root account is not found: the boot fails.
LoadRoot(s) ==
  /\ server[s] = "loading"
  /\ Boot(s, IF Found("name", RootName) # {} THEN "granting" ELSE "down")
  /\ UNCHANGED <<user, roles, proc>>

\* The address is stored as configured.  Another server may have been first.
CreateRoot(s) ==
  /\ server[s] = "creating"
  /\ \E i \in Ids :
       LET root == NewRow(i, RootName, RootAddress) IN
       /\ i \in NewId
       /\ IF Unique(root) THEN Insert(root) /\ Boot(s, "granting")
          ELSE Boot(s, "down") /\ UNCHANGED user
  /\ UNCHANGED <<roles, proc>>

BootstrapRootUser(s) == LookForRoot(s) \/ LoadRoot(s) \/ CreateRoot(s)

\* GrantAdminRole of the account found or made.
GrantAdminRole(s) ==
  /\ server[s] = "granting"
  /\ \E u \in Select("name", RootName, TRUE) : AssignRole(u.id)
  /\ Boot(s, "serving")
  /\ UNCHANGED <<user, proc>>

\* bootstrapRootUser of the application
Bootstrap(s) == BootstrapRootUser(s) \/ GrantAdminRole(s)

\* A statement of the boot fails, or a server ends with its requests: the
\* ones that are under way on others go on.
Stop(s) ==
  /\ server[s] # "down"
  /\ Boot(s, "down")
  /\ proc' \in [Requests -> {Idle} \cup {proc[r] : r \in Requests}]
  /\ \A r \in Requests : proc'[r] \in {Idle, proc[r]}
  /\ UNCHANGED <<user, roles>>

Next ==
  \/ \E r \in Requests :
       \/ Fail(r) \/ Register(r) \/ UpdateAccount(r) \/ DeactivateAccount(r)
       \/ RequireRole(r) \/ SetUserStatus(r) \/ GrantRole(r) \/ WithdrawRole(r)
       \/ CmdCreate(r) \/ CmdSetRole(r) \/ CmdDeactivate(r)
  \/ \E s \in Servers : StartBoot(s) \/ Bootstrap(s) \/ Stop(s)

Spec == Init /\ [][Next]_vars

-----------------------------------------------------------------------------
(* However requests and boots interleave, no two accounts have one name,   *)
(* and none but the root account, whose address is stored the way it was   *)
(* configured, shares a mailbox with another.                              *)
AccountsDistinct ==
  \A u, v \in user : u.id # v.id =>
    /\ u.name # v.name
    /\ u.email.box = v.email.box => RootAddress \in {u.email, v.email}
=============================================================================
