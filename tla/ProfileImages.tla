---------------------------- MODULE ProfileImages ----------------------------
(***************************************************************************)
(* The avatar and the cover of one account: objects of the storage that    *)
(* the account's row names.  An upload stores the new object, names it in  *)
(* the row, and leaves the old object to a goroutine that nothing waits    *)
(* for.  UploadAvatar and UploadCover differ in the column only.           *)
(***************************************************************************)
EXTENDS FiniteSets

CONSTANTS
  Uploads,    \* request goroutines
  Columns,    \* avatar_key and cover_key
  Keys,       \* object keys, each made by uuid.New once
  NoKey, NoColumn

VARIABLES
  active,     \* is_active of the account
  image,      \* the key each column holds
  objects,    \* the objects of the storage
  upload,     \* where each request is
  removing,   \* the keys the cleanup goroutines are to delete
  used,       \* the keys made so far
  unanswered  \* keys whose UPDATE took effect unknown to the request (history)

vars == <<active, image, objects, upload, removing, used, unanswered>>

Idle == [pc |-> "idle", column |-> NoColumn, key |-> NoKey, old |-> NoKey]

Request == [pc : {"idle", "received", "loaded", "stored", "named", "undoing"},
            column : Columns \cup {NoColumn},
            key : Keys \cup {NoKey}, old : Keys \cup {NoKey}]

TypeOK ==
  /\ active \in BOOLEAN
  /\ image \in [Columns -> Keys \cup {NoKey}]
  /\ objects \subseteq used
  /\ upload \in [Uploads -> Request]
  /\ removing \subseteq used
  /\ used \subseteq Keys
  /\ unanswered \subseteq used

Init ==
  /\ active = TRUE
  /\ image = [c \in Columns |-> NoKey]
  /\ objects = {}
  /\ upload = [r \in Uploads |-> Idle]
  /\ removing = {}
  /\ used = {}
  /\ unanswered = {}

At(r, pc) == upload[r].pc = pc
Become(r, p) == upload' = [upload EXCEPT ![r] = p]

\* The handlers: the form is read, with a limit to its size.
Receive(r) ==
  /\ At(r, "idle")
  /\ \E c \in Columns : Become(r, [Idle EXCEPT !.pc = "received", !.column = c])
  /\ UNCHANGED <<active, image, objects, removing, used, unanswered>>

\* GetUserByID, of an active account; the key it holds is read here and used
\* two statements later.
LoadUser(r) ==
  /\ At(r, "received")
  /\ active
  /\ Become(r, [upload[r] EXCEPT !.pc = "loaded", !.old = image[upload[r].column]])
  /\ UNCHANGED <<active, image, objects, removing, used, unanswered>>

\* No active account; or validateProfileImage: too large, too many pixels, or
\* neither a JPEG nor a PNG.  What is stored is the picture encoded anew.
Reject(r) ==
  /\ At(r, "received") \/ At(r, "loaded")
  /\ Become(r, Idle)
  /\ UNCHANGED <<active, image, objects, removing, used, unanswered>>

\* storage.Put; one that fails may have stored the object all the same.
Put(r) ==
  /\ At(r, "loaded")
  /\ \E k \in Keys \ used :
       /\ used' = used \cup {k}
       /\ \/ objects' = objects \cup {k} /\ Become(r, [upload[r] EXCEPT !.pc = "stored", !.key = k])
          \/ objects' \in {objects, objects \cup {k}} /\ Become(r, Idle)
  /\ UNCHANGED <<active, image, removing, unanswered>>

Name(r) == image' = [image EXCEPT ![upload[r].column] = upload[r].key]

\* Mutant: the cleanup starts before the row is known to be updated.
NameAndRemove(r) ==
  /\ At(r, "stored")
  /\ \/ Name(r) /\ Become(r, [upload[r] EXCEPT !.pc = "named"]) /\ UNCHANGED unanswered
     \/ UNCHANGED <<image, unanswered>> /\ Become(r, [upload[r] EXCEPT !.pc = "undoing"])
     \/ /\ Name(r)
        /\ unanswered' = unanswered \cup {upload[r].key}
        /\ Become(r, [upload[r] EXCEPT !.pc = "undoing"])
  /\ removing' = removing \cup ({upload[r].old} \ {NoKey})
  /\ UNCHANGED <<active, objects, used>>

\* UpdateUserProfile, whatever is_active has become.  It fails without an
\* effect, or the answer to one that took effect is lost.
UpdateProfile(r) ==
  /\ At(r, "stored")
  /\ \/ Name(r) /\ Become(r, [upload[r] EXCEPT !.pc = "named"]) /\ UNCHANGED unanswered
     \/ UNCHANGED <<image, unanswered>> /\ Become(r, [upload[r] EXCEPT !.pc = "undoing"])
     \/ /\ Name(r)
        /\ unanswered' = unanswered \cup {upload[r].key}
        /\ Become(r, [upload[r] EXCEPT !.pc = "undoing"])
  /\ UNCHANGED <<active, objects, removing, used>>

\* The new object is deleted again; whether that fails is not looked at.
Undo(r) ==
  /\ At(r, "undoing")
  /\ objects' \in {objects, objects \ {upload[r].key}}
  /\ Become(r, Idle)
  /\ UNCHANGED <<active, image, removing, used, unanswered>>

\* The request answers; the old object is left to a goroutine.
Answer(r) ==
  /\ At(r, "named")
  /\ removing' = removing \cup ({upload[r].old} \ {NoKey})
  /\ Become(r, Idle)
  /\ UNCHANGED <<active, image, objects, used, unanswered>>

\* UploadAvatar and UploadCover
UploadImage(r) ==
  LoadUser(r) \/ Reject(r) \/ Put(r) \/ UpdateProfile(r) \/ Undo(r) \/ Answer(r)

\* storage.Delete; a failure is logged.
RemoveOld(k) ==
  /\ k \in removing
  /\ objects' \in {objects, objects \ {k}}
  /\ removing' = removing \ {k}
  /\ UNCHANGED <<active, image, upload, used, unanswered>>

SetActive ==
  /\ active' = ~active
  /\ UNCHANGED <<image, objects, upload, removing, used, unanswered>>

\* The process ends: requests and cleanups are forgotten.
Crash ==
  /\ upload' = [r \in Uploads |-> Idle]
  /\ removing' = {}
  /\ UNCHANGED <<active, image, objects, used, unanswered>>

Next ==
  \/ \E r \in Uploads : Receive(r) \/ UploadImage(r)
  \/ \E k \in Keys : RemoveOld(k)
  \/ SetActive
  \/ Crash

Spec == Init /\ [][Next]_vars

-----------------------------------------------------------------------------
(* The picture an account names can be served: no undo and no cleanup, of  *)
(* whatever request and however late, has removed the object the row names *)
(* now.  The exception is a lost answer: an UPDATE that took effect and is *)
(* reported as failed has its object deleted.                              *)
PictureServed ==
  \A c \in Columns : image[c] \in objects \cup unanswered \cup {NoKey}
=============================================================================
