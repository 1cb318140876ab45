----------------------------- MODULE MCAccounts -----------------------------
(* Instances for TLC: requests that meet on rows.  The sessions of one     *)
(* account at two sizes, one with more refresh tokens, one with a reset    *)
(* link and another password; the rows of several accounts; the pictures   *)
(* of one; the browser that holds its cookie; and what hangs on posts and  *)
(* on comments.  A behaviour is one of one of them: so that a state stays  *)
(* small they take their variables from one set, and what a component does *)
(* not use is "unused".                                                    *)
EXTENDS TLC

CONSTANTS
  Requests, NoToken, NoLink, RotatedTokens, ResetTokens, ResetLinks,
  Names, Boxes, RootName, RootBox, NoId, NoName, NoAddress, NoKey, NoColumn,
  Comments,         \* ids of comments, in the order of created_at
  Commenters,       \* requests that write comments
  Attached,         \* what may hang on a post or a comment
  PostContents,     \* what a request may ask for a post
  CommentContents,  \* and for a comment
  PreviewLimit,
  PostChanges,      \* bound: requests that change posts
  CommentChanges,   \* bound: requests that change comments
  LookupFaults      \* bound: look-ups of a reader that fail

ASSUME ContentsAssumption ==
  /\ PostContents \cup CommentContents
       \subseteq [media : SUBSET Attached, tags : SUBSET Attached, mentions : SUBSET Attached]
  /\ NoId \notin Comments

VARIABLES part, proc, rows, active, link, password, failedRevoke, redeemed, lost

vars == <<part, proc, rows, active, link, password, failedRevoke, redeemed, lost>>

Rotation == INSTANCE Sessions
              WITH token <- rows, Tokens <- RotatedTokens, Links <- {}, MaxPasswords <- 1
Reset == INSTANCE Sessions
           WITH token <- rows, Tokens <- ResetTokens, Links <- ResetLinks, MaxPasswords <- 2
M == INSTANCE Members
       WITH Ids <- ResetTokens, Servers <- Requests,
            user <- rows, roles <- active, server <- link
P == INSTANCE ProfileImages
       WITH Uploads <- Requests, Columns <- ResetTokens, Keys <- RotatedTokens,
            upload <- proc, image <- rows, objects <- link, removing <- password,
            used <- redeemed, unanswered <- lost
C == INSTANCE Clients
       WITH Tabs <- Requests, Tokens <- RotatedTokens,
            tab <- proc, token <- rows, access <- active, jar <- link,
            ended <- password, swept <- failedRevoke, signedOut <- redeemed

\* What requests of the run ask for: a tag in common, a picture, a mention.
MCPostContents ==
  {[media |-> {}, tags |-> {1}, mentions |-> {}],
   [media |-> {1}, tags |-> {1, 2}, mentions |-> {1}]}
MCCommentContents == {[media |-> {1}, tags |-> {}, mentions |-> {1}]}

PC == INSTANCE Attachments
        WITH Posts <- ResetTokens, Comments <- {}, Contents <- PostContents,
             NoThing <- NoId, MaxChanges <- PostChanges, MaxFaults <- LookupFaults,
             req <- proc, asked <- active, view <- link, changes <- password
CC == INSTANCE Attachments
        WITH Posts <- {}, Requests <- Commenters, Contents <- CommentContents,
             NoThing <- NoId, MaxChanges <- CommentChanges, MaxFaults <- LookupFaults,
             req <- proc, asked <- active, view <- link, changes <- password

Unused == "unused"
NoHistory == failedRevoke = Unused /\ redeemed = Unused /\ lost = Unused

Init ==
  \/ part = "rotation" /\ lost = Unused /\ Rotation!Init
  \/ part = "reset" /\ lost = Unused /\ Reset!Init
  \/ /\ part = "members"
     /\ password = Unused /\ NoHistory
     /\ M!Init
  \/ part = "pictures" /\ failedRevoke = Unused /\ P!Init
  \/ part = "browser" /\ C!Init
  \/ part = "posts" /\ NoHistory /\ PC!Init
  \/ part = "comments" /\ NoHistory /\ CC!Init

Next ==
  /\ UNCHANGED part
  /\ \/ part = "rotation" /\ Rotation!Next /\ UNCHANGED lost
     \/ part = "reset" /\ Reset!Next /\ UNCHANGED lost
     \/ part = "members" /\ M!Next /\ UNCHANGED <<password, failedRevoke, redeemed, lost>>
     \/ part = "pictures" /\ P!Next /\ UNCHANGED failedRevoke
     \/ part = "browser" /\ C!Next
     \/ part = "posts" /\ PC!Next /\ UNCHANGED <<failedRevoke, redeemed, lost>>
     \/ part = "comments" /\ CC!Next /\ UNCHANGED <<failedRevoke, redeemed, lost>>

Spec == Init /\ [][Next]_vars

\* Requests and tokens are interchangeable, and what the same model values
\* stand for in the other components.
Symmetry ==
  Permutations(Requests) \cup Permutations(RotatedTokens) \cup Permutations(ResetTokens)

(* The properties of the components, stated and explained there.         *)
SpentOnce ==
  /\ part = "rotation" => Rotation!SpentOnce
  /\ part = "reset" => Reset!SpentOnce
PasswordEndsSessions ==
  /\ part = "rotation" => Rotation!PasswordEndsSessions
  /\ part = "reset" => Reset!PasswordEndsSessions
AccountsDistinct == part = "members" => M!AccountsDistinct
PictureServed == part = "pictures" => P!PictureServed
CookieHonest == part = "browser" => C!CookieHonest
ContentsWhole ==
  /\ part = "posts" => PC!ContentsWhole
  /\ part = "comments" => CC!ContentsWhole
=============================================================================
