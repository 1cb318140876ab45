\* Two requests at a time.  Sessions: three tokens and one password change, or
\* two tokens, a link and two changes.  Members: two accounts, two names, two
\* mailboxes, two servers.  Pictures: three objects.  Browser: three tokens.
\* What hangs on two posts or three comments: three or four changes, one
\* look-up that fails.
SPECIFICATION Spec
CONSTANTS
  Requests = {a, b}
  NoToken = NoToken
  NoLink = NoLink
  RotatedTokens = {t1, t2, t3}
  ResetTokens = {u1, u2}
  ResetLinks = {l1}
  Names = {root, n}
  Boxes = {b1, b2}
  RootName = root
  RootBox = b1
  NoId = NoId
  NoName = NoName
  NoAddress = NoAddress
  NoKey = NoKey
  NoColumn = NoColumn
  Comments = {1, 2, 3}
  Commenters = {c}
  Attached = {1, 2}
  PostContents <- MCPostContents
  CommentContents <- MCCommentContents
  PreviewLimit = 1
  PostChanges = 3
  CommentChanges = 4
  LookupFaults = 1
INVARIANTS SpentOnce PasswordEndsSessions AccountsDistinct PictureServed CookieHonest ContentsWhole
SYMMETRY Symmetry
CHECK_DEADLOCK FALSE
