# Verification of darkvoid

darkvoid is a social backend in Go: posts, follows, comments and likes, a
prepared home feed in Redis, notifications over SSE, accounts and account mail,
and an external recommender (Codohue). State lives in PostgreSQL and Redis; any
number of API instances run side by side against both. This directory holds
TLA+ models of the parts where several actors meet over that state, the TLC
instances that check them, and proofs of the safety properties they pass.

Modules are checked with `tlc -config <Run>.cfg <Module>` and proofs with
`tlapm <Module>_proofs.tla`. `PROJECT.json` lists every run, the lines each
definition stands for, the hazards and the findings.

## 1. Inventory

Paths are relative to `internal/feature/` unless they start with `internal/`,
`pkg/`, `cmd/` or `migrations/`.

### Modelled

| Component | State | Operations | What makes it hard | What must hold |
| --- | --- | --- | --- | --- |
| Durable feed outbox (`feed/outbox.go`, `feed/dispatcher.go`) | `usr.feed_outbox` rows: attempts, available_at, dead_lettered_at | insert in the mutation's transaction; claim a batch (lease, `SKIP LOCKED`), handle, complete or fail (back off or dead-letter) | several instances, handlers that time out, a claim whose answer is lost, an outcome that is not recorded, crash and restart, a process paused beyond its deadlines; complete and fail check no lease | no event lost; a dead letter stays dead; without pauses no two instances work on one event; every event settles |
| Feed propagation (`feed/fanout.go`, `feed/refresher.go`, `feed/cache/redis_timeline_store.go`) | posts and follows; `feed:tl:v2:<user>` sorted sets and their `:writes` markers | create, update, delete a post; follow, unfollow; fan out, evict, rebuild from a follow event or a reader's empty timeline; expiry | events in any order and repeated; a rebuild takes three steps on two databases while fan-outs and other rebuilds go on; a fan-out fails for one of many; size limit | a handled fan-out is lost to no rebuild; a post never shared reaches nobody; posts arrive |
| Prepared timeline read path (`feed/service/timeline_reader.go`) | the cursor the client holds | first page, next page, hydration and visibility filter | timeline and visibility change between two pages and between Redis and PostgreSQL; equal scores across a page boundary | no repeat, no skip, every walk ends |
| Mixed and discovery feed (`feed/service/mixed_feed.go`, `discovery_reader.go`, `feed/cursor.go`) | none on the server: the `FeedCursor` the client hands back, a position per source and capped lists of what was served beyond them | a page from followed authors, recommendations and trending, ranked and cut; the hand-off to discover; its pages | three sources with orders of their own, ranked into a fourth; a post that arrives from two; sources that fail or promise more than they serve; a full seen list; a cursor the server itself may refuse | no source repeats itself, nothing owed is stepped over, no issued cursor is refused, the scroll ends and only when nothing is left |
| Trending list and hashtag page (`feed/service/trending_source.go`, `post/service/hashtag_service.go`) | two cached lists that all viewers share | read, single-flight rebuild, filter, mark for the viewer, evict, expire | one list object handed to several callers; a fill overtakes an eviction; failures | nobody is shown another's likes; staleness has named causes |
| Following cache (`feed/service/following_resolver.go`) | `following:ids:<user>` | look up, query and fill; commit and invalidate; TTL | a fill overtakes an invalidation; an invalidation fails | staleness has two causes only and ends |
| Posts (`post/service/post_service.go`, `post_mention.go`, `post_hydrator.go`) | posts with media, tags and mentions in tables of their own; the event; the catalog; stored objects | create, update, delete; what follows the commit; showing a page | row and tag locks under READ COMMITTED, a visibility read before the transaction, goroutines nobody waits for, failing look-ups of a page | what hangs on a post is of one change; the outbox and the catalog follow it |
| Comments and likes (`post/service/comment_service.go`, `like_service.go`, `comment_like_service.go`) | likes, comments, counters kept by triggers, notifications sent after the commit | toggle, comment, reply, delete, page | two toggles at once under an advisory lock; a like on a comment deleted meanwhile; notifications that overtake each other; offset paging | counters equal rows; no toggle lost; a like is announced exactly while it is there |
| Follows (`user/service/follow_service.go`, `user/handler/follow_handler.go`) | edges, two counters a trigger keeps | follow, unfollow | transactions that wait for each other's rows, statements that change no row | counters equal edges |
| Lists kept by PostgreSQL (profiles, discover, hashtags, notifications, followers, administration, search) | the cursor or offset of a client | one page, the next | rows come, go, change rank and visibility between pages; a first page from a cache; ties | shown once, nothing skipped, but for named exceptions at an offset |
| Notifications (`notification/service`, `broker`, `handler`, `cache`) | rows, cached unread count, channels of connected streams, the broker's registry | emit, announce, delete, mark one or all, count, stream, hang up, shut down | the broker sends while clients hang up and Shutdown closes channels; count and stream start separately; Pub/Sub and full channels lose events | no panic, nothing missed without a cause, streams end |
| Settings (`settings/service`, `feed/runtime.go`) | the settings row; one snapshot per server | patch, publish, periodic refresh, restart | edit and refresh publish in either order, on several servers | convergence to the row |
| Sessions and the browser (`user/service/auth_service.go`, `refresh_token_service.go`, `user/handler/auth_handler.go`) | password, refresh tokens, reset links; the cookie | log in, rotate, log out, change or reset the password | one token presented twice; revocation against rotation, and failing; answers of several tabs in any order or lost | one successor per token; a password change ends sessions; tabs do not log each other out |
| Accounts (`user/service/user_service.go`, `admin/service`, `cmd/darkvoidctl`, bootstrap in `internal/app`) | users, roles | register, change an address, deactivate, grant and withdraw roles, operator commands, the root account at boot | checks outside a transaction, several servers that boot at once, addresses that differ in their case | one account per name and mailbox |
| Profile images (`user/service/user_service.go`) | objects of the storage, the two columns naming them | upload, undo, clean up | two uploads at once; an answer lost after the row was updated; a cleanup nobody waits for | the picture named is there |
| E-mail delivery (`user/service/account_mail_service.go`, `email_event_service.go`, `internal/infrastructure/mailer`) | delivery log, suppression list | send with retries, record, delivery report by webhook, lift a suppression | reports late, repeated, out of order, before the record; failures between statements; a retry of what was accepted | sent once; newest outcome wins; a bounce suppresses |
| Codohue (`pkg/codohue`, `internal/app/codohue_*.go`, `cmd/darkvoidctl/codohue.go`) | two atomics of the breaker; namespace and generation; the status the health probe shows; the catalog | allow, observe; provision, stamp, publish, probe; reindex | no lock in the breaker; two requests make one provisioning; a namespace made again; a walk beside changes | one trial per cooldown; events accepted but for named causes; an honest `/health`; a repaired catalog |
| One process (`internal/app/app.go`, `server.go`, `feed/dispatcher.go`) | what is open and running | boot, its failures, serve, consume, shut down | a shutdown that times out; stores closed under goroutines | stores outlive their use, the shutdown ends |

### How they interact

Post and follow services insert an outbox row **in the transaction** of the
mutation. Each instance's dispatcher claims rows and calls the fan-out worker,
which reads the follow graph and the post, and writes Redis. Feed requests read
the prepared timeline, hydrate from PostgreSQL, filter with the cached follow
set and the settings snapshot, and rebuild an empty timeline themselves; a
viewer without one gets the mixed feed. After a commit, posts evict the
trending list and start a goroutine that tells Codohue's catalog. Likes,
comments, follows and administrators call the notification service, which
publishes over Redis Pub/Sub to the brokers of all instances. Discovery and
recommendations call Codohue through the breaker.

Where components meet over state, one module has both sides: `Publishing` (post,
outbox, trending list, catalog), `SharedLists` (the same changes, seen by
viewers), `Engagement` (rows, counters, notifications), `FeedTimeline` (posts,
follows, timelines; the outbox appears as its contract `EventDelivery`, which
`FeedOutbox` is shown to implement), `Lifecycle` (server, dispatcher, stores),
`Clients` (browser and sessions), `Reindexing` and `Provisioning` (servers,
operator and Codohue). The others share no state beyond that.

### Not modelled, and why

| Part | Why |
| --- | --- |
| Feed ranking (`feed/ranker.go`) | floating-point scores without state; `MixedFeed` allows every order of a page |
| The fall from a prepared timeline into the mixed path in the middle of a scroll; cursors this server did not issue | each path is modelled with its own cursor; a cursor is bound to its user by `ValidateForUser`, and there is one viewer here |
| The in-memory queue behind `Dispatch` | no production caller: the outbox is always configured |
| Verification links, mail templates | the links share `claim` with the reset links, which are modelled; templates are text |
| A Codohue call that is applied after it timed out | it depends on Codohue's own queue, of which this repository says nothing |
| Upload endpoint, previews of `type=all` search, routing, decoding, middleware, metrics, configuration, logging, SMTP, signatures of tokens | single reads or writes, pure conversions, libraries: no state that two actors share |
| Clients that keep the refresh token themselves (`X-Client-Type`) | the server's side is that of the cookie |
| Generated queries that nothing calls, the seed program, scripts, API docs | generated or one-shot |

## 2. Modules

| Module | Models | Correspondence |
| --- | --- | --- |
| `EventDelivery` | what a committed feed event is promised | abstract: `Publish`, `Deliver`, `Finish`, `Park` |
| `FeedOutbox` | table and consumer loop | `Enqueue` = the insert; `Claim`/`ClaimLost` = `claim`; `Work` = handler, `complete`, `fail`, their failures and deadlines; `Crash`, `Restart`, `Stall`, `Resume`; `Tick` = time. `row[e].wait` is `available_at - NOW()` floored at 0, `task[i][e].left` the rest of the deadline |
| `FeedTimeline` | propagation | one action per database transaction or Redis script |
| `TimelinePages` | one viewer's walk through a prepared timeline | `ReadPage`, `Serve`, and an environment that changes timeline and visibility |
| `MixedFeed` | one viewer's scroll of `GET /feed` off the prepared timeline | one action per request: `GetMixed` (`Collect`, `Candidates`, then `NextCursor` or `HandOff`), `GetDiscover`; `RebuildTrending` between two. `rec`, `recSeen` = `rec_offset`, `rec_seen`; `trend`, `trendSeen` = `trend_*`; `fol` = `fl_*`; `disc`, `discSeen` = `disc_*`; `Validate` guards every page |
| `Publishing` | an author's posts and what follows a change of one | one action per transaction or call; `Ingest` = the catalog goroutine |
| `SharedLists` | trending list and first hashtag page, on top of `Publishing` | one action per Redis or SQL call; `flight` = the single flight of a server |
| `Attachments` | media, tags and mentions of posts and comments, and the page that shows them | one action per SQL statement; locks are read off where a request is |
| `Engagement` | likes, comments, counters, notifications about one post | one action per transaction or look-up; triggers are part of the statement that fires them |
| `Follows` | follow edges and counters | one action per statement of the transaction; row locks as guards |
| `Listings` | a walk through any list kept by PostgreSQL | one action per page; `Keyset` lists continue below a row, `Offset` lists at a number |
| `FollowingCache` | cached follow set | one action per Redis or SQL call |
| `Notifications` | rows, count, streams, broker, shutdown | one action per SQL, Redis or channel operation; write-locked sections are one action, the read-locked delivery is a step per stream with the lock held |
| `RuntimeSettings` | settings row and snapshots | read and publish are separate steps |
| `Sessions` | account sessions | one action per SQL statement or transaction |
| `Clients` | browser tabs and their cookie | sending, serving and delivery of an answer are separate steps; a statement of the server is one step |
| `Members` | accounts and roles | one action per statement outside a transaction; unique indexes guard inserts and updates |
| `ProfileImages` | avatar and cover | one action per statement or storage call |
| `EmailDelivery` | mail, delivery log, suppression | one action per statement or provider call |
| `CircuitBreaker` | breaker | one action per atomic load, store, add, swap and clock reading |
| `Provisioning` | namespace, generation, monitor, `/health` | one action per request to Codohue and per stored field of the status |
| `Reindexing` | the operator's repair pass | one action per page read or post sent |
| `Lifecycle` | one process from boot to exit | one action per step of `New`, `Run`, `Shutdown` |
| `MC*` | TLC instances | section 3 |
| `*_proofs` | TLAPS proofs | section 5 |

Abstractions to know when reading a definition beside its source:

- **FeedOutbox.** `Batches` leaves out rows another transaction holds at that
  instant (`SKIP LOCKED`): the claim then takes a smaller batch. The
  five-minute cap of `backoff` is never reached, for the exponent is capped
  below it.
- **FeedTimeline.** A timeline is a set; which entries a full one drops is left
  open. "public" and "followers" are one visibility, "shared", for this code
  treats them alike. A Redis write that was applied although it returned an
  error is a successful write followed by an abort. There is one wall clock.
  A fan-out reads the newest `FollowerCap` followers and a rebuild the newest
  `FollowingCap` followees (the code's 5000); follows have no order here, so any
  may be the ones that are kept.
  Markers live for days and rebuilds for seconds, so a marker does not expire on
  its own. A late "created" event can bring back a deleted post, which readers
  filter.
- **TimelinePages.** One Redis read in chunks is one step. A window whose
  entries are all hidden from the viewer ends the walk, as in the code.
- **MixedFeed.** Posts are numbers in the order of `(created_at, id)`; a trending
  position is a like count and a post in one number. A page is any `PageSize` of
  the candidates. A failure of the following, discover or cache query answers
  500 and leaves the client with the cursor it had, so it is no step. A post is
  *charged* to every source that offered it, since every source's position must
  account for it. The seen lists are capped; which of the posts of one page a
  full list drops is left open, where the code drops in order. `dropped` is the
  history of those, and `missed` of what a hand-off to discover left behind,
  past the windows it was made on.
- **Attachments.** Tags and mentions are numbers; the rows of tags are locked in
  any order, and a request that waits for ever stands for the one PostgreSQL
  aborts (`Fail`). Replies of replies are not previewed.
- **Engagement.** Look-ups that only guard a request are one step and may be
  stale when it writes.
- **Listings.** A row is a number with a place (`created_at`, follower count or
  rank), a visibility and an owner. Ties are broken by id where the query says
  so (`Unsettled` lists do not).
- **Notifications.** One user and one server. A count is represented by the
  set of notifications counted, so that "which" can be asked. Pub/Sub is
  external: in order per publisher, and it may drop.
- **Sessions.** Revoking all tokens is one READ COMMITTED `UPDATE`: it revokes
  the tokens in its snapshot, and one inserted afterwards survives.
- **Members.** An address is a mailbox and how it is written: the index compares
  the text, a mail server the mailbox.
- **EmailDelivery.** One address. A report that overtakes `RecordSend` is
  acknowledged and never applied to the log, which the code accepts.
- **Provisioning.** Codohue is external: a namespace that may be deleted and made
  again, and a consumer that refuses events of another generation.

Definitions whose comment begins with "Mutant:" are plausible mistakes in the
definition that follows them. They take part in no specification; putting one
in the place of its neighbour makes a property fail, which is how each property
was tested.

## 3. Runs

| Run | Instance and bounds | Shows |
| --- | --- | --- |
| `Writes` | outbox: 2 interchangeable instances, 2 events, batches of up to 2, 2 attempts, 2 faults of any kind, pauses allowed; likes: a post and a comment, 2 requests, 3 toggles; thread: 3 comments, 4 requests, one reader with pages of 1; follows: 2 members and an id without an account | `NoEventLost`, `AttemptsPaidFor`, `DeadLetterFinal`, `ImplementsDelivery` (refinement); `CountsExact`, `EveryToggleFlips`, `LikeNotesTrue`, `ListedOnce` |
| `Delivery` | outbox: no pauses, lease of 3 against deadlines of 0 + 1 + 1, 2 events, 2 faults; timelines: one post, one follower, a retry, one expiry; no symmetry, for it checks liveness | `ExclusiveHandling`; `Settles`: each event is handled or dead-lettered in the end; `FanoutArrives`: what is not dead-lettered arrives |
| `Timelines` | fan-out: one post, one follower whose rebuilds read one of the two users he may follow, create and follow, both kinds of rebuild at up to 2 instants, 2 events, 2 tries; privacy: two posts, create, update, delete and unfollow, timelines of one entry; lists: 3 rows at 2 times, pages of 1 or 2, 2 changes; reindex: 3 posts, pages of 2, 2 changes, 1 fault; Codohue: 2 servers, one watched, 1 remake, 1 event (and no `/health` request while it is under way, for neither reads what the other writes: `OneQuestion`), 1 fault | `FanoutsKept` (`NoFanoutLost`), `NeverSharedStaysPrivate`, `ListingsExact`, `ReindexRepairs`, `ProvisioningHonest` |
| `Reads` | pages: 3 posts on 2 scores, page 1 out of a window of 2, 2 changes; follow set: 1 author, 2 requests, 2 mutations; settings: 2 servers, 2 editors, 2 knobs, 1 restart; process: 2 requests | `PagesExact`, `StaleOnlyByLossOrRace`, `FollowsReflected`, `Converges`, `StoresOutliveUse`, `EndsReached` (the walk ends, the shutdown ends) |
| `Scroll` | 4 posts, pages of 2, seen lists of 1 (trending) and 2 (discover); the worlds named in `MCMixedFeed`: of the provider's lists (up to 5 items) one promises more than it has and one has whole windows of nothing; every ranking of every page; 1 call fails, 1 trending post moves; catalog: 2 requests, 3 changes, 1 fault; lists: 2 viewers, 1 request, 2 changes, 1 fault | `ScrollExact` (`ChargedOnce`, `NothingSteppedOver`, `EndsWithNothingLeft`), `DiscoverFresh`, `ScrollsEnd`; `ChangesFollowed`; `ListsTrue` |
| `Notifications` | 2 requests, 1 stream, a channel of 1, 2 notifications of which one is an announcement, 2 changes, hang-ups and shutdown at any time | `NoPanic`, `NothingMissed`, `StreamsEnd` |
| `Providers` | breaker: 2 callers, threshold 2, cooldown 2, 3 failures; mail: 1 mail in up to 2 attempts, 2 webhook requests, 2 reports, 1 fault | `TrialsSpaced`, `Recovers`; `MailsAccounted`, `BouncesSuppress` |
| `Accounts` | 2 requests; sessions: 3 tokens and one password, or 2 tokens, a reset link and two; members: 2 accounts, 2 names, 2 mailboxes, 2 servers; pictures: 3 objects; browser: 3 tokens, 2 tabs; posts: 2 with 2 tags, 3 changes; comments: 3, 4 changes; one look-up of a page fails | `SpentOnce`, `PasswordEndsSessions`, `AccountsDistinct`, `PictureServed`, `CookieHonest`, `ContentsWhole` |
| `ClaimBackfill`, `ClaimReach`, `ClaimRepeat`, `ClaimBlip` | violations | section 4 |

Most runs put independent components or sizes into one: the variable `part`
names the one a behaviour belongs to, the variables of the others never move.
Nothing is shared between the parts, so this is the same as running each on its
own.

**Why the bounds suffice to be interesting.** Each hazard needs two actors and
one or two events: two instances with one row and a lost answer; one rebuild
with one fan-out inside it; one fill with one commit; two requests with one
token, one like, one row of tags, one name. The instances have those and one
more fault, retry or change. Ties, a window larger than a page, a full
timeline, a full channel and a full seen list occur because limits are 1 or 2
where the code has 40, 60 or 500.

`CHECK_DEADLOCK FALSE` is set because behaviours end: bounded mutations, a walk
that is over, a stopped server, a fixed number of tokens.

**Fairness** is what the code's scheduling gives:

- outbox: the ticker fires, started goroutines proceed, a dead process is
  restarted and a paused one resumes (weak). *Nothing* makes a handler succeed;
  `Settles` is about handled or dead-lettered and assumes, in its own
  statement, that fan-out is eventually on for good.
- timelines: the consumer keeps starting handlers, which proceed (weak); users
  and readers need not do anything.
- follow set: calls return, Redis keeps its TTL (weak); a query that can
  succeed again and again does (strong), for an outage is not for ever.
- scroll and pages: the client asks for the next page while it is given a cursor
  (weak); otherwise nothing ends. The lists move as they like.
- settings, notifications, mail: running requests, refreshers and webhook posts
  proceed (weak). The provider posts again what was not answered 2xx, as Svix
  does. No client must hang up, no operator must act.
- breaker: time passes, requests keep coming and proceed (weak). The health
  probe is not relied on, nor does anyone have to cancel.
- process: a batch ends, for its handlers have deadlines; `Shutdown`'s steps are
  taken, and the server stops or its time runs out (weak); the dispatcher is
  closed if it is idle again and again, for batches come and go (strong).

## 4. Findings

Four runs check a sentence of the repository and TLC refutes it:

- **`ClaimBackfill`** — `fanout.go:12-14,66-68`: a follow backfills the
  followee's posts. A reader's lazy rebuild that read the follow graph before
  the follow committed may replace the timeline after the follow event's own
  rebuild: markers protect fan-outs from rebuilds, nothing orders two rebuilds.
- **`ClaimReach`** — `specs/003-refactor-feed-discovery/spec.md:72` (FR-002): no
  eligible post becomes unreachable because others outranked it. The following
  position moves to the oldest followed post *shown*; a newer one that was
  outranked off that page lies above it, where neither the following query nor
  discover looks again.
- **`ClaimRepeat`** — `specs/003-refactor-feed-discovery/spec.md:20,71,100` and
  `specs/005-feed-cursor-contract/spec.md:84,103`: pages of one scroll hold no
  duplicate posts. What was shown is remembered per source: a post shown as
  trending (or as followed) whose place in the provider's list lies past that
  page's window of recommendations is in no `rec_seen`, and a later page serves
  it again as a recommendation. `ScrollExact` of the run `Scroll` is what the
  cursor does keep: no source hands out again what it was *charged* for.
- **`ClaimBlip`** — `email_webhook_handler.go:85-86`: a report lost to a
  database blip is a suppression never made, hence 500 and a retry.
  `recipientsFor` turns the failure of its look-up into "unknown send", which
  is answered 200.

Named exceptions of the properties, and smaller observations without a run:

*Feed*

- `specs/004-precomputed-feed/spec.md:102` (FR-009) has an expired or incomplete
  timeline refreshed on request. Only an empty one is; after one fan-out an
  expired timeline holds one entry and is served as it is.
- `mixed_feed.go:61-62`: "an exhausted source ends the scroll, a broken one must
  not". A page without candidates goes to discover also when a source failed,
  and a scroll in discover does not come back.
- Nor need the sources be exhausted: `specs/003-refactor-feed-discovery/data-model.md:33`
  has the hand-off "when following and recommendation sources are exhausted",
  and `GetFeed` (`feed_service.go:171`) makes it when *this* request's windows
  hold no candidate. A window of recommendations that are all unreadable or the
  viewer's own hides what the provider has past it. The proof of `ScrollExact`
  found this: `EndsWithNothingLeft` makes the exception (`missed`).
- `GetFollowingIDs` (`follow_service.go:241`) asks for the newest 5000 follows,
  and no more. A rebuild for a user who follows more leaves the older followees
  out, and the replace script then drops what fan-out had written of theirs,
  once its marker is older than the cutoff; the cached follow set of the readers
  has the same 5000. The other direction was noticed and repaired
  (`issues/project-audit-2026-08-11.md`, P1-02), this one is
  named nowhere. `NoFanoutLost` makes the exception (`Certain`).
- After a failed recommender call the cursor keeps `rec_offset` but not
  `rec_seen` (`mixed_feed.go:367-375`), contrary to
  `specs/005-feed-cursor-contract/spec.md:84` (FR-013); `ChargedOnce` names the
  exception. A post a full seen list dropped may come back too.
- `fanout.go:68-72` says a rebuild upserts around the entries of unfollowed
  authors, while the Lua script removes those without a recent marker.
- The access check of a page may be stale and omit a post the viewer could see
  throughout.
- An empty trending list is cached as `null`, which is read as a miss. The first
  hashtag page is not evicted (its TTL is a minute) and is served whatever limit
  is asked for.

*Posts, comments and likes*

- Of two concurrent `UpdatePost` calls the one that makes a post private may
  enqueue no eviction (readers filter).
- `UpdatePost` accepts empty content, and a PUT without tags or mentions removes
  them. Two updates that lock tags in different orders may end each other.
- `attachReplyCounts` says "total descendant counts" (`comment_service.go:259`);
  the query counts direct replies. Mention notifications of a comment carry its
  id where a post's is expected (`comment_service.go:413`,
  `notification_service.go:71`).
- Private posts are sent to the catalog as well. A post deleted while `reindex`
  sends its page may come back into the catalog; a run that stops at `-limit`
  exits 0 although posts failed.
- Lists that continue at an offset have no tie-break: tied rows may be shown
  twice or skipped.

*Users, accounts and mail*

- Two users who follow each other at once may end in a deadlock PostgreSQL breaks
  (500). A follow by id does not look the followee up.
- The 403 "account deactivated" of login (`auth_handler.go:129`) and the 404 of
  `SetUserStatus` (`admin_handler.go:116`) cannot happen.
- `VerifyEmail` says it marks the address as verified
  (`account_mail_service.go:167`); only the link is marked used. Look-ups for a
  reset take the address as typed, while addresses are stored lower-cased (the
  root's as configured).
- A deactivated root account fails every later boot; of two servers that boot on
  an empty database one fails.
- Deactivation and a withdrawn role leave access tokens and sessions; the role
  check ignores `is_active`. `ChangePassword` revokes sessions and leaves the
  cookie; a logout with a rotated token answers 500 and leaves it, too.
- An avatar update whose answer was lost has its object deleted
  (`user_service.go:373-378`), the exception `PictureServed` names.
- `resend.go:31-34` keeps the worst case of a mail inside its 30 s budget; three
  requests of 10 s and the pauses between them exceed it.
- `GetNotificationsWithCursor` does not select the message
  (`notification_repository.go:138-153`), so an announcement read later is empty.

*Process and Codohue*

- A cancelled call "says nothing about Codohue" (`breaker.go:108`), but `observe`
  takes it for an answer and stores zeros in `failures` and `openedAt`
  (`breaker.go:74-80`). A trial whose caller hangs up in an outage closes the
  circuit, and so does an earlier request whose cancellation is observed after
  others have opened it.
- `app.go:485-488` returns from `Shutdown` when `server.Shutdown` times out, before
  the dispatcher is drained (the outbox makes up for it). A boot that fails
  after `SetupFeedContext` closes Redis and the pool under the running consumer;
  goroutines for mails, images and the catalog are awaited by nobody.
- `/health` may pair "active" with an old reason while a probe stores its outcome
  (`codohue_status.go`); of a circuit it finds open it never says "active". Provisioning that fails after its first request leaves
  events unstamped; they are refused once the namespace was made again.
- `Stream` is "cancelled only when the client disconnects"
  (`notification_handler.go:222`) and also watches the request's context.


## 5. Proofs

TLC looks at the instances above; the theorems hold for **every** value of the
constants that satisfies the named assumptions of the modules. A proof module
extends the module, or the instance, whose property it proves.

| Module | Theorem | Statement |
| --- | --- | --- |
| `Writes_proofs` | `TypeCorrect` | `Spec => []TypeOK` of the outbox |
| | `EventsSurvive` | `Spec => []NoEventLost` |
| | `DeadLettersStay` | `Spec => DeadLetterFinal`, an action property |
| | `LeaseExcludes` | without pauses (`Stalls = FALSE`), `Spec => []ExclusiveHandling` |
| | `AttemptsBounded` | `Spec => []AttemptsPaidFor` |
| | `OutboxImplementsDelivery` | `Spec => ImplementsDelivery`, the refinement of `EventDelivery` |
| | `FollowersCounted` | the counters of `Follows` equal its edges |
| | `CountersExact`, `LikesAnnounced`, `PagesShowAllOnce`, `TogglesFlip` | `CountsExact`, `LikeNotesTrue`, `ListedOnce`, `EveryToggleFlips` of `MCSpec` |
| `Engagement_proofs` | `CountersExact`, `LikesAnnounced`, `PagesShowAllOnce`, `TogglesFlip` | the same of `Engagement` alone, for all of its bounds |
| `Reads_proofs` | `PagesAreTheTimeline` | `Spec => []PagesExact` |
| | `CacheTypeCorrect`, `StalenessExplained` | types of the cached follow set, and `[]StaleOnlyByLossOrRace` |
| | `StoresClosedLast` | `MCSpec => []StoresOutliveUse`, of a process with Codohue and its Redis |
| | `CacheApart`, `WalkApart` | what `MCReads` puts side by side behaves as it does alone |
| `Timelines_proofs` | `TypeCorrect` | `Spec => []TypeOK` of the feed timelines |
| | `PrivateStaysPrivate` | `Spec => []NeverSharedStaysPrivate` |
| | `FanoutsSurvive`, `FanoutsKeptThere` | `[]NoFanoutLost`, and `[]FanoutsKept` of `MCSpec`, if timelines have room for every post; whom a cap may leave out is owed nothing |
| | `CatalogRepaired` | `MCSpec => []ReindexRepairs`, for finitely many posts numbered by their age |
| | `WalksShowAllOnce` | `MCSpec => []ListingsExact`, for finitely many numbered rows and times, and positive limits |
| | `ProvisionedHonestly` | `MCSpec => []ProvisioningHonest`, for a stream of any length |
| `Notifications_proofs` | `TypeCorrect`, `NeverPanics`, `StreamsMissNothing` | types, `[]NoPanic`, `[]NothingMissed` |
| `Sessions_proofs` | `RedeemedOnce`, `OldSessionsEnd` | `SpentOnce`, `PasswordEndsSessions` of `Sessions` alone, for all of its bounds |
| `Accounts_proofs` | `RedeemedOnce`, `OldSessionsEnd`, `OneAccountEach`, `PicturesServed` | `SpentOnce`, `PasswordEndsSessions`, `AccountsDistinct`, `PictureServed` of the run's specification |
| | `CookiesHonest` | `[]CookieHonest`: sessions and browser together |
| | `ContentsComplete` | `[]ContentsWhole`, of posts and of comments |
| `Providers_proofs` | `TypeCorrect`, `TrialsApart` | types, and `Spec => []TrialsSpaced`, of the circuit breaker |
| | `MailsStayAccounted` | `ServiceSpec => []MailsAccounted` |
| | `ChangesReachCatalog` | `MCSpec => []ChangesFollowed` |
| | `SharedListsTrue` | `MCSpec => []ListsTrue`, if no server has a viewer's name |
| | `ScrollsExact`, `DiscoverNeverRepeats` | `MCSpec => []ScrollExact` and `[]DiscoverFresh`, for finitely many posts that are positive numbers, and any worlds, not only those of the run |
| | `NoCursorRefused` | `MCSpec => []NeverRefused`: `Validate` passes every cursor a page ends with, the safety half of `ScrollsEnd` |

**What is assumed.** The `ASSUME`s of the modules: bounds are naturals, sizes and
limits are positive, users and posts are finite sets, positions and ids are
numbers, a window is larger than a page, `LeaseTicks > ClaimTicks +
HandlerTicks + PersistTicks` (one minute in the code, against 5 + 30 + 5
seconds). Some theorems assume in their own statement that names do not clash (`NoToken \notin
Tokens`), that the users are finitely many, that the root account is an account
(`RootName \in Names`), or what the table says of pauses and room.

The invariants that the properties are not strong enough to be, and why:

- **No event lost** is not inductive: the delete is made by a task that is
  "completing", and nothing says that its event was handled. `DeliveryInv` adds
  that (`CompletingHandled`), that a task has a row (`TaskHasRow`), and that a
  dead row has used its attempts (`DeadExhausted`). The last gives
  `DeadLetterFinal`: `fail` computes dead or alive from the row's own attempts,
  which never decrease, so a late report revives nothing. The refinement maps
  due and leased rows to "pending", dead ones to "parked", deleted ones to
  "done"; each step is a step or a stutter of `EventDelivery` under
  `DeliveryInv`.
- **Exclusive handling.** `LeaseOutlivesWorker`: every running task has less left
  of *all* its deadlines than its row has of the lease; a row that can be
  claimed has none left, so no one works on it. `Tick` takes one from both
  sides and cannot pass a deadline.
- **Attempts paid for.** A row that has used its attempts and is still alive is
  either within what faults paid for, or attended by a worker that is neither
  crashed nor paused and whose deadlines end before the lease
  (`LastAttemptAttended`). A fault takes the worker away and pays by itself.
- **Followers.** While a transaction holds the row of an edge, nobody else writes
  that edge (`EdgesLocked`), so that what it found still holds when the trigger
  counts (`StillFires`).
- **Likes.** Past the advisory lock no two requests have one pair of user and
  thing (`LockHeld`), and the answer found there is what the flip writes over
  (`AnswerHolds`): that is `EveryToggleFlips`. The counters follow from it and
  from what a request may be about in each of its places (`Placed`). For the
  notifications, whoever is about to tell of a like that no other toggle has
  overtaken tells the truth, and is the only one (`TellsTrue`). `MCWrites` has
  two instances of `Engagement`; the theorems of each are carried over by lemmas
  that their operators are the same (`LikingSame`, `ThreadSame`).
- **Pages of comments.** The row of a comment is how many of its list are not after
  it (`RowIn`; `OrderIs` says so of ORDER BY). While nothing came late, what was
  shown climbs, and none of its rows is past the offset (`Climbs`); while nothing
  was deleted, rows only grow, so what the offset has passed was shown
  (`Passed`).
- **Pages.** Between two pages, what was shown and has not moved ranks at or above
  the cursor (`ShownAbove`). Between the two steps of a request, the window lies
  below the cursor and its unmoved positions are right (`WindowRight`), and an
  unmoved entry below the cursor is in the window or ranks below all of it, and
  then the store said there is more (`WindowWhole`). The rest is arithmetic of
  the order: `BelowOrders`, `FirstTakesHighest`, `LastIsLowest`.
- **Lists.** A list that continues below a row: what was shown is over the cursor,
  and what is steady and was not shown is under it (`Walked`); the cached first
  page of a hashtag promises the same of its own cursor (`CachedFirst`). A list
  at an offset: of an untied row that nothing was put before or taken from
  before, as many rows are before it as when it was shown, so it was shown if
  and only if they are fewer than the offset (`Counted`); `SliceByRank` says so
  of LIMIT and OFFSET, `RowStays` of a change to another row.
- **Staleness.** `CacheInv` is inductive with the types: each action that makes
  cache and follow set differ leaves a call open, or sets one of the two flags.
- **Stores.** What is open is what the boot opened so far (`BootOpens`); the server
  listens and requests run only between the end of the boot and the step of the
  shutdown that waited for them (`ServesBetween`); the consumer is stopped
  before the first store is closed (`StoppedFirst`).
- **Private posts.** `Private` follows a post through all places it can be on its
  way to a timeline: its own visibility, the events written of it, the
  recipients a fan-out still has to serve, the snapshots of rebuilds.
- **Fan-outs.** `Kept`: whoever is owed a post that a fan-out has reached has the
  entry, with a marker no older than the post (`Arrived`); and each rebuild that
  is under way for a reader who is owed the post will find it, or began before it
  was written (`RebuildsFind`), in which case the marker protects the entry.
  A follower is owed a post only while neither cap can leave her out (`Certain`),
  so that what a fan-out or a rebuild read of the graph named her (`CertainFound`).
  Only a post that nobody touched after it was written is owed (`Owing`).
- **Notifications.** Whoever is registered has an open channel, and the broker sends
  to the registered only (`Registered`). A count in a request's hands that is
  not on record as overtaken has every unread notification (`CountFresh`); what
  a cached one leaves out is about to invalidate it (`CacheExplained`); and what
  a stream's first count leaves out reaches the stream: on the wire, in its
  channel, being sent, or on record as lost (`CountReached`).
- **Sessions.** A token has at most one successor and a claimed link at most one
  user (`TokensSpent`, `LinksSpent`). Every session, and every request that will
  make one, has the present password or one of the named excuses; while a
  revocation runs, what is not in its snapshot escapes by being overtaken
  (`SessionsExcused`).
- **Accounts.** The unique indexes compare texts (`RowsUnique`); texts are those
  of lower-cased addresses, but for the root's (`StoredLower`), also while a
  request holds them (`TypedLower`). Hence one account of each mailbox.
- **Pictures.** Two columns never name one object (`ColumnsApart`), an object that
  was stored and not named yet is known to its request only (`Unnamed`), and what
  a cleanup or an undo deletes is not named, but for a lost answer
  (`RemovingUnnamed`, `UndoneUnnamed`).
- **Cookies.** A session has at most one good token, and none once a logout ended it
  (`SessionsOne`). A token in an answer on its way is known to nobody else
  (`CookiesSecret`), and is good unless a logout ended its session
  (`CookiesGood`). So when the browser's own token is no longer good, what
  replaced it is on its way, unless an answer was lost (`JarFollowed`).
- **Contents.** A request's place says what it knows: which of the three parts its
  statements have replaced, which rows it has deleted and not yet inserted
  (`PostFits`, `CommentFits`). No two requests are past the statement that locks
  a row, and nobody else knows a row that is not committed (`PostClash`,
  `SameAuthor`), so between two statements the row is what the one that holds it
  says. A page in the making has looked up, of every row nobody changed, what
  its place says, and nothing else (`PostFilled`, `FilledFor`), with the
  previews of a comment as a second page inside the first (`Layout`).
- **Catalog.** About a post that no crossing or failure has blurred, one request or
  one ingestion at most is under way (`Alone`), it brings what the row holds, and
  when there is none that has come (`PostFollowed`).
- **Shared lists.** A viewer marks an object of its own, and what is cached, about
  to be cached or in a flight carries no mark (`MarksKept`). A flight that has
  read and was not crossed by a commit holds nothing stale (`FlightsCurrent`);
  what is stale in the cache is about to be evicted, or one of the named causes
  happened (`TrendingCurrent`).
- **The scroll.** What the cursor carries was shown (`SeenServed`), and what it does
  not carry was either dropped by a cap or lies where its source does not look
  again: recommendations before the offset (`RecAccounted`), trending posts from
  the position up (`TrendAccounted`), followed posts from the oldest shown up
  (`FollowedDown`), discover's from its position up (`DiscoverCarried`,
  `DiscoverDown`). Conversely nothing that is owed lies there unshown
  (`RecStepped`, `TrendStepped`, `DiscoverStepped`), and when the mixed path is
  left nothing lies elsewhere (`SourcesLeft`). The steps rest on what one page
  does to each source: the offset moves over the served prefix of its window
  (`RecMoves`), the trending position over that of its own order (`TrendMoves`),
  the following position to the lowest shown (`FolMoves`); and on the fact that a
  page always has a position to continue from, so that the mixed path ends only
  where `sourcesDry` says so (`PageContinues`, which counts the posts of the
  window against the page size).
  `Best` and `BestOf` say of all three orders what "the first n" means, and that
  fewer than n are all there is; `FewFirst` that a list kept by such an order
  is no longer than its cap, which is the harder part of `NoCursorRefused`.
- **Mails.** What was handed to the provider carries the one key of its mail, so a
  repeated hand-over is one letter (`OneKey`); a report that is being served was
  made (`ReportsMade`); and a row shows the latest of the outcomes that found it
  (`LatestHeard`), which is what the guard on the time of an outcome is for.
- **Repair of the catalog.** The walk has tried whatever public post lies above its
  cursor and is young enough (`NoneSkipped`); a page has no gap, for it is the
  topmost of what is below the cursor (`PageIsTop`). What was read of a post,
  what is on its way to Codohue and what is there is what the post holds, unless
  a change by its author overtook it (`PageDue`, `CallsDue`, `CatalogDue`).
- **Provisioning.** What a server stamps on its events is a generation of the
  namespace that was made, or its boot failed (`GenerationsMade`,
  `EventsStamped`); and a server's reason is that of its state, but while a probe
  is between storing the one and the other (`ReasonsFit`).
- **Trials apart.** `SwapInv`: whoever is about to swap has loaded a stamp a whole
  cooldown older than its own. `TrialInv`: no trial of the present outage is
  younger than `openedAt`. A swap that succeeds therefore lies a cooldown after
  every trial before it.

Only model-checked: all liveness (`Settles`, `FanoutArrives`, `EndsReached`,
`Converges`, `FollowsReflected`, `ScrollsEnd`, `StreamsEnd`, `Recovers`,
`BouncesSuppress`), for fairness and `ENABLED` are out of the proof system's
reach, as is induction over data. Every invariant and every action property
of the passing runs is proved. No module declares a RECURSIVE operator.

## 6. Plan

Model: the fall from a prepared timeline into the mixed path in the middle of a
scroll; a second clock, with skew, for the markers of `FeedTimeline`.

Proofs: what they share with each other, and the lemmas about finite sets and
orders, could move into a module of lemmas; the refinement of `EventDelivery` is
the only one so far, and `Engagement`'s toggles invite another.
