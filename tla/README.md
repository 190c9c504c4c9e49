# openForum in TLA+

A TLA+ model of [openForum](../src/README.md): a FastAPI backend on PostgreSQL
and Redis with a React frontend. The modules follow the code of
`backend/src` and the triggers of `backend/migrations/versions`; TLC checks
them on small instances, and TLAPS proves every safety property the passing runs check,
for every value of the constants. `PROJECT.json` lists
components, runs, findings, hazards, theorems and, under "map", the source lines
behind each definition.

    tlc -workers 2 -config TempFSCore.cfg MCTempFS     # one run
    tlapm TempFSProofs.tla                             # one proof module

## 1. The system

One process of the backend runs an asyncio event loop. Requests, the cleanup
job and streamed downloads are coroutines: between two `await`s a coroutine is
alone, at an `await` any other may run. They share PostgreSQL (READ COMMITTED,
one session per request), Redis (one command at a time, no persistence,
`compose.yaml:29`) and a directory. Nothing in the code locks anything: what
two coroutines do to the same data is decided by unique constraints, by the row
locks of UPDATE and by what the triggers look at.

| Component | State | Operations | Hard because |
|---|---|---|---|
| Temporary files (`tempfs/`) | files under three names, `temp_file`, `expired_file` | upload, download, delete, sweep every 30 min | quotas read before the commit, disk and table updated separately, delete against sweep, cleanup on every error |
| Votes (`forum/service.py`, e81647b2ac9c) | `thread_vote`, `reply_vote`, `upvote_count`, `downvote_count` | vote: insert, flip or delete | row read in one statement and written in another; counters kept by triggers |
| Threads and replies (`forum/`, dbf6e01bd472, 937ffa3d466e) | `thread`, `reply`, counts and last activity of thread and topic | create, soft-delete, lock | triggers that read before they lock; `created_at` older than the commit |
| Role cache (`auth/dependencies.py`, `admin/service.py`) | `user.role`, Redis `user:<name>` | role check, login, role update | two stores, no expiry, writes after the commit |
| Rate limiter (`rate_limit.py`) | Redis `rate:<id>:<route>` | INCR, EXPIRE, TTL | three calls instead of one |
| Sessions (`auth/`) | cookies, Redis `refresh:<jti>`, `blocklist:<jti>` | login, silent rotation, refresh, logout | requests of one page overlap, replies come in any order or not at all, a scan races with new keys |
| Accounts (`auth/service.py`, `admin/service.py`) | `user_id`, `pending_user`, `user`, `rejected_user` | signup, approve, reject | a name is looked up in several queries while rows move between tables |
| Listings (`forum/service.py`) | none of their own | pages of threads and replies | count and page in two statements; threads have an order without a tie-breaker |
| Media (`media/`) | a directory | upload, list, download | a file is visible while it is written |
| Page of a thread (`frontend/src/hooks/useThreadPage.ts`) | React state: page, total, list, text box | turn pages, post, vote | no call is cancelled, answers in any order or none, totals read before the await |
| Session of a page (`AuthContext.tsx`, guards, `LoginCard`, `Navbar`) | React state: who is logged in, is it being checked | load, check, call, log in, log out | every document starts as a guest; its calls race for one pair of cookies |
| Other hooks (`useTopicThreads`, `useTempFS`, `useAdmin`) | React state | fetch, patch | as above, with less of it |

How they meet: every protected route runs the middleware (sessions), then
`CookieTokenBearer` and the blocklist, then `RoleChecker` (role cache), then
the rate limiter, then its handler. A role update publishes to the role cache.
Login fills the role cache and stores a refresh token. Approval creates the
`user` row that logins and role checks read. The forum's counters and last
activity are written by triggers in the transaction of the handler. A page of
the frontend learns who is logged in from `/auth/me`, a protected route like
any other, so the check itself may rotate the cookies; every call of a page
goes through `fetchHelper.ts`, which loads `/login` on any 401.

What makes each correct:

- *Temporary files.* A row never describes bytes other than those on disk; no
  download decodes with the wrong decoder; a record is active or archived,
  never both, never lost; quotas; no bytes without an owner; what is due is
  archived in the end.
- *Votes, threads and replies.* Counts and counters equal what the rows say;
  last activity points at something live and goes back only on a deletion.
- *Role cache.* A role check goes by a role held since it began; the copy
  settles on the row.
- *Rate limiter.* At most so many grants in any window; counters go away.
- *Sessions.* A refresh token is exchanged once, is not in the store after
  that, and a logout ends what it should; a browser of overlapping requests
  keeps its session; no false alarm of reuse.
- *Accounts.* One verdict for an account, one account for a name, no id
  without an account.
- *Page of a thread.* The list is that of the page number shown, well formed,
  with the user's own new reply on it; arrows show the stored votes; a text is
  posted once.
- *Session of a page.* Who has a session is shown as logged in, and a login
  lasts until a logout or the next document.

## 2. The modules

Every module models one component. Constants with their assumptions come
first; then one action per step between awaits; then the properties. A module
names its bounds in its constants (comment "bound:"). Operators commented
"Mutant of X" are X with a plausible mistake in it: they belong to no
specification, and show that the property they are for can fail. `MCx` adds
symmetry, and what a `.cfg` cannot write. `xProofs` holds the theorems.
(`SessionProofs`: those of both `AuthSessions` and `AppSession`.)

Much of this code keeps its promises only as long as certain requests do not
overlap or certain calls do not fail. The properties say exactly that: a
history variable (`overlapped`, `clean`, `faults` by kind) records what has
happened, and the property is a disjunction whose first disjuncts name what
excuses it. A run of such a property allows everything, overlaps and all
faults, so it shows that nothing else breaks the promise; what is named does
(section 3.2).

### TempFS (`tempfs/service.py`, `tempfs_routes.py`, `scheduler.py`)

`disk[f]` has the content of the names `{id}.raw`, `{id}.zst` and `{id}`;
`temp` and `archive` are the two tables; `up[f]` is where the coroutine of an
upload is. `StartUpload` .. `FinishUpload` are the stretches of `upload`
between awaits: stream to `.raw` (`Receive`), the two quota queries, compress
(`StartCompress`), keep the smaller file (`KeepCompressed`, `KeepRaw`),
`CommitUpload`, and the log line. `UploadFails` and `FailAfterCommit` are the
one `except` around all of it. `_move_to_expired` is shared by a deletion and
by the sweep (the "movers"): `Unlink`, then `CommitMove`, or `MoveConflicts`
on the primary key, or `MoveFails`; a failure of the sweep ends the whole sweep
(`AbortMove`). A download is admitted by `AdmitDownload`, opens the file later
(`OpenFile`), and reads. Sizes are small numbers; contents are `"raw"`,
`"zst"`, `"partial"`. Passwords are a yes or a no.

### Votes (`vote_thread`, `vote_reply`, triggers of e81647b2ac9c)

`ReadVote` is the SELECT; `InsertVote`, `DeleteVote` and `FlipVote` are the
three branches, each with what PostgreSQL does when the row has changed since:
a duplicate key, a DELETE of no row, an UPDATE of what is there now. The
trigger's UPDATE of the counters is in the same step: it holds the item's row
lock until the commit. `overlapped` records that two votes of one user on one
item were in flight at once.

### Forum (`forum_routes.py`, triggers of dbf6e01bd472 and 937ffa3d466e)

`Begin...` is load and check; `Commit...` is the statement, its triggers and
the commit. Rows are numbered by `created_at`, the start of their transaction,
so a row may be committed after a younger one. The soft-delete of a thread
takes four steps (load, `MarkThread`, `PickThread`, `CommitDropThread`),
because its trigger reads the topic and the other threads before it locks the
topic; `RowIsFree` is the lock it holds on its own row meanwhile. Several
threads of equal activity are picked from in any order, as the query allows.

### RoleCache (`RoleChecker`, `is_user_admin`, `is_valid_user_token`, login, `update_user_role`)

One user, one key. Each await is a step: `Get` (and `Evict` of a value that is
no role), `Select`, `Fill`; an update is `Load`, `Commit`, `Refresh`,
`Publish`. `answer` is the last role a check went by, with the roles held since
that check began. A request is `clean` until something disturbs it: another
update commits while it runs, or its write fails; `disturbed` records that a
change of the row had a fill or another update in flight with it, or lost its
write. `RedisError` does at each step what the code around it does:
`_resolve_role` falls back to the row, the strict checks and updates end.

### RateLimit (`rate_limit.py`, `check_rate_limit`)

One caller and one route. `Incr`, `Expire` (only for the request that saw 1)
and `RetryAfter` are the three calls; `Tick` is time. `grants` counts, by age,
the requests the counter let through; `told` counts down the Retry-After a
refused caller was given, and `LetThrough[n]` adds up the last `n` ticks of `grants`. When Redis fails the route is let
through, by intention of the code; those are not in `grants`.

### AuthSessions (`TokenRefreshMiddleware`, `CookieTokenBearer`, `auth_routes.py`)

One user with several browsers. A pair of tokens is a number; `jar[b]` is the
pair in a browser's cookies; `store`, `blockedA` and `blockedR` are the keys of
Redis. A request carries the pair its browser had when it was sent. `use` is
any protected route: `CheckAccess`, `CheckBlocklist`, `CheckOwner`, `Drop`,
`Block`, `Issue`, then `Bearer` and `Handle`. `refresh` is
`rotate_refresh_token`; a missing owner goes to `Collect` and `Erase`, the scan
and the delete of `revoke_all_user_refresh_tokens`; a logout is `BlockAccess`,
`Collect`, `Erase`. `Reply` writes the cookies of the browser in any order.
`Pass` is the call of the route over a good access token, which is inside a try:
a handler that raises there (`HandlerError`, first disjunct) is taken for a
Redis that failed, and the request goes on to the refresh token, may exchange
its pair, and calls the route again; after an exchange it is called once more
(second disjunct, without cookies), else the error is the answer. `passed` says
that the route was called inside that try.
`ended`, `out`, `late`, `runs` and `parent` are history. `ExpireAccess` and
`AgeRefresh` are time; a token has passed its time before its key goes, so keys
need no expiry here. Signatures, secrets and the role in a token are left out.

### Accounts and AccountLife (`register_user`, `approve_pending_user`, `reject_pending_user`)

Four tables with their unique constraints (`Refuses`). A signup makes up to
four lookups, commits its `user_id` row and then its `pending_user` row; a
decision looks at `user`, loads the pending row, and commits the move.
`AccountLife` is the abstract specification: an account is pending once, its
first verdict ends that for good, and a verdict is not taken back. `Accounts`
maps to it by "the tables an id has a row in".

### ThreadPage (`useThreadPage.ts`, `ThreadPage.tsx`, `get_replies`, `create_reply`, `vote_reply`)

One browser on one thread, and others who post to it. `page`, `pages`, `total`,
`replies`, `loading`, `cache` are the state of the hook, `draft` is the text
box, and each call in flight is a coroutine in `call`, with the values it read
before its await. A fetch is `Count`, `Read` (two statements of `get_replies`),
`ShowList`, and `ShowParents` for parents not on the page; a post is `Submit`,
`PostBegins`, `PostCommits`, `PostAnswered`, whose four branches are those of
`submitReply`. A vote is `Vote`, a click on the up or the down arrow, then the
two statements of `vote_reply`, as in `Votes`: `VoteReads` looks for the user's
row and `VoteCommits` inserts, flips or deletes it by what was read (`Outcome`),
and `VoteAnswered` puts the answer into the list. Where a row came or went
between the two (`Conflicts`), the handler raises, and the middleware runs it
again (`VoteRunsAgain`) or the page gets the error (`VoteConflicts`). `votes` is
the row of this user for each reply; the counts beside the arrows are left out,
they are those of `Votes`. `Refused` is an answer with an error, before or
after the server did its work; `Lost` is a fetch that rejects. A new reply answers one that is there, or none
(`ParentIsThere`), since `create_reply` refuses others. `met` notes which calls a call was in flight with; the
history variables say whether that spoilt what is on the screen.

### AppSession (`AuthContext.tsx`, `GuestRoute`, `ProtectedRoute`, `LoginCard`, `Navbar`, `fetchHelper.ts`)

Composed with `AuthSessions`, which it extends: `Tab` is one of that module's
browsers, every step of a call on the server is a step of that module, and the
tokens, the store and the blocklist are the modelled ones. `Document` is the
load of a page: it shows nobody, asks `/auth/me`, and what the document before
it waited for is answered to nobody (`AnsweredToNobody`, with its cookies or,
if the browser hung up on it, without: `HungUp`, the one step that
`AuthSessions` does not have, and no fault). `PageCall`, `Login`, `Logout` are
the other calls; `Inside` is a call on its way through the server; `Answered`,
`Refused` (403) and `Expelled` (401: the browser loads `/login`) are the
answers, `AnswerLost` none. `doubt` records that calls of the document crossed,
one failed, a token expired during one, or a logout was refused.

## 3. The runs

### 3.1 Passing runs

Symmetry is over users, names, requests and other values that no operator
compares or orders. The two runs with a liveness property, TempFSCore and
RateLimit, use none.

| Run | Shows | Bounds |
|---|---|---|
| TempFSCore | rows describe the bytes on disk, a download decodes what it opens, records only move from table to table, the quotas hold; bytes are left over or lost by the named faults alone; every due record is archived at last | 2 files of one user, one upload at a time, a deletion, the sweep, a download, quotas of 3 in all and 2 per user, 1 fault of any kind |
| Votes | the counters add up to the rows however votes overlap; each is exact until votes of one user on one item overlap | 2 users, 2 items, 3 requests, 6 votes |
| Forum | exact counts, a live last reply, a topic that moves forward; only overlaps leave a topic on a deleted thread or a thread on an older reply | 2 requests, 4 rows of threads and replies |
| RoleCache | role checks and the copy are stale only if a fill or another update overlapped the change, or its write failed | 3 roles, 2 requests, 2 faults of any kind |
| RateLimit | at most two limits in any window, waiting as told suffices, counters go away unless the setter of the expiry fails | limit 2, window 3, 2 faults |
| AuthSessions | blocklisted and exchanged tokens are not in the store, a logout is final, a browser keeps its session; one exchange per token, revocations that end everything and no false alarm until requests overlap | 1 browser, 2 requests, 3 pairs, 1 fault of any kind |
| Accounts | implements `AccountLife`; one verdict and one account per name until requests overlap; no id without account | 2 names, 1 address, 2 requests, 3 ids, 1 fault |
| ThreadPage | list, page number, own reply and arrows are wrong only after calls crossed or failed; a text is posted once | pages of 2, 3 replies, 2 texts, 2 calls at once, votes up and down on 1 reply, 1 refused or lost answer |
| AppSession | a page that shows a guest has no session unless its calls crossed or failed; no late answer undoes a login | 2 calls at once, 3 pairs, 1 document after the first besides those of 401s, 1 lost answer |

### 3.2 Where the code departs from what is said of it

Three runs with `expect: violation` find a disagreement that no overlap and no
failing store is needed for; PROJECT.json quotes the lines.

| Run | What happens |
|---|---|
| ForumNullActivity | a thread without replies becomes the topic's last thread with a null time |
| AuthTwice | a handler that raises over a good access token, or after a rotation, runs again |
| AccountsRejectStuck | a name rejected once cannot be rejected again |

The others are the excuses in the passing properties. Without its excuse TLC
violates each of these:

| Property | Excuse | What happens |
|---|---|---|
| `QuotasHeld` | `Overshoot` (0 without overlaps) | uploads that overlap pass the checks before any of them is committed |
| `RowLosesFileByFault` | `crash`, `db`, `log` | the error path after the commit unlinks the file of a committed row |
| `ArchivedIsGone` | `unlink` | a failing unlink leaves the bytes of an archived record |
| `NoBytesLeaked` | `crash`, `unlink` | bytes between rename and commit survive a crash |
| `CountersDriftOnlyByOverlap` | `overlapped` | two flips by one user move a vote across twice |
| `TopicIsStaleOnlyByOverlap` | `overlapped` | the thread chosen for the topic is stale when it is written |
| `AnswersAreCurrent` | a fill in flight | a fill writes the role it read before an update |
| `StaleOnlyIfDisturbed` | a failed write, an overlap | the copy is never written, or in the other order |
| `CounterExpires` | `redisError`, `crash` | a failing EXPIRE leaves a counter for ever |
| `SlidingBound` | counts anew after `redisLoss` | a new counter lets a whole limit through again |
| `WaitingSuffices` | `redisLoss` | an EXPIRE meant for a lost counter prolongs the next |
| `LoggedOutStaysOut` | `redisLoss` | the blocklist is gone with Redis |
| `ExchangedOnce` | `overlapped` | two requests exchange one refresh token |
| `SessionsEnd` | `overlapped` | a rotation stores its token after the logout's scan |
| `NoFalseAlarm` | `overlapped`, `redisError`, `redisLoss` | a refresh takes a rotation in progress for a reuse |
| `DecidedOnce` | `overlapped` | an account is approved and rejected |
| `NameTakenOnce` | `overlapped` | a signup gets the name of a user approved meanwhile |
| `EveryIdHasAccount` | `overlapped`, a fault | a refused signup leaves its `user_id` row |
| `PageShownIsPageAsked` | `shownPage = 0` | the older of two fetches is answered last, a fetch meets a post that turns the page, or the last one fails |
| `PageIsWellFormed` | `spliced` | a reply is appended to a list that was replaced during the post: it is listed twice, or the page is too long |
| `OwnReplyIsShown` | a crossing call, a stale total, a failed fetch | others posted since the page was counted, so the new last page is another one |
| `ArrowsShowStoredVotes` | `smudged` | a list read before a vote is shown after it; two clicks are answered in the other order; a reply is appended whose post crossed a fetch; the answer to a stored vote is lost or refused |
| `TextIsPostedOnce` | `spoilt` | the answer to a post is lost and the text still in the box; the button is not disabled during a post |
| `GuestHasNoSession` | `doubt` | two calls exchange one pair, and the loser is the check |

Seen while modelling `ThreadPage` and `AppSession`; the models do what the code
does, and no run is about these alone:

- `useThreadPage.ts:100-113` asks `/replies/{id}/parent` for each missing parent
  id, and the route (`forum_routes.py:179-188`) answers with the parent *of* the
  id it is given. The cache gets the grandparent, or nothing, and the missing
  parent is asked for again with every list (`ParentsSent`).
- A reply that was appended has `reply_number` 0 (`service.py:532`) until the
  page is fetched again (`service.py:385`).
- A logout whose access token has expired is refused with 403, is shown as done
  (`AuthContext.tsx:49-56`), and leaves the refresh token alive; a rejecting
  fetch skips the navigation that the comment at `AuthContext.tsx:51` promises.
- The check and a call of the page that overlap on an expired access token
  exchange one pair twice: the loser may be the check, and a logged-in user is
  shown as a guest. The middleware's promise of a transparent rotation holds
  for one call at a time only.
- A revoked access token in the jar makes `/login` load itself on every 401 of
  its own check (`fetchHelper.ts:15-20`) until the token expires.
- A lost answer to the check leaves `sessionLoading` true: the guards show
  nothing until the document is loaded again.

**Why the bounds are enough.** Every race in this code is between two requests
about one item, with at most a third activity (the sweep, another user) that
changes what they read. The runs have these and one or two faults, so that a
fault can meet a race and a retry. Counters of created things (`MaxRows`,
`MaxPairs`, `MaxIds`, `MaxVotes`) allow one object before, one during and one
after a race. AuthSessions has one handler error, so a handler runs twice over a
good token or after an exchange; the third run takes a second error, and is
covered by the theorems, which hold for any number. In ThreadPage two replies
make a full page and a third a new one, so that an append, a fetch of the same
page and one of a new page all happen, and two clicks at once on one reply, up
or down, meet every branch of `vote_reply` and both conflicts; in AppSession a
login, the exchange of its pair and one more pair. Quotas are a small multiple
of a file's size, so that both "just fits" and "one too many" occur. Deadlock is not checked where a bound
on created things lets a behaviour end; RateLimit, whose clock never stops,
is checked for it.

**Fairness.** `TempFS!FairSpec`: the scheduler's interval trigger keeps
starting sweeps (`scheduler.py:29`), and a coroutine that can go on does; it
assumes nothing about clients, and a sweep may fail as often as `MaxFaults`
allows. `RateLimit!FairSpec`: time passes, and a request that waits for Redis
goes on. `CounterExpires` excuses the one state that no fairness leaves: a
counter whose setter failed. `ThreadPage` and `AppSession` state none: nothing
in the code makes a network answer, and a user need not click.

## 4. The proofs

Each proof module states the inductive invariant as a conjunction of named
parts, one lemma per action that says the action keeps it, and combines them
with PTL. Assumptions are the named ASSUMEs of the component's module and nothing
else.

| Theorem | Property | For all |
|---|---|---|
| TempFSProofs!TypeCorrect | `TypeOK` | files, users, quotas, faults |
| TempFSProofs!Invariance | the inductive invariant `IInv` | " |
| TempFSProofs!RowsDescribeBytes | `RowDescribesBytes` | " |
| TempFSProofs!ReadersDecode | `ReaderDecodesWhatItOpens` | " |
| TempFSProofs!LedgerIsExact | `LedgerExact` | " |
| TempFSProofs!ArchivedFilesAreGone | `ArchivedIsGone` | " |
| TempFSProofs!NothingLeaks | `NoBytesLeaked` | " |
| TempFSProofs!RowsKeepTheirFiles | `RowLosesFileByFault` | " |
| TempFSProofs!QuotasAreHeld | `QuotasHeld` | " |
| VotesProofs!TypeCorrect | `TypeOK` | items, users, requests |
| VotesProofs!TotalIsExact | `TotalMatchesRows` | " |
| VotesProofs!CountersAreExact | `CountersDriftOnlyByOverlap` | " |
| ForumProofs!TypeCorrect | `TypeOK` | requests, rows |
| ForumProofs!CountsAreExact | `CountsExact` | " |
| ForumProofs!LastReplyLives | `LastReplyIsLive` | " |
| ForumProofs!StaleTopicNeedsOverlap | `TopicIsStaleOnlyByOverlap` | " |
| ForumProofs!LastReplyWins | `LastReplyIsNewest` | " |
| ForumProofs!TopicGoesForward | `TopicMovesForward` | " |
| RoleCacheProofs!TypeCorrect | `TypeOK` | roles, requests, faults |
| RoleCacheProofs!AnswersCurrent | `AnswersAreCurrent` | " |
| RoleCacheProofs!StalenessIsExcused | `StaleOnlyIfDisturbed` | " |
| RateLimitProofs!TypeCorrect | `TypeOK` | requests, limits, windows, faults |
| RateLimitProofs!WaitingIsEnough | `WaitingSuffices` | " |
| RateLimitProofs!WindowIsBounded | `SlidingBound` | " |
| AccountsProofs!TypeCorrect | `TypeOK` | names, addresses, requests, faults |
| AccountsProofs!OneVerdict | `DecidedOnce` | " |
| AccountsProofs!OneName | `NameTakenOnce` | " |
| AccountsProofs!NoIdWithoutAccount | `EveryIdHasAccount` | " |
| AccountsProofs!ImplementsLife | `LivesOnce`, the refinement of `AccountLife` | " |
| SessionProofs!TypeCorrect | `TypeOK` | browsers, requests, faults |
| SessionProofs!Invariance | the inductive invariant `IInv` | " |
| SessionProofs!BlockedTokensAreGone | `BlockedIsNotStored` | " |
| SessionProofs!ExchangedTokensAreGone | `ExchangedIsNotStored` | " |
| SessionProofs!LogoutHolds | `LoggedOutStaysOut` | " |
| SessionProofs!ExchangeIsSingle | `ExchangedOnce` | " |
| SessionProofs!AlarmsAreTrue | `NoFalseAlarm` | " |
| SessionProofs!RevocationIsFull | `SessionsEnd` | " |
| SessionProofs!BrowserGoesOn | `BrowserKeepsSession` | " |
| ThreadPageProofs!TypeCorrect | `TypeOK` | replies, page sizes, calls, texts, faults |
| ThreadPageProofs!PageShown | `PageShownIsPageAsked` | " |
| ThreadPageProofs!PageWellFormed | `PageIsWellFormed` | " |
| ThreadPageProofs!OwnReplyShown | `OwnReplyIsShown` | " |
| ThreadPageProofs!ArrowsRight | `ArrowsShowStoredVotes` | " |
| ThreadPageProofs!TextPostedOnce | `TextIsPostedOnce` | " |
| SessionProofs!PageDrivesServer | `AppSession` takes `AuthSessions` through its own steps, `HungUp` excepted | calls, pairs, documents |
| SessionProofs!AppInvariance | the inductive invariant `AppIInv` | " |
| SessionProofs!AppTypeCorrect | `AppTypeOK` | " |
| SessionProofs!GuestsHaveNoSession | `GuestHasNoSession` | " |
| SessionProofs!LoginsStick | `LoginSticks` | " |
| SessionProofs!LoggedOutPageStaysOut | `LoggedOutStaysOut`, of the calls a page makes | " |

- *TempFS.* `RowDescribesBytes` alone is not inductive: the sweep works from a
  list, a download from a copy of a row. `IInv` says that a row exists only for
  an upload past its commit (`RowsInv`), that the final name is given once,
  together with `is_compressed` (`BytesInv`), that only recorded files are
  moved (`MoversInv`), and that a download holds the encoding of a settled file
  (`ReadersInv`). `ArchivedIsGone` needs `GoneInv`: what was unlinked stays so,
  as long as no unlink has failed; that one has failed stays true
  (`HappenedStays`), so that `no failure => GoneInv` is inductive. In the same
  way `NoBytesLeaked` follows from `Tidy` (the names beside the final one are
  free before and after an upload, and a final name belongs to a row or to a
  running upload), which holds until a crash or a failing unlink, and
  `RowLosesFileByFault` from `Present` (a placed upload has its file, and a row
  keeps it until a mover unlinks it), which holds until a crash or a failing
  commit or log write. `QuotasHeld` is not inductive either: a check and the
  commit it is for are far apart. `RoomInv` adds what the uploads past a check
  claim, each its full size until it is placed and its stored size then, and
  bounds the sum by the quota and `Overshoot`: whoever passes a check fits
  beside the stored files, and the claims it did not see are at most
  `MaxUploads - 1` files (`Few`, `OneMoreFits`). Sums over sets of files need
  lemmas of their own, from `SumUnfolds` on, by least counterexample
  (`LeastSubset`), since induction is out of reach.
- *Votes.* `TotalMatchesRows` follows from what one write does to the set of
  voters of an item, with the cardinality theorems of the library. For the
  single counters, `SerialInv` says that no two requests are about one row and
  that what a request read is still there; it holds until votes overlap, and an
  overlap is remembered (`OverlapStays`).
- *AuthSessions.* `ExchangeInv` ties each request to the store: from `Drop` to
  `Issue` the token it exchanges is in no store, and pairs are exchanged for
  older ones only (`Fits`). `LogoutInv` says that what a finished logout left
  is blocklisted and not stored, and that a late request has passed no check it
  should fail (`Keeps`); it holds until Redis loses its keys (`HappenedStays`).
  `ExchangedOnce` needs `SerialInv`, which lasts until requests overlap: one
  request is in flight at most (`Alone`), no two pairs have one parent
  (`ChildOnce`), and a pair on its way to be exchanged has not been. For
  `NoFalseAlarm`, `Accounted` says that a token missing from the store was
  exchanged or revoked, or is being exchanged; it holds until a call to Redis
  fails or Redis loses its keys. `SessionsEnd` looks at the login a pair goes
  back to, any number of exchanges ago: `AfterInv` keeps every pair in the
  store, and the one it was exchanged for, younger than the last revocation, and
  `RootAfter` carries that down to the login. `BrowserKeepsSession` allows
  overlaps, so `Alone` is no help: `JarInv` says that a pair on its way to a
  browser is nobody else's (`Apart`), that only its own browser presents the
  pair in a jar (`OwnJar`), and that a pair missing from the store was revoked
  or is being exchanged by a request that will bring another (`Kept`).
- *AppSession.* `ServerStep` says that a step of the page leaves the server
  alone, is a step of `AuthSessions` or hangs up, so `IInv` and `LogoutInv` hold
  under the page too. `GuestHasNoSession` is about a state with nothing in
  flight, and says nothing of how the page got there. `MatchInv` ties each
  call to its request on the server or to the error it was answered with.
  `SureInv` is why an error can be believed as long as `doubt` is false: one
  call is in flight at most, and on its way to `CookieTokenBearer` it has an
  access token that is good, or a pair that cannot be exchanged
  (`OnItsWay`; that the blocklisted are not stored, `BlockedIsNotStored`, is
  needed here), so whoever is refused has no session left (`Spent`).
  `GuestInv` is why a guest stays one: what a guest asks for exchanges
  nothing and reaches no handler (`Hopeless`). Time and other requests only
  take away from what a jar is worth (`Wears`, `JarWears`). `CheckInv` gives
  `LoginSticks`: a document checks once, knows nobody meanwhile and offers no
  login, so a refused check finds nobody to forget.
- *Forum.* `CountsExact` and `LastReplyIsLive` hold under every interleaving
  because each trigger reads and writes a row it holds the lock of; the proof
  needs that row numbers are given once (`Numbering`, `OwnRows`) and that a
  request's row is what it took it for (`Names`), and it counts sets of rows
  before and after one is added or dropped. The three properties that an
  overlap excuses follow from `Quiet`, what holds as long as no two requests
  have met. That `Max` of a set of rows exists is `NewestRow`.
- *RoleCache.* A fill holds what it read, and an update that nothing came
  across is alone between its commit and its answer (`CleanIsAlone`). `Settled`
  says where the copy can be meanwhile, `Current` that a check in flight has
  noted each role held since it began.
- *RateLimit.* The request that created the counter is the only one to set its
  expiry (`OneExpiry`), so an expiry that a caller was told runs down with its
  clock (`ToldInTime`). For `SlidingBound`, `TwoKeys` splits the window in two:
  its last `b` ticks belong to the counter there is, what is older to one counter
  before it, and neither let through more than the limit. What a hit and a
  tick do to the sums is `SumsGrow` and `SumsShift`.
- *Accounts.* `Held`, `OwnIds` and `PendingOnce` hold whatever overlaps and
  give the refinement: each commit moves one account as `AccountLife` allows,
  every other step is a stutter. `Alone` and `Accounted` are what else holds
  until requests overlap.
- *ThreadPage.* One invariant, of parts that lean on each other. `Base`: types,
  no number of a reply or a page that the server did not give (`Numbers`), and
  two calls in flight know that they met (`Meet`), which is what makes the
  history variables complete. `PageInv`: a call that met none is about the page
  shown. `OwnIsNew`: until a fetch crosses a post, its reply is not on the
  screen, so the append lists it once. `FormInv`: lists in flight are well
  formed, and a post that met none knows how long the list is. `VoteInv`: an
  arrow or a list in flight is right, or a vote that will mend it, or spoil it,
  is known of. `OweInv`: the page of the own reply is shown or on its way.
  `TextInv`: one post at a time, of the text in the box. That a slice of
  the rows has no row twice, and at most a page of them, is `SliceFacts`.
- *Data.* The library's induction theorems take an operator, which the provers
  cannot instantiate. Where a proof is about a recursive function it takes the
  least counterexample of a set instead (`LeastElement` over the naturals,
  `LeastSubset` over finite sets): that `Root` follows parents to the login,
  that `LetThrough` adds up, and what `SumFunctionOnSet` does when an element is
  taken out, values agree or elements go (`SumUnfolds`, `SumTakesOut`,
  `SumOfSame`, `SumOfPart`).

Only model-checked:

- liveness (`DueIsRetired`, `CounterExpires`), which the prover does not do;
- that the code refutes what is said of it in the three runs of section 3.2.

The type invariants of `TempFS`, `Votes`, `RoleCache`, `RateLimit`,
`AuthSessions` and `Accounts`, and `BlockedIsNotStored`, are proved and no longer
checked by a run.

## 5. Not modelled

- *Media*: one process, each upload writes a file under a fresh name; the one
  hazard, that it is listed while it is written, is on the plan.
- The listings of topics and threads. That of replies is in `ThreadPage`.
- The hooks of topics, files and admins, which fetch and patch lists as
  `useThreadPage` does; votes on the thread itself in `useThreadPage`.
- Uploads that overlap in TempFS: the module has them (`MaxUploads`) and the
  theorems hold for any number of them, but no run has more than one at a time.
- A second browser or a refresh by name in `AppSession`: no code of the frontend
  calls `/auth/refresh_token`; faults other than lost answers are in `AuthSessions`.
- Edits of titles and bodies, pins, nesting of replies: they write a column
  nobody else derives anything from.
- That the middleware runs a handler again which raised, outside `AuthSessions`:
  elsewhere a request is handled once, but for a vote of `ThreadPage` that met
  another. What a second run does after a commit is what a second request does.
- Start-up, configuration, error mapping, schemas, enums: no state.
- Table definitions of the migrations; they appear as constraints in the
  models. No topic is ever locked or deleted by code, so neither is modelled.
- Pages, styles, types and services of the frontend: rendering, one-line calls.
- Hashing, signatures, compression, MIME types, log formats: abstracted to the
  outcomes the control depends on.

## 6. Plan

Order of the work, most important first.

1. Done: `TempFS`, `Votes`, `Forum`, `RoleCache`, `RateLimit`, `AuthSessions`,
   `Accounts` with `AccountLife`, `ThreadPage`, `AppSession` (which composes
   `AuthSessions`); proofs about all of them, with every safety property that a
   passing run checks.
2. Modules to write:
   `Gate` (middleware, bearer, role check and rate limiter of one request in
   order, composed of `AuthSessions` and `RoleCache`: a role update ends the
   tokens with the old role);
   `Media` (streaming upload against list and download);
   `Listing` (pages of threads over a changing order; no tie-breaker).
3. Abstract specifications: a file that is stored, then retired, for `TempFS`;
   a tally for `Votes`; a register with one writer for `RoleCache`.
4. Theorems: the refinements of 3, and the safety properties of the modules of 2.
