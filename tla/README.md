# N-Drive: TLA+ models and proofs

N-Drive is a single-user file server in Go. Metadata and login sessions live in
SQLite, file contents in one directory per disk, and HTTP handlers run
concurrently on top of both. This directory holds TLA+ models of its core, TLC
configurations that check them, and TLAPS proofs of the most important
properties. Every definition follows the source under `src/`; `PROJECT.json`
maps definitions to lines.

## The system

| Component | State | Operations | Talks to |
| --- | --- | --- | --- |
| File handlers (`handler/httpapi/files.go`) | none | one handler per route, statuses, byte ranges | file service, repository, mounts |
| File service (`service/file_service.go`) | none | Upload, CopyFile, MoveFile, RenameFile, DeleteFile, RestoreFile, PermanentlyDelete, CreateFolder, RenameFolder | repository, store |
| File repository (`repository/file_repository.go`) | tables `folders`, `files`, `audit_events` | one or two SQL statements per method, no transactions | SQLite, one connection |
| Local store (`storage/local.go`) | one directory tree per disk | Save, Copy, Open, Delete | file system |
| Mounts (`storage/mounts.go`) | configured disks, fixed per process | Get, Default, List | store |
| Auth service, tokens, repository, handlers (`service/auth_service.go`, `auth/`, `repository/auth_repository.go`, `handler/httpapi/auth.go`) | table `sessions` | Login, Refresh, Logout, Me, PruneSessions | SQLite |
| Access-token middleware, rate limiter (`middleware/auth.go`) | in-memory windows | RequireAccessToken, allow | tokens, auth repository |
| Database (`database/database.go`) | schema, account | Open, Migrate, seed | SQLite |
| Configuration (`config/config.go`) | environment, read at start | Load, parseMounts, Validate | process |
| Process (`cmd/api/main.go`, `router.go`) | none | start, pruning, shutdown | everything |
| Web client (`handler/httpapi/web.go`, JavaScript) | tokens or cookies, what the page shows | submitAuth, boot, apiFor, xhrRequestFor, refreshSessionFor, logout | auth handlers, file handlers |
| `update.sh` | lock file, pid file, three binaries | lock, build, stop, install, start, probe, roll back | server processes |
| CORS and header middleware, landing page, health | see "Not modelled" | | |

Components interact by calls inside one goroutine per request and by shared
state: the tables and the disks. What makes this hard:

- **No transaction spans a table and a disk**, and no repository method but
  `RotateSession` uses a transaction. Every operation is a sequence of
  statements and system calls that interleave with those of other requests.
- **Check, then act**: folders are looked up before rows that refer to them are
  written, duplicates before the new object is removed, the trash before a purge,
  a session before its rotation.
- **Every step may fail**, and some errors are ignored (`_ = Delete(...)`,
  `_ = Audit(...)`, the error of the duplicate lookup).
- **The process may die** between any two steps, and comes back with the
  configuration of the day: a disk may be gone.
- **Times are compared as text** in some statements and as times in others.
- **The client sends calls again** after a 401 and a refresh, while answers get
  lost, other calls refresh at the same time and tokens expire.
- **The migration is not one transaction**: PRAGMAs, a rebuild, tables, columns
  and indexes commit one by one, and a start that died halfway is repeated.
- **Deployment is a shell script** that can be killed between any two commands,
  beside server processes that come up, find the port taken, hang or drain.

What makes the components correct: a row always has its object and no object is
shared, lost or orphaned without a reason; downloads are intact; a file leaves
only from the trash; folders are trees on one disk each, and every file can be
browsed to; refresh tokens work once, a logout is final and a refresh never loses
the login; every request is answered; a call of the client runs once and comes to
an end; a start loses nothing and leads to a server on a sound schema that finds
its files; an update ends unless it waits for a server that never answers, and keeps
a binary that works.

## Modules

| Module | Models |
| --- | --- |
| `Drive` | handlers, FileService, FileRepository, LocalStore, Mounts |
| `Catalog` | abstract: what the file manager promises about stored files |
| `DriveCatalog` | `Drive` implements `Catalog` (refinement mapping) |
| `DriveClaims` | what comments and handlers say and the code does not keep |
| `DriveInv`, `DriveProofs` | the inductive invariant of `Drive`, and the proofs about objects and rows |
| `DriveRequestProofs` | proofs about answers, purges, folders, and the refinement of `Catalog` |
| `Sessions` | AuthService, TokenManager, AuthRepository, auth handlers, RequireAccessToken |
| `RateLimiter` | the limiter in front of login and refresh |
| `ByteRange` | `singleByteRange` and `serveRange` |
| `WebClient` | the client's script, composed with `Sessions` (which it extends) |
| `Boot` | configuration of disks, Open and Migrate, start and shutdown |
| `Update` | the pid-file flow of `update.sh`, and server processes |
| `SessionsProofs`, `WebClientProofs`, `RateLimiterProofs`, `ByteRangeProofs`, `BootProofs`, `UpdateProofs` | the proofs about the module each is named after |
| `MCDrive`, `MCSessions`, `MCRateLimiter` | instances for TLC: checksums and symmetry |

### Drive

`folders`, `files` and `audit` are the tables, `disk[m]` the objects of a disk by
key, `mounted` the configured disks. A request slot `r` is a goroutine: `pc[r]` is
the next SQL statement or file operation, `loc[r]` its locals. One SQL statement
is one step, since the pool has one connection and statements commit on their own;
so is the creation of an object (`O_EXCL`), its completion, its opening and its
removal. `issued` collects the uuids handed out, `leaked` the keys that were
abandoned; both are history that no action of the code depends on, except that a
uuid is new.

- `Begin...` actions are the handlers: they choose the parameters of a request
  among known ids (also of rows long gone), disks (also none) and names (also an
  invalid one), and go to the first statement. `FindFolder`, `FindFile`,
  `FindTrashedFile` are the SELECTs; `Open`, `CreateObject`, `WriteObject`,
  `SaveFails`, `Removed` the store; `FindActiveByChecksum`, `Dedupe`,
  `CheckFolder`, `InsertFile`, `UndoSave` the rest of Upload and CopyFile; the
  others are the UPDATE and DELETE statements by the names of their methods.
- Foreign keys and unique constraints are part of the statements: `DirExists`,
  `NameTaken`, and `Subtree` for ON DELETE CASCADE.
- The listings are operators: `ListFolders`, `ListFiles`, `ListTrash` are the rows they
  return; `Below(m)` is what opening folder after folder of a disk leads to, and
  `Reached(m)` what it leads to for a request that names `m`, or no disk and then gets
  the default one (`mountParam`). `MakeFolder` stores the disk as it was named, also
  none: `FolderTree` says that exactly the folders with a disk can be reached.
- `StatementFails` lets any statement fail (a cancelled context, a busy or full
  database) and goes where the code goes: a failed lookup counts as "no
  duplicate", a failed INSERT leads to the removal of the object, a failed audit
  is ignored. Removals may fail and then leave the object.
- `Restart` kills every request at any point, abandons what they held, prunes
  audit events, and configures any set of disks that contains the default one.

Abstracted: file sizes, MIME types and times; a body is a member of `Content`, the
checksum any function of it (the instances use an injective and a constant one); a
name is valid or not; 413 and 415 count as 400. An open file stays readable after
its removal (POSIX), hence `Open` takes the content. The default disk stays the
default across restarts.

### Sessions

`sessions` is the table, `conn` the request whose transaction holds the only
connection. `RotateUpdate` and `RotateCommit` are the two halves of
`RotateSession`; in between everybody else waits, and a failure or a crash rolls
back. A request reads the clock (`at`) before it waits for the connection. The two
readings of the clock in `Refresh` between the lookup and the rotation are one.
Time is counted in half seconds because that is the resolution at which the text
comparison misbehaves: RFC3339Nano drops a zero fraction, and `Text` orders times
as the strings do; access tokens are cut to whole seconds (`Floor`). `issued` and
`loggedOut` are history: tokens handed out, with the session they replace, and
logouts that were answered 204.

### RateLimiter and ByteRange

`allow` holds the mutex throughout, so a call is one step; `hits`, the times at which
a client's requests were admitted, in order, and `refused` are history. A restart
empties the limiter; the properties are about one process. The clock counts instants,
`Second` of them to a second, because a window is any positive duration while
`Retry-After` is a number of whole seconds (`RetryAfter`): `RetryAfterKept` says that
waiting that long is enough for windows of whole seconds, and otherwise one second more.
`ByteRange` asks one question at a time: any file size, any header over small
numbers (one of them beyond int64), GET or HEAD.

### WebClient

One browser with tabs and one server. Each call of the page uses the request slot
of its own name in `Sessions`; `call[r]` follows it through "first", "toRefresh",
"refresh", "toRetry" and "retry", the control flow of `apiFor` and `xhrRequestFor`,
which agree in it. `held` is the session whose tokens the browser has: cookies, or
`localStorage` entries sent as bearer tokens when the server has another origin
(`remote`), a choice made once. `csrf` is when the CSRF cookie lapses; login and
`me` renew it, a refresh does not. The middleware's and the refresh handler's CSRF
tests are `CsrfMissing`; they come before the session is looked up, and their 401 is
a 401 like any other for the client. `NetworkError` loses the connection at any
point while the server goes on with the request; after a `Restart` of the server
the client sees `ConnectionReset`. `call[r].ran` counts how often a call got to its
handler.

Abstracted: the routes of files count as one kind of mutation; a page talks to one
server (`SERVERS` of length one), so that `setActiveServer` and the message for
one of several servers are left out; a login is not rate limited here (a 429 would
be one more way in which a login or a refresh fails).

### Boot

`disks` and `cred` are the environment, `mounts` what `parseMounts` made of it,
`fk` the PRAGMA of the connection. The schema is what the statements of `Migrate`
look at: which tables there are, whether `users` has an `email` (the multi-user
version), which tables have the column `mount`, and the columns of the root index.
A statement, or the whole BEGIN ... COMMIT of `migrateLegacy`, is a step; `Crash`
is a crash or an error, for which `NewRouterWithCloser` panics. `Init` ranges over
no database, the multi-user version with several accounts, and the single-user
version before disks, each with folders and files. While the server is up,
`CreateFolder` and `Upload` store rows, reduced to what a later start can spoil.
The operator changes credentials and disks while it is down, within what the README
of the repository describes: the first disk takes over `STORAGE_ROOT`, disks are
added at the end, and only the first may be called "default".

### Update

`bin`, `prev` and `fresh` are the files `ndrive`, `ndrive.prev` and `ndrive.new`;
binaries are numbered as they are built, and `works`, chosen at the start, says
which ones come up. A server process is booting, listening, stuck or draining. A
binary that works takes the port, or exits when it is taken; one that does not may die
at any time, hang before it binds the port, or bind it and never answer (`Hangs`,
"stuck"). The probe's curl has no timeout and waits for a stuck server as long as that
lives: `ProbeHealth` is then not enabled. A command of the script is a step, except that the loop that waits
for old servers is one step with its SIGKILL. The lock is free, held by an updater
that lives, or stale; `Kill` is a SIGKILL or a power-off of the session, in which the
trap does not run. `cut` records that an updater was killed at a point after which
the next update takes the untested binary for the good one. The operator starts the
installed binary by hand when no server is left (`ByHand`), without a pid file entry.

## Runs

| Run | Checks | Instance |
| --- | --- | --- |
| `files` | `TypeOK`, `RowsHaveObjects`, `SoleReference`, `NoOrphan`, `DownloadIntegrity`, `UploadAnswersRow`, `PurgeWins`, `PurgeEventsTrue`, `RowsLeaveFromTrash`, `ImplementsCatalog` | 2 requests, 2 files, 2 keys, 2 contents, 2 disks; about 675 000 states |
| `folders` | `FilesOnFolderDisk`, `FilesListed` | 2 requests, 1 file, 2 folders, 2 disks; about 800 000 states |
| `tree` | `FolderTree`, `SiblingsDiffer` | 2 requests, 3 folders, 2 names; about 180 000 states |
| `live` | `IndInv`, `Responsive`, `Reclaimed` | 2 requests, 1 file, 2 keys, 2 contents with one checksum; about 127 000 states |
| `sessions` | `TypeOK`, `OneTimeRefresh`, `LogoutIsFinal`, `ReplacedIsDead`, `RotationKeepsLogin`, `LiveTokensKept`, `RevokedForGood` | 2 requests, 3 sessions, 4 half seconds; about 1 180 000 states |
| `ratelimit` | `TypeOK`, `BurstBound`, `RefusalJustified`, `RetryAfterKept` | 2 clients, limit 2, window of 3 instants of half a second, 8 instants; about 330 000 states |
| `ranges` | `TypeOK`, `RangeExact` | files of 0 to 4 bytes, all headers over 0 to 7 |
| `client` | `RanOnce`, `Settles` | 2 calls at once, 1 tab, 2 sessions, 2 instants, all faults; about 340 000 states |
| `boot` | `TypeOK`, `RowsKept`, `ServesSound`, `FilesReachable`, `Starts` | 2 folders, 1 file, 2 names, 2 accounts, up to 3 disks, 2 crashes; about 330 000 states |
| `update` | `GoodBinaryKept`, `CompleteMeansServed`, `UpdateEnds` | 3 builds, 4 process ids, 2 kills; about 570 000 states |
| `cascade`, `lock` | the findings below: each is violated | |

The bounds. Races in this code are between two requests and at most one row or
folder that both touch: two slots that are used again and again give every
interleaving of two operations with any history of earlier ones, since crashes and
completed requests free the slots. Uuids are spent for good, so the number of ids
bounds how many files and objects a behaviour creates: two files and two keys
allow an original and its copy, two uploads, or an upload that fails or is
de-duplicated beside another that lives; three folders allow
a chain of two subfolders for the cascade; three sessions a login and two
rotations, or two logins. Two disks make cross-disk mistakes visible. A limit of 2
and a window of 3 are the smallest in which the first and the last request of a
window differ and a stretch of time can straddle two windows, and 3 half seconds are
no whole number of seconds; eight instants hold more than two windows. Two calls of one tab share the browser's tokens as calls of
two tabs do; with an access token of one instant and a refresh token of two, calls
meet valid, expired and replaced tokens, and two sessions are a login and its
rotation. Two folders give a parent with a child, or two root folders that clash;
three disks the renamed first one and two added ones; two crashes an interrupted
start whose repetition is interrupted. Three builds are enough for two bad binaries
in a row before or after a good one, and two kills for an update that finds the
remains of one that found remains. The `update` run needs one updater, since the
`lock` run shows that two are not kept apart; it may come to rest when all builds
are done, and deadlock is not checked there. The pools of interchangeable ids are symmetry sets in the
safety runs; runs with liveness use none.

Fairness. `Drive!FairSpec` has weak fairness for the steps of each request: a
statement or system call returns, with a result or an error. The body of an upload
is bounded by `ReadTimeout` (30 minutes by default), after which reading fails and
`SaveFails` is taken. Nothing is assumed of arrivals or restarts.
`WebClient!FairClientSpec` has weak fairness for the scripts of the page, which run
when an answer or an error is there (a fetch settles: a server that is gone resets
the connection), and strong fairness for the steps of a request on the server,
because a request that waits for the connection is disabled while a transaction
holds it; `database/sql` keeps the waiting requests in a queue and hands them the
connection when it comes back. Without strong fairness a request could be passed
over for ever. `Boot!FairSpec` has weak fairness for the start: somebody starts a
server that is down, and its statements return. Nothing forces the operator to
mend a configuration, hence the exception in `Starts`. `Update!FairSpec` has weak
fairness for the script, whose commands return, except for a curl that waits for a
stuck server, and strong fairness for `GiveUp`: the loop of fifteen attempts is
bounded, and a server that never listens uses them up. No fairness is assumed of
server processes: they may hang. `UpdateEnds` hence promises that an update ends or
waits for a stuck server for good (`Blocked`).

## Findings

1. `cascade`: DeleteFolder counts and deletes in two statements; a subfolder
   created in between is deleted with its parent. Files only lose their folder:
   `FilesListed` and `RowsLeaveFromTrash` are proved.
2. `lock`: `update.sh` tests for the lock file and writes it in two commands; two
   updates that start together both run, and one may move away what the other has
   just installed. `LockExcludes` proves that this window is the only one.

### Disagreements without a run

Met while modelling and visible in the models, kept here for the reader:

- CreateFolder without a disk stores the empty disk id (`MakeFolder` in `Drive`):
  the folder is in no listing, although `mounts.go:36` says that the first mount is
  used when a request names none. The listings do resolve an absent disk to the default
  one (`mountParam`), hence the exception in `FolderTree`. The web client always names
  one.
- `Retry-After` is the window with its fraction of a second cut off
  (`middleware/auth.go:127`). `Validate` accepts any positive window (`config.go:263`);
  with `LOGIN_RATE_WINDOW=1500ms` a client that waits the announced second is refused
  again (`Slack` in `RetryAfterKept`).
- The health probe of `update.sh` runs curl without a timeout (line 174): a new binary
  that binds the port and never answers keeps the update and its lock for good, and the
  previous binary is not restored (`Blocked` in `UpdateEnds`).
- A rename of a folder to a sibling's name is answered 404 and not 409, for
  `RenameFolder` does not map constraint errors to `ErrConflict` (`FailStatus`).
- `PruneSessions` compares texts of times and deletes a session up to a second
  before it expires (`Prunable`). An access token does not suffer: `LiveTokensKept`.
- Two calls that are answered 401 at the same time refresh with the same token;
  the second refresh is refused, and the page signs the user out while the session
  is alive ("Your session has expired", `Expired` in `WebClient`).
- A refresh does not renew the CSRF cookie. A page that stays open for seven days
  is refused every mutation and every refresh until it is loaded again.
- "Existing accounts are never modified or deleted" (`database.go:60`): the
  migration of a multi-user database does not copy the accounts, and seeds the
  configured one (`Rebuild`, then `Seed`). `RowsKept` promises the account from the
  single-user version on.
- Two root folders of two former users with one name keep the server from starting
  after the migration (`RootClash`), and no message says which.
- A later disk that is called "default" takes the id from the first one, and files
  stored before there were disks are then looked for on it; `SetDisks` excludes it.
- An update that is killed between the installation and the verdict leaves an
  untested binary in place of the good one, which the next update throws away
  (`cut`); one that is killed between the start of a restored server and its entry
  in the pid file leaves a server that the next update does not stop when the pid
  file names another live one, and whose answers its probe may take for the new
  server's, against `update.sh:165`.

Two comments disagree with the code without consequence and have no run.
`CopyFile`'s says that the stored object is reused, but it is copied: the code is
the safe variant, and `SoleReference` rests on it. `singleByteRange`'s says that
malformed ranges are ignored, but one whose start is past the end of the file
(`bytes=9-3`) is answered 416, since the start is tested before the end is parsed.

## Proofs

The safety properties of every passing run, action properties and the refinement
included, are theorems, proved for every value of the constants; `PROJECT.json`
lists them. Bounds such as `MaxTime`, `MaxBuilds` or `MaxFaults` are constants like
the others, so that the theorems hold of behaviours of every length. Each proof module
states an inductive invariant, proves it with one lemma per action (or per group of
actions that touch the same things), and derives the properties from it.

### Assumptions

Those on the constants are named and stand in the modelling modules; TLC evaluates
them. They say that zero values and markers (`Nil`, `Root`, `NoMount`, "stale")
differ from ids, that the default disk is a disk, that bounds are numbers, that a second
has a positive number of instants (`SecondAssumption`), and:

- `DriveCatalog!IdAssumption`: a uuid names a file, a folder or an object, and only
  one of them, for uuids are random;
- `Sessions!TTLAssumption`: access tokens last, and refresh tokens outlast them, as
  `NewTokenManager` demands; `LimitAssumption`: a limit and a window are positive;
- `SizeAssumption`: a file is smaller than the largest int64.

Nothing is assumed of checksums (collisions included), of the number of requests,
or of what fails. The theorems of `UpdateProofs` have a hypothesis on the behaviour,
`[]OneAtTheLock`, explained below.

### Drive: objects and rows (`DriveProofs`)

`Invariance` proves `IndInv`; `TypeOK`, `RowsHaveObjects`, `SoleReference`,
`NoOrphan`, `DownloadIntegrity` and `RowsLeaveFromTrash` follow. The properties are
not inductive by themselves. That the row an INSERT writes has its object depends on
the object still being there when the INSERT runs, hence on nobody else removing it,
hence on who may remove what. `IndInv` adds:

- `At(pc[r], loc[r])`, what is true of a request at each label: its locals
  (`LocalsAt`), its body and checksum (`BodyAt`), and what it may rely on in the
  world (`WorldAt`): before the INSERT its object is on disk; the object of a row
  that was read is gone or unchanged; a row about to be purged still has the key
  that was read;
- `OwnersOK`: an object that a request may still remove belongs to no other
  request and is not abandoned;
- `OpensOK`: nobody writes under a key that somebody is about to open;
- `RowsIssued`: keys and ids in use are spent, so that new ones are new.

Most steps change no object and no ownership, and follow from one lemma
(`QuietStep` and the lemmas built on it); the steps that create, complete, insert,
purge and remove objects, and the restart, are done conjunct by conjunct.

### Drive: requests, folders, refinement (`DriveRequestProofs`)

`RequestInv` comes on top of `IndInv`, whose step lemmas it uses. It remembers what a
request has learnt and may still rely on when others have run: the row a duplicate
lookup found, the answer that waits to be sent, the row a purge deleted (which no
later INSERT brings back, ids being spent), the folder that was looked up. Every step
satisfies `Frame` (rows keep disk, object and checksum, spent ids stay spent, folders
keep disk and parent), from which most of it follows at once. `OnePurge` makes
`PurgeWins` inductive; `TreeInv` holds the properties of folders.

`FilesListed` says that every file can be reached from the root of its disk, and
`FolderTree` that exactly the folders with a disk can. Both rest on `Rooted`: a folder
is below the root by folders of its own disk, or of "" if it has none. `Below` is
defined as a least set that is closed under "the parent is in it", so that no induction
is needed: a new folder is in every set closed in the new table, and a deletion removes
a whole subtree, whose complement stays below the root. What is below the root of a
disk has that disk in its row (`BelowOnDisk`), so that no listing shows a folder
without one.

`DriveImplementsCatalog` is the refinement: `Init` maps to `Init` of `Catalog`, the
INSERT of an upload or copy to `Add`, a (successful) DeleteFile or RestoreFile to
`Toggle`, the DELETE of a purge to `Purge`, and every other step, errors, crashes and
restarts included, to a stutter. The stutters are the substance: the object of a
row does not change under any Save, Removal or Restart, which is `RowsHaveObjects`
and `SoleReference` with the clause of `IndInv` on who may write where.

### Sessions and the web client

`SessionsInv` adds to the properties that a request presents tokens that were handed
out, that the session in a transaction is neither revoked nor pruned by others
(the connection is held), that a logout leaves a revoked row, and that a row outlives
its access token. The last one carries `LiveTokensKept`: pruning compares texts, in
which a time may be up to a second off, but the expiry of an access token is a whole
second (`TextOrder`).

`ClientDrivesSessions` proves that whatever the browser and the network do, the server
takes a step of `Sessions` or none; the theorems about `Sessions` thus hold of
`ClientSpec`, and `SessionsInv` is there for the client's own invariant, in which a
call of `files` that got to its handler is in a phase from which it is not
sent again (`FilesCallOK`). `RanOnce` follows.

### RateLimiter and ByteRange

`RateInv` relates the entry in memory to the history of a client: the window holds the
last `count` admissions and begins with the first of them, and what was admitted before
is a sequence whose last window is over. `BurstBound` rests on `Spread`: the last of
any `2 * Limit` requests in a row comes a window after the first, since two of them open
windows. The lemmas on counting turn this into cardinalities; one of them uses the
least element of a set of numbers. `RetryAfterKept` rests on the division in
`RetryAfter` (`SecondsCover`): the announced seconds cover a window of whole seconds,
and one second more covers any other.

`RangesExact` goes through the four outcomes of `singleByteRange`, for files of every
size. A range that selects positions of the file is answered with exactly those; a
well-formed one that selects none of a file that is not empty, with 416. Numbers beyond
int64 count as no number in the reference as in the code (`Parses`), so that the theorem
compares with RFC 7233 for representable numbers only.

### Boot (`BootProofs`)

`BootInv` says what each phase of `Open` and `Migrate` leaves to the next ones
(`PhaseInv`), what databases of every age have in common (`SchemaInv`), what the
operator keeps to (`ConfigInv`), and where the object of every file is in terms of the
configuration of the moment (`PlaceInv`). The operator's changes preserve `PlaceInv`
because the first entry keeps its directory and id and later ones are only added;
`ServesSound`, `FilesReachable` and `RowsKept` follow. `ServesSound` promises one
account, not the configured one: credentials that change later are not adopted.

### Update (`UpdateProofs`)

The `lock` run shows that the lock does not exclude a second updater that looks for it
before the first has written it, and with two updaters at work `GoodBinaryKept` fails
as well. What is proved is that this is the only way: `OneAtTheLock` says that no two updaters are
between the start of the test and the write at the same time, and under
`[]OneAtTheLock`, for any number of updaters, kills and stale locks, `LockExcludes`
proves `[]OneUpdate`, `WorkingBinaryStays` `[]GoodBinaryKept`, and `CompleteIsServed`
`CompleteMeansServed`; the last two except for updaters killed at a `Delicate` point
(`cut`), as the properties say. With a single updater the hypothesis holds by itself
(`OneUpdaterIsSafe`), which is the case the `update` run checks.

`UpdateInv` follows the script command by command: `GoodAt` says which of the files
holds a working binary, `ServersAt` which processes may answer: only the one of
the pid file, until the old ones are stopped, then only the one that was started. At
"complete" the probe got an answer, hence from the new server, hence from a binary
that works, which therefore need not be kept as the previous one. Between updates the
conditions of "idle" hold, and a kill falls back to them from every point that is not
`Delicate` (`Rests`).

### Only model-checked

Liveness: `Responsive`, `Reclaimed`, `Settles`, `Starts`, `UpdateEnds`. It rests on
fairness and ENABLED, which the prover does not handle. The two violated properties
(`OnlyEmptyFoldersDeleted`, `OneUpdate` without hypothesis) are false, hence nothing to
prove.

## Not modelled

- Search, dashboard, per-disk counts, paging, sort order: read-only views.
- Requests that mix cookies and bearer tokens, CORS, security headers, logging.
- Signatures, password hashes and random tokens: taken as perfect.
- Parsing of strings in the configuration; its validated results are the models'
  constants.
- The client's views, uploads with progress and several servers at once; landing
  page, health check, disk usage: no state worth a model.
- The systemd flow of `update.sh`, which depends on a unit file outside the
  repository, and its probe by log file on hosts without curl.
- What a graceful shutdown does to single connections.
- Power loss: `Restart` is the death of the process, not of the page cache.

## Plan

Done: `Drive` and its file properties, folders, liveness, `Catalog` and its
refinement, `Sessions`, `RateLimiter`, `ByteRange`; `WebClient` on top of `Sessions`,
`Boot` and `Update`; then the proofs of every safety property of the passing runs and
of the refinement. Left, in this order:

1. the safety facts under the liveness properties, as far as they need no fairness: a
   request that waits can always be served (no lock without a holder), and the
   number of statements a request still has to run decreases;
2. a hypothesis for the `cascade` finding, like `OneAtTheLock` for the lock: only a
   subfolder created between the count and the DELETE is lost;
3. shorter proofs where two modules prove the same shape (`Moves` of `Sessions`, the
   request lemmas of `Drive`).
