# A TLA+ verification project for NAS-OS

NAS-OS is a web administration server for a Linux NAS.  Its backend
(`src/backend/nasos`) is three kinds of Python process, each on one asyncio
event loop:

* the **web** process (`web/`, `api/`, `services/`, `events/`, `db/`,
  `monitor/`), unprivileged, the only one that opens SQLite;
* the root **agent** (`agent/`, `system/`), which runs the commands; the web
  calls it over one Unix socket (`rpc/`), and it pushes job events back over
  the same socket;
* one **fileworker** per logged-in user (`agent/fileworker.py`), started by the
  agent under that user's uid, which serves file operations and uploads.

The frontend (`src/frontend`) is a React desktop that talks to the web process.

What makes the system hard to test is always the same: a request of a user
changes two or three stores (a table, a file or device, a service), in two
processes, with an await between any two of them.  Other requests run in the
awaits, commands fail, processes restart, and nothing undoes an earlier step.

## 1. Inventory

| part | state | operations | what is hard | what makes it correct |
|---|---|---|---|---|
| job runner (`agent/jobs.py`) | job records, semaphore, lock per resource, `jobs.jsonl` | submit, request_cancel, _run | permits held while waiting for a lock; late cancellation; loss at a restart | exclusion and submission order per resource, bound on running bodies, one outcome per job, every job ends |
| storage manager (`services/storage/plan.py`, `completion.py`, `agent/handlers/storage.py`) | plan store, volumes table, disks, VGs, units, drop-ins | create_plan, execute_plan, the steps of the job, registration | plan, confirmation, queue and execution are far apart in time; event lost; step fails | erases only what was shown and is unused; a finished volume survives; rows stand for volumes |
| storage guard (`services/storage/guard.py`) | none | compute_protected, _resolve_spec | nested device trees, duplicate serials | protected exactly if something below is in use |
| managed files (`system/managedfile.py`) | file, backups, running service | write_and_apply | rollback after validate or apply failed, exceptions it does not expect, backups at their limit | the file is what the last call promised, the service runs it, the replaced content is kept |
| shared folders (`services/shares.py`, `agent/handlers/shares.py`, `system/acl.py`) | shares and permissions tables, directories, ACLs, `nasos.conf` | create, delete, set permissions | overlapping requests, jobs overtaken, reused row ids, lost answers, failing setfacl and Samba, users with new uids | configuration, ACL and directory agree with the tables |
| uploads (`api/uploads.py`, `services/uploads.py`, `agent/handlers/uploads.py`, `agent/filedata.py`) | row, worker's handle, `.part` file | POST, PATCH, DELETE | overlapping and broken-off PATCHes, removals and commits that fail, lost answers, worker exits | no hole, nothing half-written under a final name, no orphan |
| transport (`rpc/transport.py`, `agent/main.py`, `dispatcher.py`, `broadcaster.py`) | pending calls, connections, tasks | call, read loop, reconnect, broadcast, close | a dying connection and its successor; no timeouts; restarts | each call gets its own answer or an error, is done at most once, and ends |
| accounts (`services/users.py`, `groups.py`, `system/users.py`) | users and groups tables, passwd, passdb, groups | create, import, enable SMB, set password, delete, membership | several stores, commands that fail before or after they took effect, lost answers | rows say what is true; nothing is left behind |
| sessions (`services/auth.py`, `web/deps.py`, `api/auth.py`) | sessions table | login, resolve with sliding expiry, logout | SELECT and UPDATE or DELETE apart, reused ids | requests act for their own user; ended sessions stay ended |
| event bus and WebSocket (`events/bus.py`, `web/ws.py`, `frontend/src/api/ws.ts`) | bounded queues, subscriptions, sockets, timers | publish, subscribe, forward, reconnect | queue at its limit, reconnects, logout and login | subscriptions agree; the newest event is shown; values never go back |
| fileworker and supervisor (`agent/fileworker.py`, `fileworker_supervisor.py`) | pid and socket per uid, idle timer | ensure, reap, watch, exit | zombies, merged SIGCHLD, exit under way | one worker at a time; a dead one is noticed; what was read is answered |
| file operations (`agent/handlers/files.py`, `api/files.py`) | the file tree | delete, copy, move, zip, rename | check, then act in a thread; exits and full disks midway | no content is lost, what is done is whole |
| SMART poller (`services/storage/health.py`) | disks_seen, notifications | poll | changes between polls | one notification per change |
| window manager (`frontend/src/shell/wm/store.ts`) | windows | open, focus, move, maximize | long sequences of actions | stacking order, geometry restored |

The remaining parts (firewall, command adapters, configuration, command line,
static files, the applications of the frontend) are listed in `PROJECT.json`,
with the reason where they are not modelled, and so are the hazards met while
reading, each at its line with the properties that would catch it.

How the parts interact: the web calls the agent over one connection (the agent
starts calls in the order it reads them and runs each in a task); handlers
either answer at once or submit a job and answer with its id; the end of a job
comes back as an event, once, to whoever is connected; the bus hands it to the
volume registrar and to browsers.  Shares and Samba meet in `nasos.conf`,
written through `ManagedFile`.  Storage jobs and recursive ACL jobs share the
job runner and are told apart by their resource.  A file request first asks the
agent for the user's worker and then talks to that worker alone.

## 2. Modules

| module | models | composed with |
|---|---|---|
| `JobService` | what the runner promises (abstract) | implemented by `JobRunner` |
| `JobRunner` | `agent/jobs.py` | `INSTANCE JobService` with a refinement mapping |
| `Storage` | plan to registered volume: both processes and the disks | relies on `JobService`: one storage job at a time, in order |
| `StorageGuard` | `compute_protected`, `_resolve_spec` over device trees | `Storage` uses its result as `Protected` |
| `ManagedFile` | `write_and_apply` | `Shares` uses it as one write that is kept or restored |
| `Shares` | shared folders, ACL jobs, `samba.apply_config` | |
| `Uploads` | tus uploads, web and worker | |
| `RpcService` | what a call of the agent promises (abstract) | implemented by `Rpc` |
| `Rpc` | transport, server, dispatcher, broadcaster | `INSTANCE RpcService` with a refinement mapping |
| `Sessions` | login, logout, expiry, roles | |
| `Events` | event bus, WebSocket, the browser's hub | |
| `Accounts` | users and groups, from route to command | |
| `FileWorker` | a worker's life and the requests it meets | part of `FileStation` |
| `Files` | what jobs do to a file tree | part of `FileStation` |
| `FileStation` | the routes of `api/files.py` over worker and files | extends `FileWorker` and `Files` |
| `JobRunnerProofs`, `UploadsProofs`, `RpcProofs`, `EventsProofs`, `FileStationProofs` | theorems | each extends the module it is named after |
| `StorageProofs` | theorems | about `Storage` and `StorageGuard` |
| `SharesProofs` | theorems | about `Shares` and `ManagedFile` |
| `AccountsProofs` | theorems | about `Accounts` and `Sessions` |
| `MC*` | instances and symmetry for TLC | |

**An action is what happens between two awaits.**  All three processes run on
one event loop, so nothing else can come between the statements of such a
segment; what runs in a thread (`to_thread` in `filedata.py` and `files.py`) or
in a synchronous route (FastAPI runs those in a thread pool) is split where it
does separate system calls or statements.  Guards are the code's conditions and
early returns.  An operator named `X_something` marked *Fault* is a wrong version
of `X`: replacing `X` by it must break the property it is paired with in
`PROJECT.json`, which shows that the property depends on that code.

Variables marked *history* in a module's declarations change nothing; they
remember what the exceptions of a property need (that requests overlapped, that
an answer was lost, that two operations aimed at one path).

### JobRunner

`submit` creates record and task; a task takes the semaphore (`AcquireSlot`),
then the lock of its resource (`AcquireLock` if it had to wait).  Both are FIFO,
as asyncio's are.  The body is a number of units; `BodyStep`, `BodyReturns`,
`BodyRaises`; `Finish` is the finally block, which has no await.  Its first call,
`_append_result`, may raise: then no line is written and the handle is not popped,
but the permit and the lock are given back all the same.  Bodies that look at
`cancel_requested` and bodies that never do are told apart by `coop`.  `Restart`
loses all but `jobs.jsonl`.

### Storage

Host: what is on each disk, its size, who erased it last, VGs, LVs, mounts,
drop-ins.  Web: plans, calls in flight, the volumes table.  Agent: the queue of
jobs with the steps each has still to do.  A request and its job have the same
name.  `Upset` counts restarts of either process, connections that break with both
alive (`ConnectionBreaks`: the transport's read loop ends on a line that is too
long, and only the next call connects again), INSERTs that fail, names registered
by hand and things other people do to disks.  `missed` remembers the volumes whose
event of success one of these met.  wipefs and parted open a disk exclusively, so a
disk that comes into use during the job makes a step fail; that is why
`OutsideUse` leaves the disks of the running job alone (marked external).

### Shares

A request goes through `pc`: sent, handled by the agent, answered, committed,
its configuration written, answered.  `wire` and `back` are the two directions
of the connection.  Handlers that do not wait take effect in the order they were
sent; setfacl and Samba overlap.  A call may not be served (`Unserved`) and an
answer may not come or its commit fail (`GivesUp`), so that a request ends with
its first half done.  `peak` remembers how many requests and jobs have been under
way at once, because several properties hold only as long as requests come one
after the other.

The tables and `nasos.conf` name users and groups; the ACL has their numbers, which
a request looks up once (`Resolve`) and sends along.  `number` is what a name has
now, `asOf` what it had when the permissions of a share were last set; `delete_user`
and `create_user` change the former and leave rows and ACLs as they are.
`stripped` are the shares whose directory a deletion removed without coming to the
row.

### Rpc

A call is in `_ensure_connected` (at the lock, opening, drained) or waits for
its future; `pending` is the table, `writer` the connection in use, `readers` the
read loops that run.  A connection is two queues of frames; the agent's side has
a handler per connection and a task per request.  A frame over the line limit,
`close()`, and a crash and restart of the agent may come at any moment.  The
refinement maps what the caller has been told (`told`) and how often the handler
worked (`done`) to `RpcService`.

### Sessions

Rows have ids, and SQLite gives the largest id plus one, so a deleted id may
come back.  `resolve_session` is a SELECT, then an UPDATE (`Touch`) or a DELETE
(`Evict`) by that id.  Time is counted in ticks of idleness up to the limit.

### Events

The browser's side is `WsHub`: `start`, `stop`, `subscribe`, sockets and their
late close events, reconnect timers.  The server's side is the receive loop and
one forwarder per subscription, which waits when the socket is full, so that the
bus's queue fills and drops its oldest item.

### Accounts

A request is a record in a slot: what it wants, the commands still to run and
the answer.  The system (`os`) is accounts, passdb entries, groups and members.
A command works, fails (`Fails`), or takes effect and reports a failure
(`Misreports`: `userdel -r` exits with 12 when the account is gone and the home is
not, and `reap` may take any command's exit status); the request goes on as after
a failure.  `Lost` is an answer that never arrives; the service
writes the row when the answer comes, and only the columns whose value differs
from the one it read, as SQLAlchemy does.  It writes it by the id that was read
when the request began, and by then the number may be another user's.

Four history variables say when a property may fail.  A request is `alone` as
long as it is the only one on its name.  `doubt` holds what of a name's row
nothing vouches for: its account, its SMB flag or its passwords.  Overlapping
requests, lost answers, restarts, half-done deletions, misreported commands and
rows written for another name put it there; a request that is alone takes out what it sets.  `orphans` are
accounts that came without a row or whose create answered with an error, and
`stranded` are names whose passdb entry `pdbedit` failed to remove.

### FileStation

`FileWorker`: a process is serving, closing (server closed, connections kept),
draining (loop left, threads still working), a zombie, or gone.  A request asks
`ensure`, connects, sends a line, is answered.  `Files`: a path leads to an
inode; a job takes its items one after another, looking on the event loop
whether the destination is free and working in a thread; a copy opens, writes
and may fail midway; a move between file systems copies and then unlinks by
path.  `FileStation` says which of these goes on in which state of the process.
`contested` remembers that an operation aimed at a path on which a thread was at
work, be it towards that path or about to remove it at the end of a move, and
`torn` that a copy read a file which was still being written.

### ManagedFile, Uploads, StorageGuard

`ManagedFile` tells the failures `write_and_apply` expects, after which it restores
(`ConfigValidationError`, `ConfigApplyError`), from all others (`Raises`,
`RestoreRaises`), after which the call ends where it stands; `astray` says that the
last call to end since one returned did so.

In `Uploads` data is counted in blocks of one `PATCH_BUFFER_SIZE`; clients send
slices of their own file, so a block is either there or not.  `RemoveFails` is an
`os.remove` that fails after `upload_abort` dropped the handle; `BreaksOff`,
`Breaks` and `CompleteBreaksOff` are answers lost, commits failed and web restarts
between the worker's half of a request and the row.  `torn` remembers which
request left an upload half done.

For `StorageGuard` see the head comment of the module.

## 3. Runs

| run | instance | shows |
|---|---|---|
| `jobs` | 3 jobs, 2 permits, 1 resource, both kinds of body, 1 restart, cancel at any time, 1 line that cannot be appended | `TypeOK`, `ResourceExclusive`, `ConcurrencyBounded`, `NeverStoppedMidway`, `OutcomeReported`; `JobRunner` implements `JobService` (order per resource, one end per job); under fairness `EveryJobEnds`: taking the semaphore before the lock cannot deadlock |
| `storage` | 2 disks, 2 sizes, 2 volumes, 2 plans, 2 executions, 1 upset | `ErasesOnlyWhatWasShown`, `VolumeIntact`, `RegisteredIsMounted`; `DoneIsNotForgotten`: a finished volume has a row or will have one, unless the upset met its own event |
| `guard` | every forest of 4 devices, 4 kinds, shared serials | `ProtectedIffHostsUse` against a reference definition, `ResolvedIsUnused` |
| `managedfile_serial` | 3 calls one after the other, MAX_BACKUPS 2, 4 seconds, any exception anywhere | `QuietIsSettled`: restored after the failures that are expected, in order again once a call returned after another kind; `ReplacedIsKept` |
| `shares` | 3 requests, at most 2 at a time, 1 name, 2 volumes, 1 principal deleted once and created again, 2 numbers; setfacl, Samba, calls and commits fail | `ConfIsCurrent` for any overlap; `ShareHasDirectory` but for a deletion that stopped halfway; one after the other `AclIsTableSerially`, in the numbers of the time, and `NewShareIsClosed` |
| `shares_acl` (violation) | 2 overlapping permission changes | the ACL ends up other than the table |
| `uploads` | 2 uploads to one path, sizes 1 and 2, 3 PATCHes, 1 exit, 1 fault (a write, rename, removal, answer or commit) | `DestIsWhole`, `OffsetIsExact`; `RowHandlePart`: rows, handles and files agree, and where a request broke off differ just as it explains |
| `rpc` | 2 calls, 2 connections, 2 events, 1 restart or `close()` | `WaitingIsWatched`, `EventsInOrder`; `Rpc` implements `RpcService` (at most once, own answer); under fairness `EveryCallEnds` |
| `sessions` | 2 tokens, 2 requests, expiry | `ServedAsItself`, `EndedStaysEnded`, `EndsByItsOwn` |
| `events` | 1 topic, queues of 2, 3 sockets, 3 events, 2 components, 1 logout | `OneSocket`, `SubscriptionsAgree`, `NeverGoesBack`; under fairness `NewestIsShown` |
| `accounts` | 2 names, 1 group, 2 passwords, 2 requests at a time and 4 altogether, 2 upsets (a command fails or misreports, an answer is lost, the agent restarts) | `RowIsTruthful`, `NothingIsStray` |
| `filestation` | 2 files in 2 directories, 3 operations (at most 2 jobs at a time, of one item; renames), 3 requests, 2 workers, a kill or agent restart, a full disk | `OneWorker`, `DeadIsNoticed`, `ReadIsAnswered`, `NothingIsLost`, `WrittenIsWhole` |

Every module states its type invariant (`TypeOK`, `FileTypeOK`,
`AccountsTypeOK`; that of `StorageGuard`, `TreeInv`, stands with its proofs).  It
takes a place in a run in `jobs`; in the other modules it is a theorem of section
4, and TLC finds no violation when it is added to the run's configuration.

Bounds.  Three jobs for two permits are the least with which one job waits for a
permit while another, holding its permit, waits for the lock; one that leaves no
line and keeps its handle lives beside two that do or restart.  Two plans and two
executions give a plan executed twice, two plans for one disk and a mirror over a
single; one upset falls into every gap between plan, execution, start, end and
registration, and the run still asks of every volume whose event it did not meet.
Four devices give disk, partition, array and volume below one another, and
branching.  In `ManagedFile` three calls with two backups push one out.  In
`Shares` three requests give delete, create and a late third; two at a time are
the most `ShareHasDirectory` is about, and the theorems of section 4 are for any
number; one deletion of a user and two numbers give the same name with another
number.  In `Uploads` three
PATCHes are two that overlap and one that resumes; sizes 1 and 2 give a file with
a last block that is not its first, where a hole would show.  In `Rpc` a call
makes at most one connection, and two calls are enough for one that is lost with
the old connection while the other makes the new one; two events give an order.
In `Sessions` two tokens are the least with which an id changes hands, and two
requests race at the limit.  In `Events` three events overfill a queue of two, and
three sockets are the first, the one after a drop and a late third.  In `Accounts`
four requests are two that overlap, one that repairs and one that builds on it;
two upsets make a second thing fail after a first.  In `FileStation` two files and
four paths let a destination be free or taken in the same or the other directory;
three operations are a move at work, a rename that clears its source and one that
puts another file there; and two workers let a request meet the successor of one
that exits.  One request at a time suffices there, since jobs outlive their
requests.

Symmetry is used over names, requests, plans, volumes, sizes, jobs, uploads and
paths where the specification treats them alike, and only in runs without
liveness.  `CHECK_DEADLOCK FALSE` is set everywhere: a system whose bounded set of
requests is used up has nothing left to do.

Fairness.  `JobRunner`: weak fairness of each task's next step and of each lock's
hand-over: the event loop runs ready tasks, and commands a body waits for come to
an end (a command that hangs is outside the claim, and `system/runner.py` sets no
limit).  `Rpc`: weak fairness of the calls' own steps, of the read loops, of the
server and its tasks, for the same reason, and of the agent's start, which systemd
does (`Restart=`).  `Events`: weak fairness of the server's loop and of the
browser's message events on a socket that is open.  Nothing is assumed of users,
failures, restarts, drops or reconnects.

## 4. Proofs

Each theorem holds for every value of the constants: any number of jobs, disks,
calls, tokens, sockets, names, files, device trees of any depth, and any of the
bounds that a run fixes.  Every inductive invariant was first checked by TLC on
the instance of the component's run or on one as near to it as TLC can enumerate.
What is assumed of the constants is what the modules `ASSUME` and TLC evaluates:
bounds are naturals (positive where the code's are), names for "none" (`NoJob`,
`NoCall`, `NoRequest`, `NoToken`, `NoRow`, `NoAcl`, `NoName`, `Free`, ...) are none
of the things they stand in for, layouts are sequences of disks, and the sets that
are counted or of which a largest member is taken are finite (tokens, topics,
requests of `Shares`, user names and slots of `Accounts`), the numbers of `Shares`
are none of them `NoNumber`.  There are share names
and volumes; users and groups have different names, and `nasos-users` is not a
group one can manage; devices have the four kinds that `guard.py` tells apart.

| property (module) | theorem | rests on |
|---|---|---|
| `TypeOK`, `ResourceExclusive` (`JobRunner`) | `TypeCorrect`, `Exclusion` | `IInv`: where each task is |
| `ConcurrencyBounded` | `Bounded` | permits out are finitely many |
| `NeverStoppedMidway`, `OutcomeReported` | `WorkIsDone`, `ReportedOnce` | `IInv`; inductive with it, the second with `HandleInv` too |
| `ImplementsService` | `Refinement` | `IInv`, `FifoInv` |
| `VolumeIntact`, `ErasesOnlyWhatWasShown` (`Storage`) | `VolumesStayIntact`, `ErasedAsShown` | `IInv` |
| `RegisteredIsMounted`, `DoneIsNotForgotten` | `RowsAreOfMountedVolumes`, `FinishedIsRegistered` | `IInv`, `EventInv` |
| `ProtectedIffHostsUse`, `ResolvedIsUnused` (`StorageGuard`) | `GuardIsExact`, `ResolvedIsFree` | `GuardInv` |
| `ConfIsCurrent` (`Shares`) | `ConfFollowsTables` | `WireInv`, `ConfInv` |
| `ShareHasDirectory` | `NoShareWithoutDirectory` | `DirInv` |
| `AclIsTableSerially`, `NewShareIsClosed` | `AclFollowsTable`, `NewShareStartsClosed` | `AclInv` |
| `QuietIsSettled`, `ReplacedIsKept` (`ManagedFile`) | `SettledBetweenCalls`, `ReplacedStays` | `SerialFileInv`, with `MaxCalls = 1` |
| at most MAX_BACKUPS backups | `BackupsAreBounded` | `FileInv`, any overlap |
| `DestIsWhole`, `OffsetIsExact` (`Uploads`) | `FinalNamesAreWhole`, `ResumeIsExact` | `IInv` |
| `RowHandlePart` | `RowsHandlesAndFilesAgree` | `PlaceInv` |
| `WaitingIsWatched` (`Rpc`) | `NoCallIsForgotten` | `WatchInv` |
| `EventsInOrder` | `EventsArriveInOrder` | `EventInv` |
| `ImplementsService` | `Refinement` | `WatchInv`, `RequestInv`, `OnceInv` |
| `ServedAsItself`, `EndedStaysEnded`, `EndsByItsOwn` (`Sessions`) | `EveryoneIsItself`, `NoSessionReturns`, `SessionsEndByTheirOwn` | `IInv` |
| `OneSocket`, `SubscriptionsAgree`, `NeverGoesBack` (`Events`) | `OneAtATime`, `ServerForwardsTheWanted`, `ShownNeverGoesBack` | `IInv` |
| `OneWorker`, `DeadIsNoticed`, `ReadIsAnswered` (`FileStation`) | `OneAtATime`, `DeadAreNoticed`, `ReadMeansAnswered` | `IInv` |
| `NothingIsLost`, `WrittenIsWhole` | `NothingGetsLost`, `WhatIsWrittenIsWhole` | `FilesInv` |
| `RowIsTruthful`, `NothingIsStray` (`Accounts`) | `RowsTellTheTruth`, `NothingStaysUnaccounted` | `AccountsInv` |
| the type invariants | `TypeCorrect` in the module of its component, `AccountsTypeCorrect` | the same |

The arguments, and why the properties need more than themselves:

* **JobRunner.**  A task is in one place at a time: in the semaphore's queue; in
  the queue of the lock of its own resource, with a permit; or in its body, with
  a permit and that lock (`SemQueueInv`, `LockQueueInv`, `RunningInv`).
  `ResourceExclusive` alone is not inductive: nothing in it says that a running
  body is the lock's holder.  That jobs of a resource start in the order they were
  submitted needs `FifoInv`: both kinds of queue are in that order, and whoever
  has a permit was submitted before everyone who waits for one.  The refinement is
  then one step of `JobService`, or none, for each action.  `HandleInv`, that a job
  which has not ended has its handle, is what lets a handle stand for a line that
  is missing.
* **Storage.**  What the running job may rely on depends only on how many of its
  steps are left (`TodoInv`).  The guard looked when it began; from then on its
  disks are those that were shown and in nobody's use (`DiskInv`), because jobs run
  one at a time (`QueueInv`) and another user of a disk makes the step fail.  From
  vgcreate on the volume is the job's own, and it is mounted by its last step
  (`MakingInv`).  So a later job finds the disks of a mounted volume protected.
  `EventInv` adds that an event of success is about a volume that is mounted.  An
  event leaves the feed only into the table or, met by an upset, into `missed`
  (`FeedEffect`), and rows stay; so `DoneIsNotForgotten` is inductive with them.
* **StorageGuard.**  The code's walk is a recursion over the children of a device;
  the reference definition asks what is in use below it, which is a recursion
  over parents.  A fact about every node of either is shown by contradiction: of
  the nodes where it fails, take the one with the least (or largest) number, whose
  parent (or children) it holds for.  That needs only that a nonempty set of
  numbers has a least member, not an induction theorem.  `WalkInv` says that the
  marks are the walk's and that serials were resolved with them.
* **Shares.**  Commits of the tables and renderings of `nasos.conf` happen in one
  step of the event loop, and the connection and the agent keep the order of the
  calls (`WireInv`); so the last rendering under way, or the file if there is
  none, is always that of the tables (`ConfInv`), however requests overlap.  That a
  row has a directory needs the same order and that no third request is under way:
  then a directory that is gone belongs to a deletion whose own commit comes
  before anything else can happen to its row, or that gave up and left the share
  in `stripped` (`DirInv`); a creation that meets such a share is refused, as its
  row still has the name.  That the ACL is the table's needs requests and jobs that
  come one after the other (`AclInv`): then a request changes table and ACL with
  the numbers it looked up when it came, and those are `asOf` when its row is
  written, whoever has been deleted or created since.
* **ManagedFile.**  That the pruning leaves MAX_BACKUPS needs that no backup is
  stamped later than now, since it keeps the latest.  The two properties are about
  calls that do not overlap, as in the run, and the theorems have `MaxCalls = 1`
  as a hypothesis: the code takes no lock, and TLC refutes both for two calls at
  once (section 5).  `SettledInv` says where the file and the service are at each
  point of the one call; an exception nobody catches leaves either content and
  takes the claims about the service back until a call returns, which has
  validated and applied its own content.
* **Uploads.**  An accepted PATCH starts at the file's size and advances by what
  it wrote, so it is never ahead of the file however many others write too
  (`PatchInv`): its writes hit existing blocks or the next one (`NoHole`).  One
  that is renamed has reached the declared length and so has every block.  For
  `RowHandlePart`, `PlaceInv` says at which steps of POST, PATCH and DELETE the row,
  the handle and the file are apart, and that one of these requests is at such a
  step whenever they are, or has broken off at it, and which kind of request it
  was (`torn`).  A removal that failed excuses a file without a handle for good,
  but never a handle without a file.
* **Rpc.**  There is one read loop at a time, that of the writer (`LoopInv`), so
  the loop that fails the calls of the table is that of the connection they were
  written to, and events under way are on one queue, in order and above all that
  were seen (`EventInv`).  At most once: a request is in one place of one queue,
  and only before its task has started (`RequestInv`); an "ok" anywhere stands for
  work that was done (`OnceInv`).
* **Sessions.**  A request may hold the id of a row that is no longer its own, as
  SQLite reuses ids.  But a token is issued once, so the only row it can ever have
  is the one the request has read (`HasRead`).
* **Events.**  The messages under way to the server, applied to the subscriptions
  it has, give the topics that have listeners (`AgreeInv`, where the last message
  about a topic decides); this holds for every open `this.socket`, also with two
  sockets.  Frames under way, followed by what the queue holds, are in order
  (`OrderInv`) and, on the one socket, no older than what is shown (`ShownInv`).
  While the hub runs it has a socket or one timer that will make one (`HubInv`).
* **FileStation.**  A process that is not the supervisor's entry was collected or
  never started (`EntryInv`), so ensure starts one only when there is none; and
  an open connection has a process whose loop serves it (`CallInv`).  As to the
  files: while nothing was contested, the paths jobs work towards are free until
  they are opened and are each one job's own (`ApartInv`); an open copy has the
  content of its source in an inode of its own, and a move may remove its source
  because the copy is whole and the path still leads to what was copied
  (`CopyInv`).  So a content nobody deleted is always whole at a path that no move
  is about to remove (`KeptInv`), which is more than `NothingIsLost` says and what
  makes it inductive.
* **Accounts.**  The argument goes name by name.  A request that is alone is the
  only one on its name (`AloneInv`); one that is not, or whose answer is lost, has
  left its name in doubt (`DoubtInv`), and of what is in doubt nothing is claimed.
  `NamesInv` says, for a name that no request is at work on, that its row is true,
  and for one with a request that is alone, what is true after each of its
  commands, so that the row is true again when it is written.  A step for one name
  leaves the others' accounts, entries and rows as they are, except where it writes
  a row that changed hands, and that puts the row's name in doubt.  A command that
  misreports is one that works, followed by what its request does after a failure,
  and the lemmas about either are used one after the other (`CommandMisreports`,
  `FailedRequest`); where its effect is one the row shows, `HiddenBy` has put that
  in doubt.  That
  no account is unaccounted for is a count (`CountInv`): for a name that is not an
  orphan, its row and the creates that are past `useradd` are at least as many as
  its account and the deletions that are past `userdel`; so when no request is at
  work, an account has a row.

Only model-checked is liveness (`EveryJobEnds`, `EveryCallEnds`,
`NewestIsShown`), which is out of the prover's reach.  Every safety property of
the passing runs is a theorem.

## 5. Observations

Where the code and one of its own statements disagree, and a run shows it, the
disagreement is a finding in `PROJECT.json` (`shares_acl`).  Others were met while
modelling; each is a short behaviour of the module named, and the properties name
it as an exception where it touches them.

* `JobRunner`: a job holds its permit while it waits for a lock
  (`jobs.py:121`), so as many jobs on one resource as there are permits keep every
  other job waiting, although fewer than MAX_CONCURRENCY bodies run.  A
  cancellation that arrives after the last unit reports "cancelled" for a job that
  did all its work.  Nothing but the unit tests calls `request_cancel` yet.
* `JobRunner`: in a fileworker `_append_result` raises every time: the path is
  `/var/lib/nasos/fileworker/<uid>` (`fileworker.py:246`), the process has dropped
  its privileges, and `/var/lib/nasos` is 0750 and the daemon's
  (`packaging/tmpfiles.d/nasos.conf:4`).  So a file job leaves no line in
  `jobs.jsonl`, its handle is never popped, and its task ends with an exception
  nobody reads; what the user sees is the record and the event, which are right.
  `OutcomeReported` allows a job without a line only together with such a handle.
* `Storage`: the event of a job's end is sent once.  If the web or the connection
  is down at that moment (also after a line that was too long, with both processes
  alive, until the next call connects again), or if the INSERT fails, which
  `completion.py:77` logs and forgets, the volume has no row, its disks are
  protected, and nothing asks again (`missed`), although `agent/handlers/jobs.py:1` speaks of reconciling.
* `Storage`: the drop-ins a job writes list the managed mountpoints read when the
  plan was *executed* (`plan.py:213`).  With two plans under way the second job
  leaves the first volume out, although `mount_units.py:73` says the drop-in
  "always lists the full current set".
* `ManagedFile`: the docstring says "on any failure" the previous content is
  restored; the code does it for `ConfigValidationError` and `ConfigApplyError`.
  `Samba.reload_or_start` asks for the unit's state outside its try
  (`samba.py:86`), and the runner raises FileNotFoundError when testparm or
  restorecon is missing: the call fails and the new content stays, validated or not,
  until a later call returns (`astray`).
* `ManagedFile`: with two overlapping calls the hash that is returned need not be
  "of the content left on disk" (`managedfile.py:85`), and a call may restore the
  other's unvalidated content.  With `MaxCalls = 2` TLC shows both.  `Shares`
  shows what remains true: after the last call that succeeded, `nasos.conf` is
  current.
* `Shares`: when a user is deleted and created again, `share_permissions` and
  `nasos.conf`, which go by name, give the new user what the old one had, and the
  ACL, which goes by number, does not; and whoever is given the old number gets
  what the ACL still grants to it.  Setting the permissions of the share again
  mends both (`setfacl -b`).
* `Shares`: when the answer to `shares.delete` is lost, or the commit after it
  fails, the share has a row and no directory (`stripped`); a second deletion
  mends that, and a creation under the name is refused.
* `Shares`: with three requests under way the late rmtree of a second delete can
  remove the directory of a share created in between.
* `Uploads`: when the worker exits, rows and `.part` files stay and can no longer
  be resumed, because the handle was in its memory.  A PATCH that breaks off after
  its last block leaves a full-length `.part` file that nothing finalizes
  (`api/uploads.py:156` expects it on the same PATCH), and an upload of length 0 is
  in that state from the start.
* `Uploads`: `upload_abort` drops the handle and then removes the file, and expects
  no failure but that the file is missing (`handlers/uploads.py:97`).  When the
  removal fails the DELETE does too, and the next one finds no handle, answers OK
  and has the row deleted: the `.part` file stays and nothing knows it.  The same
  file without a row is left by a POST whose answer is lost or whose commit fails,
  and a row without a file by such a DELETE or last PATCH.
* `Uploads`: only `upload_begin` looks whether the destination exists;
  `upload_complete` renames over whatever has come there since, so the second of
  two uploads of one name replaces the first.
* `Sessions`: two requests find one session expired, the first evicts it, its user
  logs in again and is given the same id, and the second evicts the new session
  (`EndsByItsOwn` has this as its last disjunct).
* `Events`: `start()` before the close event of the socket that `stop()` closed
  makes a second socket, because that event clears the hub's pointer and schedules
  a reconnect (`ws.ts:91`); until the next drop every event is delivered twice.  A
  socket is authenticated once and outlives its session (`web/ws.py:34`).
* `Accounts`: overlapping password changes can leave passwd and passdb with
  different passwords and a row that says they agree.  A deletion that fails after
  `pdbedit -x` leaves a row that says SMB is enabled; no route makes a passdb entry
  again, and an imported user can never get one.  A deletion whose answer is lost
  leaves a row that cannot be deleted, because `userdel` then finds no account,
  and that keeps its name and uid from being used; the same row is left by a
  `userdel -r` that exits with 12, which is after it removed the account
  (`system/users.py:80`).  Two more cases came out of
  the proof and need five or six requests, more than the run has.  Rows are written
  by the id read at the start, so a late answer to a password change, an SMB switch
  or a deletion may change, or delete, the row of another user who was given the
  number in between.  A create over a disabled passdb entry that an earlier
  account of the name left behind writes a row that says SMB is enabled, while
  `smbpasswd -a` leaves the entry disabled.
* `FileWorker`: `reap` collects every child with `waitpid(-1)`, also commands that
  asyncio waits for, whose exit status is then unknown; `Accounts` has that as
  `Misreports`.  The idle timer looks at
  lines and not at jobs or downloads: a download of more than 15 minutes makes the
  worker close its server, and until it ends every other request of the user is
  refused, since the process still counts as alive.
* `Files`: two jobs aimed at one free path both find it free, and the later one
  replaces the earlier one's content (`contested`); a copy of a file that is being
  written is reported done with part of it (`torn`); a copy that a kill or a full
  disk cut off leaves a partial file, and its retry answers "already exists".  A
  move between file systems ends with an unlink by path: when the source was
  renamed and another file was given its path in between, it is that file that is
  removed (also `contested`).
* Events of file jobs never reach the browser in production: the transport made
  per request (`web/main.py:112`) has no `on_event`.
* `api/files.py:294`: a suffix range (`bytes=-n`) is read as a range from 0.

## 6. Not modelled

* The SMART poller: one task that compares a reading with a row every half hour.
* firewalld (idempotent calls behind one lock), PAM (a choice of role), the argument
  lists of commands and the parsing of their output (the repository's fixture
  tests cover them), migrations, the audit log (append-only, never read back).
* `files.mkdir` and `files.set_acl`: directories are fixed in `Files`, items are
  files, and the check and the rename of `files.rename` are one step (both are
  done between two awaits; only a thread could come between).  Reads
  (list, search, properties, get_acl) change nothing and are one action.
* The resource sampler is a publisher in `Events`, no more.
* The frontend apart from `WsHub`: reducers and views of one tab, which nothing
  interleaves with.
* Of the transport: socket activation (with it a call that connects while there is
  no agent waits until systemd has started one; in `Rpc` it fails at once), events
  over the line limit (`ReadLoopEnds` is about answers; `Storage` loses events with
  either), and a result that cannot be serialized, which `dispatcher.py:94` would
  raise outside its try.  In `Events`
  the receipt of a message and the forwarder's subscribe are one step.
* In `Shares` the calls left in a broken connection are taken before those of the
  next one: the agent's loop reads what is there no later than in the turn in which
  it accepts the next connection, whose first line needs further turns.
* Dev mode (`DirectTransport`, `DirectFileDataClient`, the fakes under `system/`):
  one process with nothing to lose.

## 7. Plan

Done: every component whose state several actors change, with two refinements,
three liveness properties, and proofs of every safety property the passing runs
check.

What is left would widen the models: `files.mkdir` and `files.set_acl` in
`Files` with directories that move, the SMART poller with its notifications, and
one module that composes `Storage` and `Shares` over a volume that goes away while
it has shares.
