# Verification of the file engine

TLA+ models of the file engine (`src/file-engine`), the TLC runs that check
them on small instances, and TLAPS proofs of the properties that matter most
for every instance. Definitions are translated from the Go code and keep its
names; `PROJECT.json` maps each of them to its lines.

## The system

| Part | Code | Model |
|---|---|---|
| gRPC handlers | `internal/handlers`, `internal/services` | `CreateFolder` in TaskQueue; the reading loop of `DownloadObject` in PosixFiles; `UploadObject` and `ListObjects` forward to `AtomicWrite` and `List` |
| Task queue in Redis | `internal/adapters/queue/redisq` | TaskQueue |
| Worker process | `internal/app/tasks`, `cmd/worker` | TaskQueue; with the system calls of its moves in Engine |
| Legacy worker | `internal/worker` | LegacyWorker |
| Storage interface | `internal/storage` | AtomicStore (its promise); the choice of an object store is ObjectStore's initial state |
| Local backend, and the older adapter that makes the same system calls | `internal/adapters/storage/local`, `internal/adapters/fs/local` | PosixFiles, LocalStorage |
| S3 and GCS backends | `internal/adapters/storage/s3`, `.../gcs` | ObjectStore, ObjectList |
| `filesystem` package | `internal/filesystem/fs.go` | PosixFiles, LocalFs |
| Tokens, access decision, path extraction, interceptors | `internal/auth`, `internal/authz`, `internal/server` | AccessControl |
| HTTP download | `internal/server` | its check in AccessControl, its reading in PosixFiles |
| HTTP server with an in-memory task map | `cmd/main.go` | HttpTasks |

A request to create a folder becomes a task on the Redis list `tasks`. Worker
processes pop the list, run the task against a storage backend and write its
status to the key `task:<id>`. Uploads and downloads go to the backend
directly. Every call of the API passes the access check first. The backends
promise whole objects and atomic replacement; how far each of them keeps that
promise when calls interleave, fail or stop is what the storage modules are
about. `cmd/main.go` is a server of its own that keeps its tasks in a map.

At this commit the Go module does not compile as it stands (a duplicate
import, an import cycle, missing fields of a stub, a type assertion on a
variable that is no interface at `filesystem/fs.go:123`). The models take each
function as it is written, and that assertion as the `Sync` it intends.

## Modules

**TaskQueue** has the RPCs, Redis (the list, the status keys), the workers and
the storage they act on. A worker is at one of the labels `loop`, `pop`,
`sleep`, `process`, `complete`, `exited`, and each step of `Worker.Start` is an
action: `CheckContext` (the `select`), `Pop`/`PopFails` (`BLPOP` and its
errors), `Wake`, `Process` (the three cases of `Processor.Process`),
`Complete`. `Interrupt`, `MainReturns`, `Kill` and `Start` are `cmd/worker`:
`main` cancels the context on an interrupt, waits half a second and returns
wherever the loop is; `Complete` uses the cancelled context and so fails.
`EnqueueRetried` is the Redis client repeating a command that was executed,
`EnqueueFails` an error with or without the effect. `n` in a list element
numbers the pushes and `outcomes` records executions: both are history, nothing
reads them but the properties. A storage call is one step here.

**Engine** composes TaskQueue and LocalStorage: the queue and the loop are
those of TaskQueue (`INSTANCE`, with the paths that have a file as its
`objects`), and the call of `Storage.Move` is made system call by system call
(`CallMove`, `SystemCall`, `MoveReturns`). The move of the n-th list element is
the call `Op(n)`. A worker that stops (`Stop`) stops between any two of them.

**LegacyWorker** puts the worker of `internal/worker` beside it; `program` says
which of the two serves the list. It has other task types, drops an element it
cannot decode (`PopGarbage`) and never looks at its context; no `main` starts
it, so it is only killed and started again.

**AtomicStore** is the interface's comment as a specification: an operation
begins, has one whole effect, and returns; if it fails it may have had its
effect or not. With `AtomicMove` a move is one effect, otherwise a copy and then
a removal.

**ObjectStore** is S3Storage and GCSStorage request by request. `AtomicWrite`
is `PutTmp`, `CopyTmp`, `DeleteTmp`; `Move` is `Copy`, `DeleteSrc`; `Delete` is
one request. A request can fail with or without having been executed
(`RequestFails`), and a call can stop between two requests (`Crash`). The two
backends differ where their services do: S3 refuses to copy an object onto
itself and does not report the deletion of a missing one; a GCS writer that is
closed after a read error stores the part it was given.

**ObjectList** adds `CreateFolder`, a placeholder object, and `List`, which reads
the keys in order a page at a time (`NextPage`, cut where the service likes)
while the calls of ObjectStore go on. S3 rolls up what is below another folder,
GCS does not. `always` and `ever` of a scan are history.

**PosixFiles** is what the two local backends share. Directory entries point to
files; files are sequences of chunks, written and read through descriptors. It
has the system calls of a write (`CreateTemp`, `WriteChunk`, `RenameTemp`), those
of a move (`Rename`, `Open`, `CopyChunk`, `RemoveSrc`), the readers, which open a
path once and read to the end, and `Crash`. `Device` gives the mount of a path.

**LocalStorage** is the local backend. When a rename fails `Create` truncates the
destination and the copy goes there; a call that fails returns and leaves what
it has done (`Fails`).

**LocalFs** is the `filesystem` package. When a rename fails the copy goes
through a temporary file that `RenameCopy` publishes; a call that fails runs its
deferred function (`Cleanup`), and a crash does not. Files are synced before they
get their path. The code drops the errors of `Sync` and of the deferred
`os.Remove`, and so does the model: `Sync` may leave the file unsynced and goes
on to the rename, `Cleanup` may leave the temporary file. `PowerFails` cuts every
file that is not synced to some first part. No directory is ever synced, so it
also leaves each name as it was at some moment since the power last failed,
independently of the other names (`past` has what each name has named since
then). `outage`, `suspect` (files whose `Sync` failed, and copies of them) and
`left` (calls whose `Cleanup` removed nothing) are history.

**AccessControl** is a call of the API up to its handler: the verifier that
start-up could construct, `ParseAuthContext`, the two token interceptors and the
HTTP middleware, the permission of the method, `ExtractPath`, and `CanAccess`
with the batch query (`GetACLsForPaths`), its error (`BatchFails`) and the lookups
path by path (`GetACLs`). `Replies` lets a query return fewer entries than there
are, since rows that cannot be read are skipped and `rows.Err` is not looked at;
`SetACL` adds entries at any time. A stream is checked twice, by the interceptor
and by its handler. Paths are sequences of names, slashes and blanks, with `.` and
`..` among the names, so that `normalize`, `filepath.Clean`, `filepath.Dir` and
the loop of `parentPaths`, one round a step, do what the code does. From a
relative path the loop comes to `.` and stays there; its list, which grows for
ever in the code, then stays as it is. Whether the signature and
the times of a token are valid is an input. `before` and `failed` are history for
`DeniedIsDue`.

**HttpTasks** is `cmd/main.go`: the handlers step by step, with the lock of the
task map as the code takes it (`Lock`, `Insert`, `Unlock`; `RLock`, `Lookup`,
`RUnlock`), `main` with its signal, deadline and listeners, and restarts, which
lose the map. `told` is history: the ids in answers.

**MCTaskQueue, MCEngine, MCObjectList, MCLocalStorage, MCLocalFs, MCAccessControl** give
constants their values. **TaskQueueProofs, HttpTasksProofs, ObjectStoreProofs, PosixFilesProofs, LocalFsProofs, LocalStorageProofs,
EngineProofs, AccessControlProofs** hold the theorems; PosixFilesProofs has the
lemmas on contents, names and readers that the two after it use,
ObjectStoreProofs is also about ObjectList, and EngineProofs, about Engine and
LegacyWorker, continues LocalStorageProofs.

## Runs

| Run | Expectation | What it shows |
|---|---|---|
| TaskQueueFaults | pass | `TypeOK`, `AtMostOnce`, `InOrder`, `StatusJustified`, `SuccessIsReal`, `StatusStable` with all faults |
| TaskQueueLive | pass | `Drains` with stops and restarts; `Served` while no worker is stopped |
| TaskQueueStop | violation of `AlwaysServed` | an orderly stop loses the status of an executed task |
| EngineMoves | pass | `NothingLost`, `SuccessIsWhole`, `MovesServed` for one worker, current or legacy, stopped between any two system calls of a move between devices |
| EngineTwo | violation of `NothingLost` | two workers moving one file between devices |
| ObjectStoreCalls | pass | `TypeOK`, `NothingLost`, `ListIsTrue`, `MovedIsListed`, and AtomicStore (moves as copy and removal) implemented by both backends |
| LocalStorageCalls | pass | `TypeOK`, `ReadsWhole`, and AtomicStore (moves in one step) implemented on one device |
| LocalStorageDevices | pass | `OnlyCopiesShow`, `MovesConverge` for concurrent moves between devices |
| LocalFsCalls | pass | `TypeOK`, `DownloadsWhole`, `PathsWhole`, `KeptWhilePowered`, `NoLitter` between devices, with two calls at once, every error and power failures |
| AccessControlCalls | pass | `TypeOK`, `PathsCover`, `AllowedIsGranted`, `DeniedIsDue`, `Answered` while entries are added and queries fail |
| AccessControlClosest | violation of `ClosestWins` | an entry further up grants what the closest one leaves out |
| HttpTasks | pass | `TypeOK`, `MapGuarded`, `PollFindsTask`, `Answered`, `Stops` with a signal, failing listeners and a restart |

The violations are disagreements between the code and what the repository says
of it; `PROJECT.json` quotes the lines under `findings`.

*What the passing runs need.*

* `TaskQueueFaults` and `HttpTasks` have a clock that advances between two
  readings. Equal readings give two tasks one id.
* A push that the Redis client repeats executes a task twice under one id, and
  the second result replaces the first. `TaskQueueFaults` has such repeats, and
  `StatusStable` says that a status changes in no other way.
* `TaskQueueLive` has no Redis errors, so that the pause after a failed `Pop` is
  taken in `TaskQueueFaults` only. `Drains` relies on a stopped worker being
  started again; neither compose file of the repository configures that.
* `EngineMoves` has one worker (`EngineTwo` has two) and a destination that is
  no source and has one source: an aborted copy leaves a part of the content
  under the destination's name, which a later move from there would take for the
  file, and a move from another source replaces what a success has put there.
* `LocalStorageCalls` takes one device, renames that fail only for a missing
  source, and moves out of a path where no call puts a file. Each condition is
  needed: a source that appears between the failed rename and the open, like any
  other reason to copy, makes the move truncate the destination in place, and a
  download then gets a part of the content.
* `LocalStorageDevices` has a source that is not written and no faults:
  `MovesConverge` is about calls that all return.
* `ObjectStoreCalls` needs moves without a cycle. Of two opposite moves each
  deletes the copy of the other, both return nil and the object is gone; a move
  of a path to itself is a cycle too, which S3 refuses and GCS executes as a
  deletion. `MovedIsListed` needs moves to later keys: a listing that has passed
  the destination and then finds the source gone shows neither.
* `LocalFsCalls` needs moves without a cycle for `KeptWhilePowered`, and neither
  one device nor one worker. `KeptWhilePowered` speaks of behaviours with moves
  only: a write to a source that a move has already opened is removed with the
  source. It speaks of the time before a power failure: that may keep the
  removal of a source and lose the name of its copy. `PathsWhole` and
  `DownloadsWhole` except files whose `Sync` failed before the power did, and
  `NoLitter` the temporary files whose removal failed or that a power failure
  brought back: the code drops these errors.
* In `AccessControlCalls` the raw HTTP download of a relative path is never
  answered: `handleDownload` passes its path on as it is, whereas the RPCs make
  theirs absolute, and `parentPaths` ends at `/` only. `Answered` excepts these
  calls. `PathsCover`, `AllowedIsGranted` and `DeniedIsDue` are about the path as
  it is spelled: its entries are those of the path itself, of its directory
  (`filepath.Dir`, which cleans) and of the folders above that. `PathsCover` says
  also that for a plain path (no dot segment and, in the raw download, no
  repeated slash) these are the entries whose names are its first names; for
  other spellings, `/a/./b` say, the entry of `/a/b` is not among them. `Granted`
  is the decision of the code, any entry or role; that the documents let the
  closest entry decide is what `AccessControlClosest` is about.

*Bounds.* Two requests and two workers are enough for every race between
pushes, pops and records of two tasks; one fault-induced stop in the safety run
and two in the liveness run let both workers be stopped or one be stopped
twice. TaskQueueLive has one RPC and two posted elements (a move and a
malformed one), so three elements share two workers. The folder name "" makes
the task that `Process` rejects. EngineMoves has two tasks for one move, a
folder and an element that is rejected or cannot be decoded, and one stop, so
that a move that was cut short is repeated after a restart. In the runs of the
local backend three calls, each any write, move or delete, cover two concurrent
calls and a third that repeats or reads their result; in ObjectStoreCalls two
calls run beside folders and a listing. LocalFsCalls has two calls and the moves
a to b and b to c, since every name can come back from a power failure in every
state it had; the theorems are about any number. Two chunks are enough to tell a whole
content from a part or a mixture. Calls of AccessControl share nothing but the
entries, which they only read, so one call and everything that adds entries
around it are enough. HttpTasks has three requests, enough for an insertion, a
poll and a handler waiting behind them, and two starts of the process. The
bounds in guards are `MaxStops` and `MaxStarts`; each request, posted element
and call happens once, which bounds everything else.

*Symmetry* is used in TaskQueueFaults (workers, requests) and LocalFsCalls
(calls), where only invariants are checked and nothing tells the members apart.

*Deadlock* is not checked: when the bounded requests are served the workers
wait in `BLPOP`, the storage calls have returned and the servers wait for
requests that no longer come.

*Fairness* is weak fairness of each worker's loop in TaskQueue and LegacyWorker,
since a goroutine keeps being scheduled and `BLPOP` returns when the list has an
element, and of its restart, since a stopped worker is started again by whatever
runs the container. In AccessControl it is weak fairness of each call's steps:
queries return, with an error or without. In HttpTasks it is weak fairness of
the handlers, as `sync.RWMutex` leaves no waiter behind for ever, and of
`Shutdown`, which a timer ends. None is assumed of clients, callers or faults.

## Proofs

TLAPS proves the following for every value of the constants: any number of
workers, requests, calls, downloads, paths, devices and contents.

TaskQueueProofs:

* `TypeCorrect`: `TypeOK`.
* `ExecutedOnce`, `TakenInOrder`: `AtMostOnce` and `InOrder`, from one invariant,
  `OnceInv`, since neither is inductive alone: that an element just popped was not executed before follows because
  everything executed or held has a smaller number than everything that waits,
  and that stays so because the list is ascending and only its head is taken.
* `StatusIsJustified`. The strengthening says that a worker about to record a
  result holds one that is in `outcomes`, and that a successful folder task has
  left its folder in storage.
* `SuccessCanBeTrusted`: `SuccessIsReal`, if the clock advances
  (`0 \notin ClockSteps`). The ids of all RPCs are then distinct.
* `StatusesAreStable`: `StatusStable`, without any hypothesis. From `OnceInv` and
  the invariant of `StatusIsJustified`, and that an element has one outcome
  (`OneResult`).

HttpTasksProofs:

* `TypeCorrect`, `MapIsGuarded`. The lock records exactly the handlers between
  taking and releasing it; guardedness follows from that.
* `PollsFindTasks`: `PollFindsTask`, if the clock advances. An id in a handler's
  hands is in no other's and not in the map until it is inserted, and what an
  answer told is in the map.

ObjectStoreProofs:

* `TypeCorrect`: only whole contents are under the key of a path. The
  strengthening says that what a call uploaded stays unchanged under its
  temporary name until the call copies it.
* `MovesLoseNothing`: `NothingLost` for one object and any number of moves that
  go up some order. The invariant names a path that holds the object and ranks
  above the source of every move that has still to delete one. A copy from a
  source that ranks below it leaves it in place; a copy from one that does not
  makes the destination such a path.
* `PromiseKept`: `AtomicCalls`, the refinement of AtomicStore. The publishing
  request is the commit of a write, the copy and the deletion are the two steps
  of a move, and a request that fails is a failure with or without the effect.
* `CallsAreUndisturbed`: `ListSpec => Spec`, so that the theorems above hold
  beside folders and listings.
* `ListingsAreTrue`: `ListIsTrue`, for any number of listings, page cuts and
  folders. The invariant splits the order of keys at the continuation token: what
  a listing has shown lies before it and was there at some time, and what was
  there all the time and is not yet shown lies beyond it.
* `MovedObjectsAreListed`: `MovedIsListed` for one object and moves to later
  places. For each listing the object is in what was read, or at a place beyond
  the token that no move under way is going to delete. That needs the invariant
  of `MovesLoseNothing` with the order of keys as the order, and that rolling up
  folders does not reverse the order of keys (`OrderAssumption`).

LocalFsProofs, where power failures, crashes and all error paths are included:

* `TypeCorrect`, `PathsAreWhole`, `DownloadsAreWhole`, `NoLitterLeft`: `TypeOK`,
  `PathsWhole`, `DownloadsWhole`, `NoLitter` from one invariant, `DiskInv`. A file
  is settled when it is synced or its sync has failed, its call writes to it no
  more, and it has a content, whole unless it may be torn; paths name settled
  files only, nothing but a power failure changes one, and a download has some
  first part of a settled file. A temporary name belongs to its call. The part
  `PastInv` says the same of all that a name has named since the power last
  failed, which is what a power failure may bring back.
* `MovesLoseNothing`: `KeptWhilePowered` for one content and moves that
  go up some order, by the argument given for ObjectStore with files in place of
  objects.

LocalStorageProofs, for any devices, moves, faults and stops:

* `TypeCorrect`, `OnlyCopiesAreSeen`: `TypeOK` and `OnlyCopiesShow`, from the
  invariant `LsInv`. A file is settled when no write is going to write to it and
  it has a whole content, or a move has copied into it; paths name settled files
  only, and a download has some first part of its file unless a move has copied
  into that.

* `DownloadsAreWhole`, `PromiseKept`: on one device (`OneDevice`: one device, no
  failing rename but for a missing source, no call that brings a file to a source)
  `ReadsWhole`, and `AtomicCalls`, the refinement of AtomicStore with moves in one
  step. `NoCopies` says that a move never comes to its copy: when the rename
  failed the source is missing and stays so. The two renames and the removal are
  the commits; every other step changes nothing that a path names.
* `MovesAreWhole`: `MovesConverge` between devices, for any number of moves of one
  content (`MovesOf`: out of paths to which no call brings a file, to other
  devices) with any writes and deletions of the destinations. A move may empty a
  destination that another is filling, so that no file need ever be a first part
  of the content. The invariant `ConvInv` says that every chunk of a destination
  is there or is owed by some move that has still to write it. `MovesConverge` is
  about behaviours without faults, and so is the invariant.

EngineProofs, for one worker of either program, any elements on the list, any
devices and faults, and any number of stops between two system calls and
restarts. The hypotheses are `OneWorker` (one worker; no two elements with one
id; moves only, no destination a source, and each with one source) and
`EnoughCalls` (finitely many elements are sent, and there is a storage call for
each):

* `SuccessesAreWhole`: `SuccessIsWhole`. `AloneInv`, proved in
  LocalStorageProofs, is about moves of which one runs at a time: what the move
  under way has opened, copied and still to remove, and that a destination has
  the whole content once a move to it has returned without error. A later move to
  it finds no source to rename or to open, so it never comes to truncate it; this
  is where two workers fail. The rest of `EngineInv` is what makes moves run one
  at a time and ties the answer to the move: an element is on the list, held by
  the worker or done, and in one of these only; a call that has not ended is the
  one of the element that the worker holds, or its worker was stopped and it
  never goes on; and a success in the store is the outcome of a call that returned
  without error.
* `WorkersLoseNothing`: `NothingLost`, if also no destination has a file at the
  start. From the same invariant: a source is there until a destination has its
  whole content.

AccessControlProofs, for any number of calls, entries and paths of any length:

* `ServedIsGranted`: `AllowedIsGranted`. The invariant says what each stage has
  established: which token passed, which path is checked, and that what is still
  to be looked up is among the paths it inherits from.
* `DenialsAreDue`: `DeniedIsDue`. A lookup that found nothing at a path and did
  not fail shows that no entry of `before` grants there, and entries are only
  added.
* `ChecksCover`: `PathsCover`. While the loop of `parentPaths` runs, what the
  checked path inherits from is in the list or is what its last element inherits
  from (`WalkOn`); at the root that is the root alone (`WalkEnds`). For this the directory
  of an absolute path is clean, and a clean path that is not the root has its
  directory directly above it, whatever dot segments and slashes the first one
  had; from a relative path the loop never comes to the root. In a plain path
  slashes and names take turns, so that its folders end at the even positions.
* `TypesHold`: `TypeOK`. `normalize` gives an absolute path without repeated
  slashes, whatever it is given.

Nothing here needs induction over sequences: `OneSlash`, `Segments` and `Clean`
are written with the positions they keep, `Nth` being the element with so many
elements up to it, and the one argument that goes along a path (slashes and names
take turns) takes the least position at which it would be wrong. That `Clean` so
defined is the function of the library is a matter of reading: it is external.

The named assumptions on constants are `ClockAssumption`, `PostedAssumption`
(other programs do not use the ids of `EnqueueCreateFolder`), `FaultAssumption`,
`BackendAssumption`, `ObjectsAssumption`, `PathAssumption`, `ChunksAssumption`,
`FilesAssumption` (files are told apart by the call or the path they come from),
`SuffixAssumption` (the random end of a temporary name is no slash),
`RankAssumption` and `OrderAssumption` (keys have an order, and a folder's entry
is in it where its keys are),
`DeleteAssumption` (the `filesystem` package deletes nothing), `StartsAssumption`,
`NoneAssumption`.

*Model-checked only.* The liveness properties (`Served`, `Drains`, `MovesServed`,
`Answered`, `Stops`), which are out of this prover's reach.

## Left out

Redis keeps its data: a crash of Redis itself is not modelled. Power failures
are in LocalFs, the only code that syncs. The clients of S3 and GCS repeat
requests by themselves; ObjectStore has each request once, which fails with or
without its effect, and a repeated copy or deletion beside other calls is not
modelled. What a handler does with a path after the check is not part of
AccessControl: the RPC handlers pass the path of the request on as it is spelled,
not the one that `ExtractPath` made of it, and the backends resolve it. Directories and permissions of
files are left out, and so is `Exists`, which changes nothing. The local `List`
and leftover temporary files, which it shows, are listed as hazards. Random
suffixes of temporary names are taken to be distinct.

## Not modelled

* The path checks of the local adapters (`sanitizeAndJoin` and its like): they
  depend on symbolic links and on `filepath`, and keep no state.
* Legacy `fs` package: eight lines that nothing imports.
* SFTP client: its host-key callback rejects every key, so no client is ever
  constructed.
* PHP backend: forwards each request and keeps no state; the paths it calls are
  served by no program in `src`.
* Configuration, logger, migration, gateway, server stub, wiring at start-up:
  no state of their own beyond what is an initial state of a module.
* Generated types: no behaviour.
