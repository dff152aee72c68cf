# A TLA+ model of comic-server

comic-server is a Go program that takes the place of ComicRack's desktop server:
it answers the broadcasts of the ComicRack reader app, keeps a library of comic
books, scrapes, renames and files them, and mirrors the books that reading lists
select onto devices, taking the reading progress back. This directory holds TLA+
modules of the parts of it whose behaviour depends on order, concurrency and
failure, configurations that check them with TLC, and proofs checked with TLAPS.

Paths below are relative to the root of the repository; `PROJECT.json` names for
every definition the lines it models.

Contents: 1 the system, 2 the modules, 3 the runs, 4 the proofs, 5 what was seen
and is not a run, 6 what is not modelled, 7 what is left to do.

## 1. The system

### Components

| component | where | state | operations | what makes it correct |
|---|---|---|---|---|
| sync state manager | `internal/syncstate/manager.go`, `internal/configdb/sync_history.go` | active sync per device, bounded history, table behind it; one mutex | start, progress, complete, fail, abort, queries, load at start-up | at most one entry per device, each result recorded once, history survives a restart in order |
| sync server | `cmd/server.go` | main `select` loop, semaphore channel, signal and restart channels | handle a ping, "Sync now", direct ping, `handleSyncRequest`, stop | no leaked slot or entry, one sync per device, a stop is carried out |
| sync session | `internal/sync` | plan, counters, files written; on the device an archive and a sidecar per book | list the device, take progress over, plan, execute, write reading lists | the device ends up with the assigned books; progress is not lost; good copies stay |
| protocol client | `internal/protocol` | one connection per command, retry count | read, write, delete, list, abort check | a failed command may have had its effect |
| devices | `internal/device`, `internal/configdb/devices.go`, `internal/api/device*.go` | registry of what was seen, set of registered devices, their rows | listen, probe, register, edit, migrate, find the address | set and rows agree; books are sent to the right device |
| rate limiters | `internal/ratelimit` | times per IP, bucket per device, clean-up goroutine | allow, clean up | answers do not depend on when old data is forgotten |
| SQLite backend: books | `internal/storage` | rows with soft deletes, import hashes and snapshots, cached library, generation and warm mark | import, edit, create, delete, warm up | edits survive a re-import; the cache is never older than the rows |
| SQLite backend: lists | `internal/storage`, `internal/api/lists.go`, `folders.go`, `manual_lists.go` | tree of rows with hashes, members, cache of counts | import, create, move, edit, delete, evaluate | no list is lost; edits are told from imports; counts are true |
| smart lists | `internal/library/smartlist.go`, `internal/storage/matcher_sql.go` | none of their own | evaluate in Go or in SQL | both ways select the same books |
| reading lists (CBL) | `internal/cbl`, `internal/cblrepo`, `internal/storage/cbl_*.go` | entries, matches, the clone of a repository | import, re-import, correct, want | entries and members agree; changes of a file are noticed |
| XML backend | `internal/library` | library in memory, dirty set, flush timer | edit, move, flush, stop | nothing changed is left out of all later saves |
| ComicVine gate | `internal/comicvine/pacer.go`, `circuit.go` | request times, breaker state, both persistent | wait, record, allow, success, failure | limits are kept, the breaker opens and closes, a restart forgets nothing |
| volumes and scraping | `internal/comicvine` | cached volumes and issues; jobs and their results | sync, scrape, re-check, review | a list said to be complete is; what a person settled is not asked again |
| data manager | `internal/datamanager`, `internal/configdb/datamanager*.go` | tree of groups and rulesets | evaluate, act, import, edit | an import keeps what was made by hand; a choice of changes has their effect |
| workflow and audit | `internal/workflow`, `internal/audit`, handlers | stage of every book, log of changes | convert, scrape, scan, rules, organize, edit, undo, roll back | the log explains the books; a filed book is where its fields say |
| files and trash | `internal/trash`, `internal/cbzconvert`, `internal/libraryorganizer`, `internal/api` | files, quarantined files | convert, rewrite, move, replace, restore, sweep | no original is lost; rows describe their files |
| backup and restore | `internal/backup`, `internal/api/backups.go`, `cmd/restore.go` | backup directory, runs, settings | run on schedule, prune, verify, delete, restore | what is listed is whole; a restore can be undone |
| Komga | `internal/komga`, `internal/api/komga_targets.go` | rows of targets, the goroutine's copy, trigger | hand over, push | what is configured is what is pushed |
| websocket hub | `internal/websocket` | clients, two kinds of channels | broadcast, register, remove | a page misses no event while it is connected |
| others | authentication, configuration, migrations, command line tools, web pages | | | section 6 |

### How they interact

```
 UDP broadcast -> listener goroutine -> channel -> main loop --+
 REST "Sync now" ------------------------------> goroutine ----+-> handleSyncRequest
 --direct-ping --------------------------------> goroutine ----+     |  limiter, manager, semaphore
                                                                     v
                                   PerformSync <-> device (TCP)   library backend
                                                                     ^
 browser -> REST handlers -> audited backend (compare, write, log) --+
               |                 ^            ^
               |    jobs: scrape, re-check, volume sync -> pacer, breaker -> ComicVine
               +--> files -> trash
               +--> targets -> Komga goroutine -> Komga
 command line: imports of libraries and rules, restore: other processes on the same databases
```

A ping is handled by the main loop itself, so a sync that a device asks for
keeps the loop from its other channels until it ends; the syncs of the other two
callers run beside it. All of them meet in the manager (a mutex, entries by
device ID) and in the semaphore (a channel). REST handlers run concurrently, and
most of them read whole rows, work, and write whole rows back; only a few hold a
mutex meanwhile.

### What is hard about it

* **Interleaving.** `handleSyncRequest` takes the manager's lock several times,
  and its deferred clean-up looks and acts in two sections, by device ID. Two
  handlers on one book, list or device overlap between their reads and writes.
* **Failure of commands.** Every exchange with a device may fail with or without
  its effect, is repeated by the client and then redone by the session. A rename
  becomes a copy and a removal, each of which can fail.
* **Crashes.** A session has no journal: what a later session knows is what the
  device's files say. A backup, a restore and a conversion stop between two files.
* **Ordering.** Progress must be taken over before it is overwritten, deletes
  come last, a file that was just written must not be deleted; events, pages of
  an answer and hand-overs of targets come one after the other.
* **Stale data.** Sidecars use the plan's copy of the metadata, archives the disk;
  caches of books and of counts are built beside writers; a commit is compared
  with one that was read later than the file.
* **Other processes and services.** A command imports rules into the database the
  server is editing; ComicVine changes between two pages of a list.
* **Liveness.** Entries must be released, stops must be seen, a device must end
  up in sync.

`PROJECT.json` lists each hazard at its line with the properties that cover it.

## 2. Modules

| module | what it models | variables |
|---|---|---|
| `SyncState` | the manager and its table as state and atomic operations | `activeSyncs`, `history`, `stored` |
| `SyncServer` | `SyncState` composed with the main loop, the three callers, `handleSyncRequest` and the semaphore | `stage`, `holding`, `loop`, `queue`, ... |
| `SyncSession` | one session at a time with a device, command by command | device files, plan, `step` |
| `RateLimits`, `RateLimiters` | what the limiters promise, and how they are coded | |
| `LibraryStore` | the books of the SQLite backend: import with its merge, edits, the shared snapshot and its warm mark | `row`, `libCache`, `generation`, `warmed` |
| `Lists` | the lists of the SQLite backend, requests on them, the cache of counts | `row`, `live`, `editing`, `placing`, `count`, `view`, `importing` |
| `SmartLists` | matchers in Go, their translation to SQL, and which of the two is used | `books`, `base`, `cache` |
| `CBLLists` | reading lists from files and from a repository | `reading`, `shelf`, `made`, `head`, `work` |
| `XmlLibrary` | the library kept in one XML file | `library`, `file`, `dirty`, `holder` |
| `ComicVineLimits` | pacer and breaker | `pacer`, `circuit`, `stored`, `call` |
| `VolumeSync` | volumes and issues fetched page by page | `remote`, `volumes`, `cached`, `sync`, `scraping` |
| `Scraping` | scrape jobs, the re-check, and the review of both | `book`, `rows`, `tidying`, `job`, `pass`, `request` |
| `RuleTree` | groups, rulesets and their import by another process | `group`, `ruleset`, `rules`, `updating` |
| `DataManager` | what rules do to a book: operators, no state | |
| `Workflow` | a book's stages, and the audited writes of all that changes it | `record`, `saving`, `audit` |
| `Trash` | a disk and a quarantine directory: steps and what each may leave behind | `file`, `quarantine`, `now` |
| `BookFiles` | the requests that write, move and retire files, over `Trash` | `row`, `job`, `requests` |
| `Backups` | schedule, retention, verification and restore | `live`, `runs`, `dir`, `job`, `restore` |
| `Devices` | registry, registered set, rows, and the address of a manual sync | `at`, `seen`, `registered`, `row`, `work` |
| `Komga` | targets, their hand-over to the goroutine, and its passes | `target`, `live`, `trigger`, `handler`, `pass` |
| `Hub` | the websocket hub | `waiting`, `turn`, `clients`, `send`, `reader`, `writer` |
| `Filters` | loops that append some elements of a slice to a new one | |
| `Services`, `Exchanges` | the parts above that share no state, put together for one run each | `part` and those of the parts |
| `SyncServerProofs`, `SyncSessionProofs`, `LibraryStoreProofs`, `BookFilesProofs`, `DevicesProofs`, `ServicesProofs`, `ExchangesProofs`, `FiltersProofs` | theorems, section 4 | |
| `MC...` | small sets for TLC | |

The parts of `Services` and of `Exchanges` do not touch one another's state in the
code. `part` says which of them moves in a behaviour and never changes, so a run
checks the *sum* of the parts' state spaces; the product would say nothing more.
Parts that do interact are in one module or composed as the code composes them:
the manager with the server, rules with the workflow, the trash with the requests on
files. `ServicesAssumption` collects what the instantiated modules assume.

Ghosts (variables no action reads) are marked as such in each module. Where a
property excepts something, the exception is a ghost that is set by the very steps
that cause it, so that the property says "this, and nothing else, breaks it".

### SyncState and SyncServer

`activeSyncs`, `history` are the manager's fields; an entry is represented by the
name of the call whose `StartSync` made it, which the code does not know and uses
nowhere. `stored` is the `sync_history` table, `resolved` a ghost: every record
ever made. `Close` is the common body of `CompleteSync`, `FailSync`, `AbortSync`;
`AppendSyncHistory` may lose the insert or the prune, because the manager only
logs an error of it. `NewManagerWithStore` is the load at start-up.

In `SyncServer` a call of `handleSyncRequest` is a process. `stage` names the
next piece of its code that takes a lock, touches a channel or talks to the
device: `limit`, `start` (`StartSync`), `slot` (the `select` on the semaphore),
`config` (lookup and assignment of lists), `sync` (`PerformSync`), `report`,
then the two deferred functions in the order in which Go runs them: `unwind`
(release of the slot), `check` and `abort` (look, then abort). `resolve` is the
address resolution before the goroutine of "Sync now". `loop` names the call the
main loop is inside of, `queue` the channel of pings. `NewProcess` is a restart:
calls in progress are `lost`, and the manager is loaded from its table.
Only decisions that do not depend on modelled state are left open: whether the
registry knows a device, whether a limiter says yes, whether lists are ready.

### SyncSession

`file` and `side` are the two files of each name on each device, `info` the books
in its `sync_information.xml`; an archive may be `Partial`, a sidecar `Garbled`.
`lib` and `want` are the library and the selected books. The metadata of a book
are three numbers, one for each class that the code treats differently:
`pageCount` (a change sends the archive again), `title` (fields only the server
edits), `currentPage` (fields the device edits too). `step` is the next statement
of the session:

`BeginSession`, `GetDeviceBooks` (with the refusal when too many sidecars are
unreadable), `UpdateLibraryReadingState`, `ComputeSyncPlan`, then for each
operation `NextOperation` and the commands of `addBook`, `updateBook`,
`updateMetadataOnly`, `deleteBook`, at the end `FinishSession`. Each command
succeeds, or fails with any effect it may have had (`Fail`); a failed operation is
redone once or skipped (`RedoOperation`, `SkipOperation`). `Interrupt` is an abort,
an unreachable device or the death of the server. The plan keeps copies of the
books' metadata, as it does with the SQLite backend; the archive is read from
disk when it is sent. `furthest` and `missed` are ghosts: how far each reader
got, and which books' progress a session failed to read or save.

### RateLimits and RateLimiters

`RateLimits` keeps everything up to date with every tick of the clock and forgets
nothing. `RateLimiters` is the code: filters on look-up, refills on use, clean-up
in the background. Time is a counter; token counts, which are floating point in
the code, are counted in the unit of time a token's fraction takes to drip, so
that the arithmetic is exact.

### LibraryStore

`row` is the `books` table with the tables of tags and custom values; a row has its
columns (`live`), `xml_snapshot` (`snapshot`, of which `import_hash` is the hash) and
`deleted_at`. `libCache`, `generation`, `warmed` are the fields of `SQLiteBackend`. A
book is a function from fields to texts, and a field is known by how the code
treats it: `Hashed` fields are looked at by `computeBookHash`, `Joined` fields (tags,
custom values) are split into rows and joined again, so that a reader gets
`Canon` of what was written. `ImportBook` is the loop body of `importBooks` with the
retirement of absent books, `MergeUpdateBook` the merge, field by field as in
`diffBookColumns` (`Merged`). `b.mu` is held by a write for all of its duration, so
a write is one step; `ImportFrom` and `BumpGeneration` are the two halves of an
import because warm-ups read and mark under another lock, and a `WarmUp` is three
steps (`WarmUp`, `Build`, `MarkWarm`). An import that fails is rolled back, and a
rebuild that fails leaves no snapshot. `UpdateBooks` writes any books in any
subset: the code's callers write whole rows from copies they may have read long
before, and an error leaves some written. `mine` is a ghost, the text of every
field that was given here and differs from the file's; `imported` is the last file.

### Lists and SmartLists

In `Lists` a row has a parent, a body (the rules of a folder or smart list, the
members of a manual list), the hash the next import compares, and its deletion.
`Import` retires the lists a file no longer has and skips those whose hash is
unchanged. A manual list is edited by read and write under `manualListMu` (`editing`),
which imports, moves and deletions do not take; a new folder is created at the
root and then moved (`placing`). Counts are evaluated beside all of this (`view`) and
stored later; books go by an import or by a request that deletes one (`DeleteBook`), and
only the former invalidates counts. `doubtful` is the ghost of counts whose evaluation
something overtook or that lost a book, `calm` of the four things after which the tree
is known to lose lists (section 5).

In `SmartLists`, `Holds`, `HoldsNode` and `MatchBooks` are the evaluation in Go with
negation, groups, duplicates, gaps in a series and base lists; `Translatable`, `Selects`
and `BooksWhere` are the translation to SQL and what it selects, and `Evaluate` the
choice between the cached library and the narrowed rows. Both compare in their own
way: Go folds all letters (`LowerCase`), takes issue numbers apart (`Split`) and
looks at a rating with one decimal (`Tenths`); SQL folds ASCII letters only
(`AsciiLower`), compares issue numbers as texts with the operator that has the same
code for texts (`TextOperator`), and ratings as they are stored. `Unlike` names the
questions on which the two may differ.

### CBLLists

`reading` are the rows of lists with the entries and members, `shelf` the books that
entries are matched with, `made` the wanted books. The clone of the repository is
at `head` of a given history; `known` moves when history is rewritten. A request goes
through `checked`, `opened`, `placed`, `matched` (import), or `create`, `mark` (wanted
books), and pulls, corrections, deletions and other requests come in between. An edit
of a whole list is `row` and `members` (two reads) and a write of what was read;
`crossed` is the ghost of lists that were imported or corrected between these.

### XmlLibrary

`library` is memory, `file` the disk. Who holds the backend's or the cache's lock is
in `holder`, with what it still has to do: an edit of books is the change and then the
mark (`Mark`), a save is begin (which unmarks) and end, and a restart in between
leaves the file `Torn`. A move out of another list removes the list from memory and ends
with an error (`MoveList`, `Without`). `overlapped` and `astray` are ghosts.

### ComicVineLimits, VolumeSync and Scraping

A call to ComicVine asks the breaker, waits for the pacer, is sent and is answered;
both limiters are counted with the answer, and what they save is in `stored`.
`VolumeSync` runs the background sync beside scrapers that cache issue lists too;
ComicVine (`remote`) changes between two pages. `Scraping` has the one job, the daily
re-check and the person in Scrape Review on one table of results; a result is
written and then older reviews are deleted (`tidying`). `settled` is the ghost of what
a person has answered while nothing else was working on it.

### RuleTree, DataManager and Workflow

`RuleTree` has edits as read (`updating`) and write of whole rows, and `Import` as one
step, since it is one transaction: it deletes the imported groups, moves what was made
by hand up to the nearest group that stays, and inserts the file. `DataManager` has
conditions, actions and their failures over one field of each kind, `ApplyAll` (a
run) and `SelectedFields` (the changes a user ticked in the preview). `Workflow` extends it:
every request reads rows (`read`), then the audited backend takes over in three steps:
`compare` with the stored row, `write`, `append` to the log. Each operation of the
handlers (conversion, scrape, scan, rules, organize, edit, bulk edit, undo, rollback,
locks, marks, types of pages, count fill, format detection, relink) is an action, with the
stage advanced or regressed as it does. The place of a file is a function of five
of `fieldTable`'s fields (`PlaceOf`; the others are changed by the same operations), and the log has
lists only as a number of items (`Logged`). `unexplained` is the ghost of books with a
write that met another in those three steps or failed; `strayed` of filed books whose
place was changed by an operation that does not send them back (`Straying`).

### Trash and BookFiles

An entry of the quarantine is known by the path and the *second* it came from, as in the
code's file names. `Trash` has the steps of a move and everything a failing one may
leave; `BookFiles` the jobs over it: conversion, rewriting of `ComicInfo.xml`, page
edits, organizing, retirement of duplicates, each as read, write of a temporary file,
quarantine, swap, and save of the rows, with `Crash` between any two. Files are told
apart by the request that made them. `purged` and `overwritten` are ghosts of `Trash`;
`calm` is the ghost that no accident (a crash, two requests on one book, ...) happened.

### Backups

The server copies file by file, renames the directory, prunes, records the run; the
restore is another process that plans, takes a safety backup, stages and swaps file by
file; each may stop anywhere, and the server may be started meanwhile. The schedule
first looks at the recorded runs (`BackupTick`), then at failures (`FindNoFailure`), and then starts
(`RunScheduled`) or gives way (`Wait`). Of the table of runs `runs` has what the
schedule asks of it: the last good one and how many failed since, which push it out at
`RunsKept`. A version number stands for the content of a file. `excused`, `cut` and `before`
are ghosts.

### Devices

A device is in three places: `seen` (registry), `registered` (the API's set) and `row`
(table), and at one address (`at`), which may change hands. Registration, edits,
assignments of lists and the search for an address are read, probe and write;
`Migrate` goes through config.yaml device by device. A row may fail to be read at the start,
written or deleted, and the server goes on (`LoadRegistered`, `Unwritten`); other requests
end with the error (`RowFails`). `doubtful` is the ghost of devices of which set and row
may be apart after that or after requests that overlapped, until a start or a request of
its own puts them right; `answered` is that of who answered where.

### Komga and Hub

`Komga`: a request changes a row, then reads all rows, then hands them over (`SetTargets`)
and wakes the goroutine through a channel of one, or ends when it cannot read them
(`GiveUp`); a pass copies the targets, builds its index and works through lists and
read marks, with failures everywhere. `overtaken` is the ghost of targets in the goroutine
that are not the rows any more.
`Hub`: the hub's loop takes an event and gives it to one client after the other
(`turn`); a client whose channel is full is closed and removed; reader and writer are
goroutines that end on their own.

## 3. Runs

| run | module, bounds | checks |
|---|---|---|
| `sync_server` | 2 calls, 2 devices, 1 slot, 1 history entry, a channel of 1 | `EntryHasLiveOwner`, `EachSyncRecordedOnce`, `HistoryInOrder`, `DeviceNeverLockedOut`, `StopIsHonoured` |
| `sync_session` | 2 books, 1 device, 2 faults of any kind, 1 edit, refusal from 2 unreadable sidecars on | `CleanSyncMirrorsPlan`, `ProgressHeld`, `KeepsGoodCopies`, `EventuallyInSync` |
| `library_store` | 1 book with a hashed, an unhashed and a joined field, 2 requests, 2 imports per process | `CacheMirrorsRows`, `WarmIsCurrent`, `EditsKept`, `ImportIsIdempotent` |
| `book_files` | 2 books of which one is not there yet, 2 requests, paths `.cbr`, `.cbz` and another, 2 seconds, retention of 1 | `OriginalsKept`, `RowDescribesFile` |
| `services` | the parts of `Services`, bounds below | `HashDescribesRow`, `ListsStayVisible`, `FreshCountsTrue`, `FastPathAgrees`, `OvershootBounded`, `RestartKeepsPauses`, `SyncedIsComplete`, `SettledStaysSettled`, `ImportKeepsManual`, `SelectedAsWhole`, `AuditExplains`, `FiledWhereItSays` |
| `exchanges` | the parts of `Exchanges`, bounds below | `BurstBounded`, `ImplementsRateLimits`, `EntriesAreMembers`, `UnchangedIsCurrent`, `WantedOnce`, `ListedIsWhole`, `OncePerSlot`, `RestoreCanBeUndone`, `RegistrationAgrees`, `SentWhereItAnswered`, `ChangesArePushed`, `SavedOrMarked`, `NoGaps` |
| `duplicate_session` | 3 calls, 1 device, 5 slots | finds `OneSyncPerDevice` violated |
| `half_written` | 1 book, 1 device, 3 faults | finds `HalfWrittenCannotStay` violated |
| `wanted_deleted` | 1 book, 1 device, 1 fault | finds `OnlyUnwantedDeleted` violated |
| `progress_lost` | 1 book, 2 devices, no fault | finds `ProgressHeld` violated |
| `tags_order` | as `library_store`, with a joined field alone | finds `UneditedFollowsFile` violated |
| `quarantine_reused` | as `book_files`, with a file for each book | finds `ReplacementsNeverCollide` violated |

**Bounds.** *sync_server*: two calls are the fewest that can meet, in one device
or in two; one slot makes them compete for it; one history entry makes the second
result push out the first; a channel of one can be full. Three calls are needed
only for the duplicate, and have a run of their own. *sync_session*: two books give
an operation that succeeds beside one that fails and the order of adds and
deletes; two faults are a first try and a second one, or an unread sidecar and a
failed list; one edit makes every kind of operation possible. `MaxUnmapped` is 5
in the code; 1 lets two books reach it. *library_store*: no operation relates one book
to another except that an import writes all of them, so one is enough (the theorems
cover any number); a title has three texts, for what the file said, what was edited and
what it says now; the bound on imports is one of a process, and restarts do not end, so
that chains of imports are not bounded. *book_files*: two requests are the fewest that
overlap, on one file or on two that want one name; two seconds tell a collision from a
sequence and let an entry expire. The workers are interchangeable, hence the symmetry.

*services*:

| part | bounds | why they are enough |
|---|---|---|
| lists | a folder of the file, one made here, a manual list, 2 books, 2 files, 3 changes | a list can hang below either folder; an edit, an import and a deletion, of a list or of a book, can meet; the second file moves a list and drops its folder |
| smart lists | 3 books of 5 different facts, each pair of 25 matchers and groups under And and Or, 3 kinds of base | each operator is met with each value it treats specially, among them the letters é and É, the numbers 1, 1.0, 1A and 3 and a rating of 4.46; no matcher relates more than two books, except a gap, which needs two and a third between |
| limits | 2 callers, burst 2, window 3, reserves 1, 2 an hour, clock to 4 | both callers can be out when a limit is reached; the pauses and the hour pass within the clock |
| volumes | 2 volumes, 3 issues, pages of 1, 1 change at ComicVine | a list of two pages, and an issue that comes or goes between them |
| scraping | 1 book, 1 job, 2 re-checks | jobs and re-checks relate no two books; the second re-check is the one that might ask again |
| rules | 3 groups, 2 rulesets, 2 imports, 3 edits | a group of the editor inside an imported one inside another; an import that ends a read-then-write |
| workflow | 1 book, 3 requests, of which 2 overlap | nothing relates two books but the order of writes in one request; two requests overlap or three follow each other |

*exchanges*:

| part | bounds | why they are enough |
|---|---|---|
| limits | 1 address, 1 device, window 3, 2 attempts, 2 tokens, clock to 7 | twice the window, after which a bucket is forgotten; keys are independent |
| reading lists | 3 paths, 2 commits with a rename, 1 list, 2 owned and 2 wanted books, 3 requests by 2 callers, 1 change | two imports and a request for wanted books, or an edit of a list around an import; an entry for each way of matching |
| backups | 1 tick, 1 write, 3 backups, 1 change of settings, 2 runs kept (50 in the code) | a scheduled, a manual and a safety backup; retention of 1 and 2; two failures push a good run out of the table |
| devices | 2 devices at 2 addresses, 3 requests by 2 callers, 1 move or restart | an address that changes hands while it is being looked up |
| Komga | 1 list, 1 comic, 2 forms, 3 requests by 2 callers, 1 change by users | two hand-overs that pass each other, while a pass works |
| library | 2 books, 2 shelves, 3 changes | a shelf below another, and a move out of it; an edit during a save and one after it |
| events | 2 clients, channels of 2 and 1, 3 events | a client that is full while the other is not, and an event too many for the hub |

**Fairness.** `SyncServer`: a call's steps are weakly fair, since each of them
returns (locks are short, the semaphore is polled, every exchange with the device
has a deadline). `Shutdown` is strongly fair: Go's `select` picks at random among
the ready cases, so a signal that is ready again and again is taken. Nothing is
assumed of pings, users or crashes. `SyncSession`: `SessionStep` is weakly fair
for the same reason; that devices go on starting sessions (`SF` of `BeginSession`)
is an assumption about their users, without which nothing can be promised. The
other modules state no liveness and assume no fairness.

**Deadlock** is not checked where everything may have been used up: the bounds on
requests, changes and time end the behaviours of `services`, `exchanges` and
`book_files`, and a server that was told to stop stops.

### What the violations show

1. **A device can be synced twice at once.** The clean-up deferred at
   `cmd/server.go:1402` runs after a call reported its result. If a second call
   starts in between, `IsDeviceSyncing` is true of *its* entry and `AbortSync`
   removes it; the second call goes on without an entry and a third is let in.
   `docs/FEATURES.md:316` excludes this. `EachSyncRecordedOnce` shows that even
   then no call is recorded twice: the entry's owner is the one recorded.
2. **A half-written book can stay.** `addBook` removes the archive in its way, but
   not the sidecar beside it (`internal/sync/session.go:346`). Lost acknowledgement
   of the sidecar, redo, broken transfer, end of the session: a partial archive
   with a valid sidecar, which no later session repairs. `docs/dev/CODEBASE.md:151`
   says it cannot happen.
3. **Wanted books can be deleted.** `booksForFilterList` (`internal/sync/sync.go:532`)
   swallows an error of the backend, and an empty list means deletes.
4. **Progress can be lost.** The device's page wins whenever it differs
   (`internal/sync/session.go:995`); an older page from a second device sets the
   library back. `sync_session` shows that with a single device it cannot happen.
5. **A book can stop following its file.** The merge compares the tags it reads back
   from `book_tags` (ordered by the key, joined with `", "`) with the text of the old
   file (`internal/storage/reimport_merge.go:284`). Another order or spacing in the
   file looks like an edit made here, and later changes are withheld for good. The
   comment at `reimport_merge.go:216` warns of exactly this. The theorem
   `NoPhantomEdit` shows that plain columns are safe from it.
6. **A quarantined file can be overwritten.** An entry is named by path and second
   (`internal/trash/trash.go:219`), and `moveFile` overwrites: two replacements of one
   path within a second leave the second original only. The comment at `trash.go:203`
   says that they never collide.

`EventuallyInSync` carries an exception that is itself a result: a device whose
sidecars are mostly unreadable is refused by every session, and nothing but a
session would repair it.

## 4. Proofs

Every theorem holds for all values of the constants that satisfy the assumptions
named with it; the sets may be infinite unless something else is said.

`SyncServerProofs` proves, for all sets of devices and calls, every history
limit, slot limit and channel capacity:

* `TypeCorrect`: `Spec => []TypeOK`
* `SlotsCorrect`: `Spec => []SlotsMatchHolders`
* `OwnersLive`: `Spec => []EntryHasLiveOwner`
* `RecordedExactlyOnce`: `Spec => []EachSyncRecordedOnce`
* `HistoryKeepsOrder`: `Spec => []HistoryInOrder`

all from `Invariance`: `Spec => []IInv`. The assumptions are those of the modules:
`NoSession` and `NoDevice` are not calls or devices, the limits are numbers, the
history has room for one entry.

`IInv` has three parts, proved one on top of the other.

* `BaseInv`: types, that a running call has a device, that `holding` is finite
  (without which its cardinality means nothing), and the slots.
* `EntryHasLiveOwner` is inductive given `BaseInv`: an entry is made at `start` for the
  call's own device, and a call leaves `Tracked` only at `check`, when its device
  has no entry, or at `abort`, which removes it.
* `LogInv` says where each call's result is: every call past `StartSync` owns an
  entry or is in the log or died with a process (`OwnerOrRecorded`), a call in the
  log has no entry (`RecordedIsOver`), none is there twice (`RecordedOnce`). With the
  clean-up race, a call's result may be recorded by *another* call; that is why
  ownership, and not the device, is the thing to follow. `EachSyncRecordedOnce`
  alone is not inductive: it does not exclude a recorded call that still owns an
  entry.

`HistoryKeepsOrder` follows the three logs beside each other. Each of them is, after
every step, the end of what it was with the newest result behind it, or an end of
another of them (`LatestIsEnd` for a prune, `LoadIsEnd` for the load of a new process);
ends of ends are ends, so the shown history is always an end of everything recorded
(`LogsFollow`) and contains the newest (`NewestIsShown`).

The first part of the module gives the effect of each manager operation, so that
the proofs about the server expand none of the operators on sequences.

`SyncSessionProofs` proves, for all books, names, devices and bounds, with every fault and
every interruption of the model:

* `TypeCorrect`: `Spec => []TypeOK`
* `GoodCopiesKept`: `Spec => KeepsGoodCopies`
* `CleanSyncs`: `Spec => []CleanSyncMirrorsPlan`
* `ProgressNotLost`: `Spec => []ProgressHeld`

The hypotheses are definitions of the module: `MarksApart` (the marks for "nothing" are
none of the values they stand beside); for the second and third `OneNameEach` (no two
books share a base name, without which each replaces the other's file); for the last
`OneDevice`. With two devices the
property fails, as the run `progress_lost` shows: a session with the device that is
behind carries its older page into the library (`session.go:995-1002` takes whatever
the device has). The restriction is the code's.

* `BaseInv` says that a sidecar lies at the name of its book (`InPlace`), that until the plan
  the device is as it was listed (`Seen`), and that each pending operation still has the
  reason the plan had for it (`JobsGood`). `GoodCopiesKept` follows: a copy that
  matches the plan is the target of no operation that touches archives.
* `CleanInv` adds `Kept`, which holds while no error is recorded: a wanted book without a
  pending operation is in place (`DoneIsThere`), an unwanted archive waits for its delete
  (`NothingElse`), what was written is wanted (`WrittenWanted`), and an operation finds what its
  earlier statements left (`Underway`). It does not use that deletes come last:
  when names are distinct, the mirror does not depend on that order.
* `ProgressInv` says that no sidecar is behind its reader, except of books in `missed`
  (`SidecarsAhead`), and follows the only copy of a page through a session: in a sidecar
  that will be listed (`AheadOrListed`), then in the listing (`ListedOrMissed`), then in the
  library and the plan (`TakenOver`), before a sidecar is written from the plan.

`LibraryStoreProofs` proves, for all sets of books, fields, texts and requests and
any bound on imports:

* `StoreTypeCorrect`, `SnapshotIsCurrent`, `WarmAfterImport`, `ImportKeepsEdits`,
  `NoPhantomEdit`: `Spec => []` of `TypeOK`, `CacheMirrorsRows`, `WarmIsCurrent`,
  `EditsKept` and `UneditedMatchesSnapshot`
* `SameFileChangesNothing`: `Spec => ImportIsIdempotent`

Assumed are only that `Canon` is idempotent (what was read back is stored and read
back as it is) and that the marks for "nothing" are no books, rows or texts. The
invariant adds two things to the properties. `WarmUpInv`: a snapshot that exists was
built in this generation, none exists between the two halves of an import, and a
warm-up about to mark has either been overtaken or has a snapshot of this
generation. `RowFollows`: what is mine differs from what the file says *as it reads
back*; without that the merge could mistake an edit for the file's own text
(`MergeField` is the lemma that uses it). `SameFileChangesNothing` rests on one more
invariant, that the hash of a living row is the hash of the last file (`FileInv`).

`BookFilesProofs` proves, for all books, paths, files, workers, bounds and retention:

* `OriginalsStay`: `Spec => []OriginalsKept`, if paths and workers are finite. The property
  is not inductive, because a move whose original could not be retired takes its copy away again:
  for a moment the copy is all the invariant sees. `KeptInv` therefore counts. A file that was
  neither deleted nor written over is at one place (a path, or a path and a second in the
  trash) more than there are requests that copied it and may still take their copy away.
* `RowsDescribeFiles`: `Spec => []RowDescribesFile`, if no two books come with the same file
  (`PathsApart`; two rows with one file are what a conversion of one breaks for the other).
  `CalmInv` is the types and, as long as nothing disturbed: a row that is due for
  conversion is no archive, and only archives were ever written (`Kind`); no two rows
  share a path, and rows describe their files (`RowsOK`); requests have different books and
  disjoint paths (`JobsApart`); and each request has its row as it read it, both paths for
  itself, the old file in place or in the trash, and a new one that describes the row it is
  going to save (`JobOK`, `AtWork`). That the target is free is read before the new file is written,
  and is what keeps the path from others afterwards.

`DevicesProofs` proves, for all devices, addresses, lists and requests, if `None` is no device
and no record (`NoneApart`): `SyncsGoWhereTheyAnswer` from `AnswerInv` (what a request carries and
what the registry has are addresses where that device answered) and `DevicesAgree` from
`RegisteredInv` (of a device that is not doubtful, at most one request is under way, and how
far the set and the row are apart is told by its stage; an error of the row makes it doubtful).

`ServicesProofs` proves of the parts of `Services`, under the variables they have there, for all values
that satisfy `ServicesAssumption`:

| theorem | property | invariant, and what it needs |
|---|---|---|
| `PausesSurvive` | `RestartKeepsPauses` | `StoredInv`: the stored counters are the pacer's, and its times are the stored ones but for some old ones at the front (`PacerStored`); the breaker's stored pause is its own unless it is closed (`CircuitStored`). Pruning twice is pruning once (`PrunedOfCut`) |
| `LimitsHold` | `OvershootBounded` | `CountInv`: also, what is counted and what is under way stay together below the limit plus the callers |
| `SyncedHasAll` | `SyncedIsComplete` | `SyncedInv`: what a sync has read is the front of a listing, in which all that stayed listed is, unless ComicVine took an issue out meanwhile (`ListOK`); issues are cached under their own volume. `ListingsApart` |
| `SettledStays` | `SettledStaysSettled` | `SettledInv`: a settled book is before no job and no pass, and has no unresolved result nor a pending review but one that is about to be deleted |
| `HashesDescribe` | `HashDescribesRow` | `HashInv`, which is nearly the property |
| `ListsAreShown` | `ListsStayVisible` | `TreeInv`: while calm, every set that has the shown lists below the root and, with a list, those below it, has all shown lists. That excludes a cycle without recursion. `RowsApart` |
| `CountsAreTrue` | `FreshCountsTrue` | `CountsInv`: a view that is current is of the list and the books as they are, and a fresh count that is not doubtful is the number of members. `RowsApart` |
| `WaysAgree` | `FastPathAgrees` | `CacheInv`: the cache is cold or the library. A translated matcher asks of a row only what is in the row (`LeafLooksAtRow`, `NodeLooksAtRow`), so that narrowing before the exact test adds nothing; and SQL selects what it holds for where nothing is `Unlike` (`LeafSelects`, `NodeSelects`), from equal folding of equal letters (`FoldsAlike`, `TextsAlike`) and the number that a text is of itself (`TextIsItself`) |
| `FiledBooksAreInPlace` | `FiledWhereItSays` | `FiledInv`: rows are in place but for those that have strayed, and so are the rows that requests are about to write, unless they come from a scrape, a count fill, a format detection or a relink |
| `LogExplains` | `AuditExplains` | `LogInv`: of a book whose writes did not meet, at most one writer is about to write or to append; when none is, what the log tells is the row's, for lists their value or their number of items, and when one is about to append, what the log with its entry tells is (`ToldOK`). `WritersApart` |
| `SelectionsMakeWhole` | `SelectedAsWhole` | `FiledInv` again, for its rows: `dirty` is a flag and `custom` has the keys there are. Rules write only what rules may write (`ByRules`); writing one field makes it what it is after the rules and leaves every other field as it is or makes it so too (`WritesOne`), whatever the order. `Yes # No` |
| `ImportsKeepManual` | `ImportKeepsManual` | `RulesInv`: what a group or ruleset is in is there, also for a row that an editor is writing. A walk upwards through imported groups ends at a group made by hand or at the top (`WalkEnds`) and ends there as well when it begins further up (`WalkGoesOn`), so that what hangs in imported groups is put where it was as seen from those made by hand (`Reparents`, `ManualStays`). `TreesApart` |

`ExchangesProofs` proves of the parts of `Exchanges`, likewise:

* *Limits.* `BurstsAreBounded`: between two instants a device is let through at most
  `MaxRequests` times, and once more for each token that drips meanwhile. `Spent`: the tokens
  spent since any admitted request and those left never exceed a full bucket and what has
  dripped since. A bucket the clean-up has forgotten would be full (`QuietIsFull`), so that
  making it anew gives nothing away. `LimitersForgetNothing`: the coded limiters implement
  `RateLimits`, step by step. Filtering old times late is filtering them early
  (`KeptTwice`), and times of a forgotten address are all old (`QuietIsForgotten`). Hypothesis
  `NoEntryApart`.
* *Reading lists.* `MembersFollowEntries` and `UnchangedListsAreCurrent` from `ImportInv`:
  the rows of a list are those of its file at the commit it was imported from, corrected since,
  unless another request overtook it, and its members are the books of its rows unless an edit
  of the whole list read them before; an edit that was not crossed holds the members and the count
  as they are. `WantedBooksOnce` from `WantedInv`: editions of rows grow, a request
  works on rows of an edition, an entry that is left to ask for has no wanted book unless another
  request is making one, in which case it is undecided (`EditionsOK`, `SameOK`, `AskedOK`,
  `UnresolvedOK`, `MadeOK`); hypothesis `ReadingListsApart`.
* *Backups.* `ListedBackupsAreWhole`, `ScheduledOncePerSlot`, `RestoresCanBeUndone` from
  `BackupInv`. A folder with a manifest has all its files unless its removal was cut short, and
  the folder of a run without one has what the run has copied (`FolderOK`, `RunOK`); while
  the server is down it has no run (`DownOK`); a restore beside which no server was started has
  the live files in its own backup, and what it has staged is complete (`RestoringOK`, `UndoOK`);
  the last finished backup is the one in the record, but between manifest and record, and
  what the schedule has found due, and then its run, was due by it, or is excused (`DueOK`). Hypothesis `BackupsApart`.
* *Devices.* `SyncsCarryOver`, `DevicesCarryOver`: the theorems of `DevicesProofs`, instantiated.
* *Komga.* `TargetsArePushed`: when no request and no pass is under way and the goroutine was not
  overtaken or left without the targets, it has pushed what the rows say. `PushInv` is `HandlerInv` (the shape of a
  request), `GivenInv` (the goroutine's targets are what the rows say, when no request has yet to
  read or to hand over rows) and `TakenInv` (the latest pass took them, unless the trigger
  is set or about to be, or a pass is just starting). That the channel holds only one wake-up loses
  nothing, because a pass copies the targets after it has taken the wake-up. `KomgaApart`.
* *Library.* `ChangesAreSaved`: memory and file agree when nothing is marked or under
  way. `SavedInv` adds to the property `HolderInv`, what a holder of a lock may still have to
  do, and `ImageInv`: the image that a save is going to write is memory as it is, except where
  a flush of the cache met a save of the lists, a list went astray, or an edit has yet
  to mark its books. `LibraryApart`.
* *Events.* `NoEventIsMissed`: no gap in what a browser gets, and no channel closed twice.
  `HubInv` is `TableInv` (nobody in the table has a closed channel; the hub has only clients
  in the table still to give an event), `NewInv` (nothing is sent to a client before it is
  registered, nor written before it starts) and `CountInv` (the events of a client are
  numbered from where it joined, up to the latest but for one due). `NoClients`.

The hypotheses called `...Apart` and `NoClients` say that a mark for "nothing" is none of the values it
stands beside; TLC's model values satisfy them. A step of `Services` or of `Exchanges` is one of the
part in question or leaves its variables alone, so what is proved of the part holds in
the composition that the run checks.

**Inductions.** The library's induction theorems take an operator as a parameter and cannot be
cited. `FiltersProofs` therefore derives induction over numbers with a *set* in the
operator's place, from the fact that a set of numbers has a least element, which does for
everything that is a function over an interval: the loops that filter a slice (`Filters!Kept`, in
place of `SelectSeq`, of which the provers know no definition), the runs of data manager
actions, the walk of `survivingAncestor`, the replay of the audit log. Those definitions are recursive functions for that reason.

**Only model-checked.** The liveness properties `DeviceNeverLockedOut`, `StopIsHonoured`
and `EventuallyInSync`, and what the violations show. Liveness under fairness and `ENABLED`
are out of the provers' reach. Every invariant and every action property of a passing run
is a theorem.

**What proving showed about the model.** The ghost `overwritten` did not record what the
clean-up of a conversion or a move takes away when its original could not be retired
(`convert.go:103-106`). The excuse of `OncePerSlot` lacked the record that a restore overwrites
while a server is started beside it, which TLC finds with one backup more. The ghost `oldest` of
the pacer was not needed: `OvershootBounded` holds in a stronger form without it. And two
guards of `MatchBooks` overlapped, so that the order of the code's `switch` had to be said.

## 5. Seen while modelling, without a run of its own

Each of these follows from the code at the lines given. The ones that disturb a
property are the exceptions its comment names; the rest were left without a
property because a run would only restate the line.

**Lists.** A list can be moved below its own descendant (`internal/api/folders.go:104`
refuses only the list itself) and vanishes from the tree with it; two imports can do the
same, since a list with an unchanged hash keeps its old parent
(`internal/storage/import.go:559`). `UpdateListRecord` revives a list an import deleted
meanwhile. A list made here is soft-deleted by the next import of the file. A count
evaluated before an invalidation is stored as fresh. Deleting a book invalidates no counts
(`internal/api/relink.go:353`, `duplicates.go:301`; `workflow_cache.go:132` drops another
cache): a list that had the book shows its old count as fresh until it expires.

**Smart lists.** `matcher_sql.go:15-18` calls the SQL a safe superset. It is not: letters
outside ASCII are folded by `strings.ToLower` and not by `NOCASE` or `LIKE`; issue numbers
are compared as texts, so that `1` is not `1.0`; the operator code of *greater* means
*contains* for a text (`matcher_sql.go:183-213`); and ratings are compared with all their decimals
where Go rounds to one (`smartlist.go:721`). Such books are missing from a list that takes
the fast path, and nothing else is (`FastPathAgrees`). The path is hardly taken: `matcherSQLColumns`
has the bare names of fields, whereas lists of the library file and of the browser
(`list_schema.go`) carry `ComicBook...Matcher`. Matchers on time in a series never match. A base
list that names itself recurses without end.

**Reading lists.** A file with two entries for one book is refused as a whole by the key
of the members' table; after a correction gave two entries one book, correcting one takes
the book from both (`cbl_import.go:365-367`, `399`). A correction inserts with the entry's
position, an import numbers without the unmatched entries. The commit is read after the
file, so a pull in between is never noticed. The row is read outside the re-import's
transaction. The next XML import soft-deletes these lists. `PUT /api/library/lists/:id` writes back
the members it has read (`internal/api/lists.go:821-839`, `storage/queries.go:671-692`) under a lock that
re-imports and corrections do not take: it undoes them in the members and the count and
not in the entries. It reads the row before the members, so that the count it writes
may be of other members.

**XML backend.** A list save (backend lock) and a flush (cache lock) can overlap and
leave the older or a mixed file. `MoveList` below itself or a missing parent leaves the list
at the root in memory, unsaved, and reports an error (`xml_backend.go:141-165`).
`SaveLibrary` truncates in place (`library.go:292`). A list inside another one cannot be moved:
`extractListRecursive` drops what it finds below (`xml_backend.go:178`), so `MoveList` says that there is
no such list (`:148-150`) after it has removed it from memory, and the next save removes it
from the file.

**ComicVine.** `Allow` is asked before the wait, so a caller may be sent through an open
breaker; `circuit.go:140` speaks of one probe, but everybody is let through; a cancelled
context counts as a failure. A volume that fails for good stays pending and is retried in
every sync (`sync.go:95-145`); issues that ComicVine dropped or moved stay as they
were (`cache.go:181-183`); a shifted page hides an issue. A scrape job that fails to
read the database returns and stays "running" (`scraper.go:241-244`). A dismissal races a
re-check that has the book in hand (`recheck.go:127`).

**Rules.** Rules added in the editor to an *imported* ruleset are deleted by
`import --force`, which `cmd/datamanager_import.go:31-34` says never happens. A group can be
moved below its own descendant (`datamanager_rules.go:435`); it vanishes, and the next
import's search for a surviving ancestor does not end (`datamanager_import.go:191-197`;
the guard `Returns` of `RuleTree!Import`). `Add` on a text appends at every run, although
`stage.go` calls rules idempotent. A write of a whole row undoes a concurrent move.

**Workflow.** A job's copy of a book is old when it is written and undoes edits made
meanwhile, the file's path after a concurrent organize included. `UpdateBooks` has no
transaction, so an error leaves rows that were written and not logged, although
`audit.go:16-18` says every update is recorded. Count fill, format detection and scrapes
change fields that a path depends on without sending the book back (`countfill.go:109-113`,
`formatdetect.go:90-94`), and a relink gives it another path (`relink.go:308`). The log has lists, such as
the types of pages, as a number of items (`audit.go:93-95`): a change of a type reads `3 items`,
`3 items`, and an undo cannot restore it. A scrape that
changes nothing leaves a rolled-back book where it is. Selecting only "Published" writes
year and month too. An undo of a count fill leaves the mark of an automatic value.

**Files.** Of two conversions of one book, the second's failed quarantine removes the
first's result (`convert.go:107-108`). Looks for a free name and renames are two steps
(`trash.go:126-129`), and a restore may land between the renames of a replacement or
on a third entry (`trash.go:292-296`). Pages marked deleted are dropped by a conversion
while the row keeps them. A scan of a watched folder during a conversion takes the new
archive for a new book.

**Backups.** The package says that a backup that exists is complete; an interrupted
removal leaves one that is listed and is not. A run whose record fails (only logged,
`internal/api/backups.go:181`) is repeated every minute and prunes older backups; so is one
whose record was lost because the server ended between the rename and the record, was pushed out of
the fifty rows by failures (`configdb/backups.go:118`), or could not be read (`backups.go:103-105`). The
schedule looks for a recorded run (`backups.go:79`) before it takes the flag (`:144-149`): a run by hand
that ends in between is followed by a second one. The check
for a running verification is over before the removal begins (`backups.go:478-485`). A
server started during a restore writes into files that are being replaced.

**Devices.** `UpdateLastSeen` keeps the first address (`registry.go:108`), and "recently
pinged" goes there without a probe (`server.go:1307`). `server.go:206-209` says
config.yaml is never imported again; the guard is only an empty table, so after a failed
save of the file it is, once all devices were unregistered, and a migration that broke
off is never completed. An edit writes the whole row: it undoes a concurrent one and
revives an unregistered device (`device_config.go:72-96`). An error of `GetDevice` during
registration overwrites the row (`api.go:797-802`). Overlapping register and unregister
leave set and rows apart, and so does a row that is not written (`api.go:801-805`), not deleted
(`:856-859`) or, at the start, not read (`:248-254`): the server logs it and goes on.

**Komga.** Of two hand-overs, the later may carry older rows; they stay until the
next change (`komga_targets.go:250-285`). A change whose rows cannot be read back
(`:205-210`, `:255-259`) is in the table and not handed over. Two targets of one kind and name overwrite each
other. The status of a deleted target stays. A list that is gone is an error and Komga
keeps what it has. A path is translated by prefix without a boundary (`pathmap.go:30`).

**Hub.** Slow clients are removed under the read lock; only a `len` runs beside it, a
data race without effect.

## 6. Not modelled

* `UpdateProgress`, `SetDetail`: numbers and texts of an entry.
* Start-up order, SIGHUP reload, schema migrations, configuration files.
* Framing, deadlines and retry counts of the protocol; a device that appends to a
  file on a repeated write, or that refuses a delete, which the code cannot see.
* Two books with the same file name: `NameOf` is injective in the instances.
* In `Lists`, new books (they are in no list); in `CBLLists`, the import of a library, which
  retires reading lists. In `SmartLists`, ratings half way between two tenths, which Go
  rounds by their binary form, and answers that ComicRack does not write.
* In `Workflow`, more than one page of a book, and the fields of a path beyond five.
* Rows migrated from a database without snapshots, which their first merge
  overwrites; duplicate tags in a file, which fail the whole import; collisions of
  the hash. `LibraryStore` keeps the code's choice of hashed fields: a change in the
  file of a field that `computeBookHash` leaves out (translator, manga, ISBN, ...) is
  taken over only together with a change of another field.
* Captions, expressions, templates, scores, covers and everything else that computes
  a text or a number from one book: data, abstracted to its outcomes.
* Authentication: checks of one request against one row.
* Books of the XML backend that a caller changes in place, through the pointer `GetBook`
  returns, before they are put back.
* Command line tools (one process over the same code), generated code and the web
  interface.
* In general the modules are one process and its databases: a database error rolls
  back where the code has a transaction, and leaves a prefix where it has none.

## 7. What is left

The protocol client's retries against a device that appends; SIGHUP reload.
