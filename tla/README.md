# LegalScout: a TLA+ model and its proofs

LegalScout runs compliance checks for legal matters: it opens web sources for a
list of names, in background processes, and keeps a screenshot of every
result.  This directory models it where mistakes are easy to make and hard to
test: many processes on two kinds of SQLite databases that are held together by
leases, and the steps around them, from the list of names over the directories,
the browser and the files to the words the panel shows.

Everything here is translated from the Go code under `src/internal`;
`PROJECT.json` ("map") names the lines of every definition.

## 1. Inventory

| component | state it keeps | operations | what makes it correct |
|---|---|---|---|
| **Queue store** `store/store.go` (`QueueStore`, `queue.db`) | `queue`: per started project a status, a lease, `last_started`; `worker_locks`: per slot a holder and a lease | `Enqueue ClaimProject Requeue Finish Fail Remove Cancel IsRunning AcquireWorker ReleaseWorker` | a claim is not repeated while it is live; a holder has one slot, and a slot one holder; no queued project starves |
| **Project store** `store/store.go` (`ProjectStore`, a project's `state.db`) | `tasks`: status, lease, path, replaced screenshot; `screenshots`; `locks` | `Seed List RecoverExpiredLeases ClaimNext Complete RetryFailures AcquireLock ReleaseLock` | results are final but for retry and review; screenshots form one chain; a live lock is not taken |
| **Worker engine** `worker/worker.go` | a holder's name, the turn it is in | `RunUntilIdle runWorker RunOnce execute Review renewProjectLock` | one executor per project at a time; every started project gets its results; the slots bound the browsers |
| **Launch** `worker/launch*.go` | none | `StartDetached` | a started project has a process to run it |
| **Commands** `cli/root.go` | none but their lock | `start retry review archive`, `create status open doctor panel`, `__worker` | a success that was reported is true; an archive moves nobody's work away |
| **Workspace** `workspace/workspace.go` | directories, the file `archiving` | `Create List Resolve IsArchiving` | a reference names one project; an archived project is not found |
| **Domain** `domain/status.go` | none | `Validate IsConfirmed ProjectStatusFor ClassifyError` | an error is never "not found" |
| **Capture** `capture/capture.go` | files under `截图/` and `diagnostics/` | `Save SaveDiagnostic writeAtomic Watermark` | no deliverable is overwritten or half written |
| **Browser** `browser/browser.go` | a Chrome over CDP | `Preflight Run readResult ...` | a result is what the page says |
| **Sources** `sources/sources.go` | a constant table | `Classify PreflightContract` | only a positive rule gives "not found" |
| **Importer** `importer/importer.go` | none | `ReadNames stableUnique` | every name once, in its order |
| **Panel** `ui/panel.go` | rows, cursor, form | `Update View` | the cursor finds a row, text its field, and the list follows |
| **Logging**, **main** | log files | | |

How they interact.  `start` and `retry` take the project's lock, put its row
into the queue and launch a process.  Each process runs some workers; a worker
waits for one of the workspace's slots and then takes turns: claim a queued
project, take its lock, claim its first pending task, run the browser, write the
result, give the lock back, requeue the project.  `review` executes the tasks
that need a person under the same lock, which a heartbeat renews.  `archive`
takes the lock, writes a marker (`archiving`), gives the lock back, renames the
directory into `_archive` and deletes the project's row.  The browser's outcome
decides the task's status, and a confirmed one saves a picture before it is
recorded.  `create` claims a directory and fills it step by step while others
can already see it; `status` and the panel read in between.  Nobody talks to
anybody: everything goes through rows of the two databases and the marker file,
and every lease runs out by itself.

What is hard.  Every arrow above is an interleaving point between processes.
Processes die anywhere and leave up to four leases behind (row, lock, task,
slot).  Statements fail (`SQLITE_BUSY` after five seconds, a full disk, a
database whose directory was renamed) and every failure has a path of its own.
Machines sleep, so that an executor wakes up after its leases.  Times are whole
seconds, compared with `<`, `>=` and `>`.  `PROJECT.json` ("hazards") lists
what can go wrong, line by line, with the properties that watch it.

## 2. Modules

```
Leases            seconds left, rows of locks, departed holders
  QueueStore      queue.db        one action per call    -- StoreProofs
  ProjectStore    state.db        one action per call    -- StoreProofs
    Engine        workers: one action per call they make (extends both stores)
      Commands    start, retry, archive, review
        Scout     all of it, with time and crashes       -- ScoutProofs, ResultProofs
TaskBoard         what a user is promised of a project's tasks (abstract)

Capture           saving and recording a picture         -- CaptureProofs
Deliverables      what a user is promised of the folder (abstract)
Workspace         create, list, resolve, archive         -- WorkspaceProofs
Sources           texts, replies, errors and the table of sources
  BrowserRun      one execution, preflight to result     -- BrowserProofs
Importer          a file's names, loop by loop
  Checklist       names, tasks, and what status says of them (extends Sources too)
                                                         -- ChecklistProofs
Panel             keys, form, refreshes, reviews         -- PanelProofs
MCQueueStore, MCProjectStore, MCScout, MCWorkspace, MCBrowserRun, MCChecklist
                  symmetry and values of constants for TLC
```

The two groups meet at the calls of `worker.execute`.  `Engine!Execute` chooses a
result freely among those that `BrowserRun` can reach; `BrowserRun!Save` stands
for `Capture`; that executors of a task take turns (`Exclusive` of `Capture` and of
`Checklist`) is what `Scout!MutualExclusion` proves.

* **Leases.**  A row's `lease_until` is compared with the second of the call, so
  the model keeps the seconds left, from `Lease` down to 0 (still live: the code
  asks `lease_until < now`) and then `Expired`.  A lease that the code clears
  (`lease_until = 0`) is `Expired`.  Holders' names are random and are never
  used again; the model reuses them and ascribes a row whose holder ended to
  `Departed`.
* **QueueStore.**  `queue` maps every project to its row (`"absent"` when there
  is none), `slots` every slot to its row of `worker_locks`.  `last_started` is
  only compared, so its order and ties are kept as ranks; `thisSecond` is the
  set of projects whose value is the current second, which is how ties come
  about.  The order of `created_at`, which breaks ties, is left open.
  `ClaimProject`'s sweep and its transaction are one action: another process's
  call between the two has the same effect just before.
* **ProjectStore.**  `tasks` is numbered in the order of `ClaimNext`; `shots` is
  a task's rows of `screenshots` by id; `locks` is the row named "project".
  `found` and `not_found` are one status, `"confirmed"`: no code below the
  browser tells them apart.  `attempts`, messages and times of update are left
  out: nothing reads them for control.  `Complete` drops the error of its SELECT
  (`lost`, `store.go:236`) and goes on as if there were no previous screenshot.
  `ClaimNext`'s recovery and its transaction are one action, as above.
* **Engine.**  `pc` names the call an actor makes next and `at` its project.
  Every branch and early return of `runWorker` and `RunOnce` is there, in the
  order of the code: `Resolve`, which lists the directories, and `OpenStore`,
  which needs the one that was found, are two steps, and a project that is
  archived in between fails without an error of the worker.  `Execute` stands
  for preflight, browser, capture and `Complete`.  `StoreError` lets any
  statement fail; each failure goes the way of its `return`.  An error ends the
  whole process (`RunUntilIdle`).
* **Commands.**  Each command's calls after its project was resolved.  A command
  that gives up before it changed anything takes no step, so what it checks
  first is the guard of its `Begin...`.  When the directory was renamed,
  statements on the open database fail (`moved`): SQLite refuses to write to a
  database whose file is no longer where it was opened.  `CommandError` has a
  `WriteFile` of the marker that fails before and one that fails after the file was
  created (`root.go:443`), and a removal that leaves it.  The lock of a minute
  and the lock of ten are both `Lease`: under `Timely` neither runs out.
* **Scout.**  `Init`, `Next`, `Tick` (a second passes for every lease at once)
  and `Crash` (a process is gone between two calls).
* **TaskBoard.**  The abstract specification: a task is open until it has a
  result; only what needs review is settled again, and only a retry opens
  again, all retryable errors of a project at once.  `Scout!ImplementsBoard`
  states that the whole system implements it, claims, leases, crashes, commands
  and all, with "pending" and "running" both open.
* **Capture.**  `writeAtomic` call by call (temporary file, write, sync, `Lstat`,
  rename), around it `Save` and execute's `Complete` with its rollback.  A name
  is a folder, a second and a suffix; what else is in a name only makes equal
  names rarer.  A loss of power tears what was not synced; `litter` counts
  temporary files that nobody removes any more, also those whose removal failed
  on a name that was taken, which nobody looks at (`capture.go:157`).
* **Deliverables.**  The abstract folder: a picture appears whole under a free
  name, a row names a picture that is there, and only what no row names is taken
  back.  `Capture!ImplementsDeliverables` is the refinement.
* **Workspace.**  `createProject` call by call for several processes, with its
  deferred `RemoveAll`, the errors and crashes between the calls, and archives, at
  any time.  `early` has the slugs of which a project was archived while the
  command that made it still ran, which goes on there by path: `MkdirAll` makes the
  directory anew, a copy into one that is gone fails, the tasks go into a database
  that was moved away or into nothing, and the cleanup removes whatever is there.
  A directory is the four things in it: who claimed it, whose metadata, input
  and tasks it holds.  Names, slugs and IDs are sequences of parts, so that
  equality and prefixes are those of the strings; IDs are drawn in a fixed order,
  since which one it is makes no difference.  `Resolve` is a function of the
  listed projects.
* **Sources, BrowserRun.**  A text is the set of the phrases `Classify` looks
  for; a reply is the fields `decodeCSRCSearch` looks at.  `Registry` has the
  fields of the table that decide control.  `pc` is where an execution is
  between preflight and result; the page writes on its own (`PageWrites`), and in
  a review a person works on it in several tabs.  `hits` is the truth: has the
  source a record?  Pages answer it or an exception, at any time; when `interim`,
  they may write anything before their answer, and `placeholder` notes whether that
  was a "no record".  `manual` says whether the process is a review or a worker.
  `RunUntilIdle` gives every worker an `Engine` of its own (`worker.go:71`), so that
  `cached`, what preflights gave, is per executor, and executors share nothing;
  the mutex around the cache has nobody to keep out.
* **Importer, Checklist.**  `ReadNames` on a table of cells, one step per title of
  the first row and per row below.  The code first collects the column's values
  and then drops empty and repeated ones; here a row does both, and a row that
  does not reach the column is passed over.  The due names (`Due`) are defined a
  second time, from the table as a whole.  After the import comes the life of the
  project's tasks, with the two queries of `status` between them.  An executor
  remembers its task (`doing`) and records a result whatever the task's status has
  become, as `Complete` does; a task may be recovered and claimed again meanwhile.
* **Panel.**  `Update`: every key in the list and in the form, refreshes, and a
  review, which holds the panel up.  A key on a row that is not there panics,
  which is `Leave`.

Some definitions carry a comment "Mutated": they are the wrong forms that
show that a property notices them (`PROJECT.json`, "mutants"), and no action uses
them.

## 3. What is checked

Run `tlc -config X.cfg M` with the module of the run.

| run (cfg, module) | instance | shows |
|---|---|---|
| `QueueStore` | 2 projects, 2 holders, 2 slots, lease 2; fair claims and seconds | `OneSlotEach`, `ClaimsNotRepeated`, `NoProjectStarves` |
| `ProjectStore` | 1 project, 2 tasks of up to 3 screenshots, 2 holders, lease 1 | `ScreenshotsChained`, `OnlyRetryableReopens` |
| `Scout` | 1 project, 2 tasks, 2 processes, 1 user with all four commands, 1 slot, 1 failing statement | `TypeOK` (with those of both stores), `MutualExclusion`, `ExecutesRunning`, `TombstonesAttended`, and the refinement `ImplementsBoard` |
| `Archive` | 1 task, 2 users with start, archive and review, 1 crash | `LockHeld`, `OnlyIdleMoved`, `ConfirmedIsFinal` with two commands at once |
| `Progress` | 2 projects, 2 processes, 1 slot, starts only, no failure; `FairSpec` | `BrowsersWithinSlots`, `StartedSettles` |
| `Recovery` | start and archive, 1 process of 2 workers, 1 crash and 1 failing statement; `FairSpec` | `DoneIsSettled`, `StartingAgainSettles`, `ArchivingAgainArchives` |
| `Capture` | 2 executors, 3 pictures, 2 seconds, 1 crash, 2 errors | `DeliverablesWhole`, `RowsPictured`, `LeftoversAccounted`, `SaveEnds`, and the refinement `ImplementsDeliverables` |
| `Workspace` | 2 creators, 3 projects of 2 names that collide, 1 early archive, 1 crash, 2 errors | `Isolated`, `CreatedStays`, `HalfMadeAccounted`, `ReferenceNeverMoves`, `CreateEnds` |
| `BrowserRun` | 1 executor, a worker or a review with 2 tabs; 3 sources, 6 texts | `VerdictIsTrue`, `NotFoundIsTrue`, `PictureAgrees`, `TemporaryStaysRetryable`, `ExecutionMovesOn` |
| `Panel` | 3 projects; `FairSpec` | `FocusFollowsField`, `OnlyReviewMisplaces`, `PanelFollows` |
| `Checklist` | every table of up to 3 rows of up to 2 cells; 2 names, 2 sources, 2 executors | `ImportedOnceInOrder`, `CompletedIsFinal`, `CountNotAhead` |
| `LostStart` | start and retry, no failure; `FairSpec` | **violated** `StartedSettles` |

Properties that are proved for every value of the constants and only serve
another one (the type invariants but Scout's, `SlotsNotStolen`, `LocksNotStolen`,
`InFlightNotReclaimed`, `ConfirmedPictured`, `SuffixesDense`) are in the modules and
in section 5, and are not repeated in the runs.  The other way round, a bound of
a run that is also a hypothesis of a theorem (`Archive` has no failing statement,
`Recovery` no retry) is explained there.

**Bounds.**  A lease of two seconds has a second in which it is fresh, one in
which it is old, the last second 0 that `Enqueue` and `IsRunning` judge
differently, and `Expired`.  Two processes of one worker compete for one slot,
so one waits while the other works, and takes over when it dies; in `Recovery`
they are of one process, which ends with both when one of them returns an
error.  Two tasks are the least that tell "the first pending task" from "the
task"; three screenshots the least that tell a chain from a pair.  `MaxShots`,
`MaxCrashes`, `MaxFaults` bound what would otherwise be unbounded.  `Capacity`
lets a command begin only when a process will be left for it to launch; a
command whose launch fails is `CommandError`.  Two commands at once (`Archive`)
are checked with one task. Two errors are what a failing rollback takes
(`Capture`, `Workspace`).  `MaxEarly` bounds the slugs at which a project is
archived under its creator.  Three pictures fill one second with a suffix of 1,
2 and 3; three projects of the names "A" (slug `a`) and "a-2" make a slug that
is another project's name, and a suffix that is taken.  The three sources of
`BrowserRun` are one that is asked directly, one by its page and one that needs
a person; the six texts are an answer, a "no record", nothing, a "no record"
with "busy", an exception and a captcha.  One executor is enough, as executors
share nothing. `Checklist`'s tables have titles in any column or twice, short
rows, padding and repeated names; tasks are followed for tables of one or two
names.  Symmetry exchanges processes of equal size, users and executors, in runs
of safety properties only.

**Fairness.**  `FairSpec` has weak fairness for every worker's and every
command's next call (goroutines and processes are scheduled) and for `Tick`
(time passes).  Nothing is owed by users: no command has to be begun, and no
fault or crash has to happen.  The two properties of `Recovery` have a user in
their hypothesis who keeps typing start, or archive: strong fairness of its
`Begin...`, because the guard comes and goes with the processes that are left.
`StartingAgainSettles` asks that nobody keeps archiving, since a user who types
archive at the wrong moments for ever takes the lock in every turn.
`QueueFairSpec` has somebody who keeps claiming, and time.  `Capture` and
`Workspace` are fair to the calls of a process that is alive, `Panel` to its
two-second timer, as Bubble Tea delivers it.

**Deadlock** is checked in the runs of the system and of the browser.  `Capture`,
`Workspace`, `Checklist` and `Panel` stop when the pictures, IDs or names are used
up, or when the panel was left.

**Assumptions that are constants.**

* `Timely`: the leases of a live actor are used or renewed before their last
  second.  The code gives a turn ten minutes; preflight and the browser's
  timeouts and retries end an automatic execution in under six.  A review renews
  its lock three times per lease.  What the code does not rule out is a
  machine that sleeps, or a command that is suspended in a terminal.  Every run of
  the system assumes it, so that none shows a slow worker that settles the row of
  another, a row in its last second under its worker, a review that lost its lock,
  or a late result: for these there is section 4.
* `Exclusive` (`Capture`, `Checklist`): executors of a task take turns, which
  `MutualExclusionAlways` proves of the whole system under `Timely`.  A claimant
  that ended without a result is followed by others in any case.

**Exceptions that are part of a property.**

* `~interim` (in `VerdictIsTrue` and `PictureAgrees`): a page writes its answer in
  one go.  `NotFoundIsTrue` does without, but for a page that said "no record"
  itself before its answer (`placeholder`).
* `early` (in `Isolated`, `CreatedStays` and `HalfMadeAccounted`): the slugs at
  which somebody archived a project under the command that creates it.  Nothing
  in the code prevents that, and at these slugs the three do not hold;
  everywhere else they do, whenever projects are archived.
  `ReferenceNeverMoves` has no exception.
* `TemporaryStaysRetryable` is about errors without a telling word and about busy
  pages; `OnlyReviewMisplaces` leaves out the load after a review
  (`panel.go:177`); `TombstonesAttended` a process that died and the two file
  operations on the tombstone itself.

Section 4 says what becomes of the properties without these.

## 4. Findings and known deviations

*A start can be lost* (`LostStart`, `worker.go:238`).  Between a worker's
`ReleaseLock` and its `Finish`, a `retry` resets a task, takes the lock, finds the
row running and leaves it, launches a worker and reports success; `Finish`
then marks the row done.  The task stays pending.

The following came up while the models were written, and no run keeps them.
Where a change of a cfg shows one, it is named, with the property to check alone.

* `worker.go:266`: an error of `Complete` returns lock and row but not the task,
  whose lease outlives the next turn: that turn finds nothing pending and marks the
  row done, with a task that nobody executes still running.  `DoneIsSettled` is
  about what is pending and does not exclude it.  Somebody has to type start
  again, which is enough (`StartingAgainSettles`).
* `worker.go:80`: in the same way a worker whose statement fails because its
  project was archived ends the process, and with it the process's other worker in
  the midst of a task of another project, without any failure.
* `store.go:236`: `Complete` drops the error of the query for the confirmed
  screenshot and inserts the new one as if there were none.  Then two screenshots
  of a task are confirmed and the chain of replacements has a gap, which
  `ScreenshotsChained` allows there and nowhere else.
* `root.go:443`: a `WriteFile` that fails on a full disk has created the marker by
  then, and no error path removes it: the project is blocked for start, review and
  workers until somebody archives it.
* `capture.go:157`: the removal of the temporary file on a name that is taken is
  not looked at; one that fails leaves the file for good.
* `root.go:187`: archive gives its lock back before it renames and removes, so
  that a start which was past the check for the marker puts an archived project
  back into the queue.
* `store.go:219`: `Complete` does not ask who runs the task; a worker that slept
  past its leases overwrites a confirmed result (`Archive` with
  `Timely = FALSE`, `ConfirmedIsFinal`), also one that `status` has counted
  (`Checklist` with `Exclusive = FALSE`, `CountNotAhead`).
* `root.go:466`: of two archives, the one whose rename fails removes the
  marker of both, and a worker may enter a directory that the other moves
  (`Archive` with `MaxFaults = 1`, `OnlyIdleMoved`).
* `worker.go:392`: a review opens its browser without one of the workspace's
  slots, and does not count in `BrowsersWithinSlots`.
* `capture.go:150`: two executors in the same second both find a name free, and
  the second rename replaces the picture that a row names (`Capture` with
  `Exclusive = FALSE`, `RowsPictured`).  It takes a worker that slept.
* `root.go:139`: a project that is archived while it is created gives its slug
  away, and its creator goes on by path in another project's directory, or
  removes that when a call fails (`Workspace`: `Isolated` or `CreatedStays` without
  the exception of the slugs in `early`).
* `workspace.go:197`: a full slug that is another project's name finds neither,
  and the error advises to use the full slug.
* `browser.go:329`: the words of a transport error (`contract`, `invalid`,
  `selector`) make it fatal, although `runOnce` had returned it as retryable and the
  comment at `browser.go:324` says not to.  `TemporaryStaysRetryable` leaves such
  errors out.
* `browser.go:696`: whatever text comes first after the query is taken for the
  answer.  A page that says "no record" until its rows are there is recorded as
  `not_found`; `NotFoundIsTrue` shows that nothing else makes one false.
* `browser.go:389`: the picture of an exception page is dropped together with the
  error, so that nothing reaches `diagnostics/`.
* `browser.go:371`: a line typed before the prompt confirms a page at once; the
  reader of a review that lost its lock takes keys from whoever reads next; and
  under the panel the terminal is in raw mode, in which Enter is no line feed.
* `panel.go:177`: after a review the list is loaded again and the cursor left
  where it is, possibly beyond the rows; the next key on a row panics.  That this
  is the only way is `OnlyReviewMisplaces`.
* `panel.go:160`: the menu's key q does nothing.

## 5. What is proved

TLAPS checks the following for every value of the constants (any finite set of
projects, any holders, tasks, screenshots, slots from 1 to 8 and lease; any
executors, pictures, creators, names, tabs), from the assumptions named in the
modules.

*StoreProofs.*  Of `queue.db`: `QueueTypeCorrect`, `OneSlotEachAlways`,
`SlotsNeverStolen`, `ClaimsNeverRepeated`.  `QueueTypeOK` is inductive by itself;
`OneSlotEach` is inductive relative to it: a renewal frees the holder's other
rows, and a holder that takes a slot has none (`AcquireWorkerOneSlot`).  The
action properties follow action by action.

Of `state.db`: `ProjectTypeCorrect`, `ScreenshotsAlwaysChained`,
`ConfirmedAlwaysPictured`, `InFlightNeverReclaimed`, `OnlyRetryableReopened`,
`LocksNeverStolen`.  `ProjectTypeOK` is not inductive alone: `Complete` writes
`Previous`, a `CHOOSE` of the last confirmed screenshot, and that there is one
is known only in a chain.  The inductive invariant `ChainedOK` joins the types,
the chain and `ConfirmedPictured`; `PreviousIsNewest` shows that in a chain the
previous screenshot is the newest, and `CompleteKeepsChain` that a result keeps
the chain, also one that does not see the previous screenshot and starts anew.
`TaskStep` lists what a call can make of a task's row, and the action properties
follow from it.

*ScoutProofs.*  `LockAlwaysHeld` and `MutualExclusionAlways`, about the whole of
`Scout` and for any number of projects, processes, commands, crashes and failing
statements, under the assumption `Timely`: no turn and no command outlasts the
lease it took or renewed.  The assumption is needed, since a worker that sleeps
past its lease and wakes up is inside with a row that another may have taken.
The inductive invariant is `LockInv`: whoever is inside has the row of its
project's lock, unexpired (`LockHeld`), and an actor that is anywhere is at a
project (`PlaceOK`), without which `locks[at[a]]` need not be a row.
`StepKeepsLockInv` carries the argument for every step: no call and no departure
changes a live row of an actor that does not move, and the ones that move are
outside afterwards or have a live row. The lemmas after it are the forms a step
can have (an actor stays, goes on, takes the lock, gives it back, turns over,
ends), and `WorkerKeepsLockInv` and `CommandKeepsLockInv` put each action under
one of them. Only `TickKeepsLockInv` uses `Timely`. Mutual exclusion follows,
since a row has one holder.

The rest of *ScoutProofs* is about what does not need that assumption, and about
archives.  `SystemUsesStores`: the system implements both stores; every step of a
worker, a command, a second or a crash is a call that `QueueStore` and
`ProjectStore` model, or leaves them alone.  It rests on `ActorOK` (who is where,
and at a project whenever a call needs one).  With it all theorems of the
stores hold in the system (`StoreInvariantsInSystem`, `StoreStepsInSystem`), and
`SystemTypeCorrect` is `TypeOK`, all three without `Timely`: also when leases run
out under whoever relies on them, only *who* is at a project is in doubt, never
the form of what the databases hold.

`SlotAlwaysHeld` (`Timely`) says of every worker past its wait that it has a slot
under a live lease; `BrowsersAlwaysWithinSlots` follows by counting: the workers
at a browser are mapped one to one to slots.

`OnlyIdleEverMoved`: no directory is renamed under a worker at a browser or a
review at a task, although archive has given its lock back by then.
`ArchiveMarked` is why: from the marker on until the rename the marker is there,
and whoever was past the check for it when it was written is gone, since the
archive had the lock.  It needs `Timely`, and that no statement fails or there
is one user: with both, the rollback of one archive removes the marker of the
other (section 4).

`TombstonesAlwaysAttended` needs neither `Timely` nor a bound on errors: a step that
leaves a project with a marker no archive stands by is a crash, or an error of the
`WriteFile` or of the removal of the marker itself.  The proof reduces all actions
to the forms a step can have for files (`FileSteps`) and goes through every error
path of the commands; that two archives of one project never both stand behind a
rename is `MovedAlone`.

*ResultProofs.*  `ExecutesRunningAlways`, `ConfirmedAlwaysFinal` and
`SystemImplementsBoard`, under the same assumption.  `Complete` asks neither who
runs a task nor whether it runs, so that a result is final for another reason:
whoever brings one works on a task that is running or needs review, and nobody
else is at that project's tasks.  The inductive invariant `SystemInv` says so: it
joins `LockInv`, the store's `ChainedOK` and `WorkOK`, what a worker or a review
has left to do.  None of the three is enough alone: `WorkOK` is
disturbed by whoever else is inside, which `LockInv` excludes, or by a retry,
which takes no lock and touches retryable errors only.
`EveryTaskStep` reduces all actions of the system to six forms a step can have
for the tasks (`TaskSteps`: quiet, claims, settles, retries, lists, passes), and
each form keeps the invariant; `RowSteps` then says what it does to a row, and
the finality of results and the refinement of `TaskBoard` follow from that.

`DoneAlwaysSettled`: a row that says done is that of a project in which nothing
is pending and nobody is in a turn, unless it was archived under it.  The
inductive invariant `RowsInv` says of every worker in a turn that it has its
project's row, running and live (`Held`), and is the only one in a turn there,
unless the project was moved and is not taken back (`Buried`); and that from its
`ClaimNext` that found nothing to its `Finish` nothing is pending, although it
has given the lock back in between.  It assumes `Timely`, for a row that ran out
is claimed by another, and that nobody retries: with a retry it is false, as
`LostStart` shows.  Crashes, failing statements, archives, reviews, and
processes of any size are covered.

*CaptureProofs.*  `CaptureTypeCorrect`, `DeliverablesAlwaysWhole`,
`RowsAlwaysPictured`, `SuffixesAlwaysDense` and `CaptureImplementsDeliverables`,
each under `Exclusive`.  The inductive invariant adds where a writer is to what
its temporary file and the name it tries are (a name between `Look` and `Rename`
is free, and all smaller suffixes are taken), that only one writer is busy, and
that a row's name is not the one that a rollback takes back.  That the loop
never runs out of suffixes is a pigeonhole argument: the files of a second are
pictures that were taken, and each is under one name. `LeftoversAlwaysAccounted`
counts: what is left over, pictures without a row and temporary files that
nobody removes, is at most the deaths plus the errors, and twice the pictures
alone is at most twice the deaths plus the errors (`LeftOver`), since a picture
that could not be recorded is taken back unless that fails too. A step adds only
what it pays for.

*WorkspaceProofs.*  `WorkspaceTypeCorrect`, `ProjectsIsolated`,
`CreatedAlwaysStays` and `ReferencesNeverMove`, without any assumption on when
projects are archived. The inductive invariant says, outside the slugs in
`early`, what is in the directory of a creator at each of its calls and that no
two creators have the same one; a step of a creator at a slug in `early` touches
nothing else (`AstrayStep`, `AstrayFill`).  `CreatedStays` needs it because
`Cleanup` removes by path: what is there is still the creator's own.
`ReferenceNeverMoves` is about one step: the project that a reference means
exactly stays listed, so the reference means it or becomes ambiguous.
`HalfMadeAlwaysAccounted` is the same kind of count, with the commands that are
just cleaning up (`Cleaners`, outside `early`): their first error is spent, and
their directory is not yet half made for good, so the second error needs to pay
for no more.

*BrowserProofs.*  `BrowserTypeCorrect`, `VerdictsTrue`, `NotFoundAlwaysTrue`,
`PicturesAgree`, `TemporaryAlwaysRetryable`, `ExecutionsMoveOn`. The inductive
invariant is, for each executor, what its page can show (`Honest`: only what the
source answers, the text from before the query, or, when `interim`, something
else, which `placeholder` remembers if it was a "no record"), what it read and
pictured, and which results go with which errors.  `OthersKept` reduces every
step to the executor that takes it. `ExecutionMovesOn` bounds every execution:
attempts are bounded by `BrowserTypeCorrect`, and stages and tabs are finite.

*PanelProofs.*  `FocusAlwaysFollowsField` and `OnlyReviewEverMisplaces`, for any
list of projects.  `PanelInv` says that the form's field and its focus go
together, also while the form is closed, and that the rows are a list of
projects; `Placed` says what a message that is not a review's end makes of rows
and cursor.

*ChecklistProofs.*  `ImportedAlwaysOnceInOrder`, and under `Exclusive`
`CountNeverAhead` and `CompletedAlwaysFinal`, for any table, names and sources.
`ImportInv` says of the loop over the titles that the column is the last title
among the cells that were seen, and of the loop over the rows that the names so
far are those due in the rows so far, in their order, and that all that was said
in these rows is among them.  That the next name gets the next number is a count
of the rows up to it (`NthFound`), so that no induction over the table is
needed. `ChecklistInv` says that a project's tasks are those of its names and
sources from the moment it is seeded, that who executes a task finds it running
or in need of review when it brings the result, since it is alone (`BusyOK`), so
that the count is of tasks that are still confirmed, and that once it was said
to be completed all of them are; with the import, all of the file's names are.

**Only model-checked:** liveness (`NoProjectStarves`, `StartedSettles`,
`StartingAgainSettles`, `ArchivingAgainArchives`, `SaveEnds`, `CreateEnds`,
`PanelFollows`), which rests on fairness and is out of the prover's reach.  Every
other property of the runs is a theorem, some under the assumptions named above.

## 6. What is not modelled, and the plan

* The watermark, the selectors and URLs of the sources, finding Chrome and a
  remote browser's address: image processing, data, and external programs.  A
  review with a remote browser is refused before it begins.  A source whose
  contract is broken does not occur in the table.
* `doctor`, `open`, logging and `main`: they print, start a file manager, write
  logs, and wire dependencies; nothing else reads what they leave.
* The terminal below the review's prompt: `Confirm` may come at any time, which
  covers a line that was typed before.  Raw mode and the goroutine that goes on
  reading are described in section 4.
* `View` and messages: layout and wording.
* A command is one thread: Ctrl-C is `Crash`.  A rename back from the archive that
  fails too (`root.go:470`) is not modelled.
* What a project's commands find when its directory came back to life under an
  early archive: `Workspace` says what is in it, the other modules begin with a
  project that is whole.
* What a file system keeps of a rename whose directory was not synced.

The order of the work, and what is left of it:

1. (done) the two stores, engine, commands and their composition; the abstract
   board; mutual exclusion, finality of results and the refinement as theorems;
2. (done) `Capture` with the abstract folder, `Workspace` and `BrowserRun`, with
   theorems; `Importer`, `Checklist` and `Panel`;
3. (done) the proofs about the whole system: the stores in it, its types, the
   slots, the archives and their markers, and what "done" means;
4. (done) the counts of what is left over and half made, and the theorems about
   `Panel` and `Checklist`;
5. (done) `Importer` as loops, and its theorem.
