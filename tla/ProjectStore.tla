---------------------------- MODULE ProjectStore ----------------------------
(***************************************************************************)
(* A project's state.db (internal/store/store.go, ProjectStore): the tasks *)
(* in the order ClaimNext takes them, the screenshots of each, and the     *)
(* lock named "project".  Each action is one call.  ClaimNext's recovery   *)
(* of expired leases and its transaction are one action, as ClaimProject's *)
(* two statements are in QueueStore.                                       *)
(*                                                                         *)
(* "confirmed" stands for both found and not_found, which no code here     *)
(* tells apart.  A screenshot is known by its place among its task's rows, *)
(* for its id grows with every insert; 0 is no screenshot.                 *)
(***************************************************************************)
EXTENDS Leases, Sequences

CONSTANTS
    NTasks,         \* tasks of a project, numbered by (subject's sequence, id)
    MaxShots        \* bound: screenshots of one task

ASSUME TaskAssumption == NTasks \in Nat /\ MaxShots \in Nat

VARIABLES
    tasks,          \* project -> task -> row
    shots,          \* project -> task -> its rows of screenshots, by id
    locks           \* project -> the row of its lock

projectVars == <<tasks, shots, locks>>

Tasks == 1 .. NTasks

TaskStatus == {"pending", "running", "confirmed",
               "needs_review", "retryable_error", "fatal_error"}

TaskRow == [status : TaskStatus, left : Left, shot : Nat, replaces : Nat]
ShotRow == [confirmed : BOOLEAN, replaces : Nat]

NewTask == [status |-> "pending", left |-> Expired, shot |-> 0, replaces |-> 0]

\* Right after Seed.
ProjectInit ==
    /\ tasks = [p \in Projects |-> [t \in Tasks |-> NewTask]]
    /\ shots = [p \in Projects |-> [t \in Tasks |-> <<>>]]
    /\ locks = [p \in Projects |-> Free]
-----------------------------------------------------------------------------
\* Mutated: nothing is recovered.
RecoveredNever(row) == row

\* RecoverExpiredLeases, on one row.
Recovered(row) == IF row.status = "running" /\ ~Live(row.left)
                  THEN [row EXCEPT !.status = "pending", !.left = Expired]
                  ELSE row

TasksRecovered(p) == [t \in Tasks |-> Recovered(tasks[p][t])]
Pending(p) == {t \in Tasks : TasksRecovered(p)[t].status = "pending"}

TaskClaimed(row) == [row EXCEPT !.status = "running", !.left = Lease]

\* The first pending task is running from now on.  The holder is not recorded.
ClaimNext(p, t) ==
    /\ t \in Pending(p)
    /\ \A u \in Pending(p) : t =< u
    /\ tasks' = [tasks EXCEPT ![p] =
                    [TasksRecovered(p) EXCEPT ![t] = TaskClaimed(TasksRecovered(p)[t])]]
    /\ UNCHANGED <<shots, locks>>

NothingPending(p) == Pending(p) = {}
-----------------------------------------------------------------------------
\* What execute reports of a task.
Results == {"confirmed", "needs_review", "retryable_error", "fatal_error"}

ConfirmedShots(p, t) == {i \in 1 .. Len(shots[p][t]) : shots[p][t][i].confirmed}

\* The screenshot that the SELECT finds confirmed, 0 for none.
Previous(p, t) ==
    IF ConfirmedShots(p, t) = {} THEN 0
    ELSE CHOOSE i \in ConfirmedShots(p, t) : \A j \in ConfirmedShots(p, t) : j =< i

\* The error of the SELECT is dropped: when it fails there is none to replace.
Replaced(p, t, lost) == IF lost THEN 0 ELSE Previous(p, t)

ShotDemoted(chain, i) == [j \in 1 .. Len(chain) |->
                            IF j = i THEN [chain[j] EXCEPT !.confirmed = FALSE] ELSE chain[j]]

ShotAdded(chain, i) == Append(ShotDemoted(chain, i), [confirmed |-> TRUE, replaces |-> i])

TaskSettled(row, status) == [row EXCEPT !.status = status, !.left = Expired]

TaskPictured(row, n, i) ==
    [row EXCEPT !.shot = n + 1, !.replaces = IF i = 0 THEN @ ELSE i]

\* Mutated: the screenshot that is replaced stays confirmed.
CompleteWithoutDemotion(p, t, status, pictured, lost) ==
    LET chain == shots[p][t]
        i     == Replaced(p, t, lost) IN
    /\ status = "confirmed" => pictured
    /\ lost => pictured
    /\ pictured => Len(chain) < MaxShots
    /\ tasks' = [tasks EXCEPT ![p][t] =
                    TaskSettled(IF pictured THEN TaskPictured(@, Len(chain), i) ELSE @, status)]
    /\ shots' = IF pictured THEN [shots EXCEPT ![p][t] =
                    Append(chain, [confirmed |-> TRUE, replaces |-> i])] ELSE shots
    /\ UNCHANGED locks

\* The transaction neither asks who runs the task nor whether it is running.
\* lost: the SELECT of the previous screenshot fails.  MaxShots bounds the model.
Complete(p, t, status, pictured, lost) ==
    LET chain == shots[p][t]
        i     == Replaced(p, t, lost) IN
    /\ status = "confirmed" => pictured
    /\ lost => pictured
    /\ pictured => Len(chain) < MaxShots
    /\ tasks' = [tasks EXCEPT ![p][t] =
                    TaskSettled(IF pictured THEN TaskPictured(@, Len(chain), i) ELSE @, status)]
    /\ shots' = IF pictured THEN [shots EXCEPT ![p][t] = ShotAdded(chain, i)] ELSE shots
    /\ UNCHANGED locks

Failures(p) == {t \in Tasks : tasks[p][t].status = "retryable_error"}

\* Mutated: the task gets the status a project would have.
TaskQueued(row) == [row EXCEPT !.status = "queued", !.left = Expired]

TaskReopened(row) == [row EXCEPT !.status = "pending", !.left = Expired]

\* Mutated: every failure is retried, fatal ones included.
RetryFailuresAll(p) ==
    /\ tasks' = [tasks EXCEPT ![p] = [t \in Tasks |->
                    IF @[t].status \in {"retryable_error", "fatal_error"}
                    THEN TaskReopened(@[t]) ELSE @[t]]]
    /\ UNCHANGED <<shots, locks>>

\* Mutated: whatever has no result yet is reset, also what is in flight.
RetryFailuresRunning(p) ==
    /\ tasks' = [tasks EXCEPT ![p] = [t \in Tasks |->
                    IF @[t].status \in {"retryable_error", "running"}
                    THEN TaskReopened(@[t]) ELSE @[t]]]
    /\ UNCHANGED <<shots, locks>>

\* Needs no lock.
RetryFailures(p) ==
    /\ tasks' = [tasks EXCEPT ![p] = [t \in Tasks |->
                    IF t \in Failures(p) THEN TaskReopened(@[t]) ELSE @[t]]]
    /\ UNCHANGED <<shots, locks>>
-----------------------------------------------------------------------------
LockOpen(p, h) == Takeable(locks[p]) \/ locks[p].holder = h

LockTaken(p, h, lease) == locks' = [locks EXCEPT ![p] = [holder |-> h, left |-> lease]]

\* Mutated: the upsert without its WHERE.
AcquireLockAlways(p, h, lease) ==
    /\ LockTaken(p, h, lease)
    /\ UNCHANGED <<tasks, shots>>

\* A lock is taken when there is none, when it expired, or again by its holder.
AcquireLock(p, h, lease) ==
    /\ LockOpen(p, h)
    /\ LockTaken(p, h, lease)
    /\ UNCHANGED <<tasks, shots>>

ReleaseLock(p, h) ==
    /\ locks' = IF locks[p].holder = h THEN [locks EXCEPT ![p] = Free] ELSE locks
    /\ UNCHANGED <<tasks, shots>>
-----------------------------------------------------------------------------
\* A second passes.
ProjectTick ==
    /\ tasks' = [p \in Projects |-> [t \in Tasks |->
                    [tasks[p][t] EXCEPT !.left = Aged(@)]]]
    /\ locks' = [p \in Projects |-> AgedRow(locks[p])]
    /\ UNCHANGED shots

\* Holders S end: they gave the locks of R back, and left the others.
LocksLeft(S, R) == [p \in Projects |-> IF p \in R /\ locks[p].holder \in S THEN Free
                                       ELSE Orphaned(locks[p], S)]

ProjectDeparture(S, R) ==
    /\ locks' = LocksLeft(S, R)
    /\ UNCHANGED <<tasks, shots>>

\* Any process may make any call at any time.
ProjectNext ==
    \/ \E p \in Projects, t \in Tasks :
          \/ ClaimNext(p, t)
          \/ \E r \in Results, pictured, lost \in BOOLEAN :
                Complete(p, t, r, pictured, lost)
    \/ \E p \in Projects :
          \/ RetryFailures(p)
          \/ \E h \in Holders : \/ \E lease \in 1 .. Lease : AcquireLock(p, h, lease)
                                \/ ReleaseLock(p, h)
    \/ \E S \in SUBSET Holders, R \in SUBSET Projects : ProjectDeparture(S, R)
    \/ ProjectTick

ProjectSpec == ProjectInit /\ [][ProjectNext]_projectVars
-----------------------------------------------------------------------------
\* Every row is well formed.
ProjectTypeOK ==
    /\ tasks \in [Projects -> [Tasks -> TaskRow]]
    /\ shots \in [Projects -> [Tasks -> Seq(ShotRow)]]
    /\ locks \in [Projects -> LockRow]

\* However often and in whatever order Complete is called for a task, also
\* when it loses sight of what it replaces: the newest screenshot is confirmed
\* and is the task's own; one before it is demoted exactly by being replaced,
\* and only by its successor; and the task names the last that was replaced.
\* So two screenshots are confirmed only where a SELECT failed (store.go:236).
Chained(chain, last) ==
    /\ \A i \in 1 .. Len(chain) :
          /\ chain[i].replaces \in {0, i - 1}
          /\ chain[i].confirmed <=> i = Len(chain) \/ chain[i + 1].replaces = 0
          /\ i > last + 1 => chain[i].replaces = 0
    /\ last # 0 => last < Len(chain) /\ chain[last + 1].replaces = last

ChainOf(p, t) ==
    /\ Chained(shots[p][t], tasks[p][t].replaces)
    /\ tasks[p][t].shot = Len(shots[p][t])

ScreenshotsChained == \A p \in Projects, t \in Tasks : ChainOf(p, t)

\* A confirmed result always has a screenshot to show for it, also after the
\* task failed, was retried and confirmed again (Complete's check, and its
\* CASE that keeps the path when no new one comes).
ConfirmedPictured ==
    \A p \in Projects, t \in Tasks :
        tasks[p][t].status = "confirmed" => tasks[p][t].shot # 0

\* A task in flight under a live lease is not claimed a second time: recovery
\* takes a task only from a claimer whose lease is over.
InFlightNotReclaimed ==
    [][\A p \in Projects, t \in Tasks :
          /\ tasks[p][t].status = "running"
          /\ Live(tasks[p][t].left)
          /\ tasks'[p][t].status = "running"
          => tasks'[p][t].left =< tasks[p][t].left]_projectVars

\* What was confirmed, needs a person, or failed for good never goes back to
\* the automatic queue; only retryable errors and expired runs do
\* (RetryFailures' comment).
OnlyRetryableReopens ==
    [][\A p \in Projects, t \in Tasks :
          tasks[p][t].status \in {"confirmed", "needs_review", "fatal_error"}
          => tasks'[p][t].status \notin {"pending", "running"}]_projectVars

\* A project's lock under a live lease never passes from one holder to another
\* in one call.
LocksNotStolen ==
    [][\A p \in Projects :
          /\ locks[p].holder # NoOne
          /\ Live(locks[p].left)
          /\ locks'[p].holder # locks[p].holder
          => locks'[p].holder \in {NoOne, Departed}]_projectVars
=============================================================================
