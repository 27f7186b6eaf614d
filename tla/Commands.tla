------------------------------ MODULE Commands ------------------------------
(***************************************************************************)
(* The commands a user runs in a terminal (internal/cli/root.go) and       *)
(* worker.Review.  A command that gives up before it changed anything has  *)
(* no step here, so what Begin asks of the state is what the command       *)
(* checks first.  Every command resolves its project first, which fails    *)
(* once the directory is in _archive.                                      *)
(***************************************************************************)
EXTENDS Engine

CONSTANT Commands       \* those of {"start", "retry", "review", "archive"} in use

ASSUME CommandAssumption ==
    Commands \subseteq {"start", "retry", "review", "archive"}

UserPC == {"off",
           "enq_lock", "enq_check", "enqueue", "launch", "enq_done",
           "arc_lock", "arc_recheck", "arc_mark", "arc_unlock", "arc_move",
           "arc_drop", "arc_clear", "arc_abort",
           "rev_lock", "rev_check", "rev_list", "rev_run",
           "unlock_cmd"}

Begin(u, p, entry) ==
    /\ Step(u, "off", entry)
    /\ ~moved[p]
    /\ at' = [at EXCEPT ![u] = p]
    /\ UNCHANGED <<todo, idle, failing, patience>>

\* The command's process exits.
Exits(u) == Ended({u}) /\ UNCHANGED <<slots, faults>>

\* A step that only moves the control.
Goes(u, from, to) == Step(u, from, to) /\ StayingAt /\ StoresKept

\* The command gets the project's lock, or says so and exits.
TakesLock(u, from, to) ==
    \/ /\ Step(u, from, to)
       /\ ~moved[at[u]]
       /\ AcquireLock(at[u], u, Lease)
       /\ StayingAt /\ ProjectOnly
    \/ /\ pc[u] = from
       /\ ~LockOpen(at[u], u) \/ moved[at[u]]
       /\ Exits(u)

\* The lock is given back, the connection closed, and the process exits.
LeavesLock(u) ==
    /\ pc' = [pc EXCEPT ![u] = "off"]
    /\ at' = [at EXCEPT ![u] = NoOne]
    /\ todo' = [todo EXCEPT ![u] = {}]
    /\ failing' = failing \ {u}
    /\ locks' = LocksLeft({u}, {at[u]} \ {p \in Projects : moved[p]})
    /\ UNCHANGED <<idle, patience, tasks, shots, queueVars, fileVars, faults>>
-----------------------------------------------------------------------------
(* start, and retry, which resets the failures first without any lock *)

\* The model has finitely many processes: a command starts only when there
\* will be one left for it to launch.
Idle(P) == \A w \in P : pc[w] = "off"
Launching == {u \in Users : pc[u] \in {"enq_lock", "enq_check", "enqueue", "launch"}}
Capacity == Cardinality({P \in Processes : Idle(P)}) > Cardinality(Launching)

BeginStart(u, p) ==
    /\ "start" \in Commands
    /\ Capacity
    /\ Begin(u, p, "enq_lock") /\ StoresKept

BeginRetry(u, p) ==
    /\ "retry" \in Commands
    /\ Capacity
    /\ Failures(p) # {}
    /\ RetryFailures(p)
    /\ Begin(u, p, "enq_lock") /\ ProjectOnly

EnqueueLock(u)  == TakesLock(u, "enq_lock", "enq_check")

EnqueueCheck(u) == Goes(u, "enq_check", IF Archiving(at[u]) THEN "unlock_cmd" ELSE "enqueue")

EnqueueRow(u) ==
    /\ Step(u, "enqueue", "launch")
    /\ Enqueue(at[u])
    /\ StayingAt /\ QueueOnly

\* Mutated: the command comes back without having launched a worker.
LaunchNothing(u) == Goes(u, "launch", "enq_done")

\* The worker is launched before the deferred release of the lock.
Launch(u) ==
    \E P \in Processes :
        /\ pc[u] = "launch"
        /\ Launched(P)
        /\ pc' = [a \in Holders |-> CASE a = u -> "enq_done"
                                      [] a \in P -> "slot"
                                      [] OTHER -> pc[a]]
        /\ UNCHANGED <<at, todo, idle, failing>> /\ StoresKept

EnqueueDone(u) == pc[u] = "enq_done" /\ LeavesLock(u)
UnlockCommand(u) == pc[u] = "unlock_cmd" /\ LeavesLock(u)
-----------------------------------------------------------------------------
(* archive *)

\* Mutated: a project with a tombstone is taken for one being archived.
BeginArchiveUnmarked(u, p) ==
    /\ "archive" \in Commands
    /\ ~IsRunning(p)
    /\ ~Archiving(p)
    /\ Begin(u, p, "arc_lock") /\ StoresKept

BeginArchive(u, p) ==
    /\ "archive" \in Commands
    /\ ~IsRunning(p)
    /\ Begin(u, p, "arc_lock") /\ StoresKept

ArchiveLock(u) == TakesLock(u, "arc_lock", "arc_recheck")

ArchiveRecheck(u) ==
    Goes(u, "arc_recheck", IF IsRunning(at[u]) THEN "unlock_cmd" ELSE "arc_mark")

\* WriteFile fails when the directory is gone.
ArchiveMark(u) ==
    /\ Step(u, "arc_mark", IF moved[at[u]] THEN "unlock_cmd" ELSE "arc_unlock")
    /\ tombstone' = [tombstone EXCEPT ![at[u]] = @ \/ ~moved[at[u]]]
    /\ UNCHANGED moved /\ StayingAt /\ UNCHANGED <<queueVars, projectVars, faults>>

ArchiveUnlock(u) ==
    \/ /\ Step(u, "arc_unlock", "arc_move")
       /\ ~moved[at[u]]
       /\ ReleaseLock(at[u], u)
       /\ StayingAt /\ ProjectOnly
    \/ /\ Goes(u, "arc_unlock", "arc_abort")
       /\ moved[at[u]]

\* os.Rename; without the lock, which the directory takes with it.
ArchiveMove(u) ==
    /\ Step(u, "arc_move", IF moved[at[u]] THEN "arc_abort" ELSE "arc_drop")
    /\ moved' = [moved EXCEPT ![at[u]] = TRUE]
    /\ UNCHANGED tombstone /\ StayingAt /\ UNCHANGED <<queueVars, projectVars, faults>>

ArchiveDrop(u) ==
    /\ Step(u, "arc_drop", "arc_clear")
    /\ Remove(at[u])
    /\ StayingAt /\ QueueOnly

\* Mutated: an archive that failed leaves its tombstone.
ArchiveClearDone(u) ==
    /\ pc[u] \in {"arc_clear", "arc_abort"}
    /\ tombstone' = [tombstone EXCEPT ![at[u]] = @ /\ pc[u] = "arc_abort"]
    /\ pc' = [pc EXCEPT ![u] = "off"]
    /\ at' = [at EXCEPT ![u] = NoOne]
    /\ locks' = LocksLeft({u}, {})
    /\ UNCHANGED <<todo, idle, failing, patience, moved, tasks, shots, queueVars, faults>>

\* The tombstone goes: in the archive, or after a failure from the project's
\* own place, where there may be none by then.
ArchiveClear(u) ==
    /\ pc[u] \in {"arc_clear", "arc_abort"}
    /\ tombstone' = [tombstone EXCEPT
                        ![at[u]] = @ /\ pc[u] = "arc_abort" /\ moved[at[u]]]
    /\ pc' = [pc EXCEPT ![u] = "off"]
    /\ at' = [at EXCEPT ![u] = NoOne]
    /\ locks' = LocksLeft({u}, {})
    /\ UNCHANGED <<todo, idle, failing, patience, moved, tasks, shots, queueVars, faults>>
-----------------------------------------------------------------------------
(* review: a person at a visible browser, and the heartbeat that renews the
   lock meanwhile *)

NeedsReview(p) == {t \in Tasks : tasks[p][t].status = "needs_review"}

BeginReview(u, p) ==
    /\ "review" \in Commands
    /\ NeedsReview(p) # {}
    /\ Begin(u, p, "rev_lock") /\ StoresKept

ReviewLock(u)  == TakesLock(u, "rev_lock", "rev_check")

ReviewCheck(u) == Goes(u, "rev_check", IF Archiving(at[u]) THEN "unlock_cmd" ELSE "rev_list")

\* Mutated: every task that has no confirmed result is opened for review.
ReviewListAll(u) ==
    /\ Step(u, "rev_list", "rev_run")
    /\ todo' = [todo EXCEPT ![u] = {t \in Tasks : tasks[at[u]][t].status # "confirmed"}]
    /\ UNCHANGED <<at, idle, failing, patience>> /\ StoresKept

\* The list is read once; what changes afterwards is not seen.
ReviewList(u) ==
    /\ Step(u, "rev_list", "rev_run")
    /\ todo' = [todo EXCEPT ![u] = NeedsReview(at[u])]
    /\ UNCHANGED <<at, idle, failing, patience>> /\ StoresKept

\* One task in the list's order; a cancelled review may still get this far.
ReviewTask(u) ==
    \E t \in todo[u], r \in Results, lost \in BOOLEAN :
        /\ pc[u] = "rev_run"
        /\ \A other \in todo[u] : t =< other
        /\ ~moved[at[u]]
        /\ Complete(at[u], t, r, r = "confirmed", lost)
        /\ Dropped(lost)
        /\ pc' = [pc EXCEPT ![u] = IF u \in failing THEN "unlock_cmd" ELSE "rev_run"]
        /\ todo' = [todo EXCEPT ![u] = @ \ {t}]
        /\ UNCHANGED <<at, idle, failing, patience, queueVars, fileVars>>

ReviewOver(u) ==
    /\ Goes(u, "rev_run", "unlock_cmd")
    /\ u \in failing \/ todo[u] = {} \/ moved[at[u]]

\* renewProjectLock: a lock that was lost cancels the review.
Heartbeat(u) ==
    /\ pc[u] = "rev_run" /\ u \notin failing /\ ~moved[at[u]]
    /\ IF LockOpen(at[u], u)
       THEN AcquireLock(at[u], u, Lease) /\ UNCHANGED failing
       ELSE UNCHANGED projectVars /\ failing' = failing \cup {u}
    /\ UNCHANGED <<pc, at, todo, idle, patience>>
    /\ ProjectOnly
-----------------------------------------------------------------------------
\* A statement or file operation of a command fails.
CommandError(u) ==
    /\ faults > 0 /\ faults' = faults - 1
    /\ \/ /\ pc[u] \in {"enq_lock", "arc_lock", "rev_lock",
                       "arc_clear", "arc_abort", "enq_done", "unlock_cmd"}
          /\ Ended({u})
          /\ UNCHANGED slots
       \/ /\ pc[u] \in {"enqueue", "launch", "arc_recheck", "rev_list", "rev_run"}
          /\ pc' = [pc EXCEPT ![u] = "unlock_cmd"]
          /\ StayingAt /\ UNCHANGED <<queueVars, projectVars, fileVars>>
       \/ /\ pc[u] = "arc_mark"            \* before the file is created, or after
          /\ pc' = [pc EXCEPT ![u] = "unlock_cmd"]
          /\ \/ UNCHANGED tombstone
             \/ ~moved[at[u]] /\ tombstone' = [tombstone EXCEPT ![at[u]] = TRUE]
          /\ StayingAt /\ UNCHANGED <<queueVars, projectVars, moved>>
       \/ /\ pc[u] \in {"arc_unlock", "arc_move"}
          /\ pc' = [pc EXCEPT ![u] = "arc_abort"]
          /\ StayingAt /\ UNCHANGED <<queueVars, projectVars, fileVars>>
       \/ /\ pc[u] = "arc_drop"             \* the rename is taken back
          /\ pc' = [pc EXCEPT ![u] = "arc_abort"]
          /\ moved' = [moved EXCEPT ![at[u]] = FALSE]
          /\ StayingAt /\ UNCHANGED <<queueVars, projectVars, tombstone>>

CommandBegins(u) ==
    \E p \in Projects : \/ BeginStart(u, p)
                        \/ BeginRetry(u, p)
                        \/ BeginArchive(u, p)
                        \/ BeginReview(u, p)

CommandStep(u) ==
    \/ EnqueueLock(u)
    \/ EnqueueCheck(u)
    \/ EnqueueRow(u)
    \/ Launch(u)
    \/ EnqueueDone(u)
    \/ UnlockCommand(u)
    \/ ArchiveLock(u)
    \/ ArchiveRecheck(u)
    \/ ArchiveMark(u)
    \/ ArchiveUnlock(u)
    \/ ArchiveMove(u)
    \/ ArchiveDrop(u)
    \/ ArchiveClear(u)
    \/ ReviewLock(u)
    \/ ReviewCheck(u)
    \/ ReviewList(u)
    \/ ReviewTask(u)
    \/ ReviewOver(u)
=============================================================================
