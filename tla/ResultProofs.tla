---------------------------- MODULE ResultProofs ----------------------------
(***************************************************************************)
(* The results of tasks, in the whole system: what the lock's exclusion    *)
(* (ScoutProofs) and the stores' calls (StoreProofs) give together.        *)
(* Complete asks neither who runs the task nor whether it runs, so that a  *)
(* result is final only because whoever calls it works on a task that is   *)
(* open, and nobody else does.  At the end, that a project says done only  *)
(* when nothing of it is left to execute.                                  *)
(***************************************************************************)
EXTENDS ScoutProofs

\* Where results are brought from.
AtWork == {"execute", "rev_run"}

\* A worker executes one task, which is running; what a review has left to do
\* needs review.
WorkOf(a) ==
    /\ pc[a] = "execute" =>
          \E t \in Tasks : todo[a] = {t} /\ tasks[at[a]][t].status = "running"
    /\ pc[a] = "rev_run" =>
          \A t \in todo[a] : tasks[at[a]][t].status = "needs_review"

WorkOK ==
    /\ todo \in [Holders -> SUBSET Tasks]
    /\ \A a \in Holders : WorkOf(a)

\* The inductive invariant of the system.
SystemInv == LockInv /\ ChainedOK /\ WorkOK
-----------------------------------------------------------------------------
(* What the steps of the system are to the tasks *)

\* A step of S that no task sees, and after which none of S is at work.
Quiet(S) ==
    /\ UNCHANGED <<tasks, shots>>
    /\ todo' \in [Holders -> SUBSET Tasks]
    /\ \A a \in S : pc'[a] \notin AtWork
    /\ \A a \in Holders \ S : pc'[a] = pc[a] /\ at'[a] = at[a] /\ todo'[a] = todo[a]

\* A worker claims a task.
Claims(a, t) ==
    /\ pc[a] = "next"
    /\ pc' = [pc EXCEPT ![a] = "execute"]
    /\ at' = at
    /\ todo' = [todo EXCEPT ![a] = {t}]
    /\ ClaimNext(at[a], t)

\* Whoever is at work brings a result, and is done or goes on with the rest.
Settles(a, t, r) ==
    /\ pc[a] \in AtWork
    /\ t \in todo[a]
    /\ \E to \in {"unlock_turn", "unlock_cmd", "rev_run"} :
          /\ to = "rev_run" => pc[a] = "rev_run"
          /\ pc' = [pc EXCEPT ![a] = to]
    /\ at' = at
    /\ todo' = [todo EXCEPT ![a] = @ \ {t}]
    /\ \E lost \in BOOLEAN : Complete(at[a], t, r, r = "confirmed", lost)

\* Somebody outside resets the failures of a project.
Retries(a, p) ==
    /\ "retry" \in Commands
    /\ pc[a] = "off"
    /\ pc' = [pc EXCEPT ![a] = "enq_lock"]
    /\ at' = [at EXCEPT ![a] = p]
    /\ todo' = todo
    /\ RetryFailures(p)

\* A review looks for what needs it.
Lists(a) ==
    /\ pc[a] = "rev_list"
    /\ pc' = [pc EXCEPT ![a] = "rev_run"]
    /\ at' = at
    /\ todo' = [todo EXCEPT ![a] = NeedsReview(at[a])]
    /\ UNCHANGED <<tasks, shots>>

\* A second.
Passes == UNCHANGED <<pc, at, todo>> /\ ProjectTick

TaskSteps ==
    \/ \E S \in SUBSET Holders : Quiet(S)
    \/ \E a \in Holders, t \in Tasks : Claims(a, t)
    \/ \E a \in Holders, t \in Tasks, r \in Results : Settles(a, t, r)
    \/ \E a \in Holders, p \in Projects : Retries(a, p)
    \/ \E a \in Holders : Lists(a)
    \/ Passes

\* An actor that goes on, outside or with nothing to bring.
LEMMA MovesQuietly ==
    ASSUME SystemInv, NEW a \in Holders, NEW to, to \notin AtWork,
           pc' = [pc EXCEPT ![a] = to],
           at' = at \/ \E x : at' = [at EXCEPT ![a] = x],
           todo' = todo \/ todo' = [todo EXCEPT ![a] = {}],
           UNCHANGED <<tasks, shots>>
    PROVE  TaskSteps
<1>1. todo' \in [Holders -> SUBSET Tasks]
  BY DEF SystemInv, WorkOK
<1>2. pc'[a] = to
  BY DEF SystemInv, LockInv, PlaceOK
<1>3. \A b \in Holders \ {a} : pc'[b] = pc[b] /\ at'[b] = at[b] /\ todo'[b] = todo[b]
  BY DEF SystemInv, LockInv, PlaceOK, WorkOK
<1>4. Quiet({a})
  BY <1>1, <1>2, <1>3 DEF Quiet
<1>5. {a} \in SUBSET Holders
  OBVIOUS
<1>6. QED  BY <1>4, <1>5 DEF TaskSteps

\* Actors that are gone.
LEMMA EndsQuietly ==
    ASSUME SystemInv, NEW S \in SUBSET Holders, Ended(S)
    PROVE  TaskSteps
<1>1. todo' \in [Holders -> SUBSET Tasks]
  BY DEF Ended, SystemInv, WorkOK
<1>2. \A a \in S : pc'[a] \notin AtWork
  BY DEF Ended, AtWork
<1>3. Quiet(S)
  BY <1>1, <1>2 DEF Ended, Quiet
<1>4. QED  BY <1>3 DEF TaskSteps

\* A turn, call by call.
LEMMA WorkerTaskSteps ==
    ASSUME SystemInv, NEW w \in Workers, WorkerStep(w)
    PROVE  TaskSteps
<1>1. w \in Holders /\ {w} \in SUBSET Holders
  BY ActorAssumption
<1> USE DEF Step, StayingAt, QueueOnly, ProjectOnly, StoresKept, projectVars, AtWork
<1>2. ASSUME AwaitSlot(w) \/ Quit(w) PROVE TaskSteps
  <2>1. CASE Ended({w}) \/ Ended(Leaving(w))
    <3>1. Leaving(w) \in SUBSET Holders
      BY <1>1, ProcessOfType DEF Leaving
    <3>2. QED  BY <1>1, <2>1, <3>1, EndsQuietly
  <2>2. CASE /\ pc' = [pc EXCEPT ![w] = "renew"]
             /\ UNCHANGED <<at, todo, tasks, shots>>
    BY <1>1, <2>2, MovesQuietly
  <2>3. QED  BY <1>2, <2>1, <2>2 DEF AwaitSlot, Quit
<1>3. ASSUME \/ RenewSlot(w) \/ Claim(w) \/ Resolve(w) \/ Gone(w) \/ OpenStore(w)
             \/ LockProject(w) \/ CheckArchiving(w) \/ CheckActive(w)
      PROVE  TaskSteps
  <2>1. PICK to \in {"claim", "quit", "resolve", "renew", "gone", "open", "lock", "remove",
                     "fail", "check", "requeue", "unlock_archived", "active", "next",
                     "unlock_cancelled"} :
            /\ pc' = [pc EXCEPT ![w] = to]
            /\ at' = at \/ \E x : at' = [at EXCEPT ![w] = x]
            /\ UNCHANGED <<todo, tasks, shots>>
    BY <1>3 DEF RenewSlot, Claim, Resolve, Gone, OpenStore, LockProject, AcquireLock,
                CheckArchiving, CheckActive
  <2>2. QED  BY <1>1, <2>1, MovesQuietly
<1>4. ASSUME \/ FailProject(w) \/ RemoveProject(w) \/ FinishProject(w) \/ RequeueProject(w)
             \/ Unlock(w)
      PROVE  TaskSteps
  <2>1. PICK to \in {"quit", "renew", "remove", "finish", "requeue"} :
            /\ pc' = [pc EXCEPT ![w] = to]
            /\ at' = at \/ \E x : at' = [at EXCEPT ![w] = x]
            /\ UNCHANGED <<todo, tasks, shots>>
    BY <1>4 DEF FailProject, RemoveProject, FinishProject, RequeueProject, TurnOver,
                Unlock, AfterUnlock, ReleaseLock
  <2>2. QED  BY <1>1, <2>1, MovesQuietly
<1>5. ASSUME NextTask(w) PROVE TaskSteps
  <2>1. CASE Step(w, "next", "unlock_done") /\ UNCHANGED <<at, todo, tasks, shots>>
    BY <1>1, <2>1, MovesQuietly
  <2>2. CASE \E t \in Tasks : Claims(w, t)
    BY <1>1, <2>2 DEF TaskSteps
  <2>3. QED  BY <1>5, <2>1, <2>2 DEF NextTask, Claims
<1>6. ASSUME Execute(w) PROVE TaskSteps
  <2>1. PICK t \in todo[w], r \in Results, lost \in BOOLEAN :
            /\ Step(w, "execute", "unlock_turn")
            /\ Complete(at[w], t, r, r = "confirmed", lost)
            /\ todo' = [todo EXCEPT ![w] = {}]
            /\ at' = at
    BY <1>6 DEF Execute
  <2>2. t \in Tasks /\ todo[w] = {t}
    BY <1>1, <2>1 DEF SystemInv, WorkOK, WorkOf
  <2>3. todo' = [todo EXCEPT ![w] = @ \ {t}]
    BY <2>1, <2>2
  <2>4. Settles(w, t, r)
    BY <2>1, <2>3 DEF Settles
  <2>5. QED  BY <1>1, <2>1, <2>2, <2>4 DEF TaskSteps
<1>7. QED
  BY WorkerStep(w), <1>2, <1>3, <1>4, <1>5, <1>6 DEF WorkerStep

\* A statement that fails.
LEMMA StoreErrorTaskSteps ==
    ASSUME SystemInv, NEW w \in Workers, StoreError(w)
    PROVE  TaskSteps
<1>1. w \in Holders
  BY ActorAssumption
<1>2. CASE \E to \in {"quit", "gone", "fail", "unlock_cancelled", "unlock_turn"} :
             /\ pc' = [pc EXCEPT ![w] = to]
             /\ at' = at \/ at' = [at EXCEPT ![w] = NoOne]
             /\ todo' = todo \/ todo' = [todo EXCEPT ![w] = {}]
             /\ UNCHANGED <<tasks, shots>>
  BY <1>1, <1>2, MovesQuietly DEF AtWork
<1>3. CASE Ended(ProcessOf(w))
  BY <1>3, ProcessOfType, EndsQuietly
<1>4. QED  BY <1>2, <1>3 DEF StoreError, Step, projectVars

\* A command, call by call.
LEMMA CommandTaskSteps ==
    ASSUME SystemInv, NEW u \in Users,
           CommandBegins(u) \/ CommandStep(u) \/ Heartbeat(u) \/ CommandError(u)
    PROVE  TaskSteps
<1>1. u \in Holders /\ {u} \in SUBSET Holders
  BY ActorAssumption
<1> USE DEF Step, Goes, Exits, Begin, StayingAt, QueueOnly, ProjectOnly, StoresKept,
            projectVars, AtWork
<1>2. ASSUME CommandBegins(u) PROVE TaskSteps
  <2>1. CASE \E p \in Projects : BeginRetry(u, p)
    <3>1. \E p \in Projects : Retries(u, p)
      BY <2>1 DEF BeginRetry, Retries
    <3>2. QED  BY <1>1, <3>1 DEF TaskSteps
  <2>2. CASE \E p \in Projects : BeginStart(u, p) \/ BeginArchive(u, p) \/ BeginReview(u, p)
    <3>1. PICK entry \in {"enq_lock", "arc_lock", "rev_lock"} :
              /\ pc' = [pc EXCEPT ![u] = entry]
              /\ \E x : at' = [at EXCEPT ![u] = x]
              /\ UNCHANGED <<todo, tasks, shots>>
      BY <2>2 DEF BeginStart, BeginArchive, BeginReview
    <3>2. QED  BY <1>1, <3>1, MovesQuietly
  <2>3. QED  BY <1>2, <2>1, <2>2 DEF CommandBegins
<1>3. ASSUME EnqueueLock(u) \/ ArchiveLock(u) \/ ReviewLock(u) PROVE TaskSteps
  <2>1. CASE Ended({u})
    BY <1>1, <2>1, EndsQuietly
  <2>2. CASE \E to \in {"enq_check", "arc_recheck", "rev_check"} :
               pc' = [pc EXCEPT ![u] = to] /\ UNCHANGED <<at, todo, tasks, shots>>
    BY <1>1, <2>2, MovesQuietly
  <2>3. QED
    BY <1>3, <2>1, <2>2 DEF EnqueueLock, ArchiveLock, ReviewLock, TakesLock, AcquireLock
<1>4. ASSUME \/ EnqueueCheck(u) \/ EnqueueRow(u) \/ ArchiveRecheck(u) \/ ArchiveMark(u)
             \/ ArchiveUnlock(u) \/ ArchiveMove(u) \/ ArchiveDrop(u) \/ ReviewCheck(u)
             \/ ReviewOver(u)
      PROVE  TaskSteps
  <2>1. PICK to \in {"unlock_cmd", "enqueue", "launch", "arc_mark", "arc_unlock", "arc_move",
                     "arc_abort", "arc_drop", "arc_clear", "rev_list"} :
            pc' = [pc EXCEPT ![u] = to] /\ UNCHANGED <<at, todo, tasks, shots>>
    BY <1>4 DEF EnqueueCheck, EnqueueRow, ArchiveRecheck, ArchiveMark, ArchiveUnlock,
                ReleaseLock, ArchiveMove, ArchiveDrop, ReviewCheck, ReviewOver
  <2>2. QED  BY <1>1, <2>1, MovesQuietly
<1>5. ASSUME EnqueueDone(u) \/ UnlockCommand(u) \/ ArchiveClear(u) PROVE TaskSteps
  <2>1. /\ pc' = [pc EXCEPT ![u] = "off"]
        /\ at' = [at EXCEPT ![u] = NoOne]
        /\ todo' = todo \/ todo' = [todo EXCEPT ![u] = {}]
        /\ UNCHANGED <<tasks, shots>>
    BY <1>5 DEF EnqueueDone, UnlockCommand, LeavesLock, ArchiveClear
  <2>2. QED  BY <1>1, <2>1, MovesQuietly
<1>6. ASSUME Launch(u) PROVE TaskSteps
  <2>1. PICK P \in Processes :
            /\ pc' = [a \in Holders |-> CASE a = u -> "enq_done"
                                          [] a \in P -> "slot"
                                          [] OTHER -> pc[a]]
            /\ UNCHANGED <<at, todo, tasks, shots>>
    BY <1>6 DEF Launch
  <2>2. P \cup {u} \in SUBSET Holders
    BY ActorAssumption DEF Workers
  <2>3. \A a \in P \cup {u} : pc'[a] \notin AtWork
    BY <2>1, <2>2
  <2>4. \A a \in Holders \ (P \cup {u}) : pc'[a] = pc[a]
    BY <2>1
  <2>5. Quiet(P \cup {u})
    BY <2>1, <2>3, <2>4 DEF Quiet, SystemInv, WorkOK
  <2>6. QED  BY <2>2, <2>5 DEF TaskSteps
<1>7. ASSUME ReviewList(u) PROVE TaskSteps
  <2>1. Lists(u)
    BY <1>7 DEF ReviewList, Lists
  <2>2. QED  BY <1>1, <2>1 DEF TaskSteps
<1>8. ASSUME ReviewTask(u) PROVE TaskSteps
  <2>1. PICK t \in todo[u], r \in Results, lost \in BOOLEAN :
            /\ pc[u] = "rev_run"
            /\ Complete(at[u], t, r, r = "confirmed", lost)
            /\ pc' = [pc EXCEPT ![u] = IF u \in failing THEN "unlock_cmd" ELSE "rev_run"]
            /\ todo' = [todo EXCEPT ![u] = @ \ {t}]
            /\ at' = at
    BY <1>8 DEF ReviewTask
  <2>2. t \in Tasks
    BY <1>1 DEF SystemInv, WorkOK
  <2>3. Settles(u, t, r)
    BY <2>1 DEF Settles
  <2>4. QED  BY <1>1, <2>2, <2>3 DEF TaskSteps
<1>9. ASSUME Heartbeat(u) PROVE TaskSteps
  <2>1. UNCHANGED <<pc, at, todo, tasks, shots>>
    BY <1>9 DEF Heartbeat, AcquireLock
  <2>2. Quiet({})
    BY <2>1 DEF Quiet, SystemInv, WorkOK
  <2>3. QED  BY <2>2 DEF TaskSteps
<1>10. ASSUME CommandError(u) PROVE TaskSteps
  <2>1. CASE Ended({u})
    BY <1>1, <2>1, EndsQuietly
  <2>2. CASE \E to \in {"unlock_cmd", "arc_abort"} :
               pc' = [pc EXCEPT ![u] = to] /\ UNCHANGED <<at, todo, tasks, shots>>
    BY <1>1, <2>2, MovesQuietly
  <2>3. QED  BY <1>10, <2>1, <2>2 DEF CommandError
<1>11. QED
  BY <1>2, <1>3, <1>4, <1>5, <1>6, <1>7, <1>8, <1>9, <1>10 DEF CommandStep

\* Every step of the system is one of them.
LEMMA EveryTaskStep ==
    ASSUME SystemInv, [Next]_allVars
    PROVE  TaskSteps
<1>1. ASSUME NEW w \in Workers, WorkerStep(w) \/ StoreError(w) PROVE TaskSteps
  BY <1>1, WorkerTaskSteps, StoreErrorTaskSteps
<1>2. ASSUME NEW u \in Users,
             CommandBegins(u) \/ CommandStep(u) \/ Heartbeat(u) \/ CommandError(u)
      PROVE  TaskSteps
  BY <1>2, CommandTaskSteps
<1>3. CASE Crash
  <2>1. PICK S \in SUBSET Holders : Ended(S)
    BY <1>3, ActorAssumption DEF Crash, Workers
  <2>2. QED  BY <2>1, EndsQuietly
<1>4. CASE Tick
  BY <1>4 DEF Tick, TaskSteps, Passes
<1>5. CASE UNCHANGED allVars
  <2>1. Quiet({})
    BY <1>5 DEF Quiet, allVars, vars, actorVars, projectVars, SystemInv, WorkOK
  <2>2. QED  BY <2>1 DEF TaskSteps
<1>6. QED  BY <1>1, <1>2, <1>3, <1>4, <1>5 DEF Next
-----------------------------------------------------------------------------
(* The invariant *)

\* Whoever does not move works on, if what it works on stays as it is.
LEMMA WorkKept ==
    ASSUME SystemInv, NEW b \in Holders,
           pc'[b] = pc[b], at'[b] = at[b], todo'[b] = todo[b],
           pc[b] \in AtWork =>
              \A t \in todo[b] :
                 tasks[at[b]][t].status \in {"running", "needs_review"}
                 => tasks'[at[b]][t].status = tasks[at[b]][t].status
    PROVE  WorkOf(b)'
BY DEF SystemInv, WorkOK, WorkOf, AtWork

\* Nobody else is at work where somebody is inside.
LEMMA AloneAtWork ==
    ASSUME SystemInv, NEW a \in Holders, NEW b \in Holders,
           Inside(a), pc[b] \in AtWork, a # b
    PROVE  at[b] \in Projects \ {at[a]}
<1>1. Inside(b)
  BY DEF AtWork, Inside, InsidePC
<1>2. at[b] \in Projects
  BY <1>1, InsideSomewhere DEF SystemInv, LockInv
<1>3. at[b] # at[a]
  BY <1>1 DEF SystemInv, LockInv, LockHeld
<1>4. QED  BY <1>2, <1>3

\* So a step inside, at the tasks of one's own project, disturbs nobody.
LEMMA InsideStepKeepsWork ==
    ASSUME SystemInv, NEW a \in Holders, Inside(a),
           todo' \in [Holders -> SUBSET Tasks],
           \A b \in Holders \ {a} : pc'[b] = pc[b] /\ at'[b] = at[b] /\ todo'[b] = todo[b],
           \A q \in Projects \ {at[a]} : tasks'[q] = tasks[q],
           WorkOf(a)'
    PROVE  WorkOK'
<1>1. ASSUME NEW b \in Holders \ {a} PROVE WorkOf(b)'
  BY <1>1, AloneAtWork, WorkKept
<1>2. QED  BY <1>1 DEF WorkOK

\* A quiet step.
LEMMA QuietKeepsInv ==
    ASSUME SystemInv, PlaceOK', NEW S \in SUBSET Holders, Quiet(S)
    PROVE  ChainedOK' /\ WorkOK'
<1>1. ChainedOK'
  BY LockCallsChained DEF Quiet, SystemInv, PlaceOK
<1>2. ASSUME NEW b \in Holders PROVE WorkOf(b)'
  <2>1. CASE b \in S
    BY <2>1 DEF Quiet, WorkOf, AtWork
  <2>2. CASE b \notin S
    BY <2>2, WorkKept DEF Quiet
  <2>3. QED  BY <2>1, <2>2
<1>3. WorkOK'
  BY <1>2 DEF WorkOK, Quiet
<1>4. QED  BY <1>1, <1>3

\* A claim.
LEMMA ClaimKeepsInv ==
    ASSUME SystemInv, NEW a \in Holders, NEW t \in Tasks, Claims(a, t)
    PROVE  ChainedOK' /\ WorkOK' /\ at[a] \in Projects
<1>1. Inside(a) /\ at[a] \in Projects
  BY InsideSomewhere DEF Claims, Inside, InsidePC, SystemInv, LockInv
<1>2. ChainedOK'
  BY <1>1, ClaimNextChained DEF Claims, SystemInv
<1>3. /\ todo' \in [Holders -> SUBSET Tasks]
      /\ \A b \in Holders \ {a} : pc'[b] = pc[b] /\ at'[b] = at[b] /\ todo'[b] = todo[b]
      /\ pc'[a] = "execute" /\ at'[a] = at[a] /\ todo'[a] = {t}
  BY DEF Claims, SystemInv, LockInv, PlaceOK, WorkOK
<1>4. \A q \in Projects \ {at[a]} : tasks'[q] = tasks[q]
  BY DEF Claims, ClaimNext, SystemInv, ChainedOK, ProjectTypeOK
<1>5. tasks'[at[a]][t].status = "running"
  <2>1. tasks[at[a]][t] \in TaskRow
    BY <1>1, RowTypes DEF SystemInv, ChainedOK
  <2>2. tasks'[at[a]][t] = TaskClaimed(Recovered(tasks[at[a]][t]))
    BY <1>1 DEF Claims, ClaimNext, TasksRecovered, SystemInv, ChainedOK, ProjectTypeOK
  <2>3. Recovered(tasks[at[a]][t]) \in TaskRow
    BY <2>1, TaskRowTypes
  <2>4. QED  BY <2>2, <2>3 DEF TaskClaimed, TaskRow
<1>6. WorkOf(a)'
  BY <1>3, <1>5 DEF WorkOf
<1>7. WorkOK'
  BY <1>1, <1>3, <1>4, <1>6, InsideStepKeepsWork
<1>8. QED  BY <1>1, <1>2, <1>7

\* What a result is brought of: a task that is open, or needs review.
LEMMA SettledWasOpen ==
    ASSUME SystemInv, NEW a \in Holders, NEW t \in Tasks, NEW r \in Results,
           Settles(a, t, r)
    PROVE  /\ Inside(a) /\ at[a] \in Projects
           /\ tasks[at[a]][t].status \in {"running", "needs_review"}
<1>1. Inside(a) /\ at[a] \in Projects
  BY InsideSomewhere DEF Settles, AtWork, Inside, InsidePC, SystemInv, LockInv
<1>2. tasks[at[a]][t].status \in {"running", "needs_review"}
  BY DEF Settles, AtWork, SystemInv, WorkOK, WorkOf
<1>3. QED  BY <1>1, <1>2

\* A result.
LEMMA SettleKeepsInv ==
    ASSUME SystemInv, NEW a \in Holders, NEW t \in Tasks, NEW r \in Results,
           Settles(a, t, r)
    PROVE  ChainedOK' /\ WorkOK'
<1>1. Inside(a) /\ at[a] \in Projects
  BY SettledWasOpen
<1>2. ChainedOK'
  <2>1. PICK lost \in BOOLEAN : Complete(at[a], t, r, r = "confirmed", lost)
    BY DEF Settles
  <2>2. QED  BY <1>1, <2>1, CompleteChained DEF SystemInv
<1>3. /\ todo' \in [Holders -> SUBSET Tasks]
      /\ \A b \in Holders \ {a} : pc'[b] = pc[b] /\ at'[b] = at[b] /\ todo'[b] = todo[b]
      /\ at'[a] = at[a] /\ todo'[a] = todo[a] \ {t}
      /\ pc'[a] \in {"unlock_turn", "unlock_cmd", "rev_run"}
      /\ pc'[a] = "rev_run" => pc[a] = "rev_run"
  BY DEF Settles, SystemInv, LockInv, PlaceOK, WorkOK
<1>4. /\ \A q \in Projects \ {at[a]} : tasks'[q] = tasks[q]
      /\ \A s \in Tasks \ {t} : tasks'[at[a]][s] = tasks[at[a]][s]
  BY <1>1 DEF Settles, Complete, SystemInv, ChainedOK, ProjectTypeOK
<1>5. WorkOf(a)'
  BY <1>3, <1>4 DEF SystemInv, WorkOK, WorkOf
<1>6. WorkOK'
  BY <1>1, <1>3, <1>4, <1>5, InsideStepKeepsWork
<1>7. QED  BY <1>2, <1>6

\* A retry, which no lock keeps apart from those at work.
LEMMA RetryKeepsInv ==
    ASSUME SystemInv, NEW a \in Holders, NEW p \in Projects, Retries(a, p)
    PROVE  ChainedOK' /\ WorkOK'
<1>1. ChainedOK'
  BY RetryFailuresChained DEF Retries, SystemInv
<1>2. /\ pc'[a] = "enq_lock" /\ todo' = todo
      /\ \A b \in Holders \ {a} : pc'[b] = pc[b] /\ at'[b] = at[b]
  BY DEF Retries, SystemInv, LockInv, PlaceOK
<1>3. ASSUME NEW b \in Holders \ {a}, pc[b] \in AtWork, NEW t \in todo[b],
             tasks[at[b]][t].status \in {"running", "needs_review"}
      PROVE  tasks'[at[b]][t] = tasks[at[b]][t]
  <2>1. at[b] \in Projects
    BY <1>3, InsideSomewhere DEF AtWork, Inside, InsidePC, SystemInv, LockInv
  <2>2. t \in Tasks
    BY <1>3 DEF SystemInv, WorkOK
  <2>3. QED  BY <1>3, <2>1, <2>2, RetryEffect DEF Retries, SystemInv, ChainedOK
<1>4. ASSUME NEW b \in Holders PROVE WorkOf(b)'
  <2>1. CASE b = a
    BY <1>2, <2>1 DEF WorkOf
  <2>2. CASE b # a
    BY <1>2, <1>3, <2>2, WorkKept
  <2>3. QED  BY <2>1, <2>2
<1>5. WorkOK'
  BY <1>2, <1>4 DEF WorkOK, SystemInv
<1>6. QED  BY <1>1, <1>5

\* A review's list.
LEMMA ListKeepsInv ==
    ASSUME SystemInv, PlaceOK', NEW a \in Holders, Lists(a)
    PROVE  ChainedOK' /\ WorkOK'
<1>1. ChainedOK'
  BY LockCallsChained DEF Lists, SystemInv, PlaceOK
<1>2. NeedsReview(at[a]) \in SUBSET Tasks
  BY DEF NeedsReview
<1>3. /\ todo' \in [Holders -> SUBSET Tasks]
      /\ \A b \in Holders \ {a} : pc'[b] = pc[b] /\ at'[b] = at[b] /\ todo'[b] = todo[b]
      /\ pc'[a] = "rev_run" /\ at'[a] = at[a] /\ todo'[a] = NeedsReview(at[a])
  BY <1>2 DEF Lists, SystemInv, LockInv, PlaceOK, WorkOK
<1>4. tasks' = tasks /\ Inside(a)
  BY DEF Lists, Inside, InsidePC
<1>5. WorkOf(a)'
  BY <1>3, <1>4 DEF WorkOf, NeedsReview
<1>6. WorkOK'
  BY <1>3, <1>4, <1>5, InsideStepKeepsWork
<1>7. QED  BY <1>1, <1>6

\* A second.
LEMMA PassingKeepsInv ==
    ASSUME SystemInv, Passes
    PROVE  ChainedOK' /\ WorkOK'
<1>1. ChainedOK'
  BY ProjectTickChained DEF Passes, SystemInv
<1>2. ASSUME NEW p \in Projects, NEW t \in Tasks
      PROVE  tasks'[p][t].status = tasks[p][t].status
  <2>1. tasks[p][t] \in TaskRow
    BY RowTypes DEF SystemInv, ChainedOK
  <2>2. tasks'[p][t] = [tasks[p][t] EXCEPT !.left = Aged(tasks[p][t].left)]
    BY DEF Passes, ProjectTick
  <2>3. QED  BY <2>1, <2>2 DEF TaskRow
<1>3. ASSUME NEW b \in Holders PROVE WorkOf(b)'
  <2>1. ASSUME pc[b] \in AtWork, NEW t \in todo[b]
        PROVE  tasks'[at[b]][t].status = tasks[at[b]][t].status
    <3>1. at[b] \in Projects
      BY <2>1, InsideSomewhere DEF AtWork, Inside, InsidePC, SystemInv, LockInv
    <3>2. t \in Tasks
      BY <2>1 DEF SystemInv, WorkOK
    <3>3. QED  BY <1>2, <3>1, <3>2
  <2>2. QED  BY <2>1, WorkKept DEF Passes
<1>4. WorkOK'
  BY <1>3 DEF WorkOK, Passes, SystemInv
<1>5. QED  BY <1>1, <1>4

\* A new project's tasks.
LEMMA SystemInvInit ==
    ASSUME Init PROVE SystemInv
<1>1. LockInv
  BY LockInvInit
<1>2. ChainedOK
  BY ProjectInitChained DEF Init
<1>3. WorkOK
  BY DEF Init, EngineInit, WorkOK, WorkOf
<1>4. QED  BY <1>1, <1>2, <1>3 DEF SystemInv

\* Every step.
LEMMA SystemInvStep ==
    ASSUME SystemInv, Timely, [Next]_allVars
    PROVE  SystemInv'
<1>1. LockInv' /\ PlaceOK'
  BY LockInvStep DEF SystemInv, LockInv
<1>2. ChainedOK' /\ WorkOK'
  BY <1>1, EveryTaskStep, QuietKeepsInv, ClaimKeepsInv, SettleKeepsInv, RetryKeepsInv,
     ListKeepsInv, PassingKeepsInv DEF TaskSteps
<1>3. QED  BY <1>1, <1>2 DEF SystemInv

\* The invariant of the system.
LEMMA SystemInvAlways ==
    ASSUME Timely PROVE Spec => []SystemInv
<1>1. Init => SystemInv
  BY SystemInvInit
<1>2. SystemInv /\ [Next]_allVars => SystemInv'
  BY SystemInvStep
<1>3. QED  BY <1>1, <1>2, PTL DEF Spec
-----------------------------------------------------------------------------
(* What a step does to the rows of the tasks *)

\* A row stays as the user sees it, or it is claimed, settled or reopened by
\* those who may.
RowStep(p, t) ==
    \/ /\ tasks'[p][t].status = tasks[p][t].status
       /\ tasks'[p][t].shot = tasks[p][t].shot
    \/ /\ tasks[p][t].status \in {"pending", "running"}
       /\ tasks'[p][t].status \in {"pending", "running"}

\* A step that brings no result and retries nothing leaves every row so.
LEMMA UnsettlingStep ==
    ASSUME SystemInv, NEW p \in Projects, NEW t \in Tasks,
           \/ tasks' = tasks
           \/ \E a \in Holders, u \in Tasks : Claims(a, u)
           \/ Passes
    PROVE  RowStep(p, t)
<1>1. tasks[p][t] \in TaskRow
  BY RowTypes DEF SystemInv, ChainedOK
<1>2. CASE tasks' = tasks
  BY <1>2 DEF RowStep
<1>3. ASSUME NEW a \in Holders, NEW u \in Tasks, Claims(a, u) PROVE RowStep(p, t)
  <2>1. at[a] \in Projects /\ ClaimNext(at[a], u)
    BY <1>3, ClaimKeepsInv DEF Claims
  <2>2. \/ tasks'[p][t] = tasks[p][t]
        \/ tasks'[p][t] = Recovered(tasks[p][t])
        \/ /\ Recovered(tasks[p][t]).status = "pending"
           /\ tasks'[p][t] = TaskClaimed(Recovered(tasks[p][t]))
    BY <2>1, ClaimNextEffect DEF SystemInv, ChainedOK
  <2>3. \/ Recovered(tasks[p][t]) = tasks[p][t]
        \/ /\ tasks[p][t].status = "running"
           /\ Recovered(tasks[p][t]).status = "pending"
    BY <1>1 DEF Recovered, TaskRow
  <2>4. TaskClaimed(Recovered(tasks[p][t])).status = "running"
    BY <1>1, TaskRowTypes DEF TaskClaimed, TaskRow
  <2>5. QED  BY <2>2, <2>3, <2>4 DEF RowStep
<1>4. CASE Passes
  <2>1. tasks'[p][t] = [tasks[p][t] EXCEPT !.left = Aged(tasks[p][t].left)]
    BY <1>4 DEF Passes, ProjectTick
  <2>2. QED  BY <1>1, <2>1 DEF RowStep, TaskRow
<1>5. QED  BY <1>2, <1>3, <1>4

\* What is left: a result of one task, or a retry of a project's failures.
LEMMA RowSteps ==
    ASSUME SystemInv, [Next]_allVars
    PROVE  \/ \A p \in Projects, t \in Tasks : RowStep(p, t)
           \/ \E a \in Holders, t \in Tasks, r \in Results : Settles(a, t, r)
           \/ \E p \in Projects : RetryFailures(p)
<1>1. TaskSteps
  BY EveryTaskStep
<1>2. CASE tasks' = tasks
  BY <1>2, UnsettlingStep
<1>3. CASE \E a \in Holders, t \in Tasks : Claims(a, t)
  BY <1>3, UnsettlingStep
<1>4. CASE Passes
  BY <1>4, UnsettlingStep
<1>5. QED  BY <1>1, <1>2, <1>3, <1>4 DEF TaskSteps, Quiet, Lists, Retries

\* The row a result is brought of, and all the others.
LEMMA SettledRow ==
    ASSUME SystemInv, NEW a \in Holders, NEW t \in Tasks, NEW r \in Results,
           Settles(a, t, r)
    PROVE  /\ tasks'[at[a]][t].status = r
           /\ \A q \in Projects, u \in Tasks :
                 q # at[a] \/ u # t => tasks'[q][u] = tasks[q][u]
<1>1. /\ at[a] \in Projects
      /\ \E lost \in BOOLEAN : Complete(at[a], t, r, r = "confirmed", lost)
  BY SettledWasOpen DEF Settles
<1>2. tasks[at[a]][t] \in TaskRow
  BY <1>1, RowTypes DEF SystemInv, ChainedOK
<1>3. \/ \E n, i : tasks'[at[a]][t] = TaskSettled(TaskPictured(tasks[at[a]][t], n, i), r)
      \/ tasks'[at[a]][t] = TaskSettled(tasks[at[a]][t], r)
  BY <1>1 DEF Complete, SystemInv, ChainedOK, ProjectTypeOK
<1>4. \A n, i, row : row = TaskPictured(tasks[at[a]][t], n, i) \/ row = tasks[at[a]][t]
                       => TaskSettled(row, r).status = r
  BY <1>2 DEF TaskSettled, TaskPictured, TaskRow
<1>5. \A q \in Projects, u \in Tasks :
         q # at[a] \/ u # t => tasks'[q][u] = tasks[q][u]
  BY <1>1 DEF Complete, SystemInv, ChainedOK, ProjectTypeOK
<1>6. QED  BY <1>3, <1>4, <1>5
-----------------------------------------------------------------------------
(* The theorems *)

\* A worker at a browser has one task, and that task is running: no other
\* worker's recovery, no retry and no review takes it away under its hands.
THEOREM ExecutesRunningAlways ==
    ASSUME Timely PROVE Spec => []ExecutesRunning
<1>1. SystemInv => ExecutesRunning
  BY ActorAssumption DEF SystemInv, WorkOK, WorkOf, ExecutesRunning
<1>2. QED  BY <1>1, SystemInvAlways, PTL

\* A confirmed result and its screenshot stay, for any number of projects,
\* tasks, workers and commands, crashes and failing statements, although
\* Complete overwrites whatever row it is called for.
THEOREM ConfirmedAlwaysFinal ==
    ASSUME Timely PROVE Spec => ConfirmedIsFinal
<1> DEFINE Kept(p, t) == tasks[p][t].status = "confirmed" =>
                            /\ tasks'[p][t].status = "confirmed"
                            /\ tasks'[p][t].shot = tasks[p][t].shot
<1>1. ASSUME SystemInv, [Next]_allVars, NEW p \in Projects, NEW t \in Tasks
      PROVE  Kept(p, t)
  <2>1. CASE RowStep(p, t)
    BY <2>1 DEF RowStep
  <2>2. ASSUME NEW a \in Holders, NEW u \in Tasks, NEW r \in Results, Settles(a, u, r)
        PROVE  Kept(p, t)
    BY <1>1, <2>2, SettledWasOpen, SettledRow
  <2>3. ASSUME NEW q \in Projects, RetryFailures(q) PROVE Kept(p, t)
    BY <1>1, <2>3, RetryEffect DEF SystemInv, ChainedOK
  <2> HIDE DEF Kept
  <2>4. QED  BY <1>1, <2>1, <2>2, <2>3, RowSteps
<1>2. ASSUME SystemInv, [Next]_allVars
      PROVE  [\A p \in Projects, t \in Tasks :
                tasks[p][t].status = "confirmed" =>
                   /\ tasks'[p][t].status = "confirmed"
                   /\ tasks'[p][t].shot = tasks[p][t].shot]_allVars
  BY <1>1, <1>2
<1>3. QED  BY <1>2, SystemInvAlways, PTL DEF Spec, ConfirmedIsFinal

\* A board is known by its entries.
LEMMA BoardShape ==
    /\ BoardOf = [p \in Projects |-> [t \in Tasks |-> BoardOf[p][t]]]
    /\ BoardOf' = [p \in Projects |-> [t \in Tasks |-> BoardOf'[p][t]]]
BY DEF BoardOf

\* The whole system implements the board: whatever happens in databases,
\* processes and commands is, for the user's tasks, a result of an open task or
\* of one that needs review, a retry of a project's failures, or nothing.
THEOREM SystemImplementsBoard ==
    ASSUME Timely PROVE Spec => ImplementsBoard
<1>1. ASSUME Init PROVE Board!BoardInit
  BY <1>1 DEF Init, ProjectInit, NewTask, BoardOf, Board!BoardInit
<1>2. ASSUME SystemInv, [Next]_allVars PROVE [Board!BoardNext]_BoardOf
  <2>1. CASE \A p \in Projects, t \in Tasks : RowStep(p, t)
    <3>1. \A p \in Projects, t \in Tasks :
             \/ tasks'[p][t].status = tasks[p][t].status
             \/ /\ tasks[p][t].status \in {"pending", "running"}
                /\ tasks'[p][t].status \in {"pending", "running"}
      BY <2>1 DEF RowStep
    <3>2. BoardOf' = BoardOf
      BY <3>1 DEF BoardOf
    <3>3. QED  BY <3>2
  <2>2. ASSUME NEW a \in Holders, NEW t \in Tasks, NEW r \in Results, Settles(a, t, r)
        PROVE  Board!BoardNext
    <3>1. /\ at[a] \in Projects
          /\ tasks[at[a]][t].status \in {"running", "needs_review"}
          /\ tasks'[at[a]][t].status = r
          /\ \A q \in Projects, u \in Tasks :
                q # at[a] \/ u # t => tasks'[q][u] = tasks[q][u]
      BY <1>2, <2>2, SettledWasOpen, SettledRow
    <3>2. BoardOf[at[a]][t] \in {"open", "needs_review"}
      BY <3>1 DEF BoardOf
    <3>3. r \notin {"pending", "running"}
      BY DEF Results
    <3>4. BoardOf' = [BoardOf EXCEPT ![at[a]][t] = r]
      <4>1. \A q \in Projects, u \in Tasks :
               BoardOf'[q][u] = IF q = at[a] /\ u = t THEN r ELSE BoardOf[q][u]
        BY <3>1, <3>3 DEF BoardOf
      <4>2. QED  BY <3>1, <4>1, BoardShape
    <3>5. Board!Settle(at[a], t, r) /\ r \in Board!Results
      BY <3>2, <3>4 DEF Board!Settle, Board!Results, Results
    <3>6. QED  BY <3>1, <3>5 DEF Board!BoardNext
  <2>3. ASSUME NEW p \in Projects, RetryFailures(p)
        PROVE  Board!BoardNext
    <3>1. \A q \in Projects, u \in Tasks :
             tasks'[q][u] = IF q = p /\ tasks[q][u].status = "retryable_error"
                            THEN TaskReopened(tasks[q][u]) ELSE tasks[q][u]
      BY <1>2, <2>3 DEF RetryFailures, Failures, SystemInv, ChainedOK, ProjectTypeOK
    <3>2. \A q \in Projects, u \in Tasks : TaskReopened(tasks[q][u]).status = "pending"
      BY <1>2, RowTypes DEF TaskReopened, TaskRow, SystemInv, ChainedOK
    <3>3. BoardOf' = [BoardOf EXCEPT ![p] = [t \in Tasks |->
                         IF @[t] = "retryable_error" THEN "open" ELSE @[t]]]
      <4>1. \A q \in Projects, u \in Tasks :
               BoardOf'[q][u] = IF q = p /\ BoardOf[q][u] = "retryable_error"
                                THEN "open" ELSE BoardOf[q][u]
        BY <3>1, <3>2 DEF BoardOf
      <4>2. QED  BY <4>1, BoardShape
    <3>4. QED  BY <3>3 DEF Board!BoardNext, Board!Reopen
  <2>4. QED  BY <1>2, <2>1, <2>2, <2>3, RowSteps
<1>3. QED
  BY <1>1, <1>2, SystemInvAlways, PTL DEF Spec, ImplementsBoard, Board!BoardSpec
-----------------------------------------------------------------------------
(* What is done is settled *)

\* A row that nobody claims and no start touches.
Held(p) == queue[p].status = "running" /\ queue[p].left > 0

\* A project that was moved and is not taken back.
Buried(p) == moved[p] /\ \A u \in Users : pc[u] = "arc_drop" => at[u] # p

NonePending(p) == \A t \in Tasks : tasks[p][t].status # "pending"

\* Between a worker's last look for a task and its Finish.
DonePC == {"unlock_done", "finish"}

\* The inductive invariant: a worker in a turn holds its project's row, alone,
\* unless the project was archived under it.
RowOK(p) ==
    /\ \A w \in Workers : at[w] = p => Held(p) \/ Buried(p)
    /\ \A v, w \in Workers : at[v] = p /\ at[w] = p => v = w \/ Buried(p)
    /\ \A w \in Workers : at[w] = p /\ pc[w] \in DonePC => NonePending(p)
    /\ queue[p].status = "done" => NonePending(p)

RowsInv ==
    /\ \A w \in Workers : at[w] # NoOne => ~Nowhere(w)
    /\ \A p \in Projects : RowOK(p)

\* What the argument uses besides.
RowsContext == ActorOK /\ FileOK /\ MovedAlone /\ QueueTypeOK /\ ProjectTypeOK

\* What is buried stays so.
BuriedStays == \A p \in Projects : Buried(p) => Buried(p)'

\* No step digs out what another archive moved.
LEMMA NothingUnburied ==
    ASSUME RowsContext, [Next]_allVars
    PROVE  BuriedStays
<1>1. FileSteps
  BY EveryFileStep DEF RowsContext
<1>2. CASE Strolls \/ \E S \in SUBSET Holders : Dies(S)
  <2>1. UNCHANGED moved
    BY <1>2 DEF Strolls, Dies
  <2>2. \A u \in Users : pc'[u] = "arc_drop" => pc[u] = "arc_drop" /\ at'[u] = at[u]
    BY <1>2, ActorAssumption DEF Strolls, Walks, Dies, ArchivePC, MovedPC
  <2>3. QED  BY <2>1, <2>2 DEF BuriedStays, Buried
<1>3. ASSUME NEW u \in Users, ArchiveCall(u) PROVE BuriedStays
  <2>1. /\ at[u] \in Projects
        /\ \A v \in Users \ {u} : pc'[v] = pc[v] /\ at'[v] = at[v]
        /\ pc'[u] = "off" \/ at'[u] = at[u]
    BY <1>3, ArchiveCallAlone, ActorAssumption DEF RowsContext
  <2>2. moved \in [Projects -> BOOLEAN]
    BY DEF RowsContext, FileOK
  <2>3. CASE UNCHANGED moved /\ (pc'[u] \in MovedPC => pc[u] = "arc_drop")
    BY <2>1, <2>3 DEF BuriedStays, Buried, MovedPC
  <2>4. CASE ~moved[at[u]] /\ moved' = [moved EXCEPT ![at[u]] = TRUE] /\ pc'[u] = "arc_drop"
    BY <2>1, <2>2, <2>4 DEF BuriedStays, Buried
  <2>5. CASE /\ pc[u] = "arc_drop" /\ moved' = [moved EXCEPT ![at[u]] = FALSE]
             /\ pc'[u] = "arc_abort"
    BY <2>1, <2>2, <2>5 DEF BuriedStays, Buried
  <2>6. QED  BY <1>3, <2>3, <2>4, <2>5, ArchiveCallMoves DEF RowsContext
<1>4. QED  BY <1>1, <1>2, <1>3 DEF FileSteps

\* A step at which no worker begins a turn or changes a row, no task becomes
\* pending, and a worker finds a project done only where nothing is pending.
Bystands ==
    /\ \A w \in Workers :
          /\ at'[w] \in {at[w], NoOne}
          /\ Nowhere(w)' => Nowhere(w) \/ at'[w] = NoOne
          /\ pc'[w] \in DonePC =>
                /\ ~Nowhere(w) /\ at'[w] = at[w]
                /\ pc[w] \in DonePC \/ NonePending(at[w])
    /\ \A p \in Projects, t \in Tasks :
          tasks'[p][t].status = "pending" => tasks[p][t].status = "pending"
    /\ \A p \in Projects :
          /\ Held(p) => Held(p)'
          /\ queue'[p].status = "done" => queue[p].status = "done"

LEMMA BystandingKeepsRows ==
    ASSUME RowsContext, RowsInv, BuriedStays, Bystands
    PROVE  RowsInv'
<1>1. \A w \in Workers : at'[w] # NoOne => ~Nowhere(w)'
  BY DEF RowsInv, Bystands
<1>2. ASSUME NEW p \in Projects PROVE RowOK(p)'
  <2>1. /\ RowOK(p)
        /\ Buried(p) => Buried(p)'
        /\ Held(p) => Held(p)'
        /\ queue'[p].status = "done" => queue[p].status = "done"
        /\ p # NoOne
    BY ActorAssumption DEF RowsInv, BuriedStays, Bystands
  <2>2. NonePending(p) => NonePending(p)'
    BY DEF Bystands, NonePending
  <2>3. \A w \in Workers : at'[w] = p =>
           /\ at[w] = p
           /\ pc'[w] \in DonePC => pc[w] \in DonePC \/ NonePending(p)
    BY <2>1 DEF Bystands
  <2>4. QED  BY <2>1, <2>2, <2>3 DEF RowOK
<1>3. QED  BY <1>1, <1>2 DEF RowsInv

\* A step of one worker aside from the rows.
LEMMA ActsAside ==
    ASSUME RowsContext, NEW w \in Workers, NEW to,
           pc' = [pc EXCEPT ![w] = to],
           \/ at' = [at EXCEPT ![w] = NoOne]
           \/ at' = at /\ (to \in NowherePC => Nowhere(w)),
           to \in DonePC => /\ ~Nowhere(w) /\ at' = at
                            /\ pc[w] \in DonePC \/ NonePending(at[w]),
           \A p \in Projects, t \in Tasks :
              tasks'[p][t].status = "pending" => tasks[p][t].status = "pending",
           UNCHANGED queue
    PROVE  Bystands
<1>1. w \in Holders
  BY ActorAssumption
<1>2. pc'[w] = to /\ at'[w] \in {at[w], NoOne}
  BY <1>1 DEF RowsContext, ActorOK
<1>3. \A v \in Workers \ {w} : pc'[v] = pc[v] /\ at'[v] = at[v]
  BY <1>1, ActorAssumption DEF RowsContext, ActorOK
<1>4. \A v \in Workers : pc[v] \in DonePC => ~Nowhere(v)
  BY DEF DonePC, Nowhere, NowherePC
<1>5. Nowhere(w)' => Nowhere(w) \/ at'[w] = NoOne
  BY <1>1, <1>2 DEF RowsContext, ActorOK, Nowhere
<1>6. QED  BY <1>1, <1>2, <1>3, <1>4, <1>5 DEF Bystands, Held, Nowhere

\* A step at which the workers stay where they are, or go.
LEMMA StandsAside ==
    ASSUME RowsContext,
           \A w \in Workers : \/ pc'[w] = pc[w] /\ at'[w] = at[w]
                              \/ pc'[w] = "off" /\ at'[w] = NoOne
                              \/ pc'[w] = "slot" /\ at'[w] = at[w] /\ pc[w] = "off",
           \A p \in Projects, t \in Tasks :
              tasks'[p][t].status = "pending" => tasks[p][t].status = "pending",
           UNCHANGED queue \/ \E p \in Projects : Enqueue(p)
    PROVE  Bystands
<1>1. \A w \in Workers : pc'[w] \in DonePC =>
         pc[w] \in DonePC /\ ~Nowhere(w) /\ at'[w] = at[w]
  BY DEF DonePC, Nowhere, NowherePC
<1>2. \A w \in Workers : /\ at'[w] \in {at[w], NoOne}
                         /\ Nowhere(w)' => Nowhere(w) \/ at'[w] = NoOne
  BY DEF Nowhere, NowherePC
<1>3. \A p \in Projects : /\ Held(p) => Held(p)'
                          /\ queue'[p].status = "done" => queue[p].status = "done"
  <2>1. CASE UNCHANGED queue
    BY <2>1 DEF Held
  <2>2. ASSUME NEW p \in Projects, Enqueue(p), NEW q \in Projects
        PROVE  /\ Held(q) => Held(q)'
               /\ queue'[q].status = "done" => queue[q].status = "done"
    <3>1. queue[q] \in QueueRow /\ queue \in [Projects -> QueueRow]
      BY DEF RowsContext, QueueTypeOK
    <3>2. CASE q = p
      BY <2>2, <3>1, <3>2 DEF Enqueue, Held, QueueRow
    <3>3. CASE q # p
      BY <2>2, <3>1, <3>3 DEF Enqueue, Held
    <3>4. QED  BY <3>2, <3>3
  <2>3. QED  BY <2>1, <2>2
<1>4. QED  BY <1>1, <1>2, <1>3 DEF Bystands

\* A worker in a turn is at a project.
LEMMA TurnsSomewhere ==
    ASSUME RowsContext, RowsInv, NEW w \in Workers, ~Nowhere(w)
    PROVE  w \in Holders /\ at[w] \in Projects /\ at[w] # NoOne /\ RowOK(at[w])
BY ActorAssumption DEF RowsContext, RowsInv, ActorOK

\* A step of one worker leaves the others in their turns.
LEMMA OthersTurn ==
    ASSUME RowsContext, RowsInv, NEW w \in Workers, NEW to,
           pc' = [pc EXCEPT ![w] = to], to \in NowherePC => at'[w] = NoOne,
           \E x : at' = [at EXCEPT ![w] = x]
    PROVE  /\ pc'[w] = to
           /\ \A v \in Workers \ {w} : pc'[v] = pc[v] /\ at'[v] = at[v]
           /\ \A v \in Workers : at'[v] # NoOne => ~Nowhere(v)'
<1>1. pc'[w] = to /\ \A v \in Workers \ {w} : pc'[v] = pc[v] /\ at'[v] = at[v]
  BY ActorAssumption DEF RowsContext, ActorOK
<1>2. QED  BY <1>1 DEF RowsInv, Nowhere

\* The last call of a turn: the row changes hands as the turn ends.
LEMMA RowCallKeepsRows ==
    ASSUME RowsContext, RowsInv, BuriedStays, NEW w \in Workers,
           \/ FailProject(w) \/ RemoveProject(w) \/ FinishProject(w) \/ RequeueProject(w)
    PROVE  RowsInv'
<1>1. /\ pc[w] \in {"fail", "remove", "finish", "requeue"}
      /\ TurnOver(w) /\ UNCHANGED tasks
  BY DEF FailProject, RemoveProject, FinishProject, RequeueProject, QueueOnly, projectVars
<1>2. w \in Holders /\ at[w] \in Projects /\ at[w] # NoOne /\ RowOK(at[w])
  BY <1>1, TurnsSomewhere DEF Nowhere, NowherePC
<1>3. queue \in [Projects -> QueueRow]
  BY DEF RowsContext, QueueTypeOK
<1>4. PICK row \in QueueRow :
         /\ queue' = [queue EXCEPT ![at[w]] = row]
         /\ row.status = "done" => pc[w] = "finish" \/ queue[at[w]].status = "done"
  <2>1. NoRow \in QueueRow /\ \A q : [status |-> q, left |-> Expired].status = q
    BY LeaseAssumption DEF NoRow, QueueRow, QueueStatus, Left, Expired
  <2>2. \A q \in QueueStatus : [status |-> q, left |-> Expired] \in QueueRow
    BY LeaseAssumption DEF QueueRow, Left, Expired
  <2>3. queue[at[w]] \in QueueRow /\ queue = [queue EXCEPT ![at[w]] = queue[at[w]]]
    BY <1>2, <1>3
  <2>4. QED
    BY <2>1, <2>2, <2>3 DEF FailProject, Fail, RemoveProject, Remove, FinishProject, Finish,
       RequeueProject, Requeue, SetStatus, NoRow, QueueStatus
<1>5. /\ at'[w] = NoOne
      /\ \A v \in Workers \ {w} : pc'[v] = pc[v] /\ at'[v] = at[v]
      /\ \A v \in Workers : at'[v] # NoOne => ~Nowhere(v)'
  <2>1. at'[w] = NoOne /\ \E to : pc' = [pc EXCEPT ![w] = to]
    BY <1>1, <1>2 DEF TurnOver, RowsContext, ActorOK
  <2>2. QED  BY <1>1, <2>1, OthersTurn DEF TurnOver
<1>6. ASSUME NEW p \in Projects PROVE RowOK(p)'
  <2>1. RowOK(p) /\ p # NoOne /\ (Buried(p) => Buried(p)')
    BY ActorAssumption DEF RowsInv, BuriedStays
  <2>2. NonePending(p)' <=> NonePending(p)
    BY <1>1 DEF NonePending
  <2>3. \A v \in Workers : at'[v] = p => v # w /\ at[v] = p /\ pc'[v] = pc[v]
    BY <1>5, <2>1
  <2>4. CASE p = at[w]
    <3>1. queue'[p].status = "done" => NonePending(p)
      BY <1>2, <1>3, <1>4, <2>4 DEF RowOK, DonePC
    <3>2. QED  BY <2>1, <2>2, <2>3, <2>4, <3>1 DEF RowOK
  <2>5. CASE p # at[w]
    <3>1. queue'[p] = queue[p]
      BY <1>2, <1>3, <1>4, <2>5
    <3>2. QED  BY <2>1, <2>2, <2>3, <3>1 DEF RowOK, Held
  <2>6. QED  BY <2>4, <2>5
<1>7. QED  BY <1>5, <1>6 DEF RowsInv

\* A claim: of a row that nobody holds.
LEMMA ClaimKeepsRows ==
    ASSUME RowsContext, RowsInv, BuriedStays, NEW w \in Workers, NEW q \in Projects,
           Step(w, "claim", "resolve"), ClaimProject(q), at' = [at EXCEPT ![w] = q],
           UNCHANGED tasks
    PROVE  RowsInv'
<1>1. queue \in [Projects -> QueueRow] /\ w \in Holders
  BY ActorAssumption DEF RowsContext, QueueTypeOK
<1>2. /\ at'[w] = q /\ pc'[w] = "resolve"
      /\ \A v \in Workers \ {w} : pc'[v] = pc[v] /\ at'[v] = at[v]
      /\ \A v \in Workers : at'[v] # NoOne => ~Nowhere(v)'
  <2>1. "resolve" \notin NowherePC
    BY DEF NowherePC
  <2>2. at'[w] = q
    BY <1>1 DEF RowsContext, ActorOK
  <2>3. QED  BY <2>1, <2>2, OthersTurn DEF Step
<1>3. ASSUME NEW p \in Projects PROVE RowOK(p)'
  <2>1. /\ RowOK(p) /\ p # NoOne /\ (Buried(p) => Buried(p)')
        /\ NonePending(p)' <=> NonePending(p)
    BY ActorAssumption DEF RowsInv, BuriedStays, NonePending
  <2>2. CASE p = q
    <3>1. Swept[q].status = "queued"
      BY DEF ClaimProject, Waiting
    <3>2. ~Held(p)
      BY <1>1, <2>2, <3>1 DEF Swept, Held, Live, Expired
    <3>3. \A v \in Workers : at[v] = p => Buried(p)
      BY <2>1, <3>2 DEF RowOK
    <3>4. queue'[p] = [status |-> "running", left |-> Lease]
      BY <2>2 DEF ClaimProject, Claimed, Swept
    <3>5. Held(p)' /\ queue'[p].status # "done"
      BY <3>4, LeaseAssumption DEF Held
    <3>6. \A v \in Workers : at'[v] = p /\ pc'[v] \in DonePC => at[v] = p /\ pc[v] \in DonePC
      BY <1>2 DEF DonePC
    <3>7. QED  BY <1>2, <2>1, <3>3, <3>5, <3>6 DEF RowOK
  <2>3. CASE p # q
    <3>1. queue'[p] = IF queue[p].status = "running" /\ ~Live(queue[p].left)
                      THEN [status |-> "queued", left |-> Expired] ELSE queue[p]
      BY <2>3 DEF ClaimProject, Claimed, Swept
    <3>2. /\ Held(p) => Held(p)'
          /\ queue'[p].status = "done" => queue[p].status = "done"
      BY <3>1 DEF Held, Live, Expired
    <3>3. \A v \in Workers : at'[v] = p => v # w /\ at[v] = p /\ pc'[v] = pc[v]
      BY <1>2, <2>3
    <3>4. QED  BY <2>1, <3>2, <3>3 DEF RowOK
  <2>4. QED  BY <2>2, <2>3
<1>4. QED  BY <1>2, <1>3 DEF RowsInv

\* A worker's next task, which may recover others on the way.
LEMMA NextKeepsRows ==
    ASSUME RowsContext, RowsInv, BuriedStays, NEW w \in Workers, NEW t \in Tasks,
           Step(w, "next", "execute"), ~moved[at[w]], ClaimNext(at[w], t), at' = at,
           UNCHANGED queue
    PROVE  RowsInv'
<1>1. w \in Holders /\ at[w] \in Projects /\ at[w] # NoOne /\ RowOK(at[w])
  BY TurnsSomewhere DEF Step, Nowhere, NowherePC
<1>2. at' = [at EXCEPT ![w] = at[w]]
  BY <1>1 DEF RowsContext, ActorOK
<1>3. /\ pc'[w] = "execute"
      /\ \A v \in Workers \ {w} : pc'[v] = pc[v] /\ at'[v] = at[v]
      /\ \A v \in Workers : at'[v] # NoOne => ~Nowhere(v)'
  <2>1. "execute" \notin NowherePC
    BY DEF NowherePC
  <2>2. QED  BY <1>2, <2>1, OthersTurn DEF Step
<1>4. ASSUME NEW p \in Projects PROVE RowOK(p)'
  <2>1. /\ RowOK(p)
        /\ Buried(p) => Buried(p)'
        /\ Held(p)' <=> Held(p)
    BY DEF RowsInv, BuriedStays, Held
  <2>2. CASE p = at[w]
    <3>1. \A v \in Workers : at[v] = p => v = w
      BY <2>1, <2>2 DEF RowOK, Buried
    <3>2. Held(p)
      BY <2>1, <2>2 DEF RowOK, Buried
    <3>3. queue'[p].status # "done"
      BY <3>2 DEF Held
    <3>4. \A v \in Workers : at'[v] = p => pc'[v] \notin DonePC
      BY <1>3, <3>1 DEF DonePC
    <3>5. QED  BY <2>1, <3>1, <3>3, <3>4 DEF RowOK
  <2>3. CASE p # at[w]
    <3>1. tasks'[p] = tasks[p]
      BY <2>3 DEF ClaimNext, RowsContext, ProjectTypeOK
    <3>2. NonePending(p)' <=> NonePending(p)
      BY <3>1 DEF NonePending
    <3>3. \A v \in Workers : at'[v] = p => pc'[v] = pc[v]
      BY <1>3, <2>3
    <3>4. QED  BY <2>1, <3>2, <3>3 DEF RowOK
  <2>4. QED  BY <2>2, <2>3
<1>5. QED  BY <1>3, <1>4 DEF RowsInv

\* An archive takes the row out, of a project that nobody takes back.
LEMMA DropKeepsRows ==
    ASSUME RowsContext, RowsInv, BuriedStays, NEW u \in Users, ArchiveDrop(u)
    PROVE  RowsInv'
<1>1. /\ u \in Holders /\ u \notin Workers /\ pc[u] = "arc_drop"
      /\ pc' = [pc EXCEPT ![u] = "arc_clear"]
      /\ UNCHANGED <<at, tasks, moved>>
      /\ queue' = [queue EXCEPT ![at[u]] = NoRow]
  BY ActorAssumption DEF ArchiveDrop, Step, StayingAt, QueueOnly, projectVars, fileVars, Remove
<1>2. /\ \A w \in Workers : pc'[w] = pc[w] /\ at'[w] = at[w]
      /\ \A v \in Users \ {u} : pc'[v] = pc[v]
      /\ pc'[u] = "arc_clear"
  BY <1>1, ActorAssumption DEF RowsContext, ActorOK
<1>3. queue \in [Projects -> QueueRow]
  BY DEF RowsContext, QueueTypeOK
<1>4. \A w \in Workers : at'[w] # NoOne => ~Nowhere(w)'
  BY <1>2 DEF RowsInv, Nowhere
<1>5. ASSUME NEW p \in Projects PROVE RowOK(p)'
  <2>1. /\ RowOK(p)
        /\ Buried(p) => Buried(p)'
        /\ NonePending(p)' <=> NonePending(p)
    BY <1>1 DEF RowsInv, BuriedStays, NonePending
  <2>2. CASE p = at[u]
    <3>1. moved[p] /\ \A v \in Users \ {u} : pc[v] = "arc_drop" => at[v] # p
      BY <1>1, <2>2 DEF RowsContext, MovedAlone, MovedPC
    <3>2. Buried(p)'
      BY <1>1, <1>2, <3>1 DEF Buried
    <3>3. queue'[p] = NoRow
      BY <1>1, <1>3, <2>2
    <3>4. QED  BY <1>2, <2>1, <3>2, <3>3 DEF RowOK, NoRow
  <2>3. CASE p # at[u]
    <3>1. queue'[p] = queue[p]
      BY <1>1, <1>3, <2>3
    <3>2. QED  BY <1>2, <2>1, <3>1 DEF RowOK, Held
  <2>4. QED  BY <2>2, <2>3
<1>6. QED  BY <1>4, <1>5 DEF RowsInv

\* A second, which no turn lets its row run out in.
LEMMA TickKeepsRows ==
    ASSUME RowsContext, RowsInv, BuriedStays, Timely, Tick
    PROVE  RowsInv'
<1>1. UNCHANGED <<pc, at>> /\ QueueTick /\ ProjectTick
  BY DEF Tick
<1>2. \A w \in Workers : at'[w] # NoOne => ~Nowhere(w)'
  BY <1>1 DEF RowsInv, Nowhere
<1>3. ASSUME NEW p \in Projects PROVE RowOK(p)'
  <2>1. /\ RowOK(p)
        /\ Buried(p) => Buried(p)'
        /\ queue[p] \in QueueRow
        /\ queue'[p] = [queue[p] EXCEPT !.left = Aged(queue[p].left)]
    BY <1>1 DEF RowsInv, BuriedStays, QueueTick, RowsContext, QueueTypeOK
  <2>2. NonePending(p)' <=> NonePending(p)
    <3>1. \A t \in Tasks : tasks'[p][t] = [tasks[p][t] EXCEPT !.left = Aged(tasks[p][t].left)]
      BY <1>1 DEF ProjectTick
    <3>2. \A t \in Tasks : tasks'[p][t].status = tasks[p][t].status
      BY <3>1, RowTypes DEF RowsContext, TaskRow
    <3>3. QED  BY <3>2 DEF NonePending
  <2>3. queue'[p].status = queue[p].status
    BY <2>1 DEF QueueRow
  <2>4. ASSUME NEW w \in Workers, at[w] = p, Held(p) PROVE Held(p)'
    <3>1. w \in Holders /\ at[w] # NoOne /\ pc[w] # "off"
      BY <2>4, ActorAssumption DEF RowsInv, Nowhere, NowherePC
    <3>2. OnTime(w) /\ InTurn(w) /\ IsRunning(at[w])
      BY <2>4, <3>1 DEF Tick, InTurn, IsRunning, Held, Live, Expired
    <3>3. queue[p].left > 1
      BY <2>4, <3>2 DEF OnTime, Ageable
    <3>4. queue'[p].left = queue[p].left - 1
      BY <2>1, <3>3 DEF QueueRow, Aged, Expired
    <3>5. queue[p].left \in Int
      BY <2>1 DEF QueueRow, Left, Expired
    <3>6. QED  BY <2>3, <2>4, <3>3, <3>4, <3>5 DEF Held
  <2>5. QED  BY <1>1, <2>1, <2>2, <2>3, <2>4 DEF RowOK
<1>4. QED  BY <1>2, <1>3 DEF RowsInv

\* No result makes a task pending.
LEMMA ResultsSettle ==
    ASSUME RowsContext, NEW a \in Holders, at[a] \in Projects, NEW t \in todo[a],
           NEW r \in Results, NEW lost, Complete(at[a], t, r, r = "confirmed", lost),
           NEW q \in Projects, NEW u \in Tasks, tasks'[q][u].status = "pending"
    PROVE  tasks[q][u].status = "pending"
<1>1. t \in Tasks /\ ProjectTypeOK
  BY DEF RowsContext, ActorOK
<1>2. tasks[at[a]][t] \in TaskRow
  BY <1>1, RowTypes
<1>3. \A n, i, row : row = TaskPictured(tasks[at[a]][t], n, i) \/ row = tasks[at[a]][t]
                       => TaskSettled(row, r).status = r
  BY <1>2 DEF TaskSettled, TaskPictured, TaskRow
<1>4. \/ tasks'[q][u] = tasks[q][u]
      \/ \E n, i : tasks'[q][u] = TaskSettled(TaskPictured(tasks[at[a]][t], n, i), r)
      \/ tasks'[q][u] = TaskSettled(tasks[at[a]][t], r)
  BY <1>1, CompleteEffect
<1>5. QED  BY <1>3, <1>4 DEF Results

\* A turn, call by call.
LEMMA WorkerKeepsRows ==
    ASSUME RowsContext, RowsInv, BuriedStays, NEW w \in Workers, WorkerStep(w)
    PROVE  RowsInv'
<1>1. w \in Holders /\ {w} \in SUBSET Holders /\ Leaving(w) \in SUBSET Holders
  BY ActorAssumption, ProcessOfType DEF Leaving
<1> USE DEF Step, StayingAt, QueueOnly, ProjectOnly, StoresKept, projectVars, queueVars
<1>2. ASSUME FailProject(w) \/ RemoveProject(w) \/ FinishProject(w) \/ RequeueProject(w)
      PROVE  RowsInv'
  BY <1>2, RowCallKeepsRows
<1>3. ASSUME \E p \in Projects : /\ Step(w, "claim", "resolve")
                                 /\ ClaimProject(p)
                                 /\ at' = [at EXCEPT ![w] = p]
                                 /\ UNCHANGED tasks
      PROVE  RowsInv'
  BY <1>3, ClaimKeepsRows
<1>4. ASSUME \E t \in Tasks : /\ Step(w, "next", "execute")
                              /\ ~moved[at[w]] /\ ClaimNext(at[w], t)
                              /\ UNCHANGED <<at, queue>>
      PROVE  RowsInv'
  BY <1>4, NextKeepsRows
<1>5. ASSUME Ended({w}) \/ Ended(Leaving(w)) PROVE Bystands
  <2>1. PICK S \in SUBSET Holders : Ended(S)
    BY <1>1, <1>5
  <2>2. QED  BY <2>1, ActorAssumption, StandsAside DEF Ended
<1>6. ASSUME UNCHANGED <<tasks, queue, at>>,
             \E from \in {"slot", "renew", "claim"}, to \in {"renew", "claim", "quit"} :
                pc[w] = from /\ pc' = [pc EXCEPT ![w] = to]
      PROVE  Bystands
  BY <1>6, ActsAside DEF Nowhere, NowherePC, DonePC
<1>7. ASSUME UNCHANGED <<tasks, queue, at>>,
             \E to \in {"gone", "open", "lock", "remove", "fail", "check", "requeue",
                        "unlock_archived", "active", "next", "unlock_cancelled"} :
                pc' = [pc EXCEPT ![w] = to]
      PROVE  Bystands
  BY <1>7, ActsAside DEF NowherePC, DonePC
<1>8. ASSUME Unlock(w) PROVE Bystands
  <2>1. UNCHANGED <<tasks, queue>>
    BY <1>8 DEF Unlock, ReleaseLock
  <2>2. CASE TurnOver(w)
    <3>1. PICK to \in {"quit", "renew"} : pc' = [pc EXCEPT ![w] = to]
      BY <2>2 DEF TurnOver
    <3>2. at' = [at EXCEPT ![w] = NoOne]
      BY <2>2 DEF TurnOver
    <3>3. "quit" \notin DonePC /\ "renew" \notin DonePC
      BY DEF DonePC
    <3>4. QED  BY <2>1, <3>1, <3>2, <3>3, ActsAside
  <2>3. CASE pc' = [pc EXCEPT ![w] = AfterUnlock(w)] /\ UNCHANGED at /\ AfterUnlock(w) # "over"
    <3>1. AfterUnlock(w) \in {"remove", "requeue"} \/ pc[w] = "unlock_done"
      BY <2>3 DEF AfterUnlock
    <3>2. AfterUnlock(w) \in {"remove", "requeue", "finish"}
      BY <2>3 DEF AfterUnlock
    <3>3. QED  BY <2>1, <2>3, <3>1, <3>2, ActsAside DEF Nowhere, NowherePC, DonePC
  <2>4. QED  BY <1>8, <2>2, <2>3 DEF Unlock
<1>9. ASSUME Step(w, "next", "unlock_done"), NothingPending(at[w]),
             UNCHANGED <<tasks, queue, at>>
      PROVE  Bystands
  <2>1. NonePending(at[w])
    BY <1>9 DEF NothingPending, Pending, TasksRecovered, Recovered, NonePending
  <2>2. QED  BY <1>9, <2>1, ActsAside DEF Nowhere, NowherePC, DonePC
<1>10. ASSUME Execute(w) PROVE Bystands
  <2>1. PICK t \in todo[w], r \in Results, lost \in BOOLEAN :
            /\ pc[w] = "execute" /\ pc' = [pc EXCEPT ![w] = "unlock_turn"]
            /\ Complete(at[w], t, r, r = "confirmed", lost)
            /\ UNCHANGED <<at, queue>>
    BY <1>10 DEF Execute
  <2>2. at[w] \in Projects
    BY <2>1, TurnsSomewhere DEF Nowhere, NowherePC
  <2>3. \A q \in Projects, u \in Tasks :
           tasks'[q][u].status = "pending" => tasks[q][u].status = "pending"
    BY <1>1, <2>1, <2>2, ResultsSettle
  <2>4. QED  BY <2>1, <2>3, ActsAside DEF NowherePC, DonePC
<1>11. ASSUME \/ Resolve(w) \/ Gone(w) \/ OpenStore(w) \/ LockProject(w)
              \/ CheckArchiving(w) \/ CheckActive(w)
       PROVE  Bystands
  BY <1>7, <1>11 DEF Resolve, Gone, OpenStore, LockProject, AcquireLock, CheckArchiving,
                     CheckActive
<1>12. ASSUME AwaitSlot(w) \/ RenewSlot(w) \/ Quit(w) PROVE Bystands
  BY <1>5, <1>6, <1>12 DEF AwaitSlot, RenewSlot, Quit, AcquireWorker
<1>13. ASSUME Claim(w) PROVE Bystands \/ RowsInv'
  BY <1>3, <1>6, <1>13 DEF Claim
<1>14. ASSUME NextTask(w) PROVE Bystands \/ RowsInv'
  BY <1>4, <1>9, <1>14 DEF NextTask
<1>15. QED
  BY <1>2, <1>8, <1>10, <1>11, <1>12, <1>13, <1>14, BystandingKeepsRows DEF WorkerStep

\* A statement that fails.
LEMMA StoreErrorKeepsRows ==
    ASSUME RowsContext, RowsInv, BuriedStays, NEW w \in Workers, StoreError(w)
    PROVE  RowsInv'
<1>1. ASSUME UNCHANGED <<tasks, queue>>,
             at' = [at EXCEPT ![w] = NoOne], pc' = [pc EXCEPT ![w] = "quit"]
      PROVE  Bystands
  <2>1. "quit" \notin DonePC
    BY DEF DonePC
  <2>2. QED  BY <1>1, <2>1, ActsAside
<1>2. ASSUME UNCHANGED <<tasks, queue, at>>,
             \E to \in {"gone", "fail", "unlock_cancelled", "unlock_turn"} :
                pc' = [pc EXCEPT ![w] = to]
      PROVE  Bystands
  BY <1>2, ActsAside DEF NowherePC, DonePC
<1>3. ASSUME Ended(ProcessOf(w)) PROVE Bystands
  BY <1>3, ActorAssumption, StandsAside DEF Ended
<1>4. QED
  BY <1>1, <1>2, <1>3, BystandingKeepsRows DEF StoreError, Step, projectVars, queueVars

\* A command, call by call.
LEMMA CommandKeepsRows ==
    ASSUME RowsContext, RowsInv, BuriedStays, "retry" \notin Commands, NEW u \in Users,
           CommandBegins(u) \/ CommandStep(u) \/ Heartbeat(u) \/ CommandError(u)
    PROVE  RowsInv'
<1>1. u \in Holders /\ u \notin Workers
  BY ActorAssumption
<1> USE DEF Step, Goes, Exits, Begin, StayingAt, QueueOnly, ProjectOnly, StoresKept,
            projectVars, queueVars
<1>2. ASSUME \/ \E to : pc' = [pc EXCEPT ![u] = to]
             \/ UNCHANGED pc
             \/ Ended({u}),
             \/ \E x : at' = [at EXCEPT ![u] = x]
             \/ UNCHANGED at
             \/ Ended({u})
      PROVE  \A w \in Workers : \/ pc'[w] = pc[w] /\ at'[w] = at[w]
                                \/ pc'[w] = "off" /\ at'[w] = NoOne
  BY <1>1, <1>2, ActorAssumption DEF RowsContext, ActorOK, Ended
<1>3. ASSUME CommandBegins(u) PROVE Bystands
  BY <1>2, <1>3, StandsAside
     DEF CommandBegins, BeginStart, BeginRetry, BeginArchive, BeginReview
<1>4. ASSUME EnqueueLock(u) \/ ArchiveLock(u) \/ ReviewLock(u) PROVE Bystands
  BY <1>2, <1>4, StandsAside
     DEF EnqueueLock, ArchiveLock, ReviewLock, TakesLock, AcquireLock, Ended
<1>5. ASSUME \/ EnqueueCheck(u) \/ EnqueueRow(u) \/ ArchiveRecheck(u) \/ ReviewCheck(u)
             \/ ReviewList(u) \/ ReviewOver(u) \/ Heartbeat(u)
      PROVE  Bystands
  <2>1. CASE EnqueueRow(u)
    <3>1. \E p \in Projects : Enqueue(p)
      BY <1>1, <2>1 DEF EnqueueRow, RowsContext, ActorOK, Nowhere, NowherePC
    <3>2. QED  BY <1>2, <2>1, <3>1, StandsAside DEF EnqueueRow
  <2>2. CASE ~EnqueueRow(u)
    BY <1>2, <1>5, <2>2, StandsAside
       DEF EnqueueCheck, ArchiveRecheck, ReviewCheck, ReviewList, ReviewOver, Heartbeat,
           AcquireLock
  <2>3. QED  BY <2>1, <2>2
<1>6. ASSUME ArchiveMark(u) \/ ArchiveUnlock(u) \/ ArchiveMove(u) \/ ArchiveClear(u)
      PROVE  Bystands
  BY <1>2, <1>6, StandsAside
     DEF ArchiveMark, ArchiveUnlock, ReleaseLock, ArchiveMove, ArchiveClear
<1>7. ASSUME EnqueueDone(u) \/ UnlockCommand(u) PROVE Bystands
  BY <1>2, <1>7, StandsAside DEF EnqueueDone, UnlockCommand, LeavesLock
<1>8. ASSUME Launch(u) PROVE Bystands
  BY <1>1, <1>8, StandsAside, ActorAssumption DEF Launch, Launched
<1>9. ASSUME ReviewTask(u) PROVE Bystands
  <2>1. PICK t \in todo[u], r \in Results, lost \in BOOLEAN :
            /\ pc[u] = "rev_run" /\ Complete(at[u], t, r, r = "confirmed", lost)
            /\ pc' = [pc EXCEPT ![u] = IF u \in failing THEN "unlock_cmd" ELSE "rev_run"]
            /\ UNCHANGED <<at, queue>>
    BY <1>9 DEF ReviewTask
  <2>2. at[u] \in Projects
    BY <1>1, <2>1 DEF RowsContext, ActorOK, Nowhere, NowherePC
  <2>3. \A q \in Projects, v \in Tasks :
           tasks'[q][v].status = "pending" => tasks[q][v].status = "pending"
    BY <1>1, <2>1, <2>2, ResultsSettle
  <2>4. QED  BY <1>2, <2>1, <2>3, StandsAside
<1>10. ASSUME CommandError(u) PROVE Bystands
  BY <1>2, <1>10, StandsAside DEF CommandError, Ended
<1>11. ASSUME ArchiveDrop(u) PROVE RowsInv'
  BY <1>11, DropKeepsRows
<1>12. QED
  BY <1>3, <1>4, <1>5, <1>6, <1>7, <1>8, <1>9, <1>10, <1>11, BystandingKeepsRows
     DEF CommandStep

\* Every step of the system.
LEMMA RowsInvStep ==
    ASSUME RowsContext, RowsInv, Timely, "retry" \notin Commands, [Next]_allVars
    PROVE  RowsInv'
<1>1. BuriedStays
  BY NothingUnburied
<1>2. ASSUME NEW w \in Workers, WorkerStep(w) \/ StoreError(w) PROVE RowsInv'
  BY <1>1, <1>2, WorkerKeepsRows, StoreErrorKeepsRows
<1>3. ASSUME NEW u \in Users,
             CommandBegins(u) \/ CommandStep(u) \/ Heartbeat(u) \/ CommandError(u)
      PROVE  RowsInv'
  BY <1>1, <1>3, CommandKeepsRows
<1>4. CASE Crash
  <2>1. PICK S \in SUBSET Holders : Ended(S)
    BY <1>4, ActorAssumption DEF Crash, Workers
  <2>2. Bystands
    BY <2>1, ActorAssumption, StandsAside DEF Ended
  <2>3. QED  BY <1>1, <2>2, BystandingKeepsRows
<1>5. CASE Tick
  BY <1>1, <1>5, TickKeepsRows
<1>6. CASE UNCHANGED allVars
  BY <1>6 DEF allVars, vars, queueVars, projectVars, actorVars, fileVars, RowsInv, RowOK,
              Nowhere, Held, Buried, NonePending
<1>7. QED  BY <1>2, <1>3, <1>4, <1>5, <1>6 DEF Next

\* A row that says done has nothing pending and nobody in a turn on it, of any
\* number of projects, processes, workers and users, through crashes, failing
\* statements, reviews and archives, as long as leases are used in time and
\* nobody retries while the workers are about (LostStart shows what happens
\* when somebody does).
THEOREM DoneAlwaysSettled ==
    ASSUME Timely, "retry" \notin Commands
    PROVE  Spec => []DoneIsSettled
<1>1. Init => RowsInv
  BY ActorAssumption DEF Init, QueueInit, NoRow, EngineInit, RowsInv, RowOK, DonePC
<1>2. RowsContext /\ RowsInv /\ [Next]_allVars => RowsInv'
  BY RowsInvStep
<1>3. Spec => []RowsContext
  <2>1. Spec => []FileOK
    BY FileInit, FileStep, PTL DEF Spec
  <2>2. Spec => []QueueTypeOK /\ []ProjectTypeOK
    BY SystemUsesStores, QueueTypeCorrect, ProjectTypeCorrect, PTL
  <2>3. QED  BY <2>1, <2>2, ActorAlways, MovedAloneAlways, PTL DEF RowsContext
<1>4. RowsContext /\ RowsInv => DoneIsSettled
  <2> SUFFICES ASSUME RowsContext, RowsInv, NEW p \in Projects, queue[p].status = "done"
               PROVE  /\ \A t \in Tasks : tasks[p][t].status # "pending"
                      /\ moved[p] \/ \A w \in Workers : at[w] # p
    BY DEF DoneIsSettled
  <2>1. RowOK(p)
    BY DEF RowsInv
  <2>2. QED  BY <2>1 DEF RowOK, Held, Buried, NonePending
<1>5. QED  BY <1>1, <1>2, <1>3, <1>4, PTL DEF Spec
=============================================================================
