------------------------------- MODULE Engine -------------------------------
(***************************************************************************)
(* The background workers (internal/worker/worker.go).  A process runs the *)
(* goroutines of one RunUntilIdle; each of them is a worker, which waits   *)
(* for a slot and then takes turns (RunOnce) until two rounds in a row     *)
(* found nothing queued.  An action is one call on a store or one look at  *)
(* the file system; pc names the call that comes next.                     *)
(*                                                                         *)
(*   slot -> renew -> claim -> resolve -> open -> lock -> check -> active  *)
(*        -> next -> execute -> unlock_turn -> requeue -> renew ...        *)
(*                                                                         *)
(* and every early return of RunOnce is a branch of its own.  A statement  *)
(* that fails (SQLITE_BUSY past its timeout, a full disk, a database whose *)
(* file was moved) is StoreError.                                          *)
(***************************************************************************)
EXTENDS QueueStore, ProjectStore

CONSTANTS
    Processes,      \* worker processes, each the set of its workers
    Users           \* those who run commands

Workers == UNION Processes

ASSUME ActorAssumption ==
    /\ Workers \cup Users = Holders
    /\ Workers \cap Users = {}
    /\ \A P, Q \in Processes : P # Q => P \cap Q = {}
    /\ NoOne \notin Projects

VARIABLES
    pc,             \* actor -> the call it makes next
    at,             \* actor -> the project it is at, or NoOne
    todo,           \* actor -> the tasks it still has to execute
    idle,           \* the workers whose last round found nothing
    failing,        \* the actors that return an error when they are done
    patience,       \* worker -> seconds until it stops waiting for a slot
    tombstone,      \* project -> is there a file "archiving" in its directory
    moved,          \* project -> was its directory renamed into _archive
    faults          \* bound: store and file errors that may still happen

actorVars == <<pc, at, todo, idle, failing, patience>>
fileVars  == <<tombstone, moved>>
vars      == <<queueVars, projectVars, actorVars, fileVars, faults>>

Waits    == Lease + 2               \* Lease + one second + waitStep
Patience == Expired .. Waits

WorkerPC == {"off", "slot", "renew", "claim", "resolve", "gone", "open", "fail",
             "lock", "check", "active", "next", "execute",
             "unlock_archived", "unlock_cancelled", "unlock_done", "unlock_turn",
             "remove", "finish", "requeue", "quit"}

\* IsArchiving: the file is looked for in the project's own place.
Archiving(p) == tombstone[p] /\ ~moved[p]

Step(a, from, to) == pc[a] = from /\ pc' = [pc EXCEPT ![a] = to]

QueueOnly   == UNCHANGED <<projectVars, fileVars, faults>>
ProjectOnly == UNCHANGED <<queueVars, fileVars, faults>>
StoresKept  == UNCHANGED <<queueVars, projectVars, fileVars, faults>>
StayingAt   == UNCHANGED <<at, todo, idle, failing, patience>>

\* A statement fails where its error is dropped, and the call goes on.
Dropped(lost) == IF lost THEN faults > 0 /\ faults' = faults - 1 ELSE UNCHANGED faults

\* RunOnce returns: to the loop, or through the deferred release of the slot.
TurnOver(w) ==
    /\ pc' = [pc EXCEPT ![w] = IF w \in failing THEN "quit" ELSE "renew"]
    /\ at' = [at EXCEPT ![w] = NoOne]
    /\ UNCHANGED <<todo, idle, failing, patience>>

\* The actors S are gone: goroutines that returned, a process that exited.
Ended(S) ==
    /\ pc' = [a \in Holders |-> IF a \in S THEN "off" ELSE pc[a]]
    /\ at' = [a \in Holders |-> IF a \in S THEN NoOne ELSE at[a]]
    /\ todo' = [a \in Holders |-> IF a \in S THEN {} ELSE todo[a]]
    /\ idle' = idle \ S
    /\ failing' = failing \ S
    /\ patience' = [w \in Workers |-> IF w \in S THEN Expired ELSE patience[w]]
    /\ locks' = LocksLeft(S, {})
    /\ UNCHANGED <<tasks, shots, queue, lastStarted, thisSecond, fileVars>>

ProcessOf(w) == CHOOSE P \in Processes : w \in P
-----------------------------------------------------------------------------
\* The slot.  Without one by the deadline the worker returns without an error.
AwaitSlot(w) ==
    \/ /\ Step(w, "slot", "renew")
       /\ AcquireWorker(w, MaxSlots)
       /\ patience' = [patience EXCEPT ![w] = Expired]
       /\ UNCHANGED <<at, todo, idle, failing>> /\ QueueOnly
    \/ /\ pc[w] = "slot"
       /\ NoSlot(w, MaxSlots)
       /\ ~Live(patience[w])
       /\ Ended({w})
       /\ UNCHANGED <<slots, faults>>

RenewSlot(w) ==
    \/ /\ Step(w, "renew", "claim")
       /\ AcquireWorker(w, MaxSlots)
       /\ StayingAt /\ QueueOnly
    \/ /\ Step(w, "renew", "quit")          \* "worker slot lease was lost"
       /\ NoSlot(w, MaxSlots)
       /\ failing' = failing \cup {w}
       /\ UNCHANGED <<at, todo, idle, patience>> /\ StoresKept

\* ClaimProject; the second round in a row that finds nothing is the last.
Claim(w) ==
    \/ \E p \in Projects :
          /\ Step(w, "claim", "resolve")
          /\ ClaimProject(p)
          /\ at' = [at EXCEPT ![w] = p]
          /\ idle' = idle \ {w}
          /\ UNCHANGED <<todo, failing, patience>> /\ QueueOnly
    \/ /\ Step(w, "claim", IF w \in idle THEN "quit" ELSE "renew")
       /\ NothingQueued
       /\ idle' = idle \cup {w}
       /\ UNCHANGED <<at, todo, failing, patience>> /\ StoresKept

\* Workspace.Resolve, which lists the directories.
Resolve(w) ==
    /\ Step(w, "resolve", IF moved[at[w]] THEN "gone" ELSE "open")
    /\ StayingAt /\ StoresKept

Gone(w) ==
    /\ Step(w, "gone", IF Archiving(at[w]) THEN "remove" ELSE "fail")
    /\ StayingAt /\ StoresKept

\* OpenProject, which needs the directory that Resolve found.
OpenStore(w) ==
    /\ Step(w, "open", IF moved[at[w]] THEN "fail" ELSE "lock")
    /\ StayingAt /\ StoresKept

FailProject(w) ==
    /\ pc[w] = "fail"
    /\ Fail(at[w])
    /\ TurnOver(w) /\ QueueOnly

\* Mutated: a project that is locked counts as finished.
LockBusyFinished(w) ==
    \/ /\ Step(w, "lock", "check")
       /\ ~moved[at[w]]
       /\ AcquireLock(at[w], w, Lease)
       /\ StayingAt /\ ProjectOnly
    \/ /\ Step(w, "lock", "finish")
       /\ ~LockOpen(at[w], w)
       /\ StayingAt /\ StoresKept

\* An upsert that changes no row writes no page, so only the other one needs
\* the database where it was opened.
LockProject(w) ==
    \/ /\ Step(w, "lock", "check")
       /\ ~moved[at[w]]
       /\ AcquireLock(at[w], w, Lease)
       /\ StayingAt /\ ProjectOnly
    \/ /\ Step(w, "lock", "requeue")
       /\ ~LockOpen(at[w], w)
       /\ StayingAt /\ StoresKept

\* Mutated: the tombstone is not looked for under the lock.
CheckNothing(w) ==
    /\ Step(w, "check", "active")
    /\ StayingAt /\ StoresKept

CheckArchiving(w) ==
    /\ Step(w, "check", IF Archiving(at[w]) THEN "unlock_archived" ELSE "active")
    /\ StayingAt /\ StoresKept

CheckActive(w) ==
    /\ Step(w, "active", IF IsRunning(at[w]) THEN "next" ELSE "unlock_cancelled")
    /\ StayingAt /\ StoresKept

NextTask(w) ==
    \/ \E t \in Tasks :
          /\ Step(w, "next", "execute")
          /\ ~moved[at[w]]
          /\ ClaimNext(at[w], t)
          /\ todo' = [todo EXCEPT ![w] = {t}]
          /\ UNCHANGED <<at, idle, failing, patience>> /\ ProjectOnly
    \/ /\ Step(w, "next", "unlock_done")
       /\ NothingPending(at[w])
       /\ StayingAt /\ StoresKept

\* Preflight, the browser's run, the capture and Complete; the first three
\* change no store, so their outcome is the choice of r.
Execute(w) ==
    \E t \in todo[w], r \in Results, lost \in BOOLEAN :
        /\ Step(w, "execute", "unlock_turn")
        /\ ~moved[at[w]]
        /\ Complete(at[w], t, r, r = "confirmed", lost)
        /\ Dropped(lost)
        /\ todo' = [todo EXCEPT ![w] = {}]
        /\ UNCHANGED <<at, idle, failing, patience, queueVars, fileVars>>

\* What follows the release, if there is anything.
AfterUnlock(w) ==
    CASE pc[w] = "unlock_archived" -> "remove"
      [] pc[w] = "unlock_done" -> "finish"
      [] pc[w] = "unlock_turn" -> "requeue"
      [] OTHER -> "over"

Unlock(w) ==
    /\ pc[w] \in {"unlock_archived", "unlock_cancelled", "unlock_done", "unlock_turn"}
    /\ ~moved[at[w]]
    /\ ReleaseLock(at[w], w)
    /\ IF AfterUnlock(w) = "over"
       THEN TurnOver(w)
       ELSE pc' = [pc EXCEPT ![w] = AfterUnlock(w)] /\ StayingAt
    /\ ProjectOnly

RemoveProject(w) ==
    /\ pc[w] = "remove"
    /\ Remove(at[w])
    /\ TurnOver(w) /\ QueueOnly

FinishProject(w) ==
    /\ pc[w] = "finish"
    /\ Finish(at[w])
    /\ TurnOver(w) /\ QueueOnly

RequeueProject(w) ==
    /\ pc[w] = "requeue"
    /\ Requeue(at[w])
    /\ TurnOver(w) /\ QueueOnly

\* The deferred ReleaseWorker.  An error ends RunUntilIdle and with it the
\* process, wherever the other workers of it are.
Leaving(w) == IF w \in failing THEN ProcessOf(w) ELSE {w}

Quit(w) ==
    /\ pc[w] = "quit"
    /\ Ended(Leaving(w))
    /\ slots' = SlotsLeft(Leaving(w), {w})
    /\ UNCHANGED faults
-----------------------------------------------------------------------------
\* A statement fails and changes nothing.  It must when the database it is on
\* was renamed away under an open connection, and may while faults are left.
Strikes(a, projectCall) ==
    IF projectCall /\ at[a] # NoOne /\ moved[at[a]]
    THEN UNCHANGED faults
    ELSE faults > 0 /\ faults' = faults - 1

\* Calls that leave RunOnce with the error, through the release of the slot.
FailingCall(w) ==
    \/ pc[w] \in {"renew", "claim", "fail", "remove", "finish", "requeue"} /\ Strikes(w, FALSE)
    \/ pc[w] \in {"lock", "unlock_archived", "unlock_cancelled",
                  "unlock_done", "unlock_turn"} /\ Strikes(w, TRUE)

StoreError(w) ==
    \/ /\ FailingCall(w)
       /\ pc' = [pc EXCEPT ![w] = "quit"]
       /\ at' = [at EXCEPT ![w] = NoOne]
       /\ failing' = failing \cup {w}
       /\ UNCHANGED <<todo, idle, patience, queueVars, projectVars, fileVars>>
    \/ /\ Step(w, "resolve", "gone") \/ Step(w, "open", "fail")
       /\ Strikes(w, FALSE)
       /\ UNCHANGED <<at, todo, idle, failing, patience, queueVars, projectVars, fileVars>>
    \/ /\ Step(w, "active", "unlock_cancelled") \* IsRunning: no Requeue
       /\ Strikes(w, FALSE)
       /\ failing' = failing \cup {w}
       /\ UNCHANGED <<at, todo, idle, patience, queueVars, projectVars, fileVars>>
    \/ /\ pc[w] \in {"next", "execute"}         \* releaseThenRequeue
       /\ Strikes(w, TRUE)
       /\ pc' = [pc EXCEPT ![w] = "unlock_turn"]
       /\ todo' = [todo EXCEPT ![w] = {}]
       /\ failing' = failing \cup {w}
       /\ UNCHANGED <<at, idle, patience, queueVars, projectVars, fileVars>>
    \/ /\ pc[w] \in {"slot", "quit"}            \* the slot cannot be had or given back
       /\ Strikes(w, FALSE)
       /\ Ended(ProcessOf(w))
       /\ slots' = SlotsLeft(ProcessOf(w), {})
-----------------------------------------------------------------------------
WorkerStep(w) ==
    \/ AwaitSlot(w)
    \/ RenewSlot(w)
    \/ Claim(w)
    \/ Resolve(w)
    \/ Gone(w)
    \/ OpenStore(w)
    \/ FailProject(w)
    \/ LockProject(w)
    \/ CheckArchiving(w)
    \/ CheckActive(w)
    \/ NextTask(w)
    \/ Execute(w)
    \/ Unlock(w)
    \/ RemoveProject(w)
    \/ FinishProject(w)
    \/ RequeueProject(w)
    \/ Quit(w)

\* StartDetached: the workers of a process that does not run yet.
Launched(P) ==
    /\ \A w \in P : pc[w] = "off"
    /\ patience' = [w \in Workers |-> IF w \in P THEN Waits ELSE patience[w]]

EngineInit ==
    /\ pc = [a \in Holders |-> "off"]
    /\ at = [a \in Holders |-> NoOne]
    /\ todo = [a \in Holders |-> {}]
    /\ idle = {}
    /\ failing = {}
    /\ patience = [w \in Workers |-> Expired]
    /\ tombstone = [p \in Projects |-> FALSE]
    /\ moved = [p \in Projects |-> FALSE]
=============================================================================
