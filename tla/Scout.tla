------------------------------- MODULE Scout --------------------------------
(***************************************************************************)
(* LegalScout: worker processes and commands on one workspace, the passing *)
(* of time, and processes that die.                                        *)
(***************************************************************************)
EXTENDS Commands

CONSTANTS
    Timely,         \* is every lease of a live actor used or renewed in time?
    MaxCrashes,     \* bound: processes that die
    MaxFaults       \* bound: store and file errors

ASSUME BoundAssumption ==
    Timely \in BOOLEAN /\ MaxCrashes \in Nat /\ MaxFaults \in Nat

VARIABLE crashes    \* how many more processes may die

allVars == <<vars, crashes>>

Init ==
    /\ QueueInit
    /\ ProjectInit
    /\ EngineInit
    /\ faults = MaxFaults
    /\ crashes = MaxCrashes
-----------------------------------------------------------------------------
\* Kill, power loss, Ctrl-C: the process is gone between two calls.
Crash ==
    /\ crashes > 0
    /\ crashes' = crashes - 1
    /\ \/ \E P \in Processes : /\ ~Idle(P)
                               /\ Ended(P)
                               /\ slots' = SlotsLeft(P, {})
       \/ \E u \in Users : /\ pc[u] # "off"
                           /\ Ended({u})
                           /\ UNCHANGED slots
    /\ UNCHANGED faults

\* Workers in a turn: from ClaimProject to the last call on the project's row.
InTurn(w) == w \in Workers /\ at[w] # NoOne

\* The leases a live actor relies on would stay above their last second.
Ageable(left) == left > 1
OnTime(a) ==
    /\ \A s \in Slots : slots[s].holder = a => Ageable(slots[s].left)
    /\ \A p \in Projects : locks[p].holder = a => Ageable(locks[p].left)
    /\ InTurn(a) =>
          /\ IsRunning(at[a]) => Ageable(queue[at[a]].left)
          /\ \A t \in todo[a] : tasks[at[a]][t].status = "running"
                                => Ageable(tasks[at[a]][t].left)

(***************************************************************************)
(* A second passes.  When Timely, no turn and no command outlasts the      *)
(* lease it took: the browser gives up after minutes, a lease is ten, and  *)
(* a review renews its own.  Without it a machine may sleep in the middle. *)
(***************************************************************************)
Tick ==
    /\ Timely => \A a \in Holders : pc[a] # "off" => OnTime(a)
    /\ QueueTick
    /\ ProjectTick
    /\ patience' = [w \in Workers |-> Aged(patience[w])]
    /\ UNCHANGED <<pc, at, todo, idle, failing, fileVars, faults, crashes>>

Next ==
    \/ \E w \in Workers : (WorkerStep(w) \/ StoreError(w)) /\ UNCHANGED crashes
    \/ \E u \in Users :
          (CommandBegins(u) \/ CommandStep(u) \/ Heartbeat(u) \/ CommandError(u))
          /\ UNCHANGED crashes
    \/ Crash
    \/ Tick

Spec == Init /\ [][Next]_allVars

(***************************************************************************)
(* Goroutines are scheduled, a command that was begun goes on, and time    *)
(* passes: nothing is owed to commands that nobody types, and nothing      *)
(* fails or crashes out of duty.                                           *)
(***************************************************************************)
FairSpec ==
    /\ Spec
    /\ \A w \in Workers : WF_allVars(WorkerStep(w) /\ UNCHANGED crashes)
    /\ \A u \in Users : WF_allVars(CommandStep(u) /\ UNCHANGED crashes)
    /\ WF_allVars(Tick)

\* And a user who comes back to type start, or archive, for every project.
KeepsStarting ==
    \A u \in Users, p \in Projects : SF_allVars(BeginStart(u, p) /\ UNCHANGED crashes)
KeepsArchiving ==
    \A u \in Users, p \in Projects : SF_allVars(BeginArchive(u, p) /\ UNCHANGED crashes)
-----------------------------------------------------------------------------
\* Who has the project's lock, by where it is in the code.
InsidePC ==
    {"check", "active", "next", "execute",
     "unlock_archived", "unlock_cancelled", "unlock_done", "unlock_turn",
     "enq_check", "enqueue", "launch", "enq_done",
     "arc_recheck", "arc_mark", "arc_unlock",
     "rev_check", "rev_list", "rev_run", "unlock_cmd"}

Inside(a) == pc[a] \in InsidePC

TypeOK ==
    /\ QueueTypeOK
    /\ ProjectTypeOK
    /\ pc \in [Holders -> WorkerPC \cup UserPC]
    /\ \A w \in Workers : pc[w] \in WorkerPC
    /\ \A u \in Users : pc[u] \in UserPC
    /\ at \in [Holders -> Projects \cup {NoOne}]
    /\ todo \in [Holders -> SUBSET Tasks]
    /\ idle \subseteq Workers
    /\ failing \subseteq Holders
    /\ patience \in [Workers -> Patience]
    /\ tombstone \in [Projects -> BOOLEAN]
    /\ moved \in [Projects -> BOOLEAN]
    /\ faults \in Nat
    /\ crashes \in Nat

\* Two actors are never at the same project's tasks at once, through any
\* interleaving of turns, starts, reviews and archives, crashes, failing
\* statements and expiring leases.
MutualExclusion ==
    \A a, b \in Holders :
        Inside(a) /\ Inside(b) /\ at[a] = at[b] => a = b

\* What keeps them apart: whoever is inside has the lock's row, unexpired.
LockHeld ==
    \A a \in Holders : Inside(a) =>
        /\ locks[at[a]].holder = a
        /\ Live(locks[at[a]].left)

\* A worker that executes a task works on one that is running, its own alone.
ExecutesRunning ==
    \A w \in Workers : pc[w] = "execute" =>
        \E t \in Tasks : todo[w] = {t} /\ tasks[at[w]][t].status = "running"

\* No more workers execute than there are slots, however processes come for a
\* slot, renew it, wait for one and leave.
BrowsersWithinSlots ==
    Cardinality({w \in Workers : pc[w] = "execute"}) =< MaxSlots

\* A confirmed result is final: no retry, restart, review or late answer of
\* another executor changes it or its screenshot.
ConfirmedIsFinal ==
    [][\A p \in Projects, t \in Tasks :
          tasks[p][t].status = "confirmed" =>
              /\ tasks'[p][t].status = "confirmed"
              /\ tasks'[p][t].shot = tasks[p][t].shot]_allVars

\* The archive renames a project's directory without the lock, and still
\* nobody is at work on a task in it: those who come for the lock after the
\* archive gave it back find the tombstone.
OnlyIdleMoved ==
    [][\A p \in Projects :
          ~moved[p] /\ moved'[p] =>
              \A a \in Holders :
                  at[a] = p => pc[a] \notin {"execute", "rev_run"}]_allVars

\* A row says done only when nothing of its project waits to be executed and
\* nobody is in a turn on it, through crashes, failing statements and archives:
\* of two workers at one project one is about to find it archived.
DoneIsSettled ==
    \A p \in Projects : queue[p].status = "done" =>
        /\ \A t \in Tasks : tasks[p][t].status # "pending"
        /\ moved[p] \/ \A w \in Workers : at[w] # p

\* The whole system is a board of tasks: it never settles a task twice, and
\* reopens none but by retry.  Claims, recoveries, crashes, archives and time
\* are steps that the board does not see.
BoardOf == [p \in Projects |-> [t \in Tasks |->
              IF tasks[p][t].status \in {"pending", "running"} THEN "open"
              ELSE tasks[p][t].status]]

Board == INSTANCE TaskBoard WITH board <- BoardOf

ImplementsBoard == Board!BoardSpec

\* A project is never blocked by a tombstone that no archive stands by, but
\* for a process that died, and for the two file operations that leave one
\* when they themselves fail: writing it (root.go:443) and taking it away.
\* Every other error path of archive, the rollback of the rename included,
\* takes its tombstone along, also under several archives of one project.
Stranded(p) ==
    /\ Archiving(p)
    /\ \A u \in Users : at[u] = p =>
          pc[u] \notin {"arc_unlock", "arc_move", "arc_drop", "arc_abort"}

TombstonesAttended ==
    [][\A p \in Projects : ~Stranded(p) /\ Stranded(p)' =>
          \/ crashes' < crashes
          \/ /\ faults' < faults
             /\ \E u \in Users : /\ at[u] = p /\ pc'[u] # pc[u]
                                /\ pc[u] \in {"arc_mark", "arc_abort"}]_allVars
-----------------------------------------------------------------------------
Archives(u) == pc[u] \in {"arc_lock", "arc_recheck", "arc_mark", "arc_unlock",
                          "arc_move", "arc_drop", "arc_clear", "arc_abort"}

Settled(p) == \A t \in Tasks : tasks[p][t].status \notin {"pending", "running"}

\* While nothing crashes, a start that reported success is followed by a
\* result for every task, also when the workers it launched found the slots
\* taken or the project locked, or were about to leave.
StartedSettles ==
    \A p \in Projects :
        (\E u \in Users : pc[u] = "enq_done" /\ at[u] = p) ~> Settled(p)

\* Whatever crashed or failed, at any point, starting again is enough: no row,
\* lock or lease left behind keeps a task from its result, unless an archive
\* that died, or whose marker could not be written or removed, left a tombstone.
StartingAgainSettles ==
    KeepsStarting /\ <>[](\A u \in Users : ~Archives(u)) =>
        \A p \in Projects : <>(Settled(p) \/ moved[p]) \/ <>[]Archiving(p)

\* Whatever an archive or a worker that died left behind, a tombstone, a row
\* or a lock, typing archive again is enough, once no worker is about.
ArchivingAgainArchives ==
    KeepsArchiving /\ <>[](\A w \in Workers : pc[w] = "off") =>
        \A p \in Projects : <>[]moved[p]
=============================================================================
