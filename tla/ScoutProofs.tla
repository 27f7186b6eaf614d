---------------------------- MODULE ScoutProofs -----------------------------
(***************************************************************************)
(* The system of workers and commands, for every number of projects,       *)
(* tasks, processes, workers and users, crashes and failing statements.    *)
(* First the project's lock, which does its work as long as every lease is *)
(* used or renewed in time.  Then the stores, which workers and commands   *)
(* use by their calls and in no other way: what StoreProofs says of them   *)
(* holds in the system, and with it the system's type invariant.  Then the *)
(* worker slots, which bound the browsers, and the archives, which move    *)
(* only idle projects and leave no tombstone behind.                       *)
(***************************************************************************)
EXTENDS Scout, StoreProofs

\* Where an actor has no project.
NowherePC == {"off", "slot", "renew", "claim", "quit"}

Nowhere(a) == pc[a] \in NowherePC

\* What the argument needs of the types: an actor that is anywhere is at a
\* project.
PlaceOK ==
    /\ pc \in [Holders -> WorkerPC \cup UserPC]
    /\ at \in [Holders -> Projects \cup {NoOne}]
    /\ locks \in [Projects -> LockRow]
    /\ \A a \in Holders : ~Nowhere(a) => at[a] \in Projects

\* The inductive invariant: LockHeld speaks of the row at[a], which is one
\* only if at[a] is a project.
LockInv == PlaceOK /\ LockHeld

\* Whoever has a live lock has it still, but for those of S.
LocksKept(S) ==
    \A p \in Projects, a \in Holders \ S :
        locks[p].holder = a /\ Live(locks[p].left) => locks'[p] = locks[p]

\* Only the actors of S move.
OnlyMoves(S) ==
    \A a \in Holders \ S : pc'[a] = pc[a] /\ at'[a] = at[a]
-----------------------------------------------------------------------------
(* The stores' calls and the locks *)

\* Who is inside is at a project.
LEMMA InsideSomewhere ==
    ASSUME PlaceOK, NEW a \in Holders, Inside(a)
    PROVE  at[a] \in Projects
BY DEF PlaceOK, Inside, InsidePC, Nowhere, NowherePC

\* No call and no departure takes a live lock from another.
LEMMA CallsKeepLocks ==
    ASSUME PlaceOK, NEW h \in Holders, NEW p \in Projects
    PROVE  /\ AcquireLock(p, h, Lease) =>
                 /\ LocksKept({h}) /\ locks' \in [Projects -> LockRow]
                 /\ locks'[p].holder = h /\ Live(locks'[p].left)
           /\ ReleaseLock(p, h) => LocksKept({h}) /\ locks' \in [Projects -> LockRow]
<1>1. ASSUME AcquireLock(p, h, Lease)
      PROVE  /\ LocksKept({h}) /\ locks' \in [Projects -> LockRow]
             /\ locks'[p].holder = h /\ Live(locks'[p].left)
  <2>1. locks' = [locks EXCEPT ![p] = [holder |-> h, left |-> Lease]]
    BY <1>1 DEF AcquireLock, LockTaken
  <2>2. [holder |-> h, left |-> Lease] \in LockRow
    BY LockRowTypes, LeaseAssumption
  <2>3. Live(Lease)
    BY LeaseAssumption DEF Live, Expired
  <2>4. LocksKept({h})
    BY <1>1, <2>1, HolderAssumption
       DEF AcquireLock, LockOpen, Takeable, LocksKept, PlaceOK
  <2>5. QED  BY <2>1, <2>2, <2>3, <2>4 DEF PlaceOK
<1>2. ASSUME ReleaseLock(p, h)
      PROVE  LocksKept({h}) /\ locks' \in [Projects -> LockRow]
  BY <1>2, LockRowTypes DEF ReleaseLock, LocksKept, PlaceOK
<1>3. QED  BY <1>1, <1>2

\* A departure keeps the locks of those who stay.
LEMMA DepartureKeepsLocks ==
    ASSUME PlaceOK, NEW S \in SUBSET Holders, NEW R, locks' = LocksLeft(S, R)
    PROVE  LocksKept(S) /\ locks' \in [Projects -> LockRow]
BY LockRowTypes DEF LocksLeft, LocksKept, Orphaned, PlaceOK

\* One argument for every step: those who do not move keep the lock they
\* have, and those who move are outside or have it.
LEMMA StepKeepsLockInv ==
    ASSUME LockInv, NEW S \in SUBSET Holders,
           pc' \in [Holders -> WorkerPC \cup UserPC],
           at' \in [Holders -> Projects \cup {NoOne}],
           locks' \in [Projects -> LockRow],
           LocksKept(S), OnlyMoves(S),
           \A a \in S : /\ ~Nowhere(a)' => at'[a] \in Projects
                        /\ Inside(a)' => locks'[at'[a]].holder = a /\ Live(locks'[at'[a]].left)
    PROVE  LockInv'
<1>1. PlaceOK'
  BY DEF LockInv, PlaceOK, Nowhere, OnlyMoves
<1>2. ASSUME NEW a \in Holders, Inside(a)'
      PROVE  locks'[at'[a]].holder = a /\ Live(locks'[at'[a]].left)
  <2>1. CASE a \in S
    BY <1>2, <2>1
  <2>2. CASE a \notin S
    <3>1. Inside(a) /\ at'[a] = at[a]
      BY <1>2, <2>2 DEF OnlyMoves, Inside
    <3>2. at[a] \in Projects /\ locks[at[a]].holder = a /\ Live(locks[at[a]].left)
      BY <3>1, InsideSomewhere DEF LockInv, LockHeld
    <3>3. QED  BY <2>2, <3>1, <3>2 DEF LocksKept
  <2>3. QED  BY <2>1, <2>2
<1>3. QED  BY <1>1, <1>2 DEF LockInv, LockHeld

\* A step of one actor.
LEMMA ActorKeepsLockInv ==
    ASSUME LockInv, NEW a \in Holders,
           pc' = [pc EXCEPT ![a] = pc'[a]], pc'[a] \in WorkerPC \cup UserPC,
           at' = [at EXCEPT ![a] = at'[a]], at'[a] \in Projects \cup {NoOne},
           locks' \in [Projects -> LockRow], LocksKept({a}),
           ~Nowhere(a)' => at'[a] \in Projects,
           Inside(a)' => locks'[at'[a]].holder = a /\ Live(locks'[at'[a]].left)
    PROVE  LockInv'
<1>1. /\ pc' \in [Holders -> WorkerPC \cup UserPC]
      /\ at' \in [Holders -> Projects \cup {NoOne}]
  BY DEF LockInv, PlaceOK
<1>2. OnlyMoves({a})
  BY DEF OnlyMoves, LockInv, PlaceOK
<1>3. {a} \in SUBSET Holders
  OBVIOUS
<1>4. QED  BY <1>1, <1>2, <1>3, StepKeepsLockInv

\* A step of one actor that stays at its project.
LEMMA StayingKeepsLockInv ==
    ASSUME LockInv, NEW a \in Holders, NEW to \in WorkerPC \cup UserPC,
           pc' = [pc EXCEPT ![a] = to], at' = at,
           locks' \in [Projects -> LockRow], LocksKept({a}),
           to \notin NowherePC => at[a] \in Projects,
           to \in InsidePC => locks'[at[a]].holder = a /\ Live(locks'[at[a]].left)
    PROVE  LockInv'
<1>1. pc'[a] = to /\ at'[a] = at[a] /\ at[a] \in Projects \cup {NoOne}
  BY DEF LockInv, PlaceOK
<1>2. pc' = [pc EXCEPT ![a] = pc'[a]] /\ at' = [at EXCEPT ![a] = at'[a]]
  BY <1>1 DEF LockInv, PlaceOK
<1>3. QED  BY <1>1, <1>2, ActorKeepsLockInv DEF Inside, Nowhere

\* A step of one actor on which the lock does not depend: it was inside
\* before, or is not inside after.
LEMMA GoingKeepsLockInv ==
    ASSUME LockInv, NEW a \in Holders, NEW to \in WorkerPC \cup UserPC,
           pc' = [pc EXCEPT ![a] = to], at' = at, locks' = locks,
           to \notin NowherePC => ~Nowhere(a),
           to \in InsidePC => Inside(a)
    PROVE  LockInv'
<1>1. locks' \in [Projects -> LockRow] /\ LocksKept({a})
  BY DEF LockInv, PlaceOK, LocksKept
<1>2. to \notin NowherePC => at[a] \in Projects
  BY DEF LockInv, PlaceOK
<1>3. to \in InsidePC => locks'[at[a]].holder = a /\ Live(locks'[at[a]].left)
  BY DEF LockInv, LockHeld
<1>4. QED  BY <1>1, <1>2, <1>3, StayingKeepsLockInv

\* An actor that gives its lock back and is not inside from then on.
LEMMA ReleaseKeepsLockInv ==
    ASSUME LockInv, NEW a \in Holders, NEW to \in WorkerPC \cup UserPC,
           pc' = [pc EXCEPT ![a] = to], ReleaseLock(at[a], a),
           at[a] \in Projects, to \notin InsidePC,
           at' = at \/ (to \in NowherePC /\ at' = [at EXCEPT ![a] = NoOne])
    PROVE  LockInv'
<1>1. locks' \in [Projects -> LockRow] /\ LocksKept({a})
  BY CallsKeepLocks DEF LockInv
<1>2. CASE at' = at
  BY <1>1, <1>2, StayingKeepsLockInv
<1>3. CASE to \in NowherePC /\ at' = [at EXCEPT ![a] = NoOne]
  <2>1. pc'[a] = to /\ at'[a] = NoOne
    BY <1>3 DEF LockInv, PlaceOK
  <2>2. QED  BY <1>1, <1>3, <2>1, ActorKeepsLockInv DEF Inside, Nowhere
<1>4. QED  BY <1>2, <1>3

\* An actor that takes the lock of its project is inside from then on.
LEMMA AcquireKeepsLockInv ==
    ASSUME LockInv, NEW a \in Holders, NEW to \in WorkerPC \cup UserPC,
           pc' = [pc EXCEPT ![a] = to], AcquireLock(at[a], a, Lease),
           at[a] \in Projects, at' = at
    PROVE  LockInv'
<1>1. /\ locks' \in [Projects -> LockRow] /\ LocksKept({a})
      /\ locks'[at[a]].holder = a /\ Live(locks'[at[a]].left)
  BY CallsKeepLocks DEF LockInv
<1>2. QED  BY <1>1, StayingKeepsLockInv

\* An actor that leaves its project and goes nowhere, the locks as they are.
LEMMA TurningKeepsLockInv ==
    ASSUME LockInv, NEW a \in Holders, NEW to \in NowherePC,
           pc' = [pc EXCEPT ![a] = to], at' = [at EXCEPT ![a] = NoOne],
           locks' = locks
    PROVE  LockInv'
<1>1. to \in WorkerPC \cup UserPC /\ to \notin InsidePC
  BY DEF NowherePC, WorkerPC, InsidePC
<1>2. locks' \in [Projects -> LockRow] /\ LocksKept({a})
  BY DEF LockInv, PlaceOK, LocksKept
<1>3. pc'[a] = to /\ at'[a] = NoOne
  BY DEF LockInv, PlaceOK
<1>4. QED  BY <1>1, <1>2, <1>3, ActorKeepsLockInv DEF Inside, Nowhere

\* Actors that are gone.
LEMMA EndedKeepsLockInv ==
    ASSUME LockInv, NEW S \in SUBSET Holders, Ended(S)
    PROVE  LockInv'
<1>1. LocksKept(S) /\ locks' \in [Projects -> LockRow]
  BY DepartureKeepsLocks DEF Ended, LockInv
<1>2. /\ pc' \in [Holders -> WorkerPC \cup UserPC]
      /\ at' \in [Holders -> Projects \cup {NoOne}]
  BY DEF Ended, LockInv, PlaceOK, WorkerPC
<1>3. OnlyMoves(S)
  BY DEF Ended, OnlyMoves
<1>4. \A a \in S : pc'[a] = "off"
  BY DEF Ended
<1>5. \A a \in S : Nowhere(a)' /\ ~Inside(a)'
  BY <1>4 DEF Nowhere, NowherePC, Inside, InsidePC
<1>6. QED  BY <1>1, <1>2, <1>3, <1>5, StepKeepsLockInv
-----------------------------------------------------------------------------
(* Workers *)

\* A worker's process consists of workers.
LEMMA ProcessOfType ==
    ASSUME NEW w \in Workers
    PROVE  ProcessOf(w) \in Processes /\ w \in ProcessOf(w) /\ ProcessOf(w) \in SUBSET Holders
<1>1. \E P \in Processes : w \in P
  BY DEF Workers
<1>2. ProcessOf(w) \in Processes /\ w \in ProcessOf(w)
  BY <1>1 DEF ProcessOf
<1>3. QED  BY <1>2, ActorAssumption DEF Workers

\* A turn, call by call.
LEMMA WorkerKeepsLockInv ==
    ASSUME LockInv, NEW w \in Workers, WorkerStep(w)
    PROVE  LockInv'
<1>1. w \in Holders /\ {w} \in SUBSET Holders
  BY ActorAssumption
<1>2. ~Nowhere(w) => at[w] \in Projects
  BY <1>1 DEF LockInv, PlaceOK
<1>3. WorkerPC \subseteq WorkerPC \cup UserPC
  OBVIOUS
<1> USE DEF Step, StayingAt, QueueOnly, ProjectOnly, StoresKept,
            projectVars, queueVars, Nowhere, NowherePC, Inside, InsidePC
<1>4. ASSUME AwaitSlot(w) PROVE LockInv'
  <2>1. CASE Ended({w})
    BY <1>1, <2>1, EndedKeepsLockInv
  <2>2. CASE Step(w, "slot", "renew") /\ UNCHANGED <<at, locks>>
    BY <1>1, <2>2, GoingKeepsLockInv DEF WorkerPC
  <2>3. QED  BY <1>4, <2>1, <2>2 DEF AwaitSlot
<1>5. ASSUME RenewSlot(w) PROVE LockInv'
  <2>1. CASE Step(w, "renew", "claim") /\ UNCHANGED <<at, locks>>
    BY <1>1, <2>1, GoingKeepsLockInv DEF WorkerPC
  <2>2. CASE Step(w, "renew", "quit") /\ UNCHANGED <<at, locks>>
    BY <1>1, <2>2, GoingKeepsLockInv DEF WorkerPC
  <2>3. QED  BY <1>5, <2>1, <2>2 DEF RenewSlot
<1>6. ASSUME Claim(w) PROVE LockInv'
  <2>1. ASSUME NEW p \in Projects, Step(w, "claim", "resolve"),
               at' = [at EXCEPT ![w] = p], UNCHANGED locks
        PROVE  LockInv'
    <3>1. pc'[w] = "resolve" /\ at'[w] = p
      BY <1>1, <2>1 DEF LockInv, PlaceOK
    <3>2. locks' \in [Projects -> LockRow] /\ LocksKept({w})
      BY <2>1 DEF LockInv, PlaceOK, LocksKept
    <3>3. QED  BY <1>1, <2>1, <3>1, <3>2, ActorKeepsLockInv DEF WorkerPC
  <2>2. ASSUME NEW to \in {"quit", "renew"}, Step(w, "claim", to), UNCHANGED <<at, locks>>
        PROVE  LockInv'
    BY <1>1, <2>2, GoingKeepsLockInv DEF WorkerPC
  <2>3. QED  BY <1>6, <2>1, <2>2 DEF Claim
<1>7. ASSUME Resolve(w) \/ OpenStore(w) PROVE LockInv'
  <2>1. PICK from \in {"resolve", "open"}, to \in {"gone", "open", "fail", "lock"} :
            Step(w, from, to) /\ UNCHANGED <<at, locks>>
    BY <1>7 DEF Resolve, OpenStore
  <2>2. QED  BY <1>1, <2>1, GoingKeepsLockInv DEF WorkerPC
<1>8. ASSUME Gone(w) PROVE LockInv'
  <2>1. PICK to \in {"remove", "fail"} : Step(w, "gone", to) /\ UNCHANGED <<at, locks>>
    BY <1>8 DEF Gone
  <2>2. QED  BY <1>1, <2>1, GoingKeepsLockInv DEF WorkerPC
<1>9. ASSUME FailProject(w) \/ RemoveProject(w) \/ FinishProject(w) \/ RequeueProject(w)
      PROVE  LockInv'
  <2>1. PICK to \in {"quit", "renew"} :
            /\ pc' = [pc EXCEPT ![w] = to]
            /\ at' = [at EXCEPT ![w] = NoOne]
            /\ UNCHANGED locks
    BY <1>9 DEF FailProject, RemoveProject, FinishProject, RequeueProject, TurnOver
  <2>2. QED  BY <1>1, <2>1, TurningKeepsLockInv
<1>10. ASSUME LockProject(w) PROVE LockInv'
  <2>1. CASE Step(w, "lock", "check") /\ AcquireLock(at[w], w, Lease) /\ UNCHANGED at
    BY <1>1, <1>2, <2>1, AcquireKeepsLockInv DEF WorkerPC
  <2>2. CASE Step(w, "lock", "requeue") /\ UNCHANGED <<at, locks>>
    BY <1>1, <2>2, GoingKeepsLockInv DEF WorkerPC
  <2>3. QED  BY <1>10, <2>1, <2>2 DEF LockProject
<1>11. ASSUME CheckArchiving(w) PROVE LockInv'
  <2>1. PICK to \in {"unlock_archived", "active"} :
            Step(w, "check", to) /\ UNCHANGED <<at, locks>>
    BY <1>11 DEF CheckArchiving
  <2>2. QED  BY <1>1, <2>1, GoingKeepsLockInv DEF WorkerPC
<1>12. ASSUME CheckActive(w) PROVE LockInv'
  <2>1. PICK to \in {"next", "unlock_cancelled"} :
            Step(w, "active", to) /\ UNCHANGED <<at, locks>>
    BY <1>12 DEF CheckActive
  <2>2. QED  BY <1>1, <2>1, GoingKeepsLockInv DEF WorkerPC
<1>13. ASSUME NextTask(w) PROVE LockInv'
  <2>1. PICK to \in {"execute", "unlock_done"} :
            Step(w, "next", to) /\ UNCHANGED <<at, locks>>
    BY <1>13 DEF NextTask, ClaimNext
  <2>2. QED  BY <1>1, <2>1, GoingKeepsLockInv DEF WorkerPC
<1>14. ASSUME Execute(w) PROVE LockInv'
  <2>1. Step(w, "execute", "unlock_turn") /\ UNCHANGED <<at, locks>>
    BY <1>14 DEF Execute, Complete
  <2>2. QED  BY <1>1, <2>1, GoingKeepsLockInv DEF WorkerPC
<1>15. ASSUME Unlock(w) PROVE LockInv'
  <2>1. PICK to \in {"remove", "finish", "requeue", "renew", "quit"} :
            /\ pc' = [pc EXCEPT ![w] = to]
            /\ at' = at \/ (to \in NowherePC /\ at' = [at EXCEPT ![w] = NoOne])
    BY <1>15 DEF Unlock, AfterUnlock, TurnOver
  <2>2. at[w] \in Projects /\ ReleaseLock(at[w], w)
    BY <1>2, <1>15 DEF Unlock
  <2>3. to \in WorkerPC \cup UserPC /\ to \notin InsidePC
    BY <2>1 DEF WorkerPC
  <2>4. QED  BY <1>1, <2>1, <2>2, <2>3, ReleaseKeepsLockInv
<1>16. ASSUME Quit(w) PROVE LockInv'
  <2>1. Leaving(w) \in SUBSET Holders
    BY <1>1, ProcessOfType DEF Leaving
  <2>2. QED  BY <1>16, <2>1, EndedKeepsLockInv DEF Quit
<1>17. QED
  BY WorkerStep(w), <1>4, <1>5, <1>6, <1>7, <1>8, <1>9, <1>10, <1>11, <1>12, <1>13,
     <1>14, <1>15, <1>16 DEF WorkerStep

\* A statement that fails.
LEMMA StoreErrorKeepsLockInv ==
    ASSUME LockInv, NEW w \in Workers, StoreError(w)
    PROVE  LockInv'
<1>1. w \in Holders
  BY ActorAssumption
<1> USE DEF Step, projectVars, Nowhere, NowherePC, Inside, InsidePC
<1>2. CASE /\ pc' = [pc EXCEPT ![w] = "quit"]
           /\ at' = [at EXCEPT ![w] = NoOne]
           /\ UNCHANGED locks
  BY <1>1, <1>2, TurningKeepsLockInv
<1>3. CASE (Step(w, "resolve", "gone") \/ Step(w, "open", "fail")) /\ UNCHANGED <<at, locks>>
  BY <1>1, <1>3, GoingKeepsLockInv DEF WorkerPC
<1>4. CASE Step(w, "active", "unlock_cancelled") /\ UNCHANGED <<at, locks>>
  BY <1>1, <1>4, GoingKeepsLockInv DEF WorkerPC
<1>5. CASE /\ pc[w] \in {"next", "execute"}
           /\ pc' = [pc EXCEPT ![w] = "unlock_turn"]
           /\ UNCHANGED <<at, locks>>
  BY <1>1, <1>5, GoingKeepsLockInv DEF WorkerPC
<1>6. CASE Ended(ProcessOf(w))
  BY <1>6, ProcessOfType, EndedKeepsLockInv
<1>7. QED  BY <1>2, <1>3, <1>4, <1>5, <1>6 DEF StoreError
-----------------------------------------------------------------------------
(* Commands *)

\* A command that is anywhere is at a project, and so when it ends.
LEMMA LeavesLockKeepsLockInv ==
    ASSUME LockInv, NEW u \in Users, pc[u] \notin NowherePC, LeavesLock(u)
    PROVE  LockInv'
<1>1. u \in Holders /\ at[u] \in Projects
  BY ActorAssumption DEF LockInv, PlaceOK, Nowhere
<1>2. locks' = LocksLeft({u}, {at[u]} \ {p \in Projects : moved[p]})
  BY DEF LeavesLock
<1>3. {u} \in SUBSET Holders
  BY <1>1
<1>4. locks' \in [Projects -> LockRow] /\ LocksKept({u})
  BY <1>2, <1>3, DepartureKeepsLocks DEF LockInv
<1>5. pc' = [pc EXCEPT ![u] = "off"] /\ at' = [at EXCEPT ![u] = NoOne]
  BY DEF LeavesLock
<1>6. pc'[u] = "off" /\ at'[u] = NoOne
  BY <1>1, <1>5 DEF LockInv, PlaceOK
<1>7. "off" \in WorkerPC /\ "off" \in NowherePC /\ "off" \notin InsidePC
  BY DEF WorkerPC, NowherePC, InsidePC
<1>8. QED
  BY <1>1, <1>4, <1>5, <1>6, <1>7, ActorKeepsLockInv DEF Inside, Nowhere

\* A command that takes the lock, or exits because it cannot have it.
LEMMA TakesLockKeepsLockInv ==
    ASSUME LockInv, NEW u \in Users, NEW from, NEW to \in UserPC,
           from \notin NowherePC, TakesLock(u, from, to)
    PROVE  LockInv'
<1>1. u \in Holders /\ {u} \in SUBSET Holders
  BY ActorAssumption
<1>2. CASE Step(u, from, to) /\ AcquireLock(at[u], u, Lease) /\ UNCHANGED at
  <2>1. at[u] \in Projects
    BY <1>1, <1>2 DEF Step, LockInv, PlaceOK, Nowhere
  <2>2. QED  BY <1>1, <1>2, <2>1, AcquireKeepsLockInv DEF Step
<1>3. CASE Ended({u})
  BY <1>1, <1>3, EndedKeepsLockInv
<1>4. QED  BY <1>2, <1>3 DEF TakesLock, StayingAt, Exits

\* A command that begins is at its project, and not inside.
LEMMA BeginKeepsLockInv ==
    ASSUME LockInv, NEW u \in Users, NEW p \in Projects,
           NEW entry \in {"enq_lock", "arc_lock", "rev_lock"},
           Begin(u, p, entry), UNCHANGED locks
    PROVE  LockInv'
<1>1. u \in Holders
  BY ActorAssumption
<1>2. pc' = [pc EXCEPT ![u] = entry] /\ at' = [at EXCEPT ![u] = p]
  BY DEF Begin, Step
<1>3. pc'[u] = entry /\ at'[u] = p
  BY <1>1, <1>2 DEF LockInv, PlaceOK
<1>4. locks' \in [Projects -> LockRow] /\ LocksKept({u})
  BY DEF LockInv, PlaceOK, LocksKept
<1>5. QED
  BY <1>1, <1>2, <1>3, <1>4, ActorKeepsLockInv
     DEF UserPC, Inside, InsidePC, Nowhere, NowherePC

\* A launch: the workers of the process wait for a slot, outside.
LEMMA LaunchKeepsLockInv ==
    ASSUME LockInv, NEW u \in Users, Launch(u)
    PROVE  LockInv'
<1>1. PICK P \in Processes :
         /\ pc[u] = "launch"
         /\ \A w \in P : pc[w] = "off"
         /\ pc' = [a \in Holders |-> CASE a = u -> "enq_done"
                                       [] a \in P -> "slot"
                                       [] OTHER -> pc[a]]
         /\ UNCHANGED <<at, locks>>
  BY DEF Launch, Launched, StoresKept, projectVars
<1> DEFINE S == P \cup {u}
<1>2. u \in Holders /\ P \in SUBSET Workers /\ S \in SUBSET Holders
  BY ActorAssumption DEF Workers
<1>3. u \notin P
  BY <1>1
<1>4. pc' \in [Holders -> WorkerPC \cup UserPC]
  BY <1>1 DEF LockInv, PlaceOK, WorkerPC, UserPC
<1>5. locks' \in [Projects -> LockRow] /\ LocksKept(S) /\ at' \in [Holders -> Projects \cup {NoOne}]
  BY <1>1 DEF LockInv, PlaceOK, LocksKept
<1>6. OnlyMoves(S)
  <2>1. \A a \in Holders \ S : pc'[a] = pc[a]
    BY <1>1
  <2>2. QED  BY <1>1, <2>1 DEF OnlyMoves
<1>7. ASSUME NEW a \in S
      PROVE  /\ ~Nowhere(a)' => at'[a] \in Projects
             /\ Inside(a)' => locks'[at'[a]].holder = a /\ Live(locks'[at'[a]].left)
  <2>1. CASE a = u
    <3>1. Inside(u) /\ ~Nowhere(u)
      BY <1>1 DEF Inside, InsidePC, Nowhere, NowherePC
    <3>2. QED  BY <1>1, <1>2, <2>1, <3>1 DEF LockInv, PlaceOK, LockHeld
  <2>2. CASE a # u
    <3>1. pc'[a] = "slot"
      BY <1>1, <1>2, <2>2
    <3>2. Nowhere(a)' /\ ~Inside(a)'
      BY <3>1 DEF Inside, InsidePC, Nowhere, NowherePC
    <3>3. QED  BY <3>2
  <2>3. QED  BY <2>1, <2>2
<1> HIDE DEF S
<1>8. QED  BY <1>2, <1>4, <1>5, <1>6, <1>7, StepKeepsLockInv

\* The end of an archive, which gives up what lock it has.
LEMMA ArchiveClearKeepsLockInv ==
    ASSUME LockInv, NEW u \in Users, ArchiveClear(u)
    PROVE  LockInv'
<1>1. u \in Holders /\ {u} \in SUBSET Holders
  BY ActorAssumption
<1>2. /\ pc' = [pc EXCEPT ![u] = "off"]
      /\ at' = [at EXCEPT ![u] = NoOne]
      /\ locks' = LocksLeft({u}, {})
  BY DEF ArchiveClear
<1>3. pc'[u] = "off" /\ at'[u] = NoOne
  BY <1>1, <1>2 DEF LockInv, PlaceOK
<1>4. locks' \in [Projects -> LockRow] /\ LocksKept({u})
  BY <1>1, <1>2, DepartureKeepsLocks DEF LockInv
<1>5. "off" \in WorkerPC /\ "off" \in NowherePC /\ "off" \notin InsidePC
  BY DEF WorkerPC, NowherePC, InsidePC
<1>6. QED
  BY <1>1, <1>2, <1>3, <1>4, <1>5, ActorKeepsLockInv DEF Inside, Nowhere

\* The heartbeat of a review.
LEMMA HeartbeatKeepsLockInv ==
    ASSUME LockInv, NEW u \in Users, Heartbeat(u)
    PROVE  LockInv'
<1>1. u \in Holders /\ at[u] \in Projects
  BY ActorAssumption DEF Heartbeat, LockInv, PlaceOK, Nowhere, NowherePC
<1>2. pc' = [pc EXCEPT ![u] = "rev_run"] /\ at' = at
  BY <1>1 DEF Heartbeat, LockInv, PlaceOK
<1>3. "rev_run" \in UserPC
  BY DEF UserPC
<1>4. CASE AcquireLock(at[u], u, Lease)
  BY <1>1, <1>2, <1>3, <1>4, AcquireKeepsLockInv
<1>5. CASE locks' = locks
  <2>1. Inside(u) /\ ~Nowhere(u)
    BY DEF Heartbeat, Inside, InsidePC, Nowhere, NowherePC
  <2>2. QED  BY <1>1, <1>2, <1>3, <1>5, <2>1, GoingKeepsLockInv
<1>6. QED  BY <1>4, <1>5 DEF Heartbeat, projectVars

\* A statement or file operation of a command that fails.
LEMMA CommandErrorKeepsLockInv ==
    ASSUME LockInv, NEW u \in Users, CommandError(u)
    PROVE  LockInv'
<1>1. u \in Holders /\ {u} \in SUBSET Holders
  BY ActorAssumption
<1>2. CASE Ended({u})
  BY <1>1, <1>2, EndedKeepsLockInv
<1>3. CASE /\ pc[u] \in {"enqueue", "launch", "arc_recheck", "arc_mark", "rev_list", "rev_run"}
           /\ pc' = [pc EXCEPT ![u] = "unlock_cmd"]
           /\ UNCHANGED <<at, locks>>
  BY <1>1, <1>3, GoingKeepsLockInv DEF UserPC, Nowhere, NowherePC, Inside, InsidePC
<1>4. CASE /\ pc[u] \in {"arc_unlock", "arc_move", "arc_drop"}
           /\ pc' = [pc EXCEPT ![u] = "arc_abort"]
           /\ UNCHANGED <<at, locks>>
  BY <1>1, <1>4, GoingKeepsLockInv DEF UserPC, Nowhere, NowherePC, Inside, InsidePC
<1>5. QED  BY <1>2, <1>3, <1>4 DEF CommandError, StayingAt, projectVars

\* A command, call by call.
LEMMA CommandKeepsLockInv ==
    ASSUME LockInv, NEW u \in Users,
           CommandBegins(u) \/ CommandStep(u) \/ Heartbeat(u) \/ CommandError(u)
    PROVE  LockInv'
<1>1. u \in Holders /\ {u} \in SUBSET Holders
  BY ActorAssumption
<1> USE DEF Step, Goes, StayingAt, QueueOnly, ProjectOnly, StoresKept,
            projectVars, Nowhere, NowherePC, Inside, InsidePC
<1>2. ASSUME CommandBegins(u) PROVE LockInv'
  <2>1. PICK p \in Projects, entry \in {"enq_lock", "arc_lock", "rev_lock"} :
            Begin(u, p, entry) /\ UNCHANGED locks
    BY <1>2 DEF CommandBegins, BeginStart, BeginRetry, BeginArchive, BeginReview, RetryFailures
  <2>2. QED  BY <2>1, BeginKeepsLockInv
<1>3. ASSUME EnqueueLock(u) \/ ArchiveLock(u) \/ ReviewLock(u) PROVE LockInv'
  <2>1. PICK from \in {"enq_lock", "arc_lock", "rev_lock"},
             to \in {"enq_check", "arc_recheck", "rev_check"} : TakesLock(u, from, to)
    BY <1>3 DEF EnqueueLock, ArchiveLock, ReviewLock
  <2>2. to \in UserPC /\ from \notin NowherePC
    BY DEF UserPC
  <2>3. QED  BY <2>1, <2>2, TakesLockKeepsLockInv
<1>4. ASSUME EnqueueCheck(u) \/ EnqueueRow(u) PROVE LockInv'
  <2>1. PICK from \in {"enq_check", "enqueue"}, to \in {"unlock_cmd", "enqueue", "launch"} :
            Step(u, from, to) /\ UNCHANGED <<at, locks>>
    BY <1>4 DEF EnqueueCheck, EnqueueRow
  <2>2. QED  BY <1>1, <2>1, GoingKeepsLockInv DEF UserPC
<1>5. ASSUME Launch(u) PROVE LockInv'
  BY <1>5, LaunchKeepsLockInv
<1>6. ASSUME EnqueueDone(u) \/ UnlockCommand(u) PROVE LockInv'
  BY <1>6, LeavesLockKeepsLockInv DEF EnqueueDone, UnlockCommand
<1>7. ASSUME ArchiveRecheck(u) \/ ArchiveMark(u) PROVE LockInv'
  <2>1. PICK from \in {"arc_recheck", "arc_mark"}, to \in {"unlock_cmd", "arc_mark", "arc_unlock"} :
            Step(u, from, to) /\ UNCHANGED <<at, locks>>
    BY <1>7 DEF ArchiveRecheck, ArchiveMark
  <2>2. QED  BY <1>1, <2>1, GoingKeepsLockInv DEF UserPC
<1>8. ASSUME ArchiveUnlock(u) PROVE LockInv'
  <2>1. CASE Step(u, "arc_unlock", "arc_move") /\ ReleaseLock(at[u], u) /\ UNCHANGED at
    <3>1. at[u] \in Projects
      BY <1>1, <2>1 DEF LockInv, PlaceOK
    <3>2. QED  BY <1>1, <2>1, <3>1, ReleaseKeepsLockInv DEF UserPC
  <2>2. CASE Step(u, "arc_unlock", "arc_abort") /\ UNCHANGED <<at, locks>>
    BY <1>1, <2>2, GoingKeepsLockInv DEF UserPC
  <2>3. QED  BY <1>8, <2>1, <2>2 DEF ArchiveUnlock
<1>9. ASSUME ArchiveMove(u) \/ ArchiveDrop(u) PROVE LockInv'
  <2>1. PICK from \in {"arc_move", "arc_drop"}, to \in {"arc_abort", "arc_drop", "arc_clear"} :
            Step(u, from, to) /\ UNCHANGED <<at, locks>>
    BY <1>9 DEF ArchiveMove, ArchiveDrop
  <2>2. QED  BY <1>1, <2>1, GoingKeepsLockInv DEF UserPC
<1>10. ASSUME ArchiveClear(u) PROVE LockInv'
  BY <1>10, ArchiveClearKeepsLockInv
<1>11. ASSUME ReviewCheck(u) \/ ReviewList(u) \/ ReviewTask(u) \/ ReviewOver(u) PROVE LockInv'
  <2>1. PICK from \in {"rev_check", "rev_list", "rev_run"},
             to \in {"unlock_cmd", "rev_list", "rev_run"} :
            Step(u, from, to) /\ UNCHANGED <<at, locks>>
    BY <1>11 DEF ReviewCheck, ReviewList, ReviewTask, ReviewOver, Complete
  <2>2. QED  BY <1>1, <2>1, GoingKeepsLockInv DEF UserPC
<1>12. ASSUME CommandStep(u) PROVE LockInv'
  BY <1>12, <1>3, <1>4, <1>5, <1>6, <1>7, <1>8, <1>9, <1>10, <1>11 DEF CommandStep
<1>13. QED
  BY <1>2, <1>12, HeartbeatKeepsLockInv, CommandErrorKeepsLockInv
-----------------------------------------------------------------------------
(* Time, crashes, and the theorems *)

\* A second that passes takes nobody's lock, when everyone is in time.
LEMMA TickKeepsLockInv ==
    ASSUME LockInv, Timely, Tick
    PROVE  LockInv'
<1>1. pc' = pc /\ at' = at /\ locks' = [p \in Projects |-> AgedRow(locks[p])]
  BY DEF Tick, ProjectTick
<1>2. locks' \in [Projects -> LockRow]
  BY <1>1, LockRowTypes DEF LockInv, PlaceOK
<1>3. PlaceOK'
  BY <1>1, <1>2 DEF LockInv, PlaceOK, Nowhere
<1>4. ASSUME NEW a \in Holders, Inside(a)
      PROVE  locks'[at[a]].holder = a /\ Live(locks'[at[a]].left)
  <2>1. at[a] \in Projects /\ locks[at[a]] \in LockRow /\ locks[at[a]].holder = a
    BY <1>4, InsideSomewhere DEF LockInv, PlaceOK, LockHeld
  <2>2. OnTime(a)
    BY <1>4 DEF Tick, Inside, InsidePC
  <2>3. locks[at[a]].left > 1
    BY <2>1, <2>2 DEF OnTime, Ageable
  <2>4. locks'[at[a]].holder = a
    BY <1>1, <2>1, HolderKept
  <2>5. locks'[at[a]].left = Aged(locks[at[a]].left)
    BY <1>1, <2>1 DEF AgedRow, LockRow
  <2>6. Live(Aged(locks[at[a]].left))
    BY <2>1, <2>3, LeaseAssumption DEF Live, Aged, Expired, LockRow, Left
  <2>7. QED  BY <2>4, <2>5, <2>6
<1>5. LockHeld'
  BY <1>1, <1>4 DEF LockHeld, Inside
<1>6. QED  BY <1>3, <1>5 DEF LockInv

\* Nobody is anywhere at first.
LEMMA LockInvInit ==
    ASSUME Init PROVE LockInv
BY LockRowTypes
   DEF Init, EngineInit, ProjectInit, LockInv, PlaceOK, LockHeld, Nowhere, NowherePC,
       Inside, InsidePC, WorkerPC

\* Every step of the system.
LEMMA LockInvStep ==
    ASSUME LockInv, Timely, [Next]_allVars
    PROVE  LockInv'
<1>1. ASSUME NEW w \in Workers, WorkerStep(w) \/ StoreError(w) PROVE LockInv'
  BY <1>1, WorkerKeepsLockInv, StoreErrorKeepsLockInv
<1>2. ASSUME NEW u \in Users,
             CommandBegins(u) \/ CommandStep(u) \/ Heartbeat(u) \/ CommandError(u)
      PROVE  LockInv'
  BY <1>2, CommandKeepsLockInv
<1>3. CASE Crash
  <2>1. PICK S \in SUBSET Holders : Ended(S)
    BY <1>3, ActorAssumption DEF Crash, Workers
  <2>2. QED  BY <2>1, EndedKeepsLockInv
<1>4. CASE Tick
  BY <1>4, TickKeepsLockInv
<1>5. CASE UNCHANGED allVars
  BY <1>5 DEF allVars, vars, actorVars, projectVars, LockInv, PlaceOK, LockHeld, Nowhere,
              Inside
<1>6. QED  BY <1>1, <1>2, <1>3, <1>4, <1>5 DEF Next

\* Whoever is past the acquisition of a project's lock and not yet past its
\* release has the row of that lock, unexpired, whatever the others do, fail to
\* do, or leave behind.
THEOREM LockAlwaysHeld ==
    ASSUME Timely PROVE Spec => []LockHeld
<1>1. Init => LockInv
  BY LockInvInit
<1>2. LockInv /\ [Next]_allVars => LockInv'
  BY LockInvStep
<1>3. LockInv => LockHeld
  BY DEF LockInv
<1>4. QED  BY <1>1, <1>2, <1>3, PTL DEF Spec

\* So no worker, start, archive or review is ever at the tasks of a project
\* while another one is.
THEOREM MutualExclusionAlways ==
    ASSUME Timely PROVE Spec => []MutualExclusion
<1>1. LockHeld => MutualExclusion
  BY DEF LockHeld, MutualExclusion
<1>2. QED  BY <1>1, LockAlwaysHeld, PTL
-----------------------------------------------------------------------------
(* The actors, beyond their locks *)

\* The actors' part of TypeOK, and that who is anywhere is at a project.
ActorOK ==
    /\ pc \in [Holders -> WorkerPC \cup UserPC]
    /\ \A w \in Workers : pc[w] \in WorkerPC
    /\ \A u \in Users : pc[u] \in UserPC
    /\ at \in [Holders -> Projects \cup {NoOne}]
    /\ todo \in [Holders -> SUBSET Tasks]
    /\ idle \subseteq Workers
    /\ failing \subseteq Holders
    /\ patience \in [Workers -> Patience]
    /\ \A a \in Holders : ~Nowhere(a) => at[a] \in Projects

\* The files and the bounds.
FileOK ==
    /\ tombstone \in [Projects -> BOOLEAN]
    /\ moved \in [Projects -> BOOLEAN]
    /\ faults \in Nat
    /\ crashes \in Nat

\* Where an actor may be.
PCOf(a) == IF a \in Workers THEN WorkerPC ELSE UserPC
-----------------------------------------------------------------------------
(* The actors' types *)

\* A step of one actor, which goes somewhere.
LEMMA ActorMovesType ==
    ASSUME ActorOK, NEW a \in Holders, NEW to \in PCOf(a),
           NEW x \in Projects \cup {NoOne}, to \notin NowherePC => x \in Projects,
           pc' = [pc EXCEPT ![a] = to],
           at' = [at EXCEPT ![a] = x],
           todo' \in [Holders -> SUBSET Tasks], idle' \subseteq Workers,
           failing' \subseteq Holders, patience' \in [Workers -> Patience]
    PROVE  ActorOK'
<1>1. pc' \in [Holders -> WorkerPC \cup UserPC]
  BY DEF ActorOK, PCOf
<1>2. /\ \A w \in Workers : pc'[w] \in WorkerPC
      /\ \A u \in Users : pc'[u] \in UserPC
  BY ActorAssumption DEF ActorOK, PCOf
<1>3. \A b \in Holders : ~Nowhere(b)' => at'[b] \in Projects
  BY DEF ActorOK, Nowhere
<1>4. at' \in [Holders -> Projects \cup {NoOne}]
  BY DEF ActorOK
<1>5. QED  BY <1>1, <1>2, <1>3, <1>4 DEF ActorOK

\* One that stays at its project.
LEMMA ActorStaysType ==
    ASSUME ActorOK, NEW a \in Holders, NEW to \in PCOf(a),
           to \notin NowherePC => ~Nowhere(a),
           pc' = [pc EXCEPT ![a] = to], at' = at,
           todo' \in [Holders -> SUBSET Tasks], idle' \subseteq Workers,
           failing' \subseteq Holders, patience' \in [Workers -> Patience]
    PROVE  ActorOK'
<1>1. at' = [at EXCEPT ![a] = at[a]] /\ at[a] \in Projects \cup {NoOne}
  BY DEF ActorOK
<1>2. to \notin NowherePC => at[a] \in Projects
  BY DEF ActorOK
<1>3. QED  BY <1>1, <1>2, ActorMovesType

\* Actors that are gone.
LEMMA EndedType ==
    ASSUME ActorOK, NEW S \in SUBSET Holders, Ended(S)
    PROVE  ActorOK'
<1>1. /\ pc' = [a \in Holders |-> IF a \in S THEN "off" ELSE pc[a]]
      /\ at' = [a \in Holders |-> IF a \in S THEN NoOne ELSE at[a]]
      /\ todo' = [a \in Holders |-> IF a \in S THEN {} ELSE todo[a]]
      /\ idle' = idle \ S
      /\ failing' = failing \ S
      /\ patience' = [w \in Workers |-> IF w \in S THEN Expired ELSE patience[w]]
  BY DEF Ended
<1>2. Expired \in Patience
  BY LeaseAssumption DEF Patience, Waits, Expired
<1>3. patience' \in [Workers -> Patience] /\ idle' \subseteq Workers /\ failing' \subseteq Holders
  BY <1>1, <1>2 DEF ActorOK
<1>4. /\ todo' \in [Holders -> SUBSET Tasks]
      /\ at' \in [Holders -> Projects \cup {NoOne}]
  BY <1>1 DEF ActorOK
<1>5. "off" \in WorkerPC /\ "off" \in UserPC /\ "off" \in NowherePC
  BY DEF WorkerPC, UserPC, NowherePC
<1>6. pc' \in [Holders -> WorkerPC \cup UserPC]
  BY <1>1, <1>5 DEF ActorOK
<1>7. /\ \A w \in Workers : pc'[w] \in WorkerPC
      /\ \A u \in Users : pc'[u] \in UserPC
  BY <1>1, <1>5, ActorAssumption DEF ActorOK
<1>8. \A a \in Holders : ~Nowhere(a)' => at'[a] \in Projects
  BY <1>1, <1>5 DEF ActorOK, Nowhere
<1>9. QED  BY <1>3, <1>4, <1>6, <1>7, <1>8 DEF ActorOK
-----------------------------------------------------------------------------
(* Calls, worker by worker and command by command *)

\* A step calls the stores or leaves them alone, and keeps the actors' types.
UsesStores ==
    /\ [QueueNext]_queueVars
    /\ [ProjectNext]_projectVars
    /\ ActorOK'

\* The calls on a row of the queue, and on the slots.
LEMMA QueueCalls ==
    /\ \A p \in Projects :
          \/ Enqueue(p) \/ ClaimProject(p) \/ Requeue(p) \/ Finish(p)
          \/ Fail(p) \/ Cancel(p) \/ Remove(p)
          => QueueNext
    /\ \A h \in Holders : AcquireWorker(h, MaxSlots) => QueueNext
    /\ \A S \in SUBSET Holders : \A R \in SUBSET S : QueueDeparture(S, R) => QueueNext
<1>1. MaxSlots \in 1 .. MaxSlots
  BY SlotAssumption
<1>2. QED  BY <1>1 DEF QueueNext

\* The calls on a project's tasks, and on its lock.
LEMMA ProjectCalls ==
    /\ \A p \in Projects : RetryFailures(p) => ProjectNext
    /\ \A p \in Projects, t \in Tasks : ClaimNext(p, t) => ProjectNext
    /\ \A p \in Projects, t \in Tasks, r \in Results, lost \in BOOLEAN :
          Complete(p, t, r, r = "confirmed", lost) => ProjectNext
    /\ \A p \in Projects, h \in Holders :
          AcquireLock(p, h, Lease) \/ ReleaseLock(p, h) => ProjectNext
    /\ \A S \in SUBSET Holders, R \in SUBSET Projects : ProjectDeparture(S, R) => ProjectNext
<1>1. Lease \in 1 .. Lease
  BY LeaseAssumption
<1>2. \A r : (r = "confirmed") \in BOOLEAN
  OBVIOUS
<1>3. QED  BY <1>1, <1>2 DEF ProjectNext

\* Actors that are gone leave their rows behind.
LEMMA EndedUsesStores ==
    ASSUME ActorOK, NEW S \in SUBSET Holders, Ended(S),
           UNCHANGED slots \/ \E R \in SUBSET S : slots' = SlotsLeft(S, R)
    PROVE  UsesStores
<1>1. [QueueNext]_queueVars
  <2>1. CASE UNCHANGED slots
    BY <2>1 DEF Ended, queueVars
  <2>2. ASSUME NEW R \in SUBSET S, slots' = SlotsLeft(S, R) PROVE QueueNext
    <3>1. QueueDeparture(S, R)
      BY <2>2 DEF QueueDeparture, Ended, OrderKept
    <3>2. QED  BY <3>1, QueueCalls
  <2>3. QED  BY <2>1, <2>2
<1>2. ProjectNext
  <2>1. ProjectDeparture(S, {}) /\ {} \in SUBSET Projects
    BY DEF Ended, ProjectDeparture
  <2>2. QED  BY <2>1, ProjectCalls
<1>3. QED  BY <1>1, <1>2, EndedType DEF UsesStores

\* A turn.
LEMMA WorkerUsesStores ==
    ASSUME ActorOK, NEW w \in Workers, WorkerStep(w)
    PROVE  UsesStores
<1>1. w \in Holders /\ {w} \in SUBSET Holders /\ {w} \in SUBSET {w} /\ {} \in SUBSET {w}
  BY ActorAssumption
<1>2. ~Nowhere(w) => at[w] \in Projects
  BY <1>1 DEF ActorOK
<1>3. /\ todo \in [Holders -> SUBSET Tasks] /\ idle \subseteq Workers
      /\ failing \subseteq Holders /\ patience \in [Workers -> Patience]
      /\ NoOne \in Projects \cup {NoOne}
  BY DEF ActorOK
<1>4. PCOf(w) = WorkerPC
  BY DEF PCOf
<1> USE DEF Step, StayingAt, QueueOnly, ProjectOnly, StoresKept,
            projectVars, queueVars, Nowhere, NowherePC
<1>5. ASSUME AwaitSlot(w) PROVE UsesStores
  <2>1. CASE /\ Step(w, "slot", "renew")
             /\ AcquireWorker(w, MaxSlots)
             /\ patience' = [patience EXCEPT ![w] = Expired]
             /\ UNCHANGED <<at, todo, idle, failing, projectVars>>
    <3>1. Expired \in Patience
      BY LeaseAssumption DEF Patience, Waits, Expired
    <3>2. ActorOK'
      BY <1>1, <1>3, <1>4, <2>1, <3>1, ActorStaysType DEF WorkerPC
    <3>3. QED  BY <1>1, <2>1, <3>2, QueueCalls DEF UsesStores
  <2>2. CASE Ended({w}) /\ UNCHANGED slots
    BY <1>1, <2>2, EndedUsesStores
  <2>3. QED  BY <1>5, <2>1, <2>2 DEF AwaitSlot
<1>6. ASSUME RenewSlot(w) PROVE UsesStores
  <2>1. PICK to \in {"claim", "quit"} :
            /\ Step(w, "renew", to)
            /\ failing' \in {failing, failing \cup {w}}
            /\ UNCHANGED <<at, todo, idle, patience, projectVars>>
            /\ AcquireWorker(w, MaxSlots) \/ UNCHANGED queueVars
    BY <1>6 DEF RenewSlot
  <2>2. ActorOK'
    BY <1>1, <1>3, <1>4, <2>1, ActorStaysType DEF WorkerPC
  <2>3. QED  BY <1>1, <2>1, <2>2, QueueCalls DEF UsesStores
<1>7. ASSUME Claim(w) PROVE UsesStores
  <2>1. ASSUME NEW p \in Projects,
               Step(w, "claim", "resolve"), ClaimProject(p), at' = [at EXCEPT ![w] = p],
               idle' = idle \ {w}, UNCHANGED <<todo, failing, patience, projectVars>>
        PROVE  UsesStores
    <3>1. ActorOK'
      BY <1>1, <1>3, <1>4, <2>1, ActorMovesType DEF WorkerPC
    <3>2. QED  BY <2>1, <3>1, QueueCalls DEF UsesStores
  <2>2. ASSUME NEW to \in {"quit", "renew"},
               Step(w, "claim", to), idle' = idle \cup {w},
               UNCHANGED <<at, todo, failing, patience, queueVars, projectVars>>
        PROVE  UsesStores
    <3>1. ActorOK'
      BY <1>1, <1>3, <1>4, <2>2, ActorStaysType DEF WorkerPC
    <3>2. QED  BY <2>2, <3>1 DEF UsesStores
  <2>3. QED  BY <1>7, <2>1, <2>2 DEF Claim
<1>8. ASSUME \/ Resolve(w) \/ Gone(w) \/ OpenStore(w)
             \/ CheckArchiving(w) \/ CheckActive(w)
      PROVE  UsesStores
  <2>1. PICK from \in {"resolve", "gone", "open", "check", "active"},
             to \in {"gone", "open", "lock", "remove", "fail", "unlock_archived", "active", "next",
                     "unlock_cancelled"} :
            Step(w, from, to) /\ StayingAt /\ UNCHANGED <<queueVars, projectVars>>
    BY <1>8 DEF Resolve, Gone, OpenStore, CheckArchiving, CheckActive
  <2>2. ActorOK'
    BY <1>1, <1>3, <1>4, <2>1, ActorStaysType DEF WorkerPC
  <2>3. QED  BY <2>1, <2>2 DEF UsesStores
<1>9. ASSUME FailProject(w) \/ RemoveProject(w) \/ FinishProject(w) \/ RequeueProject(w)
      PROVE  UsesStores
  <2>1. PICK to \in {"quit", "renew"} :
            /\ pc' = [pc EXCEPT ![w] = to]
            /\ at' = [at EXCEPT ![w] = NoOne]
            /\ UNCHANGED <<todo, idle, failing, patience, projectVars>>
    BY <1>9 DEF FailProject, RemoveProject, FinishProject, RequeueProject, TurnOver
  <2>2. at[w] \in Projects
    BY <1>2, <1>9 DEF FailProject, RemoveProject, FinishProject, RequeueProject
  <2>3. QueueNext
    BY <1>9, <2>2, QueueCalls DEF FailProject, RemoveProject, FinishProject, RequeueProject
  <2>4. ActorOK'
    BY <1>1, <1>3, <1>4, <2>1, ActorMovesType DEF WorkerPC
  <2>5. QED  BY <2>1, <2>3, <2>4 DEF UsesStores
<1>10. ASSUME LockProject(w) PROVE UsesStores
  <2>1. PICK to \in {"check", "requeue"} :
            /\ Step(w, "lock", to)
            /\ StayingAt /\ UNCHANGED queueVars
            /\ AcquireLock(at[w], w, Lease) \/ UNCHANGED projectVars
    BY <1>10 DEF LockProject
  <2>2. ActorOK'
    BY <1>1, <1>3, <1>4, <2>1, ActorStaysType DEF WorkerPC
  <2>3. QED  BY <1>1, <1>2, <2>1, <2>2, ProjectCalls DEF UsesStores
<1>11. ASSUME NextTask(w) PROVE UsesStores
  <2>1. ASSUME NEW t \in Tasks,
               Step(w, "next", "execute"), ClaimNext(at[w], t),
               todo' = [todo EXCEPT ![w] = {t}],
               UNCHANGED <<at, idle, failing, patience, queueVars>>
        PROVE  UsesStores
    <3>1. ActorOK'
      BY <1>1, <1>3, <1>4, <2>1, ActorStaysType DEF WorkerPC
    <3>2. QED  BY <1>2, <2>1, <3>1, ProjectCalls DEF UsesStores
  <2>2. CASE Step(w, "next", "unlock_done") /\ StayingAt /\ UNCHANGED <<queueVars, projectVars>>
    <3>1. ActorOK'
      BY <1>1, <1>3, <1>4, <2>2, ActorStaysType DEF WorkerPC
    <3>2. QED  BY <2>2, <3>1 DEF UsesStores
  <2>3. QED  BY <1>11, <2>1, <2>2 DEF NextTask
<1>12. ASSUME Execute(w) PROVE UsesStores
  <2>1. PICK t \in todo[w], r \in Results, lost \in BOOLEAN :
            /\ Step(w, "execute", "unlock_turn")
            /\ Complete(at[w], t, r, r = "confirmed", lost)
            /\ todo' = [todo EXCEPT ![w] = {}]
            /\ UNCHANGED <<at, idle, failing, patience, queueVars>>
    BY <1>12 DEF Execute
  <2>2. ActorOK'
    BY <1>1, <1>3, <1>4, <2>1, ActorStaysType DEF WorkerPC
  <2>3. t \in Tasks
    BY <1>1, <1>3
  <2>4. QED  BY <1>2, <2>1, <2>2, <2>3, ProjectCalls DEF UsesStores
<1>13. ASSUME Unlock(w) PROVE UsesStores
  <2>1. PICK to \in {"remove", "finish", "requeue", "renew", "quit"} :
            /\ pc' = [pc EXCEPT ![w] = to]
            /\ at' = at \/ (to \in NowherePC /\ at' = [at EXCEPT ![w] = NoOne])
            /\ UNCHANGED <<todo, idle, failing, patience, queueVars>>
    BY <1>13 DEF Unlock, AfterUnlock, TurnOver
  <2>2. at[w] \in Projects /\ ReleaseLock(at[w], w) /\ ~Nowhere(w)
    BY <1>2, <1>13 DEF Unlock
  <2>3. ActorOK'
    <3>1. CASE at' = at
      BY <1>1, <1>3, <1>4, <2>1, <2>2, <3>1, ActorStaysType DEF WorkerPC
    <3>2. CASE to \in NowherePC /\ at' = [at EXCEPT ![w] = NoOne]
      BY <1>1, <1>3, <1>4, <2>1, <3>2, ActorMovesType DEF WorkerPC
    <3>3. QED  BY <2>1, <3>1, <3>2
  <2>4. QED  BY <1>1, <2>1, <2>2, <2>3, ProjectCalls DEF UsesStores
<1>14. ASSUME Quit(w) PROVE UsesStores
  <2>1. Leaving(w) \in SUBSET Holders /\ {w} \in SUBSET Leaving(w)
    BY <1>1, ProcessOfType DEF Leaving
  <2>2. QED  BY <1>14, <2>1, EndedUsesStores DEF Quit
<1>15. QED
  BY WorkerStep(w), <1>5, <1>6, <1>7, <1>8, <1>9, <1>10, <1>11, <1>12, <1>13, <1>14
     DEF WorkerStep

\* A statement that fails.
LEMMA StoreErrorUsesStores ==
    ASSUME ActorOK, NEW w \in Workers, StoreError(w)
    PROVE  UsesStores
<1>1. w \in Holders
  BY ActorAssumption
<1>2. /\ todo \in [Holders -> SUBSET Tasks] /\ idle \subseteq Workers
      /\ failing \subseteq Holders /\ patience \in [Workers -> Patience]
      /\ NoOne \in Projects \cup {NoOne}
  BY DEF ActorOK
<1>3. PCOf(w) = WorkerPC
  BY DEF PCOf
<1> USE DEF Step, projectVars, queueVars, Nowhere, NowherePC
<1>4. CASE /\ pc' = [pc EXCEPT ![w] = "quit"]
           /\ at' = [at EXCEPT ![w] = NoOne]
           /\ failing' = failing \cup {w}
           /\ UNCHANGED <<todo, idle, patience, queueVars, projectVars>>
  <2>1. ActorOK'
    BY <1>1, <1>2, <1>3, <1>4, ActorMovesType DEF WorkerPC
  <2>2. QED  BY <1>4, <2>1 DEF UsesStores
<1>5. CASE \E from \in {"resolve", "open", "active", "next", "execute"},
              to \in {"gone", "fail", "unlock_cancelled", "unlock_turn"} :
           /\ Step(w, from, to)
           /\ todo' = todo \/ todo' = [todo EXCEPT ![w] = {}]
           /\ failing' = failing \/ failing' = failing \cup {w}
           /\ UNCHANGED <<at, idle, patience, queueVars, projectVars>>
  <2>1. ActorOK'
    BY <1>1, <1>2, <1>3, <1>5, ActorStaysType DEF WorkerPC
  <2>2. QED  BY <1>5, <2>1 DEF UsesStores
<1>6. CASE Ended(ProcessOf(w)) /\ slots' = SlotsLeft(ProcessOf(w), {})
  BY <1>6, ProcessOfType, EndedUsesStores
<1>7. QED  BY <1>4, <1>5, <1>6 DEF StoreError

\* A command ends, and gives its lock back if it can.
LEMMA LeavesLockUsesStores ==
    ASSUME ActorOK, NEW u \in Users, pc[u] \notin NowherePC, LeavesLock(u)
    PROVE  UsesStores
<1>1. u \in Holders /\ {u} \in SUBSET Holders /\ at[u] \in Projects
  BY ActorAssumption DEF ActorOK, Nowhere
<1>2. "off" \in PCOf(u) /\ "off" \in NowherePC
  BY DEF PCOf, WorkerPC, UserPC, NowherePC
<1>3. ActorOK'
  <2>1. /\ todo' \in [Holders -> SUBSET Tasks] /\ idle' \subseteq Workers
        /\ failing' \subseteq Holders /\ patience' \in [Workers -> Patience]
    BY DEF LeavesLock, ActorOK
  <2>2. NoOne \in Projects \cup {NoOne}
    OBVIOUS
  <2>3. pc' = [pc EXCEPT ![u] = "off"] /\ at' = [at EXCEPT ![u] = NoOne]
    BY DEF LeavesLock
  <2>4. QED  BY <1>1, <1>2, <2>1, <2>2, <2>3, ActorMovesType
<1>4. ProjectNext
  <2>1. {at[u]} \ {p \in Projects : moved[p]} \in SUBSET Projects
    BY <1>1
  <2>2. ProjectDeparture({u}, {at[u]} \ {p \in Projects : moved[p]})
    BY DEF LeavesLock, ProjectDeparture
  <2>3. QED  BY <1>1, <2>1, <2>2, ProjectCalls
<1>5. QED  BY <1>3, <1>4 DEF UsesStores, LeavesLock, queueVars

\* A command gets the lock, or exits.
LEMMA TakesLockUsesStores ==
    ASSUME ActorOK, NEW u \in Users, NEW from, NEW to \in UserPC,
           from \notin NowherePC, TakesLock(u, from, to)
    PROVE  UsesStores
<1>1. u \in Holders /\ {u} \in SUBSET Holders
  BY ActorAssumption
<1>2. CASE /\ Step(u, from, to)
           /\ AcquireLock(at[u], u, Lease)
           /\ StayingAt /\ ProjectOnly
  <2>1. at[u] \in Projects /\ ~Nowhere(u)
    BY <1>1, <1>2 DEF Step, ActorOK, Nowhere
  <2>2. to \in PCOf(u)
    BY ActorAssumption DEF PCOf
  <2>3. ActorOK'
    BY <1>1, <1>2, <2>1, <2>2, ActorStaysType DEF Step, StayingAt, ActorOK
  <2>4. QED  BY <1>1, <1>2, <2>1, <2>3, ProjectCalls DEF UsesStores, ProjectOnly
<1>3. CASE Exits(u)
  BY <1>1, <1>3, EndedUsesStores DEF Exits
<1>4. QED  BY <1>2, <1>3 DEF TakesLock

\* A launch.
LEMMA LaunchUsesStores ==
    ASSUME ActorOK, NEW u \in Users, Launch(u)
    PROVE  UsesStores
<1>1. PICK P \in Processes :
         /\ pc[u] = "launch"
         /\ patience' = [w \in Workers |-> IF w \in P THEN Waits ELSE patience[w]]
         /\ pc' = [a \in Holders |-> CASE a = u -> "enq_done"
                                       [] a \in P -> "slot"
                                       [] OTHER -> pc[a]]
         /\ UNCHANGED <<at, todo, idle, failing, queueVars, projectVars>>
  BY DEF Launch, Launched, StoresKept
<1>2. u \in Holders /\ P \in SUBSET Workers /\ Workers \cap Users = {}
  BY ActorAssumption DEF Workers
<1>3. Waits \in Patience
  BY LeaseAssumption DEF Patience, Waits, Expired
<1>4. patience' \in [Workers -> Patience]
  BY <1>1, <1>3 DEF ActorOK
<1>5. "enq_done" \in UserPC /\ "slot" \in WorkerPC /\ "slot" \in NowherePC
  BY DEF UserPC, WorkerPC, NowherePC
<1>6. pc' \in [Holders -> WorkerPC \cup UserPC]
  BY <1>1, <1>5 DEF ActorOK
<1>7. \A w \in Workers : pc'[w] \in WorkerPC
  BY <1>1, <1>2, <1>5, ActorAssumption DEF ActorOK
<1>8. \A v \in Users : pc'[v] \in UserPC
  BY <1>1, <1>2, <1>5, ActorAssumption DEF ActorOK
<1>9. ASSUME NEW a \in Holders, ~Nowhere(a)' PROVE at'[a] \in Projects
  <2>1. CASE a = u
    BY <1>1, <1>2, <2>1 DEF ActorOK, Nowhere, NowherePC
  <2>2. CASE a # u /\ a \in P
    BY <1>1, <1>5, <1>9, <2>2 DEF Nowhere
  <2>3. CASE a # u /\ a \notin P
    BY <1>1, <1>9, <2>3 DEF ActorOK, Nowhere
  <2>4. QED  BY <2>1, <2>2, <2>3
<1>10. ActorOK'
  BY <1>1, <1>4, <1>6, <1>7, <1>8, <1>9 DEF ActorOK
<1>11. QED  BY <1>1, <1>10 DEF UsesStores

\* A step that stays at its project and calls no store.
LEMMA GoesUsesStores ==
    ASSUME ActorOK, NEW u \in Users, NEW to \in UserPC,
           to \notin NowherePC => ~Nowhere(u),
           pc' = [pc EXCEPT ![u] = to],
           StayingAt, UNCHANGED <<queueVars, projectVars>>
    PROVE  UsesStores
<1>1. u \in Holders /\ to \in PCOf(u)
  BY ActorAssumption DEF PCOf
<1>2. ActorOK'
  BY <1>1, ActorStaysType DEF StayingAt, ActorOK
<1>3. QED  BY <1>2 DEF UsesStores

\* A command, call by call.
LEMMA CommandUsesStores ==
    ASSUME ActorOK, NEW u \in Users, CommandStep(u)
    PROVE  UsesStores
<1>1. u \in Holders /\ {u} \in SUBSET Holders /\ PCOf(u) = UserPC
  BY ActorAssumption DEF PCOf
<1>2. /\ todo \in [Holders -> SUBSET Tasks] /\ idle \subseteq Workers
      /\ failing \subseteq Holders /\ patience \in [Workers -> Patience]
      /\ NoOne \in Projects \cup {NoOne}
  BY DEF ActorOK
<1>3. ~Nowhere(u) => at[u] \in Projects
  BY <1>1 DEF ActorOK
<1> USE DEF Step, Nowhere, NowherePC
<1>4. ASSUME EnqueueLock(u) \/ ArchiveLock(u) \/ ReviewLock(u) PROVE UsesStores
  <2>1. PICK from \in {"enq_lock", "arc_lock", "rev_lock"},
             to \in {"enq_check", "arc_recheck", "rev_check"} : TakesLock(u, from, to)
    BY <1>4 DEF EnqueueLock, ArchiveLock, ReviewLock
  <2>2. to \in UserPC /\ from \notin NowherePC
    BY DEF UserPC
  <2>3. QED  BY <2>1, <2>2, TakesLockUsesStores
<1>5. ASSUME \/ EnqueueCheck(u) \/ ArchiveRecheck(u) \/ ArchiveMark(u) \/ ArchiveMove(u)
             \/ ReviewCheck(u) \/ ReviewOver(u)
             \/ Goes(u, "arc_unlock", "arc_abort")
      PROVE  UsesStores
  <2>1. PICK from \in {"enq_check", "arc_recheck", "arc_mark", "arc_unlock", "arc_move",
                       "rev_check", "rev_run"},
             to \in {"unlock_cmd", "enqueue", "arc_mark", "arc_unlock", "arc_abort",
                     "arc_drop", "rev_list"} :
            Step(u, from, to) /\ StayingAt /\ UNCHANGED <<queueVars, projectVars>>
    BY <1>5 DEF Goes, StoresKept, EnqueueCheck, ArchiveRecheck, ArchiveMark, ArchiveMove,
                ReviewCheck, ReviewOver
  <2>2. QED  BY <2>1, GoesUsesStores DEF UserPC
<1>6. ASSUME EnqueueRow(u) \/ ArchiveDrop(u) PROVE UsesStores
  <2>1. PICK from \in {"enqueue", "arc_drop"}, to \in {"launch", "arc_clear"} :
            Step(u, from, to) /\ StayingAt /\ UNCHANGED projectVars
    BY <1>6 DEF EnqueueRow, ArchiveDrop, QueueOnly
  <2>2. QueueNext
    BY <1>3, <1>6, QueueCalls DEF EnqueueRow, ArchiveDrop
  <2>3. ActorOK'
    BY <1>1, <1>2, <2>1, ActorStaysType DEF StayingAt, UserPC
  <2>4. QED  BY <2>1, <2>2, <2>3 DEF UsesStores
<1>7. ASSUME EnqueueDone(u) \/ UnlockCommand(u) PROVE UsesStores
  BY <1>7, LeavesLockUsesStores DEF EnqueueDone, UnlockCommand
<1>8. ASSUME ArchiveUnlock(u) PROVE UsesStores
  <2>1. CASE /\ Step(u, "arc_unlock", "arc_move")
             /\ ReleaseLock(at[u], u)
             /\ StayingAt /\ ProjectOnly
    <3>1. ActorOK'
      BY <1>1, <1>2, <2>1, ActorStaysType DEF StayingAt, UserPC
    <3>2. QED  BY <1>1, <1>3, <2>1, <3>1, ProjectCalls DEF UsesStores, ProjectOnly
  <2>2. QED  BY <1>5, <1>8, <2>1 DEF ArchiveUnlock
<1>9. ASSUME ArchiveClear(u) PROVE UsesStores
  <2>1. /\ pc' = [pc EXCEPT ![u] = "off"]
        /\ at' = [at EXCEPT ![u] = NoOne]
        /\ locks' = LocksLeft({u}, {})
        /\ UNCHANGED <<todo, idle, failing, patience, tasks, shots, queueVars>>
    BY <1>9 DEF ArchiveClear
  <2>2. ActorOK'
    BY <1>1, <1>2, <2>1, ActorMovesType DEF UserPC
  <2>3. ProjectDeparture({u}, {}) /\ {} \in SUBSET Projects
    BY <2>1 DEF ProjectDeparture
  <2>4. QED  BY <1>1, <2>1, <2>2, <2>3, ProjectCalls DEF UsesStores
<1>10. ASSUME ReviewList(u) PROVE UsesStores
  <2>1. /\ Step(u, "rev_list", "rev_run")
        /\ todo' = [todo EXCEPT ![u] = NeedsReview(at[u])]
        /\ UNCHANGED <<at, idle, failing, patience, queueVars, projectVars>>
    BY <1>10 DEF ReviewList, StoresKept
  <2>2. NeedsReview(at[u]) \in SUBSET Tasks
    BY DEF NeedsReview
  <2>3. ActorOK'
    BY <1>1, <1>2, <2>1, <2>2, ActorStaysType DEF UserPC
  <2>4. QED  BY <2>1, <2>3 DEF UsesStores
<1>11. ASSUME ReviewTask(u) PROVE UsesStores
  <2>1. PICK t \in todo[u], r \in Results, lost \in BOOLEAN :
            /\ pc[u] = "rev_run"
            /\ Complete(at[u], t, r, r = "confirmed", lost)
            /\ pc' = [pc EXCEPT ![u] = IF u \in failing THEN "unlock_cmd" ELSE "rev_run"]
            /\ todo' = [todo EXCEPT ![u] = @ \ {t}]
            /\ UNCHANGED <<at, idle, failing, patience, queueVars>>
    BY <1>11 DEF ReviewTask, ProjectOnly
  <2>2. PICK to \in {"unlock_cmd", "rev_run"} : pc' = [pc EXCEPT ![u] = to]
    BY <2>1
  <2>3. todo' \in [Holders -> SUBSET Tasks] /\ t \in Tasks
    BY <1>1, <1>2, <2>1
  <2>4. ActorOK'
    BY <1>1, <1>2, <2>1, <2>2, <2>3, ActorStaysType DEF UserPC
  <2>5. QED  BY <1>3, <2>1, <2>3, <2>4, ProjectCalls DEF UsesStores
<1>12. QED
  BY CommandStep(u), LaunchUsesStores, <1>4, <1>5, <1>6, <1>7, <1>8, <1>9, <1>10, <1>11
     DEF CommandStep

\* What begins a command, what renews a review's lock, and what fails.
LEMMA CommandEdgeUsesStores ==
    ASSUME ActorOK, NEW u \in Users, CommandBegins(u) \/ Heartbeat(u) \/ CommandError(u)
    PROVE  UsesStores
<1>1. u \in Holders /\ {u} \in SUBSET Holders /\ PCOf(u) = UserPC
  BY ActorAssumption DEF PCOf
<1>2. /\ todo \in [Holders -> SUBSET Tasks] /\ idle \subseteq Workers
      /\ failing \subseteq Holders /\ patience \in [Workers -> Patience]
  BY DEF ActorOK
<1>3. ASSUME CommandBegins(u) PROVE UsesStores
  <2>1. PICK p \in Projects, entry \in {"enq_lock", "arc_lock", "rev_lock"} :
            /\ Begin(u, p, entry)
            /\ UNCHANGED queueVars
            /\ RetryFailures(p) \/ UNCHANGED projectVars
    BY <1>3 DEF CommandBegins, BeginStart, BeginRetry, BeginArchive, BeginReview,
                StoresKept, ProjectOnly
  <2>2. ActorOK'
    BY <1>1, <1>2, <2>1, ActorMovesType DEF Begin, Step, UserPC
  <2>3. QED  BY <2>1, <2>2, ProjectCalls DEF UsesStores
<1>4. ASSUME Heartbeat(u) PROVE UsesStores
  <2>1. at[u] \in Projects
    BY <1>1, <1>4 DEF Heartbeat, ActorOK, Nowhere, NowherePC
  <2>2. ActorOK'
    BY <1>1, <1>4 DEF Heartbeat, ActorOK, Nowhere
  <2>3. QED  BY <1>1, <1>4, <2>1, <2>2, ProjectCalls DEF Heartbeat, ProjectOnly, UsesStores
<1>5. ASSUME CommandError(u) PROVE UsesStores
  <2>1. CASE Ended({u}) /\ UNCHANGED slots
    BY <1>1, <2>1, EndedUsesStores
  <2>2. CASE /\ pc[u] \in {"enqueue", "launch", "arc_recheck", "arc_mark", "rev_list",
                           "rev_run", "arc_unlock", "arc_move", "arc_drop"}
             /\ pc' = [pc EXCEPT ![u] = "unlock_cmd"] \/ pc' = [pc EXCEPT ![u] = "arc_abort"]
             /\ StayingAt /\ UNCHANGED <<queueVars, projectVars>>
    <3>1. PICK to \in {"unlock_cmd", "arc_abort"} : pc' = [pc EXCEPT ![u] = to]
      BY <2>2
    <3>2. QED  BY <2>2, <3>1, GoesUsesStores DEF UserPC, Nowhere, NowherePC
  <2>3. QED  BY <1>5, <2>1, <2>2 DEF CommandError
<1>6. QED  BY <1>3, <1>4, <1>5
-----------------------------------------------------------------------------
(* The stores in the system *)

\* A crash, and a second.
LEMMA EnvironmentUsesStores ==
    ASSUME ActorOK, Crash \/ Tick
    PROVE  UsesStores
<1>1. ASSUME Crash PROVE UsesStores
  <2>1. ASSUME NEW P \in Processes, Ended(P), slots' = SlotsLeft(P, {}) PROVE UsesStores
    <3>1. P \in SUBSET Holders /\ {} \in SUBSET P
      BY ActorAssumption DEF Workers
    <3>2. QED  BY <2>1, <3>1, EndedUsesStores
  <2>2. ASSUME NEW u \in Users, Ended({u}), UNCHANGED slots PROVE UsesStores
    <3>1. {u} \in SUBSET Holders
      BY ActorAssumption
    <3>2. QED  BY <2>2, <3>1, EndedUsesStores
  <2>3. QED  BY <1>1, <2>1, <2>2 DEF Crash
<1>2. ASSUME Tick PROVE UsesStores
  <2>1. patience' = [w \in Workers |-> Aged(patience[w])]
    BY <1>2 DEF Tick
  <2>2. \A x \in Patience : Aged(x) \in Patience
    BY LeaseAssumption DEF Aged, Patience, Waits, Expired
  <2>3. patience' \in [Workers -> Patience]
    BY <2>1, <2>2 DEF ActorOK
  <2>4. ActorOK'
    BY <1>2, <2>3 DEF Tick, ActorOK, Nowhere
  <2>5. QED  BY <1>2, <2>4 DEF Tick, QueueNext, ProjectNext, UsesStores
<1>3. QED  BY <1>1, <1>2

\* Nobody is anywhere at first.
LEMMA ActorInit == Init => ActorOK
<1>1. "off" \in WorkerPC /\ "off" \in UserPC /\ "off" \in NowherePC
  BY DEF WorkerPC, UserPC, NowherePC
<1>2. Expired \in Patience
  BY LeaseAssumption DEF Patience, Waits, Expired
<1>3. QED  BY <1>1, <1>2, ActorAssumption DEF Init, EngineInit, ActorOK, Nowhere

\* Every step of the system.
LEMMA EveryStepUsesStores ==
    ASSUME ActorOK, [Next]_allVars
    PROVE  UsesStores
<1>1. ASSUME NEW w \in Workers, WorkerStep(w) \/ StoreError(w) PROVE UsesStores
  BY <1>1, WorkerUsesStores, StoreErrorUsesStores
<1>2. ASSUME NEW u \in Users,
             CommandBegins(u) \/ CommandStep(u) \/ Heartbeat(u) \/ CommandError(u)
      PROVE  UsesStores
  BY <1>2, CommandUsesStores, CommandEdgeUsesStores
<1>3. CASE UNCHANGED allVars
  BY <1>3 DEF allVars, vars, actorVars, queueVars, projectVars, ActorOK, Nowhere, UsesStores
<1>4. QED  BY <1>1, <1>2, <1>3, EnvironmentUsesStores DEF Next

\* An actor is always where its program goes, at a project if it needs one.
LEMMA ActorAlways == Spec => []ActorOK
<1>1. ActorOK /\ [Next]_allVars => ActorOK'
  BY EveryStepUsesStores DEF UsesStores
<1>2. QED  BY <1>1, ActorInit, PTL DEF Spec

\* The whole system implements both stores: whatever workers and commands do,
\* and however they crash, fail or sleep, queue.db and state.db see calls that
\* QueueStore and ProjectStore know, departures and seconds.
THEOREM SystemUsesStores == Spec => QueueSpec /\ ProjectSpec
<1>1. Init => QueueInit /\ ProjectInit
  BY DEF Init
<1>2. ActorOK /\ [Next]_allVars => [QueueNext]_queueVars /\ [ProjectNext]_projectVars
  BY EveryStepUsesStores DEF UsesStores
<1>3. QED  BY <1>1, <1>2, ActorAlways, PTL DEF Spec, QueueSpec, ProjectSpec

\* So what the stores guarantee under any calls holds of the system, also when
\* leases run out under whoever relies on them: no worker has two slots, a
\* task's screenshots are one chain, and a confirmed task has one.
THEOREM StoreInvariantsInSystem ==
    Spec => [](OneSlotEach /\ ScreenshotsChained /\ ConfirmedPictured)
BY SystemUsesStores, OneSlotEachAlways, ScreenshotsAlwaysChained, ConfirmedAlwaysPictured, PTL

\* And no step of the system takes a slot or a lock from whoever has it under
\* a live lease, claims a project or a task a second time meanwhile, or
\* returns a task to the workers that is settled, but for a retryable error.
THEOREM StoreStepsInSystem ==
    Spec => /\ SlotsNotStolen /\ LocksNotStolen
            /\ ClaimsNotRepeated /\ InFlightNotReclaimed
            /\ OnlyRetryableReopens
BY SystemUsesStores, SlotsNeverStolen, LocksNeverStolen, ClaimsNeverRepeated,
   InFlightNeverReclaimed, OnlyRetryableReopened, PTL
-----------------------------------------------------------------------------
(* Type correctness *)

\* Files and bounds stay what they are.
LEMMA FileInit == Init => FileOK
BY BoundAssumption DEF Init, EngineInit, FileOK

\* An error uses up a fault or strikes a database that is gone.
LEMMA StrikesType ==
    ASSUME FileOK, NEW w, NEW projectCall, Strikes(w, projectCall)
    PROVE  faults' \in Nat
BY DEF Strikes, FileOK

\* A statement whose error is dropped uses up a fault as well.
LEMMA DroppedType ==
    ASSUME FileOK, NEW lost \in BOOLEAN, Dropped(lost)
    PROVE  faults' \in 0 .. faults
BY DEF Dropped, FileOK

\* Archives move and mark; nothing else touches a file.
LEMMA FileStep == FileOK /\ [Next]_allVars => FileOK'
<1> SUFFICES ASSUME FileOK, [Next]_allVars
             PROVE  FileOK'
  OBVIOUS
<1> USE DEF fileVars, Step, StayingAt, QueueOnly, ProjectOnly, StoresKept
<1>1. ASSUME NEW w \in Workers, WorkerStep(w), UNCHANGED crashes PROVE FileOK'
  <2>1. UNCHANGED <<tombstone, moved>> /\ (Execute(w) \/ UNCHANGED faults)
    BY <1>1 DEF WorkerStep, AwaitSlot, RenewSlot, Claim, Resolve, Gone, OpenStore, FailProject,
                LockProject, CheckArchiving, CheckActive, NextTask, Execute, Unlock,
                RemoveProject, FinishProject, RequeueProject, Quit, Ended
  <2>2. faults' \in Nat
    BY <2>1, DroppedType DEF Execute, FileOK
  <2>3. QED  BY <1>1, <2>1, <2>2 DEF FileOK
<1>2. ASSUME NEW w \in Workers, StoreError(w), UNCHANGED crashes PROVE FileOK'
  <2>1. UNCHANGED <<tombstone, moved>>
    BY <1>2 DEF StoreError, Ended
  <2>2. faults' \in Nat
    BY <1>2, StrikesType DEF StoreError, FailingCall
  <2>3. QED  BY <1>2, <2>1, <2>2 DEF FileOK
<1>3. ASSUME NEW u \in Users, CommandBegins(u) \/ Heartbeat(u), UNCHANGED crashes PROVE FileOK'
  <2>1. UNCHANGED <<tombstone, moved, faults>>
    BY <1>3 DEF CommandBegins, BeginStart, BeginRetry, BeginArchive, BeginReview, Heartbeat
  <2>2. QED  BY <1>3, <2>1 DEF FileOK
<1>4. ASSUME NEW u \in Users, CommandStep(u), UNCHANGED crashes PROVE FileOK'
  <2>1. CASE ArchiveMark(u) \/ ArchiveMove(u) \/ ArchiveClear(u)
    BY <1>4, <2>1 DEF ArchiveMark, ArchiveMove, ArchiveClear, FileOK
  <2>2. CASE ~(ArchiveMark(u) \/ ArchiveMove(u) \/ ArchiveClear(u))
    <3>1. UNCHANGED <<tombstone, moved>> /\ (ReviewTask(u) \/ UNCHANGED faults)
      BY <1>4, <2>2 DEF CommandStep, EnqueueLock, EnqueueCheck, EnqueueRow, Launch, EnqueueDone,
                  UnlockCommand, ArchiveLock, ArchiveRecheck, ArchiveUnlock, ArchiveDrop,
                  ReviewLock, ReviewCheck, ReviewList, ReviewTask, ReviewOver,
                  TakesLock, LeavesLock, Goes, Exits, Ended
    <3>2. faults' \in Nat
      BY <3>1, DroppedType DEF ReviewTask, FileOK
    <3>3. QED  BY <1>4, <3>1, <3>2 DEF FileOK
  <2>3. QED  BY <2>1, <2>2
<1>5. ASSUME NEW u \in Users, CommandError(u), UNCHANGED crashes PROVE FileOK'
  <2>1. faults' \in Nat
    BY <1>5 DEF CommandError, FileOK
  <2>2. tombstone' \in [Projects -> BOOLEAN] /\ moved' \in [Projects -> BOOLEAN]
    BY <1>5 DEF CommandError, Ended, FileOK
  <2>3. QED  BY <1>5, <2>1, <2>2 DEF FileOK
<1>6. ASSUME Crash \/ Tick PROVE FileOK'
  <2>1. UNCHANGED <<tombstone, moved, faults>>
    BY <1>6 DEF Crash, Tick, Ended
  <2>2. crashes' \in Nat
    BY <1>6 DEF Crash, Tick, FileOK
  <2>3. QED  BY <2>1, <2>2 DEF FileOK
<1>7. CASE UNCHANGED allVars
  BY <1>7 DEF allVars, vars, FileOK
<1>8. QED  BY <1>1, <1>2, <1>3, <1>4, <1>5, <1>6, <1>7 DEF Next

\* Every row, file and actor of the system is well formed, for any number of
\* them and without any assumption on time.
THEOREM SystemTypeCorrect == Spec => []TypeOK
<1>1. Spec => []QueueTypeOK /\ []ProjectTypeOK
  BY SystemUsesStores, QueueTypeCorrect, ProjectTypeCorrect, PTL
<1>2. Spec => []FileOK
  BY FileInit, FileStep, PTL DEF Spec
<1>3. QueueTypeOK /\ ProjectTypeOK /\ ActorOK /\ FileOK => TypeOK
  BY DEF ActorOK, FileOK, TypeOK
<1>4. QED  BY <1>1, <1>2, <1>3, ActorAlways, PTL
-----------------------------------------------------------------------------
(* Slots *)

\* Where a worker has its slot, from the end of its wait to its leaving.
SlottedPC == WorkerPC \ {"off", "slot", "quit"}

HasSlot(w) == \E s \in Slots : slots[s].holder = w /\ Live(slots[s].left)

\* The inductive invariant: a slot of one's own, under a live lease.
SlotHeld == \A w \in Workers : pc[w] \in SlottedPC => HasSlot(w)

\* What the steps of the system are to the slots, but for a second: nobody
\* goes on without a slot, a worker gets or renews its own, actors are gone.
SlotsQuiet ==
    /\ UNCHANGED slots
    /\ \A w \in Workers : pc'[w] \in SlottedPC => pc[w] \in SlottedPC

SlotAcquired ==
    \E w \in Workers : /\ AcquireWorker(w, MaxSlots)
                       /\ \A v \in Workers \ {w} : pc'[v] = pc[v]

SlotsVacated ==
    \E S \in SUBSET Holders : \E R \in SUBSET S :
        /\ QueueDeparture(S, R)
        /\ \A w \in Workers : pc'[w] = IF w \in S THEN "off" ELSE pc[w]

SlotSteps == SlotsQuiet \/ SlotAcquired \/ SlotsVacated

\* A worker that goes on and leaves the slots alone.
LEMMA GoesOnSlotted ==
    ASSUME ActorOK, NEW w \in Workers, NEW to,
           pc' = [pc EXCEPT ![w] = to], to \in SlottedPC => pc[w] \in SlottedPC,
           UNCHANGED slots
    PROVE  SlotSteps
<1>1. w \in Holders
  BY ActorAssumption
<1>2. \A v \in Workers : pc'[v] = IF v = w THEN to ELSE pc[v]
  BY <1>1, ActorAssumption DEF ActorOK
<1>3. SlotsQuiet
  BY <1>2 DEF SlotsQuiet
<1>4. QED  BY <1>3 DEF SlotSteps

\* Actors that are gone.
LEMMA EndedSlotSteps ==
    ASSUME ActorOK, NEW S \in SUBSET Holders, Ended(S),
           UNCHANGED slots \/ \E R \in SUBSET S : slots' = SlotsLeft(S, R)
    PROVE  SlotSteps
<1>1. \A w \in Workers : pc'[w] = IF w \in S THEN "off" ELSE pc[w]
  BY ActorAssumption DEF Ended
<1>2. CASE UNCHANGED slots
  BY <1>1, <1>2 DEF SlotSteps, SlotsQuiet, SlottedPC
<1>3. ASSUME NEW R \in SUBSET S, slots' = SlotsLeft(S, R) PROVE SlotSteps
  <2>1. QueueDeparture(S, R)
    BY <1>3 DEF QueueDeparture, Ended, OrderKept
  <2>2. QED  BY <1>1, <2>1 DEF SlotSteps, SlotsVacated
<1>4. QED  BY <1>2, <1>3

\* A turn.
LEMMA WorkerSlotSteps ==
    ASSUME ActorOK, NEW w \in Workers, WorkerStep(w)
    PROVE  SlotSteps
<1>1. w \in Holders /\ {w} \in SUBSET Holders
  BY ActorAssumption
<1> USE DEF Step, StayingAt, QueueOnly, ProjectOnly, StoresKept, queueVars
<1>2. ASSUME NEW to, AcquireWorker(w, MaxSlots), pc' = [pc EXCEPT ![w] = to]
      PROVE  SlotSteps
  <2>1. \A v \in Workers \ {w} : pc'[v] = pc[v]
    BY <1>1, <1>2, ActorAssumption DEF ActorOK
  <2>2. QED  BY <1>2, <2>1 DEF SlotSteps, SlotAcquired
<1>3. ASSUME AwaitSlot(w) PROVE SlotSteps
  <2>1. CASE Ended({w}) /\ UNCHANGED slots
    BY <1>1, <2>1, EndedSlotSteps
  <2>2. QED  BY <1>2, <1>3, <2>1 DEF AwaitSlot
<1>4. ASSUME RenewSlot(w) PROVE SlotSteps
  <2>1. CASE Step(w, "renew", "quit") /\ UNCHANGED slots
    BY <2>1, GoesOnSlotted DEF SlottedPC
  <2>2. QED  BY <1>2, <1>4, <2>1 DEF RenewSlot
<1>5. ASSUME \/ Claim(w) \/ Resolve(w) \/ Gone(w) \/ OpenStore(w) \/ FailProject(w) \/ LockProject(w)
             \/ CheckArchiving(w) \/ CheckActive(w) \/ NextTask(w) \/ Execute(w) \/ Unlock(w)
             \/ RemoveProject(w) \/ FinishProject(w) \/ RequeueProject(w)
      PROVE  SlotSteps
  <2>1. UNCHANGED slots
    BY <1>5 DEF Claim, ClaimProject, Resolve, Gone, OpenStore, FailProject, Fail, LockProject, CheckArchiving,
                CheckActive, NextTask, Execute, Unlock, RemoveProject, Remove, FinishProject,
                Finish, RequeueProject, Requeue
  <2>2. /\ pc[w] \in {"claim", "resolve", "gone", "open", "fail", "lock", "check", "active", "next",
                      "execute", "unlock_archived", "unlock_cancelled", "unlock_done",
                      "unlock_turn", "remove", "finish", "requeue"}
        /\ \E to : pc' = [pc EXCEPT ![w] = to]
    BY <1>5 DEF Claim, Resolve, Gone, OpenStore, FailProject, LockProject, CheckArchiving,
                CheckActive, NextTask, Execute, Unlock, RemoveProject, FinishProject,
                RequeueProject, TurnOver
  <2>3. pc[w] \in SlottedPC
    BY <2>2 DEF SlottedPC, WorkerPC
  <2>4. QED  BY <2>1, <2>2, <2>3, GoesOnSlotted
<1>6. ASSUME Quit(w) PROVE SlotSteps
  <2>1. Leaving(w) \in SUBSET Holders /\ {w} \in SUBSET Leaving(w)
    BY <1>1, ProcessOfType DEF Leaving
  <2>2. QED  BY <1>6, <2>1, EndedSlotSteps DEF Quit
<1>7. QED  BY WorkerStep(w), <1>3, <1>4, <1>5, <1>6 DEF WorkerStep

\* A statement of a worker that fails.
LEMMA StoreErrorSlotSteps ==
    ASSUME ActorOK, NEW w \in Workers, StoreError(w)
    PROVE  SlotSteps
<1>1. CASE Ended(ProcessOf(w)) /\ slots' = SlotsLeft(ProcessOf(w), {})
  BY <1>1, ProcessOfType, EndedSlotSteps
<1>2. CASE /\ UNCHANGED slots
           /\ \/ pc' = [pc EXCEPT ![w] = "quit"]
              \/ /\ pc[w] \in {"resolve", "open", "active", "next", "execute"}
                 /\ \E to : pc' = [pc EXCEPT ![w] = to]
  <2>1. "quit" \notin SlottedPC /\ {"resolve", "open", "active", "next", "execute"} \subseteq SlottedPC
    BY DEF SlottedPC, WorkerPC
  <2>2. QED  BY <1>2, <2>1, GoesOnSlotted
<1>3. QED  BY <1>1, <1>2 DEF StoreError, Step, queueVars

\* Commands have no slots, and the workers they launch wait for one.
LEMMA CommandSlotSteps ==
    ASSUME ActorOK, NEW u \in Users,
           CommandBegins(u) \/ CommandStep(u) \/ Heartbeat(u) \/ CommandError(u)
    PROVE  SlotSteps
<1>1. u \in Holders /\ {u} \in SUBSET Holders /\ u \notin Workers /\ Workers \subseteq Holders
  BY ActorAssumption
<1> USE DEF Step, Goes, StayingAt, QueueOnly, ProjectOnly, StoresKept, queueVars
<1>2. UNCHANGED slots
  BY DEF CommandBegins, BeginStart, BeginRetry, BeginArchive, BeginReview, Begin,
         CommandStep, EnqueueLock, EnqueueCheck, EnqueueRow, Enqueue, Launch, EnqueueDone,
         UnlockCommand, ArchiveLock, ArchiveRecheck, ArchiveMark, ArchiveUnlock, ArchiveMove,
         ArchiveDrop, Remove, ArchiveClear, ReviewLock, ReviewCheck, ReviewList, ReviewTask,
         ReviewOver, Heartbeat, CommandError, TakesLock, LeavesLock, Exits
<1>3. CASE Launch(u)
  <2>1. PICK P \in Processes :
            pc' = [a \in Holders |-> CASE a = u -> "enq_done"
                                       [] a \in P -> "slot"
                                       [] OTHER -> pc[a]]
    BY <1>3 DEF Launch
  <2>2. \A w \in Workers : pc'[w] \in {"slot", pc[w]}
    BY <1>1, <2>1
  <2>3. QED  BY <1>2, <2>2 DEF SlotSteps, SlotsQuiet, SlottedPC
<1>4. CASE Ended({u})
  BY <1>1, <1>2, <1>4, EndedSlotSteps
<1>5. CASE pc' = pc \/ \E to : pc' = [pc EXCEPT ![u] = to]
  <2>1. \A w \in Workers : pc'[w] = pc[w]
    BY <1>1, <1>5 DEF ActorOK
  <2>2. QED  BY <1>2, <2>1 DEF SlotSteps, SlotsQuiet
<1>6. Launch(u) \/ Ended({u}) \/ pc' = pc \/ \E to : pc' = [pc EXCEPT ![u] = to]
  BY DEF CommandBegins, BeginStart, BeginRetry, BeginArchive, BeginReview, Begin,
         CommandStep, EnqueueLock, EnqueueCheck, EnqueueRow, EnqueueDone,
         UnlockCommand, ArchiveLock, ArchiveRecheck, ArchiveMark, ArchiveUnlock, ArchiveMove,
         ArchiveDrop, ArchiveClear, ReviewLock, ReviewCheck, ReviewList, ReviewTask,
         ReviewOver, Heartbeat, CommandError, TakesLock, LeavesLock, Exits
<1>7. QED  BY <1>3, <1>4, <1>5, <1>6

\* A call keeps the slot of whoever stays, or gives one to whoever asks.
LEMMA SlotStepKeepsSlotHeld ==
    ASSUME QueueTypeOK, SlotHeld, SlotSteps
    PROVE  SlotHeld'
<1>1. CASE SlotsQuiet
  BY <1>1 DEF SlotsQuiet, SlotHeld, HasSlot
<1>2. ASSUME NEW w \in Workers, AcquireWorker(w, MaxSlots),
             \A v \in Workers \ {w} : pc'[v] = pc[v]
      PROVE  SlotHeld'
  <2>1. SlotRow(w).holder = w /\ Live(SlotRow(w).left)
    BY LeaseAssumption DEF SlotRow, Live, Expired
  <2>2. /\ \E s \in Slots : slots'[s] = SlotRow(w)
        /\ \A s \in Slots : \A v \in Workers \ {w} :
              slots[s].holder = v /\ Live(slots[s].left) => slots'[s] = slots[s]
    <3>1. CASE SlotRenewed(w)
      <4>1. PICK keep \in SlotsOf(w) :
                slots' = [s \in Slots |-> CASE s = keep -> SlotRow(w)
                                            [] s \in SlotsOf(w) \ {keep} -> Free
                                            [] OTHER -> slots[s]]
        BY <3>1 DEF SlotRenewed
      <4>2. keep \in Slots /\ slots'[keep] = SlotRow(w)
        BY <4>1 DEF SlotsOf
      <4>3. QED  BY <4>1, <4>2 DEF SlotsOf
    <3>2. CASE SlotTaken(w, MaxSlots)
      <4>1. PICK taken \in OpenSlots(MaxSlots) : slots' = [slots EXCEPT ![taken] = SlotRow(w)]
        BY <3>2 DEF SlotTaken
      <4>2. taken \in Slots /\ Takeable(slots[taken])
        BY <4>1 DEF OpenSlots
      <4>3. \A s \in Slots : slots'[s] = IF s = taken THEN SlotRow(w) ELSE slots[s]
        BY <4>1 DEF QueueTypeOK
      <4>4. \A v \in Workers : v # NoOne
        BY HolderAssumption, ActorAssumption
      <4>5. QED  BY <4>2, <4>3, <4>4 DEF Takeable
    <3>3. QED  BY <1>2, <3>1, <3>2 DEF AcquireWorker
  <2>3. HasSlot(w)'
    BY <2>1, <2>2 DEF HasSlot
  <2>4. ASSUME NEW v \in Workers \ {w}, HasSlot(v) PROVE HasSlot(v)'
    BY <2>2, <2>4 DEF HasSlot
  <2>5. QED  BY <1>2, <2>3, <2>4 DEF SlotHeld
<1>3. ASSUME NEW S \in SUBSET Holders, NEW R \in SUBSET S, QueueDeparture(S, R),
             \A w \in Workers : pc'[w] = IF w \in S THEN "off" ELSE pc[w]
      PROVE  SlotHeld'
  <2>1. ASSUME NEW w \in Workers, w \notin S, HasSlot(w) PROVE HasSlot(w)'
    <3>1. PICK s \in Slots : slots[s].holder = w /\ Live(slots[s].left)
      BY <2>1 DEF HasSlot
    <3>2. slots'[s] = slots[s]
      BY <1>3, <2>1, <3>1 DEF QueueDeparture, SlotsLeft, Orphaned
    <3>3. QED  BY <3>1, <3>2 DEF HasSlot
  <2>2. QED  BY <1>3, <2>1 DEF SlotHeld, SlottedPC
<1>4. QED  BY <1>1, <1>2, <1>3 DEF SlotSteps, SlotAcquired, SlotsVacated

\* A second takes nobody's slot, when everyone is in time.
LEMMA TickKeepsSlotHeld ==
    ASSUME QueueTypeOK, SlotHeld, Timely, Tick
    PROVE  SlotHeld'
<1>1. pc' = pc /\ slots' = [s \in Slots |-> AgedRow(slots[s])]
  BY DEF Tick, QueueTick
<1>2. ASSUME NEW w \in Workers, pc[w] \in SlottedPC PROVE HasSlot(w)'
  <2>1. PICK s \in Slots : slots[s].holder = w
    BY <1>2 DEF SlotHeld, HasSlot
  <2>2. w \in Holders /\ pc[w] # "off"
    BY <1>2, ActorAssumption DEF SlottedPC
  <2>3. slots[s].left > 1
    BY <2>1, <2>2 DEF Tick, OnTime, Ageable
  <2>4. slots[s] \in LockRow
    BY DEF QueueTypeOK
  <2>5. slots'[s].holder = w
    BY <1>1, <2>1, <2>4, HolderKept
  <2>6. slots'[s].left = Aged(slots[s].left)
    BY <1>1, <2>4 DEF AgedRow, LockRow
  <2>7. Live(Aged(slots[s].left))
    BY <2>3, <2>4, LeaseAssumption DEF Live, Aged, Expired, LockRow, Left
  <2>8. QED  BY <2>5, <2>6, <2>7 DEF HasSlot
<1>3. QED  BY <1>1, <1>2 DEF SlotHeld

\* Every step of the system.
LEMMA SlotHeldStep ==
    ASSUME ActorOK, QueueTypeOK, SlotHeld, Timely, [Next]_allVars
    PROVE  SlotHeld'
<1>1. ASSUME NEW w \in Workers, WorkerStep(w) \/ StoreError(w) PROVE SlotHeld'
  BY <1>1, WorkerSlotSteps, StoreErrorSlotSteps, SlotStepKeepsSlotHeld
<1>2. ASSUME NEW u \in Users,
             CommandBegins(u) \/ CommandStep(u) \/ Heartbeat(u) \/ CommandError(u)
      PROVE  SlotHeld'
  BY <1>2, CommandSlotSteps, SlotStepKeepsSlotHeld
<1>3. CASE Crash
  <2>1. PICK S \in SUBSET Holders : /\ Ended(S)
                                    /\ UNCHANGED slots \/ slots' = SlotsLeft(S, {})
    BY <1>3, ActorAssumption DEF Crash, Workers
  <2>2. UNCHANGED slots \/ \E R \in SUBSET S : slots' = SlotsLeft(S, R)
    BY <2>1
  <2>3. QED  BY <2>1, <2>2, EndedSlotSteps, SlotStepKeepsSlotHeld
<1>4. CASE Tick
  BY <1>4, TickKeepsSlotHeld
<1>5. CASE UNCHANGED allVars
  BY <1>5 DEF allVars, vars, queueVars, actorVars, SlotHeld, HasSlot
<1>6. QED  BY <1>1, <1>2, <1>3, <1>4, <1>5 DEF Next

\* A slot has one holder, so whoever has a slot of its own counts against
\* the slots.
LEMMA OneEach ==
    ASSUME SlotHeld, NEW W \in SUBSET Workers, \A w \in W : pc[w] \in SlottedPC
    PROVE  IsFiniteSet(W) /\ Cardinality(W) =< MaxSlots
<1> DEFINE slotOf == [w \in W |-> CHOOSE s \in Slots : slots[s].holder = w]
<1>1. \A w \in W : \E s \in Slots : slots[s].holder = w
  BY DEF SlotHeld, HasSlot
<1>2. \A w \in W : slotOf[w] \in Slots /\ slots[slotOf[w]].holder = w
  BY <1>1
<1>3. slotOf \in Injection(W, Slots)
  BY <1>2 DEF Injection, IsInjective
<1>4. MaxSlots \in Nat /\ MaxSlots >= 1 /\ 0 \in Int /\ MaxSlots - 1 \in Int
  BY SlotAssumption
<1>5. IsFiniteSet(Slots) /\ Cardinality(Slots) = MaxSlots
  BY <1>4, FS_Interval DEF Slots
<1> HIDE DEF slotOf
<1>6. QED  BY <1>3, <1>5, FS_Injection

\* Whoever is past its wait for a slot, and not yet leaving, has a slot of its
\* own under a live lease.
THEOREM SlotAlwaysHeld ==
    ASSUME Timely PROVE Spec => []SlotHeld
<1>1. Init => SlotHeld
  BY ActorAssumption DEF Init, EngineInit, SlotHeld, SlottedPC
<1>2. Spec => []QueueTypeOK
  BY SystemUsesStores, QueueTypeCorrect, PTL
<1>3. ActorOK /\ QueueTypeOK /\ SlotHeld /\ [Next]_allVars => SlotHeld'
  BY SlotHeldStep
<1>4. QED  BY <1>1, <1>2, <1>3, ActorAlways, PTL DEF Spec

\* So there are never more workers at a browser than slots, however many
\* processes were started, whichever crashed, and whichever rows of theirs
\* ran out or were taken over meanwhile.
THEOREM BrowsersAlwaysWithinSlots ==
    ASSUME Timely PROVE Spec => []BrowsersWithinSlots
<1>1. SlotHeld => BrowsersWithinSlots
  <2> SUFFICES ASSUME SlotHeld PROVE BrowsersWithinSlots
    OBVIOUS
  <2>1. "execute" \in SlottedPC
    BY DEF SlottedPC, WorkerPC
  <2>2. QED  BY <2>1, OneEach DEF BrowsersWithinSlots
<1>2. QED  BY <1>1, SlotAlwaysHeld, PTL
-----------------------------------------------------------------------------
(* Archives *)

\* Past the look for a tombstone, up to the end of the work.
PastCheck == {"active", "next", "execute", "rev_list", "rev_run"}

\* An archive from its tombstone on: before the rename, after it, and where it
\* takes back what it did.
MarkedPC == {"arc_unlock", "arc_move"}
MovedPC  == {"arc_drop", "arc_clear"}

ArchivePC == MarkedPC \cup MovedPC \cup {"arc_abort"}

\* Who takes no part in an archive stays so, and comes past the look for a
\* tombstone only where there was none.
Walks(a) ==
    \/ pc'[a] = pc[a] /\ at'[a] = at[a]
    \/ /\ pc[a] \notin ArchivePC
       /\ pc'[a] \notin ArchivePC
       /\ pc'[a] \in PastCheck =>
             /\ at'[a] = at[a]
             /\ pc[a] \in PastCheck \/ ~Archiving(at[a])
             /\ pc'[a] = "execute" => ~moved[at[a]]

Strolls ==
    /\ \A a \in Holders : Walks(a)
    /\ UNCHANGED <<tombstone, moved, crashes>>
    /\ faults' \in 0 .. faults

\* Whoever dies is gone, an archive included.
Dies(S) ==
    /\ crashes > 0 /\ crashes' = crashes - 1
    /\ UNCHANGED <<tombstone, moved, faults>>
    /\ \A a \in Holders : /\ pc'[a] = IF a \in S THEN "off" ELSE pc[a]
                          /\ at'[a] = IF a \in S THEN NoOne ELSE at[a]

\* An archive's own calls.
ArchiveCall(u) ==
    /\ \/ ArchiveMark(u) \/ ArchiveUnlock(u) \/ ArchiveMove(u) \/ ArchiveDrop(u)
       \/ ArchiveClear(u)
       \/ pc[u] \in ArchivePC \cup {"arc_mark"} /\ CommandError(u)
    /\ UNCHANGED crashes

FileSteps ==
    \/ Strolls
    \/ \E S \in SUBSET Holders : Dies(S)
    \/ \E u \in Users : ArchiveCall(u)

\* A step of one actor that takes no part in an archive.
LEMMA StrollsAlone ==
    ASSUME ActorOK, NEW a \in Holders, NEW to,
           pc' = [pc EXCEPT ![a] = to], at' = at \/ \E x : at' = [at EXCEPT ![a] = x],
           pc[a] \notin ArchivePC, to \notin ArchivePC,
           to \in PastCheck => /\ at' = at
                               /\ pc[a] \in PastCheck \/ ~Archiving(at[a])
                               /\ to = "execute" => ~moved[at[a]],
           UNCHANGED <<tombstone, moved, crashes>>, faults' \in 0 .. faults
    PROVE  FileSteps
<1>1. pc'[a] = to
  BY DEF ActorOK
<1>2. \A b \in Holders \ {a} : pc'[b] = pc[b] /\ at'[b] = at[b]
  BY DEF ActorOK
<1>3. Walks(a)
  BY <1>1 DEF Walks
<1>4. Strolls
  BY <1>2, <1>3 DEF Strolls, Walks
<1>5. QED  BY <1>4 DEF FileSteps

\* Actors that are gone, no archive among them.
LEMMA StrollsAway ==
    ASSUME ActorOK, NEW S \in SUBSET Holders, Ended(S), \A a \in S : pc[a] \notin ArchivePC,
           UNCHANGED crashes, faults' \in 0 .. faults
    PROVE  FileSteps
<1>1. \A a \in Holders : IF a \in S THEN pc'[a] = "off" ELSE pc'[a] = pc[a] /\ at'[a] = at[a]
  BY DEF Ended
<1>2. "off" \notin ArchivePC \cup PastCheck
  BY DEF ArchivePC, MarkedPC, MovedPC, PastCheck
<1>3. \A a \in Holders : Walks(a)
  BY <1>1, <1>2 DEF Walks
<1>4. UNCHANGED <<tombstone, moved>>
  BY DEF Ended, fileVars
<1>5. QED  BY <1>3, <1>4 DEF FileSteps, Strolls

\* No worker archives.
LEMMA WorkersArchiveNothing ==
    ASSUME ActorOK, NEW w \in Workers
    PROVE  pc[w] \notin ArchivePC
BY DEF ActorOK, WorkerPC, ArchivePC, MarkedPC, MovedPC

\* A turn.
LEMMA WorkerFileSteps ==
    ASSUME ActorOK, FileOK, NEW w \in Workers, WorkerStep(w), UNCHANGED crashes
    PROVE  FileSteps
<1>1. w \in Holders /\ {w} \in SUBSET Holders /\ pc[w] \notin ArchivePC
  BY ActorAssumption, WorkersArchiveNothing
<1> USE DEF Step, StayingAt, QueueOnly, ProjectOnly, StoresKept, fileVars
<1>2. UNCHANGED <<tombstone, moved, crashes>> /\ (Execute(w) \/ UNCHANGED faults)
  BY DEF WorkerStep, AwaitSlot, RenewSlot, Claim, Resolve, Gone, OpenStore, FailProject,
         LockProject, CheckArchiving, CheckActive, NextTask, Execute, Unlock,
         RemoveProject, FinishProject, RequeueProject, Quit, Ended
<1>3. faults' \in 0 .. faults
  BY <1>2, DroppedType DEF Execute, FileOK
<1>4. ASSUME AwaitSlot(w) \/ Quit(w) PROVE FileSteps
  <2>1. ASSUME NEW S \in {{w}, Leaving(w)}, Ended(S) PROVE FileSteps
    <3>1. S \in SUBSET Workers
      BY <1>1, ProcessOfType DEF Leaving, Workers
    <3>2. S \in SUBSET Holders /\ \A a \in S : pc[a] \notin ArchivePC
      BY <3>1, ActorAssumption, WorkersArchiveNothing
    <3>3. QED  BY <1>2, <1>3, <2>1, <3>2, StrollsAway
  <2>2. CASE pc' = [pc EXCEPT ![w] = "renew"] /\ UNCHANGED at
    BY <1>1, <1>2, <1>3, <2>2, StrollsAlone DEF PastCheck, ArchivePC, MarkedPC, MovedPC
  <2>3. QED  BY <1>4, <2>1, <2>2 DEF AwaitSlot, Quit
<1>5. ASSUME \/ RenewSlot(w) \/ Claim(w) \/ Resolve(w) \/ Gone(w) \/ OpenStore(w) \/ LockProject(w)
             \/ FailProject(w) \/ RemoveProject(w) \/ FinishProject(w) \/ RequeueProject(w)
             \/ Execute(w) \/ Unlock(w)
      PROVE  FileSteps
  <2>1. PICK to \in {"claim", "quit", "resolve", "renew", "gone", "open", "lock", "remove", "fail",
                     "check", "requeue", "finish", "unlock_turn"} :
            /\ pc' = [pc EXCEPT ![w] = to]
            /\ at' = at \/ \E x : at' = [at EXCEPT ![w] = x]
    BY <1>5 DEF RenewSlot, Claim, Resolve, Gone, OpenStore, LockProject, FailProject, RemoveProject,
                FinishProject, RequeueProject, TurnOver, Execute, Unlock, AfterUnlock
  <2>2. to \notin PastCheck \cup ArchivePC
    BY DEF PastCheck, ArchivePC, MarkedPC, MovedPC
  <2>3. QED  BY <1>1, <1>2, <1>3, <2>1, <2>2, StrollsAlone
<1>6. ASSUME CheckArchiving(w) \/ CheckActive(w) \/ NextTask(w) PROVE FileSteps
  <2>1. PICK to \in {"unlock_archived", "active", "unlock_cancelled", "next", "unlock_done",
                     "execute"} :
            /\ pc' = [pc EXCEPT ![w] = to]
            /\ at' = at
            /\ to \in PastCheck => pc[w] \in PastCheck \/ ~Archiving(at[w])
            /\ to = "execute" => ~moved[at[w]]
    BY <1>6 DEF CheckArchiving, CheckActive, NextTask, PastCheck
  <2>2. to \notin ArchivePC
    BY DEF ArchivePC, MarkedPC, MovedPC
  <2>3. QED  BY <1>1, <1>2, <1>3, <2>1, <2>2, StrollsAlone
<1>7. QED  BY WorkerStep(w), <1>4, <1>5, <1>6 DEF WorkerStep

\* A statement of a worker that fails.
LEMMA StoreErrorFileSteps ==
    ASSUME ActorOK, FileOK, NEW w \in Workers, StoreError(w), UNCHANGED crashes
    PROVE  FileSteps
<1>1. w \in Holders /\ pc[w] \notin ArchivePC
  BY ActorAssumption, WorkersArchiveNothing
<1>2. ASSUME NEW b \in BOOLEAN, Strikes(w, b) PROVE faults' \in 0 .. faults
  BY <1>2 DEF Strikes, FileOK
<1>3. faults' \in 0 .. faults
  BY <1>2 DEF StoreError, FailingCall
<1>4. UNCHANGED <<tombstone, moved>>
  BY DEF StoreError, Ended, fileVars
<1>5. CASE Ended(ProcessOf(w))
  <2>1. ProcessOf(w) \in SUBSET Holders /\ ProcessOf(w) \in SUBSET Workers
    BY ProcessOfType DEF Workers
  <2>2. \A a \in ProcessOf(w) : pc[a] \notin ArchivePC
    BY <2>1, WorkersArchiveNothing
  <2>3. QED  BY <1>3, <1>5, <2>1, <2>2, StrollsAway
<1>6. CASE \E to \in {"quit", "gone", "fail", "unlock_cancelled", "unlock_turn"} :
             /\ pc' = [pc EXCEPT ![w] = to]
             /\ at' = at \/ at' = [at EXCEPT ![w] = NoOne]
  BY <1>1, <1>3, <1>4, <1>6, StrollsAlone DEF PastCheck, ArchivePC, MarkedPC, MovedPC
<1>7. QED  BY <1>5, <1>6 DEF StoreError, Step

\* A command, call by call.
LEMMA CommandFileSteps ==
    ASSUME ActorOK, FileOK, NEW u \in Users,
           CommandBegins(u) \/ CommandStep(u) \/ Heartbeat(u) \/ CommandError(u),
           UNCHANGED crashes
    PROVE  FileSteps
<1>1. u \in Holders /\ {u} \in SUBSET Holders
  BY ActorAssumption
<1>2. faults \in Nat /\ 0 \in 0 .. faults /\ faults \in 0 .. faults
  BY DEF FileOK
<1> USE DEF Step, Goes, Exits, Begin, StayingAt, QueueOnly, ProjectOnly, StoresKept, fileVars,
            PastCheck, ArchivePC, MarkedPC, MovedPC
<1>3. ASSUME CommandBegins(u) PROVE FileSteps
  <2>1. PICK entry \in {"enq_lock", "arc_lock", "rev_lock"} :
            /\ pc[u] = "off"
            /\ pc' = [pc EXCEPT ![u] = entry]
            /\ \E x : at' = [at EXCEPT ![u] = x]
            /\ UNCHANGED <<tombstone, moved, faults>>
    BY <1>3 DEF CommandBegins, BeginStart, BeginRetry, BeginArchive, BeginReview
  <2>2. QED  BY <1>1, <1>2, <2>1, StrollsAlone
<1>4. ASSUME EnqueueLock(u) \/ ArchiveLock(u) \/ ReviewLock(u) PROVE FileSteps
  <2>1. PICK from \in {"enq_lock", "arc_lock", "rev_lock"},
             to \in {"enq_check", "arc_recheck", "rev_check"} : TakesLock(u, from, to)
    BY <1>4 DEF EnqueueLock, ArchiveLock, ReviewLock
  <2>2. CASE pc[u] = from /\ Ended({u}) /\ UNCHANGED faults
    BY <1>1, <1>2, <2>2, StrollsAway
  <2>3. CASE pc[u] = from /\ pc' = [pc EXCEPT ![u] = to] /\ UNCHANGED <<at, fileVars, faults>>
    BY <1>1, <1>2, <2>3, StrollsAlone
  <2>4. QED  BY <2>1, <2>2, <2>3 DEF TakesLock
<1>5. ASSUME \/ EnqueueCheck(u) \/ EnqueueRow(u) \/ ArchiveRecheck(u) \/ EnqueueDone(u)
             \/ UnlockCommand(u) \/ ReviewOver(u)
      PROVE  FileSteps
  <2>1. PICK from \in {"enq_check", "enqueue", "arc_recheck", "enq_done", "unlock_cmd", "rev_run"},
             to \in {"unlock_cmd", "enqueue", "launch", "arc_mark", "off"} :
            /\ pc[u] = from
            /\ pc' = [pc EXCEPT ![u] = to]
            /\ at' = at \/ at' = [at EXCEPT ![u] = NoOne]
            /\ UNCHANGED <<tombstone, moved, faults>>
    BY <1>5 DEF EnqueueCheck, EnqueueRow, ArchiveRecheck, EnqueueDone, UnlockCommand, LeavesLock,
                ReviewOver
  <2>2. QED  BY <1>1, <1>2, <2>1, StrollsAlone
<1>6. ASSUME ReviewCheck(u) \/ ReviewList(u) \/ ReviewTask(u) PROVE FileSteps
  <2>1. PICK from \in {"rev_check", "rev_list", "rev_run"},
             to \in {"unlock_cmd", "rev_list", "rev_run"} :
            /\ pc[u] = from
            /\ pc' = [pc EXCEPT ![u] = to]
            /\ at' = at
            /\ from = "rev_check" /\ to = "rev_list" => ~Archiving(at[u])
            /\ from = "rev_check" => to \in {"unlock_cmd", "rev_list"}
            /\ UNCHANGED <<tombstone, moved>>
    BY <1>6 DEF ReviewCheck, ReviewList, ReviewTask
  <2>2. faults' \in 0 .. faults
    BY <1>2, <1>6, DroppedType DEF ReviewCheck, ReviewList, ReviewTask
  <2>3. QED  BY <1>1, <2>1, <2>2, StrollsAlone
<1>7. ASSUME Launch(u) PROVE FileSteps
  <2>1. PICK P \in Processes :
            /\ pc[u] = "launch" /\ \A w \in P : pc[w] = "off"
            /\ pc' = [a \in Holders |-> CASE a = u -> "enq_done"
                                          [] a \in P -> "slot"
                                          [] OTHER -> pc[a]]
            /\ UNCHANGED <<at, tombstone, moved, faults>>
    BY <1>7 DEF Launch, Launched
  <2>2. ASSUME NEW a \in Holders PROVE Walks(a)
    BY <2>1 DEF Walks
  <2>3. QED  BY <1>2, <2>1, <2>2 DEF FileSteps, Strolls
<1>8. ASSUME Heartbeat(u) PROVE FileSteps
  BY <1>2, <1>8 DEF Heartbeat, FileSteps, Strolls, Walks
<1>9. ASSUME CommandError(u), pc[u] \notin ArchivePC \cup {"arc_mark"} PROVE FileSteps
  <2>1. faults' \in 0 .. faults
    BY <1>2, <1>9 DEF CommandError
  <2>2. CASE Ended({u})
    BY <1>1, <1>9, <2>1, <2>2, StrollsAway
  <2>3. CASE pc' = [pc EXCEPT ![u] = "unlock_cmd"] /\ UNCHANGED <<at, tombstone, moved>>
    BY <1>1, <1>9, <2>1, <2>3, StrollsAlone
  <2>4. QED  BY <1>9, <2>2, <2>3 DEF CommandError
<1>10. ASSUME ArchiveCall(u) PROVE FileSteps
  BY <1>10 DEF FileSteps
<1>11. QED
  BY <1>3, <1>4, <1>5, <1>6, <1>7, <1>8, <1>9, <1>10 DEF CommandStep, ArchiveCall

\* Every step of the system.
LEMMA EveryFileStep ==
    ASSUME ActorOK, FileOK, [Next]_allVars
    PROVE  FileSteps
<1>1. ASSUME NEW w \in Workers, WorkerStep(w) \/ StoreError(w), UNCHANGED crashes
      PROVE  FileSteps
  BY <1>1, WorkerFileSteps, StoreErrorFileSteps
<1>2. ASSUME NEW u \in Users, UNCHANGED crashes,
             CommandBegins(u) \/ CommandStep(u) \/ Heartbeat(u) \/ CommandError(u)
      PROVE  FileSteps
  BY <1>2, CommandFileSteps
<1>3. CASE Crash
  <2>1. PICK S \in SUBSET Holders : Ended(S)
    BY <1>3, ActorAssumption DEF Crash, Workers
  <2>2. \A a \in Holders : /\ pc'[a] = IF a \in S THEN "off" ELSE pc[a]
                           /\ at'[a] = IF a \in S THEN NoOne ELSE at[a]
    BY <2>1 DEF Ended
  <2>3. Dies(S)
    BY <1>3, <2>1, <2>2 DEF Crash, Dies, Ended, fileVars
  <2>4. QED  BY <2>3 DEF FileSteps
<1>4. CASE Tick \/ UNCHANGED allVars
  <2>1. UNCHANGED <<pc, at, tombstone, moved, faults, crashes>>
    BY <1>4 DEF Tick, allVars, vars, actorVars, fileVars
  <2>2. faults' \in 0 .. faults
    BY <2>1 DEF FileOK
  <2>3. QED  BY <2>1, <2>2 DEF FileSteps, Strolls, Walks
<1>5. QED  BY <1>1, <1>2, <1>3, <1>4 DEF Next
-----------------------------------------------------------------------------
(* Nobody is at work where an archive moves *)

\* The inductive invariant: where a tombstone stands and the directory is in
\* its place, nobody is past the look for it; a directory is taken back, and
\* its tombstone away, only where no other archive could be about.
ArchiveMarked ==
    /\ \A u \in Users : pc[u] \in MarkedPC /\ ~moved[at[u]] =>
          /\ tombstone[at[u]]
          /\ \A a \in Holders : at[a] = at[u] => pc[a] \notin PastCheck
    /\ \A u \in Users : pc[u] \in MovedPC \cup {"arc_abort"} =>
          moved[at[u]] \/ \A v \in Users : v = u
    /\ \A w \in Workers : pc[w] = "execute" => ~moved[at[w]]
    /\ faults =< MaxFaults

\* An error and a second archive do not come together.
OneTrouble == MaxFaults = 0 \/ \A u, v \in Users : u = v

\* What the argument uses besides.
ArchiveContext == ActorOK /\ FileOK /\ LockInv /\ OneTrouble

\* Those who stroll.
LEMMA StrollsKeepMarked ==
    ASSUME ArchiveContext, ArchiveMarked, Strolls
    PROVE  ArchiveMarked'
<1>1. faults' =< MaxFaults
  BY BoundAssumption DEF Strolls, ArchiveMarked, ArchiveContext, FileOK
<1>2. ASSUME NEW u \in Users, pc'[u] \in ArchivePC
      PROVE  pc'[u] = pc[u] /\ at'[u] = at[u] /\ at[u] \in Projects
  <2>1. u \in Holders /\ Walks(u)
    BY ActorAssumption DEF Strolls
  <2>2. pc'[u] = pc[u] /\ at'[u] = at[u]
    BY <1>2, <2>1 DEF Walks
  <2>3. ~Nowhere(u)
    BY <1>2, <2>2 DEF ArchivePC, MarkedPC, MovedPC, Nowhere, NowherePC
  <2>4. QED  BY <2>1, <2>2, <2>3 DEF ArchiveContext, ActorOK
<1>3. ASSUME NEW u \in Users, pc'[u] \in MarkedPC, ~moved[at[u]],
             NEW a \in Holders, at'[a] = at[u]
      PROVE  tombstone[at[u]] /\ pc'[a] \notin PastCheck
  <2>1. pc[u] \in MarkedPC
    BY <1>2, <1>3 DEF ArchivePC
  <2>2. tombstone[at[u]] /\ Archiving(at[u])
    BY <1>3, <2>1 DEF ArchiveMarked, Archiving
  <2>3. Walks(a)
    BY DEF Strolls
  <2>4. QED  BY <1>3, <2>1, <2>2, <2>3 DEF ArchiveMarked, Walks
<1>4. ASSUME NEW w \in Workers, pc'[w] = "execute"
      PROVE  ~moved[at'[w]]
  <2>1. Walks(w) /\ "execute" \in PastCheck
    BY ActorAssumption DEF Strolls, PastCheck
  <2>2. QED  BY <1>4, <2>1 DEF ArchiveMarked, Walks
<1>5. \A u \in Users : u \in Holders
  BY ActorAssumption
<1>6. ASSUME NEW u \in Users, pc'[u] \in MarkedPC, ~moved'[at'[u]]
      PROVE  /\ tombstone'[at'[u]]
             /\ \A a \in Holders : at'[a] = at'[u] => pc'[a] \notin PastCheck
  BY <1>2, <1>3, <1>5, <1>6 DEF Strolls, ArchivePC
<1>7. ASSUME NEW u \in Users, pc'[u] \in MovedPC \cup {"arc_abort"}
      PROVE  moved'[at'[u]] \/ \A v \in Users : v = u
  BY <1>2, <1>7 DEF Strolls, ArchivePC, ArchiveMarked
<1>8. QED  BY <1>1, <1>4, <1>6, <1>7 DEF ArchiveMarked, Strolls

\* Those who die.
LEMMA DyingKeepsMarked ==
    ASSUME ArchiveMarked, NEW S \in SUBSET Holders, Dies(S)
    PROVE  ArchiveMarked'
<1>1. "off" \notin ArchivePC \cup PastCheck
  BY DEF ArchivePC, MarkedPC, MovedPC, PastCheck
<1>2. \A a \in Holders :
         pc'[a] \in ArchivePC \cup PastCheck => pc'[a] = pc[a] /\ at'[a] = at[a]
  BY <1>1 DEF Dies
<1>3. "execute" \in PastCheck /\ Users \subseteq Holders /\ Workers \subseteq Holders
  BY ActorAssumption DEF PastCheck
<1>4. QED  BY <1>2, <1>3 DEF ArchiveMarked, Dies, ArchivePC

\* Only the archive itself moves in its calls.
LEMMA ArchiveCallAlone ==
    ASSUME ActorOK, NEW u \in Users, ArchiveCall(u)
    PROVE  /\ u \in Holders /\ at[u] \in Projects
           /\ \A a \in Holders \ {u} : pc'[a] = pc[a] /\ at'[a] = at[a]
           /\ pc'[u] = "off" \/ at'[u] = at[u]
<1>1. u \in Holders
  BY ActorAssumption
<1>2. /\ \/ /\ \E to : pc' = [pc EXCEPT ![u] = to]
            /\ at' = at
         \/ /\ pc' = [pc EXCEPT ![u] = "off"]
            /\ at' = [at EXCEPT ![u] = NoOne]
         \/ Ended({u})
      /\ pc[u] \in ArchivePC \cup {"arc_mark"}
  BY DEF ArchiveCall, ArchiveMark, ArchiveUnlock, ArchiveMove, ArchiveDrop, ArchiveClear,
         CommandError, Step, Goes, StayingAt, ArchivePC, MarkedPC, MovedPC
<1>3. ~Nowhere(u)
  BY <1>2 DEF ArchivePC, MarkedPC, MovedPC, Nowhere, NowherePC
<1>4. \A a \in Holders \ {u} : pc'[a] = pc[a] /\ at'[a] = at[a]
  BY <1>1, <1>2 DEF Ended, ActorOK
<1>5. pc'[u] = "off" \/ at'[u] = at[u]
  BY <1>1, <1>2 DEF Ended, ActorOK
<1>6. QED  BY <1>1, <1>3, <1>4, <1>5 DEF ActorOK

\* An archive's own call, by what it does to the files of its project: the
\* others of the project must not be harmed, and it must be where it may.
LEMMA CallKeepsMarked ==
    ASSUME ArchiveContext, ArchiveMarked, NEW u \in Users, ArchiveCall(u), faults' =< MaxFaults,
           pc'[u] \notin PastCheck,
           \A p \in Projects \ {at[u]} : tombstone'[p] = tombstone[p] /\ moved'[p] = moved[p],
           \* the others
           \A v \in Users \ {u} :
              pc[v] \in ArchivePC /\ at[v] = at[u] =>
                 moved'[at[u]] \/ (tombstone'[at[u]] = tombstone[at[u]] /\ moved[at[u]] = FALSE),
           \A w \in Workers : at[w] = at[u] /\ pc[w] = "execute" => ~moved'[at[u]],
           \* itself
           pc'[u] \in MarkedPC /\ ~moved'[at[u]] =>
              /\ tombstone'[at[u]]
              /\ \A a \in Holders \ {u} : at[a] = at[u] => pc[a] \notin PastCheck,
           pc'[u] \in MovedPC \cup {"arc_abort"} =>
              moved'[at[u]] \/ \A v \in Users : v = u
    PROVE  ArchiveMarked'
<1>1. /\ u \in Holders /\ at[u] \in Projects
      /\ \A a \in Holders \ {u} : pc'[a] = pc[a] /\ at'[a] = at[a]
      /\ pc'[u] = "off" \/ at'[u] = at[u]
  BY ArchiveCallAlone DEF ArchiveContext
<1>2. Users \subseteq Holders /\ Workers \subseteq Holders /\ u \notin Workers
  BY ActorAssumption
<1>3. "off" \notin ArchivePC
  BY DEF ArchivePC, MarkedPC, MovedPC
<1>4. \A a \in Holders : pc[a] \in ArchivePC \cup {"execute"} => at[a] \in Projects
  BY DEF ArchivePC, MarkedPC, MovedPC, ArchiveContext, ActorOK, Nowhere, NowherePC
<1>5. ASSUME NEW v \in Users, pc'[v] \in MarkedPC, ~moved'[at'[v]]
      PROVE  /\ tombstone'[at'[v]]
             /\ \A a \in Holders : at'[a] = at'[v] => pc'[a] \notin PastCheck
  <2>1. CASE v = u
    BY <1>1, <1>3, <1>5, <2>1 DEF ArchivePC
  <2>2. CASE v # u
    <3>1. pc'[v] = pc[v] /\ at'[v] = at[v] /\ at[v] \in Projects
      BY <1>1, <1>2, <1>4, <1>5, <2>2 DEF ArchivePC
    <3>2. ~moved[at[v]] /\ tombstone'[at[v]] = tombstone[at[v]]
      BY <1>5, <2>2, <3>1 DEF ArchivePC
    <3>3. tombstone[at[v]] /\ \A a \in Holders : at[a] = at[v] => pc[a] \notin PastCheck
      BY <1>5, <3>1, <3>2 DEF ArchiveMarked
    <3>4. QED  BY <1>1, <3>1, <3>2, <3>3
  <2>3. QED  BY <2>1, <2>2
<1>6. ASSUME NEW v \in Users, pc'[v] \in MovedPC \cup {"arc_abort"}
      PROVE  moved'[at'[v]] \/ \A x \in Users : x = v
  <2>1. CASE v = u
    BY <1>1, <1>3, <1>6, <2>1 DEF ArchivePC
  <2>2. CASE v # u
    <3>1. pc'[v] = pc[v] /\ at'[v] = at[v] /\ at[v] \in Projects
      BY <1>1, <1>2, <1>4, <1>6, <2>2 DEF ArchivePC
    <3>2. moved[at[v]]
      BY <1>6, <2>2, <3>1 DEF ArchiveMarked
    <3>3. QED  BY <1>6, <2>2, <3>1, <3>2 DEF ArchivePC
  <2>3. QED  BY <2>1, <2>2
<1>7. ASSUME NEW w \in Workers, pc'[w] = "execute"
      PROVE  ~moved'[at'[w]]
  <2>1. pc[w] = "execute" /\ at'[w] = at[w] /\ at[w] \in Projects
    BY <1>1, <1>2, <1>4, <1>7
  <2>2. QED  BY <2>1 DEF ArchiveMarked
<1>8. QED  BY <1>5, <1>6, <1>7 DEF ArchiveMarked

\* Nobody is past the look for a tombstone while an archive leaves one: both
\* would have the lock.
LEMMA MarksAlone ==
    ASSUME ArchiveContext, NEW u \in Users, pc[u] = "arc_mark",
           NEW a \in Holders, a # u, at[a] = at[u]
    PROVE  pc[a] \notin PastCheck
<1>1. u \in Holders /\ Inside(u)
  BY ActorAssumption DEF Inside, InsidePC
<1>2. pc[a] \in PastCheck => Inside(a)
  BY DEF PastCheck, Inside, InsidePC
<1>3. QED  BY <1>1, <1>2 DEF ArchiveContext, LockInv, LockHeld

\* Each call of an archive.
LEMMA ArchiveCallKeepsMarked ==
    ASSUME ArchiveContext, ArchiveMarked, NEW u \in Users, ArchiveCall(u)
    PROVE  ArchiveMarked'
<1>1. /\ u \in Holders /\ at[u] \in Projects
      /\ \A a \in Holders \ {u} : pc'[a] = pc[a] /\ at'[a] = at[a]
      /\ pc'[u] = "off" \/ at'[u] = at[u]
  BY ArchiveCallAlone DEF ArchiveContext
<1>2. /\ pc \in [Holders -> WorkerPC \cup UserPC]
      /\ tombstone \in [Projects -> BOOLEAN] /\ moved \in [Projects -> BOOLEAN]
      /\ faults \in Nat /\ faults =< MaxFaults /\ MaxFaults \in Nat
  BY BoundAssumption DEF ArchiveContext, ActorOK, FileOK, ArchiveMarked
<1> USE DEF Step, Goes, StayingAt, QueueOnly, ProjectOnly, StoresKept, fileVars,
            PastCheck, ArchivePC, MarkedPC, MovedPC
<1>3. CASE ArchiveMark(u)
  <2>1. pc'[u] = IF moved[at[u]] THEN "unlock_cmd" ELSE "arc_unlock"
    BY <1>1, <1>2, <1>3 DEF ArchiveMark
  <2>2. /\ moved' = moved /\ faults' = faults
        /\ tombstone' = [tombstone EXCEPT ![at[u]] = @ \/ ~moved[at[u]]]
        /\ pc[u] = "arc_mark"
    BY <1>3 DEF ArchiveMark
  <2>3. \A v \in Users \ {u} : pc[v] \in ArchivePC /\ at[v] = at[u] =>
           moved'[at[u]] \/ (tombstone'[at[u]] = tombstone[at[u]] /\ moved[at[u]] = FALSE)
    BY <1>1, <1>2, <2>2 DEF ArchiveMarked
  <2>4. \A a \in Holders \ {u} : at[a] = at[u] => pc[a] \notin PastCheck
    BY <2>2, MarksAlone
  <2>5. \A w \in Workers : at[w] = at[u] /\ pc[w] = "execute" => ~moved'[at[u]]
    BY <2>2 DEF ArchiveMarked
  <2>6. \A p \in Projects \ {at[u]} : tombstone'[p] = tombstone[p] /\ moved'[p] = moved[p]
    BY <1>2, <2>2
  <2>7. pc'[u] = "arc_unlock" => tombstone'[at[u]]
    BY <1>1, <1>2, <2>1, <2>2
  <2>8. QED  BY <1>2, <2>1, <2>2, <2>3, <2>4, <2>5, <2>6, <2>7, CallKeepsMarked
<1>4. CASE ArchiveUnlock(u)
  <2>1. pc'[u] = IF moved[at[u]] THEN "arc_abort" ELSE "arc_move"
    BY <1>1, <1>2, <1>4 DEF ArchiveUnlock
  <2>2. moved' = moved /\ faults' = faults /\ tombstone' = tombstone /\ pc[u] = "arc_unlock"
    BY <1>4 DEF ArchiveUnlock
  <2>3. ~moved'[at[u]] =>
           /\ tombstone'[at[u]]
           /\ \A a \in Holders \ {u} : at[a] = at[u] => pc[a] \notin PastCheck
    BY <2>2 DEF ArchiveMarked
  <2>4. \A w \in Workers : at[w] = at[u] /\ pc[w] = "execute" => ~moved'[at[u]]
    BY <2>2 DEF ArchiveMarked
  <2>5. moved'[at[u]] \/ moved[at[u]] = FALSE
    BY <1>1, <1>2, <2>2
  <2>6. QED  BY <1>1, <1>2, <2>1, <2>2, <2>3, <2>4, <2>5, CallKeepsMarked
<1>5. CASE ArchiveMove(u)
  <2>1. pc'[u] = IF moved[at[u]] THEN "arc_abort" ELSE "arc_drop"
    BY <1>1, <1>2, <1>5 DEF ArchiveMove
  <2>2. /\ moved' = [moved EXCEPT ![at[u]] = TRUE] /\ faults' = faults
        /\ tombstone' = tombstone /\ pc[u] = "arc_move"
    BY <1>5 DEF ArchiveMove
  <2>3. moved'[at[u]] /\ \A p \in Projects \ {at[u]} : moved'[p] = moved[p]
    BY <1>1, <1>2, <2>2
  <2>4. \A w \in Workers : at[w] = at[u] /\ pc[w] = "execute" => ~moved'[at[u]]
    BY <1>1, <2>2, ActorAssumption DEF ArchiveMarked
  <2>5. QED  BY <1>1, <1>2, <2>1, <2>2, <2>3, <2>4, CallKeepsMarked
<1>6. CASE ArchiveDrop(u)
  <2>1. pc'[u] = "arc_clear"
    BY <1>1, <1>2, <1>6 DEF ArchiveDrop
  <2>2. moved' = moved /\ faults' = faults /\ tombstone' = tombstone /\ pc[u] = "arc_drop"
    BY <1>6 DEF ArchiveDrop
  <2>3. moved'[at[u]] \/ \A v \in Users : v = u
    BY <2>2 DEF ArchiveMarked
  <2>4. \A w \in Workers : at[w] = at[u] /\ pc[w] = "execute" => ~moved'[at[u]]
    BY <2>2 DEF ArchiveMarked
  <2>5. QED  BY <1>1, <1>2, <2>1, <2>2, <2>3, <2>4, CallKeepsMarked
<1>7. CASE ArchiveClear(u)
  <2>1. pc'[u] = "off"
    BY <1>1, <1>2, <1>7 DEF ArchiveClear
  <2>2. /\ moved' = moved /\ faults' = faults /\ pc[u] \in {"arc_clear", "arc_abort"}
        /\ \A p \in Projects \ {at[u]} : tombstone'[p] = tombstone[p]
    BY <1>2, <1>7 DEF ArchiveClear
  <2>3. \A v \in Users \ {u} : pc[v] \in ArchivePC /\ at[v] = at[u] => moved'[at[u]]
    BY <2>2 DEF ArchiveMarked
  <2>4. QED  BY <1>1, <1>2, <2>1, <2>2, <2>3, CallKeepsMarked DEF ArchiveMarked
<1>8. CASE pc[u] \in ArchivePC \cup {"arc_mark"} /\ CommandError(u)
  <2>1. \A v \in Users : v = u
    BY <1>2, <1>8 DEF CommandError, ArchiveContext, OneTrouble
  <2>2. /\ faults' =< MaxFaults
        /\ \A p \in Projects \ {at[u]} : tombstone'[p] = tombstone[p]
    BY <1>2, <1>8 DEF CommandError, Ended
  <2>3. /\ pc'[u] \in {"off", "unlock_cmd", "arc_abort"}
        /\ moved' = moved \/ moved' = [moved EXCEPT ![at[u]] = FALSE]
    BY <1>1, <1>2, <1>8 DEF CommandError, Ended
  <2>4. \A w \in Workers : at[w] = at[u] /\ pc[w] = "execute" => ~moved'[at[u]]
    BY <1>1, <1>2, <2>3 DEF ArchiveMarked
  <2>5. \A p \in Projects \ {at[u]} : moved'[p] = moved[p]
    BY <1>2, <2>3
  <2>6. QED  BY <1>1, <1>2, <2>1, <2>2, <2>3, <2>4, <2>5, CallKeepsMarked
<1>9. QED  BY <1>3, <1>4, <1>5, <1>6, <1>7, <1>8 DEF ArchiveCall

\* Nobody archives at first.
LEMMA ArchiveMarkedInit == Init => ArchiveMarked
BY BoundAssumption, ActorAssumption
   DEF Init, EngineInit, ArchiveMarked, MarkedPC, MovedPC

\* Every step of the system.
LEMMA ArchiveMarkedStep ==
    ASSUME ArchiveContext, ArchiveMarked, [Next]_allVars
    PROVE  ArchiveMarked'
<1>1. FileSteps
  BY EveryFileStep DEF ArchiveContext
<1>2. QED
  BY <1>1, StrollsKeepMarked, DyingKeepsMarked, ArchiveCallKeepsMarked DEF FileSteps

\* What the argument uses holds throughout.
LEMMA ArchiveContextAlways ==
    ASSUME Timely, OneTrouble PROVE Spec => []ArchiveContext
<1>1. Init => FileOK /\ LockInv
  BY FileInit, LockInvInit
<1>2. FileOK /\ LockInv /\ [Next]_allVars => FileOK' /\ LockInv'
  BY FileStep, LockInvStep
<1>3. Spec => []ActorOK /\ [](FileOK /\ LockInv)
  BY <1>1, <1>2, ActorAlways, PTL DEF Spec
<1>4. ActorOK /\ FileOK /\ LockInv => ArchiveContext
  BY DEF ArchiveContext
<1>5. QED  BY <1>3, <1>4, PTL

\* The invariant of the archives.
LEMMA ArchiveMarkedAlways ==
    ASSUME Timely, OneTrouble PROVE Spec => []ArchiveMarked
<1>1. ArchiveContext /\ ArchiveMarked /\ [Next]_allVars => ArchiveMarked'
  BY ArchiveMarkedStep
<1>2. QED  BY <1>1, ArchiveMarkedInit, ArchiveContextAlways, PTL DEF Spec

\* An archive renames no directory in which a worker executes a task or a
\* review is at one, although it gave the project's lock back before: of any
\* number of workers and commands, processes that die at any point, and
\* statements that fail, unless one fails while another user archives too.
THEOREM OnlyIdleEverMoved ==
    ASSUME Timely, MaxFaults = 0 \/ \A u, v \in Users : u = v
    PROVE  Spec => OnlyIdleMoved
<1>1. ASSUME ArchiveContext, ArchiveMarked, [Next]_allVars,
             NEW p \in Projects, ~moved[p], moved'[p], NEW a \in Holders, at[a] = p
      PROVE  pc[a] \notin {"execute", "rev_run"}
  <2>1. FileSteps /\ moved' # moved
    BY <1>1, EveryFileStep DEF ArchiveContext
  <2>2. PICK u \in Users : ArchiveCall(u)
    BY <2>1 DEF FileSteps, Strolls, Dies
  <2>3. ArchiveMove(u) /\ at[u] = p
    <3>1. moved \in [Projects -> BOOLEAN] /\ at[u] \in Projects
      BY <1>1, <2>2, ArchiveCallAlone DEF ArchiveContext, FileOK
    <3>2. /\ ~ArchiveMark(u) /\ ~ArchiveUnlock(u) /\ ~ArchiveDrop(u) /\ ~ArchiveClear(u)
      BY <2>1 DEF ArchiveMark, ArchiveUnlock, ArchiveDrop, ArchiveClear, Goes, StoresKept,
                  QueueOnly, ProjectOnly, fileVars
    <3>3. ~CommandError(u)
      BY <1>1, <2>1, <3>1 DEF CommandError, Ended, fileVars
    <3>4. ArchiveMove(u)
      BY <2>2, <3>2, <3>3 DEF ArchiveCall
    <3>5. QED  BY <1>1, <3>1, <3>4 DEF ArchiveMove
  <2>4. pc[u] \in MarkedPC
    BY <2>3 DEF ArchiveMove, Step, MarkedPC
  <2>5. pc[a] \notin PastCheck
    BY <1>1, <2>3, <2>4 DEF ArchiveMarked
  <2>6. QED  BY <2>5 DEF PastCheck
<1>2. ASSUME ArchiveContext, ArchiveMarked, [Next]_allVars
      PROVE  [\A p \in Projects :
                ~moved[p] /\ moved'[p] =>
                    \A a \in Holders :
                        at[a] = p => pc[a] \notin {"execute", "rev_run"}]_allVars
  BY <1>1, <1>2
<1>3. OneTrouble
  BY DEF OneTrouble
<1>4. QED
  BY <1>2, <1>3, ArchiveContextAlways, ArchiveMarkedAlways, PTL DEF Spec, OnlyIdleMoved
-----------------------------------------------------------------------------
(* No tombstone is left behind *)

\* The inductive invariant, without any lease or bound: an archive past its
\* rename finds the directory moved, for nobody takes it back but itself.
MovedAlone ==
    /\ \A u \in Users : pc[u] \in MovedPC => moved[at[u]]
    /\ \A u, v \in Users :
          pc[u] \in MovedPC /\ pc[v] \in MovedPC /\ at[u] = at[v] => u = v

\* Those who stroll, and those who die.
LEMMA OthersKeepMovedAlone ==
    ASSUME ActorOK, MovedAlone, Strolls \/ \E S \in SUBSET Holders : Dies(S)
    PROVE  MovedAlone'
<1>1. ASSUME NEW u \in Users, pc'[u] \in MovedPC
      PROVE  pc'[u] = pc[u] /\ at'[u] = at[u]
  <2>1. u \in Holders /\ "off" \notin MovedPC /\ MovedPC \subseteq ArchivePC
    BY ActorAssumption DEF MovedPC, ArchivePC
  <2>2. QED  BY <1>1, <2>1 DEF Strolls, Walks, Dies
<1>2. UNCHANGED moved
  BY DEF Strolls, Dies
<1>3. QED  BY <1>1, <1>2 DEF MovedAlone

\* What an archive's call does to the directories: only the rename and its
\* rollback move one, and each where it may.
LEMMA ArchiveCallMoves ==
    ASSUME ActorOK, FileOK, NEW u \in Users, ArchiveCall(u)
    PROVE  \/ /\ UNCHANGED moved
              /\ pc'[u] \in MovedPC => pc[u] = "arc_drop"
           \/ /\ ~moved[at[u]] /\ moved' = [moved EXCEPT ![at[u]] = TRUE]
              /\ pc'[u] = "arc_drop"
           \/ /\ pc[u] = "arc_drop" /\ moved' = [moved EXCEPT ![at[u]] = FALSE]
              /\ pc'[u] = "arc_abort" /\ UNCHANGED tombstone
<1>1. u \in Holders /\ at[u] \in Projects
  BY ArchiveCallAlone
<1>2. /\ pc \in [Holders -> WorkerPC \cup UserPC]
      /\ moved \in [Projects -> BOOLEAN]
  BY DEF ActorOK, FileOK
<1> USE DEF Step, Goes, StayingAt, QueueOnly, ProjectOnly, StoresKept, fileVars, MovedPC
<1>3. CASE ArchiveMove(u)
  <2>1. CASE moved[at[u]]
    <3>1. pc'[u] = "arc_abort" /\ moved' = moved
      BY <1>1, <1>2, <1>3, <2>1 DEF ArchiveMove
    <3>2. QED  BY <3>1
  <2>2. CASE ~moved[at[u]]
    BY <1>1, <1>2, <1>3, <2>2 DEF ArchiveMove
  <2>3. QED  BY <2>1, <2>2
<1>4. CASE ArchiveMark(u) \/ ArchiveUnlock(u) \/ ArchiveDrop(u) \/ ArchiveClear(u)
  BY <1>1, <1>2, <1>4 DEF ArchiveMark, ArchiveUnlock, ArchiveDrop, ArchiveClear
<1>5. CASE CommandError(u)
  BY <1>1, <1>2, <1>5 DEF CommandError, Ended
<1>6. QED  BY <1>3, <1>4, <1>5 DEF ArchiveCall

\* An archive's own call.
LEMMA CallKeepsMovedAlone ==
    ASSUME ActorOK, FileOK, MovedAlone, NEW u \in Users, ArchiveCall(u)
    PROVE  MovedAlone'
<1>1. /\ u \in Holders /\ at[u] \in Projects
      /\ \A a \in Holders \ {u} : pc'[a] = pc[a] /\ at'[a] = at[a]
      /\ pc'[u] = "off" \/ at'[u] = at[u]
  BY ArchiveCallAlone
<1>2. \A v \in Users \ {u} : pc'[v] = pc[v] /\ at'[v] = at[v]
  BY <1>1, ActorAssumption
<1>3. "off" \notin MovedPC /\ "arc_drop" \in MovedPC /\ "arc_abort" \notin MovedPC
  BY DEF MovedPC
<1>4. \A v \in Users : pc[v] \in MovedPC => at[v] \in Projects
  BY ActorAssumption DEF MovedPC, ActorOK, Nowhere, NowherePC
<1>5. moved \in [Projects -> BOOLEAN]
  BY DEF FileOK
<1>6. CASE UNCHANGED moved /\ (pc'[u] \in MovedPC => pc[u] = "arc_drop")
  <2>1. \A v \in Users : pc'[v] \in MovedPC => pc[v] \in MovedPC /\ at'[v] = at[v]
    BY <1>1, <1>2, <1>3, <1>6
  <2>2. QED  BY <1>6, <2>1 DEF MovedAlone
<1>7. CASE ~moved[at[u]] /\ moved' = [moved EXCEPT ![at[u]] = TRUE] /\ pc'[u] = "arc_drop"
  <2>1. \A v \in Users \ {u} : pc'[v] \in MovedPC =>
           pc[v] \in MovedPC /\ at'[v] = at[v] /\ at[v] # at[u] /\ moved'[at[v]]
    BY <1>1, <1>2, <1>4, <1>5, <1>7 DEF MovedAlone
  <2>2. moved'[at[u]] /\ at'[u] = at[u]
    BY <1>1, <1>5, <1>7
  <2>3. QED  BY <2>1, <2>2 DEF MovedAlone
<1>8. CASE pc[u] = "arc_drop" /\ moved' = [moved EXCEPT ![at[u]] = FALSE] /\ pc'[u] = "arc_abort"
  <2>1. \A v \in Users : pc'[v] \in MovedPC =>
           v # u /\ pc[v] \in MovedPC /\ at'[v] = at[v] /\ at[v] # at[u]
    BY <1>2, <1>3, <1>8 DEF MovedAlone
  <2>2. \A v \in Users : pc'[v] \in MovedPC => moved'[at[v]]
    BY <1>4, <1>5, <1>8, <2>1 DEF MovedAlone
  <2>3. QED  BY <2>1, <2>2 DEF MovedAlone
<1>9. QED  BY <1>6, <1>7, <1>8, ArchiveCallMoves

\* Every step of the system.
LEMMA MovedAloneStep ==
    ASSUME ActorOK, FileOK, MovedAlone, [Next]_allVars
    PROVE  MovedAlone'
<1>1. FileSteps
  BY EveryFileStep
<1>2. QED  BY <1>1, OthersKeepMovedAlone, CallKeepsMovedAlone DEF FileSteps

\* An archive past its rename is the only one of its project there.
LEMMA MovedAloneAlways == Spec => []MovedAlone
<1>1. Init => MovedAlone
  BY ActorAssumption DEF Init, EngineInit, MovedAlone, MovedPC
<1>2. Spec => []FileOK
  BY FileInit, FileStep, PTL DEF Spec
<1>3. QED  BY <1>1, <1>2, MovedAloneStep, ActorAlways, PTL DEF Spec

\* Who still stands by a tombstone.
AttendingPC == MarkedPC \cup {"arc_drop", "arc_abort"}

LEMMA StrandedMeans ==
    ASSUME NEW p \in Projects
    PROVE  Stranded(p) <=> /\ tombstone[p] /\ ~moved[p]
                           /\ \A u \in Users : at[u] = p => pc[u] \notin AttendingPC
BY DEF Stranded, Archiving, AttendingPC, MarkedPC

\* Who does not archive leaves no tombstone, and none alone.
LEMMA StrollsStrandNothing ==
    ASSUME ActorOK, NEW p \in Projects, Strolls, Stranded(p)'
    PROVE  Stranded(p)
<1>1. ASSUME NEW u \in Users, at[u] = p, pc[u] \in AttendingPC PROVE FALSE
  <2>1. u \in Holders /\ pc[u] \in ArchivePC
    BY <1>1, ActorAssumption DEF AttendingPC, ArchivePC, MovedPC
  <2>2. pc'[u] = pc[u] /\ at'[u] = at[u]
    BY <2>1 DEF Strolls, Walks
  <2>3. QED  BY <1>1, <2>2 DEF Stranded, AttendingPC, MarkedPC
<1>2. tombstone[p] /\ ~moved[p]
  BY DEF Strolls, Stranded, Archiving
<1>3. QED  BY <1>1, <1>2, StrandedMeans

\* An archive's call leaves none alone but by failing at the tombstone itself.
LEMMA CallStrandsNothing ==
    ASSUME ActorOK, FileOK, MovedAlone, NEW u \in Users, ArchiveCall(u),
           NEW p \in Projects, ~Stranded(p), Stranded(p)'
    PROVE  /\ CommandError(u) /\ at[u] = p
           /\ pc[u] \in {"arc_mark", "arc_abort"} /\ pc'[u] # pc[u]
<1>1. /\ u \in Holders /\ at[u] \in Projects
      /\ \A a \in Holders \ {u} : pc'[a] = pc[a] /\ at'[a] = at[a]
      /\ pc'[u] = "off" \/ at'[u] = at[u]
  BY ArchiveCallAlone
<1>2. /\ pc \in [Holders -> WorkerPC \cup UserPC]
      /\ tombstone \in [Projects -> BOOLEAN] /\ moved \in [Projects -> BOOLEAN]
  BY DEF ActorOK, FileOK
<1>3. \A v \in Users \ {u} : pc'[v] = pc[v] /\ at'[v] = at[v]
  BY <1>1, ActorAssumption
<1>4. /\ tombstone'[p] /\ ~moved'[p]
      /\ \A v \in Users : at'[v] = p => pc'[v] \notin AttendingPC
  BY DEF Stranded, Archiving, AttendingPC, MarkedPC
<1> USE DEF Step, Goes, StayingAt, QueueOnly, ProjectOnly, StoresKept, fileVars,
            AttendingPC, MarkedPC, MovedPC, ArchivePC
<1>5. at[u] = p
  <2> SUFFICES ASSUME at[u] # p PROVE FALSE
    OBVIOUS
  <2>1. tombstone'[p] = tombstone[p] /\ moved'[p] = moved[p]
    BY <1>1, <1>2 DEF ArchiveCall, ArchiveMark, ArchiveUnlock, ArchiveMove, ArchiveDrop,
                      ArchiveClear, CommandError, Ended
  <2>2. \A v \in Users : at[v] = p => pc[v] \notin AttendingPC
    BY <1>3, <1>4
  <2>3. QED  BY <1>4, <2>1, <2>2, StrandedMeans
<1>6. CASE ArchiveMark(u)
  BY <1>1, <1>2, <1>3, <1>4, <1>5, <1>6, StrandedMeans DEF ArchiveMark
<1>7. CASE ArchiveUnlock(u)
  BY <1>1, <1>2, <1>4, <1>5, <1>7 DEF ArchiveUnlock
<1>8. CASE ArchiveMove(u)
  BY <1>1, <1>2, <1>4, <1>5, <1>8 DEF ArchiveMove
<1>9. CASE ArchiveDrop(u)
  BY <1>1, <1>2, <1>4, <1>5, <1>9 DEF ArchiveDrop, MovedAlone
<1>10. CASE ArchiveClear(u)
  BY <1>1, <1>2, <1>4, <1>5, <1>10 DEF ArchiveClear
<1>11. CASE pc[u] \in ArchivePC \cup {"arc_mark"} /\ CommandError(u)
  <2>1. pc[u] \in {"arc_mark", "arc_abort"}
    BY <1>1, <1>2, <1>4, <1>5, <1>11 DEF CommandError, Ended, MovedAlone
  <2>2. pc'[u] # pc[u]
    BY <1>1, <1>2, <1>11, <2>1 DEF CommandError, Ended
  <2>3. QED  BY <1>5, <1>11, <2>1, <2>2
<1>12. QED  BY <1>6, <1>7, <1>8, <1>9, <1>10, <1>11 DEF ArchiveCall

\* No project comes to be blocked by a tombstone that no archive stands by,
\* but through a process that dies or through one of the two file operations
\* on the tombstone itself: of any number of archives of any projects at once,
\* with any number of crashes and errors, and leases that run out under all.
THEOREM TombstonesAlwaysAttended == Spec => TombstonesAttended
<1> DEFINE Excused(p) ==
        \/ crashes' < crashes
        \/ /\ faults' < faults
           /\ \E u \in Users : /\ at[u] = p /\ pc'[u] # pc[u]
                              /\ pc[u] \in {"arc_mark", "arc_abort"}
<1>1. ASSUME ActorOK, FileOK, MovedAlone, [Next]_allVars,
             NEW p \in Projects, ~Stranded(p), Stranded(p)'
      PROVE  Excused(p)
  <2>1. CASE Strolls
    BY <1>1, <2>1, StrollsStrandNothing
  <2>2. ASSUME NEW S \in SUBSET Holders, Dies(S) PROVE Excused(p)
    BY <1>1, <2>2 DEF Dies, FileOK
  <2>3. ASSUME NEW u \in Users, ArchiveCall(u) PROVE Excused(p)
    <3>1. /\ CommandError(u) /\ at[u] = p
          /\ pc[u] \in {"arc_mark", "arc_abort"} /\ pc'[u] # pc[u]
      BY <1>1, <2>3, CallStrandsNothing
    <3>2. faults' < faults
      BY <1>1, <3>1 DEF CommandError, FileOK
    <3>3. QED  BY <3>1, <3>2
  <2>4. QED  BY <1>1, <2>1, <2>2, <2>3, EveryFileStep DEF FileSteps
<1>2. ASSUME ActorOK, FileOK, MovedAlone, [Next]_allVars
      PROVE  [\A p \in Projects : ~Stranded(p) /\ Stranded(p)' => Excused(p)]_allVars
  BY <1>1, <1>2
<1>3. Spec => []FileOK
  BY FileInit, FileStep, PTL DEF Spec
<1>4. QED
  BY <1>2, <1>3, ActorAlways, MovedAloneAlways, PTL DEF Spec, TombstonesAttended
=============================================================================
