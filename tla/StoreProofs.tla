---------------------------- MODULE StoreProofs -----------------------------
(***************************************************************************)
(* What the two stores guarantee, QueueStore for every number of projects, *)
(* holders and slots and every length of lease, ProjectStore for every     *)
(* number of projects, tasks, screenshots and holders, each under any      *)
(* interleaving of calls.  The first lemmas are about the rows of locks    *)
(* that both keep.                                                         *)
(***************************************************************************)
EXTENDS QueueStore, ProjectStore, FiniteSetTheorems, SequenceTheorems, TLAPS

\* A lease stays a lease when a second passes.
LEMMA AgedType ==
    ASSUME NEW left \in Left
    PROVE  Aged(left) \in Left
BY LeaseAssumption DEF Aged, Left, Expired

\* Rows of a table of locks stay well formed.
LEMMA LockRowTypes ==
    /\ Free \in LockRow
    /\ \A row \in LockRow : AgedRow(row) \in LockRow
    /\ \A row \in LockRow, S \in SUBSET Holders : Orphaned(row, S) \in LockRow
    /\ \A h \in Holders, left \in 1 .. Lease : [holder |-> h, left |-> left] \in LockRow
<1>1. Free \in LockRow
  BY LeaseAssumption DEF Free, LockRow, Left, Expired
<1>2. ASSUME NEW row \in LockRow PROVE AgedRow(row) \in LockRow
  <2>1. Aged(row.left) \in Left
    BY AgedType DEF LockRow
  <2>2. QED  BY <2>1 DEF AgedRow, LockRow
<1>3. ASSUME NEW row \in LockRow, NEW S \in SUBSET Holders
      PROVE  Orphaned(row, S) \in LockRow
  BY DEF Orphaned, LockRow
<1>4. ASSUME NEW h \in Holders, NEW left \in 1 .. Lease
      PROVE  [holder |-> h, left |-> left] \in LockRow
  BY LeaseAssumption DEF LockRow, Left, Expired
<1>5. QED  BY <1>1, <1>2, <1>3, <1>4

\* A second that passes and a holder that departs leave rows with the holder
\* they had, or with Departed, who takes no slot.
LEMMA HolderKept ==
    ASSUME NEW row \in LockRow
    PROVE  /\ AgedRow(row).holder = row.holder
           /\ \A S : Orphaned(row, S).holder \in {row.holder, Departed}
BY DEF AgedRow, Orphaned, LockRow
-----------------------------------------------------------------------------
(* queue.db *)

\* Ranks are natural numbers.
LEMMA RanksType ==
    ASSUME NEW f, f \in [Projects -> Nat]
    PROVE  Ranks(f) \in [Projects -> Nat]
<1>1. ASSUME NEW p \in Projects
      PROVE  Cardinality({f[q] : q \in Projects} \cap (1 .. f[p])) \in Nat
  <2>1. f[p] \in Nat /\ 1 \in Int
    OBVIOUS
  <2>2. IsFiniteSet(1 .. f[p])
    BY <2>1, FS_Interval
  <2>3. IsFiniteSet({f[q] : q \in Projects} \cap (1 .. f[p]))
    BY <2>2, FS_Subset
  <2>4. QED  BY <2>3, FS_CardinalityType
<1>2. QED  BY <1>1 DEF Ranks

\* And so they are after a project was started.
LEMMA StartedNowType ==
    ASSUME NEW f, f \in [Projects -> Nat], NEW S
    PROVE  StartedNow(f, S) \in [Projects -> Nat]
<1>1. Cardinality(Projects) + 1 \in Nat
  BY FS_CardinalityType, ProjectAssumption
<1>2. [p \in Projects |-> IF p \in S THEN Cardinality(Projects) + 1 ELSE f[p]]
        \in [Projects -> Nat]
  BY <1>1
<1>3. QED  BY <1>2, RanksType DEF StartedNow
-----------------------------------------------------------------------------
(* Type correctness *)

\* The empty queue is well formed.
LEMMA QueueInitType == QueueInit => QueueTypeOK
BY LeaseAssumption, LockRowTypes
   DEF QueueInit, QueueTypeOK, QueueRow, QueueStatus, NoRow, Left, Expired

\* So is a queue in which one row was written.
LEMMA RowWrittenType ==
    ASSUME QueueTypeOK, NEW p \in Projects, NEW row \in QueueRow
    PROVE  [queue EXCEPT ![p] = row] \in [Projects -> QueueRow]
BY DEF QueueTypeOK

\* And one in which expired rows were queued again and one was claimed.
LEMMA ClaimedType ==
    ASSUME QueueTypeOK, NEW p \in Projects
    PROVE  Claimed(p) \in [Projects -> QueueRow]
<1>1. /\ [status |-> "queued", left |-> Expired] \in QueueRow
      /\ [status |-> "running", left |-> Lease] \in QueueRow
  BY LeaseAssumption DEF QueueRow, QueueStatus, Left, Expired
<1>2. Swept \in [Projects -> QueueRow]
  BY <1>1 DEF QueueTypeOK, Swept
<1>3. QED  BY <1>1, <1>2 DEF Claimed

\* What AcquireWorker writes into a table of slots.
LEMMA AcquireWorkerType ==
    ASSUME QueueTypeOK, NEW h \in Holders, NEW n \in Nat, AcquireWorker(h, n)
    PROVE  slots' \in [Slots -> LockRow]
<1>1. SlotRow(h) \in LockRow /\ Free \in LockRow
  BY LockRowTypes, LeaseAssumption DEF SlotRow
<1>2. CASE SlotRenewed(h)
  BY <1>1, <1>2 DEF SlotRenewed, QueueTypeOK
<1>3. CASE SlotTaken(h, n)
  BY <1>1, <1>3 DEF SlotTaken, OpenSlots, QueueTypeOK
<1>4. QED  BY <1>2, <1>3 DEF AcquireWorker

\* One step per call: no call writes an ill formed row.
LEMMA QueueNextType == QueueTypeOK /\ [QueueNext]_queueVars => QueueTypeOK'
<1> SUFFICES ASSUME QueueTypeOK, [QueueNext]_queueVars
             PROVE  QueueTypeOK'
  OBVIOUS
<1> USE DEF OrderKept
<1>1. ASSUME NEW p \in Projects, Enqueue(p)
      PROVE  QueueTypeOK'
  BY <1>1 DEF Enqueue, QueueTypeOK, QueueRow, QueueStatus
<1>2. ASSUME NEW p \in Projects, ClaimProject(p)
      PROVE  QueueTypeOK'
  <2>1. queue' \in [Projects -> QueueRow]
    BY <1>2, ClaimedType DEF ClaimProject
  <2>2. lastStarted' \in [Projects -> Nat]
    BY <1>2, StartedNowType DEF ClaimProject, QueueTypeOK
  <2>3. QED  BY <1>2, <2>1, <2>2 DEF ClaimProject, QueueTypeOK
<1>3. ASSUME NEW p \in Projects, Requeue(p) \/ Finish(p) \/ Fail(p) \/ Cancel(p)
      PROVE  QueueTypeOK'
  <2>1. \A s \in QueueStatus : [status |-> s, left |-> Expired] \in QueueRow
    BY LeaseAssumption DEF QueueRow, Left, Expired
  <2>2. {"queued", "done", "failed", "cancelled"} \subseteq QueueStatus
    BY DEF QueueStatus
  <2>3. QED
    BY <1>3, <2>1, <2>2 DEF Requeue, Finish, Fail, Cancel, SetStatus, QueueTypeOK
<1>4. ASSUME NEW p \in Projects, Remove(p)
      PROVE  QueueTypeOK'
  <2>1. queue' \in [Projects -> QueueRow]
    BY <1>4, LeaseAssumption
       DEF Remove, QueueTypeOK, NoRow, QueueRow, QueueStatus, Left, Expired
  <2>2. [lastStarted EXCEPT ![p] = 0] \in [Projects -> Nat]
    BY DEF QueueTypeOK
  <2>3. lastStarted' \in [Projects -> Nat]
    BY <1>4, <2>2, RanksType DEF Remove
  <2>4. QED  BY <1>4, <2>1, <2>3 DEF Remove, QueueTypeOK
<1>5. ASSUME NEW h \in Holders, NEW n \in 1 .. MaxSlots, AcquireWorker(h, n)
      PROVE  QueueTypeOK'
  <2>1. n \in Nat
    BY SlotAssumption
  <2>2. QED  BY <1>5, <2>1, AcquireWorkerType DEF AcquireWorker, QueueTypeOK
<1>6. ASSUME NEW h \in Holders, ReleaseWorker(h)
      PROVE  QueueTypeOK'
  BY <1>6, LockRowTypes DEF ReleaseWorker, QueueTypeOK
<1>7. ASSUME NEW S \in SUBSET Holders, NEW R \in SUBSET S, QueueDeparture(S, R)
      PROVE  QueueTypeOK'
  BY <1>7, LockRowTypes DEF QueueDeparture, SlotsLeft, QueueTypeOK
<1>8. ASSUME QueueTick
      PROVE  QueueTypeOK'
  <2>1. slots' \in [Slots -> LockRow]
    BY <1>8, LockRowTypes DEF QueueTick, QueueTypeOK
  <2>2. \A row \in QueueRow : [row EXCEPT !.left = Aged(row.left)] \in QueueRow
    BY AgedType DEF QueueRow
  <2>3. queue' \in [Projects -> QueueRow]
    BY <1>8, <2>2 DEF QueueTick, QueueTypeOK
  <2>4. QED  BY <1>8, <2>1, <2>3 DEF QueueTick, QueueTypeOK
<1>9. CASE UNCHANGED queueVars
  BY <1>9 DEF queueVars, QueueTypeOK
<1>10. QED
  BY <1>1, <1>2, <1>3, <1>4, <1>5, <1>6, <1>7, <1>8, <1>9 DEF QueueNext

\* Every row of queue.db is well formed, whatever calls are made: QueueStore
\* never writes a status or a lease it could not read back.
THEOREM QueueTypeCorrect == QueueSpec => []QueueTypeOK
BY QueueInitType, QueueNextType, PTL DEF QueueSpec
-----------------------------------------------------------------------------
(* One slot each *)

\* A holder that renews keeps one row; one that takes a slot has no other.
LEMMA AcquireWorkerOneSlot ==
    ASSUME QueueTypeOK, OneSlotEach,
           NEW h \in Holders, NEW n \in Nat, AcquireWorker(h, n)
    PROVE  OneSlotEach'
<1> SUFFICES ASSUME NEW g \in Holders, NEW r \in Slots, NEW s \in Slots,
                    slots'[r].holder = g, slots'[s].holder = g
             PROVE  r = s
  BY DEF OneSlotEach
<1>1. SlotRow(h).holder = h /\ Free.holder \notin Holders
  BY HolderAssumption DEF SlotRow, Free
<1>2. CASE SlotRenewed(h)
  <2>1. PICK keep \in SlotsOf(h) :
            slots' = [t \in Slots |-> CASE t = keep -> SlotRow(h)
                                        [] t \in SlotsOf(h) \ {keep} -> Free
                                        [] OTHER -> slots[t]]
    BY <1>2 DEF SlotRenewed
  <2>2. CASE g = h
    <3>1. \A t \in Slots : slots'[t].holder = h => t = keep
      BY <1>1, <2>1 DEF SlotsOf
    <3>2. QED  BY <2>2, <3>1
  <2>3. CASE g # h
    <3>1. \A t \in Slots : slots'[t].holder = g => slots[t].holder = g
      BY <1>1, <2>1, <2>3
    <3>2. QED  BY <3>1 DEF OneSlotEach
  <2>4. QED  BY <2>2, <2>3
<1>3. CASE SlotsOf(h) = {} /\ SlotTaken(h, n)
  <2>1. PICK taken \in Slots : slots' = [slots EXCEPT ![taken] = SlotRow(h)]
    BY <1>3 DEF SlotTaken, OpenSlots
  <2>2. \A t \in Slots : slots[t].holder # h
    BY <1>3 DEF SlotsOf
  <2>3. \A t \in Slots : slots'[t] = IF t = taken THEN SlotRow(h) ELSE slots[t]
    BY <2>1 DEF QueueTypeOK
  <2>4. QED  BY <1>1, <2>2, <2>3 DEF OneSlotEach
<1>4. QED  BY <1>2, <1>3 DEF AcquireWorker

\* No call gives a holder a second slot.
LEMMA QueueNextOneSlot ==
    QueueTypeOK /\ OneSlotEach /\ [QueueNext]_queueVars => OneSlotEach'
<1> SUFFICES ASSUME QueueTypeOK, OneSlotEach, [QueueNext]_queueVars
             PROVE  OneSlotEach'
  OBVIOUS
<1> DEFINE HoldersKept == \A s \in Slots : slots'[s].holder \in {slots[s].holder, NoOne, Departed}
<1>1. HoldersKept => OneSlotEach'
  BY HolderAssumption DEF OneSlotEach
<1>2. ASSUME NEW h \in Holders, NEW n \in 1 .. MaxSlots, AcquireWorker(h, n)
      PROVE  OneSlotEach'
  <2>1. n \in Nat
    BY SlotAssumption
  <2>2. QED  BY <1>2, <2>1, AcquireWorkerOneSlot
<1>3. ASSUME NEW h \in Holders, ReleaseWorker(h)
      PROVE  HoldersKept
  BY <1>3 DEF ReleaseWorker, Free
<1>4. ASSUME NEW S \in SUBSET Holders, NEW R \in SUBSET S, QueueDeparture(S, R)
      PROVE  HoldersKept
  BY <1>4, HolderKept DEF QueueDeparture, SlotsLeft, QueueTypeOK, Free
<1>5. ASSUME QueueTick
      PROVE  HoldersKept
  BY <1>5, HolderKept DEF QueueTick, QueueTypeOK
<1>6. ASSUME UNCHANGED slots
      PROVE  HoldersKept
  BY <1>6
<1>7. ASSUME NEW p \in Projects,
             \/ Enqueue(p) \/ ClaimProject(p) \/ Requeue(p) \/ Finish(p)
             \/ Fail(p) \/ Cancel(p) \/ Remove(p)
      PROVE  UNCHANGED slots
  BY <1>7 DEF Enqueue, ClaimProject, Requeue, Finish, Fail, Cancel, Remove
<1> HIDE DEF HoldersKept
<1>8. QED
  BY <1>1, <1>2, <1>3, <1>4, <1>5, <1>6, <1>7 DEF QueueNext, queueVars

\* However many slots, holders and slot counts there are, and whatever rows
\* expire between two renewals, no holder ever occupies two slots: one worker
\* cannot eat up the limit that AcquireWorker keeps.
THEOREM OneSlotEachAlways == QueueSpec => []OneSlotEach
<1>1. QueueInit => OneSlotEach
  BY HolderAssumption DEF QueueInit, OneSlotEach, Free
<1>2. QED
  BY <1>1, QueueTypeCorrect, QueueNextOneSlot, PTL DEF QueueSpec
-----------------------------------------------------------------------------
(* What a call may never do *)

\* In any reachable state and for any number of slots, no call takes a slot
\* from a holder whose lease is live: AcquireWorker renews the caller's own
\* row or takes one that is free or expired.
THEOREM SlotsNeverStolen == QueueSpec => SlotsNotStolen
<1> DEFINE Theft(s) == /\ slots[s].holder # NoOne
                       /\ Live(slots[s].left)
                       /\ slots'[s].holder # slots[s].holder
                       /\ slots'[s].holder \notin {NoOne, Departed}
<1>1. ASSUME QueueTypeOK, [QueueNext]_queueVars, NEW s \in Slots
      PROVE  ~Theft(s)
  <2>1. ASSUME NEW h \in Holders, NEW n \in 1 .. MaxSlots, AcquireWorker(h, n)
        PROVE  ~Theft(s)
    <3>1. CASE SlotRenewed(h)
      BY <3>1 DEF SlotRenewed, SlotsOf, SlotRow, Free
    <3>2. CASE SlotTaken(h, n)
      BY <3>2 DEF SlotTaken, OpenSlots, Takeable, QueueTypeOK
    <3>3. QED  BY <2>1, <3>1, <3>2 DEF AcquireWorker
  <2>2. ASSUME NEW h \in Holders, ReleaseWorker(h)
        PROVE  ~Theft(s)
    BY <2>2 DEF ReleaseWorker, Free
  <2>3. ASSUME NEW S \in SUBSET Holders, NEW R \in SUBSET S, QueueDeparture(S, R)
        PROVE  ~Theft(s)
    <3>1. slots'[s] \in {Free, Orphaned(slots[s], S)} /\ slots[s] \in LockRow
      BY <1>1, <2>3 DEF QueueDeparture, SlotsLeft, QueueTypeOK
    <3>2. slots'[s].holder \in {slots[s].holder, NoOne, Departed}
      BY <3>1, HolderKept DEF Free
    <3>3. QED  BY <3>2
  <2>4. ASSUME QueueTick
        PROVE  ~Theft(s)
    <3>1. slots'[s] = AgedRow(slots[s]) /\ slots[s] \in LockRow
      BY <1>1, <2>4 DEF QueueTick, QueueTypeOK
    <3>2. slots'[s].holder = slots[s].holder
      BY <3>1, HolderKept
    <3>3. QED  BY <3>2
  <2>5. ASSUME UNCHANGED slots
        PROVE  ~Theft(s)
    BY <2>5
  <2>6. ASSUME NEW p \in Projects,
               \/ Enqueue(p) \/ ClaimProject(p) \/ Requeue(p) \/ Finish(p)
               \/ Fail(p) \/ Cancel(p) \/ Remove(p)
        PROVE  UNCHANGED slots
    BY <2>6 DEF Enqueue, ClaimProject, Requeue, Finish, Fail, Cancel, Remove
  <2> HIDE DEF Theft
  <2>7. QED
    BY <1>1, <2>1, <2>2, <2>3, <2>4, <2>5, <2>6 DEF QueueNext, queueVars
<1>2. ASSUME QueueTypeOK, [QueueNext]_queueVars
      PROVE  [\A s \in Slots :
                /\ slots[s].holder # NoOne
                /\ Live(slots[s].left)
                /\ slots'[s].holder # slots[s].holder
                => slots'[s].holder \in {NoOne, Departed}]_queueVars
  BY <1>1, <1>2
<1>3. QED  BY <1>2, QueueTypeCorrect, PTL DEF QueueSpec, SlotsNotStolen

\* In any reachable state, a row that is running under a live lease stays
\* claimed as it was or stops running: no call hands its project out again or
\* prolongs the lease of the worker that has it.
THEOREM ClaimsNeverRepeated == QueueSpec => ClaimsNotRepeated
<1> DEFINE Kept(p) == IsRunning(p) /\ queue'[p].status = "running"
                        => queue'[p].left =< queue[p].left
<1>1. ASSUME QueueTypeOK, [QueueNext]_queueVars, NEW p \in Projects
      PROVE  Kept(p)
  <2>0. queue[p].left \in Int
    <3>1. queue[p] \in QueueRow
      BY <1>1 DEF QueueTypeOK
    <3>2. queue[p].left \in Left
      BY <3>1 DEF QueueRow
    <3>3. QED  BY <3>2, LeaseAssumption DEF Left, Expired
  <2>1. ASSUME NEW q \in Projects, Enqueue(q)
        PROVE  Kept(p)
    BY <2>0, <2>1 DEF Enqueue, QueueTypeOK, QueueRow
  <2>2. ASSUME NEW q \in Projects, ClaimProject(q)
        PROVE  Kept(p)
    <3>1. IsRunning(p) => Swept[p] = queue[p] /\ p # q
      BY <2>2 DEF IsRunning, Swept, ClaimProject, Waiting
    <3>2. IsRunning(p) => queue'[p] = queue[p]
      BY <2>2, <3>1 DEF ClaimProject, Claimed, Swept
    <3>3. QED  BY <2>0, <3>2
  <2>3. ASSUME NEW q \in Projects, Requeue(q) \/ Finish(q) \/ Fail(q) \/ Cancel(q) \/ Remove(q)
        PROVE  Kept(p)
    <3>1. queue'[p] = queue[p] \/ queue'[p].status # "running"
      BY <1>1, <2>3 DEF Requeue, Finish, Fail, Cancel, Remove, SetStatus, NoRow, QueueTypeOK
    <3>2. QED  BY <2>0, <3>1
  <2>4. ASSUME QueueTick
        PROVE  Kept(p)
    <3>1. queue[p] \in QueueRow
      BY <1>1 DEF QueueTypeOK
    <3>2. queue'[p] = [queue[p] EXCEPT !.left = Aged(queue[p].left)]
      BY <2>4 DEF QueueTick
    <3>3. queue'[p].left = Aged(queue[p].left)
      BY <3>1, <3>2 DEF QueueRow
    <3>4. QED  BY <2>0, <3>3 DEF Aged, Expired
  <2>5. ASSUME UNCHANGED queue
        PROVE  Kept(p)
    BY <2>0, <2>5
  <2>6. ASSUME \/ \E h \in Holders : \/ \E n \in 1 .. MaxSlots : AcquireWorker(h, n)
                                     \/ ReleaseWorker(h)
               \/ \E S \in SUBSET Holders : \E R \in SUBSET S : QueueDeparture(S, R)
        PROVE  UNCHANGED queue
    BY <2>6 DEF AcquireWorker, ReleaseWorker, QueueDeparture
  <2> HIDE DEF Kept
  <2>7. QED
    BY <1>1, <2>1, <2>2, <2>3, <2>4, <2>5, <2>6 DEF QueueNext, queueVars
<1>2. ASSUME QueueTypeOK, [QueueNext]_queueVars
      PROVE  [\A p \in Projects :
                IsRunning(p) /\ queue'[p].status = "running"
                  => queue'[p].left =< queue[p].left]_queueVars
  BY <1>1, <1>2
<1>3. QED  BY <1>2, QueueTypeCorrect, PTL DEF QueueSpec, ClaimsNotRepeated
-----------------------------------------------------------------------------
(* state.db *)

(* What the calls do to a task *)

\* Tasks and chains are well formed by themselves.
LEMMA RowTypes ==
    ASSUME ProjectTypeOK, NEW p \in Projects, NEW t \in Tasks
    PROVE  tasks[p][t] \in TaskRow /\ shots[p][t] \in Seq(ShotRow) /\ locks[p] \in LockRow
BY DEF ProjectTypeOK

\* A claim starts one pending task and recovers the others of its project.
LEMMA ClaimNextEffect ==
    ASSUME ProjectTypeOK, NEW p \in Projects, NEW t \in Tasks, ClaimNext(p, t),
           NEW q \in Projects, NEW u \in Tasks
    PROVE  /\ shots' = shots
           /\ \/ tasks'[q][u] = tasks[q][u]
              \/ tasks'[q][u] = Recovered(tasks[q][u])
              \/ /\ Recovered(tasks[q][u]).status = "pending"
                 /\ tasks'[q][u] = TaskClaimed(Recovered(tasks[q][u]))
<1>1. t \in Tasks /\ TasksRecovered(p)[t].status = "pending"
  BY DEF ClaimNext, Pending
<1>2. TasksRecovered(p) = [v \in Tasks |-> Recovered(tasks[p][v])]
  BY DEF TasksRecovered
<1>3. tasks' = [tasks EXCEPT ![p] =
                  [TasksRecovered(p) EXCEPT ![t] = TaskClaimed(TasksRecovered(p)[t])]]
  BY DEF ClaimNext
<1>4. CASE q # p
  BY <1>3, <1>4 DEF ClaimNext, ProjectTypeOK
<1>5. CASE q = p
  <2>1. tasks'[q] = [TasksRecovered(p) EXCEPT ![t] = TaskClaimed(TasksRecovered(p)[t])]
    BY <1>3, <1>5 DEF ProjectTypeOK
  <2>2. tasks'[q][u] = IF u = t THEN TaskClaimed(Recovered(tasks[p][t]))
                                ELSE Recovered(tasks[p][u])
    BY <1>2, <2>1
  <2>3. QED  BY <1>1, <1>2, <1>5, <2>2 DEF ClaimNext
<1>6. QED  BY <1>4, <1>5

\* A result concerns one task; its chain grows if there is a screenshot.
LEMMA CompleteEffect ==
    ASSUME ProjectTypeOK, NEW p \in Projects, NEW t \in Tasks,
           NEW r, NEW pictured, NEW lost, Complete(p, t, r, pictured, lost),
           NEW q \in Projects, NEW u \in Tasks
    PROVE  IF q = p /\ u = t
           THEN /\ tasks'[q][u] =
                      TaskSettled(IF pictured
                                  THEN TaskPictured(tasks[p][t], Len(shots[p][t]),
                                                    Replaced(p, t, lost))
                                  ELSE tasks[p][t], r)
                /\ shots'[q][u] = IF pictured THEN ShotAdded(shots[p][t], Replaced(p, t, lost))
                                  ELSE shots[p][t]
           ELSE tasks'[q][u] = tasks[q][u] /\ shots'[q][u] = shots[q][u]
<1>1. IF q = p /\ u = t
      THEN tasks'[q][u] = TaskSettled(IF pictured
                                      THEN TaskPictured(tasks[p][t], Len(shots[p][t]),
                                                        Replaced(p, t, lost))
                                      ELSE tasks[p][t], r)
      ELSE tasks'[q][u] = tasks[q][u]
  BY DEF Complete, ProjectTypeOK
<1>2. IF q = p /\ u = t
      THEN shots'[q][u] = IF pictured THEN ShotAdded(shots[p][t], Replaced(p, t, lost))
                          ELSE shots[p][t]
      ELSE shots'[q][u] = shots[q][u]
  BY DEF Complete, ProjectTypeOK
<1>3. QED  BY <1>1, <1>2

\* A retry reopens failures and leaves the other tasks alone.
LEMMA RetryEffect ==
    ASSUME ProjectTypeOK, NEW p \in Projects, RetryFailures(p),
           NEW q \in Projects, NEW u \in Tasks
    PROVE  /\ shots' = shots
           /\ \/ tasks'[q][u] = tasks[q][u]
              \/ /\ tasks[q][u].status = "retryable_error"
                 /\ tasks'[q][u] = TaskReopened(tasks[q][u])
BY DEF RetryFailures, Failures, ProjectTypeOK
-----------------------------------------------------------------------------
(* Type correctness *)

\* What the calls make of one row is a row.
LEMMA TaskRowTypes ==
    ASSUME NEW row \in TaskRow
    PROVE  /\ Recovered(row) \in TaskRow
           /\ TaskClaimed(row) \in TaskRow
           /\ TaskReopened(row) \in TaskRow
           /\ \A r \in Results : TaskSettled(row, r) \in TaskRow
           /\ [row EXCEPT !.left = Aged(row.left)] \in TaskRow
<1>1. Expired \in Left /\ Lease \in Left /\ Aged(row.left) \in Left
  BY LeaseAssumption, AgedType DEF Left, Expired, TaskRow
<1>2. {"pending", "running"} \subseteq TaskStatus /\ Results \subseteq TaskStatus
  BY DEF TaskStatus, Results
<1>3. QED
  BY <1>1, <1>2 DEF Recovered, TaskClaimed, TaskReopened, TaskSettled, TaskRow

-----------------------------------------------------------------------------
(* The chain of screenshots *)

\* In a chain the newest screenshot is always confirmed: it is the one that
\* the next replaces, unless it is lost sight of.
LEMMA PreviousIsNewest ==
    ASSUME ProjectTypeOK, NEW p \in Projects, NEW t \in Tasks, ChainOf(p, t), NEW lost
    PROVE  /\ Len(shots[p][t]) \in Nat
           /\ Replaced(p, t, lost) \in {0, Len(shots[p][t])}
<1> DEFINE n == Len(shots[p][t])
<1>1. n \in Nat
  BY RowTypes, LenProperties
<1>2. CASE n = 0
  <2>1. ConfirmedShots(p, t) = {}
    BY <1>2 DEF ConfirmedShots
  <2>2. QED  BY <1>1, <2>1 DEF Previous, Replaced
<1>3. CASE n # 0
  <2>1. n \in ConfirmedShots(p, t)
    BY <1>1, <1>3 DEF ConfirmedShots, ChainOf, Chained
  <2>2. ConfirmedShots(p, t) \subseteq 1 .. n
    BY DEF ConfirmedShots
  <2>3. \A i \in ConfirmedShots(p, t) :
           (\A j \in ConfirmedShots(p, t) : j =< i) <=> i = n
    BY <1>1, <2>1, <2>2
  <2>4. Previous(p, t) = n
    BY <2>1, <2>3, ConfirmedShots(p, t) # {} DEF Previous
  <2>5. QED  BY <1>1, <2>4 DEF Replaced
<1>4. QED  BY <1>2, <1>3

\* The chain after a screenshot was added: the one it replaces is demoted.
LEMMA ShotAddedEffect ==
    ASSUME NEW chain \in Seq(ShotRow), NEW i \in {0, Len(chain)}
    PROVE  /\ Len(chain) \in Nat
           /\ ShotAdded(chain, i) \in Seq(ShotRow)
           /\ Len(ShotAdded(chain, i)) = Len(chain) + 1
           /\ \A k \in 1 .. Len(chain) : ShotAdded(chain, i)[k] =
                 IF k = i THEN [chain[k] EXCEPT !.confirmed = FALSE] ELSE chain[k]
           /\ ShotAdded(chain, i)[Len(chain) + 1] = [confirmed |-> TRUE, replaces |-> i]
<1> DEFINE n == Len(chain)
           demoted == [k \in 1 .. n |->
                         IF k = i THEN [chain[k] EXCEPT !.confirmed = FALSE] ELSE chain[k]]
           row == [confirmed |-> TRUE, replaces |-> i]
<1>1. n \in Nat /\ i \in Nat /\ \A k \in 1 .. n : chain[k] \in ShotRow
  BY LenProperties, ElementOfSeq
<1>2. ShotAdded(chain, i) = Append(demoted, row)
  BY DEF ShotAdded, ShotDemoted
<1>3. \A k \in 1 .. n : demoted[k] \in ShotRow
  BY <1>1 DEF ShotRow
<1>4. demoted \in Seq(ShotRow) /\ Len(demoted) = n
  <2>1. demoted \in [1 .. n -> ShotRow] /\ n \in Nat
    BY <1>1, <1>3
  <2> HIDE DEF demoted
  <2>2. demoted \in Seq(ShotRow)
    BY <2>1
  <2>3. QED  BY <2>1, <2>2
<1>5. row \in ShotRow
  BY <1>1 DEF ShotRow
<1> HIDE DEF demoted, row
<1>6. QED
  <2>1. /\ Append(demoted, row) \in Seq(ShotRow)
        /\ Len(Append(demoted, row)) = n + 1
        /\ \A k \in 1 .. n : Append(demoted, row)[k] = demoted[k]
        /\ Append(demoted, row)[n + 1] = row
    BY <1>4, <1>5, AppendProperties
  <2>2. QED  BY <1>1, <1>2, <2>1 DEF row, demoted

\* A chain that grows is a chain, and its last replacement is known.
LEMMA ChainGrows ==
    ASSUME NEW chain \in Seq(ShotRow), NEW last \in Nat, Chained(chain, last),
           NEW i \in {0, Len(chain)}, NEW next, next = IF i = 0 THEN last ELSE i
    PROVE  next \in Nat /\ Chained(ShotAdded(chain, i), next)
<1>1. PICK n : n = Len(chain)
  OBVIOUS
<1>2. PICK after : after = ShotAdded(chain, i)
  OBVIOUS
<1>3. n \in Nat /\ i \in {0, n} /\ Len(after) = n + 1
  BY <1>1, <1>2, ShotAddedEffect
<1>4. ASSUME NEW k \in 1 .. n
      PROVE  /\ after[k].confirmed <=> chain[k].confirmed /\ k # i
             /\ after[k].replaces = chain[k].replaces
  <2>1. k \in 1 .. Len(chain)
    BY <1>1
  <2>2. after[k] = IF k = i THEN [chain[k] EXCEPT !.confirmed = FALSE] ELSE chain[k]
    BY <1>2, <2>1, ShotAddedEffect
  <2>3. chain[k] \in ShotRow
    BY <2>1, ElementOfSeq
  <2>4. QED  BY <2>2, <2>3 DEF ShotRow
<1>5. after[n + 1].confirmed /\ after[n + 1].replaces = i
  <2>1. ShotAdded(chain, i)[Len(chain) + 1] = [confirmed |-> TRUE, replaces |-> i]
    BY ShotAddedEffect, Zenon
  <2>2. QED  BY <1>1, <1>2, <2>1
<1>6. ASSUME NEW k \in 1 .. n
      PROVE  /\ chain[k].replaces \in {0, k - 1}
             /\ chain[k].confirmed <=> k = n \/ chain[k + 1].replaces = 0
             /\ k > last + 1 => chain[k].replaces = 0
  BY <1>1, Zenon DEF Chained
<1>7. last # 0 => last < n /\ chain[last + 1].replaces = last
  BY <1>1 DEF Chained
<1>8. ASSUME NEW k \in 1 .. n + 1
      PROVE  /\ after[k].replaces \in {0, k - 1}
             /\ after[k].confirmed <=> k = n + 1 \/ after[k + 1].replaces = 0
             /\ k > next + 1 => after[k].replaces = 0
  <2>1. CASE k = n + 1
    BY <1>3, <1>5, <2>1
  <2>2. CASE k \in 1 .. n
    <3>1. after[k + 1].replaces = IF k = n THEN i ELSE chain[k + 1].replaces
      BY <1>3, <1>4, <1>5, <2>2
    <3>2. k = n + 1 \/ after[k + 1].replaces = 0 <=>
             (k = n \/ chain[k + 1].replaces = 0) /\ k # i
      BY <1>3, <2>2, <3>1
    <3>3. after[k].confirmed <=> k = n + 1 \/ after[k + 1].replaces = 0
      BY <1>4, <1>6, <2>2, <3>2, Zenon
    <3>4. QED  BY <1>3, <1>4, <1>6, <2>2, <3>3
  <2>3. QED  BY <1>3, <2>1, <2>2
<1>9. next # 0 => next < n + 1 /\ after[next + 1].replaces = next
  <2>1. CASE i = 0 /\ last # 0
    <3>1. last + 1 \in 1 .. n
      BY <1>3, <1>7, <2>1
    <3>2. after[last + 1].replaces = last
      BY <1>4, <1>7, <2>1, <3>1
    <3>3. QED  BY <1>3, <1>7, <2>1, <3>2
  <2>2. CASE i # 0
    BY <1>3, <1>5, <2>2
  <2>3. QED  BY <2>1, <2>2
<1>10. QED  BY <1>2, <1>3, <1>8, <1>9, Zenon DEF Chained

\* A row that gets a screenshot and remembers the one it replaces.
LEMMA PicturedRow ==
    \A row \in TaskRow, i, j \in Nat :
       LET new == [row EXCEPT !.shot = i, !.replaces = j] IN
       new \in TaskRow /\ new.shot = i /\ new.replaces = j
BY DEF TaskRow

\* A task and its chain, before and after a result.
LEMMA CompleteKeepsChain ==
    ASSUME ProjectTypeOK, NEW p \in Projects, NEW t \in Tasks, ChainOf(p, t),
           NEW r \in Results, NEW pictured \in BOOLEAN, NEW lost \in BOOLEAN,
           Complete(p, t, r, pictured, lost)
    PROVE  tasks'[p][t] \in TaskRow /\ shots'[p][t] \in Seq(ShotRow) /\ ChainOf(p, t)'
<1> DEFINE chain == shots[p][t]
           n == Len(chain)
           row == tasks[p][t]
           i == Replaced(p, t, lost)
<1>1. row \in TaskRow /\ chain \in Seq(ShotRow) /\ row.replaces \in Nat
  BY RowTypes DEF TaskRow
<1>2. CASE ~pictured
  <2>1. tasks'[p][t] = TaskSettled(row, r) /\ shots'[p][t] = chain
    BY <1>2, CompleteEffect
  <2>2. tasks'[p][t] \in TaskRow
    BY <1>1, <2>1, TaskRowTypes
  <2>3. tasks'[p][t].shot = row.shot /\ tasks'[p][t].replaces = row.replaces
    BY <1>1, <2>1 DEF TaskSettled, TaskRow
  <2>4. QED  BY <1>1, <2>1, <2>2, <2>3 DEF ChainOf
<1>3. CASE pictured
  <2> DEFINE replaced == IF i = 0 THEN row.replaces ELSE i
             new == [row EXCEPT !.shot = n + 1, !.replaces = replaced]
  <2>1. tasks'[p][t] = TaskSettled(TaskPictured(row, n, i), r) /\ shots'[p][t] = ShotAdded(chain, i)
    <3>1. (IF pictured THEN TaskPictured(row, n, i) ELSE row) = TaskPictured(row, n, i)
      BY <1>3
    <3>2. (IF pictured THEN ShotAdded(chain, i) ELSE chain) = ShotAdded(chain, i)
      BY <1>3
    <3>3. QED  BY <3>1, <3>2, CompleteEffect
  <2>2. n \in Nat /\ i \in {0, n}
    BY PreviousIsNewest
  <2>3. ShotAdded(chain, i) \in Seq(ShotRow) /\ Len(ShotAdded(chain, i)) = n + 1
    BY <1>1, <2>2, ShotAddedEffect
  <2>4. replaced \in Nat /\ Chained(ShotAdded(chain, i), replaced)
    BY <1>1, <2>2, ChainGrows DEF ChainOf
  <2>5. TaskPictured(row, n, i) = new
    BY <1>1 DEF TaskPictured, TaskRow
  <2>6. new \in TaskRow /\ new.shot = n + 1 /\ new.replaces = replaced
    <3>1. n + 1 \in Nat /\ replaced \in Nat
      BY <2>2, <2>4
    <3>2. \A k, j \in Nat : LET pic == [row EXCEPT !.shot = k, !.replaces = j] IN
             pic \in TaskRow /\ pic.shot = k /\ pic.replaces = j
      BY <1>1, PicturedRow, Zenon
    <3> HIDE DEF n, row, replaced
    <3>3. QED  BY <3>1, <3>2, Zenon
  <2> HIDE DEF new
  <2>7. tasks'[p][t] = TaskSettled(new, r)
    BY <2>1, <2>5 DEF new
  <2>8. tasks'[p][t] \in TaskRow
    BY <2>6, <2>7, TaskRowTypes
  <2>9. tasks'[p][t].shot = n + 1 /\ tasks'[p][t].replaces = replaced
    BY <2>6, <2>7 DEF TaskSettled, TaskRow
  <2> HIDE DEF replaced
  <2>10. QED  BY <2>1, <2>3, <2>4, <2>8, <2>9 DEF ChainOf
<1>4. QED  BY <1>2, <1>3

\* A step that keeps the screenshots, and of every task what ties it to them.
LEMMA ChainsKept ==
    ASSUME ProjectTypeOK, ScreenshotsChained, ConfirmedPictured, shots' = shots,
           \A q \in Projects, u \in Tasks :
              /\ tasks'[q][u].shot = tasks[q][u].shot
              /\ tasks'[q][u].replaces = tasks[q][u].replaces
              /\ tasks'[q][u].status \in {tasks[q][u].status, "pending", "running"}
    PROVE  ScreenshotsChained' /\ ConfirmedPictured'
<1>1. ScreenshotsChained'
  BY DEF ScreenshotsChained, ChainOf
<1>2. ConfirmedPictured'
  BY DEF ConfirmedPictured
<1>3. QED  BY <1>1, <1>2

\* The part of a row that ties it to the screenshots is left alone by claims,
\* recoveries and retries.
LEMMA ShotKept ==
    ASSUME NEW row \in TaskRow
    PROVE  /\ \A new \in {Recovered(row), TaskClaimed(row), TaskReopened(row),
                          [row EXCEPT !.left = Aged(row.left)]} :
                 /\ new.shot = row.shot
                 /\ new.replaces = row.replaces
                 /\ new.status \in {row.status, "pending", "running"}
BY DEF Recovered, TaskClaimed, TaskReopened, TaskRow
-----------------------------------------------------------------------------
(* The inductive invariant: Previous is well defined only in a chain, so the  *)
(* types of the rows and the shape of the chains are proved together.         *)

ChainedOK == ProjectTypeOK /\ ScreenshotsChained /\ ConfirmedPictured

\* A project that was just seeded has no screenshots.
LEMMA ProjectInitChained == ProjectInit => ChainedOK
<1> SUFFICES ASSUME ProjectInit PROVE ChainedOK
  OBVIOUS
<1>1. NewTask \in TaskRow /\ Free \in LockRow /\ <<>> \in Seq(ShotRow)
  BY LeaseAssumption, LockRowTypes DEF NewTask, TaskRow, TaskStatus, Left, Expired
<1>2. ProjectTypeOK
  BY <1>1 DEF ProjectInit, ProjectTypeOK
<1>3. ScreenshotsChained
  BY DEF ProjectInit, ScreenshotsChained, ChainOf, Chained, NewTask
<1>4. ConfirmedPictured
  BY DEF ProjectInit, ConfirmedPictured, NewTask
<1>5. QED  BY <1>2, <1>3, <1>4 DEF ChainedOK

\* Claims, retries and seconds write rows that are well formed.
LEMMA TasksKeptType ==
    ASSUME ProjectTypeOK, tasks' \in [Projects -> [Tasks -> TaskRow]],
           shots' = shots, locks' \in [Projects -> LockRow]
    PROVE  ProjectTypeOK'
BY DEF ProjectTypeOK

\* A claim.
LEMMA ClaimNextChained ==
    ASSUME ChainedOK, NEW p \in Projects, NEW t \in Tasks, ClaimNext(p, t)
    PROVE  ChainedOK'
<1>1. ASSUME NEW q \in Projects, NEW u \in Tasks
      PROVE  /\ tasks'[q][u] \in TaskRow
             /\ tasks'[q][u].shot = tasks[q][u].shot
             /\ tasks'[q][u].replaces = tasks[q][u].replaces
             /\ tasks'[q][u].status \in {tasks[q][u].status, "pending", "running"}
  <2>1. tasks[q][u] \in TaskRow /\ Recovered(tasks[q][u]) \in TaskRow
        /\ TaskClaimed(Recovered(tasks[q][u])) \in TaskRow
    BY RowTypes, TaskRowTypes DEF ChainedOK
  <2>2. QED  BY <2>1, ClaimNextEffect, ShotKept DEF ChainedOK
<1>2. tasks' \in [Projects -> [Tasks -> TaskRow]]
  <2>1. [TasksRecovered(p) EXCEPT ![t] = TaskClaimed(TasksRecovered(p)[t])] \in [Tasks -> TaskRow]
    BY RowTypes, TaskRowTypes DEF ChainedOK, TasksRecovered
  <2>2. QED  BY <2>1 DEF ChainedOK, ProjectTypeOK, ClaimNext
<1>3. shots' = shots /\ locks' = locks
  BY DEF ClaimNext
<1>4. ProjectTypeOK'
  BY <1>2, <1>3, TasksKeptType DEF ChainedOK, ProjectTypeOK
<1>5. ScreenshotsChained' /\ ConfirmedPictured'
  BY <1>1, <1>3, ChainsKept DEF ChainedOK
<1>6. QED  BY <1>4, <1>5 DEF ChainedOK

\* A result.
LEMMA CompleteChained ==
    ASSUME ChainedOK, NEW p \in Projects, NEW t \in Tasks,
           NEW r \in Results, NEW pictured \in BOOLEAN, NEW lost \in BOOLEAN,
           Complete(p, t, r, pictured, lost)
    PROVE  ChainedOK'
<1>1. ChainOf(p, t)
  BY DEF ChainedOK, ScreenshotsChained
<1>2. tasks'[p][t] \in TaskRow /\ shots'[p][t] \in Seq(ShotRow) /\ ChainOf(p, t)'
  BY <1>1, CompleteKeepsChain DEF ChainedOK
<1>3. ASSUME NEW q \in Projects, NEW u \in Tasks, q # p \/ u # t
      PROVE  tasks'[q][u] = tasks[q][u] /\ shots'[q][u] = shots[q][u]
  BY <1>3, CompleteEffect DEF ChainedOK
<1>4. \A q \in Projects, u \in Tasks :
         tasks'[q][u] \in TaskRow /\ shots'[q][u] \in Seq(ShotRow)
  BY <1>2, <1>3, RowTypes DEF ChainedOK
<1>5. ProjectTypeOK'
  <2>1. /\ tasks \in [Projects -> [Tasks -> TaskRow]]
        /\ shots \in [Projects -> [Tasks -> Seq(ShotRow)]]
        /\ locks \in [Projects -> LockRow]
    BY DEF ChainedOK, ProjectTypeOK
  <2>2. tasks' = [tasks EXCEPT ![p] = [tasks[p] EXCEPT ![t] = tasks'[p][t]]]
    BY <2>1 DEF Complete
  <2>3. shots' = [shots EXCEPT ![p] = [shots[p] EXCEPT ![t] = shots'[p][t]]]
    BY <2>1 DEF Complete
  <2>4. tasks' \in [Projects -> [Tasks -> TaskRow]]
    <3>1. [tasks[p] EXCEPT ![t] = tasks'[p][t]] \in [Tasks -> TaskRow]
      BY <1>2, <2>1
    <3>2. QED  BY <2>1, <2>2, <3>1
  <2>5. shots' \in [Projects -> [Tasks -> Seq(ShotRow)]]
    <3>1. [shots[p] EXCEPT ![t] = shots'[p][t]] \in [Tasks -> Seq(ShotRow)]
      BY <1>2, <2>1
    <3>2. QED  BY <2>1, <2>3, <3>1
  <2>6. QED  BY <2>1, <2>4, <2>5 DEF Complete, ProjectTypeOK
<1>6. ScreenshotsChained'
  <2>1. ASSUME NEW q \in Projects, NEW u \in Tasks
        PROVE  ChainOf(q, u)'
    <3>1. CASE q = p /\ u = t
      BY <1>2, <3>1
    <3>2. CASE q # p \/ u # t
      <4>1. ChainOf(q, u)
        BY DEF ChainedOK, ScreenshotsChained
      <4>2. tasks'[q][u] = tasks[q][u] /\ shots'[q][u] = shots[q][u]
        BY <1>3, <3>2
      <4>3. QED  BY <4>1, <4>2 DEF ChainOf
    <3>3. QED  BY <3>1, <3>2
  <2>2. QED  BY <2>1 DEF ScreenshotsChained
<1>7. ConfirmedPictured'
  <2> DEFINE pic == TaskPictured(tasks[p][t], Len(shots[p][t]), Replaced(p, t, lost))
  <2>1. tasks'[p][t].status = "confirmed" => tasks'[p][t].shot # 0
    <3>1. tasks[p][t] \in TaskRow
      BY RowTypes DEF ChainedOK
    <3>2. CASE r = "confirmed"
      <4>1. pictured
        BY <3>2 DEF Complete
      <4>2. tasks'[p][t] = TaskSettled(pic, r)
        BY <4>1 DEF Complete, ChainedOK, ProjectTypeOK
      <4>3. tasks'[p][t].shot = Len(shots[p][t]) + 1
        BY <3>1, <4>2 DEF TaskSettled, TaskPictured, TaskRow
      <4>4. Len(shots[p][t]) \in Nat
        BY <1>1, PreviousIsNewest DEF ChainedOK
      <4>5. QED  BY <4>3, <4>4
    <3>3. CASE r # "confirmed"
      <4>1. tasks'[p][t].status = r
        <5>1. tasks'[p][t] \in {TaskSettled(pic, r), TaskSettled(tasks[p][t], r)}
          BY DEF Complete, ChainedOK, ProjectTypeOK
        <5>2. \A row : row = pic \/ row = tasks[p][t]
                         => TaskSettled(row, r).status = r
          BY <3>1 DEF TaskSettled, TaskPictured, TaskRow
        <5>3. QED  BY <5>1, <5>2
      <4>2. QED  BY <3>3, <4>1
    <3>4. QED  BY <3>2, <3>3
  <2>2. QED  BY <1>3, <2>1 DEF ConfirmedPictured, ChainedOK
<1>8. QED  BY <1>5, <1>6, <1>7 DEF ChainedOK

\* A retry.
LEMMA RetryFailuresChained ==
    ASSUME ChainedOK, NEW p \in Projects, RetryFailures(p)
    PROVE  ChainedOK'
<1>1. ASSUME NEW q \in Projects, NEW u \in Tasks
      PROVE  /\ tasks'[q][u].shot = tasks[q][u].shot
             /\ tasks'[q][u].replaces = tasks[q][u].replaces
             /\ tasks'[q][u].status \in {tasks[q][u].status, "pending", "running"}
  <2>1. tasks[q][u] \in TaskRow
    BY RowTypes DEF ChainedOK
  <2>2. QED  BY <2>1, RetryEffect, ShotKept DEF ChainedOK
<1>2. tasks' \in [Projects -> [Tasks -> TaskRow]]
  <2>1. [t \in Tasks |-> IF t \in Failures(p) THEN TaskReopened(tasks[p][t]) ELSE tasks[p][t]]
          \in [Tasks -> TaskRow]
    BY RowTypes, TaskRowTypes DEF ChainedOK
  <2>2. QED  BY <2>1 DEF ChainedOK, ProjectTypeOK, RetryFailures
<1>3. shots' = shots /\ locks' = locks
  BY DEF RetryFailures
<1>4. ProjectTypeOK'
  BY <1>2, <1>3, TasksKeptType DEF ChainedOK, ProjectTypeOK
<1>5. ScreenshotsChained' /\ ConfirmedPictured'
  BY <1>1, <1>3, ChainsKept DEF ChainedOK
<1>6. QED  BY <1>4, <1>5 DEF ChainedOK

\* A second.
LEMMA ProjectTickChained ==
    ASSUME ChainedOK, ProjectTick
    PROVE  ChainedOK'
<1>1. ASSUME NEW q \in Projects, NEW u \in Tasks
      PROVE  /\ tasks'[q][u] \in TaskRow
             /\ tasks'[q][u].shot = tasks[q][u].shot
             /\ tasks'[q][u].replaces = tasks[q][u].replaces
             /\ tasks'[q][u].status \in {tasks[q][u].status, "pending", "running"}
  <2>1. tasks[q][u] \in TaskRow
    BY RowTypes DEF ChainedOK
  <2>2. tasks'[q][u] = [tasks[q][u] EXCEPT !.left = Aged(tasks[q][u].left)]
    BY DEF ProjectTick
  <2>3. QED  BY <2>1, <2>2, TaskRowTypes, ShotKept
<1>2. tasks' \in [Projects -> [Tasks -> TaskRow]]
  BY <1>1 DEF ProjectTick
<1>3. shots' = shots /\ locks' \in [Projects -> LockRow]
  BY LockRowTypes DEF ProjectTick, ChainedOK, ProjectTypeOK
<1>4. ProjectTypeOK'
  BY <1>2, <1>3, TasksKeptType DEF ChainedOK
<1>5. ScreenshotsChained' /\ ConfirmedPictured'
  BY <1>1, <1>3, ChainsKept DEF ChainedOK
<1>6. QED  BY <1>4, <1>5 DEF ChainedOK

\* Calls on the lock leave tasks and screenshots alone.
LEMMA LockCallsChained ==
    ASSUME ChainedOK, UNCHANGED <<tasks, shots>>, locks' \in [Projects -> LockRow]
    PROVE  ChainedOK'
BY DEF ChainedOK, ProjectTypeOK, ScreenshotsChained, ChainOf, ConfirmedPictured

LockCall ==
    \/ \E p \in Projects, h \in Holders : \/ \E lease \in 1 .. Lease : AcquireLock(p, h, lease)
                                         \/ ReleaseLock(p, h)
    \/ \E S \in SUBSET Holders, R \in SUBSET Projects : ProjectDeparture(S, R)

\* The rows that calls on the lock write.
LEMMA LockCallsType ==
    ASSUME ProjectTypeOK, LockCall
    PROVE  UNCHANGED <<tasks, shots>> /\ locks' \in [Projects -> LockRow]
<1>1. ASSUME NEW h \in Holders, NEW p \in Projects, NEW lease \in 1 .. Lease,
             AcquireLock(p, h, lease)
      PROVE  UNCHANGED <<tasks, shots>> /\ locks' \in [Projects -> LockRow]
  <2>1. [holder |-> h, left |-> lease] \in LockRow
    BY LockRowTypes
  <2>2. QED  BY <1>1, <2>1 DEF AcquireLock, LockTaken, ProjectTypeOK
<1>2. ASSUME NEW h \in Holders, NEW p \in Projects, ReleaseLock(p, h)
      PROVE  UNCHANGED <<tasks, shots>> /\ locks' \in [Projects -> LockRow]
  BY <1>2, LockRowTypes DEF ReleaseLock, ProjectTypeOK
<1>3. ASSUME NEW S \in SUBSET Holders, NEW R \in SUBSET Projects, ProjectDeparture(S, R)
      PROVE  UNCHANGED <<tasks, shots>> /\ locks' \in [Projects -> LockRow]
  BY <1>3, LockRowTypes DEF ProjectDeparture, LocksLeft, ProjectTypeOK
<1>4. QED  BY <1>1, <1>2, <1>3 DEF LockCall

\* One step per call.
LEMMA ProjectNextChained == ChainedOK /\ [ProjectNext]_projectVars => ChainedOK'
<1> SUFFICES ASSUME ChainedOK, [ProjectNext]_projectVars
             PROVE  ChainedOK'
  OBVIOUS
<1>1. ASSUME NEW p \in Projects, NEW t \in Tasks, ClaimNext(p, t)
      PROVE  ChainedOK'
  BY <1>1, ClaimNextChained
<1>2. ASSUME NEW p \in Projects, NEW t \in Tasks, NEW r \in Results, NEW pictured \in BOOLEAN,
             NEW lost \in BOOLEAN, Complete(p, t, r, pictured, lost)
      PROVE  ChainedOK'
  BY <1>2, CompleteChained
<1>3. ASSUME NEW p \in Projects, RetryFailures(p)
      PROVE  ChainedOK'
  BY <1>3, RetryFailuresChained
<1>4. ASSUME LockCall
      PROVE  ChainedOK'
  <2>1. UNCHANGED <<tasks, shots>> /\ locks' \in [Projects -> LockRow]
    BY <1>4, LockCallsType DEF ChainedOK
  <2>2. QED  BY <2>1, LockCallsChained
<1>5. ASSUME ProjectTick
      PROVE  ChainedOK'
  BY <1>5, ProjectTickChained
<1>6. CASE UNCHANGED projectVars
  BY <1>6, LockCallsChained DEF projectVars, ChainedOK, ProjectTypeOK
<1>7. QED  BY <1>1, <1>2, <1>3, <1>4, <1>5, <1>6 DEF ProjectNext, LockCall

\* The three together are an invariant of state.db.
LEMMA ChainedAlways == ProjectSpec => []ChainedOK
BY ProjectInitChained, ProjectNextChained, PTL DEF ProjectSpec

\* Every row of state.db is well formed, whatever calls are made.
THEOREM ProjectTypeCorrect == ProjectSpec => []ProjectTypeOK
BY ChainedAlways, PTL DEF ChainedOK

\* For any number of tasks and screenshots, however claims, results and retries
\* interleave and wherever Complete fails to read what it replaces: the newest
\* screenshot is confirmed and the task's own, every other is confirmed exactly
\* if none replaced it, and a replacement is always by the direct successor.
THEOREM ScreenshotsAlwaysChained == ProjectSpec => []ScreenshotsChained
BY ChainedAlways, PTL DEF ChainedOK

\* A confirmed task has a screenshot for as long as it is confirmed, whatever
\* happened to it before.
THEOREM ConfirmedAlwaysPictured == ProjectSpec => []ConfirmedPictured
BY ChainedAlways, PTL DEF ChainedOK
-----------------------------------------------------------------------------
(* What a call may never do *)

\* A call leaves a task's row as it was, or it is one of these.
LEMMA TaskStep ==
    ASSUME ChainedOK, [ProjectNext]_projectVars,
           NEW q \in Projects, NEW u \in Tasks
    PROVE  \/ tasks'[q][u] = tasks[q][u]
           \/ tasks'[q][u] = Recovered(tasks[q][u])
           \/ /\ Recovered(tasks[q][u]).status = "pending"
              /\ tasks'[q][u] = TaskClaimed(Recovered(tasks[q][u]))
           \/ tasks'[q][u].status \in Results
           \/ /\ tasks[q][u].status = "retryable_error"
              /\ tasks'[q][u] = TaskReopened(tasks[q][u])
           \/ tasks'[q][u] = [tasks[q][u] EXCEPT !.left = Aged(tasks[q][u].left)]
<1> DEFINE Goal == \/ tasks'[q][u] = tasks[q][u]
                   \/ tasks'[q][u] = Recovered(tasks[q][u])
                   \/ /\ Recovered(tasks[q][u]).status = "pending"
                      /\ tasks'[q][u] = TaskClaimed(Recovered(tasks[q][u]))
                   \/ tasks'[q][u].status \in Results
                   \/ /\ tasks[q][u].status = "retryable_error"
                      /\ tasks'[q][u] = TaskReopened(tasks[q][u])
                   \/ tasks'[q][u] = [tasks[q][u] EXCEPT !.left = Aged(tasks[q][u].left)]
<1>1. ASSUME NEW p \in Projects, NEW t \in Tasks, ClaimNext(p, t)
      PROVE  Goal
  BY <1>1, ClaimNextEffect DEF ChainedOK
<1>2. ASSUME NEW p \in Projects, NEW t \in Tasks, NEW r \in Results, NEW pictured \in BOOLEAN,
             NEW lost \in BOOLEAN, Complete(p, t, r, pictured, lost)
      PROVE  Goal
  <2>1. CASE q # p \/ u # t
    BY <1>2, <2>1, CompleteEffect DEF ChainedOK
  <2>2. CASE q = p /\ u = t
    <3> DEFINE pic == TaskPictured(tasks[p][t], Len(shots[p][t]), Replaced(p, t, lost))
    <3>1. tasks[p][t] \in TaskRow
      BY RowTypes DEF ChainedOK
    <3>2. tasks'[p][t] \in {TaskSettled(pic, r), TaskSettled(tasks[p][t], r)}
      BY <1>2 DEF Complete, ChainedOK, ProjectTypeOK
    <3>3. \A row : row = pic \/ row = tasks[p][t]
                     => TaskSettled(row, r).status = r
      BY <3>1 DEF TaskSettled, TaskPictured, TaskRow
    <3>4. QED  BY <2>2, <3>2, <3>3
  <2>3. QED  BY <2>1, <2>2
<1>3. ASSUME NEW p \in Projects, RetryFailures(p)
      PROVE  Goal
  BY <1>3, RetryEffect DEF ChainedOK
<1>4. ASSUME ProjectTick
      PROVE  Goal
  BY <1>4 DEF ProjectTick
<1>5. ASSUME UNCHANGED tasks
      PROVE  Goal
  BY <1>5
<1>6. ASSUME LockCall
      PROVE  UNCHANGED tasks
  BY <1>6 DEF LockCall, AcquireLock, ReleaseLock, ProjectDeparture
<1> HIDE DEF Goal
<1>7. Goal
  BY <1>1, <1>2, <1>3, <1>4, <1>5, <1>6 DEF ProjectNext, projectVars, LockCall
<1>8. QED  BY <1>7 DEF Goal

\* In any reachable state, a task that runs under a live lease is not claimed
\* again, by whatever call: ClaimNext recovers expired leases only.
THEOREM InFlightNeverReclaimed == ProjectSpec => InFlightNotReclaimed
<1>1. ASSUME ChainedOK, [ProjectNext]_projectVars, NEW p \in Projects, NEW t \in Tasks,
             tasks[p][t].status = "running", Live(tasks[p][t].left),
             tasks'[p][t].status = "running"
      PROVE  tasks'[p][t].left =< tasks[p][t].left
  <2>1. tasks[p][t] \in TaskRow
    BY <1>1, RowTypes DEF ChainedOK
  <2>2. tasks[p][t].left \in Left
    BY <2>1 DEF TaskRow
  <2>3. tasks[p][t].left \in Int
    BY <2>2, LeaseAssumption DEF Left, Expired
  <2>4. Recovered(tasks[p][t]) = tasks[p][t]
    BY <1>1 DEF Recovered
  <2>5. "running" \notin Results
    BY DEF Results
  <2>6. \/ tasks'[p][t] = tasks[p][t]
        \/ tasks'[p][t] = [tasks[p][t] EXCEPT !.left = Aged(tasks[p][t].left)]
    BY <1>1, <2>4, <2>5, TaskStep
  <2>7. \/ tasks'[p][t].left = tasks[p][t].left
        \/ tasks'[p][t].left = Aged(tasks[p][t].left)
    BY <2>1, <2>6 DEF TaskRow
  <2>8. QED  BY <2>3, <2>7 DEF Aged, Expired
<1>2. ASSUME ChainedOK, [ProjectNext]_projectVars
      PROVE  [\A p \in Projects, t \in Tasks :
                /\ tasks[p][t].status = "running"
                /\ Live(tasks[p][t].left)
                /\ tasks'[p][t].status = "running"
                => tasks'[p][t].left =< tasks[p][t].left]_projectVars
  BY <1>1, <1>2
<1>3. QED  BY <1>2, ChainedAlways, PTL DEF ProjectSpec, InFlightNotReclaimed

\* No call, and no sequence of calls that a retry is part of, returns a task
\* that was confirmed, needs review or failed for good to the workers.
THEOREM OnlyRetryableReopened == ProjectSpec => OnlyRetryableReopens
<1>1. ASSUME ChainedOK, [ProjectNext]_projectVars, NEW p \in Projects, NEW t \in Tasks,
             tasks[p][t].status \in {"confirmed", "needs_review", "fatal_error"}
      PROVE  tasks'[p][t].status \notin {"pending", "running"}
  <2>1. tasks[p][t] \in TaskRow
    BY <1>1, RowTypes DEF ChainedOK
  <2>2. Recovered(tasks[p][t]) = tasks[p][t]
    BY <1>1 DEF Recovered
  <2>3. \/ tasks'[p][t] = tasks[p][t]
        \/ tasks'[p][t].status \in Results
        \/ tasks'[p][t] = [tasks[p][t] EXCEPT !.left = Aged(tasks[p][t].left)]
    BY <1>1, <2>2, TaskStep
  <2>4. tasks'[p][t].status = tasks[p][t].status \/ tasks'[p][t].status \in Results
    BY <2>1, <2>3 DEF TaskRow
  <2>5. QED  BY <1>1, <2>4 DEF Results
<1>2. ASSUME ChainedOK, [ProjectNext]_projectVars
      PROVE  [\A p \in Projects, t \in Tasks :
                tasks[p][t].status \in {"confirmed", "needs_review", "fatal_error"}
                => tasks'[p][t].status \notin {"pending", "running"}]_projectVars
  BY <1>1, <1>2
<1>3. QED  BY <1>2, ChainedAlways, PTL DEF ProjectSpec, OnlyRetryableReopens

\* For any number of holders, no call takes a project's lock from a holder
\* whose lease is live: the WHERE clause of AcquireLock's upsert.
THEOREM LocksNeverStolen == ProjectSpec => LocksNotStolen
<1> DEFINE Theft(p) == /\ locks[p].holder # NoOne
                       /\ Live(locks[p].left)
                       /\ locks'[p].holder # locks[p].holder
                       /\ locks'[p].holder \notin {NoOne, Departed}
<1>1. ASSUME ProjectTypeOK, [ProjectNext]_projectVars, NEW p \in Projects
      PROVE  ~Theft(p)
  <2>1. ASSUME NEW q \in Projects, NEW h \in Holders, NEW lease \in 1 .. Lease,
               AcquireLock(q, h, lease)
        PROVE  ~Theft(p)
    BY <1>1, <2>1 DEF AcquireLock, LockTaken, LockOpen, Takeable, ProjectTypeOK
  <2>2. ASSUME NEW q \in Projects, NEW h \in Holders, ReleaseLock(q, h)
        PROVE  ~Theft(p)
    BY <1>1, <2>2 DEF ReleaseLock, Free, ProjectTypeOK
  <2>3. ASSUME NEW S \in SUBSET Holders, NEW R \in SUBSET Projects, ProjectDeparture(S, R)
        PROVE  ~Theft(p)
    <3>1. locks'[p] \in {Free, Orphaned(locks[p], S)} /\ locks[p] \in LockRow
      BY <1>1, <2>3 DEF ProjectDeparture, LocksLeft, ProjectTypeOK
    <3>2. locks'[p].holder \in {locks[p].holder, NoOne, Departed}
      BY <3>1, HolderKept DEF Free
    <3>3. QED  BY <3>2
  <2>4. ASSUME ProjectTick
        PROVE  ~Theft(p)
    <3>1. locks'[p] = AgedRow(locks[p]) /\ locks[p] \in LockRow
      BY <1>1, <2>4 DEF ProjectTick, ProjectTypeOK
    <3>2. locks'[p].holder = locks[p].holder
      BY <3>1, HolderKept
    <3>3. QED  BY <3>2
  <2>5. ASSUME UNCHANGED locks
        PROVE  ~Theft(p)
    BY <2>5
  <2>6. ASSUME NEW q \in Projects,
               \/ \E t \in Tasks : \/ ClaimNext(q, t)
                                   \/ \E r \in Results, pictured, lost \in BOOLEAN :
                                         Complete(q, t, r, pictured, lost)
               \/ RetryFailures(q)
        PROVE  UNCHANGED locks
    BY <2>6 DEF ClaimNext, Complete, RetryFailures
  <2> HIDE DEF Theft
  <2>7. QED
    BY <1>1, <2>1, <2>2, <2>3, <2>4, <2>5, <2>6 DEF ProjectNext, projectVars
<1>2. ASSUME ProjectTypeOK, [ProjectNext]_projectVars
      PROVE  [\A p \in Projects :
                /\ locks[p].holder # NoOne
                /\ Live(locks[p].left)
                /\ locks'[p].holder # locks[p].holder
                => locks'[p].holder \in {NoOne, Departed}]_projectVars
  BY <1>1, <1>2
<1>3. QED  BY <1>2, ProjectTypeCorrect, PTL DEF ProjectSpec, LocksNotStolen
=============================================================================
