----------------------------- MODULE QueueStore -----------------------------
(***************************************************************************)
(* The workspace's queue.db (internal/store/store.go, QueueStore): one row *)
(* per project that was started and one row per worker slot.  Each action  *)
(* is one call, which SQLite makes atomic; processes interleave between    *)
(* calls.  ClaimProject's first statement (expired rows become queued      *)
(* again) and its transaction are one action: nothing another process does *)
(* between the two can be told from it doing the same just before.         *)
(***************************************************************************)
EXTENDS Leases

CONSTANT MaxSlots       \* the slots workers try: LEGALSCOUT_MAX_CONCURRENCY

ASSUME SlotAssumption == MaxSlots \in 1..8

VARIABLES
    queue,          \* project -> its row: status, seconds of lease left
    lastStarted,    \* project -> rank of last_started, 0 when never started
    thisSecond,     \* the projects whose last_started is the current second
    slots           \* slot -> row of worker_locks

queueVars == <<queue, lastStarted, thisSecond, slots>>

Slots == 0 .. MaxSlots - 1

QueueStatus == {"absent", "queued", "running", "done", "failed", "cancelled"}
QueueRow    == [status : QueueStatus, left : Left]
NoRow       == [status |-> "absent", left |-> Expired]

QueueInit ==
    /\ queue = [p \in Projects |-> NoRow]
    /\ lastStarted = [p \in Projects |-> 0]
    /\ thisSecond = {}
    /\ slots = [s \in Slots |-> Free]
-----------------------------------------------------------------------------
\* last_started is only ever compared: keep its order and its ties, and let
\* the ranks be consecutive.
Ranks(f) == [p \in Projects |->
                Cardinality({f[q] : q \in Projects} \cap (1 .. f[p]))]

\* f with the projects of S started later than all others, at the same second.
StartedNow(f, S) == Ranks([p \in Projects |->
                              IF p \in S THEN Cardinality(Projects) + 1 ELSE f[p]])

SetStatus(p, status) == queue' = [queue EXCEPT ![p] = [status |-> status, left |-> Expired]]

OrderKept == UNCHANGED <<lastStarted, thisSecond>>

\* INSERT, or on conflict keep a row that is running under a lease with more
\* than zero seconds left; the lease is not touched.
Enqueue(p) ==
    /\ queue' = [queue EXCEPT ![p].status =
                     IF @ = "running" /\ queue[p].left > 0 THEN @ ELSE "queued"]
    /\ OrderKept /\ UNCHANGED slots

Swept == [p \in Projects |->
            IF queue[p].status = "running" /\ ~Live(queue[p].left)
            THEN [status |-> "queued", left |-> Expired] ELSE queue[p]]

Waiting == {p \in Projects : Swept[p].status = "queued"}

Claimed(p) == [Swept EXCEPT ![p] = [status |-> "running", left |-> Lease]]

\* Mutated: last_started is not written, so the order never turns.
ClaimProjectOldest(p) ==
    /\ p \in Waiting
    /\ \A q \in Waiting : lastStarted[p] =< lastStarted[q]
    /\ queue' = Claimed(p)
    /\ UNCHANGED <<lastStarted, thisSecond, slots>>

\* Mutated: rows that are running are claimed as well.
ClaimProjectRunning(p) ==
    /\ Swept[p].status \in {"queued", "running"}
    /\ queue' = Claimed(p)
    /\ thisSecond' = thisSecond \cup {p}
    /\ lastStarted' = StartedNow(lastStarted, thisSecond')
    /\ UNCHANGED slots

\* The queued project that waited longest starts; created_at, which breaks a
\* tie in last_started, is left open.
ClaimProject(p) ==
    /\ p \in Waiting
    /\ \A q \in Waiting : lastStarted[p] =< lastStarted[q]
    /\ queue' = Claimed(p)
    /\ thisSecond' = thisSecond \cup {p}
    /\ lastStarted' = StartedNow(lastStarted, thisSecond')
    /\ UNCHANGED slots

NothingQueued == Waiting = {}

\* Requeue and Finish say nothing of who runs the row.
Requeue(p) ==
    /\ IF queue[p].status = "running" THEN SetStatus(p, "queued") ELSE UNCHANGED queue
    /\ OrderKept /\ UNCHANGED slots

Finish(p) ==
    /\ IF queue[p].status = "running" THEN SetStatus(p, "done") ELSE UNCHANGED queue
    /\ OrderKept /\ UNCHANGED slots

\* Fail and Cancel update whatever row there is.
Fail(p) ==
    /\ IF queue[p].status # "absent" THEN SetStatus(p, "failed") ELSE UNCHANGED queue
    /\ OrderKept /\ UNCHANGED slots

Cancel(p) ==
    /\ IF queue[p].status # "absent" THEN SetStatus(p, "cancelled") ELSE UNCHANGED queue
    /\ OrderKept /\ UNCHANGED slots

Remove(p) ==
    /\ queue' = [queue EXCEPT ![p] = NoRow]
    /\ lastStarted' = Ranks([lastStarted EXCEPT ![p] = 0])
    /\ thisSecond' = thisSecond \ {p}
    /\ UNCHANGED slots

IsRunning(p) == queue[p].status = "running" /\ Live(queue[p].left)
-----------------------------------------------------------------------------
SlotsOf(h) == {s \in Slots : slots[s].holder = h}
OpenSlots(n) == {s \in Slots : s < n /\ Takeable(slots[s])}

SlotRow(h) == [holder |-> h, left |-> Lease]

SlotRenewed(h) == \E keep \in SlotsOf(h) :
    /\ \A s \in SlotsOf(h) : keep =< s
    /\ slots' = [s \in Slots |-> CASE s = keep -> SlotRow(h)
                                   [] s \in SlotsOf(h) \ {keep} -> Free
                                   [] OTHER -> slots[s]]

SlotTaken(h, n) == \E s \in OpenSlots(n) :
    /\ \A r \in OpenSlots(n) : s =< r
    /\ slots' = [slots EXCEPT ![s] = SlotRow(h)]

\* Mutated: the holder's own row is not looked for first.
AcquireWorkerAnew(h, n) ==
    /\ SlotTaken(h, n)
    /\ UNCHANGED queue /\ OrderKept

\* Mutated: a slot is taken whether or not its lease ran out.
AcquireWorkerSteal(h, n) ==
    /\ \/ SlotRenewed(h)
       \/ /\ SlotsOf(h) = {}
          /\ slots' = [slots EXCEPT ![0] = SlotRow(h)]
    /\ UNCHANGED queue /\ OrderKept

\* The holder's first row is renewed and its others deleted; a holder without
\* one takes the first of the n slots that is free or expired.
AcquireWorker(h, n) ==
    /\ \/ SlotRenewed(h)
       \/ SlotsOf(h) = {} /\ SlotTaken(h, n)
    /\ UNCHANGED queue /\ OrderKept

\* AcquireWorker answers false.
NoSlot(h, n) == SlotsOf(h) = {} /\ OpenSlots(n) = {}

ReleaseWorker(h) ==
    /\ slots' = [s \in Slots |-> IF slots[s].holder = h THEN Free ELSE slots[s]]
    /\ UNCHANGED queue /\ OrderKept
-----------------------------------------------------------------------------
\* A second passes.
QueueTick ==
    /\ queue' = [p \in Projects |-> [queue[p] EXCEPT !.left = Aged(@)]]
    /\ slots' = [s \in Slots |-> AgedRow(slots[s])]
    /\ thisSecond' = {}
    /\ UNCHANGED lastStarted

\* Holders S end: those of R gave their slots back, the others left them.
SlotsLeft(S, R) == [s \in Slots |-> IF slots[s].holder \in R THEN Free
                                    ELSE Orphaned(slots[s], S)]

QueueDeparture(S, R) ==
    /\ slots' = SlotsLeft(S, R)
    /\ UNCHANGED queue /\ OrderKept

\* Any process may make any call at any time.
QueueNext ==
    \/ \E p \in Projects : \/ Enqueue(p)
                           \/ ClaimProject(p)
                           \/ Requeue(p)
                           \/ Finish(p)
                           \/ Fail(p)
                           \/ Cancel(p)
                           \/ Remove(p)
    \/ \E h \in Holders : \/ \E n \in 1..MaxSlots : AcquireWorker(h, n)
                          \/ ReleaseWorker(h)
    \/ \E S \in SUBSET Holders : \E R \in SUBSET S : QueueDeparture(S, R)
    \/ QueueTick

QueueSpec == QueueInit /\ [][QueueNext]_queueVars

\* Some worker keeps asking for a project, and time passes.
QueueFairSpec ==
    /\ QueueSpec
    /\ WF_queueVars(\E p \in Projects : ClaimProject(p))
    /\ WF_queueVars(QueueTick)
-----------------------------------------------------------------------------
\* Every row is well formed, and a row that is not in the table is NoRow.
QueueTypeOK ==
    /\ queue \in [Projects -> QueueRow]
    /\ lastStarted \in [Projects -> Nat]
    /\ thisSecond \subseteq Projects
    /\ slots \in [Slots -> LockRow]

\* No holder occupies two slots, whatever slot counts processes start with and
\* however renewals interleave with expiry: the limit is not eaten by one
\* worker (the first half of AcquireWorker).
OneSlotEach ==
    \A h \in Holders : \A r, s \in Slots :
        slots[r].holder = h /\ slots[s].holder = h => r = s

\* A slot under a live lease never passes from one holder to another in one
\* call: its holder must have released it (the WHERE of AcquireWorker's
\* upsert).  A departed holder's slot is covered too.
SlotsNotStolen ==
    [][\A s \in Slots :
          /\ slots[s].holder # NoOne
          /\ Live(slots[s].left)
          /\ slots'[s].holder # slots[s].holder
          => slots'[s].holder \in {NoOne, Departed}]_queueVars

\* A project that a worker holds under a live lease is not handed out again
\* before its row was requeued, finished, failed or removed: claims never
\* renew a lease that another claim set (ClaimProject's two WHERE clauses).
ClaimsNotRepeated ==
    [][\A p \in Projects :
          IsRunning(p) /\ queue'[p].status = "running" => queue'[p].left =< queue[p].left
      ]_queueVars

\* As long as rows are not taken out and put in again, a queued project is
\* claimed in the end, however often the others are requeued and claimed:
\* a large project cannot starve another (RunUntilIdle's comment).
RowsSettle == \A p \in Projects : \/ <>[](queue[p].status = "absent")
                                  \/ <>[](queue[p].status # "absent")

NoProjectStarves ==
    RowsSettle => \A p \in Projects :
                     (queue[p].status = "queued") ~> (queue[p].status # "queued")
=============================================================================
