----------------------------- MODULE Checklist ------------------------------
(***************************************************************************)
(* One project from its list of names to the word "completed": the names   *)
(* are read and seeded as tasks (createProject), workers, reviews and      *)
(* retries settle them, and the command status or the panel asks how far   *)
(* they are: two queries, Count and Statuses, between which the others go  *)
(* on, and ProjectStatusFor of the second one's rows.  An executor records *)
(* its result whatever has become of the task since it began.              *)
(***************************************************************************)
EXTENDS Importer, Sources

CONSTANTS
    Checks,         \* the sources that a name is checked with
    Executors,      \* workers and reviews
    Exclusive,      \* do they hold the project's lock, one at a time?
    MaxNames        \* bound: the names of a project whose tasks are followed

ASSUME ChecklistAssumption ==
    /\ IsFiniteSet(Checks) /\ Exclusive \in BOOLEAN /\ MaxNames \in Nat

VARIABLES
    tasks,          \* name and source -> status; empty before they are seeded
    doing,          \* executor -> the task it executes, if any
    counted,        \* the finished tasks that Count gave
    label           \* what ProjectStatusFor made of Statuses

\* pc goes on from "seed" to the reader's next query.
vars == <<importVars, tasks, doing, counted, label>>

\* The file, as long as nobody reads it any more.
fileVars == <<table, excel, due, column, start, pos, names>>

With(S, row) == {t \in DOMAIN row : row[t] \in S}

\* Mutated: what is being checked is counted as done already.
CompletedCountAhead(row) == Cardinality(With(Confirmed \cup {"running"}, row))

\* What Count gives as completed; the other numbers are counted alike.
CompletedCount(row) == Cardinality(With(Confirmed, row))

\* Mutated: a task that failed does not keep the project from being completed.
ProjectStatusForgetful(row) ==
    CASE DOMAIN row = {} -> "draft"
      [] With({"running"}, row) # {} -> "running"
      [] With({"running"}, row) = {} /\ With({"pending"}, row) # {} -> "queued"
      [] With({"running", "pending"}, row) = {} /\ With({"needs_review"}, row) # {} -> "needs_review"
      [] OTHER -> "completed"

\* Whatever is still going on comes before what waits for a person, and that
\* before what failed.
ProjectStatusFor(row) ==
    CASE DOMAIN row = {} -> "draft"
      [] With({"running"}, row) # {} -> "running"
      [] With({"running"}, row) = {} /\ With({"pending"}, row) # {} -> "queued"
      [] With({"running", "pending"}, row) = {} /\ With({"needs_review"}, row) # {} -> "needs_review"
      [] With({"running", "pending", "needs_review"}, row) = {} /\ With(Failures, row) # {} -> "failed"
      [] DOMAIN row # {} /\ With(Confirmed, row) = DOMAIN row -> "completed"
-----------------------------------------------------------------------------
Init ==
    /\ ImportInit
    /\ tasks = [t \in {} |-> "pending"]
    /\ doing = [e \in Executors |-> {}]
    /\ counted = 0 /\ label = "draft"

\* A task for every name and source, once; no project without a name.
Seed ==
    /\ pc = "seed" /\ Len(names) \in 1 .. MaxNames
    /\ pc' = "count"
    /\ tasks' = [t \in Said(names) \X Checks |-> "pending"]
    /\ UNCHANGED <<fileVars, doing, counted, label>>
-----------------------------------------------------------------------------
Becomes(t, status) ==
    /\ tasks' = [tasks EXCEPT ![t] = status]
    /\ UNCHANGED <<importVars, counted, label>>

\* An executor that has the lock has it alone, and is not at a task yet.
Starts(e) == doing[e] = {} /\ (Exclusive => \A d \in Executors : doing[d] = {})

Claim(e, t) ==
    /\ Starts(e) /\ tasks[t] = "pending"
    /\ Becomes(t, "running")
    /\ doing' = [doing EXCEPT ![e] = {t}]

\* The lease of a task ran out, and its next claimant sees it.
Recover(e, t) ==
    /\ Starts(e) /\ tasks[t] = "running"
    /\ Becomes(t, "pending")
    /\ UNCHANGED doing

\* A review leaves the task as it is until it has a result.
Review(e, t) ==
    /\ Starts(e) /\ tasks[t] = "needs_review"
    /\ doing' = [doing EXCEPT ![e] = {t}]
    /\ UNCHANGED <<importVars, tasks, counted, label>>

\* The result of a task is recorded, whatever the task's status has become.
Complete(e) == \E t \in doing[e], status \in Statuses \ {"pending", "running"} :
    /\ Becomes(t, status)
    /\ doing' = [doing EXCEPT ![e] = {}]

\* It fails or dies without a result.
Leave(e) ==
    /\ doing[e] # {} /\ doing' = [doing EXCEPT ![e] = {}]
    /\ UNCHANGED <<importVars, tasks, counted, label>>

RetryFailures ==
    /\ tasks' = [t \in DOMAIN tasks |->
                    IF tasks[t] = "retryable_error" THEN "pending" ELSE tasks[t]]
    /\ UNCHANGED <<importVars, doing, counted, label>>

ReadCount ==
    /\ pc = "count" /\ pc' = "statuses"
    /\ counted' = CompletedCount(tasks)
    /\ UNCHANGED <<fileVars, tasks, doing, label>>

ReadStatuses ==
    /\ pc = "statuses" /\ pc' = "count"
    /\ label' = ProjectStatusFor(tasks)
    /\ UNCHANGED <<fileVars, tasks, doing, counted>>

Next ==
    \/ Import /\ UNCHANGED <<tasks, doing, counted, label>>
    \/ Seed
    \/ \E e \in Executors, t \in DOMAIN tasks : Claim(e, t) \/ Recover(e, t) \/ Review(e, t)
    \/ \E e \in Executors : Complete(e) \/ Leave(e)
    \/ RetryFailures
    \/ ReadCount
    \/ ReadStatuses

Spec == Init /\ [][Next]_vars
-----------------------------------------------------------------------------
\* A project that was said to be completed is, from then on: every name the
\* file says has a confirmed result from every source, and nothing takes one
\* back, an executor that began before the word included.
CompletedIsFinal ==
    label = "completed" =>
        \A k \in 1 .. Len(due), s \in Checks :
            <<due[k], s>> \in DOMAIN tasks /\ tasks[<<due[k], s>>] \in Confirmed

\* The count of finished checks is never ahead of the checks, however much is
\* settled, reviewed, retried and recovered since.
CountNotAhead == counted =< Cardinality(With(Confirmed, tasks))
=============================================================================
