----------------------------- MODULE TaskBoard ------------------------------
(***************************************************************************)
(* What LegalScout promises its user of a project's tasks, whatever goes   *)
(* on in databases, leases, processes and commands: a task is open until   *)
(* somebody brings its result; a result is final, but for the two that     *)
(* invite another attempt - a person may settle what needs review, and a   *)
(* retry opens the retryable errors of a project again, all at once.       *)
(***************************************************************************)
CONSTANTS Projects, Tasks

VARIABLE board      \* project -> task -> "open" or its result

Results == {"confirmed", "needs_review", "retryable_error", "fatal_error"}

BoardInit == board = [p \in Projects |-> [t \in Tasks |-> "open"]]

Settle(p, t, r) ==
    /\ board[p][t] \in {"open", "needs_review"}
    /\ board' = [board EXCEPT ![p][t] = r]

Reopen(p) ==
    board' = [board EXCEPT ![p] = [t \in Tasks |->
                 IF @[t] = "retryable_error" THEN "open" ELSE @[t]]]

BoardNext ==
    \E p \in Projects : \/ \E t \in Tasks, r \in Results : Settle(p, t, r)
                        \/ Reopen(p)

BoardSpec == BoardInit /\ [][BoardNext]_board
=============================================================================
