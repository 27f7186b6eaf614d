------------------------------- MODULE Leases -------------------------------
(***************************************************************************)
(* Leases as both SQLite stores keep them.  A row's lease_until is a Unix  *)
(* second and is compared with the second of the call (time.Now().Unix()), *)
(* so what matters of it is the number of seconds left: a row is expired   *)
(* once lease_until < now, that is once nothing is left, not even zero.    *)
(* lease_until = 0, which the code writes to clear a lease, is long past   *)
(* and so the same as Expired.                                             *)
(***************************************************************************)
EXTENDS Integers, FiniteSets

CONSTANTS
    Projects,   \* the projects of the workspace
    Holders,    \* everyone who takes a lock: worker goroutines, commands
    NoOne,      \* the holder of a row that is not in its table
    Departed,   \* the holder of a row left behind by a holder that is gone
    Lease       \* Engine.Lease, the lock's lease of a command, in seconds

ASSUME LeaseAssumption == Lease \in Nat \ {0}

ASSUME HolderAssumption ==
    /\ NoOne \notin Holders
    /\ Departed \notin Holders
    /\ NoOne # Departed

ASSUME ProjectAssumption == IsFiniteSet(Projects)

Expired == -1
Left    == Expired .. Lease

Live(left) == left # Expired                    \* lease_until >= now
Aged(left) == IF left = Expired THEN Expired ELSE left - 1

\* A row of a table of locks: queue.db's worker_locks, state.db's locks.
LockRow == [holder : Holders \cup {NoOne, Departed}, left : Left]
Free    == [holder |-> NoOne, left |-> Expired]

\* The upsert's WHERE clause, an absent row included.
Takeable(row) == row.holder = NoOne \/ ~Live(row.left)

AgedRow(row) == [row EXCEPT !.left = Aged(@)]

(***************************************************************************)
(* A holder's name is random and never used again, so a row whose holder   *)
(* ended can only run out or be taken over.  The model reuses the names of *)
(* its holders, and ascribes such a row to Departed when S end.            *)
(***************************************************************************)
Orphaned(row, S) == IF row.holder \in S THEN [row EXCEPT !.holder = Departed]
                                        ELSE row
=============================================================================
