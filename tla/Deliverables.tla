---------------------------- MODULE Deliverables ----------------------------
(***************************************************************************)
(* What a user is promised of the folder of a project's screenshots: a     *)
(* picture that was delivered stays under its name for good, and a picture *)
(* that the database names is delivered.  Nothing else is ever seen under  *)
(* a final name.                                                           *)
(***************************************************************************)
CONSTANTS
    Names,          \* final names of files
    Images,         \* pictures
    NoImage         \* there is no file of that name

VARIABLES
    shelf,          \* name -> the picture a reader finds under it
    named           \* name -> the picture the database means by it

shelfVars == <<shelf, named>>

Empty == [n \in Names |-> NoImage]

ShelfInit == shelf = Empty /\ named = Empty

\* A picture appears, whole, under a name that was free.
Deliver(n) ==
    /\ shelf[n] = NoImage
    /\ \E i \in Images : shelf' = [shelf EXCEPT ![n] = i]
    /\ UNCHANGED named

\* The database takes the picture into account.
Name(n) ==
    /\ shelf[n] # NoImage
    /\ named' = [named EXCEPT ![n] = shelf[n]]
    /\ UNCHANGED shelf

\* A picture that no row names is taken back.
Withdraw(n) ==
    /\ named[n] = NoImage
    /\ shelf' = [shelf EXCEPT ![n] = NoImage]
    /\ UNCHANGED named

ShelfNext == \E n \in Names : Deliver(n) \/ Name(n) \/ Withdraw(n)

ShelfSpec == ShelfInit /\ [][ShelfNext]_shelfVars
=============================================================================
