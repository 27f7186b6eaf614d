------------------------------ MODULE Capture -------------------------------
(***************************************************************************)
(* The screenshots of a task (internal/capture/capture.go) and how         *)
(* worker.execute saves one and records it in state.db.  A file's name is  *)
(* its folder, the second of the result and a suffix; the parts of the     *)
(* name that tell tasks, sources and statuses apart only make equal names  *)
(* rarer and are left out, and so are the pictures' contents.              *)
(***************************************************************************)
EXTENDS Naturals, FiniteSets

CONSTANTS
    Writers,        \* executors of the task
    Images,         \* bound: the pictures they take
    NoImage,        \* no picture
    Exclusive,      \* do executors hold the project's lock, one at a time?
    MaxSecond,      \* bound: the seconds that pass
    MaxCrashes,     \* bound: processes that die, machines that lose power
    MaxFaults       \* bound: file and store errors

ASSUME CaptureAssumption ==
    /\ IsFiniteSet(Images) /\ NoImage \notin Images
    /\ Exclusive \in BOOLEAN
    /\ MaxSecond \in Nat /\ MaxCrashes \in Nat /\ MaxFaults \in Nat

VARIABLES
    files,          \* final name -> what is under it
    temps,          \* writer -> its temporary file
    pc,             \* writer -> its next call
    dest,           \* writer -> the final name it tries
    picture,        \* writer -> the picture it saves
    taken,          \* the pictures taken so far
    rows,           \* what state.db's screenshots name: [name, image]
    now,            \* the second
    litter,         \* temporary files that nobody will remove
    crashes,        \* how many more may die
    faults          \* how many more calls may fail

vars == <<files, temps, pc, dest, picture, taken, rows, now, litter, crashes, faults>>

Folders == {"deliverables", "diagnostics"}

\* One more suffix than there are pictures: the loop never needs another.
Suffixes == 1 .. Cardinality(Images) + 1
Names    == Folders \X (0 .. MaxSecond) \X Suffixes

\* A file that was not synced is torn when the power goes.
File    == [image : Images, state : {"partial", "written", "synced"}]
Nothing == [image |-> NoImage, state |-> "none"]

WriterPC == {"idle", "temp", "write", "sync", "look", "rename", "record"}

Init ==
    /\ files = [n \in Names |-> Nothing]
    /\ temps = [w \in Writers |-> Nothing]
    /\ pc = [w \in Writers |-> "idle"]
    /\ dest = [w \in Writers |-> <<"deliverables", 0, 1>>]
    /\ picture = [w \in Writers |-> NoImage]
    /\ taken = {}
    /\ rows = {}
    /\ now = 0
    /\ litter = 0
    /\ crashes = MaxCrashes
    /\ faults = MaxFaults
-----------------------------------------------------------------------------
Goes(w, from, to) == pc[w] = from /\ pc' = [pc EXCEPT ![w] = to]

Temp(w, state) == temps' = [temps EXCEPT ![w] = [image |-> picture[w], state |-> state]]
NoTemp(w)      == temps' = [temps EXCEPT ![w] = Nothing]

Kept  == UNCHANGED <<dest, picture, taken, now, litter, crashes, faults>>
Quiet == Kept /\ UNCHANGED <<files, rows>>

(***************************************************************************)
(* The browser gave a picture.  Save takes the confirmed ones; an          *)
(* execution that failed leaves its picture among the diagnostics.         *)
(***************************************************************************)
Save(w) == \E i \in Images \ taken, folder \in Folders :
    /\ Exclusive => \A v \in Writers : pc[v] = "idle"
    /\ Goes(w, "idle", "temp")
    /\ picture' = [picture EXCEPT ![w] = i]
    /\ taken' = taken \cup {i}
    /\ dest' = [dest EXCEPT ![w] = <<folder, now, 1>>]
    /\ UNCHANGED <<files, temps, rows, now, litter, crashes, faults>>

CreateTemp(w) ==
    /\ Goes(w, "temp", "write")
    /\ Temp(w, "partial")
    /\ Quiet

WriteTemp(w) ==
    /\ Goes(w, "write", "sync")
    /\ Temp(w, "written")
    /\ Quiet

\* Mutated: the file is closed and renamed without Sync.
CloseTemp(w) ==
    /\ Goes(w, "sync", "look")
    /\ UNCHANGED temps
    /\ Quiet

SyncTemp(w) ==
    /\ Goes(w, "sync", "look")
    /\ Temp(w, "synced")
    /\ Quiet

NextName(name) == <<name[1], name[2], name[3] + 1>>

\* Mutated: the next round tries the same name again.
LookAgain(w) ==
    /\ Goes(w, "look", IF files[dest[w]] = Nothing THEN "rename" ELSE "temp")
    /\ IF files[dest[w]] = Nothing THEN UNCHANGED temps ELSE NoTemp(w)
    /\ Quiet

\* Mutated: what is under the name is not looked at.
LookNowhere(w) ==
    /\ Goes(w, "look", "rename")
    /\ UNCHANGED temps
    /\ Quiet

\* Lstat: a name that is taken costs the temporary file and a round.  Nobody
\* looks whether that file could be removed.
Look(w) ==
    \/ /\ files[dest[w]] = Nothing
       /\ Goes(w, "look", "rename")
       /\ UNCHANGED temps
       /\ Quiet
    \/ /\ files[dest[w]] # Nothing
       /\ Goes(w, "look", "temp")
       /\ NoTemp(w)
       /\ dest' = [dest EXCEPT ![w] = NextName(@)]
       /\ \/ UNCHANGED <<litter, faults>>
          \/ /\ faults > 0 /\ faults' = faults - 1
             /\ litter' = litter + 1
       /\ UNCHANGED <<files, picture, taken, rows, now, crashes>>

\* Rename replaces what came under the name since Look.
Rename(w) ==
    /\ Goes(w, "rename", "record")
    /\ files' = [files EXCEPT ![dest[w]] = temps[w]]
    /\ NoTemp(w)
    /\ Kept /\ UNCHANGED rows

Delivered(w) == dest[w][1] = "deliverables"

\* Complete: a confirmed result names its picture.
Record(w) ==
    /\ Goes(w, "record", "idle")
    /\ rows' = IF Delivered(w)
               THEN rows \cup {[name |-> dest[w], image |-> picture[w]]} ELSE rows
    /\ Kept /\ UNCHANGED <<files, temps>>
-----------------------------------------------------------------------------
\* Mutated: a result that could not be recorded keeps its picture.
RecordFailsKeeping(w) ==
    /\ faults > 0 /\ faults' = faults - 1
    /\ Goes(w, "record", "idle")
    /\ UNCHANGED <<files, litter>>
    /\ UNCHANGED <<temps, dest, picture, taken, rows, now, crashes>>

\* Mutated: the name that Save asked for is taken back, not the one it got.
RecordFailsFirst(w) ==
    /\ faults > 0 /\ faults' = faults - 1
    /\ Goes(w, "record", "idle")
    /\ files' = IF Delivered(w)
                THEN [files EXCEPT ![<<dest[w][1], dest[w][2], 1>>] = Nothing] ELSE files
    /\ UNCHANGED <<temps, dest, picture, taken, rows, now, litter, crashes>>

\* Complete fails: the picture is taken back, if that does not fail as well.
RecordFails(w) ==
    /\ Goes(w, "record", "idle")
    /\ \/ /\ faults > 0 /\ faults' = faults - 1
          /\ files' = IF Delivered(w) THEN [files EXCEPT ![dest[w]] = Nothing] ELSE files
       \/ /\ faults > 1 /\ faults' = faults - 2
          /\ Delivered(w)
          /\ UNCHANGED files
    /\ UNCHANGED <<temps, dest, picture, taken, rows, now, litter, crashes>>

\* A call of writeAtomic fails; the task becomes a retryable error, or the
\* execution ends without a result.
FileError(w) ==
    /\ pc[w] \in {"temp", "write", "sync", "look", "rename"}
    /\ pc' = [pc EXCEPT ![w] = "idle"]
    /\ NoTemp(w)
    /\ \/ /\ faults > 0 /\ faults' = faults - 1
          /\ UNCHANGED litter
       \/ /\ faults > 1 /\ faults' = faults - 2
          /\ temps[w] # Nothing /\ litter' = litter + 1
    /\ UNCHANGED <<files, dest, picture, taken, rows, now, crashes>>

Torn(file) == IF file.state = "written" THEN [file EXCEPT !.state = "partial"] ELSE file

\* The process of w is killed, or the machine loses power with all of them.
Crash(w) ==
    /\ crashes > 0 /\ crashes' = crashes - 1
    /\ pc[w] # "idle"
    /\ \/ /\ pc' = [pc EXCEPT ![w] = "idle"]
          /\ NoTemp(w)
          /\ litter' = litter + (IF temps[w] # Nothing THEN 1 ELSE 0)
          /\ UNCHANGED files
       \/ /\ pc' = [v \in Writers |-> "idle"]
          /\ temps' = [v \in Writers |-> Nothing]
          /\ litter' = litter + Cardinality({v \in Writers : temps[v] # Nothing})
          /\ files' = [n \in Names |-> Torn(files[n])]
    /\ UNCHANGED <<dest, picture, taken, rows, now, faults>>

Tick ==
    /\ now < MaxSecond /\ now' = now + 1
    /\ UNCHANGED <<files, temps, pc, dest, picture, taken, rows, litter, crashes, faults>>

WriterStep(w) ==
    \/ CreateTemp(w)
    \/ WriteTemp(w)
    \/ SyncTemp(w)
    \/ Look(w)
    \/ Rename(w)
    \/ Record(w)

Next ==
    \/ \E w \in Writers : Save(w) \/ WriterStep(w) \/ RecordFails(w) \/ FileError(w) \/ Crash(w)
    \/ Tick

Spec == Init /\ [][Next]_vars

FairSpec == Spec /\ \A w \in Writers : WF_vars(WriterStep(w))
-----------------------------------------------------------------------------
TypeOK ==
    /\ files \in [Names -> File \cup {Nothing}]
    /\ temps \in [Writers -> File \cup {Nothing}]
    /\ pc \in [Writers -> WriterPC]
    /\ dest \in [Writers -> Names]
    /\ picture \in [Writers -> Images \cup {NoImage}]
    /\ taken \subseteq Images
    /\ rows \subseteq [name : Names, image : Images]
    /\ now \in 0 .. MaxSecond
    /\ litter \in Nat
    /\ crashes \in 0 .. MaxCrashes
    /\ faults \in 0 .. MaxFaults

\* What a reader finds under a final name is a whole picture that no loss of
\* power can tear, whenever processes and machines die.
DeliverablesWhole ==
    \A n \in Names : files[n] # Nothing => files[n].state = "synced"

\* The picture a row names is there and is the one it was recorded with,
\* whatever was saved, taken back or failed since in the same second.
RowsPictured ==
    \A r \in rows : files[r.name].image = r.image

\* The suffixes of a second are used in their order and none is left free
\* behind: a picture that was taken back was the last one.
SuffixesDense ==
    \A n \in Names : files[n] # Nothing =>
        \A k \in 1 .. n[3] : files[<<n[1], n[2], k>>] # Nothing

\* Pictures in the deliverables that no row names and nobody is about to.
Orphans == {n \in Names :
              /\ n[1] = "deliverables" /\ files[n] # Nothing
              /\ \A r \in rows : r.name # n
              /\ \A w \in Writers : ~(pc[w] = "record" /\ dest[w] = n)}

\* What is left over for nobody comes one by one from processes that died and
\* calls that failed.  A picture in the deliverables that no row names takes a
\* death or two errors, of which the second is in the rollback of the first; a
\* temporary file can be left by one error: nobody looks at the removal on a
\* name that is taken (capture.go:157).
LeftoversAccounted ==
    /\ Cardinality(Orphans) + litter =< (MaxCrashes - crashes) + (MaxFaults - faults)
    /\ Cardinality(Orphans) =< (MaxCrashes - crashes) + ((MaxFaults - faults) \div 2)

\* writeAtomic comes to an end, whichever names are taken.
SaveEnds == \A w \in Writers : pc[w] # "idle" ~> pc[w] = "idle"

\* The folder is one in which nothing is replaced and nothing partial seen.
ShelfOf == [n \in Names |-> IF files[n].state = "partial" THEN NoImage ELSE files[n].image]
NamedOf == [n \in Names |->
              IF \E r \in rows : r.name = n
              THEN (CHOOSE r \in rows : r.name = n).image ELSE NoImage]

Shelf == INSTANCE Deliverables WITH shelf <- ShelfOf, named <- NamedOf

ImplementsDeliverables == Shelf!ShelfSpec
=============================================================================
