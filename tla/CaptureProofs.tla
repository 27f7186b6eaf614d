--------------------------- MODULE CaptureProofs ----------------------------
(***************************************************************************)
(* What capture.Save promises of a project's folder, for every number of   *)
(* executors, pictures, seconds, crashes and errors, as long as executors  *)
(* hold the project's lock one at a time (ScoutProofs shows that they do); *)
(* that it implements Deliverables, and how little it can leave over.      *)
(***************************************************************************)
EXTENDS Capture, FunctionTheorems, FiniteSetTheorems, TLAPS

Saving == {"temp", "write", "sync", "look", "rename"}

\* The name of the same folder and second with the suffix k.
Sibling(n, k) == <<n[1], n[2], k>>

\* One executor at a time has anything to do with the folder.
OneAtATime == \A v, w \in Writers : pc[v] # "idle" /\ pc[w] # "idle" => v = w

\* No picture is under two names, and every picture in the folder was taken.
FilesDistinct ==
    \A m, n \in Names : files[m] # Nothing =>
        /\ files[m].image \in taken
        /\ files[n].image = files[m].image => m = n

\* A writer's picture is in no file yet, and each name that it passed is taken.
SavingOK(w) == pc[w] \in Saving =>
    /\ picture[w] \in taken
    /\ \A n \in Names : files[n].image # picture[w]
    /\ \A k \in 1 .. dest[w][3] - 1 : files[Sibling(dest[w], k)] # Nothing
    /\ pc[w] \in {"look", "rename"} => temps[w] = [image |-> picture[w], state |-> "synced"]
    /\ pc[w] = "rename" => files[dest[w]] = Nothing

\* A picture that is to be recorded is the last of its second, and no row's.
RecordOK(w) == pc[w] = "record" =>
    /\ files[dest[w]] = [image |-> picture[w], state |-> "synced"]
    /\ \A r \in rows : r.name # dest[w]
    /\ \A n \in Names : n[1] = dest[w][1] /\ n[2] = dest[w][2] /\ n[3] > dest[w][3]
                          => files[n] = Nothing

WritersOK == \A w \in Writers : SavingOK(w) /\ RecordOK(w)

\* Only a writer that saves has a temporary file.
TempsHeld == \A w \in Writers : temps[w] # Nothing => pc[w] \in Saving

\* The inductive invariant.
CaptureInv ==
    /\ TypeOK
    /\ OneAtATime
    /\ DeliverablesWhole
    /\ RowsPictured
    /\ SuffixesDense
    /\ FilesDistinct
    /\ WritersOK
    /\ TempsHeld
-----------------------------------------------------------------------------
(* Names *)

LEMMA NameParts ==
    ASSUME NEW n \in Names
    PROVE  /\ n = <<n[1], n[2], n[3]>>
           /\ n[1] \in Folders /\ n[2] \in 0 .. MaxSecond /\ n[3] \in Suffixes
           /\ n[3] \in Nat \ {0}
<1>1. Cardinality(Images) \in Nat
  BY CaptureAssumption, FS_CardinalityType
<1>2. n = <<n[1], n[2], n[3]>> /\ n[1] \in Folders /\ n[2] \in 0 .. MaxSecond /\ n[3] \in Suffixes
  BY DEF Names
<1>3. QED  BY <1>1, <1>2 DEF Suffixes

LEMMA SiblingIsName ==
    ASSUME NEW n \in Names, NEW k \in 1 .. n[3]
    PROVE  /\ Sibling(n, k) \in Names
           /\ Sibling(n, k)[1] = n[1] /\ Sibling(n, k)[2] = n[2] /\ Sibling(n, k)[3] = k
           /\ k = n[3] => Sibling(n, k) = n
<1>1. Cardinality(Images) \in Nat
  BY CaptureAssumption, FS_CardinalityType
<1>2. k \in Suffixes
  BY <1>1, NameParts DEF Suffixes
<1>3. Sibling(n, k) \in Names
  BY <1>2, NameParts DEF Sibling, Names
<1>4. QED  BY <1>3, NameParts DEF Sibling

\* A name after the last suffix is never needed: each one that is taken holds
\* a picture of its own.
LEMMA NextNameIsName ==
    ASSUME CaptureInv, NEW n \in Names, files[n] # Nothing
    PROVE  NextName(n) \in Names
<1> DEFINE f == [k \in 1 .. n[3] |-> files[Sibling(n, k)].image]
<1>1. n[3] \in Nat \ {0} /\ Cardinality(Images) \in Nat
  BY NameParts, FS_CardinalityType, CaptureAssumption
<1>2. ASSUME NEW k \in 1 .. n[3]
      PROVE  files[Sibling(n, k)] # Nothing /\ files[Sibling(n, k)].image \in Images
  <2>1. files[Sibling(n, k)] # Nothing
    BY DEF CaptureInv, SuffixesDense, Sibling
  <2>2. QED  BY <2>1, SiblingIsName DEF CaptureInv, TypeOK, File
<1>3. \A j, k \in 1 .. n[3] : f[j] = f[k] => j = k
  BY <1>2, SiblingIsName DEF CaptureInv, FilesDistinct
<1>4. f \in [1 .. n[3] -> Images]
  BY <1>2
<1>5. f \in Injection(1 .. n[3], Images)
  BY <1>3, <1>4, Fun_IsInj
<1>6. Cardinality(1 .. n[3]) =< Cardinality(Images)
  BY <1>5, FS_Injection, CaptureAssumption
<1>7. n[3] =< Cardinality(Images)
  BY <1>1, <1>6, FS_Interval
<1>8. n[3] + 1 \in Suffixes
  BY <1>1, <1>7 DEF Suffixes
<1>9. QED  BY <1>8, NameParts DEF NextName, Names
-----------------------------------------------------------------------------
(* The invariant is inductive *)

LEMMA CaptureInit ==
    ASSUME Init
    PROVE  CaptureInv
<1>1. Cardinality(Images) \in Nat
  BY CaptureAssumption, FS_CardinalityType
<1>2. <<"deliverables", 0, 1>> \in Names
  BY <1>1, CaptureAssumption DEF Names, Folders, Suffixes
<1>3. TypeOK
  BY <1>2, CaptureAssumption DEF Init, TypeOK, WriterPC
<1>4. QED
  BY <1>3 DEF CaptureInv, Init, OneAtATime, DeliverablesWhole, RowsPictured, SuffixesDense,
              FilesDistinct, WritersOK, SavingOK, RecordOK, Saving, TempsHeld

\* Temporary files come and go with the writer that steps.
LEMMA TempsStay ==
    ASSUME CaptureInv, NEW w \in Writers, NEW to, pc' = [pc EXCEPT ![w] = to],
           \A v \in Writers \ {w} : temps'[v] = temps[v],
           to \in Saving \/ temps'[w] = Nothing
    PROVE  TempsHeld'
BY DEF CaptureInv, TypeOK, TempsHeld

\* What is said of the folder needs a look only at a step that changes it.
LEMMA FolderKept ==
    ASSUME CaptureInv, files' = files, rows' = rows, taken \subseteq taken'
    PROVE  DeliverablesWhole' /\ RowsPictured' /\ SuffixesDense' /\ FilesDistinct'
BY DEF CaptureInv, DeliverablesWhole, RowsPictured, SuffixesDense, FilesDistinct

\* What is said of the writers concerns the one that is busy.
LEMMA OneWriter ==
    ASSUME NEW w \in Writers, \A v \in Writers \ {w} : pc'[v] = "idle",
           SavingOK(w)', RecordOK(w)'
    PROVE  OneAtATime' /\ WritersOK'
<1>1. ASSUME NEW v \in Writers, v # w  PROVE SavingOK(v)' /\ RecordOK(v)'
  BY <1>1 DEF SavingOK, RecordOK, Saving
<1>2. QED  BY <1>1 DEF OneAtATime, WritersOK

\* A writer that steps stays the only one.
LEMMA BusyAlone ==
    ASSUME CaptureInv, NEW w \in Writers, NEW from, NEW to, from # "idle", Goes(w, from, to)
    PROVE  /\ pc[w] = from /\ pc'[w] = to
           /\ \A v \in Writers \ {w} : pc'[v] = "idle"
BY DEF CaptureInv, TypeOK, OneAtATime, Goes

LEMMA SaveStep ==
    ASSUME CaptureInv, Exclusive, NEW w \in Writers, Save(w)
    PROVE  CaptureInv'
<1>1. PICK i \in Images \ taken, folder \in Folders :
        /\ \A v \in Writers : pc[v] = "idle"
        /\ Goes(w, "idle", "temp")
        /\ picture' = [picture EXCEPT ![w] = i]
        /\ taken' = taken \cup {i}
        /\ dest' = [dest EXCEPT ![w] = <<folder, now, 1>>]
        /\ UNCHANGED <<files, temps, rows, now, litter, crashes, faults>>
  BY DEF Save
<1>2. Cardinality(Images) \in Nat
  BY CaptureAssumption, FS_CardinalityType
<1>3. <<folder, now, 1>> \in Names
  BY <1>2 DEF CaptureInv, TypeOK, Names, Suffixes
<1>4. TypeOK'
  BY <1>1, <1>3 DEF CaptureInv, TypeOK, Goes, WriterPC
<1>5. pc'[w] = "temp" /\ picture'[w] = i /\ dest'[w][3] = 1
  BY <1>1, <1>3 DEF CaptureInv, TypeOK, Goes
<1>6. \A n \in Names : files[n].image # i
  BY <1>1, CaptureAssumption DEF CaptureInv, FilesDistinct, Nothing
<1>7. SavingOK(w)' /\ RecordOK(w)'
  BY <1>1, <1>5, <1>6 DEF SavingOK, RecordOK
<1>8. \A v \in Writers \ {w} : pc'[v] = "idle"
  BY <1>1 DEF CaptureInv, TypeOK, Goes
<1>9. TempsHeld'
  BY <1>1, TempsStay DEF Goes, Saving
<1>10. QED  BY <1>1, <1>4, <1>7, <1>8, <1>9, FolderKept, OneWriter DEF CaptureInv

\* The temporary file is made, filled and synced.
LEMMA TempStep ==
    ASSUME CaptureInv, NEW w \in Writers, CreateTemp(w) \/ WriteTemp(w) \/ SyncTemp(w)
    PROVE  CaptureInv'
<1>1. PICK from \in {"temp", "write", "sync"}, to \in {"write", "sync", "look"},
           state \in {"partial", "written", "synced"} :
        Goes(w, from, to) /\ Temp(w, state) /\ Quiet /\ (to = "look" => state = "synced")
  BY DEF CreateTemp, WriteTemp, SyncTemp
<1>2. UNCHANGED <<files, dest, picture, taken, rows, now, litter, crashes, faults>>
  BY <1>1 DEF Quiet, Kept
<1>3. pc[w] = from /\ pc'[w] = to /\ \A v \in Writers \ {w} : pc'[v] = "idle"
  BY <1>1, BusyAlone
<1>4. SavingOK(w) /\ pc[w] \in Saving
  BY <1>3 DEF CaptureInv, WritersOK, Saving
<1>5. picture[w] \in Images
  BY <1>4 DEF CaptureInv, TypeOK, SavingOK
<1>6. temps' = [temps EXCEPT ![w] = [image |-> picture[w], state |-> state]]
  BY <1>1 DEF Temp
<1>7. TypeOK'
  BY <1>1, <1>2, <1>5, <1>6 DEF CaptureInv, TypeOK, Goes, WriterPC, File
<1>8. to = "look" => temps'[w] = [image |-> picture[w], state |-> "synced"]
  BY <1>1, <1>6 DEF CaptureInv, TypeOK
<1>9. SavingOK(w)'
  BY <1>2, <1>3, <1>4, <1>8 DEF SavingOK
<1>10. RecordOK(w)'
  BY <1>3 DEF RecordOK
<1>11. TempsHeld'
  <2>1. \A v \in Writers \ {w} : temps'[v] = temps[v]
    BY <1>6 DEF CaptureInv, TypeOK
  <2>2. QED  BY <1>1, <2>1, TempsStay DEF Goes, Saving
<1>12. QED  BY <1>2, <1>3, <1>7, <1>9, <1>10, <1>11, FolderKept, OneWriter DEF CaptureInv

LEMMA LookStep ==
    ASSUME CaptureInv, NEW w \in Writers, Look(w)
    PROVE  CaptureInv'
<1>1. CASE /\ files[dest[w]] = Nothing
           /\ Goes(w, "look", "rename")
           /\ UNCHANGED temps
           /\ Quiet
  <2>1. UNCHANGED <<files, temps, dest, picture, taken, rows, now, litter, crashes, faults>>
    BY <1>1 DEF Quiet, Kept
  <2>2. pc[w] = "look" /\ pc'[w] = "rename" /\ \A v \in Writers \ {w} : pc'[v] = "idle"
    BY <1>1, BusyAlone
  <2>3. TypeOK'
    BY <1>1, <2>1 DEF CaptureInv, TypeOK, Goes, WriterPC
  <2>4. SavingOK(w)' /\ RecordOK(w)'
    BY <1>1, <2>1, <2>2 DEF CaptureInv, WritersOK, SavingOK, RecordOK, Saving
  <2>5. TempsHeld'
    BY <1>1, TempsStay DEF Goes, Saving
  <2>6. QED  BY <2>1, <2>2, <2>3, <2>4, <2>5, FolderKept, OneWriter DEF CaptureInv
<1>2. CASE /\ files[dest[w]] # Nothing
           /\ Goes(w, "look", "temp")
           /\ NoTemp(w)
           /\ dest' = [dest EXCEPT ![w] = NextName(@)]
           /\ \/ UNCHANGED <<litter, faults>>
              \/ /\ faults > 0 /\ faults' = faults - 1
                 /\ litter' = litter + 1
           /\ UNCHANGED <<files, picture, taken, rows, now, crashes>>
  <2>1. pc[w] = "look" /\ pc'[w] = "temp" /\ \A v \in Writers \ {w} : pc'[v] = "idle"
    BY <1>2, BusyAlone
  <2>2. dest[w] \in Names /\ NextName(dest[w]) \in Names
    BY <1>2, NextNameIsName DEF CaptureInv, TypeOK
  <2>3. TypeOK'
    <3>1. litter' \in Nat /\ faults' \in 0 .. MaxFaults
      BY <1>2, CaptureAssumption DEF CaptureInv, TypeOK
    <3>2. QED  BY <1>2, <2>2, <3>1 DEF CaptureInv, TypeOK, Goes, WriterPC, NoTemp
  <2>4. dest'[w] = <<dest[w][1], dest[w][2], dest[w][3] + 1>>
    BY <1>2 DEF CaptureInv, TypeOK, NextName
  <2>5. ASSUME NEW k \in 1 .. dest'[w][3] - 1  PROVE files[Sibling(dest'[w], k)] # Nothing
    <3>1. dest[w][3] \in Nat \ {0} /\ k \in 1 .. dest[w][3]
      BY <2>2, <2>4, NameParts
    <3>2. Sibling(dest'[w], k) = Sibling(dest[w], k)
      BY <2>4 DEF Sibling
    <3>3. QED  BY <1>2, <2>2, <3>1, <3>2 DEF CaptureInv, SuffixesDense, Sibling
  <2>6. SavingOK(w)' /\ RecordOK(w)'
    BY <1>2, <2>1, <2>5 DEF CaptureInv, WritersOK, SavingOK, RecordOK, Saving
  <2>7. TempsHeld'
    <3>1. \A v \in Writers \ {w} : temps'[v] = temps[v]
      BY <1>2 DEF CaptureInv, TypeOK, NoTemp
    <3>2. QED  BY <1>2, <3>1, TempsStay DEF Goes, Saving
  <2>8. QED  BY <1>2, <2>1, <2>3, <2>6, <2>7, FolderKept, OneWriter DEF CaptureInv
<1>3. QED  BY <1>1, <1>2 DEF Look

\* The name of a writer that renames is free, and so is every later one.
LEMMA LaterFree ==
    ASSUME CaptureInv, NEW d \in Names, files[d] = Nothing,
           NEW n \in Names, n[1] = d[1], n[2] = d[2], n[3] > d[3]
    PROVE  files[n] = Nothing
<1>1. d[3] \in 1 .. n[3]
  BY NameParts
<1>2. <<n[1], n[2], d[3]>> = d
  BY NameParts
<1>3. QED  BY <1>1, <1>2 DEF CaptureInv, SuffixesDense

\* No row names a name that is free.
LEMMA NoRowNamesFree ==
    ASSUME CaptureInv, NEW r \in rows
    PROVE  r.name \in Names /\ files[r.name] # Nothing /\ files[r.name].image = r.image
BY CaptureAssumption DEF CaptureInv, TypeOK, RowsPictured, Nothing

LEMMA RenameStep ==
    ASSUME CaptureInv, NEW w \in Writers, Rename(w)
    PROVE  CaptureInv'
<1> DEFINE d == dest[w]
<1> DEFINE new == [image |-> picture[w], state |-> "synced"]
<1>1. /\ Goes(w, "rename", "record") /\ NoTemp(w)
      /\ UNCHANGED <<dest, picture, taken, rows, now, litter, crashes, faults>>
  BY DEF Rename, Kept
<1>2. pc[w] = "rename" /\ pc'[w] = "record" /\ \A v \in Writers \ {w} : pc'[v] = "idle"
  BY <1>1, BusyAlone
<1>3. d \in Names /\ SavingOK(w)
  BY DEF CaptureInv, TypeOK, WritersOK
<1>4. /\ files[d] = Nothing /\ temps[w] = new /\ picture[w] \in taken /\ picture[w] \in Images
      /\ \A n \in Names : files[n].image # picture[w]
      /\ \A k \in 1 .. d[3] - 1 : files[Sibling(d, k)] # Nothing
  BY <1>2, <1>3 DEF SavingOK, Saving, CaptureInv, TypeOK
<1>5. files' = [files EXCEPT ![d] = new]
  BY <1>4 DEF Rename
<1>6. new \in File /\ new # Nothing
  BY <1>4, CaptureAssumption DEF File, Nothing
<1>7. \A n \in Names : files'[n] = IF n = d THEN new ELSE files[n]
  BY <1>3, <1>5 DEF CaptureInv, TypeOK
<1>8. TypeOK'
  BY <1>1, <1>5, <1>6 DEF CaptureInv, TypeOK, Goes, WriterPC, NoTemp
<1>9. DeliverablesWhole'
  BY <1>7 DEF CaptureInv, DeliverablesWhole
<1>10. RowsPictured'
  <2> SUFFICES ASSUME NEW r \in rows  PROVE files'[r.name].image = r.image
    BY <1>1 DEF RowsPictured
  <2>1. r.name \in Names /\ r.name # d /\ files[r.name].image = r.image
    BY <1>4, NoRowNamesFree
  <2>2. QED  BY <1>7, <2>1
<1>11. SuffixesDense'
  <2> SUFFICES ASSUME NEW n \in Names, files'[n] # Nothing, NEW k \in 1 .. n[3]
               PROVE  files'[Sibling(n, k)] # Nothing
    BY DEF SuffixesDense, Sibling
  <2>1. Sibling(n, k) \in Names
    BY SiblingIsName
  <2>2. files[Sibling(n, k)] # Nothing \/ Sibling(n, k) = d
    <3>1. CASE n = d
      <4>1. CASE k = d[3]
        BY <3>1, <4>1, SiblingIsName
      <4>2. CASE k # d[3]
        <5>1. k \in 1 .. d[3] - 1
          BY <1>3, <3>1, <4>2, NameParts
        <5>2. QED  BY <1>4, <3>1, <5>1
      <4>3. QED  BY <4>1, <4>2
    <3>2. CASE n # d
      BY <1>7, <3>2 DEF CaptureInv, SuffixesDense, Sibling
    <3>3. QED  BY <3>1, <3>2
  <2>3. QED  BY <1>6, <1>7, <2>1, <2>2
<1>12. FilesDistinct'
  <2> SUFFICES ASSUME NEW m \in Names, NEW n \in Names, files'[m] # Nothing
               PROVE  /\ files'[m].image \in taken
                      /\ files'[n].image = files'[m].image => m = n
    BY <1>1 DEF FilesDistinct
  <2>1. new.image = picture[w]
    OBVIOUS
  <2>2. QED  BY <1>4, <1>7, <2>1 DEF CaptureInv, FilesDistinct
<1>13. SavingOK(w)'
  BY <1>2 DEF SavingOK, Saving
<1>14. RecordOK(w)'
  <2>1. \A r \in rows : r.name # d
    BY <1>4, NoRowNamesFree
  <2>2. \A n \in Names : n[1] = d[1] /\ n[2] = d[2] /\ n[3] > d[3]
                           => files'[n] = Nothing
    <3> SUFFICES ASSUME NEW n \in Names, n[1] = d[1], n[2] = d[2], n[3] > d[3]
                 PROVE  files'[n] = Nothing
      OBVIOUS
    <3>1. n # d
      BY <1>3, NameParts
    <3>2. QED  BY <1>3, <1>4, <1>7, <3>1, LaterFree
  <2>3. QED  BY <1>1, <1>3, <1>7, <2>1, <2>2 DEF RecordOK
<1>15. TempsHeld'
  <2>1. \A v \in Writers : temps'[v] = IF v = w THEN Nothing ELSE temps[v]
    BY <1>1 DEF CaptureInv, TypeOK, NoTemp
  <2>2. QED  BY <1>1, <2>1, TempsStay DEF Goes
<1>16. QED
  BY <1>2, <1>8, <1>9, <1>10, <1>11, <1>12, <1>13, <1>14, <1>15, OneWriter DEF CaptureInv

\* A writer that steps to "idle" leaves no writer busy.
LEMMA AllIdle ==
    ASSUME CaptureInv, NEW w \in Writers, pc[w] # "idle", pc' = [pc EXCEPT ![w] = "idle"],
           NoTemp(w) \/ (pc[w] = "record" /\ UNCHANGED temps)
    PROVE  OneAtATime' /\ WritersOK' /\ TempsHeld'
<1>1. \A v \in Writers : pc'[v] = "idle"
  BY DEF CaptureInv, TypeOK, OneAtATime
<1>2. \A v \in Writers : temps'[v] = Nothing
  BY DEF CaptureInv, TypeOK, OneAtATime, TempsHeld, Saving, NoTemp
<1>3. QED  BY <1>1, <1>2 DEF OneAtATime, WritersOK, SavingOK, RecordOK, Saving, TempsHeld

LEMMA RecordStep ==
    ASSUME CaptureInv, NEW w \in Writers, Record(w)
    PROVE  CaptureInv'
<1> DEFINE row == [name |-> dest[w], image |-> picture[w]]
<1>1. /\ Goes(w, "record", "idle")
      /\ rows' \in {rows, rows \cup {row}}
      /\ UNCHANGED <<files, temps, dest, picture, taken, now, litter, crashes, faults>>
  BY DEF Record, Kept
<1>2. pc[w] = "record" /\ RecordOK(w)
  BY <1>1 DEF Goes, CaptureInv, WritersOK
<1>3. files[row.name].image = row.image
  BY <1>2 DEF RecordOK
<1>4. picture[w] \in Images
  BY <1>2, CaptureAssumption DEF RecordOK, CaptureInv, TypeOK, File, Nothing
<1>5. TypeOK'
  <2>1. row \in [name : Names, image : Images]
    BY <1>4 DEF CaptureInv, TypeOK
  <2>2. QED  BY <1>1, <2>1 DEF CaptureInv, TypeOK, Goes, WriterPC
<1>6. RowsPictured'
  BY <1>1, <1>3 DEF CaptureInv, RowsPictured
<1>7. DeliverablesWhole' /\ SuffixesDense' /\ FilesDistinct'
  BY <1>1 DEF CaptureInv, DeliverablesWhole, SuffixesDense, FilesDistinct
<1>8. QED  BY <1>1, <1>2, <1>5, <1>6, <1>7, AllIdle DEF CaptureInv, Goes

\* A picture that is taken back was the last of its second, and no row's.
LEMMA RecordFailsStep ==
    ASSUME CaptureInv, NEW w \in Writers, RecordFails(w)
    PROVE  CaptureInv'
<1> DEFINE d == dest[w]
<1>1. /\ Goes(w, "record", "idle")
      /\ files' \in {files, [files EXCEPT ![d] = Nothing]}
      /\ faults' \in Nat /\ faults' =< faults
      /\ UNCHANGED <<temps, dest, picture, taken, rows, now, litter, crashes>>
  BY DEF RecordFails, CaptureInv, TypeOK
<1>2. pc[w] = "record" /\ RecordOK(w) /\ d \in Names
  BY <1>1 DEF Goes, CaptureInv, WritersOK, TypeOK
<1>3. TypeOK'
  BY <1>1, CaptureAssumption DEF CaptureInv, TypeOK, Goes, WriterPC
<1>4. OneAtATime' /\ WritersOK' /\ TempsHeld'
  BY <1>1, <1>2, AllIdle DEF Goes
<1>5. CASE files' = files
  BY <1>1, <1>3, <1>4, <1>5, FolderKept DEF CaptureInv
<1>6. CASE files' = [files EXCEPT ![d] = Nothing]
  <2>1. \A n \in Names : files'[n] = IF n = d THEN Nothing ELSE files[n]
    BY <1>2, <1>6 DEF CaptureInv, TypeOK
  <2>2. DeliverablesWhole'
    BY <2>1 DEF CaptureInv, DeliverablesWhole
  <2>3. RowsPictured'
    <3> SUFFICES ASSUME NEW r \in rows  PROVE files'[r.name].image = r.image
      BY <1>1 DEF RowsPictured
    <3>1. r.name # d
      BY <1>2 DEF RecordOK
    <3>2. QED  BY <2>1, <3>1, NoRowNamesFree
  <2>4. SuffixesDense'
    <3> SUFFICES ASSUME NEW n \in Names, files'[n] # Nothing, NEW k \in 1 .. n[3]
                 PROVE  files'[Sibling(n, k)] # Nothing
      BY DEF SuffixesDense, Sibling
    <3>1. files[n] # Nothing /\ n # d
      BY <2>1
    <3>2. files[Sibling(n, k)] # Nothing /\ Sibling(n, k) \in Names
      BY <3>1, SiblingIsName DEF CaptureInv, SuffixesDense, Sibling
    <3>3. ASSUME Sibling(n, k) = d  PROVE FALSE
      <4>1. n[1] = d[1] /\ n[2] = d[2] /\ d[3] = k
        BY <3>3, SiblingIsName
      <4>2. n[3] > d[3] \/ n[3] = d[3]
        BY <4>1, NameParts
      <4>3. n[3] # d[3]
        BY <1>2, <3>1, <4>1, NameParts
      <4>4. QED  BY <1>2, <3>1, <4>1, <4>2, <4>3 DEF RecordOK
    <3>4. QED  BY <2>1, <3>2, <3>3
  <2>5. FilesDistinct'
    <3> SUFFICES ASSUME NEW m \in Names, NEW n \in Names, files'[m] # Nothing
                 PROVE  /\ files'[m].image \in taken
                        /\ files'[n].image = files'[m].image => m = n
      BY <1>1 DEF FilesDistinct
    <3>1. m # d /\ files'[m] = files[m] /\ files[m] # Nothing /\ files[m].image \in taken
      BY <2>1 DEF CaptureInv, FilesDistinct
    <3>2. files[m].image # NoImage
      BY <3>1, CaptureAssumption DEF CaptureInv, TypeOK
    <3>3. QED  BY <2>1, <3>1, <3>2 DEF CaptureInv, FilesDistinct, Nothing
  <2>6. QED  BY <1>3, <1>4, <2>2, <2>3, <2>4, <2>5 DEF CaptureInv
<1>7. QED  BY <1>1, <1>5, <1>6

LEMMA FileErrorStep ==
    ASSUME CaptureInv, NEW w \in Writers, FileError(w)
    PROVE  CaptureInv'
<1>1. /\ pc[w] # "idle"
      /\ pc' = [pc EXCEPT ![w] = "idle"] /\ NoTemp(w)
      /\ faults' \in Nat /\ faults' =< faults /\ litter' \in Nat
      /\ UNCHANGED <<files, dest, picture, taken, rows, now, crashes>>
  BY DEF FileError, CaptureInv, TypeOK
<1>2. TypeOK'
  BY <1>1, CaptureAssumption DEF CaptureInv, TypeOK, WriterPC, NoTemp
<1>3. QED  BY <1>1, <1>2, AllIdle, FolderKept DEF CaptureInv

LEMMA CrashStep ==
    ASSUME CaptureInv, NEW w \in Writers, Crash(w)
    PROVE  CaptureInv'
<1>1. /\ pc[w] # "idle" /\ crashes' \in Nat /\ crashes' =< crashes
      /\ UNCHANGED <<dest, picture, taken, rows, now, faults>>
  BY CaptureAssumption DEF Crash, CaptureInv, TypeOK
<1>2. \A v \in Writers \ {w} : pc[v] = "idle" /\ temps[v] = Nothing
  BY <1>1 DEF CaptureInv, OneAtATime, TempsHeld, Saving
<1>3. Cardinality({v \in Writers : temps[v] # Nothing}) \in Nat
  <2>1. {v \in Writers : temps[v] # Nothing} \in SUBSET {w}
    BY <1>2
  <2>2. IsFiniteSet({w})
    BY FS_Singleton
  <2>3. QED  BY <2>1, <2>2, FS_Subset, FS_CardinalityType
<1>4. \A n \in Names : Torn(files[n]) = files[n]
  BY DEF CaptureInv, DeliverablesWhole, Torn, Nothing
<1>5. /\ pc' = [pc EXCEPT ![w] = "idle"]
      /\ NoTemp(w)
      /\ litter' \in Nat
      /\ files' = files
  <2>1. CASE /\ pc' = [pc EXCEPT ![w] = "idle"]
             /\ NoTemp(w)
             /\ litter' = litter + (IF temps[w] # Nothing THEN 1 ELSE 0)
             /\ UNCHANGED files
    BY <2>1 DEF CaptureInv, TypeOK
  <2>2. CASE /\ pc' = [v \in Writers |-> "idle"]
             /\ temps' = [v \in Writers |-> Nothing]
             /\ litter' = litter + Cardinality({v \in Writers : temps[v] # Nothing})
             /\ files' = [n \in Names |-> Torn(files[n])]
    <3>1. pc' = [pc EXCEPT ![w] = "idle"] /\ NoTemp(w)
      BY <1>2, <2>2 DEF CaptureInv, TypeOK, NoTemp
    <3>2. files' = files
      BY <1>4, <2>2 DEF CaptureInv, TypeOK
    <3>3. litter' \in Nat
      BY <1>3, <2>2 DEF CaptureInv, TypeOK
    <3>4. QED  BY <3>1, <3>2, <3>3
  <2>3. QED  BY <2>1, <2>2 DEF Crash
<1>6. TypeOK'
  BY <1>1, <1>5, CaptureAssumption DEF CaptureInv, TypeOK, WriterPC, NoTemp
<1>7. QED  BY <1>1, <1>5, <1>6, AllIdle, FolderKept DEF CaptureInv

LEMMA CaptureStutter ==
    ASSUME CaptureInv, Tick \/ UNCHANGED vars
    PROVE  CaptureInv'
<1>1. UNCHANGED <<files, temps, pc, dest, picture, taken, rows, litter, crashes, faults>>
  BY DEF Tick, vars
<1>2. now' \in 0 .. MaxSecond
  BY CaptureAssumption DEF Tick, vars, CaptureInv, TypeOK
<1>3. TypeOK'
  BY <1>1, <1>2 DEF CaptureInv, TypeOK
<1>4. OneAtATime' /\ WritersOK' /\ TempsHeld'
  BY <1>1 DEF CaptureInv, OneAtATime, WritersOK, SavingOK, RecordOK, TempsHeld
<1>5. QED  BY <1>1, <1>3, <1>4, FolderKept DEF CaptureInv

\* Every step keeps the invariant.
LEMMA CaptureStep ==
    ASSUME CaptureInv, Exclusive, [Next]_vars
    PROVE  CaptureInv'
<1>1. ASSUME NEW w \in Writers, Save(w)  PROVE CaptureInv'
  BY <1>1, SaveStep
<1>2. ASSUME NEW w \in Writers, WriterStep(w)  PROVE CaptureInv'
  BY <1>2, TempStep, LookStep, RenameStep, RecordStep DEF WriterStep
<1>3. ASSUME NEW w \in Writers, RecordFails(w)  PROVE CaptureInv'
  BY <1>3, RecordFailsStep
<1>4. ASSUME NEW w \in Writers, FileError(w)  PROVE CaptureInv'
  BY <1>4, FileErrorStep
<1>5. ASSUME NEW w \in Writers, Crash(w)  PROVE CaptureInv'
  BY <1>5, CrashStep
<1>6. ASSUME Tick \/ UNCHANGED vars  PROVE CaptureInv'
  BY <1>6, CaptureStutter
<1>7. QED  BY <1>1, <1>2, <1>3, <1>4, <1>5, <1>6 DEF Next

THEOREM CaptureInvariant == Exclusive => (Spec => []CaptureInv)
<1> SUFFICES ASSUME Exclusive  PROVE Spec => []CaptureInv
  OBVIOUS
<1>1. Init => CaptureInv
  BY CaptureInit
<1>2. CaptureInv /\ [Next]_vars => CaptureInv'
  BY CaptureStep
<1>3. QED  BY <1>1, <1>2, PTL DEF Spec
-----------------------------------------------------------------------------
(* Theorems *)

\* The state of capture.Save is of its type; above all, writeAtomic's loop over
\* the suffixes never goes past one more than there are pictures.
THEOREM CaptureTypeCorrect == Exclusive => (Spec => []TypeOK)
<1>1. CaptureInv => TypeOK
  BY DEF CaptureInv
<1>2. QED  BY <1>1, CaptureInvariant, PTL

\* A reader, or a machine that lost power at any call of writeAtomic, finds a
\* whole picture under a final name or none.
THEOREM DeliverablesAlwaysWhole == Exclusive => (Spec => []DeliverablesWhole)
<1>1. CaptureInv => DeliverablesWhole
  BY DEF CaptureInv
<1>2. QED  BY <1>1, CaptureInvariant, PTL

\* No save, error, rollback or crash takes the picture of a recorded result
\* away or replaces it.
THEOREM RowsAlwaysPictured == Exclusive => (Spec => []RowsPictured)
<1>1. CaptureInv => RowsPictured
  BY DEF CaptureInv
<1>2. QED  BY <1>1, CaptureInvariant, PTL

\* Suffixes are given in their order, and rollbacks leave no gap behind.
THEOREM SuffixesAlwaysDense == Exclusive => (Spec => []SuffixesDense)
<1>1. CaptureInv => SuffixesDense
  BY DEF CaptureInv
<1>2. QED  BY <1>1, CaptureInvariant, PTL
-----------------------------------------------------------------------------
(* Refinement *)

RowNames == {r.name : r \in rows}

\* What the mapped state is, in a state of the invariant.
LEMMA ShelfMapping ==
    ASSUME CaptureInv
    PROVE  /\ ShelfOf = [n \in Names |-> files[n].image]
           /\ NamedOf = [n \in Names |-> IF n \in RowNames THEN files[n].image ELSE NoImage]
           /\ RowNames \subseteq Names
<1>1. \A n \in Names : files[n].state # "partial"
  BY DEF CaptureInv, DeliverablesWhole, Nothing
<1>2. ASSUME NEW n \in Names, \E r \in rows : r.name = n
      PROVE  (CHOOSE r \in rows : r.name = n).image = files[n].image
  BY <1>2 DEF CaptureInv, RowsPictured
<1>3. RowNames \subseteq Names
  BY DEF RowNames, CaptureInv, TypeOK
<1>4. QED  BY <1>1, <1>2, <1>3 DEF ShelfOf, NamedOf, RowNames

LEMMA ShelfMappingNext ==
    ASSUME CaptureInv'
    PROVE  /\ ShelfOf' = [n \in Names |-> files'[n].image]
           /\ NamedOf' = [n \in Names |-> IF n \in RowNames' THEN files'[n].image ELSE NoImage]
<1>1. (ShelfOf = [n \in Names |-> files[n].image])'
  BY ShelfMapping, PTL
<1>2. (NamedOf = [n \in Names |-> IF n \in RowNames THEN files[n].image ELSE NoImage])'
  BY ShelfMapping, PTL
<1>3. QED  BY <1>1, <1>2

LEMMA ShelfStart ==
    ASSUME Init
    PROVE  Shelf!ShelfInit
BY DEF Init, ShelfOf, NamedOf, Nothing, Shelf!ShelfInit, Shelf!Empty

\* A step that touches neither the files nor the rows is not seen.
LEMMA ShelfUnseen ==
    ASSUME UNCHANGED <<files, rows>>
    PROVE  UNCHANGED <<ShelfOf, NamedOf>>
BY DEF ShelfOf, NamedOf

LEMMA ShelfRename ==
    ASSUME CaptureInv, CaptureInv', NEW w \in Writers, Rename(w)
    PROVE  \E n \in Names : Shelf!Deliver(n)
<1> DEFINE d == dest[w]
<1>1. d \in Names /\ files[d] = Nothing /\ temps[w].image = picture[w] /\ picture[w] \in Images
  BY DEF Rename, Goes, CaptureInv, TypeOK, WritersOK, SavingOK, Saving
<1>2. files' = [files EXCEPT ![d] = temps[w]] /\ rows' = rows
  BY DEF Rename
<1>3. d \notin RowNames
  BY <1>1, NoRowNamesFree DEF RowNames
<1>4. /\ ShelfOf = [n \in Names |-> files[n].image]
      /\ NamedOf = [n \in Names |-> IF n \in RowNames THEN files[n].image ELSE NoImage]
      /\ ShelfOf' = [n \in Names |-> files'[n].image]
      /\ NamedOf' = [n \in Names |-> IF n \in RowNames THEN files'[n].image ELSE NoImage]
  <2>1. RowNames' = RowNames
    BY <1>2 DEF RowNames
  <2>2. QED  BY <2>1, ShelfMapping, ShelfMappingNext
<1>5. \A n \in Names : files'[n] = IF n = d THEN temps[w] ELSE files[n]
  BY <1>1, <1>2 DEF CaptureInv, TypeOK
<1>6. ShelfOf[d] = NoImage
  BY <1>1, <1>4 DEF Nothing
<1>7. ShelfOf' = [ShelfOf EXCEPT ![d] = picture[w]]
  BY <1>1, <1>4, <1>5
<1>8. NamedOf' = NamedOf
  BY <1>3, <1>4, <1>5
<1>9. QED  BY <1>1, <1>6, <1>7, <1>8 DEF Shelf!Deliver

LEMMA ShelfRecord ==
    ASSUME CaptureInv, CaptureInv', NEW w \in Writers, Record(w)
    PROVE  (\E n \in Names : Shelf!Name(n)) \/ UNCHANGED <<ShelfOf, NamedOf>>
<1> DEFINE d == dest[w]
<1>1. d \in Names /\ files[d].image \in Images /\ files' = files
  <2>1. pc[w] = "record" /\ RecordOK(w) /\ d \in Names /\ files' = files
    BY DEF Record, Goes, CaptureInv, WritersOK, TypeOK
  <2>2. files[d] = [image |-> picture[w], state |-> "synced"]
    BY <2>1 DEF RecordOK
  <2>3. files[d].state = "synced"
    BY <2>2
  <2>4. files[d] # Nothing
    BY <2>3 DEF Nothing
  <2>5. QED  BY <2>1, <2>4 DEF CaptureInv, TypeOK, File
<1>2. CASE Delivered(w)
  <2>1. RowNames' = RowNames \cup {d}
    <3>1. rows' = rows \cup {[name |-> d, image |-> picture[w]]}
      BY <1>2 DEF Record
    <3>2. [name |-> d, image |-> picture[w]].name = d
      OBVIOUS
    <3>3. QED  BY <3>1, <3>2, Zenon DEF RowNames
  <2>2. ShelfOf' = ShelfOf /\ ShelfOf[d] # NoImage
    BY <1>1, ShelfMapping, ShelfMappingNext, CaptureAssumption
  <2>3. NamedOf' = [NamedOf EXCEPT ![d] = ShelfOf[d]]
    BY <1>1, <2>1, ShelfMapping, ShelfMappingNext
  <2>4. QED  BY <1>1, <2>2, <2>3 DEF Shelf!Name
<1>3. CASE ~Delivered(w)
  BY <1>1, <1>3, ShelfUnseen DEF Record
<1>4. QED  BY <1>2, <1>3

LEMMA ShelfRecordFails ==
    ASSUME CaptureInv, CaptureInv', NEW w \in Writers, RecordFails(w)
    PROVE  (\E n \in Names : Shelf!Withdraw(n)) \/ UNCHANGED <<ShelfOf, NamedOf>>
<1> DEFINE d == dest[w]
<1>1. d \in Names /\ d \notin RowNames /\ rows' = rows /\ RowNames' = RowNames
  BY DEF RecordFails, Goes, CaptureInv, TypeOK, WritersOK, RecordOK, RowNames
<1>2. CASE files' = files
  BY <1>1, <1>2, ShelfUnseen
<1>3. CASE files' = [files EXCEPT ![d] = Nothing]
  <2>1. \A n \in Names : files'[n] = IF n = d THEN Nothing ELSE files[n]
    BY <1>1, <1>3 DEF CaptureInv, TypeOK
  <2>2. ShelfOf' = [ShelfOf EXCEPT ![d] = NoImage] /\ NamedOf[d] = NoImage
    BY <1>1, <2>1, ShelfMapping, ShelfMappingNext DEF Nothing
  <2>3. NamedOf' = NamedOf
    BY <1>1, <2>1, ShelfMapping, ShelfMappingNext
  <2>4. QED  BY <1>1, <2>2, <2>3 DEF Shelf!Withdraw
<1>4. QED  BY <1>2, <1>3 DEF RecordFails

\* Every other step leaves the files and the rows alone.
LEMMA ShelfStep ==
    ASSUME CaptureInv, CaptureInv', [Next]_vars
    PROVE  [Shelf!ShelfNext]_(Shelf!shelfVars)
<1> DEFINE Seen == (\E n \in Names : Shelf!Deliver(n) \/ Shelf!Name(n) \/ Shelf!Withdraw(n))
                   \/ UNCHANGED <<ShelfOf, NamedOf>>
<1>1. ASSUME NEW w \in Writers, WriterStep(w)  PROVE Seen
  <2>1. CASE Rename(w)
    BY <2>1, ShelfRename
  <2>2. CASE Record(w)
    BY <2>2, ShelfRecord
  <2>3. CASE CreateTemp(w) \/ WriteTemp(w) \/ SyncTemp(w) \/ Look(w)
    BY <2>3, ShelfUnseen DEF CreateTemp, WriteTemp, SyncTemp, Look, Quiet
  <2>4. QED  BY <1>1, <2>1, <2>2, <2>3 DEF WriterStep
<1>2. ASSUME NEW w \in Writers, RecordFails(w)  PROVE Seen
  BY <1>2, ShelfRecordFails
<1>3. ASSUME NEW w \in Writers, Crash(w)  PROVE Seen
  <2>1. \A n \in Names : Torn(files[n]) = files[n]
    BY DEF CaptureInv, DeliverablesWhole, Torn, Nothing
  <2>2. files' = files
    BY <1>3, <2>1 DEF Crash, CaptureInv, TypeOK
  <2>3. rows' = rows
    BY <1>3 DEF Crash
  <2>4. QED  BY <2>2, <2>3, ShelfUnseen
<1>4. ASSUME NEW w \in Writers, Save(w) \/ FileError(w)  PROVE Seen
  BY <1>4, ShelfUnseen DEF Save, FileError
<1>5. ASSUME Tick \/ UNCHANGED vars  PROVE Seen
  BY <1>5, ShelfUnseen DEF Tick, vars
<1>6. Seen
  BY <1>1, <1>2, <1>3, <1>4, <1>5 DEF Next
<1>7. QED  BY <1>6 DEF Shelf!ShelfNext, Shelf!shelfVars

\* capture.Save and the record of its result implement the folder of
\* Deliverables: what appears under a free name is whole, stays as it is once a
\* row names it, and goes only when none does.
THEOREM CaptureImplementsDeliverables == Exclusive => (Spec => ImplementsDeliverables)
<1> SUFFICES ASSUME Exclusive  PROVE Spec => ImplementsDeliverables
  OBVIOUS
<1>1. Init => Shelf!ShelfInit
  BY ShelfStart
<1>2. CaptureInv /\ CaptureInv' /\ [Next]_vars => [Shelf!ShelfNext]_(Shelf!shelfVars)
  BY ShelfStep
<1>3. Spec => []CaptureInv
  BY CaptureInvariant
<1>4. QED  BY <1>1, <1>2, <1>3, PTL DEF Spec, ImplementsDeliverables, Shelf!ShelfSpec
-----------------------------------------------------------------------------
(* What is left over *)

\* What the deaths and errors so far may have cost: a file for each, of which a
\* picture takes a death, or two errors: the second is in the rollback after
\* the first.
LeftOver ==
    /\ IsFiniteSet(Orphans)
    /\ Cardinality(Orphans) + litter =< (MaxCrashes - crashes) + (MaxFaults - faults)
    /\ 2 * Cardinality(Orphans) =< 2 * (MaxCrashes - crashes) + (MaxFaults - faults)

LEMMA BudgetTypes ==
    ASSUME CaptureInv, CaptureInv'
    PROVE  /\ MaxCrashes \in Nat /\ MaxFaults \in Nat /\ litter \in Nat /\ litter' \in Nat
           /\ crashes \in Nat /\ crashes' \in Nat /\ faults \in Nat /\ faults' \in Nat
BY CaptureAssumption DEF CaptureInv, TypeOK

\* A step that leaves no picture over.
LEMMA NoneLeftOver ==
    ASSUME CaptureInv, CaptureInv', LeftOver, Orphans' \subseteq Orphans,
           crashes' =< crashes, faults' =< faults,
           litter' - litter =< (crashes - crashes') + (faults - faults')
    PROVE  LeftOver'
<1> DEFINE before == Cardinality(Orphans)
           after  == Cardinality(Orphans)'
<1>1. IsFiniteSet(Orphans') /\ after =< before /\ before \in Nat /\ after \in Nat
  BY FS_Subset, FS_CardinalityType DEF LeftOver
<1>2. /\ before + litter =< (MaxCrashes - crashes) + (MaxFaults - faults)
      /\ 2 * before =< 2 * (MaxCrashes - crashes) + (MaxFaults - faults)
  BY DEF LeftOver
<1> HIDE DEF before, after
<1>3. /\ after + litter' =< (MaxCrashes - crashes') + (MaxFaults - faults')
      /\ 2 * after =< 2 * (MaxCrashes - crashes') + (MaxFaults - faults')
  BY <1>1, <1>2, BudgetTypes
<1>4. QED  BY <1>1, <1>3 DEF LeftOver, after

\* A step that leaves one over, and no temporary file.
LEMMA OneLeftOver ==
    ASSUME CaptureInv, CaptureInv', LeftOver, NEW n, Orphans' \subseteq Orphans \cup {n},
           litter' = litter, crashes' =< crashes, faults' =< faults,
           2 =< 2 * (crashes - crashes') + (faults - faults')
    PROVE  LeftOver'
<1> DEFINE before == Cardinality(Orphans)
           after  == Cardinality(Orphans)'
<1>1. IsFiniteSet(Orphans) /\ before \in Nat
  BY FS_CardinalityType DEF LeftOver
<1>2. IsFiniteSet(Orphans \cup {n}) /\ Cardinality(Orphans \cup {n}) =< before + 1
  BY <1>1, FS_AddElement
<1>3. IsFiniteSet(Orphans') /\ after =< before + 1 /\ after \in Nat
  BY <1>1, <1>2, FS_Subset, FS_CardinalityType
<1>4. /\ before + litter =< (MaxCrashes - crashes) + (MaxFaults - faults)
      /\ 2 * before =< 2 * (MaxCrashes - crashes) + (MaxFaults - faults)
  BY DEF LeftOver
<1> HIDE DEF before, after
<1>5. /\ after + litter' =< (MaxCrashes - crashes') + (MaxFaults - faults')
      /\ 2 * after =< 2 * (MaxCrashes - crashes') + (MaxFaults - faults')
  BY <1>1, <1>3, <1>4, BudgetTypes
<1>6. QED  BY <1>3, <1>5 DEF LeftOver, after

\* A name is an orphan after a step if it was one before: if it is the same
\* file, the rows are no fewer, and who recorded it still does.
LEMMA OrphanBefore ==
    ASSUME NEW n \in Orphans', files'[n] # Nothing => files[n] # Nothing,
           rows \subseteq rows',
           \A w \in Writers : pc[w] = "record" /\ dest[w] = n => pc'[w] = "record" /\ dest'[w] = n
    PROVE  n \in Orphans
BY DEF Orphans

\* A writer that steps, at a call other than recording, is the only one at work.
LEMMA NobodyRecords ==
    ASSUME CaptureInv, NEW w \in Writers, pc[w] \notin {"idle", "record"}
    PROVE  \A v \in Writers : pc[v] # "record"
BY DEF CaptureInv, OneAtATime

\* Saving leaves nothing over but the temporary file that could not be removed
\* on a name that is taken: a picture is put where it is about to be recorded.
LEMMA SavingLeavesNothing ==
    ASSUME CaptureInv, CaptureInv', LeftOver, Exclusive, NEW w \in Writers,
           Save(w) \/ CreateTemp(w) \/ WriteTemp(w) \/ SyncTemp(w) \/ Look(w)
    PROVE  LeftOver'
<1>1. UNCHANGED <<files, rows, crashes>>
  BY DEF Save, CreateTemp, WriteTemp, SyncTemp, Look, Quiet, Kept
<1>2. \A v \in Writers : pc[v] # "record"
  <2>1. CASE Save(w)
    BY <2>1 DEF Save
  <2>2. CASE ~Save(w)
    <3>1. pc[w] \in {"temp", "write", "sync", "look"}
      BY <2>2 DEF CreateTemp, WriteTemp, SyncTemp, Look, Goes
    <3>2. QED  BY <3>1, NobodyRecords
  <2>3. QED  BY <2>1, <2>2
<1>3. Orphans' \subseteq Orphans
  BY <1>1, <1>2, OrphanBefore
<1>4. \/ UNCHANGED <<litter, faults>>
      \/ faults' = faults - 1 /\ litter' = litter + 1
  BY DEF Save, CreateTemp, WriteTemp, SyncTemp, Look, Quiet, Kept
<1>5. QED  BY <1>1, <1>3, <1>4, BudgetTypes, NoneLeftOver

LEMMA RenameLeavesNothing ==
    ASSUME CaptureInv, CaptureInv', LeftOver, NEW w \in Writers, Rename(w)
    PROVE  LeftOver'
<1>1. /\ UNCHANGED <<dest, rows, litter, crashes, faults>> /\ dest[w] \in Names
      /\ pc[w] = "rename" /\ pc'[w] = "record"
  BY DEF Rename, Goes, Kept, CaptureInv, TypeOK
<1>2. \A n \in Names \ {dest[w]} : files'[n] = files[n]
  BY DEF Rename, CaptureInv, TypeOK
<1>3. ASSUME NEW n \in Orphans'  PROVE n \in Orphans
  <2>1. n \in Names /\ n # dest[w]
    BY <1>1 DEF Orphans
  <2>2. QED  BY <1>1, <1>2, <2>1, NobodyRecords, OrphanBefore
<1>4. QED  BY <1>1, <1>3, BudgetTypes, NoneLeftOver

\* A picture that was recorded is a row's, unless it is a diagnostic.
LEMMA RecordLeavesNothing ==
    ASSUME CaptureInv, CaptureInv', LeftOver, NEW w \in Writers, Record(w)
    PROVE  LeftOver'
<1>1. /\ UNCHANGED <<files, dest, litter, crashes, faults>> /\ pc[w] = "record"
      /\ \A v \in Writers \ {w} : pc'[v] = pc[v]
      /\ rows \subseteq rows'
  BY DEF Record, Goes, Kept, CaptureInv, TypeOK
<1>2. Delivered(w) => \E r \in rows' : r.name = dest[w]
  <2> DEFINE r == [name |-> dest[w], image |-> picture[w]]
  <2>1. Delivered(w) => r \in rows'
    BY DEF Record
  <2>2. QED  BY <2>1
<1>3. ASSUME NEW n \in Orphans'  PROVE n \in Orphans
  <2>1. n # dest[w]
    BY <1>1, <1>2 DEF Orphans, Delivered
  <2>2. QED  BY <1>1, <2>1, OrphanBefore
<1>4. QED  BY <1>1, <1>3, BudgetTypes, NoneLeftOver

\* A picture that could not be recorded is removed, or a second error leaves it.
LEMMA RecordFailsLeaves ==
    ASSUME CaptureInv, CaptureInv', LeftOver, NEW w \in Writers, RecordFails(w)
    PROVE  LeftOver'
<1>1. /\ UNCHANGED <<dest, rows, litter, crashes>> /\ pc[w] = "record" /\ dest[w] \in Names
      /\ \A v \in Writers \ {w} : pc'[v] = pc[v]
  BY DEF RecordFails, Goes, CaptureInv, TypeOK
<1>2. \A n \in Names : files'[n] # Nothing => files[n] # Nothing
  BY DEF RecordFails, CaptureInv, TypeOK
<1>3. ASSUME NEW n \in Orphans', n # dest[w]  PROVE n \in Orphans
  <2>1. n \in Names
    BY DEF Orphans
  <2>2. QED  BY <1>1, <1>2, <1>3, <2>1, OrphanBefore
<1>4. CASE faults' = faults - 1
           /\ files' = IF Delivered(w) THEN [files EXCEPT ![dest[w]] = Nothing] ELSE files
  <2>1. dest[w] \notin Orphans'
    BY <1>1, <1>4 DEF Orphans, Delivered, CaptureInv, TypeOK
  <2>2. QED  BY <1>1, <1>3, <1>4, <2>1, BudgetTypes, NoneLeftOver
<1>5. CASE faults' = faults - 2
  <2>1. Orphans' \subseteq Orphans \cup {dest[w]}
    BY <1>3
  <2>2. QED  BY <1>1, <1>5, <2>1, BudgetTypes, OneLeftOver
<1>6. QED  BY <1>4, <1>5 DEF RecordFails

\* A temporary file stays only where removing it fails as well.
LEMMA FileErrorLeaves ==
    ASSUME CaptureInv, CaptureInv', LeftOver, NEW w \in Writers, FileError(w)
    PROVE  LeftOver'
<1>1. UNCHANGED <<files, dest, rows, crashes>> /\ pc[w] \notin {"idle", "record"}
  BY DEF FileError
<1>2. Orphans' \subseteq Orphans
  BY <1>1, NobodyRecords, OrphanBefore
<1>3. \/ faults' = faults - 1 /\ litter' = litter
      \/ faults' = faults - 2 /\ litter' = litter + 1
  BY DEF FileError
<1>4. /\ crashes' =< crashes /\ faults' =< faults
      /\ litter' - litter =< (crashes - crashes') + (faults - faults')
  BY <1>1, <1>3, BudgetTypes
<1>5. QED  BY <1>2, <1>4, NoneLeftOver

\* Who dies leaves the one file it was at: a temporary one, or a picture that
\* is not recorded.  A loss of power tears nothing, and finds one at work.
LEMMA CrashLeaves ==
    ASSUME CaptureInv, CaptureInv', LeftOver, NEW w \in Writers, Crash(w)
    PROVE  LeftOver'
<1>1. UNCHANGED <<dest, rows, faults>> /\ crashes' = crashes - 1 /\ pc[w] # "idle"
  BY DEF Crash
<1>2. \A v \in Writers : v # w => pc[v] = "idle" /\ temps[v] = Nothing
  BY <1>1 DEF CaptureInv, OneAtATime, TempsHeld, Saving
<1>3. \A n \in Names : files'[n] # Nothing => files[n] # Nothing
  BY DEF Crash, Torn, Nothing, CaptureInv, DeliverablesWhole
<1>4. ASSUME NEW n \in Orphans', pc[w] # "record" \/ n # dest[w]  PROVE n \in Orphans
  <2>1. n \in Names
    BY DEF Orphans
  <2>2. QED  BY <1>1, <1>2, <1>3, <1>4, <2>1, OrphanBefore
<1>5. litter' = litter + (IF temps[w] # Nothing THEN 1 ELSE 0)
  <2> DEFINE held == {v \in Writers : temps[v] # Nothing}
  <2>1. held = IF temps[w] # Nothing THEN {w} ELSE {}
    BY <1>2
  <2>2. Cardinality(held) = IF temps[w] # Nothing THEN 1 ELSE 0
    BY <2>1, FS_Singleton, FS_EmptySet
  <2>3. QED  BY <2>2 DEF Crash
<1>6. CASE pc[w] = "record"
  <2>1. temps[w] = Nothing
    BY <1>6 DEF CaptureInv, TempsHeld, Saving
  <2>2. Orphans' \subseteq Orphans \cup {dest[w]} /\ litter' = litter
    BY <1>4, <1>5, <2>1, BudgetTypes
  <2>3. QED  BY <1>1, <2>2, BudgetTypes, OneLeftOver
<1>7. CASE pc[w] # "record"
  <2>1. Orphans' \subseteq Orphans
    BY <1>4, <1>7
  <2>2. /\ crashes' =< crashes /\ faults' =< faults
        /\ litter' - litter =< (crashes - crashes') + (faults - faults')
    BY <1>1, <1>5, BudgetTypes
  <2>3. QED  BY <2>1, <2>2, NoneLeftOver
<1>8. QED  BY <1>6, <1>7

LEMMA LeftOverStep ==
    ASSUME CaptureInv, CaptureInv', Exclusive, LeftOver, [Next]_vars
    PROVE  LeftOver'
<1>1. CASE Tick \/ UNCHANGED vars
  <2>1. Orphans' = Orphans /\ UNCHANGED <<litter, crashes, faults>>
    BY <1>1 DEF Tick, vars, Orphans
  <2>2. QED  BY <2>1 DEF LeftOver
<1>2. ASSUME NEW w \in Writers, Save(w) \/ WriterStep(w) \/ RecordFails(w) \/ FileError(w) \/ Crash(w)
      PROVE  LeftOver'
  BY <1>2, SavingLeavesNothing, RenameLeavesNothing, RecordLeavesNothing, RecordFailsLeaves,
     FileErrorLeaves, CrashLeaves DEF WriterStep
<1>3. QED  BY <1>1, <1>2 DEF Next

\* What is left over for nobody is paid for by a death or an error each, and a
\* picture among the deliverables that no row names by a death or by an error
\* in the rollback after another: nothing that goes well leaves any, and no
\* single error leaves a picture.
THEOREM LeftoversAlwaysAccounted == Exclusive => (Spec => []LeftoversAccounted)
<1> SUFFICES ASSUME Exclusive  PROVE Spec => []LeftoversAccounted
  OBVIOUS
<1>1. Init => LeftOver
  <2> SUFFICES ASSUME Init  PROVE LeftOver
    OBVIOUS
  <2>1. Orphans = {} /\ crashes = MaxCrashes /\ faults = MaxFaults /\ litter = 0
    BY DEF Init, Orphans
  <2>2. QED  BY <2>1, FS_EmptySet, CaptureAssumption DEF LeftOver
<1>2. CaptureInv /\ LeftOver => LeftoversAccounted
  <2> SUFFICES ASSUME CaptureInv, LeftOver  PROVE LeftoversAccounted
    OBVIOUS
  <2> DEFINE left == Cardinality(Orphans)
             dead == MaxCrashes - crashes
             failed == MaxFaults - faults
  <2>1. /\ left \in Nat /\ dead \in Nat /\ failed \in Nat
        /\ left + litter =< dead + failed /\ 2 * left =< 2 * dead + failed
    BY FS_CardinalityType, CaptureAssumption DEF LeftOver, CaptureInv, TypeOK
  <2>2. LeftoversAccounted <=> left + litter =< dead + failed /\ left =< dead + (failed \div 2)
    BY DEF LeftoversAccounted
  <2> HIDE DEF left, dead, failed
  <2>3. left =< dead + (failed \div 2)
    BY <2>1
  <2>4. QED  BY <2>1, <2>2, <2>3
<1>3. CaptureInv /\ CaptureInv' /\ LeftOver /\ [Next]_vars => LeftOver'
  BY LeftOverStep
<1>4. QED  BY <1>1, <1>2, <1>3, CaptureInvariant, PTL DEF Spec
=============================================================================
