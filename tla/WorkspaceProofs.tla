-------------------------- MODULE WorkspaceProofs ---------------------------
(***************************************************************************)
(* What the commands that create projects keep apart, for every number of  *)
(* them, of names, of slugs and of archives; what of it is lost, and where *)
(* alone, when a project is archived while it is still being created; and  *)
(* what deaths and errors leave half made.                                 *)
(***************************************************************************)
EXTENDS Workspace, FunctionTheorems, FiniteSetTheorems, TLAPS

Busy(c)   == pc[c] # "idle"
Making(c) == pc[c] \notin {"idle", "claim"}

\* Each command that runs has an ID of its own, drawn and not yet reported.
OwnId(c) == Busy(c) =>
    /\ id[c] \in used /\ \A s : <<id[c], s>> \notin created
    /\ nameOf[id[c]] \in ProjectNames
    /\ \A d \in Creators : Busy(d) /\ id[d] = id[c] => c = d

\* What is in the directory of a command that made it, unless an archive took
\* one away there.
OwnDir(c) == Making(c) /\ Slug(c) \notin early =>
    /\ dirs[Slug(c)].claimed = id[c]
    /\ pc[c] \in {"meta", "copy", "open", "seed"} => dirs[Slug(c)].seeded = {}
    /\ pc[c] \in {"copy", "open", "seed", "close"} => dirs[Slug(c)].meta = id[c]
    /\ pc[c] \in {"open", "seed", "close"} => dirs[Slug(c)].input = id[c]
    /\ pc[c] = "seed" => opened[c] = id[c]
    /\ pc[c] = "close" => dirs[Slug(c)].seeded = {id[c]}

\* Who claimed a directory drew an ID, and so did whoever wrote its metadata.
DirKnown(s) == dirs[s].claimed \in used \cup {NoId} /\ dirs[s].meta \in used \cup {NoId}

\* A directory is of one creation, unless an archive took one away there.
DirOK(s) ==
    /\ DirKnown(s)
    /\ s \notin early => /\ dirs[s].meta \in {NoId, dirs[s].claimed}
                         /\ dirs[s].input \in {NoId, dirs[s].claimed}
                         /\ dirs[s].seeded \subseteq {dirs[s].claimed}

\* The inductive invariant.
WorkspaceInv ==
    /\ TypeOK
    /\ CreatedStays
    /\ \A s \in Slugs : DirOK(s)
    /\ \A c \in Creators : OwnId(c) /\ OwnDir(c)
-----------------------------------------------------------------------------
(* One command at a time *)

LEMMA NumbersFinite ==
    /\ Cardinality(Ids) \in Nat \ {0} /\ 1 \in Numbers /\ IsFiniteSet(Numbers)
<1>1. Cardinality(Ids) \in Nat /\ Cardinality(Ids) # 0
  BY WorkspaceAssumption, FS_CardinalityType, FS_EmptySet
<1>2. QED  BY <1>1, FS_Interval DEF Numbers

LEMMA SlugIsSlug ==
    ASSUME WorkspaceInv, NEW c \in Creators, Busy(c)
    PROVE  Slug(c) \in Slugs
<1>1. nameOf[id[c]] \in ProjectNames /\ suffix[c] \in Numbers
  BY DEF WorkspaceInv, TypeOK, OwnId
<1>2. QED  BY <1>1 DEF Slug, Slugs

\* A step of c: the others stay, and c changes no directory but its own, or the
\* one whose free name it takes.
StepOf(c) ==
    /\ \A d \in Creators \ {c} : /\ pc'[d] = pc[d] /\ id'[d] = id[d]
                                 /\ suffix'[d] = suffix[d] /\ opened'[d] = opened[d]
    /\ \A i \in used : nameOf'[i] = nameOf[i]
    /\ \A s \in Slugs : dirs'[s] # dirs[s] =>
          Busy(c) /\ s = Slug(c) /\ (Making(c) \/ dirs[s] = NoDir)
    /\ used \subseteq used'
    /\ \A p \in created' : p \in created \/ (Busy(c) /\ p = <<id[c], Slug(c)>>)
    /\ created \subseteq created' /\ early' = early
    /\ Busy(c)' => \/ Busy(c) /\ id'[c] = id[c]
                   \/ id'[c] \in used' \ used

LEMMA OthersKept ==
    ASSUME WorkspaceInv, NEW c \in Creators, StepOf(c), NEW d \in Creators, d # c
    PROVE  OwnId(d)' /\ OwnDir(d)'
<1>1. pc'[d] = pc[d] /\ id'[d] = id[d] /\ suffix'[d] = suffix[d] /\ opened'[d] = opened[d]
  BY DEF StepOf
<1>2. OwnId(d) /\ OwnDir(d)
  BY DEF WorkspaceInv
<1>3. CASE ~Busy(d)
  BY <1>1, <1>3 DEF OwnId, OwnDir, Busy, Making
<1>4. CASE Busy(d)
  <2>1. /\ id[d] \in used /\ \A s : << id[d], s >> \notin created
        /\ nameOf'[id[d]] = nameOf[id[d]] /\ nameOf[id[d]] \in ProjectNames
    BY <1>2, <1>4 DEF OwnId, StepOf
  <2>2. Slug(d)' = Slug(d)
    BY <1>1, <2>1 DEF Slug
  <2>3. Busy(c) => id[c] # id[d]
    BY <1>2, <1>4 DEF OwnId
  <2>4. id'[d] \in used' /\ \A s : << id'[d], s >> \notin created'
    BY <1>1, <2>1, <2>3 DEF StepOf
  <2>5. ASSUME NEW e \in Creators, Busy(e)', id'[e] = id'[d]  PROVE d = e
    <3>1. CASE e = c
      <4>1. (Busy(c) /\ id'[c] = id[c]) \/ id'[c] \notin used
        BY <2>5, <3>1 DEF StepOf
      <4>2. QED  BY <1>1, <2>1, <2>3, <2>5, <3>1, <4>1
    <3>2. CASE e # c
      <4>1. pc'[e] = pc[e] /\ id'[e] = id[e]
        BY <3>2 DEF StepOf
      <4>2. QED  BY <1>1, <1>2, <1>4, <2>5, <4>1 DEF OwnId, Busy
    <3>3. QED  BY <3>1, <3>2
  <2>6. OwnId(d)'
    BY <1>1, <2>1, <2>4, <2>5 DEF OwnId
  <2>7. ASSUME Making(d), Slug(d) \notin early  PROVE dirs'[Slug(d)] = dirs[Slug(d)]
    <3>1. SUFFICES ASSUME dirs'[Slug(d)] # dirs[Slug(d)]  PROVE FALSE
      OBVIOUS
    <3>2. Slug(d) \in Slugs /\ dirs[Slug(d)].claimed = id[d] /\ id[d] # NoId
      BY <1>2, <1>4, <2>1, <2>7, SlugIsSlug, WorkspaceAssumption DEF OwnDir, WorkspaceInv, TypeOK
    <3>3. Busy(c) /\ Slug(d) = Slug(c) /\ (Making(c) \/ dirs[Slug(d)] = NoDir)
      BY <3>1, <3>2 DEF StepOf
    <3>4. Making(c) => dirs[Slug(c)].claimed = id[c]
      BY <2>7, <3>3 DEF WorkspaceInv, OwnDir
    <3>5. QED  BY <2>3, <3>2, <3>3, <3>4 DEF NoDir
  <2>8. Making(d)' = Making(d)
    BY <1>1 DEF Making
  <2>9. OwnDir(d)'
    BY <1>1, <1>2, <2>2, <2>7, <2>8 DEF OwnDir, StepOf
  <2>10. QED  BY <2>6, <2>9
<1>5. QED  BY <1>3, <1>4

\* A step of c leaves every other directory as it was.
LEMMA DirsKept ==
    ASSUME WorkspaceInv, NEW c \in Creators, StepOf(c),
           NEW t, Busy(c) => t = Slug(c) /\ DirOK(t)'
    PROVE  \A s \in Slugs : DirOK(s)'
<1> SUFFICES ASSUME NEW s \in Slugs, dirs'[s] = dirs[s]  PROVE DirOK(s)'
  BY DEF StepOf
<1>1. DirOK(s) /\ used \subseteq used' /\ early' = early
  BY DEF WorkspaceInv, StepOf
<1>2. QED  BY <1>1 DEF DirOK, DirKnown

\* A project that was reported belongs to no command that runs.
LEMMA CreatedKept ==
    ASSUME WorkspaceInv, NEW c \in Creators, StepOf(c), created' = created
    PROVE  CreatedStays'
<1> SUFFICES ASSUME NEW p \in created, p[2] \notin early
             PROVE  Whole(p[2], p[1])'
  BY DEF CreatedStays, StepOf
<1> DEFINE i == p[1]
           s == p[2]
<1>1. Whole(s, i) /\ s \in Slugs /\ i \in Ids /\ p = << i, s >>
  BY DEF WorkspaceInv, CreatedStays, TypeOK
<1>2. dirs[s].claimed = i /\ i # NoId
  BY <1>1, WorkspaceAssumption DEF Whole
<1> HIDE DEF i, s
<1>3. dirs'[s] = dirs[s]
  <2> SUFFICES ASSUME dirs'[s] # dirs[s]  PROVE FALSE
    OBVIOUS
  <2>1. Busy(c) /\ s = Slug(c) /\ (Making(c) \/ dirs[s] = NoDir)
    BY <1>1 DEF StepOf
  <2>2. s \notin early
    BY DEF s
  <2>3. Making(c) => dirs[s].claimed = id[c] /\ << id[c], s >> \notin created
    BY <2>1, <2>2 DEF WorkspaceInv, OwnDir, OwnId
  <2>4. QED  BY <1>1, <1>2, <2>1, <2>3 DEF NoDir
<1>4. QED  BY <1>1, <1>3 DEF Whole, i, s

\* What is left to show of a step of c.
LEMMA StepKeeps ==
    ASSUME WorkspaceInv, NEW c \in Creators, StepOf(c), TypeOK', CreatedStays',
           NEW t, Busy(c) => t = Slug(c) /\ DirOK(t)', OwnId(c)', OwnDir(c)'
    PROVE  WorkspaceInv'
BY OthersKept, DirsKept DEF WorkspaceInv

\* A command that goes on with its own ID keeps it for itself.
LEMMA GoesOn ==
    ASSUME WorkspaceInv, NEW c \in Creators, Busy(c), id' = id, used' = used,
           created' = created, nameOf' = nameOf, \A d \in Creators : Busy(d)' => Busy(d)
    PROVE  OwnId(c)'
BY DEF WorkspaceInv, OwnId

\* A command that exits has nothing any more.
LEMMA GoneOwnsNothing ==
    ASSUME TypeOK, NEW c \in Creators, Exits(c)
    PROVE  OwnId(c)' /\ OwnDir(c)' /\ ~Busy(c)'
BY DEF TypeOK, Exits, OwnId, OwnDir, Busy, Making
-----------------------------------------------------------------------------
(* The invariant is inductive *)

LEMMA WorkspaceInit ==
    ASSUME Init
    PROVE  WorkspaceInv
<1>1. TypeOK
  BY NumbersFinite, WorkspaceAssumption DEF Init, TypeOK, NoDir, Dir, CreatorPC
<1>2. QED
  BY <1>1 DEF Init, WorkspaceInv, CreatedStays, DirOK, DirKnown, NoDir,
                 OwnId, OwnDir, Busy, Making

LEMMA NewStep ==
    ASSUME WorkspaceInv, NEW c \in Creators, New(c)
    PROVE  WorkspaceInv'
<1>0. used # Ids /\ used \subseteq Ids
  BY DEF New, WorkspaceInv, TypeOK
<1>1. PICK i \in Ids \ used, name \in ProjectNames :
        /\ Goes(c, "idle", "claim")
        /\ id' = [id EXCEPT ![c] = i]
        /\ nameOf' = [nameOf EXCEPT ![i] = name]
        /\ used' = used \cup {i}
        /\ UNCHANGED <<dirs, suffix, opened, created, early, crashes, faults>>
  <2>1. Drawn \in Ids \ used
    BY <1>0 DEF Drawn
  <2>2. QED  BY <2>1 DEF New
<1>2. TypeOK'
  BY <1>1 DEF WorkspaceInv, TypeOK, Goes, CreatorPC
<1>3. ~Busy(c) /\ pc'[c] = "claim" /\ id'[c] = i /\ nameOf'[i] = name
  BY <1>1 DEF WorkspaceInv, TypeOK, Goes, Busy
<1>4. StepOf(c)
  BY <1>1, <1>3 DEF WorkspaceInv, TypeOK, Goes, StepOf
<1>5. OwnId(c)'
  <2>1. \A s : << i, s >> \notin created'
    BY <1>1 DEF WorkspaceInv, TypeOK
  <2>2. \A d \in Creators \ {c} : Busy(d)' => id'[d] # i
    BY <1>1, <1>4 DEF WorkspaceInv, OwnId, StepOf, Busy
  <2>3. QED  BY <1>1, <1>3, <2>1, <2>2 DEF OwnId
<1>6. OwnDir(c)'
  BY <1>3 DEF OwnDir, Making
<1>7. QED  BY <1>1, <1>2, <1>3, <1>4, <1>5, <1>6, CreatedKept, StepKeeps

\* A step of c that changes its own directory and nothing of the others.
LEMMA MakingStep ==
    ASSUME WorkspaceInv, NEW c \in Creators, Busy(c),
           NEW t, t = Slug(c), NEW dir \in Dir,
           Making(c) \/ dirs[t] = NoDir,
           NEW to \in CreatorPC \ {"idle", "claim"}, pc' = [pc EXCEPT ![c] = to],
           dirs' = [dirs EXCEPT ![t] = dir],
           UNCHANGED <<id, suffix, nameOf, used, created, early>>,
           opened' \in [Creators -> Ids \cup {NoId}],
           \A d \in Creators \ {c} : opened'[d] = opened[d],
           UNCHANGED crashes, faults' \in 0 .. MaxFaults,
           dir.claimed = id[c],
           dir.meta \in {NoId, id[c]}, dir.input \in {NoId, id[c]}, dir.seeded \subseteq {id[c]},
           to \in {"meta", "copy", "open", "seed"} => dir.seeded = {},
           to \in {"copy", "open", "seed", "close"} => dir.meta = id[c],
           to \in {"open", "seed", "close"} => dir.input = id[c],
           to = "seed" => opened'[c] = id[c],
           to = "close" => dir.seeded = {id[c]}
    PROVE  WorkspaceInv'
<1>1. t \in Slugs /\ id[c] \in used /\ id[c] # NoId
  BY SlugIsSlug, WorkspaceAssumption DEF WorkspaceInv, OwnId, TypeOK
<1>2. TypeOK'
  BY <1>1 DEF WorkspaceInv, TypeOK
<1>3. dirs'[t] = dir /\ \A s \in Slugs \ {t} : dirs'[s] = dirs[s]
  BY <1>1 DEF WorkspaceInv, TypeOK
<1>4. pc'[c] = to /\ \A d \in Creators \ {c} : pc'[d] = pc[d]
  BY DEF WorkspaceInv, TypeOK
<1>5. StepOf(c)
  BY <1>3, <1>4 DEF StepOf, Busy
<1>6. DirOK(t)'
  BY <1>1, <1>3 DEF DirOK, DirKnown
<1>7. Slug(c)' = t
  BY DEF Slug
<1>8. OwnDir(c)'
  BY <1>3, <1>4, <1>7 DEF OwnDir
<1>9. \A d \in Creators : Busy(d)' => Busy(d)
  BY <1>4 DEF Busy
<1>10. OwnId(c)'
  BY <1>9, GoesOn
<1>11. QED  BY <1>2, <1>5, <1>6, <1>8, <1>10, CreatedKept, StepKeeps

\* The same where an archive took a directory away: whatever c does there.
LEMMA AstrayStep ==
    ASSUME WorkspaceInv, NEW c \in Creators, Making(c),
           NEW t, t = Slug(c), t \in early, NEW dir \in Dir,
           NEW to \in CreatorPC \ {"idle"}, pc' = [pc EXCEPT ![c] = to],
           dirs' = [dirs EXCEPT ![t] = dir],
           UNCHANGED <<id, suffix, nameOf, used, created, early>>,
           opened' \in [Creators -> Ids \cup {NoId}],
           \A d \in Creators \ {c} : opened'[d] = opened[d],
           UNCHANGED crashes, faults' \in 0 .. MaxFaults,
           dir.claimed \in used \cup {NoId}, dir.meta \in used \cup {NoId}
    PROVE  WorkspaceInv'
<1>0. Busy(c)
  BY DEF Making, Busy
<1>1. t \in Slugs /\ id[c] \in used
  BY <1>0, SlugIsSlug DEF WorkspaceInv, OwnId, TypeOK
<1>2. TypeOK'
  BY <1>1 DEF WorkspaceInv, TypeOK
<1>3. dirs'[t] = dir /\ \A s \in Slugs \ {t} : dirs'[s] = dirs[s]
  BY <1>1 DEF WorkspaceInv, TypeOK
<1>4. pc'[c] = to /\ \A d \in Creators \ {c} : pc'[d] = pc[d]
  BY DEF WorkspaceInv, TypeOK
<1>5. StepOf(c)
  BY <1>0, <1>3, <1>4 DEF StepOf, Busy
<1>6. DirOK(t)'
  BY <1>3 DEF DirOK, DirKnown
<1>7. OwnDir(c)'
  BY DEF OwnDir, Slug
<1>8. \A d \in Creators : Busy(d)' => Busy(d)
  BY <1>0, <1>4 DEF Busy
<1>9. OwnId(c)'
  BY <1>0, <1>8, GoesOn
<1>10. QED  BY <1>2, <1>5, <1>6, <1>7, <1>9, CreatedKept, StepKeeps

\* A step that leaves the directories alone, after which c runs no more.
LEMMA ExitStep ==
    ASSUME WorkspaceInv, NEW c \in Creators, Busy(c), Exits(c),
           NEW t, t = Slug(c), dirs' = dirs \/ (Making(c) /\ dirs' = [dirs EXCEPT ![t] = NoDir]),
           UNCHANGED <<nameOf, used, created, early>>,
           crashes' \in 0 .. MaxCrashes, faults' \in 0 .. MaxFaults
    PROVE  WorkspaceInv'
<1>1. t \in Slugs /\ NoDir \in Dir
  BY SlugIsSlug DEF NoDir, Dir
<1>2. TypeOK'
  BY <1>1, NumbersFinite DEF WorkspaceInv, TypeOK, Exits, CreatorPC
<1>3. \A s \in Slugs : dirs'[s] = dirs[s] \/ (s = t /\ dirs'[s] = NoDir /\ Making(c))
  BY <1>1 DEF WorkspaceInv, TypeOK
<1>4. OwnId(c)' /\ OwnDir(c)' /\ ~Busy(c)'
  BY GoneOwnsNothing DEF WorkspaceInv
<1>5. StepOf(c)
  BY <1>3, <1>4 DEF StepOf, Exits, WorkspaceInv, TypeOK
<1>6. DirOK(t)'
  <2>1. CASE dirs'[t] = dirs[t]
    BY <1>1, <2>1 DEF WorkspaceInv, DirOK, DirKnown
  <2>2. CASE dirs'[t] = NoDir
    BY <2>2 DEF DirOK, DirKnown, NoDir
  <2>3. QED  BY <1>1, <1>3, <2>1, <2>2
<1>7. QED  BY <1>2, <1>4, <1>5, <1>6, CreatedKept, StepKeeps

\* The directory of a command that made it, before the command goes on.
LEMMA OwnNow ==
    ASSUME WorkspaceInv, NEW c \in Creators, Making(c)
    PROVE  /\ Busy(c) /\ Slug(c) \in Slugs /\ dirs[Slug(c)] \in Dir
           /\ id[c] \in Ids /\ id[c] \in used /\ id[c] # NoId
           /\ Slug(c) \notin early => There(c) /\ dirs[Slug(c)].claimed = id[c]
           /\ OwnDir(c) /\ DirOK(Slug(c))
<1>1. Busy(c)
  BY DEF Making, Busy
<1>2. Slug(c) \in Slugs /\ OwnDir(c) /\ id[c] \in Ids /\ id[c] \in used /\ id[c] # NoId
  BY <1>1, SlugIsSlug, WorkspaceAssumption DEF WorkspaceInv, OwnId, TypeOK
<1>3. Slug(c) \notin early => There(c) /\ dirs[Slug(c)].claimed = id[c]
  BY <1>2 DEF OwnDir, There, NoDir
<1>4. QED  BY <1>1, <1>2, <1>3 DEF WorkspaceInv, TypeOK

LEMMA ClaimStep ==
    ASSUME WorkspaceInv, NEW c \in Creators, Claim(c)
    PROVE  WorkspaceInv'
<1>0. PICK t : t = Slug(c)
  OBVIOUS
<1>1. pc[c] = "claim" /\ Busy(c) /\ t \in Slugs /\ id[c] \in Ids
  <2>1. pc[c] = "claim"
    BY DEF Claim, Goes
  <2>2. QED  BY <1>0, <2>1, SlugIsSlug DEF Busy, WorkspaceInv, OwnId, TypeOK
<1>2. CASE Goes(c, "claim", "meta") /\ ~There(c)
           /\ dirs' = [dirs EXCEPT ![t].claimed = id[c]] /\ Alone
  <2> DEFINE dir == [claimed |-> id[c], meta |-> NoId, input |-> NoId, seeded |-> {}]
  <2>1. /\ dirs[t] = NoDir /\ dir = [NoDir EXCEPT !.claimed = id[c]] /\ dir \in Dir
        /\ dir.claimed = id[c] /\ dir.meta = NoId /\ dir.input = NoId /\ dir.seeded = {}
    BY <1>0, <1>1, <1>2 DEF There, NoDir, Dir
  <2>2. dirs' = [dirs EXCEPT ![t] = dir]
    BY <1>2, <2>1
  <2>3. /\ UNCHANGED <<id, suffix, nameOf, used, created, early>> /\ opened' = opened
        /\ crashes' = crashes /\ faults' \in 0 .. MaxFaults
        /\ pc' = [pc EXCEPT ![c] = "meta"] /\ opened' \in [Creators -> Ids \cup {NoId}]
    BY <1>2 DEF Goes, Alone, Outside, WorkspaceInv, TypeOK
  <2>4. QED
    BY <1>0, <1>1, <2>1, <2>2, <2>3, MakingStep, Zenon DEF CreatorPC
<1>3. CASE Goes(c, "claim", "claim") /\ There(c) /\ suffix[c] < Cardinality(Ids)
           /\ suffix' = [suffix EXCEPT ![c] = @ + 1]
           /\ UNCHANGED <<dirs, id, opened>> /\ Outside
  <2>1. pc' = pc
    BY <1>1, <1>3 DEF Goes, WorkspaceInv, TypeOK
  <2>2. suffix[c] + 1 \in Numbers
    BY <1>3, NumbersFinite DEF WorkspaceInv, TypeOK, Numbers
  <2>3. TypeOK'
    BY <1>3, <2>1, <2>2 DEF WorkspaceInv, TypeOK, Outside
  <2>4. StepOf(c)
    BY <1>0, <1>1, <1>3, <2>1 DEF StepOf, WorkspaceInv, TypeOK, Outside, Busy
  <2>5. OwnDir(c)' /\ \A d \in Creators : Busy(d)' => Busy(d)
    BY <1>1, <2>1 DEF OwnDir, Making, Busy
  <2>6. OwnId(c)'
    BY <1>1, <1>3, <2>5, GoesOn DEF Outside
  <2>7. DirOK(t)'
    BY <1>1, <1>3 DEF WorkspaceInv, DirOK, DirKnown, Outside
  <2>8. QED  BY <1>0, <1>3, <2>3, <2>4, <2>5, <2>6, <2>7, CreatedKept, StepKeeps DEF Outside
<1>4. QED  BY <1>0, <1>2, <1>3 DEF Claim

\* project.meta, the copy of the input, the database and the tasks.
LEMMA FillStep ==
    ASSUME WorkspaceInv, NEW c \in Creators, Slug(c) \notin early,
           WriteMeta(c) \/ CopyInput(c) \/ OpenProject(c) \/ Seed(c)
    PROVE  WorkspaceInv'
<1> DEFINE t == Slug(c)
<1>1. Making(c) /\ pc[c] \in {"meta", "copy", "open", "seed"}
  BY DEF WriteMeta, CopyInput, OpenProject, Seed, Goes, Making
<1>2. /\ Busy(c) /\ t \in Slugs /\ dirs[t] \in Dir /\ id[c] \in Ids /\ id[c] # NoId /\ There(c)
      /\ OwnDir(c) /\ DirOK(t) /\ t \notin early
  BY <1>1, OwnNow
<1>3. /\ dirs[t].claimed = id[c] /\ dirs[t].seeded = {}
      /\ pc[c] \in {"copy", "open", "seed"} => dirs[t].meta = id[c]
      /\ pc[c] \in {"open", "seed"} => dirs[t].input = id[c]
      /\ pc[c] = "seed" => opened[c] = id[c]
      /\ dirs[t].meta \in {NoId, id[c]} /\ dirs[t].input \in {NoId, id[c]}
  BY <1>1, <1>2 DEF OwnDir, DirOK
<1>4. crashes' = crashes /\ faults' = faults /\ faults \in 0 .. MaxFaults
      /\ UNCHANGED <<id, suffix, nameOf, used, created, early>>
  BY DEF WriteMeta, CopyInput, OpenProject, Seed, Alone, Outside, WorkspaceInv, TypeOK
<1>5. CASE WriteMeta(c)
  <2> DEFINE dir == [dirs[t] EXCEPT !.meta = id[c]]
  <2>1. dirs' = [dirs EXCEPT ![t] = dir] /\ pc[c] = "meta"
        /\ pc' = [pc EXCEPT ![c] = "copy"] /\ opened' = opened
    <3>1. dirs' = [dirs EXCEPT ![t].meta = id[c], ![t].claimed = dirs[t].claimed]
      BY <1>2, <1>5 DEF WriteMeta, WorkspaceInv, TypeOK
    <3>2. dirs' = [dirs EXCEPT ![t] = [dirs[t] EXCEPT !.meta = id[c], !.claimed = dirs[t].claimed]]
      BY <1>2, <3>1 DEF WorkspaceInv, TypeOK
    <3>3. [dirs[t] EXCEPT !.meta = id[c], !.claimed = dirs[t].claimed] = dir
      BY <1>2 DEF Dir
    <3>4. QED  BY <1>5, <3>2, <3>3 DEF WriteMeta, Goes, Alone
  <2>2. dir \in Dir /\ dir.claimed = id[c] /\ dir.meta = id[c] /\ dir.seeded = {}
        /\ dir.input \in {NoId, id[c]}
    BY <1>2, <1>3 DEF Dir
  <2>3. QED
    BY <1>1, <1>2, <1>4, <2>1, <2>2, MakingStep, Zenon DEF CreatorPC, WorkspaceInv, TypeOK
<1>6. CASE CopyInput(c)
  <2> DEFINE dir == [dirs[t] EXCEPT !.input = id[c]]
  <2>1. dirs' = [dirs EXCEPT ![t] = dir] /\ pc[c] = "copy"
        /\ pc' = [pc EXCEPT ![c] = "open"] /\ opened' = opened
    BY <1>2, <1>6 DEF CopyInput, Goes, Alone
  <2>2. dir \in Dir /\ dir.claimed = id[c] /\ dir.meta = id[c] /\ dir.seeded = {}
        /\ dir.input = id[c]
    BY <1>2, <1>3, <2>1 DEF Dir
  <2>3. QED
    BY <1>1, <1>2, <1>4, <2>1, <2>2, MakingStep, Zenon DEF CreatorPC, WorkspaceInv, TypeOK
<1>7. CASE OpenProject(c)
  <2>1. /\ pc[c] = "open" /\ pc' = [pc EXCEPT ![c] = "seed"]
        /\ opened' = [opened EXCEPT ![c] = id[c]] /\ dirs' = dirs
    BY <1>2, <1>3, <1>7 DEF OpenProject, Goes, Listed
  <2>2. dirs' = [dirs EXCEPT ![t] = dirs[t]]
    BY <2>1 DEF WorkspaceInv, TypeOK
  <2>3. /\ opened' \in [Creators -> Ids \cup {NoId}] /\ opened'[c] = id[c]
        /\ \A d \in Creators \ {c} : opened'[d] = opened[d]
    BY <1>2, <2>1 DEF WorkspaceInv, TypeOK
  <2>4. PICK dir \in Dir : dir = dirs[t]
    BY <1>2
  <2>5. dir.claimed = id[c] /\ dir.meta = id[c] /\ dir.input = id[c] /\ dir.seeded = {}
    BY <1>3, <2>1, <2>4
  <2>6. dirs' = [dirs EXCEPT ![t] = dir] /\ pc' = [pc EXCEPT ![c] = "seed"]
        /\ faults' \in 0 .. MaxFaults
    BY <1>4, <2>1, <2>2, <2>4
  <2>7. QED
    BY <1>1, <1>2, <1>4, <2>3, <2>4, <2>5, <2>6, MakingStep, Zenon DEF CreatorPC
<1>8. CASE Seed(c)
  <2> DEFINE dir == [dirs[t] EXCEPT !.seeded = @ \cup {id[c]}]
  <2>1. pc[c] = "seed" /\ Placed(c)
    BY <1>3, <1>8 DEF Seed, Goes, Placed
  <2>2. dirs' = [dirs EXCEPT ![t] = dir] /\ pc' = [pc EXCEPT ![c] = "close"] /\ opened' = opened
    BY <1>8, <2>1 DEF Seed, Goes, Alone
  <2>3. dir \in Dir /\ dir.claimed = id[c] /\ dir.meta = id[c] /\ dir.seeded = {id[c]}
        /\ dir.input = id[c]
    BY <1>2, <1>3, <2>1 DEF Dir, Placed
  <2>4. QED
    BY <1>1, <1>2, <1>4, <2>2, <2>3, MakingStep, Zenon DEF CreatorPC, WorkspaceInv, TypeOK
<1>9. QED  BY <1>5, <1>6, <1>7, <1>8

\* The same steps where an archive took a directory away.
LEMMA AstrayFill ==
    ASSUME WorkspaceInv, NEW c \in Creators, Slug(c) \in early,
           WriteMeta(c) \/ CopyInput(c) \/ OpenProject(c) \/ Seed(c)
    PROVE  WorkspaceInv'
<1>0. PICK t : t = Slug(c)
  OBVIOUS
<1>1. Making(c)
  BY DEF WriteMeta, CopyInput, OpenProject, Seed, Goes, Making
<1>2. /\ t \in Slugs /\ t \in early /\ dirs[t] \in Dir /\ id[c] \in Ids /\ id[c] \in used
      /\ id[c] # NoId /\ DirKnown(t)
  BY <1>0, <1>1, OwnNow DEF DirOK
<1>3. crashes' = crashes /\ faults' \in 0 .. MaxFaults
      /\ UNCHANGED <<id, suffix, nameOf, used, created, early>>
  BY DEF WriteMeta, CopyInput, OpenProject, Seed, Alone, Outside, WorkspaceInv, TypeOK
<1>4. PICK to \in CreatorPC \ {"idle"} : pc' = [pc EXCEPT ![c] = to]
  BY DEF WriteMeta, CopyInput, OpenProject, Seed, Goes, CreatorPC
<1>5. /\ opened' \in [Creators -> Ids \cup {NoId}]
      /\ \A d \in Creators \ {c} : opened'[d] = opened[d]
  <2>1. dirs[t].claimed \in Ids \cup {NoId} /\ opened \in [Creators -> Ids \cup {NoId}]
    BY <1>2 DEF Dir, WorkspaceInv, TypeOK
  <2>2. opened' = opened \/ opened' = [opened EXCEPT ![c] = dirs[t].claimed]
    BY <1>0 DEF WriteMeta, CopyInput, OpenProject, Seed, Alone
  <2>3. QED  BY <2>1, <2>2
<1>6. PICK dir \in Dir :
        /\ dirs' = [dirs EXCEPT ![t] = dir]
        /\ dir.claimed \in used \cup {NoId} /\ dir.meta \in used \cup {NoId}
  <2>1. CASE dirs' = dirs
    <3>1. dirs' = [dirs EXCEPT ![t] = dirs[t]]
      BY <2>1 DEF WorkspaceInv, TypeOK
    <3>2. QED  BY <1>2, <3>1 DEF DirKnown
  <2>2. CASE WriteMeta(c)
    <3>0. PICK claimed : claimed = IF There(c) THEN dirs[t].claimed ELSE id[c]
      OBVIOUS
    <3> DEFINE dir == [dirs[t] EXCEPT !.meta = id[c], !.claimed = claimed]
    <3>1. claimed \in used \cup {NoId} /\ claimed \in Ids \cup {NoId}
      BY <1>2, <3>0 DEF DirKnown, Dir
    <3>2. dirs' = [dirs EXCEPT ![t].meta = id[c], ![t].claimed = claimed]
      BY <1>0, <1>2, <2>2, <3>0 DEF WriteMeta, WorkspaceInv, TypeOK
    <3>3. dirs' = [dirs EXCEPT ![t] = dir]
      BY <1>2, <3>2 DEF WorkspaceInv, TypeOK
    <3>4. dir \in Dir /\ dir.claimed = claimed /\ dir.meta = id[c]
      BY <1>2, <3>1 DEF Dir
    <3>5. QED  BY <1>2, <3>1, <3>3, <3>4
  <2>3. CASE dirs' = [dirs EXCEPT ![t].input = id[c]]
    <3> DEFINE dir == [dirs[t] EXCEPT !.input = id[c]]
    <3>1. dirs' = [dirs EXCEPT ![t] = dir]
      BY <2>3
    <3>2. dir \in Dir /\ dir.claimed = dirs[t].claimed /\ dir.meta = dirs[t].meta
      BY <1>2 DEF Dir
    <3>3. QED  BY <1>2, <3>1, <3>2 DEF DirKnown
  <2>4. CASE dirs' = [dirs EXCEPT ![t].seeded = @ \cup {id[c]}]
    <3> DEFINE dir == [dirs[t] EXCEPT !.seeded = @ \cup {id[c]}]
    <3>1. dirs' = [dirs EXCEPT ![t] = dir]
      BY <2>4
    <3>2. dir \in Dir /\ dir.claimed = dirs[t].claimed /\ dir.meta = dirs[t].meta
      BY <1>2 DEF Dir
    <3>3. QED  BY <1>2, <3>1, <3>2 DEF DirKnown
  <2>5. QED
    BY <1>0, <2>1, <2>2, <2>3, <2>4 DEF CopyInput, OpenProject, Seed
<1>7. QED  BY <1>0, <1>1, <1>2, <1>3, <1>4, <1>5, <1>6, AstrayStep

\* Who reports a project leaves a whole one.
LEMMA ReportStep ==
    ASSUME WorkspaceInv, NEW c \in Creators, Report(c)
    PROVE  WorkspaceInv'
<1>0. PICK t, i : t = Slug(c) /\ i = id[c]
  OBVIOUS
<1>1. /\ pc[c] = "close" /\ Exits(c) /\ created' = created \cup {<< i, t >>}
      /\ UNCHANGED <<dirs, nameOf, used, early, crashes, faults>>
  BY <1>0 DEF Report
<1>2. /\ Busy(c) /\ t \in Slugs /\ dirs[t] \in Dir /\ OwnDir(c) /\ DirOK(t)
      /\ i \in used
  BY <1>0, <1>1, OwnNow DEF Making
<1>3. t \notin early => Whole(t, i)
  BY <1>0, <1>1, <1>2 DEF OwnDir, Making, Dir, Whole
<1>4. TypeOK'
  BY <1>1, <1>2, NumbersFinite DEF WorkspaceInv, TypeOK, Exits, CreatorPC
<1>5. OwnId(c)' /\ OwnDir(c)' /\ ~Busy(c)'
  BY <1>1, GoneOwnsNothing DEF WorkspaceInv
<1>6. StepOf(c)
  BY <1>0, <1>1, <1>2, <1>5 DEF StepOf, Exits, WorkspaceInv, TypeOK
<1>7. DirOK(t)'
  BY <1>1, <1>2 DEF DirOK, DirKnown
<1>8. CreatedStays'
  <2> SUFFICES ASSUME NEW p \in created \cup {<< i, t >>}, p[2] \notin early
               PROVE  Whole(p[2], p[1])
    BY <1>1 DEF CreatedStays, Whole
  <2>1. QED  BY <1>3 DEF WorkspaceInv, CreatedStays
<1>9. QED  BY <1>0, <1>4, <1>5, <1>6, <1>7, <1>8, StepKeeps

LEMMA EndStep ==
    ASSUME WorkspaceInv, NEW c \in Creators, Cleanup(c) \/ Crash(c)
    PROVE  WorkspaceInv'
<1>1. CASE Cleanup(c)
  <2>1. Making(c) /\ Busy(c) /\ Exits(c) /\ dirs' = [dirs EXCEPT ![Slug(c)] = NoDir] /\ Outside
    BY <1>1 DEF Cleanup, Making, Busy
  <2>2. QED  BY <2>1, ExitStep DEF Outside, WorkspaceInv, TypeOK
<1>2. CASE Crash(c)
  <2>1. /\ Busy(c) /\ Exits(c) /\ crashes' \in 0 .. MaxCrashes
        /\ UNCHANGED <<dirs, nameOf, used, created, early, faults>>
    BY <1>2, WorkspaceAssumption DEF Crash, Busy, WorkspaceInv, TypeOK
  <2>2. QED  BY <2>1, ExitStep DEF WorkspaceInv, TypeOK
<1>3. QED  BY <1>1, <1>2

LEMMA FailsStep ==
    ASSUME WorkspaceInv, NEW c \in Creators, Fails(c)
    PROVE  WorkspaceInv'
<1>0. PICK t : t = Slug(c)
  OBVIOUS
<1>1. faults' \in 0 .. MaxFaults /\ UNCHANGED <<dirs, nameOf, used, created, early, crashes>>
  BY WorkspaceAssumption DEF Fails, WorkspaceInv, TypeOK
<1>2. CASE pc[c] \in {"claim", "cleanup"} /\ Exits(c)
  BY <1>1, <1>2, ExitStep DEF Busy, WorkspaceInv, TypeOK
<1>3. CASE /\ pc[c] \in {"meta", "copy", "open", "seed", "close"}
           /\ pc' = [pc EXCEPT ![c] = "cleanup"]
           /\ UNCHANGED <<id, suffix, opened>>
  <2>1. Making(c)
    BY <1>3 DEF Making
  <2>2. Busy(c) /\ t \in Slugs /\ dirs[t] \in Dir /\ OwnDir(c) /\ DirOK(t)
    BY <1>0, <2>1, OwnNow
  <2>3. t \notin early =>
          /\ dirs[t].claimed = id[c] /\ dirs[t].meta \in {NoId, id[c]}
          /\ dirs[t].input \in {NoId, id[c]} /\ dirs[t].seeded \subseteq {id[c]}
    BY <1>0, <2>1, <2>2 DEF OwnDir, DirOK
  <2>4. dirs' = [dirs EXCEPT ![t] = dirs[t]]
    BY <1>1 DEF WorkspaceInv, TypeOK
  <2>5. opened' = opened /\ opened' \in [Creators -> Ids \cup {NoId}] /\ "cleanup" \in CreatorPC
    BY <1>3 DEF WorkspaceInv, TypeOK, CreatorPC
  <2>6. CASE t \notin early
    BY <1>0, <1>1, <1>3, <2>1, <2>2, <2>3, <2>4, <2>5, <2>6, MakingStep, Zenon
  <2>7. CASE t \in early
    BY <1>0, <1>1, <1>3, <2>1, <2>2, <2>4, <2>5, <2>7, AstrayStep DEF DirOK, DirKnown
  <2>8. QED  BY <2>6, <2>7
<1>4. QED  BY <1>2, <1>3 DEF Fails

\* A directory that no command makes is its project's, and goes to the archive
\* with it; where one is still at it, nothing is promised from now on.
LEMMA ArchiveStep ==
    ASSUME WorkspaceInv, NEW s \in Slugs, Archive(s)
    PROVE  WorkspaceInv'
<1>1. /\ s \in Listed
      /\ created' = {p \in created : p[1] # dirs[s].meta}
      /\ early' = IF MadeAt(s) THEN early \cup {s} ELSE early
      /\ dirs' = [dirs EXCEPT ![s] = NoDir]
      /\ UNCHANGED <<pc, id, suffix, opened, nameOf, used, crashes, faults>>
  BY DEF Archive
<1>2. early \subseteq early' /\ early' \subseteq Slugs /\ created' \subseteq created
  BY <1>1 DEF WorkspaceInv, TypeOK
<1>3. \A u \in Slugs : dirs'[u] = IF u = s THEN NoDir ELSE dirs[u]
  BY <1>1 DEF WorkspaceInv, TypeOK
<1>4. TypeOK'
  BY <1>1, <1>2 DEF WorkspaceInv, TypeOK, NoDir, Dir
<1>5. ASSUME NEW u \in Slugs  PROVE DirOK(u)'
  <2>1. CASE u = s
    <3>1. dirs'[u] = NoDir
      BY <1>3, <2>1
    <3>2. QED  BY <3>1 DEF DirOK, DirKnown, NoDir
  <2>2. CASE u # s
    <3>1. dirs'[u] = dirs[u] /\ used' = used /\ DirOK(u)
      BY <1>1, <1>3, <2>2 DEF WorkspaceInv
    <3>2. QED  BY <1>2, <3>1 DEF DirOK, DirKnown
  <2>3. QED  BY <2>1, <2>2
<1>6. ASSUME NEW c \in Creators  PROVE OwnId(c)' /\ OwnDir(c)'
  <2>1. OwnId(c)'
    BY <1>1, <1>2 DEF WorkspaceInv, OwnId, Busy
  <2>2. Slug(c)' = Slug(c) /\ Making(c)' = Making(c)
    BY <1>1 DEF Slug, Making
  <2>3. Making(c) /\ Slug(c) \notin early' => dirs'[Slug(c)] = dirs[Slug(c)]
    BY <1>1, <1>3, OwnNow DEF MadeAt, Making
  <2>4. OwnDir(c)'
    BY <1>1, <1>2, <2>2, <2>3 DEF WorkspaceInv, OwnDir
  <2>5. QED  BY <2>1, <2>4
<1>7. CreatedStays'
  <2> SUFFICES ASSUME NEW p \in created', p[2] \notin early'
               PROVE  Whole(p[2], p[1])'
    BY DEF CreatedStays
  <2>1. Whole(p[2], p[1]) /\ p[2] \in Slugs
    BY <1>2 DEF WorkspaceInv, CreatedStays, TypeOK
  <2>2. p[2] # s
    BY <1>1, <2>1 DEF Whole
  <2>3. QED  BY <1>3, <2>1, <2>2 DEF Whole
<1>8. QED  BY <1>4, <1>5, <1>6, <1>7 DEF WorkspaceInv

LEMMA WorkspaceStutter ==
    ASSUME WorkspaceInv, UNCHANGED vars
    PROVE  WorkspaceInv'
<1>1. TypeOK' /\ CreatedStays' /\ \A s \in Slugs : DirOK(s)'
  BY DEF vars, WorkspaceInv, TypeOK, CreatedStays, Whole, DirOK, DirKnown
<1>2. \A c \in Creators : OwnId(c)' /\ OwnDir(c)'
  BY DEF vars, WorkspaceInv, OwnId, OwnDir, Busy, Making, Slug
<1>3. QED  BY <1>1, <1>2 DEF WorkspaceInv

\* Every step keeps the invariant.
LEMMA WorkspaceStep ==
    ASSUME WorkspaceInv, [Next]_vars
    PROVE  WorkspaceInv'
<1>1. ASSUME NEW c \in Creators, New(c)  PROVE WorkspaceInv'
  BY <1>1, NewStep
<1>2. ASSUME NEW c \in Creators, CreatorStep(c)  PROVE WorkspaceInv'
  BY <1>2, ClaimStep, FillStep, AstrayFill, ReportStep, EndStep DEF CreatorStep
<1>3. ASSUME NEW c \in Creators, Fails(c)  PROVE WorkspaceInv'
  BY <1>3, FailsStep
<1>4. ASSUME NEW c \in Creators, Crash(c)  PROVE WorkspaceInv'
  BY <1>4, EndStep
<1>5. ASSUME NEW s \in Slugs, Archive(s)  PROVE WorkspaceInv'
  BY <1>5, ArchiveStep
<1>6. ASSUME UNCHANGED vars  PROVE WorkspaceInv'
  BY <1>6, WorkspaceStutter
<1>7. QED  BY <1>1, <1>2, <1>3, <1>4, <1>5, <1>6 DEF Next

THEOREM WorkspaceInvariant == Spec => []WorkspaceInv
<1>1. Init => WorkspaceInv
  BY WorkspaceInit
<1>2. WorkspaceInv /\ [Next]_vars => WorkspaceInv'
  BY WorkspaceStep
<1>3. QED  BY <1>1, <1>2, PTL DEF Spec
-----------------------------------------------------------------------------
(* References *)

LEMMA SlugsFinite == IsFiniteSet(Slugs)
<1> DEFINE P == ProjectNames \X Numbers
<1> DEFINE f == [p \in P |-> Numbered(Slugify[p[1]], p[2])]
<1>1. IsFiniteSet(P)
  BY WorkspaceAssumption, NumbersFinite, FS_Product
<1>2. f \in [P -> Slugs]
  BY DEF Slugs
<1>3. ASSUME NEW s \in Slugs  PROVE \E p \in P : f[p] = s
  <2>1. PICK n \in ProjectNames, k \in Numbers : s = Numbered(Slugify[n], k)
    BY DEF Slugs
  <2>2. <<n, k>> \in P /\ f[<<n, k>>] = s
    BY <2>1
  <2>3. QED  BY <2>2
<1>4. f \in Surjection(P, Slugs)
  BY <1>2, <1>3, Fun_IsSurj
<1>5. QED  BY <1>1, <1>4, FS_Surjection

\* A project that is meant exactly is the answer, or there is none.
LEMMA ResolveExact ==
    ASSUME NEW ref, NEW s \in Exact(ref)
    PROVE  Resolve(ref) \in {s, NoSlug}
<1>1. IsFiniteSet(Exact(ref))
  <2>1. Exact(ref) \in SUBSET Slugs
    BY DEF Exact, Listed
  <2>2. QED  BY <2>1, SlugsFinite, FS_Subset
<1>2. CASE Cardinality(Exact(ref)) = 1
  <2>1. Exact(ref) = {s}
    BY <1>1, <1>2, FS_Singleton
  <2>2. Resolve(ref) = CHOOSE x \in Exact(ref) : TRUE
    BY <1>2, <2>1 DEF Resolve
  <2>3. QED  BY <2>1, <2>2
<1>3. CASE Cardinality(Exact(ref)) # 1
  BY <1>3 DEF Resolve
<1>4. QED  BY <1>2, <1>3

\* A project keeps its name.
LEMMA NamesKept ==
    ASSUME WorkspaceInv, [Next]_vars, NEW i \in used
    PROVE  nameOf'[i] = nameOf[i]
<1>1. ASSUME NEW c \in Creators, New(c)  PROVE nameOf'[i] = nameOf[i]
  <2>1. Drawn \in Ids \ used
    BY <1>1 DEF New, Drawn, WorkspaceInv, TypeOK
  <2>2. QED  BY <1>1, <2>1 DEF New, WorkspaceInv, TypeOK
<1>2. ASSUME NEW c \in Creators, CreatorStep(c)  PROVE nameOf' = nameOf
  BY <1>2 DEF CreatorStep, Claim, WriteMeta, CopyInput, OpenProject, Seed, Report, Cleanup,
              Alone, Outside
<1>3. QED  BY <1>1, <1>2 DEF Next, Fails, Crash, Archive, vars

LEMMA ReferenceStays ==
    ASSUME WorkspaceInv, [Next]_vars, NEW s \in Listed, NEW ref \in References(s),
           Exact(ref) = {s}, dirs'[s].meta = dirs[s].meta
    PROVE  Resolve(ref)' \in {s, NoSlug}
<1>1. s \in Listed /\ ref \in {ShortId(s), s, NameOf(s)}
  BY DEF References
<1>2. dirs[s].meta \in used
  BY <1>1 DEF Listed, WorkspaceInv, DirOK, DirKnown
<1>3. s \in Listed' /\ ref \in {ShortId(s)', s, NameOf(s)'}
  BY <1>1, <1>2, NamesKept DEF Listed, ShortId, NameOf
<1>4. s \in Exact(ref)'
  BY <1>3 DEF Exact, References
<1>5. (s \in Exact(ref) => Resolve(ref) \in {s, NoSlug})'
  BY ResolveExact, PTL
<1>6. QED  BY <1>4, <1>5
-----------------------------------------------------------------------------
(* Theorems *)

\* The state of the commands is of its type: in every directory there is what
\* Create and createProject put there, in any interleaving, error or crash.
THEOREM WorkspaceTypeCorrect == Spec => []TypeOK
<1>1. WorkspaceInv => TypeOK
  BY DEF WorkspaceInv
<1>2. QED  BY <1>1, WorkspaceInvariant, PTL

\* However many commands create projects of one name at once, fail and clean up,
\* and whatever is archived meanwhile: what is in a directory is of one creation,
\* but at the slugs where a project was archived before its command was done.
THEOREM ProjectsIsolated == Spec => []Isolated
<1>1. WorkspaceInv => Isolated
  BY DEF WorkspaceInv, DirOK, Isolated
<1>2. QED  BY <1>1, WorkspaceInvariant, PTL

\* A project that was reported stays whole until it is archived: no other
\* command's cleanup removes it, with the same exception.
THEOREM CreatedAlwaysStays == Spec => []CreatedStays
<1>1. WorkspaceInv => CreatedStays
  BY DEF WorkspaceInv
<1>2. QED  BY <1>1, WorkspaceInvariant, PTL

\* A reference that means one project exactly never silently comes to mean
\* another one while that project is there.
THEOREM ReferencesNeverMove == Spec => ReferenceNeverMoves
<1>1. WorkspaceInv /\ [Next]_vars =>
        [\A s \in Listed : \A ref \in References(s) :
            Exact(ref) = {s} /\ dirs'[s].meta = dirs[s].meta
                => Resolve(ref)' \in {s, NoSlug}]_vars
  BY ReferenceStays
<1>2. Spec => []WorkspaceInv
  BY WorkspaceInvariant
<1>3. QED  BY <1>1, <1>2, PTL DEF Spec, ReferenceNeverMoves
-----------------------------------------------------------------------------
(* What is left half made *)

\* The commands that are about to remove what they made.
Cleaners == {c \in Creators : pc[c] = "cleanup" /\ Slug(c) \notin early}

\* What the errors and deaths so far may have cost: a death leaves one directory
\* behind, and so do two errors, of which the first is that of a command that
\* still cleans up.
Spent == 2 * (MaxCrashes - crashes) + (MaxFaults - faults)

LeftBehind ==
    /\ IsFiniteSet(Cleaners)
    /\ 2 * Cardinality(HalfMade) + Cardinality(Cleaners) =< Spent

\* A step of c is no other command's, and changes no directory but its own.
StepAlone(c) ==
    /\ \A d \in Creators \ {c} : pc'[d] = pc[d] /\ id'[d] = id[d] /\ suffix'[d] = suffix[d]
    /\ \A s \in Slugs \ {Slug(c)} : dirs'[s] = dirs[s]
    /\ early' = early

LEMMA EachStepsAlone ==
    ASSUME WorkspaceInv, NEW c \in Creators,
           New(c) \/ CreatorStep(c) \/ Fails(c) \/ Crash(c)
    PROVE  StepAlone(c)
<1> USE DEF WorkspaceInv, TypeOK, StepAlone, Goes, Alone, Outside, Exits
<1>1. CASE New(c) \/ Fails(c) \/ Crash(c)
  BY <1>1 DEF New, Fails, Crash
<1>2. CASE Claim(c) \/ WriteMeta(c) \/ CopyInput(c)
  BY <1>2 DEF Claim, WriteMeta, CopyInput
<1>3. CASE OpenProject(c) \/ Seed(c) \/ Report(c) \/ Cleanup(c)
  BY <1>3 DEF OpenProject, Seed, Report, Cleanup
<1>4. QED  BY <1>1, <1>2, <1>3 DEF CreatorStep

\* What another command made is its own afterwards.
LEMMA OthersMake ==
    ASSUME WorkspaceInv, NEW c \in Creators, StepAlone(c), [Next]_vars,
           NEW d \in Creators, d # c, Making(d)
    PROVE  Making(d)' /\ Slug(d)' = Slug(d) /\ MadeAt(Slug(d))'
<1>1. nameOf'[id[d]] = nameOf[id[d]]
  BY OwnNow, NamesKept DEF WorkspaceInv, OwnId
<1>2. Making(d)' /\ Slug(d)' = Slug(d)
  BY <1>1 DEF StepAlone, Making, Slug
<1>3. QED  BY <1>2 DEF MadeAt, Making

\* Who comes to clean up by a step of c is c.
LEMMA OthersClean ==
    ASSUME WorkspaceInv, NEW c \in Creators, StepAlone(c), [Next]_vars
    PROVE  /\ Cleaners' \subseteq Cleaners \cup {c}
           /\ pc'[c] # "cleanup" => Cleaners' \subseteq Cleaners \ {c}
<1>1. ASSUME NEW d \in Cleaners', d # c  PROVE d \in Cleaners
  <2>1. d \in Creators /\ pc[d] = "cleanup" /\ Slug(d)' \notin early
    BY <1>1 DEF Cleaners, StepAlone
  <2>2. Slug(d)' = Slug(d)
    BY <1>1, <2>1, OthersMake DEF Making
  <2>3. QED  BY <2>1, <2>2 DEF Cleaners
<1>2. QED  BY <1>1 DEF Cleaners

\* Nothing but the directory of the command that steps can come to be half made.
LEMMA HalfMadeGrows ==
    ASSUME WorkspaceInv, NEW c \in Creators, StepAlone(c), [Next]_vars,
           NEW s \in HalfMade', s # Slug(c)
    PROVE  s \in HalfMade
<1>1. s \in Slugs /\ dirs'[s] = dirs[s] /\ s \notin early
  BY DEF HalfMade, StepAlone
<1>2. dirs[s] # NoDir /\ \A i \in Ids : ~Whole(s, i)
  BY <1>1 DEF HalfMade, Whole
<1>3. ASSUME NEW d \in Creators, Making(d), Slug(d) = s  PROVE FALSE
  BY <1>3, OthersMake DEF HalfMade
<1>4. QED  BY <1>1, <1>2, <1>3 DEF HalfMade, MadeAt, Making

\* That one is not half made as long as the command goes on with it, or leaves
\* nothing or a whole project there, or had not made it.
LEMMA NotHalfMade ==
    ASSUME WorkspaceInv, NEW c \in Creators, StepAlone(c), [Next]_vars, NEW s, s = Slug(c),
           \/ Making(c)' /\ Slug(c)' = s
           \/ dirs'[s] = NoDir
           \/ \E i \in Ids : Whole(s, i)'
           \/ ~Making(c) /\ dirs' = dirs
           \/ s \in early
    PROVE  HalfMade' \subseteq HalfMade
<1> SUFFICES ASSUME s \in HalfMade'  PROVE s \in HalfMade
  BY HalfMadeGrows
<1>1. /\ dirs'[s] # NoDir /\ ~MadeAt(s)' /\ s \in Slugs /\ \A i \in Ids : ~Whole(s, i)'
      /\ s \notin early
  BY DEF HalfMade, StepAlone
<1>2. ~(Making(c)' /\ Slug(c)' = s)
  BY <1>1 DEF MadeAt, Making
<1>3. ~Making(c) /\ dirs' = dirs
  BY <1>1, <1>2 DEF Whole
<1>4. ASSUME NEW d \in Creators, Making(d), Slug(d) = s  PROVE FALSE
  <2>1. d # c
    BY <1>3, <1>4
  <2>2. Making(d)' /\ Slug(d)' = s
    BY <1>4, <2>1, OthersMake
  <2>3. QED  BY <1>1, <2>2 DEF MadeAt, Making
<1>5. QED  BY <1>1, <1>3, <1>4 DEF HalfMade, MadeAt, Making, Whole

\* The size of what is half made.
LEMMA HalfMadeCount ==
    /\ Cardinality(HalfMade) \in Nat /\ Cardinality(HalfMade)' \in Nat
    /\ HalfMade' \subseteq HalfMade => Cardinality(HalfMade)' =< Cardinality(HalfMade)
    /\ \A s : HalfMade' \subseteq HalfMade \cup {s}
                => Cardinality(HalfMade)' =< Cardinality(HalfMade) + 1
<1>1. IsFiniteSet(HalfMade) /\ IsFiniteSet(HalfMade')
  <2>1. HalfMade \in SUBSET Slugs /\ HalfMade' \in SUBSET Slugs
    BY DEF HalfMade
  <2>2. QED  BY <2>1, SlugsFinite, FS_Subset
<1>2. ASSUME NEW s, HalfMade' \subseteq HalfMade \cup {s}
      PROVE  Cardinality(HalfMade)' =< Cardinality(HalfMade) + 1
  <2>1. /\ IsFiniteSet(HalfMade \cup {s})
        /\ Cardinality(HalfMade \cup {s}) =< Cardinality(HalfMade) + 1
    BY <1>1, FS_AddElement, FS_CardinalityType
  <2>2. Cardinality(HalfMade)' =< Cardinality(HalfMade \cup {s})
    BY <1>2, <2>1, FS_Subset
  <2>3. QED  BY <1>1, <2>1, <2>2, FS_CardinalityType
<1>3. QED  BY <1>1, <1>2, FS_CardinalityType, FS_Subset

LEMMA BudgetTypes ==
    ASSUME WorkspaceInv, WorkspaceInv'
    PROVE  /\ MaxCrashes \in Nat /\ MaxFaults \in Nat
           /\ crashes \in Nat /\ crashes' \in Nat /\ faults \in Nat /\ faults' \in Nat
BY WorkspaceAssumption DEF WorkspaceInv, TypeOK

\* A step after which no more is half made and no more is cleaned up.
LEMMA NoneLeftBehind ==
    ASSUME WorkspaceInv, WorkspaceInv', LeftBehind,
           HalfMade' \subseteq HalfMade, Cleaners' \subseteq Cleaners,
           crashes' =< crashes, faults' =< faults
    PROVE  LeftBehind'
<1>1. IsFiniteSet(Cleaners') /\ Cardinality(Cleaners)' =< Cardinality(Cleaners)
      /\ Cardinality(Cleaners) \in Nat /\ Cardinality(Cleaners)' \in Nat
  BY FS_Subset, FS_CardinalityType DEF LeftBehind
<1>2. Spent \in Int /\ Spent' \in Int /\ Spent =< Spent'
  BY BudgetTypes DEF Spent
<1>3. QED  BY <1>1, <1>2, HalfMadeCount DEF LeftBehind

\* An error while a project is made: the command is to clean up.
LEMMA FirstError ==
    ASSUME WorkspaceInv, WorkspaceInv', LeftBehind, NEW c,
           HalfMade' \subseteq HalfMade, Cleaners' \subseteq Cleaners \cup {c},
           crashes' = crashes, faults' = faults - 1
    PROVE  LeftBehind'
<1>0. IsFiniteSet(Cleaners)
  BY DEF LeftBehind
<1>1. IsFiniteSet(Cleaners \cup {c})
      /\ Cardinality(Cleaners \cup {c}) =< Cardinality(Cleaners) + 1
  BY <1>0, FS_AddElement, FS_CardinalityType
<1>2. IsFiniteSet(Cleaners') /\ Cardinality(Cleaners)' =< Cardinality(Cleaners) + 1
      /\ Cardinality(Cleaners) \in Nat /\ Cardinality(Cleaners)' \in Nat
  BY <1>1, FS_Subset, FS_CardinalityType DEF LeftBehind
<1>3. Spent \in Int /\ Spent' = Spent + 1
  BY BudgetTypes DEF Spent
<1>4. QED  BY <1>2, <1>3, HalfMadeCount DEF LeftBehind

\* A second error, and the command leaves its directory behind.
LEMMA SecondError ==
    ASSUME WorkspaceInv, WorkspaceInv', LeftBehind, NEW c \in Cleaners, NEW s,
           HalfMade' \subseteq HalfMade \cup {s}, Cleaners' \subseteq Cleaners \ {c},
           crashes' = crashes, faults' = faults - 1
    PROVE  LeftBehind'
<1>1. IsFiniteSet(Cleaners \ {c})
      /\ Cardinality(Cleaners \ {c}) = Cardinality(Cleaners) - 1
  BY FS_RemoveElement DEF LeftBehind
<1>2. IsFiniteSet(Cleaners') /\ Cardinality(Cleaners)' =< Cardinality(Cleaners) - 1
      /\ Cardinality(Cleaners) \in Nat /\ Cardinality(Cleaners)' \in Nat
  BY <1>1, FS_Subset, FS_CardinalityType DEF LeftBehind
<1>3. Spent \in Int /\ Spent' = Spent + 1
  BY BudgetTypes DEF Spent
<1>4. /\ Cardinality(HalfMade) \in Nat /\ Cardinality(HalfMade)' \in Nat
      /\ Cardinality(HalfMade)' =< Cardinality(HalfMade) + 1
  BY HalfMadeCount
<1>5. QED  BY <1>2, <1>3, <1>4 DEF LeftBehind

\* A death pays for the directory it leaves.
LEMMA DeathLeaves ==
    ASSUME WorkspaceInv, WorkspaceInv', LeftBehind, NEW s,
           HalfMade' \subseteq HalfMade \cup {s}, Cleaners' \subseteq Cleaners,
           crashes' = crashes - 1, faults' = faults
    PROVE  LeftBehind'
<1>1. IsFiniteSet(Cleaners') /\ Cardinality(Cleaners)' =< Cardinality(Cleaners)
      /\ Cardinality(Cleaners) \in Nat /\ Cardinality(Cleaners)' \in Nat
  BY FS_Subset, FS_CardinalityType DEF LeftBehind
<1>2. Spent \in Int /\ Spent' = Spent + 2
  BY BudgetTypes DEF Spent
<1>3. /\ Cardinality(HalfMade) \in Nat /\ Cardinality(HalfMade)' \in Nat
      /\ Cardinality(HalfMade)' =< Cardinality(HalfMade) + 1
  BY HalfMadeCount
<1>4. QED  BY <1>1, <1>2, <1>3 DEF LeftBehind

\* A call that goes well leaves nothing half made.
LEMMA CallLeavesNothing ==
    ASSUME WorkspaceInv, WorkspaceInv', LeftBehind, [Next]_vars, NEW c \in Creators,
           New(c) \/ CreatorStep(c)
    PROVE  LeftBehind'
<1>0. PICK s : s = Slug(c)
  OBVIOUS
<1>1. StepAlone(c)
  BY EachStepsAlone
<1>2. UNCHANGED <<crashes, faults>> /\ faults \in Int /\ crashes \in Int
  BY DEF New, CreatorStep, Claim, WriteMeta, CopyInput, OpenProject, Seed, Report, Cleanup,
         Alone, Outside, WorkspaceInv, TypeOK
<1>3. pc'[c] # "cleanup" => Cleaners' \subseteq Cleaners
  BY <1>1, OthersClean
<1>4. CASE New(c)
  <2>1. ~Making(c) /\ dirs' = dirs /\ pc'[c] # "cleanup"
    BY <1>4 DEF New, Goes, Making, WorkspaceInv, TypeOK
  <2>2. QED  BY <1>0, <1>1, <1>2, <1>3, <2>1, NotHalfMade, NoneLeftBehind
<1>5. CASE Claim(c)
  <2>1. pc[c] = "claim" /\ ~Making(c) /\ pc'[c] \in {"claim", "meta"}
    BY <1>5 DEF Claim, Goes, Making, WorkspaceInv, TypeOK
  <2>2. CASE pc'[c] = "claim"
    <3>1. dirs' = dirs
      BY <1>5, <2>2 DEF Claim, Goes, WorkspaceInv, TypeOK
    <3>2. QED  BY <1>0, <1>1, <1>2, <1>3, <2>1, <2>2, <3>1, NotHalfMade, NoneLeftBehind
  <2>3. CASE pc'[c] = "meta"
    <3>1. Making(c)' /\ Slug(c)' = Slug(c)
      BY <1>5, <2>3 DEF Claim, Goes, Alone, Outside, Making, Slug, WorkspaceInv, TypeOK
    <3>2. QED  BY <1>0, <1>1, <1>2, <1>3, <2>3, <3>1, NotHalfMade, NoneLeftBehind
  <2>4. QED  BY <2>1, <2>2, <2>3
<1>6. CASE WriteMeta(c) \/ CopyInput(c) \/ OpenProject(c) \/ Seed(c)
  <2>1. Making(c)
    BY <1>6 DEF WriteMeta, CopyInput, OpenProject, Seed, Goes, Making
  <2>2. pc'[c] \in {"copy", "open", "seed", "close", "cleanup"}
    BY <1>6 DEF WriteMeta, CopyInput, OpenProject, Seed, Goes, WorkspaceInv, TypeOK
  <2>3. Making(c)' /\ Slug(c)' = Slug(c)
    BY <1>6, <2>2 DEF WriteMeta, CopyInput, OpenProject, Seed, Alone, Outside, Making, Slug
  <2>4. CASE Slug(c) \in early
    <3>1. c \notin Cleaners'
      BY <1>1, <2>3, <2>4 DEF Cleaners, StepAlone
    <3>2. Cleaners' \subseteq Cleaners
      BY <1>1, <3>1, OthersClean
    <3>3. QED  BY <1>0, <1>1, <1>2, <2>3, <3>2, NotHalfMade, NoneLeftBehind
  <2>5. CASE Slug(c) \notin early
    <3>1. /\ There(c) /\ Slug(c) \in Slugs
          /\ pc[c] = "open" => Slug(c) \in Listed
          /\ pc[c] = "seed" => Placed(c)
      BY <2>1, <2>5, OwnNow DEF OwnDir, Placed, Listed
    <3>2. pc'[c] # "cleanup"
      BY <1>6, <3>1 DEF WriteMeta, CopyInput, OpenProject, Seed, Goes, WorkspaceInv, TypeOK
    <3>3. QED  BY <1>0, <1>1, <1>2, <1>3, <2>3, <3>2, NotHalfMade, NoneLeftBehind
  <2>6. QED  BY <2>4, <2>5
<1>7. CASE Report(c) \/ Cleanup(c)
  <2>1. Making(c) /\ pc'[c] = "idle"
    BY <1>7 DEF Report, Cleanup, Exits, Making, WorkspaceInv, TypeOK
  <2>2. /\ Slug(c) \in Slugs /\ dirs[Slug(c)] \in Dir /\ OwnDir(c) /\ id[c] \in Ids
    BY <2>1, OwnNow
  <2>3. CASE Report(c)
    <3>1. PICK i \in Ids : i = id[c]
      BY <2>2
    <3>2. s \notin early => dirs'[s] = [claimed |-> i, meta |-> i, input |-> i, seeded |-> {i}]
      BY <1>0, <2>1, <2>2, <2>3, <3>1 DEF Report, OwnDir, Dir
    <3>3. s \notin early => Whole(s, i)'
      BY <3>2 DEF Whole
    <3>4. QED  BY <1>0, <1>1, <1>2, <1>3, <2>1, <3>3, NotHalfMade, NoneLeftBehind
  <2>4. CASE Cleanup(c)
    <3>1. dirs'[Slug(c)] = NoDir
      BY <2>2, <2>4 DEF Cleanup, WorkspaceInv, TypeOK
    <3>2. QED  BY <1>0, <1>1, <1>2, <1>3, <2>1, <3>1, NotHalfMade, NoneLeftBehind
  <2>5. QED  BY <1>7, <2>3, <2>4
<1>8. QED  BY <1>4, <1>5, <1>6, <1>7 DEF CreatorStep

\* An error, or a death.
LEMMA TroubleLeaves ==
    ASSUME WorkspaceInv, WorkspaceInv', LeftBehind, [Next]_vars, NEW c \in Creators,
           Fails(c) \/ Crash(c)
    PROVE  LeftBehind'
<1>0. PICK s : s = Slug(c)
  OBVIOUS
<1>1. StepAlone(c)
  BY EachStepsAlone
<1>2. HalfMade' \subseteq HalfMade \cup {Slug(c)}
  BY <1>1, HalfMadeGrows
<1>3. CASE Crash(c)
  <2>1. crashes' = crashes - 1 /\ faults' = faults /\ pc'[c] = "idle"
    BY <1>3 DEF Crash, Exits, WorkspaceInv, TypeOK
  <2>2. Cleaners' \subseteq Cleaners
    BY <1>1, <2>1, OthersClean
  <2>3. QED  BY <1>2, <2>1, <2>2, DeathLeaves
<1>4. CASE Fails(c)
  <2>1. faults' = faults - 1 /\ crashes' = crashes /\ dirs' = dirs
    BY <1>4 DEF Fails
  <2>2. CASE pc[c] \in {"meta", "copy", "open", "seed", "close"}
    <3>1. Making(c)' /\ Slug(c)' = Slug(c)
      BY <1>4, <2>2 DEF Fails, Making, Slug, WorkspaceInv, TypeOK
    <3>2. Cleaners' \subseteq Cleaners \cup {c}
      BY <1>1, OthersClean
    <3>3. QED  BY <1>0, <1>1, <2>1, <3>1, <3>2, NotHalfMade, FirstError
  <2>3. CASE pc[c] = "cleanup"
    <3>1. pc'[c] = "idle"
      BY <1>4, <2>3 DEF Fails, Exits, WorkspaceInv, TypeOK
    <3>2. Cleaners' \subseteq Cleaners \ {c}
      BY <1>1, <3>1, OthersClean
    <3>3. CASE c \in Cleaners
      BY <1>2, <2>1, <3>2, <3>3, SecondError
    <3>4. CASE c \notin Cleaners
      <4>1. Slug(c) \in early
        BY <2>3, <3>4 DEF Cleaners
      <4>2. faults' =< faults /\ crashes' =< crashes
        BY <2>1 DEF WorkspaceInv, TypeOK
      <4>3. QED  BY <1>0, <1>1, <3>2, <4>1, <4>2, NotHalfMade, NoneLeftBehind
    <3>5. QED  BY <3>3, <3>4
  <2>4. CASE pc[c] = "claim"
    <3>1. ~Making(c) /\ pc'[c] = "idle"
      BY <1>4, <2>4 DEF Fails, Exits, Making, WorkspaceInv, TypeOK
    <3>2. Cleaners' \subseteq Cleaners
      BY <1>1, <3>1, OthersClean
    <3>3. crashes' =< crashes /\ faults' =< faults
      BY <2>1 DEF WorkspaceInv, TypeOK
    <3>4. QED  BY <1>0, <1>1, <2>1, <3>1, <3>2, <3>3, NotHalfMade, NoneLeftBehind
  <2>5. QED  BY <1>4, <2>2, <2>3, <2>4 DEF Fails
<1>5. QED  BY <1>3, <1>4

\* Who archives a project takes a whole directory away.
LEMMA ArchiveLeavesNothing ==
    ASSUME WorkspaceInv, WorkspaceInv', LeftBehind, NEW s \in Slugs, Archive(s)
    PROVE  LeftBehind'
<1>1. /\ dirs' = [dirs EXCEPT ![s] = NoDir] /\ early \subseteq early'
      /\ UNCHANGED <<pc, id, suffix, opened, nameOf, used, crashes, faults>>
  BY DEF Archive
<1>2. \A t \in Slugs : dirs'[t] = IF t = s THEN NoDir ELSE dirs[t]
  BY <1>1 DEF WorkspaceInv, TypeOK
<1>3. \A t \in Slugs : MadeAt(t)' = MadeAt(t)
  BY <1>1 DEF MadeAt, Slug
<1>4. HalfMade' \subseteq HalfMade
  BY <1>1, <1>2, <1>3 DEF HalfMade, Whole
<1>5. Cleaners' \subseteq Cleaners /\ crashes' =< crashes /\ faults' =< faults
  BY <1>1 DEF Cleaners, Slug, WorkspaceInv, TypeOK
<1>6. QED  BY <1>4, <1>5, NoneLeftBehind

LEMMA LeftBehindStep ==
    ASSUME WorkspaceInv, WorkspaceInv', LeftBehind, [Next]_vars
    PROVE  LeftBehind'
<1>1. CASE UNCHANGED vars
  <2>1. Cleaners' = Cleaners /\ HalfMade' = HalfMade /\ Spent' = Spent
    BY <1>1 DEF vars, Cleaners, HalfMade, MadeAt, Slug, Whole, Spent
  <2>2. QED  BY <2>1 DEF LeftBehind
<1>2. QED
  BY <1>1, CallLeavesNothing, TroubleLeaves, ArchiveLeavesNothing DEF Next

LEMMA LeftBehindInit ==
    ASSUME Init PROVE LeftBehind
<1>1. HalfMade = {} /\ Cleaners = {} /\ Spent = 0
  BY WorkspaceAssumption DEF Init, HalfMade, Cleaners, Spent
<1>2. QED  BY <1>1, FS_EmptySet DEF LeftBehind

\* Only deaths, and pairs of errors of which one is in the cleanup, leave a
\* directory behind that is no whole project, and each but one: the others are
\* removed by the command that made them, whatever the others do, but at the
\* slugs where a project was archived before its command was done.
THEOREM HalfMadeAlwaysAccounted == Spec => []HalfMadeAccounted
<1>1. WorkspaceInv /\ LeftBehind => HalfMadeAccounted
  <2> SUFFICES ASSUME WorkspaceInv, LeftBehind  PROVE HalfMadeAccounted
    OBVIOUS
  <2> DEFINE h == Cardinality(HalfMade)
             n == Cardinality(Cleaners)
             dead == MaxCrashes - crashes
             failed == MaxFaults - faults
  <2>1. h \in Nat /\ n \in Nat /\ dead \in Nat /\ failed \in Nat /\ 2 * h + n =< 2 * dead + failed
    BY HalfMadeCount, FS_CardinalityType, WorkspaceAssumption
       DEF LeftBehind, Spent, WorkspaceInv, TypeOK
  <2>2. HalfMadeAccounted <=> h =< dead + (failed \div 2)
    BY DEF HalfMadeAccounted
  <2> HIDE DEF h, n, dead, failed
  <2>3. h =< dead + (failed \div 2)
    BY <2>1
  <2>4. QED  BY <2>2, <2>3
<1>2. Spec => []WorkspaceInv
  BY WorkspaceInvariant
<1>3. WorkspaceInv /\ WorkspaceInv' /\ LeftBehind /\ [Next]_vars => LeftBehind'
  BY LeftBehindStep
<1>4. QED  BY <1>1, <1>2, <1>3, LeftBehindInit, PTL DEF Spec
=============================================================================
