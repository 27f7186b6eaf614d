------------------------------ MODULE Workspace -----------------------------
(***************************************************************************)
(* The projects' directories: workspace.Create, List and Resolve           *)
(* (internal/workspace/workspace.go) and the command that fills a new      *)
(* project (createProject in internal/cli/root.go).  Names, slugs and      *)
(* short IDs are sequences of parts, as far as equality and prefixes go.   *)
(***************************************************************************)
EXTENDS Naturals, Sequences, FiniteSets, SequencesExt

CONSTANTS
    Creators,       \* processes that run the command new
    Ids,            \* bound: the short IDs of the projects ever created
    NoId,           \* none yet
    ProjectNames,   \* names that users type
    Slugify,        \* name -> slug before any suffix
    NoSlug,         \* no project
    MaxEarly,       \* bound: slugs where a project is archived while it is created
    MaxCrashes,     \* bound: processes that die
    MaxFaults       \* bound: file and store errors

ASSUME WorkspaceAssumption ==
    /\ IsFiniteSet(Ids) /\ Ids # {} /\ NoId \notin Ids
    /\ IsFiniteSet(ProjectNames)
    /\ MaxEarly \in Nat /\ MaxCrashes \in Nat /\ MaxFaults \in Nat

VARIABLES
    dirs,           \* slug -> the directory of that name
    pc,             \* creator -> its next call
    id,             \* creator -> the ID of its project
    suffix,         \* creator -> which suffix of the slug it is at
    opened,         \* creator -> whose state.db it has open
    nameOf,         \* ID -> its project's name
    used,           \* the IDs drawn so far
    created,        \* the IDs and slugs that were reported and not archived since
    early,          \* slugs of which a project was archived while it was created
    crashes,        \* how many more may die
    faults          \* how many more calls may fail

vars == <<dirs, pc, id, suffix, opened, nameOf, used, created, early, crashes, faults>>

\* Every slug that is taken is a project's, so that the suffixes need not go
\* further than there are projects.
Numbers   == 1 .. Cardinality(Ids)
Numbered(base, k) == IF k = 1 THEN base ELSE Append(base, k)
Slugs     == {Numbered(Slugify[n], k) : n \in ProjectNames, k \in Numbers}

NoDir == [claimed |-> NoId, meta |-> NoId, input |-> NoId, seeded |-> {}]

\* Whose project.meta, input and tasks are in a directory that p claimed.
Dir == [claimed : Ids \cup {NoId}, meta : Ids \cup {NoId}, input : Ids \cup {NoId},
        seeded : SUBSET Ids]

CreatorPC == {"idle", "claim", "meta", "copy", "open", "seed", "close", "cleanup"}

Init ==
    /\ dirs = [s \in Slugs |-> NoDir]
    /\ pc = [c \in Creators |-> "idle"]
    /\ id = [c \in Creators |-> NoId]
    /\ suffix = [c \in Creators |-> 1]
    /\ opened = [c \in Creators |-> NoId]
    /\ nameOf = [i \in Ids |-> <<>>]
    /\ used = {}
    /\ created = {}
    /\ early = {}
    /\ crashes = MaxCrashes
    /\ faults = MaxFaults
-----------------------------------------------------------------------------
Goes(c, from, to) == pc[c] = from /\ pc' = [pc EXCEPT ![c] = to]

Slug(c)  == Numbered(Slugify[nameOf[id[c]]], suffix[c])
There(c) == dirs[Slug(c)] # NoDir

Placed(c) == dirs[Slug(c)].claimed = opened[c]

Listed == {s \in Slugs : dirs[s].meta # NoId}

\* The command's process exits.
Exits(c) ==
    /\ pc' = [pc EXCEPT ![c] = "idle"]
    /\ id' = [id EXCEPT ![c] = NoId]
    /\ suffix' = [suffix EXCEPT ![c] = 1]
    /\ opened' = [opened EXCEPT ![c] = NoId]

Outside == UNCHANGED <<nameOf, used, created, early, crashes, faults>>
Alone   == Outside /\ UNCHANGED <<id, suffix, opened>>

\* A short ID that is drawn, which is nobody's: it makes no difference which.
Drawn == CHOOSE i \in Ids \ used : TRUE

\* The names were read and there are some; a project gets its short ID.
New(c) == \E name \in ProjectNames :
    /\ Goes(c, "idle", "claim") /\ used # Ids
    /\ id' = [id EXCEPT ![c] = Drawn]
    /\ nameOf' = [nameOf EXCEPT ![Drawn] = name]
    /\ used' = used \cup {Drawn}
    /\ UNCHANGED <<dirs, suffix, opened, created, early, crashes, faults>>

\* Mutated: MkdirAll, which is content with a directory that is there.
ClaimAny(c) ==
    /\ Goes(c, "claim", "meta")
    /\ dirs' = [dirs EXCEPT ![Slug(c)].claimed = id[c]]
    /\ Alone

\* Mutated: every round tries the same slug.
ClaimSame(c) ==
    \/ /\ Goes(c, "claim", "meta")
       /\ ~There(c)
       /\ dirs' = [dirs EXCEPT ![Slug(c)].claimed = id[c]]
       /\ Alone
    \/ /\ Goes(c, "claim", "claim")
       /\ There(c)
       /\ UNCHANGED dirs /\ Alone

\* Mkdir, which one process wins; the others go on to the next suffix.
Claim(c) ==
    \/ /\ Goes(c, "claim", "meta")
       /\ ~There(c)
       /\ dirs' = [dirs EXCEPT ![Slug(c)].claimed = id[c]]
       /\ Alone
    \/ /\ Goes(c, "claim", "claim")
       /\ There(c) /\ suffix[c] < Cardinality(Ids)
       /\ suffix' = [suffix EXCEPT ![c] = @ + 1]
       /\ UNCHANGED <<dirs, id, opened>> /\ Outside

\* MkdirAll, which makes the directory anew if it is gone, and project.meta:
\* from here on it is in every list.
WriteMeta(c) ==
    /\ Goes(c, "meta", "copy")
    /\ dirs' = [dirs EXCEPT ![Slug(c)].meta = id[c],
                            ![Slug(c)].claimed = IF There(c) THEN @ ELSE id[c]]
    /\ Alone

\* copyInput fails in a directory that is gone, and OpenProject in one without
\* subdirectories.
CopyInput(c) ==
    /\ Goes(c, "copy", IF There(c) THEN "open" ELSE "cleanup")
    /\ dirs' = IF There(c) THEN [dirs EXCEPT ![Slug(c)].input = id[c]] ELSE dirs
    /\ Alone

OpenProject(c) ==
    /\ Goes(c, "open", IF Slug(c) \in Listed THEN "seed" ELSE "cleanup")
    /\ opened' = [opened EXCEPT ![c] = dirs[Slug(c)].claimed]
    /\ UNCHANGED <<dirs, id, suffix>> /\ Outside

\* Mutated: the creation is reported before the tasks are in the database.
SeedLater(c) ==
    /\ Goes(c, "seed", "close")
    /\ UNCHANGED dirs /\ Alone

\* One transaction.  When state.db is not any more where it was opened, that
\* fails, or goes into the file that was moved away.
Seed(c) ==
    \/ /\ Goes(c, "seed", "close") /\ Placed(c)
       /\ dirs' = [dirs EXCEPT ![Slug(c)].seeded = @ \cup {id[c]}]
       /\ Alone
    \/ /\ Goes(c, "seed", "close") \/ Goes(c, "seed", "cleanup")
       /\ ~Placed(c)
       /\ UNCHANGED dirs /\ Alone

\* state.db is closed and the project reported to the user.
Report(c) ==
    /\ pc[c] = "close" /\ Exits(c)
    /\ created' = created \cup {<<id[c], Slug(c)>>}
    /\ UNCHANGED <<dirs, nameOf, used, early, crashes, faults>>

\* Mutated: the project is left as it is after an error.
CleanupNothing(c) ==
    /\ pc[c] = "cleanup" /\ Exits(c)
    /\ UNCHANGED dirs /\ Outside

\* RemoveAll of the path, whatever is there by then.
Cleanup(c) ==
    /\ pc[c] = "cleanup" /\ Exits(c)
    /\ dirs' = [dirs EXCEPT ![Slug(c)] = NoDir]
    /\ Outside
-----------------------------------------------------------------------------
\* A call fails and the half made project is removed; when that fails too, it
\* stays behind.
Fails(c) ==
    /\ faults > 0 /\ faults' = faults - 1
    /\ \/ /\ pc[c] \in {"meta", "copy", "open", "seed", "close"}
          /\ pc' = [pc EXCEPT ![c] = "cleanup"]
          /\ UNCHANGED <<id, suffix, opened>>
       \/ /\ pc[c] \in {"claim", "cleanup"}
          /\ Exits(c)
    /\ UNCHANGED <<dirs, nameOf, used, created, early, crashes>>

Crash(c) ==
    /\ pc[c] # "idle" /\ Exits(c)
    /\ crashes > 0 /\ crashes' = crashes - 1
    /\ UNCHANGED <<dirs, nameOf, used, created, early, faults>>

MadeAt(s) == \E c \in Creators : pc[c] \notin {"idle", "claim"} /\ Slug(c) = s

\* Somebody archives a project that is listed, and its slug is free again, even
\* if the command that made it goes on.
Archive(s) ==
    /\ s \in Listed
    /\ created' = {p \in created : p[1] # dirs[s].meta}
    /\ early' = IF MadeAt(s) THEN early \cup {s} ELSE early
    /\ Cardinality(early') =< MaxEarly
    /\ dirs' = [dirs EXCEPT ![s] = NoDir]
    /\ UNCHANGED <<pc, id, suffix, opened, nameOf, used, crashes, faults>>

CreatorStep(c) ==
    \/ Claim(c)
    \/ WriteMeta(c)
    \/ CopyInput(c)
    \/ OpenProject(c)
    \/ Seed(c)
    \/ Report(c)
    \/ Cleanup(c)

Next ==
    \/ \E c \in Creators : New(c) \/ CreatorStep(c) \/ Fails(c) \/ Crash(c)
    \/ \E s \in Slugs : Archive(s)

Spec == Init /\ [][Next]_vars

FairSpec == Spec /\ \A c \in Creators : WF_vars(CreatorStep(c))
-----------------------------------------------------------------------------
(* Resolve *)

NameOf(s) == nameOf[dirs[s].meta]
ShortId(s) == <<dirs[s].meta>>

\* What means a project exactly.
References(s) == {ShortId(s), s, NameOf(s)}

Exact(ref) == {s \in Listed : ref \in References(s)}

Prefixed(ref) == {s \in Listed : \/ IsPrefix(ref, ShortId(s))
                                 \/ IsPrefix(ref, s)
                                 \/ IsPrefix(ref, NameOf(s))}

\* Mutated: of several projects that are meant exactly, the latest is taken.
ResolveLatest(ref) ==
    CASE Exact(ref) # {} -> CHOOSE s \in Exact(ref) : \A t \in Exact(ref) : Len(t) =< Len(s)
      [] Exact(ref) = {} /\ Cardinality(Prefixed(ref)) = 1 -> CHOOSE s \in Prefixed(ref) : TRUE
      [] OTHER -> NoSlug

\* The one project that is meant exactly, or else by an unambiguous prefix.
Resolve(ref) ==
    CASE Cardinality(Exact(ref)) = 1 -> CHOOSE s \in Exact(ref) : TRUE
      [] Exact(ref) = {} /\ Cardinality(Prefixed(ref)) = 1 -> CHOOSE s \in Prefixed(ref) : TRUE
      [] OTHER -> NoSlug
-----------------------------------------------------------------------------
TypeOK ==
    /\ dirs \in [Slugs -> Dir]
    /\ pc \in [Creators -> CreatorPC]
    /\ id \in [Creators -> Ids \cup {NoId}]
    /\ suffix \in [Creators -> Numbers]
    /\ opened \in [Creators -> Ids \cup {NoId}]
    /\ nameOf \in [Ids -> ProjectNames \cup {<<>>}]
    /\ used \subseteq Ids /\ created \subseteq used \X Slugs
    /\ early \subseteq Slugs
    /\ crashes \in 0 .. MaxCrashes
    /\ faults \in 0 .. MaxFaults

\* A project's directory holds the metadata, the input and the tasks of one
\* creation alone, however many create projects of the same name at once, fail,
\* clean up and are archived; but for the slugs where an archive took a project
\* away from the command that was still creating it, which goes on there by path.
Isolated ==
    \A s \in Slugs \ early :
        /\ dirs[s].meta \in {NoId, dirs[s].claimed}
        /\ dirs[s].input \in {NoId, dirs[s].claimed}
        /\ dirs[s].seeded \subseteq {dirs[s].claimed}

Whole(s, i) == dirs[s] = [claimed |-> i, meta |-> i, input |-> i, seeded |-> {i}]

\* A project that was reported to the user is at its slug with its input and its
\* tasks until it is archived: nobody else's error removes it, unless a project
\* was archived under a command that was creating it at that very slug.
CreatedStays ==
    \A p \in created : p[2] \notin early => Whole(p[2], p[1])

\* A directory that is not a whole project belongs to a command that still
\* runs, or was left by one that died or could not clean up; again but for the
\* slugs of early archives.
HalfMade == {s \in Slugs \ early : /\ dirs[s] # NoDir /\ ~MadeAt(s)
                                   /\ \A i \in Ids : ~Whole(s, i)}

HalfMadeAccounted ==
    Cardinality(HalfMade) =< (MaxCrashes - crashes) + ((MaxFaults - faults) \div 2)

\* A reference that means a project exactly never comes to mean another one
\* while that project is there: it may become ambiguous, no more.
ReferenceNeverMoves ==
    [][\A s \in Listed : \A ref \in References(s) :
          Exact(ref) = {s} /\ dirs'[s].meta = dirs[s].meta
              => Resolve(ref)' \in {s, NoSlug}]_vars

\* Creating a project comes to an end, whichever slugs are taken.
CreateEnds == \A c \in Creators : pc[c] # "idle" ~> pc[c] = "idle"
=============================================================================
