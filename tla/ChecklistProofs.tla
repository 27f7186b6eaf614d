-------------------------- MODULE ChecklistProofs ---------------------------
(***************************************************************************)
(* The list of names, for every table, and what the command status says of *)
(* a project, for every set of sources and every order of workers,         *)
(* reviews, retries, deaths and queries, as long as executors hold the     *)
(* project's lock one at a time (ScoutProofs shows when they do).          *)
(***************************************************************************)
EXTENDS Checklist, FunctionTheorems, FiniteSetTheorems, TLAPS

Reading == {"titles", "rows"}
Asking  == {"count", "statuses"}

\* A project's tasks are those of its names, from the moment it is seeded.
TasksOK ==
    /\ tasks \in [DOMAIN tasks -> Statuses]
    /\ IsFiniteSet(DOMAIN tasks)
    /\ pc \in Reading \cup {"seed"} \cup Asking
    /\ DOMAIN tasks = IF pc \in Asking THEN Said(names) \X Checks ELSE {}

\* What was said is no more than what is so.
SaidOK ==
    /\ counted \in Nat /\ CountNotAhead
    /\ pc \notin Asking => label = "draft"
    /\ label = "completed" => \A t \in DOMAIN tasks : tasks[t] \in Confirmed

\* The one executor that is at a task is at one that has no result yet, and
\* nobody else gives it one.
BusyOK ==
    /\ doing \in [Executors -> SUBSET DOMAIN tasks]
    /\ \A d, e \in Executors : doing[d] # {} /\ doing[e] # {} => d = e
    /\ \A e \in Executors : \A t \in doing[e] : tasks[t] \in {"running", "needs_review"}

\* The inductive invariant of what comes after the import.
ChecklistInv == TasksOK /\ BusyOK /\ SaidOK
-----------------------------------------------------------------------------
(* Reading the list *)

\* The titles of the first row that were seen, the rows that were read of those
\* that are due, and all that was in the rows that were read.
Seen   == {c \in TitledColumns(table) : c < pos}
Before == {i \in FirstSaid(table, excel) : i < pos}
Heard  == {Says(table, excel, i) : i \in 1 .. pos - 1} \ {NoWord}

TitlesOK ==
    /\ excel /\ table # <<>> /\ names = <<>>
    /\ pos =< Len(table[1]) + 1
    /\ IF Seen = {} THEN column = 1 /\ start = 1
       ELSE column \in Seen /\ start = 2 /\ \A c \in Seen : c =< column

\* What was read is due so far, in its order, and nothing else is.
RowsOK ==
    /\ column = NameColumn(table, excel)
    /\ pos =< Len(table) + 1
    /\ HasTitle(table, excel) => pos > 1
    /\ Len(names) = Cardinality(Before)
    /\ \A k \in 1 .. Len(names) : names[k] = Says(table, excel, Nth(FirstSaid(table, excel), k))
    /\ Said(names) = Heard

ImportInv ==
    /\ pc \in Reading \cup {"seed"} \cup Asking
    /\ names \in Seq(Words)
    /\ pc \in Reading =>
        /\ table \in Seq(Seq(Cell)) /\ excel \in BOOLEAN
        /\ column \in Nat \ {0} /\ start \in {1, 2} /\ pos \in Nat \ {0}
        /\ due = Due(table, excel)
    /\ pc = "titles" => TitlesOK
    /\ pc = "rows" => RowsOK
    /\ pc \notin Reading => names = due

\* The k-th of a finite set is the one that has k up to it.
LEMMA NthFound ==
    ASSUME NEW S \in SUBSET Nat, IsFiniteSet(S), NEW i \in S
    PROVE  Nth(S, Cardinality(UpTo(S, i))) = i
<1>1. \A j \in S : IsFiniteSet(UpTo(S, j)) /\ Cardinality(UpTo(S, j)) \in Nat
  BY FS_Subset, FS_CardinalityType DEF UpTo
<1>2. ASSUME NEW j \in S, NEW k \in S, j < k
      PROVE  Cardinality(UpTo(S, j)) < Cardinality(UpTo(S, k))
  <2>1. UpTo(S, j) \in SUBSET UpTo(S, k) /\ k \in UpTo(S, k) /\ k \notin UpTo(S, j)
    <3>1. j \in Nat /\ k \in Nat /\ \A l \in S : l \in Nat
      OBVIOUS
    <3>2. \A l \in S : l =< j => l =< k
      BY <1>2, <3>1
    <3>3. k =< k /\ ~(k =< j)
      BY <1>2, <3>1
    <3>4. QED  BY <3>2, <3>3 DEF UpTo
  <2>2. QED  BY <1>1, <2>1, FS_Subset
<1>3. \A j \in S : Cardinality(UpTo(S, j)) = Cardinality(UpTo(S, i)) => j = i
  <2> SUFFICES ASSUME NEW j \in S, Cardinality(UpTo(S, j)) = Cardinality(UpTo(S, i)), j # i
               PROVE  FALSE
    OBVIOUS
  <2>1. j < i \/ i < j
    OBVIOUS
  <2>2. QED  BY <1>1, <1>2, <2>1
<1>4. QED  BY <1>3 DEF Nth

\* What the text of a table can be asked.
LEMMA TableFacts ==
    ASSUME NEW t \in Seq(Seq(Cell)), NEW x \in BOOLEAN
    PROVE  /\ FirstSaid(t, x) \in SUBSET (1 .. Len(t)) /\ IsFiniteSet(FirstSaid(t, x))
           /\ HasTitle(t, x) => TitledColumns(t) \in SUBSET (1 .. Len(t[1]))
           /\ \A i \in 1 .. Len(t) : Says(t, x, i) \in Words \cup {NoWord}
<1>1. FirstSaid(t, x) \in SUBSET (1 .. Len(t))
  BY DEF FirstSaid
<1>2. IsFiniteSet(FirstSaid(t, x))
  BY <1>1, FS_Interval, FS_Subset
<1>3. \A i \in 1 .. Len(t) : t[i] \in Seq(Cell)
  OBVIOUS
<1>4. HasTitle(t, x) => TitledColumns(t) \in SUBSET (1 .. Len(t[1]))
  BY <1>3 DEF HasTitle, TitledColumns
<1>5. ASSUME NEW i \in 1 .. Len(t) PROVE Says(t, x, i) \in Words \cup {NoWord}
  <2>1. \A c \in DOMAIN t[i] : t[i][c].word \in Words \cup {NoWord}
    <3>1. \A c \in DOMAIN t[i] : t[i][c] \in Cell
      BY <1>3
    <3>2. \A cell \in Cell : cell.word \in Words \cup {NoWord}
      BY DEF Cell
    <3>3. QED  BY <3>1, <3>2
  <2>2. QED  BY <2>1 DEF Says
<1>6. QED  BY <1>1, <1>2, <1>4, <1>5

\* Before the first row that counts nothing is due.
LEMMA NothingRead ==
    ASSUME NEW t \in Seq(Seq(Cell)), NEW x \in BOOLEAN, NEW n \in {1, 2},
           n = 2 => HasTitle(t, x)
    PROVE  /\ \A i \in 1 .. n - 1 : Says(t, x, i) = NoWord
           /\ {i \in FirstSaid(t, x) : i < n} = {}
<1>1. \A i \in 1 .. n - 1 : Says(t, x, i) = NoWord
  BY DEF Says
<1>2. \A i \in FirstSaid(t, x) : i \in Nat \ {0} /\ Says(t, x, i) # NoWord
  <2>1. \A i \in FirstSaid(t, x) : Says(t, x, i) # NoWord
    BY DEF FirstSaid
  <2>2. QED  BY <2>1, TableFacts
<1>3. QED  BY <1>1, <1>2

LEMMA ImportInvInit == Init => ImportInv
<1> SUFFICES ASSUME Init PROVE ImportInv
  OBVIOUS
<1>1. /\ table \in Seq(Seq(Cell)) /\ excel \in BOOLEAN /\ due = Due(table, excel)
      /\ column = 1 /\ start = 1 /\ pos = 1 /\ names = <<>>
      /\ pc = IF excel /\ table # <<>> THEN "titles" ELSE "rows"
  BY ImporterAssumption DEF Init, ImportInit
<1>2. names \in Seq(Words) /\ Len(names) = 0 /\ Said(names) = {}
  BY <1>1 DEF Said
<1>3. CASE excel /\ table # <<>>
  <2>1. table[1] \in Seq(Cell)
    BY <1>1, <1>3
  <2>2. Seen = {}
    BY <1>1, <2>1 DEF Seen, TitledColumns
  <2>3. QED  BY <1>1, <1>2, <1>3, <2>1, <2>2 DEF ImportInv, TitlesOK, Reading, Asking
<1>4. CASE ~(excel /\ table # <<>>)
  <2>1. ~HasTitle(table, excel)
    BY <1>4 DEF HasTitle
  <2>2. Cardinality(Before) = 0 /\ Heard = {}
    <3>1. /\ \A i \in 1 .. 1 - 1 : Says(table, excel, i) = NoWord
          /\ {i \in FirstSaid(table, excel) : i < 1} = {}
      BY <1>1, NothingRead
    <3>2. Before = {} /\ Heard = {}
      BY <1>1, <3>1 DEF Before, Heard
    <3>3. QED  BY <3>2, FS_EmptySet
  <2>3. column = NameColumn(table, excel) /\ pos =< Len(table) + 1
    BY <1>1, <2>1 DEF NameColumn
  <2>4. RowsOK
    BY <1>2, <2>1, <2>2, <2>3 DEF RowsOK
  <2>5. QED  BY <1>1, <1>2, <1>4, <2>4 DEF ImportInv, Reading, Asking
<1>5. QED  BY <1>3, <1>4

LEMMA ReadTitleStep ==
    ASSUME ImportInv, ReadTitle
    PROVE  ImportInv'
<1>1. /\ pc = "titles" /\ pc' = "titles" /\ pos' = pos + 1
      /\ UNCHANGED <<table, excel, due, names>>
      /\ pos \in DOMAIN table[1]
  BY DEF ReadTitle
<1>2. /\ table \in Seq(Seq(Cell)) /\ pos \in Nat \ {0} /\ TitlesOK /\ column \in Nat \ {0}
      /\ start \in {1, 2}
  BY <1>1 DEF ImportInv, Reading
<1>3. table[1] \in Seq(Cell)
  BY <1>2 DEF TitlesOK
<1>4. \A c \in TitledColumns(table) : c \in 1 .. Len(table[1])
  BY <1>3 DEF TitledColumns
<1>5. CASE Normalize(table[1][pos]) \in Titles
  <2>1. Seen' = Seen \cup {pos}
    BY <1>1, <1>2, <1>4, <1>5 DEF Seen, TitledColumns, Normalize
  <2>2. column' = pos /\ start' = 2
    BY <1>5 DEF ReadTitle
  <2>3. \A c \in Seen : c < pos
    BY DEF Seen
  <2>4. /\ Seen' # {} /\ column' \in Seen' /\ start' = 2 /\ \A c \in Seen' : c =< column'
    <3>1. \A c \in Seen : c =< pos
      BY <1>2, <1>4, <2>3 DEF Seen
    <3>2. QED  BY <1>2, <2>1, <2>2, <3>1
  <2>5. pos' =< Len(table[1]) + 1 /\ table' = table
    BY <1>1, <1>2, <1>3
  <2>6. TitlesOK'
    BY <1>1, <1>2, <2>4, <2>5 DEF TitlesOK
  <2>7. QED  BY <1>1, <1>2, <2>2, <2>6 DEF ImportInv, Reading
<1>6. CASE Normalize(table[1][pos]) \notin Titles
  <2>1. Seen' = Seen
    BY <1>1, <1>2, <1>4, <1>6 DEF Seen, TitledColumns, Normalize
  <2>2. UNCHANGED <<column, start>>
    BY <1>6 DEF ReadTitle
  <2>3. TitlesOK'
    BY <1>1, <1>2, <1>3, <2>1, <2>2 DEF TitlesOK
  <2>4. QED  BY <1>1, <1>2, <2>2, <2>3 DEF ImportInv, Reading
<1>7. QED  BY <1>5, <1>6

LEMMA EndTitlesStep ==
    ASSUME ImportInv, EndTitles
    PROVE  ImportInv'
<1>1. /\ pc = "titles" /\ pc' = "rows" /\ pos' = start
      /\ UNCHANGED <<table, excel, due, column, start, names>>
      /\ pos \notin DOMAIN table[1]
  BY DEF EndTitles
<1>2. /\ table \in Seq(Seq(Cell)) /\ pos \in Nat \ {0} /\ TitlesOK /\ start \in {1, 2}
      /\ excel \in BOOLEAN /\ excel
  BY <1>1 DEF ImportInv, Reading, TitlesOK
<1>3. table[1] \in Seq(Cell) /\ Len(table) > 0
  BY <1>2 DEF TitlesOK
<1>4. Seen = TitledColumns(table) /\ TitledColumns(table) \in SUBSET Nat
  BY <1>1, <1>2, <1>3 DEF Seen, TitledColumns
<1>5. HasTitle(table, excel) <=> TitledColumns(table) # {}
  BY <1>2 DEF HasTitle, TitlesOK
<1>6. column = NameColumn(table, excel) /\ start = IF HasTitle(table, excel) THEN 2 ELSE 1
  <2>1. CASE Seen = {}
    <3>1. ~HasTitle(table, excel) /\ column = 1 /\ start = 1
      BY <1>2, <1>4, <1>5, <2>1 DEF TitlesOK
    <3>2. QED  BY <3>1 DEF NameColumn
  <2>2. CASE Seen # {}
    <3>1. column \in Seen /\ start = 2 /\ \A c \in Seen : c =< column
      BY <1>2, <2>2 DEF TitlesOK
    <3>2. \A c \in TitledColumns(table) : (\A d \in TitledColumns(table) : d =< c) => c = column
      BY <1>4, <3>1
    <3>3. QED  BY <1>4, <1>5, <2>2, <3>1, <3>2 DEF NameColumn
  <2>3. QED  BY <2>1, <2>2
<1>7. Cardinality(Before') = 0 /\ Heard' = {}
  <2>1. /\ \A i \in 1 .. start - 1 : Says(table, excel, i) = NoWord
        /\ {i \in FirstSaid(table, excel) : i < start} = {}
    <3>1. start = 2 => HasTitle(table, excel)
      BY <1>6
    <3>2. QED  BY <1>2, <3>1, NothingRead
  <2>2. Before' = {} /\ Heard' = {}
    BY <1>1, <2>1 DEF Before, Heard
  <2>3. QED  BY <2>2, FS_EmptySet
<1>8. names = <<>> /\ names' = <<>> /\ Len(names') = 0 /\ Said(names') = {}
  BY <1>1, <1>2 DEF TitlesOK, Said
<1>9. RowsOK'
  <2>1. column' = NameColumn(table', excel')
    BY <1>1, <1>6
  <2>2. pos' =< Len(table') + 1 /\ (HasTitle(table', excel') => pos' > 1)
    <3>1. table' = table /\ excel' = excel /\ pos' = start
      BY <1>1
    <3>2. start =< Len(table) + 1 /\ (HasTitle(table, excel) => start > 1)
      <4>1. Len(table) \in Nat /\ start \in Nat /\ start =< 2
        BY <1>2
      <4>2. HasTitle(table, excel) => start = 2
        BY <1>6
      <4>3. QED  BY <1>3, <4>1, <4>2
    <3>3. QED  BY <3>1, <3>2
  <2>3. QED  BY <1>7, <1>8, <2>1, <2>2 DEF RowsOK
<1>10. QED  BY <1>1, <1>2, <1>9 DEF ImportInv, Reading

\* A row that is read says what is due next, or nothing new.
LEMMA ReadRowStep ==
    ASSUME ImportInv, ReadRow
    PROVE  ImportInv'
<1> DEFINE S    == FirstSaid(table, excel)
           said == Says(table, excel, pos)
<1>1. /\ pc = "rows" /\ pc' = "rows" /\ pos' = pos + 1 /\ pos \in DOMAIN table
      /\ UNCHANGED <<table, excel, due, column, start>>
  BY DEF ReadRow
<1>2. /\ table \in Seq(Seq(Cell)) /\ excel \in BOOLEAN /\ pos \in 1 .. Len(table)
      /\ RowsOK /\ names \in Seq(Words)
      /\ column \in Nat \ {0} /\ start \in {1, 2} /\ due = Due(table, excel)
  BY <1>1 DEF ImportInv, Reading
<1>3. names' = StableUnique(names, said)
  <2>1. table[pos] \in Seq(Cell)
    BY <1>2
  <2>2. column \in DOMAIN table[pos] <=> column =< Len(table[pos])
    BY <1>2, <2>1
  <2>3. said = IF column =< Len(table[pos]) THEN table[pos][column].word ELSE NoWord
    <3>1. ~(pos = 1 /\ HasTitle(table, excel)) /\ column = NameColumn(table, excel)
      BY <1>2 DEF RowsOK
    <3>2. QED  BY <2>2, <3>1 DEF Says
  <2>4. QED  BY <2>3 DEF ReadRow, StableUnique, Normalize
<1>4. S \in SUBSET Nat /\ IsFiniteSet(S) /\ said \in Words \cup {NoWord}
  BY <1>2, TableFacts
<1>5. IsFiniteSet(Before) /\ Cardinality(Before) \in Nat
  BY <1>4, FS_Subset, FS_CardinalityType DEF Before
<1>6. Heard' = Said(names) \cup ({said} \ {NoWord})
  <2>1. 1 .. pos = (1 .. pos - 1) \cup {pos}
    BY <1>2
  <2>2. pos' - 1 = pos
    BY <1>1, <1>2
  <2>3. Heard' = {Says(table, excel, i) : i \in 1 .. pos} \ {NoWord}
    BY <1>1, <2>2 DEF Heard
  <2>4. Said(names) = {Says(table, excel, i) : i \in 1 .. pos - 1} \ {NoWord}
    BY <1>2 DEF RowsOK, Heard
  <2>5. QED  BY <2>1, <2>3, <2>4
<1>7. pos \in S <=> said # NoWord /\ said \notin Said(names)
  BY <1>2 DEF FirstSaid, RowsOK, Heard
<1>8. CASE pos \in S
  <2>1. names' = Append(names, said) /\ said \in Words
    BY <1>3, <1>4, <1>7, <1>8 DEF StableUnique
  <2>2. Before' = Before \cup {pos} /\ pos \notin Before /\ Before' = UpTo(S, pos)
    BY <1>1, <1>2, <1>4, <1>8 DEF Before, UpTo
  <2>3. Cardinality(Before') = Cardinality(Before) + 1
    BY <1>5, <2>2, FS_AddElement
  <2>4. Nth(S, Len(names) + 1) = pos
    <3>1. Nth(S, Cardinality(UpTo(S, pos))) = pos
      BY <1>4, <1>8, NthFound
    <3>2. QED  BY <1>2, <2>2, <2>3, <3>1 DEF RowsOK
  <2>5. /\ names' \in Seq(Words) /\ Len(names') = Len(names) + 1
        /\ \A k \in 1 .. Len(names) : names'[k] = names[k]
        /\ names'[Len(names) + 1] = said
    BY <1>2, <2>1
  <2>6. \A k \in 1 .. Len(names') : names'[k] = Says(table, excel, Nth(S, k))
    <3>1. \A k \in 1 .. Len(names) : names[k] = Says(table, excel, Nth(S, k))
      BY <1>2 DEF RowsOK
    <3>2. 1 .. Len(names') = (1 .. Len(names)) \cup {Len(names) + 1}
      BY <1>2, <2>5
    <3>3. QED  BY <2>4, <2>5, <3>1, <3>2
  <2>7. Said(names') = Said(names) \cup {said}
    <3>1. 1 .. Len(names') = (1 .. Len(names)) \cup {Len(names) + 1}
      BY <1>2, <2>5
    <3>2. QED  BY <2>5, <3>1 DEF Said
  <2>8. Said(names') = Heard'
    BY <1>6, <1>7, <1>8, <2>7
  <2>9. RowsOK'
    BY <1>1, <1>2, <2>3, <2>5, <2>6, <2>8 DEF RowsOK
  <2>10. QED  BY <1>1, <1>2, <2>5, <2>9 DEF ImportInv, Reading
<1>9. CASE pos \notin S
  <2>1. names' = names
    BY <1>3, <1>7, <1>9 DEF StableUnique
  <2>2. Before' = Before
    BY <1>1, <1>2, <1>4, <1>9 DEF Before
  <2>3. Said(names') = Heard'
    BY <1>6, <1>7, <1>9, <2>1
  <2>4. RowsOK'
    BY <1>1, <1>2, <2>1, <2>2, <2>3 DEF RowsOK
  <2>5. QED  BY <1>1, <1>2, <2>1, <2>4 DEF ImportInv, Reading
<1>10. QED  BY <1>8, <1>9

LEMMA EndRowsStep ==
    ASSUME ImportInv, EndRows
    PROVE  ImportInv'
<1> DEFINE S == FirstSaid(table, excel)
<1>1. /\ pc = "rows" /\ pc' = "seed" /\ pos \notin DOMAIN table /\ UNCHANGED <<due, names>>
  BY DEF EndRows
<1>2. /\ table \in Seq(Seq(Cell)) /\ excel \in BOOLEAN /\ pos \in Nat \ {0}
      /\ RowsOK /\ names \in Seq(Words) /\ due = Due(table, excel)
  BY <1>1 DEF ImportInv, Reading
<1>3. Before = S
  BY <1>1, <1>2, TableFacts DEF Before
<1>4. /\ Len(names) = Cardinality(S)
      /\ \A k \in 1 .. Cardinality(S) : names[k] = Says(table, excel, Nth(S, k))
  BY <1>2, <1>3 DEF RowsOK
<1>5. names = [k \in 1 .. Cardinality(S) |-> Says(table, excel, Nth(S, k))]
  <2>1. names = [k \in 1 .. Len(names) |-> names[k]]
    BY <1>2
  <2>2. QED  BY <1>4, <2>1
<1>6. names = due
  BY <1>2, <1>5 DEF Due
<1>7. QED  BY <1>1, <1>2, <1>6 DEF ImportInv, Reading, Asking

LEMMA ImportInvariant == Spec => []ImportInv
<1>1. ASSUME ImportInv, [Next]_vars PROVE ImportInv'
  <2>1. CASE Import
    BY <1>1, <2>1, ReadTitleStep, EndTitlesStep, ReadRowStep, EndRowsStep DEF Import
  <2>2. CASE UNCHANGED importVars
    BY <1>1, <2>2
       DEF importVars, ImportInv, TitlesOK, RowsOK, Seen, Before, Heard
  <2>3. CASE UNCHANGED fileVars /\ pc \in {"seed"} \cup Asking /\ pc' \in {"seed"} \cup Asking
    BY <1>1, <2>3 DEF fileVars, ImportInv, Reading, Asking
  <2>4. QED
    BY <1>1, <2>1, <2>2, <2>3
       DEF Next, vars, Seed, Claim, Recover, Review, Complete, Leave, Becomes, RetryFailures,
           ReadCount, ReadStatuses, Asking
<1>2. QED  BY <1>1, ImportInvInit, PTL DEF Spec
-----------------------------------------------------------------------------
(* Counting *)

LEMMA NamesSaidFinite ==
    ASSUME NEW list, Len(list) \in Nat
    PROVE  IsFiniteSet(Said(list) \X Checks)
<1> DEFINE f == [k \in 1 .. Len(list) |-> list[k]]
<1>1. IsFiniteSet(1 .. Len(list))
  BY FS_Interval
<1>2. f \in [1 .. Len(list) -> Said(list)] /\ \A s \in Said(list) : \E k \in 1 .. Len(list) : f[k] = s
  BY DEF Said
<1>3. f \in Surjection(1 .. Len(list), Said(list))
  BY <1>2, Fun_IsSurj
<1>4. IsFiniteSet(Said(list))
  BY <1>1, <1>3, FS_Surjection
<1>5. QED  BY <1>4, FS_Product, ChecklistAssumption

\* What is confirmed, as a number.
LEMMA ConfirmedCount ==
    ASSUME NEW row, IsFiniteSet(DOMAIN row)
    PROVE  IsFiniteSet(With(Confirmed, row)) /\ Cardinality(With(Confirmed, row)) \in Nat
<1>1. With(Confirmed, row) \in SUBSET DOMAIN row
  BY DEF With
<1>2. QED  BY <1>1, FS_Subset, FS_CardinalityType

\* Tasks that change keep what is confirmed, and what was said with it.
LEMMA SaidStays ==
    ASSUME ChecklistInv, TasksOK', BusyOK', UNCHANGED <<names, pc, counted, label>>,
           DOMAIN tasks' = DOMAIN tasks,
           \A t \in DOMAIN tasks : tasks[t] \in Confirmed => tasks'[t] = tasks[t]
    PROVE  ChecklistInv'
<1>1. With(Confirmed, tasks) \subseteq With(Confirmed, tasks')
  BY DEF With
<1>2. IsFiniteSet(DOMAIN tasks) /\ IsFiniteSet(DOMAIN tasks')
  BY DEF ChecklistInv, TasksOK
<1>3. /\ Cardinality(With(Confirmed, tasks)) =< Cardinality(With(Confirmed, tasks'))
      /\ Cardinality(With(Confirmed, tasks)) \in Nat /\ Cardinality(With(Confirmed, tasks')) \in Nat
  BY <1>1, <1>2, ConfirmedCount, FS_Subset
<1>4. CountNotAhead'
  BY <1>3 DEF ChecklistInv, SaidOK, CountNotAhead
<1>5. QED  BY <1>4 DEF ChecklistInv, SaidOK
-----------------------------------------------------------------------------
(* Each step *)

LEMMA ImportStep ==
    ASSUME ChecklistInv, Import, UNCHANGED <<tasks, doing, counted, label>>
    PROVE  ChecklistInv'
<1>1. pc \in Reading /\ pc' \in Reading \cup {"seed"} /\ UNCHANGED <<tasks, counted, label>>
  BY DEF Import, ReadTitle, EndTitles, ReadRow, EndRows, Reading
<1>2. TasksOK'
  BY <1>1 DEF ChecklistInv, TasksOK, Reading, Asking
<1>3. SaidOK'
  BY <1>1 DEF ChecklistInv, SaidOK, CountNotAhead, Reading, Asking
<1>4. BusyOK'
  BY DEF ChecklistInv, BusyOK
<1>5. QED  BY <1>2, <1>3, <1>4 DEF ChecklistInv

LEMMA SeedStep ==
    ASSUME ChecklistInv, Seed
    PROVE  ChecklistInv'
<1>1. /\ pc = "seed" /\ pc' = "count" /\ UNCHANGED <<names, doing, counted, label>>
      /\ Len(names) \in Nat
      /\ tasks' = [t \in Said(names) \X Checks |-> "pending"]
  BY ChecklistAssumption DEF Seed, fileVars
<1>2. DOMAIN tasks = {} /\ label = "draft"
  BY <1>1 DEF ChecklistInv, TasksOK, SaidOK, Asking
<1>3. TasksOK'
  BY <1>1, NamesSaidFinite DEF TasksOK, Asking, Statuses
<1>4. counted = 0
  <2>1. With(Confirmed, tasks) = {}
    BY <1>2 DEF With
  <2>2. QED  BY <2>1, FS_EmptySet DEF ChecklistInv, SaidOK, CountNotAhead
<1>5. CountNotAhead'
  BY <1>1, <1>3, <1>4, ConfirmedCount DEF TasksOK, CountNotAhead
<1>6. BusyOK'
  <2>1. \A e \in Executors : doing[e] = {}
    BY <1>2 DEF ChecklistInv, BusyOK
  <2>2. QED  BY <1>1, <2>1 DEF ChecklistInv, BusyOK
<1>7. QED  BY <1>1, <1>2, <1>3, <1>4, <1>5, <1>6 DEF ChecklistInv, SaidOK

\* A task that is claimed, given back or settled is not confirmed, and is the
\* only one that anybody is at.
LEMMA TaskStep ==
    ASSUME ChecklistInv, Exclusive, NEW e \in Executors,
           \/ \E t \in DOMAIN tasks : Claim(e, t) \/ Recover(e, t)
           \/ Complete(e)
    PROVE  ChecklistInv'
<1>1. PICK t \in DOMAIN tasks, status \in Statuses, next \in SUBSET DOMAIN tasks :
        /\ Becomes(t, status) /\ tasks[t] \notin Confirmed
        /\ doing' = [doing EXCEPT ![e] = next]
        /\ next \subseteq {t} /\ (next # {} => status = "running")
        /\ \A d \in Executors \ {e} : doing[d] = {}
  <2>1. CASE \E t \in DOMAIN tasks : Claim(e, t) \/ Recover(e, t)
    <3>1. PICK t \in DOMAIN tasks : Claim(e, t) \/ Recover(e, t)
      BY <2>1
    <3>2. tasks[t] \notin Confirmed /\ \A d \in Executors : doing[d] = {}
      BY <3>1 DEF Claim, Recover, Starts, Confirmed
    <3>3. CASE Claim(e, t)
      BY <3>2, <3>3 DEF Claim, Statuses
    <3>4. CASE Recover(e, t)
      <4>1. Becomes(t, "pending") /\ doing' = [doing EXCEPT ![e] = {}]
        BY <3>2, <3>4 DEF Recover, ChecklistInv, BusyOK
      <4>2. "pending" \in Statuses
        BY DEF Statuses
      <4>3. QED  BY <3>2, <4>1, <4>2
    <3>5. QED  BY <3>1, <3>3, <3>4
  <2>2. CASE Complete(e)
    <3>1. PICK t \in doing[e], status \in Statuses :
            Becomes(t, status) /\ doing' = [doing EXCEPT ![e] = {}]
      BY <2>2 DEF Complete
    <3>2. t \in DOMAIN tasks /\ tasks[t] \notin Confirmed
      BY DEF ChecklistInv, BusyOK, Confirmed
    <3>3. \A d \in Executors \ {e} : doing[d] = {}
      BY <3>1 DEF ChecklistInv, BusyOK
    <3>4. QED  BY <3>1, <3>2, <3>3
  <2>3. QED  BY <2>1, <2>2
<1>2. tasks \in [DOMAIN tasks -> Statuses] /\ doing \in [Executors -> SUBSET DOMAIN tasks]
  BY DEF ChecklistInv, TasksOK, BusyOK
<1>3. /\ tasks' \in [DOMAIN tasks -> Statuses] /\ DOMAIN tasks' = DOMAIN tasks
      /\ \A u \in DOMAIN tasks : u # t => tasks'[u] = tasks[u]
      /\ tasks'[t] = status
  BY <1>1, <1>2 DEF Becomes, importVars
<1>4. UNCHANGED <<names, pc, counted, label>>
  BY <1>1 DEF Becomes, importVars
<1>5. TasksOK'
  BY <1>3, <1>4 DEF ChecklistInv, TasksOK
<1>6. BusyOK'
  <2>1. doing' \in [Executors -> SUBSET DOMAIN tasks'] /\ doing'[e] = next
        /\ \A d \in Executors \ {e} : doing'[d] = {}
    BY <1>1, <1>2, <1>3
  <2>2. \A u \in doing'[e] : tasks'[u] = "running"
    BY <1>1, <1>3, <2>1
  <2>3. QED  BY <2>1, <2>2 DEF BusyOK
<1>7. QED  BY <1>1, <1>3, <1>4, <1>5, <1>6, SaidStays

\* A review that begins, and an executor that leaves, change no task.
LEMMA BusyStep ==
    ASSUME ChecklistInv, Exclusive, NEW e \in Executors,
           (\E t \in DOMAIN tasks : Review(e, t)) \/ Leave(e)
    PROVE  ChecklistInv'
<1>1. UNCHANGED <<names, pc, tasks, counted, label>>
  BY DEF Review, Leave, importVars
<1>2. BusyOK'
  <2>1. CASE \E t \in DOMAIN tasks : Review(e, t)
    BY <1>1, <2>1 DEF Review, Starts, ChecklistInv, BusyOK
  <2>2. CASE Leave(e)
    BY <1>1, <2>2 DEF Leave, ChecklistInv, BusyOK
  <2>3. QED  BY <2>1, <2>2
<1>3. TasksOK' /\ SaidOK'
  BY <1>1 DEF ChecklistInv, TasksOK, SaidOK, CountNotAhead
<1>4. QED  BY <1>2, <1>3 DEF ChecklistInv

LEMMA RetryStep ==
    ASSUME ChecklistInv, RetryFailures
    PROVE  ChecklistInv'
<1>1. tasks \in [DOMAIN tasks -> Statuses]
  BY DEF ChecklistInv, TasksOK
<1>2. /\ tasks' \in [DOMAIN tasks -> Statuses] /\ DOMAIN tasks' = DOMAIN tasks
      /\ \A t \in DOMAIN tasks : tasks[t] \in Confirmed => tasks'[t] = tasks[t]
  BY <1>1 DEF RetryFailures, Confirmed, Statuses
<1>3. UNCHANGED <<names, pc, counted, label>>
  BY DEF RetryFailures, importVars
<1>4. TasksOK'
  BY <1>2, <1>3 DEF ChecklistInv, TasksOK
<1>5. BusyOK'
  <2>1. doing' = doing /\ \A t \in DOMAIN tasks : tasks[t] # "retryable_error" => tasks'[t] = tasks[t]
    BY <1>1 DEF RetryFailures
  <2>2. QED  BY <1>2, <2>1 DEF ChecklistInv, BusyOK
<1>6. QED  BY <1>2, <1>3, <1>4, <1>5, SaidStays

LEMMA ReadCountStep ==
    ASSUME ChecklistInv, ReadCount
    PROVE  ChecklistInv'
<1>1. /\ pc = "count" /\ pc' = "statuses" /\ UNCHANGED <<names, tasks, doing, label>>
      /\ counted' = Cardinality(With(Confirmed, tasks))
  BY DEF ReadCount, CompletedCount, fileVars
<1>2. TasksOK'
  BY <1>1 DEF ChecklistInv, TasksOK, Asking
<1>3. counted' \in Nat /\ CountNotAhead'
  BY <1>1, ConfirmedCount DEF ChecklistInv, TasksOK, CountNotAhead
<1>4. QED  BY <1>1, <1>2, <1>3 DEF ChecklistInv, BusyOK, SaidOK, Asking

\* ProjectStatusFor says completed of confirmed tasks only: of every other one
\* some status comes before.
LEMMA CompletedMeans ==
    ASSUME NEW row, row \in [DOMAIN row -> Statuses], ProjectStatusFor(row) = "completed"
    PROVE  \A t \in DOMAIN row : row[t] \in Confirmed
<1> DEFINE None(S) == With(S, row) = {}
<1>1. CASE DOMAIN row = {}
  BY <1>1
<1>2. CASE DOMAIN row # {} /\ None({"running"}) /\ None({"pending"})
           /\ None({"needs_review"}) /\ None(Failures)
  BY <1>2 DEF With, Statuses, Confirmed, Failures
<1>3. CASE DOMAIN row # {} /\ ~None({"running"})
  BY <1>3 DEF ProjectStatusFor, With
<1>4. CASE DOMAIN row # {} /\ None({"running"}) /\ ~None({"pending"})
  BY <1>4 DEF ProjectStatusFor, With
<1>5. CASE /\ DOMAIN row # {} /\ None({"running"}) /\ None({"pending"})
           /\ ~None({"needs_review"})
  <2>1. None({"running", "pending"})
    BY <1>5 DEF With
  <2>2. QED  BY <1>5, <2>1 DEF ProjectStatusFor, With, Confirmed
<1>6. CASE /\ DOMAIN row # {} /\ None({"running"}) /\ None({"pending"})
           /\ None({"needs_review"}) /\ ~None(Failures)
  <2>1. None({"running", "pending"}) /\ None({"running", "pending", "needs_review"})
    BY <1>6 DEF With
  <2>2. QED  BY <1>6, <2>1 DEF ProjectStatusFor, With, Confirmed, Failures
<1>7. QED  BY <1>1, <1>2, <1>3, <1>4, <1>5, <1>6

LEMMA ReadStatusesStep ==
    ASSUME ChecklistInv, ReadStatuses
    PROVE  ChecklistInv'
<1>1. /\ pc = "statuses" /\ pc' = "count" /\ UNCHANGED <<names, tasks, doing, counted>>
      /\ label' = ProjectStatusFor(tasks)
  BY DEF ReadStatuses, fileVars
<1>2. TasksOK'
  BY <1>1 DEF ChecklistInv, TasksOK, Asking
<1>3. label' = "completed" => \A t \in DOMAIN tasks : tasks[t] \in Confirmed
  BY <1>1, CompletedMeans DEF ChecklistInv, TasksOK
<1>4. QED  BY <1>1, <1>2, <1>3 DEF ChecklistInv, BusyOK, SaidOK, CountNotAhead, Asking

LEMMA ChecklistInvariant == Exclusive => (Spec => []ChecklistInv)
<1> SUFFICES ASSUME Exclusive  PROVE Spec => []ChecklistInv
  OBVIOUS
<1>1. ASSUME Init  PROVE ChecklistInv
  <2>1. pc \in Reading /\ DOMAIN tasks = {} /\ counted = 0 /\ label = "draft"
        /\ tasks = [t \in {} |-> "pending"] /\ doing = [e \in Executors |-> {}]
    BY <1>1 DEF Init, ImportInit, Reading
  <2>2. TasksOK
    BY <2>1, FS_EmptySet DEF TasksOK, Reading, Asking
  <2>3. CountNotAhead
    BY <2>1, <2>2, ConfirmedCount DEF TasksOK, CountNotAhead
  <2>4. QED  BY <2>1, <2>2, <2>3 DEF ChecklistInv, BusyOK, SaidOK, Reading, Asking
<1>2. ASSUME ChecklistInv, [Next]_vars  PROVE ChecklistInv'
  <2>1. CASE UNCHANGED vars
    <3>1. TasksOK'
      BY <1>2, <2>1 DEF vars, importVars, ChecklistInv, TasksOK
    <3>2. SaidOK'
      BY <1>2, <2>1 DEF vars, importVars, ChecklistInv, SaidOK, CountNotAhead
    <3>3. BusyOK'
      BY <1>2, <2>1 DEF vars, ChecklistInv, BusyOK
    <3>4. QED  BY <3>1, <3>2, <3>3 DEF ChecklistInv
  <2>2. QED
    BY <1>2, <2>1, ImportStep, SeedStep, TaskStep, BusyStep, RetryStep, ReadCountStep,
       ReadStatusesStep
       DEF Next
<1>3. QED  BY <1>1, <1>2, PTL DEF Spec
-----------------------------------------------------------------------------
(* Theorems *)

\* The number of finished checks that status shows was reached, and no result,
\* review, retry, recovery or late executor takes one back since.
THEOREM CountNeverAhead == Exclusive => (Spec => []CountNotAhead)
<1> SUFFICES ASSUME Exclusive  PROVE Spec => []CountNotAhead
  OBVIOUS
<1>1. ChecklistInv => CountNotAhead
  BY DEF ChecklistInv, SaidOK
<1>2. QED  BY <1>1, ChecklistInvariant, PTL

\* Every name of the file is imported once, in the place where it comes first,
\* and nothing else is, for every sheet and every text.
THEOREM ImportedAlwaysOnceInOrder == Spec => []ImportedOnceInOrder
<1>1. ImportInv => ImportedOnceInOrder
  BY DEF ImportInv, ImportedOnceInOrder, Reading
<1>2. QED  BY <1>1, ImportInvariant, PTL

\* A project that was ever said to be completed has, from then on, a confirmed
\* result of every name of the file from every source.
THEOREM CompletedAlwaysFinal == Exclusive => (Spec => []CompletedIsFinal)
<1> SUFFICES ASSUME Exclusive  PROVE Spec => []CompletedIsFinal
  OBVIOUS
<1>1. ChecklistInv /\ ImportedOnceInOrder => CompletedIsFinal
  <2> SUFFICES ASSUME ChecklistInv, ImportedOnceInOrder, label = "completed",
                      NEW k \in 1 .. Len(due), NEW s \in Checks
               PROVE  <<due[k], s>> \in DOMAIN tasks /\ tasks[<<due[k], s>>] \in Confirmed
    BY DEF CompletedIsFinal
  <2>1. pc \in Asking /\ names = due
    BY DEF ChecklistInv, SaidOK, ImportedOnceInOrder, Asking
  <2>2. <<due[k], s>> \in Said(names) \X Checks
    BY <2>1 DEF Said
  <2>3. QED  BY <2>1, <2>2 DEF ChecklistInv, TasksOK, SaidOK
<1>2. QED  BY <1>1, ChecklistInvariant, ImportedAlwaysOnceInOrder, PTL
=============================================================================
