------------------------------ MODULE Importer ------------------------------
(***************************************************************************)
(* The list of names (internal/importer/importer.go): which column of a    *)
(* sheet it is, or the first part of each line of a text, and the names in *)
(* it.  A cell is a word with or without space around it; a table is a     *)
(* sheet's rows of cells, or a text's lines of parts.  The loops are steps, *)
(* which is what there is to prove about them.                             *)
(***************************************************************************)
EXTENDS Naturals, Sequences, FiniteSets

CONSTANTS
    Words,          \* what cells say
    Titles,         \* the words that name the column of names
    NoWord,         \* an empty cell
    Tables          \* the tables that are imported

Cell == [word : Words \cup {NoWord}, padded : BOOLEAN]

ASSUME ImporterAssumption ==
    /\ Titles \subseteq Words /\ NoWord \notin Words
    /\ Tables \subseteq Seq(Seq(Cell))

VARIABLES
    table,          \* the file, as long as it is read
    excel,          \* is it a sheet?
    due,            \* the names a reader of README.md expects of it
    column, start,  \* where in a sheet the names are
    pos,            \* the cell or row that is read next
    names,          \* the names that were read
    pc              \* "titles", "rows", and when they are read, "seed"

importVars == <<table, excel, due, column, start, pos, names, pc>>

Normalize(cell) == cell.word

Said(list) == {list[k] : k \in 1 .. Len(list)}
-----------------------------------------------------------------------------
\* What README.md says of a file: in a sheet the column with a title, or else
\* the first one; below the title, or else from the first row.  A name is due
\* where it is said first.
TitledColumns(t) == {c \in DOMAIN t[1] : t[1][c].word \in Titles}
HasTitle(t, x)   == x /\ t # <<>> /\ TitledColumns(t) # {}
NameColumn(t, x) ==
    IF HasTitle(t, x)
    THEN CHOOSE c \in TitledColumns(t) : \A d \in TitledColumns(t) : d =< c ELSE 1
Says(t, x, i) ==
    IF NameColumn(t, x) \in DOMAIN t[i] /\ ~(i = 1 /\ HasTitle(t, x))
    THEN t[i][NameColumn(t, x)].word ELSE NoWord
FirstSaid(t, x) ==
    {i \in DOMAIN t : Says(t, x, i) # NoWord /\ \A j \in 1 .. i - 1 : Says(t, x, j) # Says(t, x, i)}

UpTo(S, i) == {j \in S : j =< i}
Nth(S, k)  == CHOOSE i \in S : Cardinality(UpTo(S, i)) = k
Due(t, x)  == LET S == FirstSaid(t, x) IN [k \in 1 .. Cardinality(S) |-> Says(t, x, Nth(S, k))]
-----------------------------------------------------------------------------
\* Only a sheet with a first row has titles.
ImportInit ==
    /\ table \in Tables /\ excel \in BOOLEAN
    /\ due = Due(table, excel)
    /\ column = 1 /\ start = 1 /\ pos = 1
    /\ names = <<>>
    /\ pc = IF excel /\ table # <<>> THEN "titles" ELSE "rows"

\* The cells of the first row; the last title is the one that counts.
ReadTitle ==
    /\ pc = "titles" /\ pos \in DOMAIN table[1]
    /\ IF Normalize(table[1][pos]) \in Titles
       THEN column' = pos /\ start' = 2
       ELSE UNCHANGED <<column, start>>
    /\ pos' = pos + 1
    /\ UNCHANGED <<table, excel, due, names, pc>>

EndTitles ==
    /\ pc = "titles" /\ pos \notin DOMAIN table[1]
    /\ pc' = "rows" /\ pos' = start
    /\ UNCHANGED <<table, excel, due, column, start, names>>

\* Mutated: only a name that comes twice in a row is dropped.
StableUniqueAdjacent(list, value) ==
    IF value = NoWord \/ (list # <<>> /\ value = list[Len(list)])
    THEN list ELSE Append(list, value)

\* One value more: an empty one and one that was there are passed over.
StableUnique(list, value) ==
    IF value = NoWord \/ value \in Said(list) THEN list ELSE Append(list, value)

\* A row that does not reach the column has no name.  A line has a first part,
\* if only an empty one.
ReadRow ==
    /\ pc = "rows" /\ pos \in DOMAIN table
    /\ names' = IF column =< Len(table[pos])
                THEN StableUnique(names, Normalize(table[pos][column])) ELSE names
    /\ pos' = pos + 1
    /\ UNCHANGED <<table, excel, due, column, start, pc>>

\* The file is closed.  An empty sheet is an error, and so is a list without
\* names for its caller.
EndRows ==
    /\ pc = "rows" /\ pos \notin DOMAIN table
    /\ pc' = "seed" /\ table' = <<>> /\ excel' = FALSE
    /\ column' = 1 /\ start' = 1 /\ pos' = 1
    /\ UNCHANGED <<due, names>>

Import == ReadTitle \/ EndTitles \/ ReadRow \/ EndRows
-----------------------------------------------------------------------------
\* Every name of the list is imported once, in the place where it comes first,
\* and nothing else is: titles, short rows, padding and duplicates included.
ImportedOnceInOrder == pc \notin {"titles", "rows"} => names = due
=============================================================================
