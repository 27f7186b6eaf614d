-------------------------------- MODULE Panel -------------------------------
(***************************************************************************)
(* The project panel (internal/ui/panel.go): a list of projects that is    *)
(* loaded again every two seconds, a cursor, a form of two fields, and a   *)
(* review that holds the panel up until it returns.  Keys that come in the *)
(* meantime are handled afterwards, by Bubble Tea (external).              *)
(***************************************************************************)
EXTENDS Integers, Sequences, FiniteSets, SequencesExt

CONSTANTS
    Projects,       \* bound: the projects that ever are
    NoProject

ASSUME PanelAssumption == IsFiniteSet(Projects) /\ NoProject \notin Projects

VARIABLES
    listed,         \* what Workspace.List gives: projects as they were created
    past,           \* the projects that were archived
    rows,           \* the projects on display
    cursor,         \* index of the row that is pointed at, from 0
    creating,       \* is the form open?
    field,          \* which field of it: 0 the name, 1 the list of names
    focus,          \* the fields that take text
    filled,         \* the fields that hold text
    reviewing,      \* the project under review, or NoProject
    ticking,        \* is a refresh on its way?
    quit

formVars == <<creating, field, focus, filled>>
others   == <<listed, past>>
vars     == <<others, rows, cursor, formVars, reviewing, ticking, quit>>

Keys == {"up", "down", "r", "o", "n", "v", "q", "enter", "esc", "backspace", "ctrl+c"}

Letters == {"r", "o", "n", "v", "q"}

Init ==
    /\ listed = <<>> /\ past = {}
    /\ rows = <<>> /\ cursor = 0
    /\ creating = FALSE /\ field = 0 /\ focus = {} /\ filled = {}
    /\ reviewing = NoProject
    /\ ticking = TRUE
    /\ quit = FALSE
-----------------------------------------------------------------------------
New == Projects \ (past \cup ToSet(listed))

\* Others create projects, and archive them.
Appear == \E p \in New :
    /\ listed' = Append(listed, p)
    /\ UNCHANGED <<past, rows, cursor, formVars, reviewing, ticking, quit>>

Archived == \E k \in DOMAIN listed :
    /\ listed' = RemoveAt(listed, k)
    /\ past' = past \cup {listed[k]}
    /\ UNCHANGED <<rows, cursor, formVars, reviewing, ticking, quit>>

\* loadRows: a project whose database does not open is left out, the others
\* come in their order.
Loaded(r, list) == \E n \in 0 .. Len(list) : \E at \in [1 .. n -> DOMAIN list] :
    /\ \A i, j \in 1 .. n : i < j => at[i] < at[j]
    /\ r = [k \in 1 .. n |-> list[at[k]]]

LastIndex(n) == IF n = 0 THEN 0 ELSE n - 1

Responsive == ~quit /\ reviewing = NoProject

\* Mutated: the cursor is left where it is, or no further refresh is asked for.
RefreshUnclamped ==
    /\ Responsive /\ ticking
    /\ Loaded(rows', listed)
    /\ UNCHANGED <<others, cursor, formVars, reviewing, ticking, quit>>

RefreshOnce ==
    /\ Responsive /\ ticking
    /\ Loaded(rows', listed)
    /\ cursor' = IF cursor >= Len(rows') THEN LastIndex(Len(rows')) ELSE cursor
    /\ ticking' = FALSE
    /\ UNCHANGED <<others, formVars, reviewing, quit>>

Refresh ==
    /\ Responsive /\ ticking
    /\ Loaded(rows', listed)
    /\ cursor' = IF cursor >= Len(rows') THEN LastIndex(Len(rows')) ELSE cursor
    /\ UNCHANGED <<others, formVars, reviewing, ticking, quit>>
-----------------------------------------------------------------------------
(* Keys in the list *)

Pointed == rows[cursor + 1]

Move(k) ==
    /\ cursor' = CASE k = "up" /\ cursor > 0 -> cursor - 1
                   [] k = "down" /\ cursor + 1 < Len(rows) -> cursor + 1
                   [] OTHER -> cursor
    /\ UNCHANGED <<others, rows, formVars, reviewing, quit>>

\* start, open and details have their effect elsewhere; q has none, and so has
\* every other key.
Elsewhere == UNCHANGED <<others, rows, cursor, formVars, reviewing, quit>>

OpenForm ==
    /\ creating' = TRUE /\ field' = 0
    /\ focus' = focus \cup {"name"}
    /\ UNCHANGED <<others, rows, cursor, filled, reviewing, quit>>

\* The review begins; Update returns only when it does.
ReviewBegins ==
    /\ reviewing' = Pointed
    /\ UNCHANGED <<others, rows, cursor, formVars, quit>>

Leave == quit' = TRUE /\ UNCHANGED <<others, rows, cursor, formVars, reviewing>>

\* A key that is for a row panics when the cursor is beyond the rows.
OnRow(k) ==
    \/ rows # <<>> /\ cursor >= Len(rows) /\ Leave
    \/ k = "v" /\ cursor < Len(rows) /\ ReviewBegins
    \/ (k # "v" \/ rows = <<>>) /\ (rows = <<>> \/ cursor < Len(rows)) /\ Elsewhere

InList(k) ==
    /\ ~creating
    /\ \/ k \in {"up", "down"} /\ Move(k)
       \/ k = "n" /\ OpenForm
       \/ k \in {"r", "o", "v", "enter"} /\ OnRow(k)
       \/ k \in {"q", "esc", "backspace"} /\ Elsewhere
-----------------------------------------------------------------------------
(* Keys in the form *)

Outside == UNCHANGED <<others, rows, cursor, reviewing, quit>>

\* Mutated: the field that had the focus keeps it.
CancelFormFocused ==
    /\ creating' = FALSE
    /\ UNCHANGED <<field, focus, filled>> /\ Outside

CancelForm ==
    /\ creating' = FALSE /\ focus' = {}
    /\ UNCHANGED <<field, filled>> /\ Outside

NextField ==
    /\ IF "name" \in filled THEN field' = 1 /\ focus' = {"input"}
       ELSE UNCHANGED <<field, focus>>
    /\ UNCHANGED <<creating, filled>> /\ Outside

\* createProject fails, or the list has one more project, which is pointed at.
Create ==
    \/ /\ "input" \in filled
       /\ \E p \in New : /\ listed' = Append(listed, p)
                         /\ Loaded(rows', listed')
       /\ cursor' = LastIndex(Len(rows'))
       /\ creating' = FALSE /\ field' = 0 /\ filled' = {}
       /\ focus' = focus \ {"input"}
       /\ UNCHANGED <<past, reviewing, quit>>
    \/ UNCHANGED formVars /\ Outside

\* The field the form is at takes the key, if it has the focus; erasing may
\* empty it.
Type(k) ==
    LET at == focus \cap {IF field = 0 THEN "name" ELSE "input"} IN
    /\ \/ k \in Letters /\ filled' = filled \cup at
       \/ k = "backspace" /\ filled' \in {filled, filled \ at}
       \/ k \in {"up", "down"} /\ UNCHANGED filled
    /\ UNCHANGED <<creating, field, focus>> /\ Outside

InForm(k) ==
    /\ creating
    /\ \/ k = "esc" /\ CancelForm
       \/ k = "enter" /\ field = 0 /\ NextField
       \/ k = "enter" /\ field = 1 /\ Create
       \/ Type(k)
-----------------------------------------------------------------------------
(* Update *)

Press(k) ==
    /\ Responsive
    /\ \/ k = "ctrl+c" /\ Leave
       \/ k # "ctrl+c" /\ (InForm(k) \/ InList(k))
    /\ UNCHANGED ticking

\* The review is done and the list loaded again, or it could not be done.
ReviewReturns ==
    /\ reviewing # NoProject /\ reviewing' = NoProject
    /\ Loaded(rows', listed) \/ UNCHANGED rows
    /\ UNCHANGED <<others, cursor, formVars, ticking, quit>>

Next ==
    \/ Appear
    \/ Archived
    \/ Refresh
    \/ ReviewReturns
    \/ \E k \in Keys : Press(k)

Spec == Init /\ [][Next]_vars

\* Ticks come; nobody has to press a key or to end a review.
FairSpec == Spec /\ WF_vars(Refresh)
-----------------------------------------------------------------------------
\* What is typed into the form arrives in the field the form is at, through
\* every way of leaving and opening it.
FocusFollowsField ==
    creating => focus = {IF field = 0 THEN "name" ELSE "input"}

\* The cursor points at a row, so that the next key finds one.
CursorInRange == rows = <<>> \/ cursor < Len(rows)

\* Only the rows that a review leaves can be fewer than the cursor needs; no
\* refresh, creation or failure misplaces it.
OnlyReviewMisplaces ==
    [][CursorInRange /\ ~CursorInRange' => reviewing # NoProject]_vars

\* A project that was archived leaves the panel, unless a review holds it up.
PanelFollows ==
    \A p \in Projects :
        p \in past ~> (p \notin ToSet(rows) \/ quit \/ reviewing # NoProject)
=============================================================================
