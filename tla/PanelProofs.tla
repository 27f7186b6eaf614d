---------------------------- MODULE PanelProofs -----------------------------
(***************************************************************************)
(* The panel's form and its cursor, for every number of projects that come *)
(* and go and every order of keys, refreshes and reviews.                  *)
(***************************************************************************)
EXTENDS Panel, TLAPS

\* The field the form is at.
FieldName == IF field = 0 THEN "name" ELSE "input"

\* A form that is open has the focus on its field alone; one that is closed
\* has none, so that it opens again at its first field.
FormOK ==
    /\ field \in {0, 1} /\ creating \in BOOLEAN
    /\ focus = IF creating THEN {FieldName} ELSE {}

\* The rows are projects, and the cursor is a row's index or was one.
RowsOK ==
    /\ listed \in Seq(Projects) /\ rows \in Seq(Projects)
    /\ cursor \in Nat

\* The inductive invariant.
PanelInv == FormOK /\ RowsOK
-----------------------------------------------------------------------------
(* The rows *)

LEMMA LoadedRows ==
    ASSUME NEW list \in Seq(Projects), NEW r, Loaded(r, list)
    PROVE  r \in Seq(Projects)
<1>1. PICK n \in 0 .. Len(list) : \E at \in [1 .. n -> DOMAIN list] :
              r = [k \in 1 .. n |-> list[at[k]]]
  BY DEF Loaded
<1>2. PICK at \in [1 .. n -> DOMAIN list] : r = [k \in 1 .. n |-> list[at[k]]]
  BY <1>1
<1>3. \A k \in 1 .. n : list[at[k]] \in Projects
  OBVIOUS
<1>4. QED  BY <1>2, <1>3

\* The last index is one of the rows, if there are any.
LEMMA LastIndexInRange ==
    ASSUME NEW r \in Seq(Projects)
    PROVE  /\ LastIndex(Len(r)) \in Nat
           /\ r # << >> => LastIndex(Len(r)) < Len(r)
BY DEF LastIndex
-----------------------------------------------------------------------------
(* Each step *)

\* What a step may do to the cursor: it leaves it and the rows, or puts it in
\* range; or a review is on.
Placed == \/ UNCHANGED <<rows, cursor>>
          \/ CursorInRange'
          \/ reviewing # NoProject

LEMMA AppearStep ==
    ASSUME PanelInv, Appear
    PROVE  PanelInv' /\ Placed
<1>1. PICK p \in New : listed' = Append(listed, p)
  BY DEF Appear
<1>2. p \in Projects
  BY DEF New
<1>3. listed' \in Seq(Projects)
  BY <1>1, <1>2 DEF PanelInv, RowsOK
<1>4. QED  BY <1>3 DEF Appear, PanelInv, FormOK, FieldName, RowsOK, Placed, formVars

LEMMA ArchivedStep ==
    ASSUME PanelInv, Archived
    PROVE  PanelInv' /\ Placed
<1>1. PICK k \in DOMAIN listed : listed' = RemoveAt(listed, k)
  BY DEF Archived
<1>2. listed' \in Seq(Projects)
  BY <1>1 DEF PanelInv, RowsOK, RemoveAt
<1>3. QED  BY <1>2 DEF Archived, PanelInv, FormOK, FieldName, RowsOK, Placed, formVars

LEMMA RefreshStep ==
    ASSUME PanelInv, Refresh
    PROVE  PanelInv' /\ Placed
<1>1. rows' \in Seq(Projects)
  BY LoadedRows DEF Refresh, PanelInv, RowsOK
<1>2. cursor' \in Nat /\ (rows' = << >> \/ cursor' < Len(rows'))
  BY <1>1, LastIndexInRange DEF Refresh, PanelInv, RowsOK
<1>3. QED
  BY <1>1, <1>2 DEF Refresh, PanelInv, FormOK, FieldName, RowsOK, Placed, CursorInRange,
                    formVars, others

LEMMA ReviewReturnsStep ==
    ASSUME PanelInv, ReviewReturns
    PROVE  PanelInv' /\ Placed
<1>1. rows' \in Seq(Projects)
  BY LoadedRows DEF ReviewReturns, PanelInv, RowsOK
<1>2. QED
  BY <1>1 DEF ReviewReturns, PanelInv, FormOK, FieldName, RowsOK, Placed, formVars, others

\* Keys in the list.
LEMMA InListStep ==
    ASSUME PanelInv, NEW k, InList(k)
    PROVE  PanelInv' /\ (CursorInRange => Placed)
<1>1. ~creating /\ focus = {}
  BY DEF InList, PanelInv, FormOK
<1>2. CASE Move(k)
  <2>1. cursor' \in Nat /\ (cursor' = cursor \/ cursor' < cursor \/ cursor' < Len(rows))
    BY <1>2 DEF Move, PanelInv, RowsOK
  <2>2. rows' = rows /\ (CursorInRange => CursorInRange')
    BY <1>2, <2>1 DEF Move, PanelInv, RowsOK, CursorInRange
  <2>3. QED
    BY <1>2, <2>1, <2>2 DEF Move, PanelInv, FormOK, FieldName, RowsOK, Placed, formVars, others
<1>3. CASE OpenForm
  BY <1>1, <1>3 DEF OpenForm, PanelInv, FormOK, FieldName, RowsOK, Placed, others
<1>4. CASE OnRow(k)
  BY <1>4 DEF OnRow, Leave, ReviewBegins, Elsewhere, PanelInv, FormOK, FieldName, RowsOK,
              Placed, formVars, others
<1>5. CASE Elsewhere
  BY <1>5 DEF Elsewhere, PanelInv, FormOK, FieldName, RowsOK, Placed, formVars, others
<1>6. QED  BY <1>2, <1>3, <1>4, <1>5 DEF InList

\* Keys in the form: each takes the focus along to where it goes.
LEMMA InFormStep ==
    ASSUME PanelInv, NEW k, InForm(k)
    PROVE  PanelInv' /\ Placed
<1>1. creating /\ focus = {FieldName}
  BY DEF InForm, PanelInv, FormOK
<1>2. CASE CancelForm
  BY <1>2 DEF CancelForm, Outside, PanelInv, FormOK, FieldName, RowsOK, Placed, others
<1>3. CASE NextField
  BY <1>1, <1>3 DEF NextField, Outside, PanelInv, FormOK, FieldName, RowsOK, Placed, others
<1>4. CASE field = 1 /\ Create
  <2>1. CASE UNCHANGED formVars /\ Outside
    BY <2>1 DEF Outside, PanelInv, FormOK, FieldName, RowsOK, Placed, formVars, others
  <2>2. CASE /\ \E p \in New : listed' = Append(listed, p) /\ Loaded(rows', listed')
             /\ cursor' = LastIndex(Len(rows'))
             /\ creating' = FALSE /\ field' = 0 /\ focus' = focus \ {"input"}
    <3>1. listed' \in Seq(Projects)
      BY <2>2 DEF New, PanelInv, RowsOK
    <3>2. rows' \in Seq(Projects)
      BY <2>2, <3>1, LoadedRows
    <3>3. cursor' \in Nat /\ CursorInRange'
      BY <2>2, <3>2, LastIndexInRange DEF CursorInRange
    <3>4. focus' = {}
      BY <1>1, <1>4, <2>2 DEF FieldName
    <3>5. QED  BY <2>2, <3>1, <3>2, <3>3, <3>4 DEF PanelInv, FormOK, RowsOK, Placed
  <2>3. QED  BY <1>4, <2>1, <2>2 DEF Create
<1>5. CASE Type(k)
  BY <1>5 DEF Type, Outside, PanelInv, FormOK, FieldName, RowsOK, Placed, others
<1>6. QED  BY <1>2, <1>3, <1>4, <1>5 DEF InForm

LEMMA PressStep ==
    ASSUME PanelInv, NEW k \in Keys, Press(k)
    PROVE  PanelInv' /\ (CursorInRange => Placed)
<1>1. CASE Leave
  BY <1>1 DEF Leave, PanelInv, FormOK, FieldName, RowsOK, Placed, formVars, others
<1>2. QED  BY <1>1, InListStep, InFormStep DEF Press

LEMMA PanelStep ==
    ASSUME PanelInv, [Next]_vars
    PROVE  PanelInv' /\ (CursorInRange => Placed)
<1>1. CASE UNCHANGED vars
  BY <1>1 DEF vars, PanelInv, FormOK, FieldName, RowsOK, Placed, formVars, others
<1>2. QED
  BY <1>1, AppearStep, ArchivedStep, RefreshStep, ReviewReturnsStep, PressStep DEF Next
-----------------------------------------------------------------------------
\* The invariant holds throughout.
LEMMA PanelInvariant == Spec => []PanelInv
<1>1. Init => PanelInv
  <2> SUFFICES ASSUME Init  PROVE FormOK /\ RowsOK
    BY DEF PanelInv
  <2>1. RowsOK
    BY DEF Init, RowsOK
  <2>2. FormOK
    BY DEF Init, FormOK
  <2>3. QED  BY <2>1, <2>2
<1>2. QED  BY <1>1, PanelStep, PTL DEF Spec

\* What is typed into the form arrives in the field it is at, through every way
\* of leaving the form and opening it again.
THEOREM FocusAlwaysFollowsField == Spec => []FocusFollowsField
<1>1. PanelInv => FocusFollowsField
  BY DEF PanelInv, FormOK, FieldName, FocusFollowsField
<1>2. QED  BY <1>1, PanelInvariant, PTL

\* Only a review that held the panel up leaves the cursor beyond the rows: no
\* refresh, key or creation does, whatever was archived in the meantime.
THEOREM OnlyReviewEverMisplaces == Spec => OnlyReviewMisplaces
<1>1. PanelInv /\ [Next]_vars
         => [CursorInRange /\ ~CursorInRange' => reviewing # NoProject]_vars
  <2> SUFFICES ASSUME PanelInv, [Next]_vars, CursorInRange
               PROVE  CursorInRange' \/ reviewing # NoProject
    OBVIOUS
  <2>1. Placed
    BY PanelStep
  <2>2. QED  BY <2>1 DEF Placed, CursorInRange
<1>2. QED  BY <1>1, PanelInvariant, PTL DEF Spec, OnlyReviewMisplaces
=============================================================================
