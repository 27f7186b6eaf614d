---------------------------- MODULE MCChecklist -----------------------------
(***************************************************************************)
(* Checklist for TLC: every table of up to three rows of up to two cells.  *)
(***************************************************************************)
EXTENDS Checklist, SequencesExt

CONSTANTS title, alice, bob

MCWords  == {title, alice, bob}
MCTitles == {title}
MCCells  == [word : MCWords \cup {NoWord}, padded : {FALSE}]
                \cup {[word |-> alice, padded |-> TRUE], [word |-> title, padded |-> TRUE]}
MCTables == BoundedSeq(BoundedSeq(MCCells, 2), 3)
=============================================================================
