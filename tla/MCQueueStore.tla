---------------------------- MODULE MCQueueStore ----------------------------
(***************************************************************************)
(* QueueStore for TLC: two projects or three, two workers, two slots.      *)
(***************************************************************************)
EXTENDS QueueStore, TLC

MCHolderSymmetry == Permutations(Holders)
=============================================================================
