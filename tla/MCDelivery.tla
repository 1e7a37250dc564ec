------------------------------- MODULE MCDelivery -------------------------------
(***************************************************************************)
(* Small instances of Delivery: commits are interchangeable.               *)
(***************************************************************************)
EXTENDS Delivery, TLC

CommitSymmetry == Permutations(Commits)
=================================================================================
