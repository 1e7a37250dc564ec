----------------------------- MODULE MCDurableJobs -----------------------------
(***************************************************************************)
(* Small instances of DurableJobs for TLC.  The .cfg files give the sets   *)
(* of model values and the bounds.                                         *)
(***************************************************************************)
EXTENDS DurableJobs
===============================================================================
