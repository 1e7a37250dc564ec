------------------------------ MODULE MCLocalJobs ------------------------------
(***************************************************************************)
(* The instance of LocalJobs in Local.cfg.  Its run checks progress, for   *)
(* which symmetry is not sound, so the jobs and threads are plain values.  *)
(***************************************************************************)
EXTENDS LocalJobs
===============================================================================
