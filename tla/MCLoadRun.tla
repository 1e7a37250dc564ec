-------------------------------- MODULE MCLoadRun --------------------------------
(***************************************************************************)
(* A small instance of LoadRun.  Workers are interchangeable for its       *)
(* safety, but the run also checks that it ends, which symmetry would      *)
(* spoil.                                                                  *)
(***************************************************************************)
EXTENDS LoadRun
=================================================================================
