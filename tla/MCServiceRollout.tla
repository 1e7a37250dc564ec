---------------------------- MODULE MCServiceRollout ----------------------------
(***************************************************************************)
(* Small instances of ServiceRollout: releases are interchangeable.        *)
(***************************************************************************)
EXTENDS ServiceRollout, TLC

ReleaseSymmetry == Permutations(Releases)
=================================================================================
