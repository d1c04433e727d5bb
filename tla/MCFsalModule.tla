---------------------------- MODULE MCFsalModule ----------------------------
(***************************************************************************)
(* Values for FsalModule: three threads and two exports, interchangeable.  *)
(***************************************************************************)
EXTENDS FsalModule, TLC

CONSTANTS t1, t2, t3, e1, e2

Symmetry == Permutations({t1, t2, t3}) \cup Permutations({e1, e2})
=============================================================================
