------------------------------ MODULE MCTmpFile ------------------------------
(***************************************************************************)
(* Values for TmpFile: two threads of a server, and the create_export tool *)
(* in a process whose pid is one larger.                                   *)
(***************************************************************************)
EXTENDS TmpFile, TLC

CONSTANTS c1, c2, c3

Pids == [c \in Callers |-> IF c = c3 THEN 2 ELSE 1]
Symmetry == Permutations({c1, c2})
=============================================================================
