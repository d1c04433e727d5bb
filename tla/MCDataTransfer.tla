--------------------------- MODULE MCDataTransfer ---------------------------
(***************************************************************************)
(* Values for DataTransfer: two threads of a server, one that looks objects*)
(* up and one that uploads files, and the create_export tool, whose pid is *)
(* one larger.                                                             *)
(***************************************************************************)
EXTENDS DataTransfer, TLC

CONSTANTS c1, c2, c3, k1, small, large

Pids == (c1 :> 1) @@ (c2 :> 1) @@ (c3 :> 2)
TestFiles == (small :> <<1, 2>>) @@ (large :> <<1, 2, 3>>)
=============================================================================
