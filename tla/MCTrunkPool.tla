---------------------------- MODULE MCTrunkPool ----------------------------
(***************************************************************************)
(* Matrix 1 with two trunks to its parent, operators of matrix 0, three    *)
(* cameras of its own and one of a child.                                  *)
(***************************************************************************)
EXTENDS TrunkPool

MCUser == {<<0, 1>>, <<0, 2>>}
MCLocalCamera == {<<1, 1>>, <<1, 2>>, <<1, 3>>}
MCOtherCamera == {<<2, 1>>}
=============================================================================
