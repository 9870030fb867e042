---------------------------- MODULE MCFinishOrder ----------------------------
(***************************************************************************)
(* An instance of FinishOrder for TLC: interchangeable seats, and rounds   *)
(* that a seat either tops or not.                                         *)
(***************************************************************************)
EXTENDS FinishOrder, TLC

CONSTANTS ann, ben, cid

ThreePlayers == {ann, ben, cid}
Interchangeable == Permutations(ThreePlayers)
=============================================================================
