---------------------------- MODULE MCMatchResume ----------------------------
(***************************************************************************)
(* An instance of MatchResume for TLC: interchangeable seats.              *)
(***************************************************************************)
EXTENDS MatchResume, TLC

CONSTANTS ann, ben

TwoPlayers == {ann, ben}
Interchangeable == Permutations(TwoPlayers)
=============================================================================
