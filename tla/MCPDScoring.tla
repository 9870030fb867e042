----------------------------- MODULE MCPDScoring -----------------------------
(***************************************************************************)
(* An instance of PDScoring for TLC. Seats are model values and their      *)
(* names play no part in the scores, so they are interchangeable.          *)
(***************************************************************************)
EXTENDS PDScoring

CONSTANTS ann, ben, cid

ThreePlayers == {ann, ben, cid}
Interchangeable == Permutations(ThreePlayers)
=============================================================================
