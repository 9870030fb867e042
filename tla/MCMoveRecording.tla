--------------------------- MODULE MCMoveRecording ---------------------------
(***************************************************************************)
(* Instances of MoveRecording for TLC. Seats and answers are model values. *)
(***************************************************************************)
EXTENDS MoveRecording

CONSTANTS agent, human, bot, q1, q2, hoard, help

OneAgent == {agent}
OneHuman == {human}
OneBot == {bot}
TwoRequests == {q1, q2}
TwoAnswers == {hoard, help}
NoBots == {}
=============================================================================
