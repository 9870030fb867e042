----------------------------- MODULE MCTurnLoop -----------------------------
(***************************************************************************)
(* Instances of TurnLoop for TLC.                                          *)
(***************************************************************************)
EXTENDS TurnLoop

CONSTANTS alice, bot

TwoSeats == {alice, bot}
OneBot == {bot}

(* A bot decision that raises in the talk phase of the first turn and in   *)
(* the act phase of the last one.                                          *)
TwoPoisons == {<<1, 1, "talk">>, <<TotalRounds, TurnsPerRound, "act">>}
NoPoison == {}
=============================================================================
