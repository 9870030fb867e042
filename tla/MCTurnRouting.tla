---------------------------- MODULE MCTurnRouting ----------------------------
(***************************************************************************)
(* Two connections for TurnRouting: a laptop whose connector asks for      *)
(* every seat at once, and a phone with a loop for the agent of seat 1.    *)
(***************************************************************************)
EXTENDS TurnRouting

LaptopAndPhone == {"laptop", "phone"}
TwoSessions == {"connector", "loop"}
OverWhich == [s \in TwoSessions |-> IF s = "loop" THEN "phone" ELSE "laptop"]
TwoSeats == {1, 2}
AsksFor == [s \in TwoSessions |-> IF s = "loop" THEN {1} ELSE TwoSeats]
OnlyConnector == {"connector"}
CoveredAtFirst == [c \in LaptopAndPhone |-> IF c = "phone" THEN {1} ELSE TwoSeats]
=============================================================================
