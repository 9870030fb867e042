----------------------------- MODULE MCLiarsDice -----------------------------
(***************************************************************************)
(* Small tables of LiarsDice for TLC: the last seat may be a bot's.        *)
(***************************************************************************)
EXTENDS LiarsDice

LastSeat == {NumSeats}
NoBots == {}
=============================================================================
