----------------------------- MODULE LastStanding -----------------------------
(***************************************************************************)
(* What a match of Liar's Dice promises its players: seats go out one at a *)
(* time, nobody goes out twice or comes back, and the match ends with the  *)
(* one seat that is left as the winner.                                    *)
(***************************************************************************)
EXTENDS Integers, Sequences, FiniteSets

CONSTANT Seats

VARIABLES
  out,      \* the seats that are out, in the order they went
  winners   \* the winner of a match that is over, nobody before

vars == <<out, winners>>

Gone == {out[i] : i \in 1 .. Len(out)}
In == Seats \ Gone

Init == out = <<>> /\ winners = {}

GoesOut(s) ==
  /\ In # {s} /\ s \in In
  /\ out' = Append(out, s)
  /\ UNCHANGED winners

Wins(s) ==
  /\ In = {s} /\ winners = {}
  /\ winners' = {s}
  /\ UNCHANGED out

Next == \E s \in Seats : GoesOut(s) \/ Wins(s)

Spec == Init /\ [][Next]_vars
=============================================================================
