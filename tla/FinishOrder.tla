----------------------------- MODULE FinishOrder -----------------------------
(***************************************************************************)
(* Rounds won and the order a match finishes in: round_award,              *)
(* award_round_winners, the placement chain and finalize_game.             *)
(*                                                                         *)
(* How a round is played is abstracted to the scores it ends with, and     *)
(* what the seats did to each other to one number per seat: the rest of    *)
(* the chain after the points. The loop may die between two commits; it    *)
(* then re-enters the round it was in and awards it again, as in TurnLoop. *)
(*                                                                         *)
(* A round win is split in double precision floating point, and the splits *)
(* are added up in it (players.total_round_wins is a float). A double is   *)
(* <<hi, lo>> here, the number (hi * 2^29 + lo) / 2^57: enough for every   *)
(* match create_match admits, of at most 20 seats and 20 rounds. TLC can   *)
(* count as far as 7 rounds of 3 seats.                                    *)
(***************************************************************************)
EXTENDS Integers, FiniteSets, FiniteSetsExt

CONSTANTS
  Players,
  TotalRounds,
  RoundScores,   \* what a seat's score can be when a round ends
  Tallies        \* how the rest of the chain can rank a seat

ASSUME PlayersAssumption == IsFiniteSet(Players) /\ Cardinality(Players) \in 1 .. 20
ASSUME RoundsAssumption == TotalRounds \in 1 .. 20
ASSUME RanksAssumption == RoundScores \subseteq Nat /\ Tallies \subseteq Nat

NoOne == "no one"

ASSUME SeatsAssumption == NoOne \notin Players

VARIABLES
  round,         \* the round the loop is in
  pc,            \* "play", "award", "next" and at the end "done"
  roundScore,    \* players.current_round_score
  roundsAwarded, \* matches.rounds_awarded
  wins,          \* players.total_round_wins, a double
  total,         \* players.total_round_score
  winner,        \* matches.winner_player_id
  tally,         \* the seats' rank by cooperation, as read at the end
  trueWins       \* history: the wins in parts, added up without rounding

vars == <<round, pc, roundScore, roundsAwarded, wins, total, winner, tally, trueWins>>

-----------------------------------------------------------------------------
(* Doubles.                                                                *)

Base == 2 ^ 29
One == 2 ^ 28     \* the upper half of 1.0

(* The spacing of the doubles around hi, in 2^-57: it doubles with every   *)
(* power of two from 1/16 to 16.                                           *)
Spacing(hi) == 2 ^ Cardinality({k \in 0 .. 8 : hi \div 2 ^ 24 >= 2 ^ k})

(* Round to nearest, ties to even, a number that exceeds <<hi, lo>> by     *)
(* rest/n of a unit.                                                       *)
Rounded(hi, lo, rest, n) ==
  LET gap == Spacing(hi)
      steps == lo \div gap
      over == 2 * ((lo % gap) * n + rest)
      up == over > gap * n \/ (over = gap * n /\ steps % 2 = 1)
      new == (IF up THEN steps + 1 ELSE steps) * gap
  IN <<hi + new \div Base, new % Base>>

WholeShare(n) == <<One, 0>>
(* 1.0 / n                                                                 *)
Share(n) ==
  LET hi == One \div n
      low == (One % n) * Base
  IN Rounded(hi, low \div n, low % n, n)

Plus(x, y) ==
  LET lo == x[2] + y[2]
  IN Rounded(x[1] + y[1] + lo \div Base, lo % Base, 0, 1)

More(x, y) == x[1] > y[1] \/ (x[1] = y[1] /\ x[2] > y[2])

(* A win in parts: the least common multiple of 1 to 20, so that any       *)
(* number of seats can share it in whole parts.                            *)
WinParts == 232792560

-----------------------------------------------------------------------------
(* round_award: everyone level with the highest score wins the round.      *)
RoundWinners == {p \in Players : roundScore[p] = Max({roundScore[q] : q \in Players})}

(* The placement chain. Level on all of it, two seats share a place.       *)
Outplaces(t, p, q) ==
  \/ More(wins[p], wins[q])
  \/ wins[p] = wins[q] /\ total[p] > total[q]
  \/ wins[p] = wins[q] /\ total[p] = total[q] /\ t[p] > t[q]

TopGroup(t) == {p \in Players : \A q \in Players : ~Outplaces(t, q, p)}
AnyOfTopGroup(t) == CHOOSE p \in TopGroup(t) : TRUE
Winner(t) == IF Cardinality(TopGroup(t)) = 1 THEN CHOOSE p \in TopGroup(t) : TRUE ELSE NoOne

-----------------------------------------------------------------------------

Init ==
  /\ round = 1 /\ pc = "play"
  /\ roundScore = [p \in Players |-> 0]
  /\ roundsAwarded = 0
  /\ wins = [p \in Players |-> <<0, 0>>]
  /\ total = [p \in Players |-> 0]
  /\ winner = NoOne
  /\ tally = [p \in Players |-> 0]
  /\ trueWins = [p \in Players |-> 0]

PlayRound ==
  /\ pc = "play"
  /\ roundScore' \in [Players -> RoundScores]
  /\ pc' = "award"
  /\ UNCHANGED <<round, roundsAwarded, wins, total, winner, tally, trueWins>>

NeverAwarded == FALSE
AlreadyAwarded == round <= roundsAwarded

(* award_round_winners.                                                    *)
Award ==
  /\ pc = "award" /\ pc' = "next"
  /\ IF AlreadyAwarded THEN UNCHANGED <<roundsAwarded, wins, total, trueWins>>
     ELSE LET winners == RoundWinners
              share == Share(Cardinality(winners))
          IN /\ roundsAwarded' = round
             /\ wins' = [p \in Players |->
                  IF p \in winners THEN Plus(wins[p], share) ELSE wins[p]]
             /\ trueWins' = [p \in Players |->
                  trueWins[p] + IF p \in winners THEN WinParts \div Cardinality(winners) ELSE 0]
             /\ total' = [p \in Players |-> total[p] + roundScore[p]]
  /\ UNCHANGED <<round, roundScore, winner, tally>>

(* The loop's step to the next round, with its reset.                      *)
NextRound ==
  /\ pc = "next" /\ round < TotalRounds
  /\ round' = round + 1 /\ pc' = "play"
  /\ roundScore' = [p \in Players |-> 0]
  /\ UNCHANGED <<roundsAwarded, wins, total, winner, tally, trueWins>>

(* Until the next round opens its first turn, a restarted loop is back at  *)
(* the last turn of this one, and awards it again.                         *)
Restart ==
  /\ pc = "next" /\ pc' = "award"
  /\ UNCHANGED <<round, roundScore, roundsAwarded, wins, total, winner, tally, trueWins>>

(* finalize_game. The cooperation it reads is whatever the match came to.  *)
Finalize ==
  /\ pc = "next" /\ round = TotalRounds
  /\ tally' \in [Players -> Tallies]
  /\ winner' = Winner(tally')
  /\ pc' = "done"
  /\ UNCHANGED <<round, roundScore, roundsAwarded, wins, total, trueWins>>

Next == PlayRound \/ Award \/ NextRound \/ Restart \/ Finalize

Spec == Init /\ [][Next]_vars

-----------------------------------------------------------------------------
(* Properties.                                                             *)

TypeOK ==
  /\ round \in 1 .. TotalRounds /\ pc \in {"play", "award", "next", "done"}
  /\ roundScore \in [Players -> Nat] /\ total \in [Players -> Nat]
  /\ roundsAwarded \in {round - 1, round}
  /\ wins \in [Players -> (0 .. TotalRounds * One) \X (0 .. Base - 1)]
  /\ winner \in Players \cup {NoOne}
  /\ tally \in [Players -> Tallies \cup {0}]
  /\ trueWins \in [Players -> 0 .. WinParts * TotalRounds]

(* Every round hands out one win, however often a restarted loop awards it *)
(* again (award_round_winners is idempotent by rounds_awarded).            *)
OneWinPerRound == SumFunction(trueWins) = WinParts * roundsAwarded

(* Splitting a win in floating point never turns two seats around: who has *)
(* won more rounds, counted in fractions, is ahead in total_round_wins.    *)
LeaderIsAhead ==
  \A p, q \in Players : trueWins[p] > trueWins[q] => More(wins[p], wins[q])

(* A recorded winner shares its place with nobody, and has won at least as *)
(* many rounds as anyone; without one at least two seats are level at the  *)
(* top (finish_order.winner and its docstring on shared wins).             *)
WinnerIsSole ==
  LET Level(p, q) == wins[p] = wins[q] /\ total[p] = total[q] /\ tally[p] = tally[q]
  IN pc = "done" =>
       \E p \in Players :
         /\ \A q \in Players : trueWins[p] >= trueWins[q]
         /\ IF winner = NoOne THEN \E q \in Players \ {p} : Level(p, q)
            ELSE p = winner /\ \A q \in Players \ {p} : ~Level(p, q)
=============================================================================
