----------------------------- MODULE MatchResume -----------------------------
(***************************************************************************)
(* resume_match_from: a new match that starts from a turn of another one,  *)
(* with the standings recomputed from the recorded turns. The module       *)
(* follows a match turn by turn, over the rounds of FinishOrder; at any    *)
(* moment an administrator may build the copy, and from then on it follows *)
(* the copy. It also has the replay's count of the rounds won, which is a  *)
(* third fold over the same rows.                                          *)
(*                                                                         *)
(* What a turn does to the scores is left open, as in FinishOrder. The     *)
(* seats the lobby may add to the copy before it starts are left out.      *)
(***************************************************************************)
EXTENDS Integers, FiniteSets, FiniteSetsExt, Functions

CONSTANTS Players, TotalRounds, TurnsPerRound, RoundScores, Tallies

(* create_match takes a single turn a round too. A loop that dies after it *)
(* then awards a zeroed round (TurnLoop's RoundScoreIntact), and no record *)
(* agrees with the standings.                                              *)
ASSUME TurnsAssumption == TurnsPerRound \in Nat \ {0, 1}

VARIABLES
  round, pc, roundScore, roundsAwarded, wins, total, winner, tally, trueWins,
  turn,       \* matches.current_turn; once it is played, until the next opens
  row,        \* the turn row at that pointer: "none", "open" or "resolved"
  scoreAfter, \* round_score_after of every resolved turn's submissions
  cut,        \* where the match resumed another one, or Nowhere
  position    \* history: what the source stood at when each turn was opened,
              \* kept until the copy starts

Order == INSTANCE FinishOrder

(* FinishOrder's own: its doubles have no room for more.                   *)
ASSUME OrderAssumption ==
  /\ IsFiniteSet(Players) /\ Cardinality(Players) \in 1 .. 20 /\ Order!NoOne \notin Players
  /\ TotalRounds \in 1 .. 20 /\ RoundScores \subseteq Nat /\ Tallies \subseteq Nat

orderVars == <<round, pc, roundScore, roundsAwarded, wins, total, winner, tally, trueWins>>
turnVars == <<turn, row, scoreAfter>>
vars == <<orderVars, turnVars, cut, position>>

Nowhere == <<0, 0>>
TurnIds == (1 .. TotalRounds) \X (1 .. TurnsPerRound)
Before(a, b) == a[1] < b[1] \/ (a[1] = b[1] /\ a[2] < b[2])
Zero == [p \in Players |-> 0]

(* f, and e for d where f has nothing.                                     *)
With(f, d, e) == [x \in DOMAIN f \cup {d} |-> IF x \in DOMAIN f THEN f[x] ELSE e]

TypeOK ==
  /\ round \in 1 .. TotalRounds
  /\ pc \in {"registering", "play", "award", "next", "done"}
  /\ roundScore \in [Players -> Nat] /\ total \in [Players -> Nat]
  /\ roundsAwarded \in {round - 1, round}
  /\ turn \in 1 .. TurnsPerRound /\ row \in {"none", "open", "resolved"}
  /\ DOMAIN scoreAfter \subseteq TurnIds
  /\ row = "resolved" <=> <<round, turn>> \in DOMAIN scoreAfter
  /\ cut \in TurnIds \cup {Nowhere}
  /\ pc = "registering" => cut = <<round, turn>> /\ row = "none"

Init ==
  /\ Order!Init
  /\ turn = 1 /\ row = "none" /\ scoreAfter = <<>>
  /\ cut = Nowhere /\ position = <<>>

-----------------------------------------------------------------------------
(* The loop.                                                               *)

(* _open_turn moves the pointer: past a resolved turn, or to the one it    *)
(* was left at without a row.                                              *)
OpenTurn ==
  /\ pc = "play" /\ row # "open" /\ row' = "open"
  /\ turn' = IF row = "resolved" THEN turn + 1 ELSE turn
  /\ position' = IF cut # Nowhere THEN position
       ELSE With(position, <<round, turn'>>,
                 [wins |-> wins, total |-> total, score |-> roundScore])
  /\ UNCHANGED <<orderVars, scoreAfter, cut>>

ResolveTurn ==
  /\ row = "open" /\ row' = "resolved"
  /\ roundScore' \in [Players -> RoundScores]
  /\ scoreAfter' = With(scoreAfter, <<round, turn>>, roundScore')
  /\ pc' = IF turn = TurnsPerRound THEN "award" ELSE "play"
  /\ UNCHANGED <<round, roundsAwarded, wins, total, winner, tally, trueWins,
                 turn, cut, position>>

Award == Order!Award /\ UNCHANGED <<turnVars, cut, position>>

NextRound ==
  /\ Order!NextRound
  /\ turn' = 1 /\ row' = "none"
  /\ UNCHANGED <<scoreAfter, cut, position>>

(* A loop started again at the pointer: it zeroes the scores at turn 1,    *)
(* and passes a resolved turn, the last one to award its round once more.  *)
Restart ==
  /\ row = "resolved" /\ pc \in {"play", "award", "next"}
  /\ roundScore' = IF turn = 1 THEN Zero ELSE roundScore
  /\ pc' = IF turn = TurnsPerRound THEN "award" ELSE "play"
  /\ UNCHANGED <<round, roundsAwarded, wins, total, winner, tally, trueWins,
                 turnVars, cut, position>>

Finalize == Order!Finalize /\ UNCHANGED <<turnVars, cut, position>>

-----------------------------------------------------------------------------
(* The copy.                                                               *)

(* by_turn's last turn of a round in the rows taken over.                  *)
LastOf(rows, n) == Max({t \in 1 .. TurnsPerRound : <<n, t>> \in rows})
PlayedRounds(rows) == {id[1] : id \in rows}
ScoresOf(n, rows) == scoreAfter[<<n, LastOf(rows, n)>>]
WinnersOf(scores) == {p \in Players : \A q \in Players : scores[q] <= scores[p]}

(* The fold of _standings_at over the rounds up to last: the wins of p.    *)
WinsIn(rows, p, last) ==
  LET won[n \in 0 .. last] ==
        IF n = 0 THEN <<0, 0>>
        ELSE IF n \notin PlayedRounds(rows) THEN won[n - 1]
        ELSE LET winners == WinnersOf(ScoresOf(n, rows))
             IN IF p \in winners THEN Order!Plus(won[n - 1], Order!Share(Cardinality(winners)))
                ELSE won[n - 1]
  IN won[last]

DecidedLoose(rows, at) == {n \in PlayedRounds(rows) : n <= at[1]}
Decided(rows, at) == {n \in PlayedRounds(rows) : n < at[1]}

PointsIn(rows, p, at) ==
  SumFunction([n \in Decided(rows, at) |-> ScoresOf(n, rows)[p]])

InRound(rows, at) == IF at[1] \in PlayedRounds(rows) THEN ScoresOf(at[1], rows) ELSE Zero

SeededThrough(at) == {id \in DOMAIN scoreAfter : ~Before(at, id)}
Seeded(at) == {id \in DOMAIN scoreAfter : Before(id, at)}
AwardedThrough(at) == at[1]
AwardedBefore(at) == at[1] - 1

(* Turns before the cut that exist must be resolved; turns before it that  *)
(* were never opened are not asked about.                                  *)
ResumeFrom(at) ==
  LET seeded == Seeded(at)
      part(n, p) == LET winners == WinnersOf(ScoresOf(n, seeded))
                    IN IF p \in winners THEN Order!WinParts \div Cardinality(winners) ELSE 0
  IN /\ cut = Nowhere /\ seeded # {}
     /\ ~(row = "open" /\ Before(<<round, turn>>, at))
     /\ cut' = at /\ round' = at[1] /\ turn' = at[2] /\ row' = "none"
     /\ scoreAfter' = Restrict(scoreAfter, seeded)
     /\ roundsAwarded' = AwardedBefore(at)
     /\ wins' = [p \in Players |-> WinsIn(seeded, p, at[1] - 1)]
     /\ trueWins' = [p \in Players |->
          SumFunction([n \in Decided(seeded, at) |-> part(n, p)])]
     /\ total' = [p \in Players |-> PointsIn(seeded, p, at)]
     /\ roundScore' = InRound(seeded, at)
     /\ pc' = "registering"
     /\ winner' = Order!NoOne /\ tally' = Zero
     /\ UNCHANGED position

(* start_game, and the loop's first look at the pointer.                   *)
Start ==
  /\ pc = "registering" /\ pc' = "play"
  /\ roundScore' = IF turn = 1 THEN Zero ELSE roundScore
  /\ position' = <<>>
  /\ UNCHANGED <<round, roundsAwarded, wins, total, winner, tally, trueWins,
                 turnVars, cut>>

Next ==
  \/ OpenTurn \/ ResolveTurn \/ Award \/ NextRound \/ Restart \/ Finalize
  \/ \E at \in TurnIds : ResumeFrom(at)
  \/ Start

Spec == Init /\ [][Next]_vars

-----------------------------------------------------------------------------
(* The replay.                                                             *)

(* stamp_turn_standings: every round but the trailing one is awarded at    *)
(* its last recorded turn. The tally of the last turn is the match's own.  *)
Trailing == Max(PlayedRounds(DOMAIN scoreAfter))
RailWins(p, last) == WinsIn(DOMAIN scoreAfter, p, last)

-----------------------------------------------------------------------------
(* Properties.                                                             *)

(* "Holding the position as of a chosen turn": the copy has the round wins *)
(* and points the source had, live, when it opened that turn, however      *)
(* often its loop was restarted; and the score within the round, which     *)
(* the source has lost when its loop restarted between turns 1 and 2.      *)
PositionCarried ==
  pc = "registering" /\ cut \in DOMAIN position =>
    /\ wins = position[cut].wins /\ total = position[cut].total
    /\ \/ roundScore = position[cut].score
       \/ turn = 2 /\ position[cut].score = Zero

(* The replay's rail never credits a round that the match decides          *)
(* otherwise (replay_standings on the second copy of the award rule): once *)
(* the trailing round is awarded the match's wins are the rail's with that *)
(* round, and before it they are the rail's without. It is so in a copy    *)
(* too, whatever turns of the source it skips.                             *)
RailAgrees ==
  scoreAfter # <<>> =>
    \A p \in Players :
      wins[p] = RailWins(p, IF roundsAwarded >= Trailing THEN Trailing ELSE Trailing - 1)
=============================================================================
