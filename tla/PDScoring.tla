------------------------------ MODULE PDScoring ------------------------------
(***************************************************************************)
(* The scores of a Hoard-Hurt-Help match over its rounds and turns: the    *)
(* reset at the start of a round, resolve_turn with the history it reads,  *)
(* and next to them what the program says of the same turn elsewhere: the  *)
(* pact values shown to an agent before it moves, and the running score a  *)
(* spectator sees.                                                         *)
(*                                                                         *)
(* A resolved turn is kept as the pairs that helped each other in it,      *)
(* which is all that later turns read of its rows.                         *)
(***************************************************************************)
EXTENDS Payoffs, Sequences, SequencesExt

CONSTANTS MatchModes, TotalRounds, TurnsPerRound
ASSUME ModesAssumption == MatchModes \subseteq Modes
ASSUME GridAssumption == TotalRounds \in Nat \ {0} /\ TurnsPerRound \in Nat \ {0}

VARIABLES
  mode,        \* matches.mutual_help_mode
  round, turn, \* the round being played and its last resolved turn
  roundScore,  \* players.current_round_score
  history      \* the mutual pairs of each resolved turn, oldest first

vars == <<mode, round, turn, roundScore, history>>

TypeOK ==
  /\ mode \in Modes
  /\ round \in 0 .. TotalRounds /\ turn \in 0 .. TurnsPerRound
  /\ roundScore \in [Players -> Nat]
  /\ history \in Seq(SUBSET Pairs)

Zero == [p \in Players |-> 0]

Init ==
  /\ mode \in MatchModes
  /\ round = 0 /\ turn = TurnsPerRound
  /\ roundScore = Zero
  /\ history = <<>>

(* mutual_help_counts and the pairs of the turn before, over all the turns *)
(* the match has resolved.                                                 *)
PactCount(pair) == Cardinality({i \in DOMAIN history : pair \in history[i]})
LastTurnOfThisRound == IF history = <<>> \/ turn = 0 THEN {} ELSE history[Len(history)]
LastTurnPairs == IF history = <<>> THEN {} ELSE history[Len(history)]

PactValue(pair) == MutualHelpValue(mode, PactCount(pair), pair \in LastTurnPairs)
PactValues == [pair \in Pairs |-> PactValue(pair)]

(* The preview an agent is sent before it moves, current_pact_values: it   *)
(* finds the count and the turn before on its own, and does not look for   *)
(* them in the flat modes.                                                 *)
NeedsHistory == mode \in {"decay", "no_repeats"}
ShownCount(pair) == Cardinality({i \in 1 .. Len(history) : pair \in history[i]})
ShownLastPairs == IF Len(history) > 0 THEN Last(history) ELSE {}

Shown(pair) ==
  IF NeedsHistory THEN MutualHelpValue(mode, ShownCount(pair), pair \in ShownLastPairs)
  ELSE MutualHelpValue(mode, 0, FALSE)

(* A seat that sent nothing hoards.                                        *)
Materialized(sent) ==
  [p \in Players |-> IF p \in DOMAIN sent THEN sent[p] ELSE Hoard]

-----------------------------------------------------------------------------

(* _run_round's reset.                                                     *)
StartRound ==
  /\ turn = TurnsPerRound /\ round < TotalRounds
  /\ round' = round + 1 /\ turn' = 0
  /\ roundScore' = Zero
  /\ UNCHANGED <<mode, history>>

(* resolve_turn, one commit.                                               *)
ResolveTurn(sent) ==
  LET m == Materialized(sent)
      pays == PactValues
  IN /\ round > 0 /\ turn < TurnsPerRound
     /\ turn' = turn + 1
     /\ roundScore' = [p \in Players |-> NewScore(roundScore[p], m, pays, p)]
     /\ history' = Append(history, MutualPairs(m))
     /\ UNCHANGED <<mode, round>>

Sent == {s \in UNION {[S -> Moves] : S \in SUBSET Players} :
           \A p \in DOMAIN s : s[p] \in MovesOf(p)}

Next == StartRound \/ \E sent \in Sent : ResolveTurn(sent)

Spec == Init /\ [][Next]_vars

-----------------------------------------------------------------------------
(* The viewer's mirror, apply_inround_turn: the actions one by one, in the *)
(* order of the rows, with what each earns its own seat known beforehand.  *)

Mirrored(m, earned, score, p) ==
  LET q == m[p].target
  IN IF m[p].action = "HOARD" THEN [score EXCEPT ![p] = @ + earned[p]]
     ELSE IF Mutual(m, p) THEN [score EXCEPT ![p] = @ + HELP_POINTS + earned[p]]
     ELSE IF m[p].action = "HELP" THEN [score EXCEPT ![q] = @ + HELP_POINTS]
     ELSE IF Lands(m, p, q)
       THEN [score EXCEPT ![q] = AtLeast(SCORE_FLOOR, @ - HURT_POINTS),
                          ![p] = @ + earned[p]]
     ELSE score

Mirror(m, earned, score, order) ==
  LET after[i \in 0 .. Len(order)] ==
        IF i = 0 THEN score ELSE Mirrored(m, earned, after[i - 1], order[i])
  IN after[Len(order)]

Orders == SetToSeqs(Players)
-----------------------------------------------------------------------------
(* Properties. Those of a turn speak of every way the next turn can go.    *)

TurnToCome == round > 0 /\ turn < TurnsPerRound

(* The spectator's running score floors each hit as it comes, the          *)
(* authoritative one floors the sum (scoring.py, resolve_turn step 4 and   *)
(* apply_inround_turn). From the same score before the turn, and whatever  *)
(* the order of the rows, the display never ends below the new score, and  *)
(* ends exactly at it when no run of hits could have reached the floor.    *)
MirrorNeverBelow ==
  TurnToCome =>
    LET pays == PactValues
    IN \A m \in Turns :
       \* Singletons: TLC then computes each table once, not at every use.
       \A earned \in {[p \in Players |-> Earned(m, pays, p)]},
          real \in {[p \in Players |-> NewScore(roundScore[p], m, pays, p)]} :
         LET unfloored == {p \in Players :
                             roundScore[p] >= HURT_POINTS * Cardinality(Hits(m, p))}
         IN \A order \in Orders : \A shown \in {Mirror(m, earned, roundScore, order)} :
              \A p \in Players : /\ shown[p] >= real[p]
                                 /\ p \in unfloored => shown[p] = real[p]

(* rules.py says that a betrayal out-pays every pact rate and that it must *)
(* beat hoarding on a partner, or "the knife stays dead": a seat that is   *)
(* being helped earns most, that turn, by hurting a helper, whatever the   *)
(* others do and whatever a pact pays by now.                              *)
BetrayalPaysBest ==
  TurnToCome =>
  LET pays == PactValues
  IN \A m \in Turns : \A p \in Hoarders(m) : \A b \in Helpers(m, p) :
       LET With(move) == Delta([m EXCEPT ![p] = move], pays, p)
           best == With([action |-> "HURT", target |-> b])
       IN \A move \in MovesOf(p) :
            With(move) <= best /\ (With(move) = best => move.action = "HURT")

(* Betrayers and other attackers of one seat do not thin each other's take *)
(* (the comments of attackers_on and hurt_take): a seat's take off a       *)
(* target is the same when a betrayer of that target does something else,  *)
(* and a betrayer's is the same when any other attacker does.              *)
TakesStandAlone ==
  TurnToCome =>
  \A m \in Turns : \A v \in Players : \A p, q \in Hits(m, v) :
    p # q /\ (Betrays(m, p, v) \/ Betrays(m, q, v)) =>
      Take(m, p, v) = Take([m EXCEPT ![q] = Hoard], p, v)

(* What a pair's pact is worth changes by playing only, never by the start *)
(* of a round (resolve_turn's "the last turn of a round and the first of   *)
(* the next are still back-to-back"). A decaying pact loses a point when   *)
(* it is played, down to its floor, and never recovers; without repeats it *)
(* is worth the bare HELP right after it was played and the bonus else;    *)
(* the flat ones never change. And what an agent is shown before a turn is *)
(* what the turn then pays, though each is worked out on its own ("so the  *)
(* preview and the payout agree", current_pact_values).                    *)
PactFollowsPlay ==
  [][\A pair \in Pairs :
     /\ TurnToCome => Shown(pair) = PactValue(pair)
     /\ LET now == PactValue(pair)
            played == history' # history /\ pair \in history'[Len(history')]
        IN PactValue(pair)' =
             IF mode = "decay" THEN IF played THEN AtLeast(MUTUAL_HELP_FLOOR, now - 1) ELSE now
             ELSE IF mode = "no_repeats" THEN
               IF played THEN HELP_POINTS
               ELSE IF history' = history THEN now ELSE HELP_POINTS + MUTUAL_HELP_BONUS
             ELSE now]_vars
=============================================================================
