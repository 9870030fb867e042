------------------------------- MODULE Payoffs -------------------------------
(***************************************************************************)
(* What one turn of Hoard-Hurt-Help pays: the operators of rules.py and    *)
(* the arithmetic of scoring.resolve_turn, without its queries.            *)
(*                                                                         *)
(* A turn is a function from the seats to their submissions, after every   *)
(* missing one has been filled in. A submission is a move: who says what   *)
(* and why is left out.                                                    *)
(***************************************************************************)
EXTENDS Integers, FiniteSets

CONSTANT Players

NoOne == "no one"
ASSUME PlayersAssumption == IsFiniteSet(Players) /\ NoOne \notin Players

HOARD_POT_POINTS == 8
HELP_POINTS == 4
HURT_POINTS == 8
MUTUAL_HELP_BONUS == 4
BETRAYAL_BONUS_V7 == 6
BETRAYAL_BONUS == 14
HURT_TAKE_HELPER == 5
HURT_TAKE_HOARDER == 2
MUTUAL_HELP_FLOOR == 2
SCORE_FLOOR == 0

-----------------------------------------------------------------------------
(* Moves.                                                                  *)

Hoard == [action |-> "HOARD", target |-> NoOne]

(* validate_move: HOARD names nobody, the others name another seat.        *)
MovesOf(p) == {Hoard} \cup [action : {"HELP", "HURT"}, target : Players \ {p}]
Moves == UNION {MovesOf(p) : p \in Players}
Turns == {m \in [Players -> Moves] : \A p \in Players : m[p] \in MovesOf(p)}

Hoarders(m) == {p \in Players : m[p].action = "HOARD"}
Helps(m, p, q) == m[p].action = "HELP" /\ m[p].target = q
Hurts(m, p, q) == m[p].action = "HURT" /\ m[p].target = q

Pairs == {{p, q} : p, q \in Players}
Mutual(m, p) == m[p].action = "HELP" /\ Helps(m, m[p].target, p)
MutualPairs(m) == {{p, m[p].target} : p \in {r \in Players : Mutual(m, r)}}

-----------------------------------------------------------------------------
(* Rates.                                                                  *)

Modes == {"decay", "no_repeats", "flat_8", "flat_7", "flat_6"}

AtLeast(low, n) == IF n < low THEN low ELSE n

(* What a mutual HELP pays each side, for a pair with so many of them      *)
(* before, the last of them perhaps on the previous turn.                  *)
MutualHelpValue(mode, repeats, repeatedLastTurn) ==
  IF mode = "flat_8" THEN HELP_POINTS + MUTUAL_HELP_BONUS
  ELSE IF mode = "flat_7" THEN HELP_POINTS + MUTUAL_HELP_BONUS - 1
  ELSE IF mode = "flat_6" THEN HELP_POINTS + MUTUAL_HELP_BONUS - 2
  ELSE IF mode = "no_repeats"
    THEN HELP_POINTS + (IF repeatedLastTurn THEN 0 ELSE MUTUAL_HELP_BONUS)
    ELSE AtLeast(MUTUAL_HELP_FLOOR, HELP_POINTS + MUTUAL_HELP_BONUS - repeats)

HoardShare(hoarders) == IF hoarders <= 0 THEN 0 ELSE HOARD_POT_POINTS \div hoarders

(* Both swings miss when the target is hurting the attacker back.          *)
Lands(m, p, q) == Hurts(m, p, q) /\ ~Hurts(m, q, p)
Hits(m, q) == {p \in Players : Lands(m, p, q)}

(* A betrayer hurts the very seat that is helping them.                    *)
Betrays(m, p, q) == Lands(m, p, q) /\ Helps(m, q, p)
AttackersOnWithBetrayers(m, q) == Hits(m, q)
AttackersOn(m, q) == {p \in Hits(m, q) : ~Helps(m, q, p)}

HurtTake(targetAction, betrayal, attackers) ==
  IF betrayal THEN BETRAYAL_BONUS
  ELSE IF targetAction = "HELP" THEN HURT_TAKE_HELPER \div attackers
  ELSE IF targetAction = "HOARD" THEN HURT_TAKE_HOARDER \div attackers
  ELSE 0

(* What p takes from hurting q; with nobody counted the take is whole.     *)
Take(m, p, q) ==
  IF Lands(m, p, q)
    THEN HurtTake(m[q].action, Helps(m, q, p), AtLeast(1, Cardinality(AttackersOn(m, q))))
    ELSE 0

-----------------------------------------------------------------------------
(* The turn.                                                               *)

(* What p's own move earns p: pays[pair] is the pair's mutual-help total,  *)
(* of which the HELP itself is paid by the partner's move.                 *)
Earned(m, pays, p) ==
  IF m[p].action = "HOARD" THEN HoardShare(Cardinality(Hoarders(m)))
  ELSE IF m[p].action = "HURT" THEN Take(m, p, m[p].target)
  ELSE IF Mutual(m, p) THEN pays[{p, m[p].target}] - HELP_POINTS
  ELSE 0

Helpers(m, p) == {q \in Players : Helps(m, q, p)}

(* The sum of p's payoffs, before the floor.                               *)
Delta(m, pays, p) ==
  Earned(m, pays, p) + HELP_POINTS * Cardinality(Helpers(m, p))
    - HURT_POINTS * Cardinality(Hits(m, p))

NewScoreUnfloored(score, m, pays, p) == score + Delta(m, pays, p)
NewScorePerHurt(score, m, pays, p) ==
  AtLeast(SCORE_FLOOR, score - HURT_POINTS * Cardinality(Hits(m, p)))
    + Earned(m, pays, p) + HELP_POINTS * Cardinality(Helpers(m, p))
NewScore(score, m, pays, p) == AtLeast(SCORE_FLOOR, score + Delta(m, pays, p))
=============================================================================
