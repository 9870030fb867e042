--------------------------- MODULE PDScoringProofs ---------------------------
(***************************************************************************)
(* Theorems of PDScoring, for every set of seats, every mutual-help mode   *)
(* and every number of rounds and turns.                                   *)
(*                                                                         *)
(* The arithmetic of a turn comes first: how large a share, a take and a   *)
(* pact can be. Then what changes when one seat of a turn moves otherwise, *)
(* from which the properties of a turn follow, then the history, and last  *)
(* the spectator's mirror, row by row.                                     *)
(***************************************************************************)
EXTENDS PDScoring, FiniteSetTheorems, WellFoundedInduction, TLAPS

-----------------------------------------------------------------------------
(* Rates.                                                                  *)

(* A share of a pot of 8, 5 or 2 points is none of them or some of them.   *)
LEMMA Shares ==
  ASSUME NEW n \in Nat, n > 0
  PROVE  8 \div n \in 0 .. 8 /\ 5 \div n \in 0 .. 5 /\ 2 \div n \in 0 .. 2
  <1>1. CASE n > 8
    BY <1>1
  <1>2. CASE n \in 1 .. 8
    BY <1>2
  <1> QED BY <1>1, <1>2

LEMMA HoardShareBound ==
  ASSUME NEW n \in Nat
  PROVE  HoardShare(n) \in 0 .. 8
  BY Shares DEF HoardShare, HOARD_POT_POINTS

LEMMA PactBound ==
  ASSUME NEW md \in Modes, NEW n \in Nat, NEW b \in BOOLEAN
  PROVE  MutualHelpValue(md, n, b) \in 2 .. 8
  BY DEF MutualHelpValue, Modes, AtLeast, MUTUAL_HELP_FLOOR, HELP_POINTS, MUTUAL_HELP_BONUS

LEMMA TakeBound ==
  ASSUME NEW a, NEW b \in BOOLEAN, NEW n \in Nat, n > 0
  PROVE  /\ HurtTake(a, b, n) \in 0 .. 14
         /\ b => HurtTake(a, b, n) = 14
  BY Shares DEF HurtTake, BETRAYAL_BONUS, HURT_TAKE_HELPER, HURT_TAKE_HOARDER

-----------------------------------------------------------------------------
(* The turn.                                                               *)

LEMMA Typing ==
  ASSUME NEW m \in Turns, NEW p \in Players
  PROVE  /\ m \in [Players -> Moves]
         /\ m[p] \in MovesOf(p)
         /\ m[p].action \in {"HOARD", "HELP", "HURT"}
         /\ m[p].action = "HOARD" <=> m[p] = Hoard
         /\ m[p].action # "HOARD" => m[p].target \in Players \ {p}
         /\ ~Helps(m, p, p) /\ ~Hurts(m, p, p)
  BY PlayersAssumption DEF Turns, MovesOf, Hoard, Helps, Hurts

LEMMA Replaced ==
  ASSUME NEW m \in Turns, NEW p \in Players, NEW move \in MovesOf(p)
  PROVE  /\ [m EXCEPT ![p] = move] \in Turns
         /\ [m EXCEPT ![p] = move][p] = move
         /\ \A q \in Players \ {p} : [m EXCEPT ![p] = move][q] = m[q]
  BY DEF Turns, Moves

LEMMA Counts ==
  ASSUME NEW S \in SUBSET Players
  PROVE  IsFiniteSet(S) /\ Cardinality(S) \in Nat
  BY PlayersAssumption, FS_Subset, FS_CardinalityType

PaysBounded(pays) == \A p, q \in Players : pays[{p, q}] \in 2 .. 8

LEMMA EarnedBound ==
  ASSUME NEW m \in Turns, NEW p \in Players, NEW pays, PaysBounded(pays)
  PROVE  /\ Earned(m, pays, p) \in -2 .. 14
         /\ m[p].action # "HURT" => Earned(m, pays, p) <= 8
         /\ m[p].action = "HURT" /\ Hurts(m, m[p].target, p) => Earned(m, pays, p) = 0
         /\ \A b \in Players : m[p].action = "HURT" /\ m[p].target = b /\ Helps(m, b, p)
              => Earned(m, pays, p) = 14
  <1>1. Cardinality(Hoarders(m)) \in Nat /\ \A q : Cardinality(AttackersOn(m, q)) \in Nat
    BY Counts DEF Hoarders, AttackersOn, Hits
  <1>2. \A q : AtLeast(1, Cardinality(AttackersOn(m, q))) \in Nat \ {0}
    BY <1>1 DEF AtLeast
  <1>3. \A q : Take(m, p, q) \in 0 .. 14 /\ (Lands(m, p, q) /\ Helps(m, q, p) => Take(m, p, q) = 14)
    <2>1. \A q : Helps(m, q, p) \in BOOLEAN
      BY DEF Helps
    <2> QED BY <1>2, <2>1, TakeBound DEF Take
  <1>4. CASE m[p].action = "HOARD"
    BY <1>1, <1>4, HoardShareBound DEF Earned
  <1>5. CASE m[p].action = "HURT"
    <2>1. Earned(m, pays, p) = Take(m, p, m[p].target)
      BY <1>5 DEF Earned
    <2>2. Hurts(m, m[p].target, p) => Take(m, p, m[p].target) = 0
      BY DEF Take, Lands
    <2>3. ASSUME NEW b \in Players, m[p].target = b, Helps(m, b, p)
          PROVE  Earned(m, pays, p) = 14
      BY <1>3, <1>5, <2>1, <2>3 DEF Lands, Hurts, Helps
    <2> QED BY <1>3, <1>5, <2>1, <2>2, <2>3
  <1>6. CASE m[p].action = "HELP"
    <2>1. m[p].target \in Players
      BY <1>6, Typing
    <2>2. Earned(m, pays, p) \in {0, pays[{p, m[p].target}] - HELP_POINTS}
      BY <1>6 DEF Earned
    <2> QED BY <1>6, <2>1, <2>2 DEF PaysBounded, HELP_POINTS
  <1> QED BY <1>4, <1>5, <1>6, Typing

LEMMA DeltaType ==
  ASSUME NEW m \in Turns, NEW p \in Players, NEW pays, PaysBounded(pays)
  PROVE  Delta(m, pays, p) \in Int
  <1>1. Cardinality(Helpers(m, p)) \in Nat /\ Cardinality(Hits(m, p)) \in Nat
    BY Counts DEF Helpers, Hits
  <1> QED BY <1>1, EarnedBound DEF Delta, HELP_POINTS, HURT_POINTS

(* A seat that moves otherwise is helped and attacked as before, except    *)
(* that an attacker it attacks misses it.                                  *)
LEMMA Unmoved ==
  ASSUME NEW m \in Turns, NEW p \in Players, NEW move \in MovesOf(p)
  PROVE  LET n == [m EXCEPT ![p] = move]
         IN /\ Helpers(n, p) = Helpers(m, p)
            /\ Hits(n, p) = {q \in Players : Hurts(m, q, p)}
                              \ (IF move.action = "HURT" THEN {move.target} ELSE {})
  <1> DEFINE n == [m EXCEPT ![p] = move]
  <1>1. n \in Turns /\ n[p] = move /\ \A q \in Players \ {p} : n[q] = m[q]
    BY Replaced
  <1>2. ~Helps(n, p, p) /\ ~Hurts(n, p, p) /\ ~Helps(m, p, p) /\ ~Hurts(m, p, p)
    BY <1>1, Typing
  <1>3. \A q \in Players : (Helps(n, q, p) <=> Helps(m, q, p)) /\ (Hurts(n, q, p) <=> Hurts(m, q, p))
    BY <1>1, <1>2 DEF Helps, Hurts
  <1>4. \A q \in Players : Hurts(n, p, q) <=> move.action = "HURT" /\ move.target = q
    BY <1>1 DEF Hurts
  <1> HIDE DEF n
  <1>5. Helpers(n, p) = Helpers(m, p)
    BY <1>3 DEF Helpers
  <1>6. Hits(n, p) = {q \in Players : Hurts(m, q, p)}
                       \ (IF move.action = "HURT" THEN {move.target} ELSE {})
    BY <1>3, <1>4 DEF Hits, Lands
  <1> QED BY <1>5, <1>6 DEF n

-----------------------------------------------------------------------------
(* A betrayal is the best answer to a helper: it pays 14 where nothing     *)
(* else a seat can do earns more than 8, or spares it more than one hit.   *)
LEMMA BetrayalBestOfTurn ==
  ASSUME NEW pays, PaysBounded(pays),
         NEW m \in Turns, NEW p \in Players, NEW b \in Helpers(m, p),
         NEW move \in MovesOf(p)
  PROVE  LET With(v) == Delta([m EXCEPT ![p] = v], pays, p)
             best == With([action |-> "HURT", target |-> b])
         IN With(move) <= best /\ (With(move) = best => move.action = "HURT")
  <1> DEFINE betray == [action |-> "HURT", target |-> b]
             m1 == [m EXCEPT ![p] = betray]
             m2 == [m EXCEPT ![p] = move]
             H == {q \in Players : Hurts(m, q, p)}
  <1>1. b \in Players \ {p} /\ Helps(m, b, p) /\ ~Hurts(m, b, p)
    BY Typing DEF Helpers, Helps, Hurts
  <1>2. betray \in MovesOf(p)
    BY <1>1 DEF MovesOf
  <1>3. /\ m1 \in Turns /\ m1[p] = betray /\ m1[b] = m[b]
        /\ m2 \in Turns /\ m2[p] = move /\ \A q \in Players \ {p} : m2[q] = m[q]
    <2>1. m1 \in Turns /\ m1[p] = betray /\ \A q \in Players \ {p} : m1[q] = m[q]
      BY <1>2, Replaced
    <2>2. m2 \in Turns /\ m2[p] = move /\ \A q \in Players \ {p} : m2[q] = m[q]
      BY Replaced
    <2> QED BY <1>1, <2>1, <2>2
  <1>4. Earned(m1, pays, p) = 14
    <2>1. Helps(m1, b, p) /\ m1[p].action = "HURT" /\ m1[p].target = b
      BY <1>1, <1>3 DEF Helps
    <2> QED BY <1>1, <1>3, <2>1, EarnedBound
  <1>5. Helpers(m1, p) = Helpers(m, p) /\ Helpers(m2, p) = Helpers(m, p)
    BY <1>2, Unmoved
  <1>6. Hits(m1, p) = H
    BY <1>1, <1>2, Unmoved
  <1>7. Hits(m2, p) = H \ (IF move.action = "HURT" THEN {move.target} ELSE {})
    BY Unmoved
  <1>8. /\ Cardinality(Helpers(m, p)) \in Nat
        /\ Cardinality(H) \in Nat /\ IsFiniteSet(H)
    BY Counts DEF Helpers
  <1>9. /\ Earned(m2, pays, p) \in -2 .. 14
        /\ move.action # "HURT" => Earned(m2, pays, p) <= 8
        /\ move.action = "HURT" /\ Hurts(m2, move.target, p) => Earned(m2, pays, p) = 0
    <2>1. m2 \in Turns /\ m2[p] = move
      BY <1>3
    <2> HIDE DEF m2
    <2>2. /\ Earned(m2, pays, p) \in -2 .. 14
          /\ m2[p].action # "HURT" => Earned(m2, pays, p) <= 8
          /\ m2[p].action = "HURT" /\ Hurts(m2, m2[p].target, p) => Earned(m2, pays, p) = 0
      BY <2>1, EarnedBound
    <2> QED BY <2>1, <2>2
  <1> DEFINE D1 == Delta(m1, pays, p)
             D2 == Delta(m2, pays, p)
             kept == HELP_POINTS * Cardinality(Helpers(m, p))
  <1>10. D1 = 14 + kept - HURT_POINTS * Cardinality(H)
    BY <1>4, <1>5, <1>6 DEF Delta
  <1>11. D2 = Earned(m2, pays, p) + kept - HURT_POINTS * Cardinality(Hits(m2, p))
    BY <1>5 DEF Delta
  <1> HIDE DEF H, m1, m2, D1, D2
  <1>12. CASE move.action = "HURT" /\ move.target \in H
    <2>1. Cardinality(Hits(m2, p)) = Cardinality(H) - 1
      BY <1>7, <1>8, <1>12, FS_RemoveElement
    <2>2. move.target \in Players \ {p} /\ Hurts(m, move.target, p)
      BY <1>3, <1>12, Typing DEF H
    <2>3. Earned(m2, pays, p) = 0
      BY <1>3, <1>9, <1>12, <2>2 DEF Hurts
    <2>4. D2 = D1 - 6
      BY <1>8, <1>10, <1>11, <2>1, <2>3 DEF HURT_POINTS, HELP_POINTS
    <2>5. D1 \in Int
      BY <1>8, <1>10 DEF HURT_POINTS, HELP_POINTS
    <2> QED BY <2>4, <2>5, <1>12 DEF D1, D2, m1, m2
  <1>13. CASE ~(move.action = "HURT" /\ move.target \in H)
    <2>1. Hits(m2, p) = H
      BY <1>7, <1>13
    <2>2. D2 = D1 + Earned(m2, pays, p) - 14
      BY <1>8, <1>9, <1>10, <1>11, <2>1 DEF HURT_POINTS, HELP_POINTS
    <2>3. D1 \in Int
      BY <1>8, <1>10 DEF HURT_POINTS, HELP_POINTS
    <2>4. D2 <= D1 /\ (D2 = D1 => move.action = "HURT")
      BY <1>9, <2>2, <2>3
    <2> QED BY <2>4 DEF D1, D2, m1, m2
  <1> QED BY <1>12, <1>13

(* Removing one attacker of v leaves another's take when one of the two    *)
(* betrays v: a betrayer is neither counted nor split.                     *)
LEMMA TakesAloneInTurn ==
  ASSUME NEW m \in Turns, NEW v \in Players, NEW p \in Hits(m, v), NEW q \in Hits(m, v),
         p # q, Betrays(m, p, v) \/ Betrays(m, q, v)
  PROVE  Take(m, p, v) = Take([m EXCEPT ![q] = Hoard], p, v)
  <1> DEFINE n == [m EXCEPT ![q] = Hoard]
  <1>1. /\ p \in Players /\ q \in Players /\ p # v /\ q # v
        /\ Lands(m, p, v) /\ Lands(m, q, v)
    BY Typing DEF Hits, Lands
  <1>2. /\ n[q] = Hoard /\ \A r \in Players \ {q} : n[r] = m[r]
    <2>1. m \in [Players -> Moves]
      BY <1>1, Typing
    <2> QED BY <1>1, <2>1
  <1>3. n[v] = m[v] /\ n[p] = m[p]
    BY <1>1, <1>2
  <1> HIDE DEF n
  <1>4. \A r \in Players : (Helps(n, v, r) <=> Helps(m, v, r)) /\ (Hurts(n, v, r) <=> Hurts(m, v, r))
    BY <1>3 DEF Helps, Hurts
  <1>5. Lands(n, p, v)
    BY <1>1, <1>3 DEF Lands, Hurts
  <1>6. CASE Betrays(m, p, v)
    <2>1. Helps(m, v, p) /\ Helps(n, v, p)
      BY <1>1, <1>4, <1>6 DEF Betrays
    <2> QED BY <1>1, <1>5, <2>1 DEF Take, HurtTake, n
  <1>7. CASE Betrays(m, q, v)
    <2>1. Helps(m, v, q)
      BY <1>7 DEF Betrays
    <2>2. ~Hurts(n, q, v)
      BY <1>2 DEF Hurts, Hoard
    <2>3. \A r \in Players \ {q} : Hurts(n, r, v) <=> Hurts(m, r, v)
      BY <1>2 DEF Hurts
    <2>4. AttackersOn(n, v) = AttackersOn(m, v)
      BY <1>4, <2>1, <2>2, <2>3 DEF AttackersOn, Hits, Lands
    <2>5. Helps(n, v, p) <=> Helps(m, v, p)
      BY <1>1, <1>4
    <2>6. ~Helps(n, v, p) /\ ~Helps(m, v, p)
      BY <1>1, <2>1, <2>5 DEF Helps
    <2> QED BY <1>1, <1>3, <1>5, <2>4, <2>6 DEF Take, HurtTake, n
  <1> QED BY <1>6, <1>7

-----------------------------------------------------------------------------
(* The history.                                                            *)

LEMMA PairCount ==
  ASSUME NEW h, NEW pair, h \in Seq(SUBSET Pairs)
  PROVE  /\ IsFiniteSet({i \in DOMAIN h : pair \in h[i]})
         /\ Cardinality({i \in DOMAIN h : pair \in h[i]}) \in Nat
  <1>1. IsFiniteSet(1 .. Len(h))
    BY FS_Interval
  <1>2. {i \in DOMAIN h : pair \in h[i]} \subseteq 1 .. Len(h)
    OBVIOUS
  <1> QED BY <1>1, <1>2, FS_Subset, FS_CardinalityType

LEMMA PactValueType ==
  ASSUME TypeOK, NEW pair
  PROVE  PactCount(pair) \in Nat /\ PactValue(pair) \in 2 .. 8
  <1>1. PactCount(pair) \in Nat
    BY PairCount DEF TypeOK, PactCount
  <1>2. (pair \in LastTurnPairs) \in BOOLEAN
    OBVIOUS
  <1> QED BY <1>1, <1>2, PactBound DEF TypeOK, PactValue

LEMMA PaysType ==
  ASSUME TypeOK
  PROVE  PaysBounded(PactValues)
  BY PactValueType DEF PaysBounded, PactValues, Pairs

LEMMA SentPlaysTurn ==
  ASSUME NEW sent \in Sent
  PROVE  Materialized(sent) \in Turns
  BY DEF Sent, Materialized, Turns, Moves, MovesOf

LEMMA MutualPairsType ==
  ASSUME NEW m \in Turns
  PROVE  MutualPairs(m) \in SUBSET Pairs
  BY Typing DEF MutualPairs, Mutual, Pairs

(* TypeOK is inductive.                                                    *)
LEMMA TypeStep ==
  ASSUME TypeOK, [Next]_vars
  PROVE  TypeOK'
  <1>1. CASE StartRound
    BY <1>1, GridAssumption DEF StartRound, TypeOK, Zero
  <1>2. ASSUME NEW sent \in Sent, ResolveTurn(sent)
        PROVE  TypeOK'
    <2> DEFINE m == Materialized(sent)
    <2>1. m \in Turns
      BY SentPlaysTurn
    <2> HIDE DEF m
    <2>2. \A p \in Players : NewScore(roundScore[p], m, PactValues, p) \in Nat
      <3>1. \A p \in Players : Delta(m, PactValues, p) \in Int /\ roundScore[p] \in Nat
        BY <2>1, PaysType, DeltaType DEF TypeOK
      <3> QED BY <3>1 DEF NewScore, AtLeast, SCORE_FLOOR
    <2>3. roundScore' = [p \in Players |-> NewScore(roundScore[p], m, PactValues, p)]
      BY <1>2 DEF ResolveTurn, m
    <2>4. history' = Append(history, MutualPairs(m))
      BY <1>2 DEF ResolveTurn, m
    <2>5. history' \in Seq(SUBSET Pairs)
      BY <2>1, <2>4, MutualPairsType DEF TypeOK
    <2>6. mode' = mode /\ round' = round /\ turn' = turn + 1 /\ turn < TurnsPerRound
      BY <1>2 DEF ResolveTurn
    <2> QED BY <2>2, <2>3, <2>5, <2>6, GridAssumption DEF TypeOK
  <1>3. CASE UNCHANGED vars
    BY <1>3 DEF vars, TypeOK
  <1> QED BY <1>1, <1>2, <1>3 DEF Next

(* Scores, pointers and history of a match are well typed: in particular a *)
(* turn never leaves a seat below the floor, whatever is done to it.       *)
THEOREM TypeCorrect == Spec => []TypeOK
  <1>1. Init => TypeOK
    BY ModesAssumption, GridAssumption DEF Init, TypeOK, Zero
  <1>2. TypeOK /\ [Next]_vars => TypeOK'
    BY TypeStep
  <1> QED BY <1>1, <1>2, PTL DEF Spec

(* Whatever the seats, the mode and the history of the match, a seat that  *)
(* is being helped earns most by hurting a helper.                         *)
THEOREM BetrayalBest == Spec => []BetrayalPaysBest
  <1>1. TypeOK => BetrayalPaysBest
    <2> SUFFICES ASSUME TypeOK PROVE BetrayalPaysBest
      OBVIOUS
    <2>1. PaysBounded(PactValues)
      BY PaysType
    <2> DEFINE pays == PactValues
    <2> HIDE DEF pays
    <2>2. ASSUME NEW m \in Turns, NEW p \in Hoarders(m), NEW b \in Helpers(m, p)
          PROVE  LET With(move) == Delta([m EXCEPT ![p] = move], pays, p)
                     best == With([action |-> "HURT", target |-> b])
                 IN \A move \in MovesOf(p) :
                      With(move) <= best /\ (With(move) = best => move.action = "HURT")
      <3>1. p \in Players /\ PaysBounded(pays)
        BY <2>1 DEF Hoarders, pays
      <3> QED BY <3>1, BetrayalBestOfTurn
    <2> QED BY <2>2 DEF BetrayalPaysBest, pays
  <1> QED BY <1>1, TypeCorrect, PTL

(* A betrayer and the other attackers of its victim do not thin each       *)
(* other's take, for any number of attackers.                              *)
THEOREM TakesAlone == Spec => []TakesStandAlone
  <1>1. TakesStandAlone
    BY TakesAloneInTurn DEF TakesStandAlone
  <1> QED BY <1>1, PTL

-----------------------------------------------------------------------------
(* The value of a pact over a step.                                        *)

LEMMA CountAppended ==
  ASSUME NEW h \in Seq(SUBSET Pairs), NEW S \in SUBSET Pairs, NEW pair
  PROVE  Cardinality({i \in DOMAIN Append(h, S) : pair \in Append(h, S)[i]})
           = Cardinality({i \in DOMAIN h : pair \in h[i]}) + (IF pair \in S THEN 1 ELSE 0)
  <1> DEFINE old == {i \in DOMAIN h : pair \in h[i]}
             new == {i \in DOMAIN Append(h, S) : pair \in Append(h, S)[i]}
             k == Len(h) + 1
  <1>1. IsFiniteSet(old) /\ Cardinality(old) \in Nat
    BY PairCount
  <1>2. k \notin old
    OBVIOUS
  <1>3. new = old \cup (IF pair \in S THEN {k} ELSE {})
    <2>1. DOMAIN Append(h, S) = DOMAIN h \cup {k} /\ Append(h, S)[k] = S
      OBVIOUS
    <2>2. \A i \in DOMAIN h : Append(h, S)[i] = h[i]
      OBVIOUS
    <2> QED BY <2>1, <2>2, <1>2
  <1> HIDE DEF old, new, k
  <1>4. Cardinality(new) = Cardinality(old) + (IF pair \in S THEN 1 ELSE 0)
    <2>1. Cardinality(old \cup {k}) = Cardinality(old) + 1
      BY <1>1, <1>2, FS_AddElement
    <2>2. CASE pair \in S
      BY <1>3, <2>1, <2>2
    <2>3. CASE pair \notin S
      <3>1. new = old
        BY <1>3, <2>3
      <3> QED BY <1>1, <2>3, <3>1
    <2> QED BY <2>2, <2>3
  <1> QED BY <1>4 DEF old, new

(* The preview and the payout of a pact are one number.                    *)
LEMMA ShownIsPaid ==
  ASSUME TypeOK, NEW pair
  PROVE  Shown(pair) = PactValue(pair)
  <1>1. history \in Seq(SUBSET Pairs) /\ mode \in Modes
    BY DEF TypeOK
  <1>2. ShownCount(pair) = PactCount(pair)
    <2>1. DOMAIN history = 1 .. Len(history)
      BY <1>1
    <2> QED BY <2>1 DEF ShownCount, PactCount
  <1>3. ShownLastPairs = LastTurnPairs
    BY <1>1 DEF ShownLastPairs, LastTurnPairs, Last
  <1>4. CASE NeedsHistory
    BY <1>2, <1>3, <1>4 DEF Shown, PactValue
  <1>5. CASE ~NeedsHistory
    BY <1>1, <1>5 DEF Shown, PactValue, NeedsHistory, MutualHelpValue, Modes
  <1> QED BY <1>4, <1>5

(* A pact's value changes by playing only, as its mode says, for matches   *)
(* of every length and over every round boundary, and is what the agents   *)
(* are shown.                                                              *)
THEOREM PactsFollowPlay == Spec => PactFollowsPlay
  <1> DEFINE Followed(pair) ==
        LET now == PactValue(pair)
            played == history' # history /\ pair \in history'[Len(history')]
        IN PactValue(pair)' =
             IF mode = "decay" THEN IF played THEN AtLeast(MUTUAL_HELP_FLOOR, now - 1) ELSE now
             ELSE IF mode = "no_repeats" THEN
               IF played THEN HELP_POINTS
               ELSE IF history' = history THEN now ELSE HELP_POINTS + MUTUAL_HELP_BONUS
             ELSE now
  <1>1. ASSUME TypeOK, mode' = mode, history' = history, NEW pair
        PROVE  Followed(pair)
    BY <1>1 DEF PactValue, PactCount, LastTurnPairs, MutualHelpValue, TypeOK, Modes
  <1>2. ASSUME TypeOK, NEW sent \in Sent, ResolveTurn(sent), NEW pair
        PROVE  Followed(pair)
    <2> DEFINE S == MutualPairs(Materialized(sent))
    <2>1. S \in SUBSET Pairs
      BY SentPlaysTurn, MutualPairsType
    <2>2. mode' = mode /\ history' = Append(history, S)
      BY <1>2 DEF ResolveTurn
    <2> HIDE DEF S
    <2>3. history \in Seq(SUBSET Pairs) /\ mode \in Modes
      BY <1>2 DEF TypeOK
    <2>4. history' # history /\ history' # <<>> /\ history'[Len(history')] = S
      BY <2>1, <2>2, <2>3
    <2>5. LastTurnPairs' = S
      BY <2>4 DEF LastTurnPairs
    <2>6. PactCount(pair)' = PactCount(pair) + (IF pair \in S THEN 1 ELSE 0)
      BY <2>1, <2>2, <2>3, CountAppended DEF PactCount
    <2>7. PactCount(pair) \in Nat
      BY <1>2, PactValueType
    <2> DEFINE before == PactCount(pair)
               next == PactValue(pair)'
               now == PactValue(pair)
    <2>8. next = MutualHelpValue(mode, before + (IF pair \in S THEN 1 ELSE 0), pair \in S)
      BY <2>2, <2>5, <2>6 DEF PactValue
    <2>9. now = MutualHelpValue(mode, before, pair \in LastTurnPairs)
      BY DEF PactValue
    <2> HIDE DEF next, now, before
    <2>10. before \in Nat
      BY <2>7 DEF before
    <2>11. next = IF mode = "decay"
                    THEN IF pair \in S THEN AtLeast(MUTUAL_HELP_FLOOR, now - 1) ELSE now
                  ELSE IF mode = "no_repeats"
                    THEN IF pair \in S THEN HELP_POINTS ELSE HELP_POINTS + MUTUAL_HELP_BONUS
                  ELSE now
      BY <2>3, <2>8, <2>9, <2>10
      DEF MutualHelpValue, Modes, AtLeast, MUTUAL_HELP_FLOOR, HELP_POINTS, MUTUAL_HELP_BONUS
    <2> QED BY <2>4, <2>11 DEF next, now
  <1>3. ASSUME TypeOK, [Next]_vars, NEW pair
        PROVE  Followed(pair)
    <2>1. CASE StartRound
      BY <1>1, <1>3, <2>1 DEF StartRound
    <2>2. CASE UNCHANGED vars
      BY <1>1, <1>3, <2>2 DEF vars
    <2> QED BY <1>2, <1>3, <2>1, <2>2 DEF Next
  <1> HIDE DEF Followed
  <1> DEFINE Agreed(pair) == TurnToCome => Shown(pair) = PactValue(pair)
  <1>4. TypeOK => \A pair \in Pairs : Agreed(pair)
    BY ShownIsPaid
  <1> HIDE DEF Agreed
  <1> DEFINE Kept(pair) == /\ Agreed(pair)
                           /\ Followed(pair)
  <1>5. TypeOK /\ [Next]_vars => [\A pair \in Pairs : Kept(pair)]_vars
    BY <1>3, <1>4
  <1> HIDE DEF Kept
  <1>6. Spec => [][\A pair \in Pairs : Kept(pair)]_vars
    BY <1>5, TypeCorrect, PTL DEF Spec
  <1> QED BY <1>6 DEF PactFollowsPlay, Kept, Agreed, Followed

-----------------------------------------------------------------------------
(* The spectator's mirror. What each row of a turn adds to what a seat is  *)
(* shown, and the sum of that over the rows that have been shown.          *)

Own(m, e, p) == IF Mutual(m, p) THEN HELP_POINTS + e[p] ELSE e[p]
Lends(m, r, p) == Helps(m, r, p) /\ ~Mutual(m, r)

Gain(m, e, r, p) ==
  IF r = p THEN Own(m, e, p)
  ELSE IF Lends(m, r, p) THEN HELP_POINTS
  ELSE IF Lands(m, r, p) THEN -HURT_POINTS
  ELSE 0

ShownSum(m, e, S, p) ==
  (IF p \in S THEN Own(m, e, p) ELSE 0)
    + HELP_POINTS * Cardinality({r \in S : Lends(m, r, p)})
    - HURT_POINTS * Cardinality({r \in S : Lands(m, r, p)})

(* What a fair table of own earnings is: all a row's seat gets by its own  *)
(* move is some points, and a swing that misses and a HELP get none.       *)
Fair(m, e) ==
  /\ e \in [Players -> Int]
  /\ \A p \in Players :
       /\ Own(m, e, p) >= 0
       /\ m[p].action = "HELP" /\ ~Mutual(m, p) => e[p] = 0
       /\ m[p].action = "HURT" /\ ~Lands(m, p, m[p].target) => e[p] = 0

LEMMA EarnedFair ==
  ASSUME NEW m \in Turns, NEW pays, PaysBounded(pays)
  PROVE  Fair(m, [p \in Players |-> Earned(m, pays, p)])
<1> DEFINE e == [p \in Players |-> Earned(m, pays, p)]
<1>1. e \in [Players -> Int]
  BY EarnedBound
<1>2. ASSUME NEW p \in Players
      PROVE  /\ Own(m, e, p) >= 0
             /\ m[p].action = "HELP" /\ ~Mutual(m, p) => e[p] = 0
             /\ m[p].action = "HURT" /\ ~Lands(m, p, m[p].target) => e[p] = 0
  <2>1. e[p] = Earned(m, pays, p) /\ e[p] \in -2 .. 14
    BY EarnedBound
  <2> HIDE DEF e
  <2>2. m[p].action = "HELP" /\ ~Mutual(m, p) => e[p] = 0
    BY <2>1 DEF Earned
  <2>3. m[p].action = "HURT" /\ ~Lands(m, p, m[p].target) => e[p] = 0
    BY <2>1 DEF Earned, Take
  <2>4. Mutual(m, p) => Own(m, e, p) >= 0
    BY <2>1 DEF Own, HELP_POINTS
  <2>5. ~Mutual(m, p) => e[p] >= 0
    <3>1. CASE m[p].action = "HOARD"
      <4>1. Cardinality(Hoarders(m)) \in Nat
        BY Counts DEF Hoarders
      <4> QED BY <2>1, <3>1, <4>1, HoardShareBound DEF Earned
    <3>2. CASE m[p].action = "HURT" /\ Lands(m, p, m[p].target)
      <4> DEFINE q == m[p].target
                 n == AtLeast(1, Cardinality(AttackersOn(m, q)))
      <4>1. Cardinality(AttackersOn(m, q)) \in Nat
        BY Counts DEF AttackersOn, Hits
      <4>2. n \in Nat /\ n > 0
        BY <4>1 DEF AtLeast
      <4>3. Helps(m, q, p) \in BOOLEAN
        BY DEF Helps
      <4>4. e[p] = HurtTake(m[q].action, Helps(m, q, p), n)
        BY <2>1, <3>2 DEF Earned, Take
      <4> HIDE DEF n
      <4> QED BY <4>2, <4>3, <4>4, TakeBound
    <3> QED BY <2>2, <2>3, <3>1, <3>2, Typing
  <2> QED BY <2>1, <2>2, <2>3, <2>4, <2>5 DEF Own
<1> QED BY <1>1, <1>2 DEF Fair

(* A set of the rows shown with one more row: it counts if it is of the    *)
(* kind.                                                                   *)
LEMMA OneMore ==
  ASSUME NEW S \in SUBSET Players, NEW r \in Players \ S, NEW K
  PROVE  /\ Cardinality(S \cap K) \in Nat
         /\ Cardinality((S \cup {r}) \cap K) = Cardinality(S \cap K) + (IF r \in K THEN 1 ELSE 0)
<1>1. IsFiniteSet(S \cap K) /\ Cardinality(S \cap K) \in Nat
  BY Counts
<1>2. r \notin S \cap K
  OBVIOUS
<1>3. CASE r \in K
  <2>1. (S \cup {r}) \cap K = (S \cap K) \cup {r}
    BY <1>3
  <2>2. Cardinality((S \cap K) \cup {r}) = Cardinality(S \cap K) + 1
    BY <1>1, <1>2, FS_AddElement
  <2> QED BY <1>1, <1>3, <2>1, <2>2
<1>4. CASE r \notin K
  <2>1. (S \cup {r}) \cap K = S \cap K
    BY <1>4
  <2>2. Cardinality((S \cup {r}) \cap K) = Cardinality(S \cap K)
    BY <2>1, Zenon
  <2> QED BY <1>1, <1>4, <2>2
<1> QED BY <1>1, <1>3, <1>4

LEMMA SumGains ==
  ASSUME NEW m \in Turns, NEW e, Fair(m, e), NEW p \in Players,
         NEW S \in SUBSET Players, NEW r \in Players \ S
  PROVE  /\ ShownSum(m, e, S, p) \in Int
         /\ ShownSum(m, e, S \cup {r}, p) = ShownSum(m, e, S, p) + Gain(m, e, r, p)
<1> DEFINE T == S \cup {r}
           L == {q \in Players : Lends(m, q, p)}
           K == {q \in Players : Lands(m, q, p)}
           own(U) == IF p \in U THEN Own(m, e, p) ELSE 0
<1>1. /\ {q \in S : Lends(m, q, p)} = S \cap L /\ {q \in T : Lends(m, q, p)} = T \cap L
      /\ {q \in S : Lands(m, q, p)} = S \cap K /\ {q \in T : Lands(m, q, p)} = T \cap K
  OBVIOUS
<1>2. Own(m, e, p) \in Int
  BY DEF Own, Fair, HELP_POINTS
<1>3. ~Lends(m, p, p) /\ ~Lands(m, p, p) /\ (Lends(m, r, p) => ~Lands(m, r, p))
  BY Typing DEF Lends, Helps, Lands, Hurts
<1>4. (r \in L <=> Lends(m, r, p)) /\ (r \in K <=> Lands(m, r, p))
  OBVIOUS
<1>5. own(S) \in Int /\ own(T) = own(S) + (IF r = p THEN Own(m, e, p) ELSE 0)
  BY <1>2
<1> DEFINE a == Cardinality(S \cap L)  b == Cardinality(T \cap L)
           c == Cardinality(S \cap K)  d == Cardinality(T \cap K)
<1>6. a \in Nat /\ b = a + (IF r \in L THEN 1 ELSE 0)
  BY OneMore
<1>7. c \in Nat /\ d = c + (IF r \in K THEN 1 ELSE 0)
  BY OneMore
<1>8. ShownSum(m, e, S, p) = own(S) + HELP_POINTS * a - HURT_POINTS * c
  BY <1>1 DEF ShownSum
<1>9. ShownSum(m, e, T, p) = own(T) + HELP_POINTS * b - HURT_POINTS * d
  BY <1>1 DEF ShownSum
<1> DEFINE u == own(S)  v == own(T)
<1>10. u \in Int /\ v = u + (IF r = p THEN Own(m, e, p) ELSE 0)
  BY <1>5
<1>11. ShownSum(m, e, S, p) = u + HELP_POINTS * a - HURT_POINTS * c
       /\ ShownSum(m, e, T, p) = v + HELP_POINTS * b - HURT_POINTS * d
  BY <1>8, <1>9
<1> HIDE DEF a, b, c, d, L, K, T, own, u, v
<1>12. ShownSum(m, e, T, p) = ShownSum(m, e, S, p) + Gain(m, e, r, p)
  BY <1>2, <1>3, <1>4, <1>6, <1>7, <1>10, <1>11 DEF Gain, HELP_POINTS, HURT_POINTS
<1> QED BY <1>6, <1>7, <1>10, <1>11, <1>12 DEF T, HELP_POINTS, HURT_POINTS

(* What one row does to the display: a hit is floored, the rest is added.  *)
LEMMA MirroredIs ==
  ASSUME NEW m \in Turns, NEW e, Fair(m, e), NEW shown \in [Players -> Nat],
         NEW r \in Players
  PROVE  /\ Mirrored(m, e, shown, r) \in [Players -> Nat]
         /\ \A p \in Players :
              /\ Lands(m, r, p) => /\ Mirrored(m, e, shown, r)[p] = AtLeast(0, shown[p] - HURT_POINTS)
                                   /\ Gain(m, e, r, p) = -HURT_POINTS
              /\ ~Lands(m, r, p) => /\ Mirrored(m, e, shown, r)[p] = shown[p] + Gain(m, e, r, p)
                                    /\ Gain(m, e, r, p) >= 0
<1> DEFINE q == m[r].target
           next == Mirrored(m, e, shown, r)
           Right == /\ next \in [Players -> Nat]
                    /\ \A p \in Players :
                         /\ Lands(m, r, p) => /\ next[p] = AtLeast(0, shown[p] - HURT_POINTS)
                                              /\ Gain(m, e, r, p) = -HURT_POINTS
                         /\ ~Lands(m, r, p) => /\ next[p] = shown[p] + Gain(m, e, r, p)
                                               /\ Gain(m, e, r, p) >= 0
<1>1. \A p \in Players : e[p] \in Int /\ Own(m, e, p) \in Int /\ Own(m, e, p) >= 0
  BY DEF Own, Fair, HELP_POINTS
<1>2. \A p \in Players : /\ Lends(m, r, p) <=> m[r].action = "HELP" /\ p = q /\ ~Mutual(m, r)
                         /\ Lands(m, r, p) <=> m[r].action = "HURT" /\ p = q /\ Lands(m, r, q)
  BY DEF Lends, Helps, Lands, Hurts
<1>3. Mutual(m, r) => m[r].action = "HELP"
  BY DEF Mutual
<1>4. m[r].action \in {"HOARD", "HELP", "HURT"}
      /\ (m[r].action # "HOARD" => q \in Players \ {r})
  BY Typing
<1>5. ASSUME m[r].action = "HOARD"
      PROVE  Right
  <2>1. next = [shown EXCEPT ![r] = @ + e[r]]
    BY <1>5 DEF Mirrored
  <2>2. Own(m, e, r) = e[r]
    BY <1>3, <1>5 DEF Own
  <2> HIDE DEF next, q
  <2> QED BY <1>1, <1>2, <1>5, <2>1, <2>2 DEF Gain
<1>6. ASSUME m[r].action = "HELP" /\ Mutual(m, r)
      PROVE  Right
  <2>1. next = [shown EXCEPT ![r] = @ + HELP_POINTS + e[r]]
    BY <1>6 DEF Mirrored
  <2>2. Own(m, e, r) = HELP_POINTS + e[r]
    BY <1>6 DEF Own
  <2> HIDE DEF next, q
  <2> QED BY <1>1, <1>2, <1>6, <2>1, <2>2 DEF Gain, HELP_POINTS
<1>7. ASSUME m[r].action = "HELP" /\ ~Mutual(m, r)
      PROVE  Right
  <2>1. next = [shown EXCEPT ![q] = @ + HELP_POINTS]
    BY <1>7 DEF Mirrored
  <2>2. Own(m, e, r) = 0
    BY <1>7 DEF Own, Fair
  <2> HIDE DEF next, q
  <2> QED BY <1>1, <1>2, <1>4, <1>7, <2>1, <2>2 DEF Gain, HELP_POINTS
<1>8. ASSUME m[r].action = "HURT" /\ Lands(m, r, q)
      PROVE  Right
  <2>1. next = [shown EXCEPT ![q] = AtLeast(SCORE_FLOOR, @ - HURT_POINTS), ![r] = @ + e[r]]
    BY <1>3, <1>8 DEF Mirrored
  <2>2. Own(m, e, r) = e[r]
    BY <1>3, <1>8 DEF Own
  <2> HIDE DEF next, q
  <2>3. next[q] = AtLeast(0, shown[q] - HURT_POINTS) /\ next[r] = shown[r] + e[r]
        /\ \A p \in Players \ {q, r} : next[p] = shown[p]
    BY <1>1, <1>4, <1>8, <2>1 DEF SCORE_FLOOR
  <2>4. next \in [Players -> Nat]
    <3>1. AtLeast(0, shown[q] - HURT_POINTS) \in Nat
      BY <1>4, <1>8 DEF AtLeast, HURT_POINTS
    <3>2. shown[r] + e[r] \in Nat
      BY <1>1, <2>2
    <3>3. DOMAIN next = Players /\ next = [p \in Players |-> next[p]]
      BY <2>1
    <3> QED BY <2>3, <3>1, <3>2, <3>3
  <2> QED BY <1>1, <1>2, <1>4, <1>8, <2>2, <2>3, <2>4 DEF Gain
<1>9. ASSUME m[r].action = "HURT" /\ ~Lands(m, r, q)
      PROVE  Right
  <2>1. next = shown
    BY <1>3, <1>9 DEF Mirrored
  <2>2. Own(m, e, r) = 0
    BY <1>3, <1>9 DEF Own, Fair
  <2> HIDE DEF next, q
  <2> QED BY <1>1, <1>2, <1>9, <2>1, <2>2 DEF Gain
<1>10. Right
  <2> HIDE DEF Right
  <2> QED BY <1>4, <1>5, <1>6, <1>7, <1>8, <1>9
<1> QED BY <1>10

(* One row more on the display: it stays at or above the sum of the rows   *)
(* shown, and at it while no run of hits can reach the floor.              *)
ShownFor(m, e, score, S, shown) ==
  /\ shown \in [Players -> Nat]
  /\ \A p \in Players :
       /\ shown[p] >= score[p] + ShownSum(m, e, S, p)
       /\ score[p] >= HURT_POINTS * Cardinality(Hits(m, p)) =>
            shown[p] = score[p] + ShownSum(m, e, S, p)

LEMMA SumAboveHits ==
  ASSUME NEW m \in Turns, NEW e, Fair(m, e), NEW p \in Players, NEW S \in SUBSET Players
  PROVE  ShownSum(m, e, S, p) >= -(HURT_POINTS * Cardinality(Hits(m, p)))
<1> DEFINE a == Cardinality({r \in S : Lends(m, r, p)})
           b == Cardinality({r \in S : Lands(m, r, p)})
           c == Cardinality(Hits(m, p))
           own == IF p \in S THEN Own(m, e, p) ELSE 0
<1>1. a \in Nat /\ b \in Nat /\ c \in Nat
  BY Counts DEF Hits
<1>2. b <= c
  <2>1. {r \in S : Lands(m, r, p)} \subseteq Hits(m, p)
    BY DEF Hits
  <2>2. IsFiniteSet(Hits(m, p))
    BY Counts DEF Hits
  <2> QED BY <2>1, <2>2, FS_Subset
<1>3. Own(m, e, p) \in Int /\ Own(m, e, p) >= 0
  BY DEF Own, Fair, HELP_POINTS
<1>4. own \in Int /\ own >= 0
  BY <1>3
<1>5. ShownSum(m, e, S, p) = own + HELP_POINTS * a - HURT_POINTS * b
  BY DEF ShownSum
<1> HIDE DEF a, b, c, own
<1>6. ShownSum(m, e, S, p) >= -(HURT_POINTS * c)
  BY <1>1, <1>2, <1>4, <1>5 DEF HELP_POINTS, HURT_POINTS
<1> QED BY <1>6 DEF c

LEMMA MirroredStep ==
  ASSUME NEW m \in Turns, NEW e, Fair(m, e), NEW score \in [Players -> Nat],
         NEW S \in SUBSET Players, NEW r \in Players \ S, NEW shown,
         ShownFor(m, e, score, S, shown)
  PROVE  ShownFor(m, e, score, S \cup {r}, Mirrored(m, e, shown, r))
<1> DEFINE T == S \cup {r}
           next == Mirrored(m, e, shown, r)
<1>1. shown \in [Players -> Nat] /\ next \in [Players -> Nat]
  BY MirroredIs DEF ShownFor
<1>2. ASSUME NEW p \in Players
      PROVE  /\ next[p] >= score[p] + ShownSum(m, e, T, p)
             /\ score[p] >= HURT_POINTS * Cardinality(Hits(m, p)) =>
                  next[p] = score[p] + ShownSum(m, e, T, p)
  <2> DEFINE old == ShownSum(m, e, S, p)
             new == ShownSum(m, e, T, p)
             gain == Gain(m, e, r, p)
             hits == HURT_POINTS * Cardinality(Hits(m, p))
  <2>1. old \in Int /\ new = old + gain
    BY SumGains
  <2>2. new >= -hits
    BY SumAboveHits
  <2>3. shown[p] >= score[p] + old /\ (score[p] >= hits => shown[p] = score[p] + old)
    BY DEF ShownFor
  <2>4. hits \in Nat
    BY Counts DEF Hits, HURT_POINTS
  <2>5. shown[p] \in Nat /\ score[p] \in Nat /\ next[p] \in Nat
    BY <1>1
  <2>6. Lands(m, r, p) => next[p] = AtLeast(0, shown[p] - HURT_POINTS) /\ gain = -HURT_POINTS
    BY <1>1, MirroredIs
  <2>7. ~Lands(m, r, p) => next[p] = shown[p] + gain /\ gain >= 0
    BY <1>1, MirroredIs
  <2> HIDE DEF old, new, gain, hits, next
  <2>8. next[p] >= score[p] + new /\ (score[p] >= hits => next[p] = score[p] + new)
    <3>1. CASE Lands(m, r, p)
      BY <2>1, <2>2, <2>3, <2>4, <2>5, <2>6, <3>1 DEF AtLeast, HURT_POINTS
    <3>2. CASE ~Lands(m, r, p)
      <4>1. gain \in Int
        BY <2>5, <2>7, <3>2, MirroredIs, SumGains DEF gain, Gain, Own, Fair, HELP_POINTS, HURT_POINTS
      <4> QED BY <2>1, <2>3, <2>5, <2>7, <3>2, <4>1
    <3> QED BY <3>1, <3>2
  <2> QED BY <2>8 DEF new, hits
<1> QED BY <1>1, <1>2 DEF ShownFor

(* All rows shown: the sum is what resolve_turn adds to the score. A seat  *)
(* in a pact is lent to by its partner's move on the one side, and shown   *)
(* it with its own move on the other.                                      *)
LEMMA AllShown ==
  ASSUME NEW m \in Turns, NEW pays, PaysBounded(pays), NEW p \in Players
  PROVE  ShownSum(m, [q \in Players |-> Earned(m, pays, q)], Players, p) = Delta(m, pays, p)
<1> DEFINE e == [q \in Players |-> Earned(m, pays, q)]
           L == {r \in Players : Lends(m, r, p)}
           a == Cardinality(L)
           h == Cardinality(Helpers(m, p))
           k == Cardinality(Hits(m, p))
<1>1. IsFiniteSet(L) /\ a \in Nat /\ h \in Nat /\ k \in Nat
  BY Counts DEF Helpers, Hits
<1>2. e[p] = Earned(m, pays, p) /\ e[p] \in -2 .. 14
  BY EarnedBound
<1>3. ShownSum(m, e, Players, p) = Own(m, e, p) + HELP_POINTS * a - HURT_POINTS * k
  BY DEF ShownSum, Hits
<1>4. h = a + (IF Mutual(m, p) THEN 1 ELSE 0)
  <2>1. CASE Mutual(m, p)
    <3> DEFINE q == m[p].target
    <3>1. q \in Players /\ q # p /\ Helps(m, q, p) /\ Helps(m, p, q)
      BY <2>1, Typing DEF Mutual, Helps
    <3>2. Mutual(m, q)
      BY <3>1 DEF Mutual, Helps
    <3>3. \A r \in Players : Helps(m, r, p) /\ Mutual(m, r) => r = q
      BY DEF Mutual, Helps
    <3> HIDE DEF q
    <3>4. q \notin L /\ Helpers(m, p) = L \cup {q}
      BY <3>1, <3>2, <3>3 DEF Lends, Helpers
    <3>5. Cardinality(L \cup {q}) = Cardinality(L) + 1
      <4> HIDE DEF L
      <4> QED BY <1>1, <3>4, FS_AddElement
    <3> QED BY <2>1, <3>4, <3>5
  <2>2. CASE ~Mutual(m, p)
    <3>1. \A r \in Players : Helps(m, r, p) => ~Mutual(m, r)
      BY <2>2 DEF Mutual, Helps
    <3>2. Helpers(m, p) = L
      BY <3>1 DEF Lends, Helpers
    <3> QED BY <1>1, <2>2, <3>2
  <2> QED BY <2>1, <2>2
<1>5. Delta(m, pays, p) = e[p] + HELP_POINTS * h - HURT_POINTS * k
  BY <1>2 DEF Delta
<1> HIDE DEF a, h, k, e, L
<1>6. ShownSum(m, e, Players, p) = Delta(m, pays, p)
  BY <1>1, <1>2, <1>3, <1>4, <1>5 DEF Own, HELP_POINTS, HURT_POINTS
<1> QED BY <1>6 DEF e

-----------------------------------------------------------------------------
(* The rows in their order. The mirror is a recursive function over them:  *)
(* that it has a solution, and that every solution is right so far, is by  *)
(* induction on the number of rows. The library's induction theorem takes  *)
(* an operator, so induction is stated of a set here.                      *)

LEMMA LeastNumber ==
  ASSUME NEW S, S \subseteq Nat, S # {}
  PROVE  \E m \in S : \A n \in S : m <= n
<1> DEFINE Less == {ss \in Nat \X Nat : ss[1] < ss[2]}
<1>1. IsWellFoundedOn(Less, Nat)
  BY NatLessThanWellFounded, Zenon DEF OpToRel
<1>2. PICK m \in S : \A n \in S : ~(<<n, m>> \in Less)
  <2> HIDE DEF Less
  <2> QED BY <1>1, WFMin
<1>3. \A n \in S : ~(n < m)
  BY <1>2
<1> QED BY <1>3

LEMMA NumberInduction ==
  ASSUME NEW G, 0 \in G, \A n \in Nat : n \in G => n + 1 \in G
  PROVE  Nat \subseteq G
<1> SUFFICES ASSUME Nat \ G # {} PROVE FALSE
  OBVIOUS
<1>1. PICK m \in Nat \ G : \A n \in Nat \ G : m <= n
  BY LeastNumber
<1>2. m # 0 /\ m - 1 \in Nat /\ m - 1 \in G
  BY <1>1
<1> QED BY <1>1, <1>2

IsMirror(m, e, score, order, n, after) ==
  after = [i \in 0 .. n |-> IF i = 0 THEN score ELSE Mirrored(m, e, after[i - 1], order[i])]

LEMMA MirrorExists ==
  ASSUME NEW m, NEW e, NEW score, NEW order, NEW n \in Nat
  PROVE  \E after : IsMirror(m, e, score, order, n, after)
<1> DEFINE G == {k \in Nat : \E after : IsMirror(m, e, score, order, k, after)}
<1>1. 0 \in G
  <2> DEFINE after == [i \in 0 .. 0 |-> score]
  <2>1. after = [i \in 0 .. 0 |->
                   IF i = 0 THEN score ELSE Mirrored(m, e, after[i - 1], order[i])]
    OBVIOUS
  <2>2. IsMirror(m, e, score, order, 0, after)
    BY <2>1 DEF IsMirror
  <2> QED BY <2>2
<1>2. ASSUME NEW k \in Nat, k \in G PROVE k + 1 \in G
  <2>1. PICK after : IsMirror(m, e, score, order, k, after)
    BY <1>2
  <2> DEFINE last == Mirrored(m, e, after[k], order[k + 1])
             more == [i \in 0 .. k + 1 |-> IF i = k + 1 THEN last ELSE after[i]]
             rhs == [i \in 0 .. k + 1 |->
                       IF i = 0 THEN score ELSE Mirrored(m, e, more[i - 1], order[i])]
  <2>2. ASSUME NEW i \in 0 .. k + 1 PROVE more[i] = rhs[i]
    <3>1. CASE i = k + 1
      <4>1. more[i - 1] = after[k] /\ i # 0
        BY <3>1
      <4> QED BY <3>1, <4>1
    <3>2. CASE i # k + 1
      <4>1. i \in 0 .. k
        BY <3>2
      <4>2. after[i] = IF i = 0 THEN score ELSE Mirrored(m, e, after[i - 1], order[i])
        BY <2>1, <4>1 DEF IsMirror
      <4>3. i # 0 => more[i - 1] = after[i - 1]
        BY <4>1
      <4>4. more[i] = after[i]
        BY <3>2
      <4> QED BY <4>2, <4>3, <4>4
    <3> QED BY <3>1, <3>2
  <2>3. more = rhs
    <3> HIDE DEF last
    <3>1. DOMAIN more = DOMAIN rhs /\ more = [i \in DOMAIN more |-> more[i]]
          /\ rhs = [i \in DOMAIN rhs |-> rhs[i]]
      OBVIOUS
    <3>2. DOMAIN more = 0 .. k + 1
      OBVIOUS
    <3> HIDE DEF more, rhs
    <3> QED BY <2>2, <3>1, <3>2
  <2>4. IsMirror(m, e, score, order, k + 1, more)
    BY <2>3 DEF IsMirror
  <2> QED BY <2>4
<1>3. Nat \subseteq G
  <2> HIDE DEF G
  <2> QED BY <1>1, <1>2, NumberInduction
<1> QED BY <1>3

(* The orders are those of the rows of all seats, each once.               *)
LEMMA OrderFacts ==
  ASSUME NEW order \in Orders
  PROVE  /\ Len(order) = Cardinality(Players) /\ Len(order) \in Nat
         /\ \A i \in 1 .. Len(order) : order[i] \in Players
         /\ \A i, j \in 1 .. Len(order) : i # j => order[i] # order[j]
         /\ {order[i] : i \in 1 .. Len(order)} = Players
<1> DEFINE n == Cardinality(Players)
<1>1. n \in Nat
  BY Counts
<1>2. order \in [1 .. n -> Players] /\ \A i, j \in 1 .. n : i # j => order[i] # order[j]
  BY DEF Orders, SetToSeqs
<1> HIDE DEF n
<1>3. Len(order) = n
  <2>1. order \in Seq(Players)
    BY <1>1, <1>2
  <2> QED BY <1>1, <1>2, <2>1
<1>4. {order[i] : i \in 1 .. n} = Players
  <2>1. order \in Injection(1 .. n, Players)
    BY <1>2 DEF Injection, IsInjective
  <2>2. Cardinality(1 .. n) = Cardinality(Players) /\ IsFiniteSet(Players)
    <3>1. Cardinality(1 .. n) = n
      BY <1>1, FS_Interval
    <3> QED BY <3>1, PlayersAssumption DEF n
  <2>3. order \in Surjection(1 .. n, Players)
    BY <2>1, <2>2, FS_Injection
  <2> QED BY <1>2, <2>3 DEF Surjection
<1> QED BY <1>1, <1>2, <1>3, <1>4 DEF n

LEMMA MirrorShows ==
  ASSUME NEW m \in Turns, NEW e, Fair(m, e), NEW score \in [Players -> Nat],
         NEW order \in Orders
  PROVE  ShownFor(m, e, score, Players, Mirror(m, e, score, order))
<1> DEFINE n == Len(order)
           after == CHOOSE after : IsMirror(m, e, score, order, n, after)
           Rows(k) == {order[i] : i \in 1 .. k}
           G == {k \in Nat : k <= n => ShownFor(m, e, score, Rows(k), after[k])}
<1>1. /\ n \in Nat
      /\ \A i \in 1 .. n : order[i] \in Players
      /\ \A i, j \in 1 .. n : i # j => order[i] # order[j]
      /\ Rows(n) = Players
  BY OrderFacts
<1>2. Mirror(m, e, score, order) = after[n]
  BY DEF Mirror, IsMirror
<1>3. IsMirror(m, e, score, order, n, after)
  BY <1>1, MirrorExists
<1> HIDE DEF after, n
<1>4. after[0] = score
  BY <1>1, <1>3 DEF IsMirror
<1>5. \A i \in 1 .. n : after[i] = Mirrored(m, e, after[i - 1], order[i])
  BY <1>1, <1>3 DEF IsMirror
<1>6. 0 \in G
  <2>1. Rows(0) = {}
    OBVIOUS
  <2>2. \A p \in Players : ShownSum(m, e, {}, p) = 0
    BY FS_EmptySet DEF ShownSum, HELP_POINTS, HURT_POINTS
  <2>3. ShownFor(m, e, score, {}, score)
    BY <2>2 DEF ShownFor
  <2> QED BY <1>4, <2>1, <2>3
<1>7. ASSUME NEW k \in Nat, k \in G PROVE k + 1 \in G
  <2> SUFFICES ASSUME k + 1 <= n PROVE ShownFor(m, e, score, Rows(k + 1), after[k + 1])
    OBVIOUS
  <2> DEFINE r == order[k + 1]
  <2>1. Rows(k) \in SUBSET Players /\ r \in Players \ Rows(k)
    BY <1>1
  <2>2. Rows(k + 1) = Rows(k) \cup {r}
    OBVIOUS
  <2>3. after[k + 1] = Mirrored(m, e, after[k], r)
    BY <1>1, <1>5
  <2>4. ShownFor(m, e, score, Rows(k), after[k])
    BY <1>1, <1>7
  <2> DEFINE S == Rows(k)
  <2> HIDE DEF r, S
  <2>5. ShownFor(m, e, score, S \cup {r}, Mirrored(m, e, after[k], r))
    BY <2>1, <2>4, MirroredStep DEF S
  <2> QED BY <2>2, <2>3, <2>5 DEF S
<1>8. n \in G
  <2> HIDE DEF G
  <2> QED BY <1>1, <1>6, <1>7, NumberInduction
<1> QED BY <1>1, <1>2, <1>8

(* Whatever the seats, the scores, the moves and the order of their rows,  *)
(* the display does not end below the score, and ends at it when no run of *)
(* hits could have reached the floor.                                      *)
THEOREM MirrorAbove == Spec => []MirrorNeverBelow
<1>1. TypeOK => MirrorNeverBelow
  <2> SUFFICES ASSUME TypeOK PROVE MirrorNeverBelow
    OBVIOUS
  <2> DEFINE pays == PactValues
  <2>1. PaysBounded(pays)
    BY PaysType
  <2>2. roundScore \in [Players -> Nat]
    BY DEF TypeOK
  <2> HIDE DEF pays
  <2>3. ASSUME NEW m \in Turns, NEW order \in Orders, NEW p \in Players
        PROVE  LET shown == Mirror(m, [q \in Players |-> Earned(m, pays, q)], roundScore, order)
                   real == NewScore(roundScore[p], m, pays, p)
               IN /\ shown[p] >= real
                  /\ roundScore[p] >= HURT_POINTS * Cardinality(Hits(m, p)) => shown[p] = real
    <3> DEFINE e == [q \in Players |-> Earned(m, pays, q)]
               shown == Mirror(m, e, roundScore, order)
               unfloored == roundScore[p] >= HURT_POINTS * Cardinality(Hits(m, p))
    <3>1. ShownFor(m, e, roundScore, Players, shown)
      BY <2>1, <2>2, EarnedFair, MirrorShows
    <3>2. ShownSum(m, e, Players, p) = Delta(m, pays, p)
      BY <2>1, AllShown
    <3>3. Delta(m, pays, p) \in Int
      BY <2>1, DeltaType
    <3> HIDE DEF e, shown
    <3>4. /\ shown[p] \in Nat
          /\ shown[p] >= roundScore[p] + Delta(m, pays, p)
          /\ unfloored => shown[p] = roundScore[p] + Delta(m, pays, p)
      BY <3>1, <3>2 DEF ShownFor
    <3> HIDE DEF unfloored
    <3>5. shown[p] >= NewScore(roundScore[p], m, pays, p)
          /\ (unfloored => shown[p] = NewScore(roundScore[p], m, pays, p))
      BY <2>2, <3>3, <3>4 DEF NewScore, AtLeast, SCORE_FLOOR
    <3> QED BY <3>5 DEF shown, e, unfloored
  <2> QED BY <2>3 DEF MirrorNeverBelow, pays
<1> QED BY <1>1, TypeCorrect, PTL
=============================================================================
