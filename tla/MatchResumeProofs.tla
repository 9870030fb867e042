-------------------------- MODULE MatchResumeProofs --------------------------
(***************************************************************************)
(* Theorems about MatchResume for every match that FinishOrder can follow, *)
(* of any number of turns a round, with any deaths of its loop and a copy  *)
(* built at any moment from any turn.                                      *)
(***************************************************************************)
EXTENDS MatchResume, FiniteSetTheorems, TLAPS

(* Induction, sums and the round's winners.                                *)
Finish == INSTANCE FinishOrderProofs

LEMMA Sizes ==
  /\ TotalRounds \in Nat /\ TotalRounds >= 1 /\ TurnsPerRound \in Nat /\ TurnsPerRound >= 2
  /\ IsFiniteSet(Players) /\ RoundScores \subseteq Nat
  BY OrderAssumption, TurnsAssumption

LEMMA SameSum == \A f : SumFunction(f) = Finish!SumFunction(f)
  BY DEF SumFunction, SumFunctionOnSet, FoldFunctionOnSet, MapThenFoldSet,
     Finish!SumFunction, Finish!SumFunctionOnSet, Finish!FoldFunctionOnSet,
     Finish!MapThenFoldSet

LEMMA SameFinite == \A S : IsFiniteSet(S) <=> Finish!IsFiniteSet(S)
  BY DEF IsFiniteSet, Finish!IsFiniteSet

LEMMA SameCardinality == \A S : Cardinality(S) = Finish!Cardinality(S)
  BY SameFinite DEF Cardinality, Finish!Cardinality

LEMMA OrderCardinality == \A S : Cardinality(S) = Order!Cardinality(S)
<1>1. \A S : IsFiniteSet(S) <=> Order!IsFiniteSet(S)
  BY DEF IsFiniteSet, Order!IsFiniteSet
<1> QED BY <1>1 DEF Cardinality, Order!Cardinality

(* The assumptions of FinishOrder hold of its instance here.               *)
LEMMA FinishTable ==
  /\ Finish!NoOne \notin Players
  /\ RoundScores \subseteq Nat /\ Tallies \subseteq Nat
  /\ TotalRounds \in 1 .. 20
  /\ Finish!IsFiniteSet(Players) /\ Finish!Cardinality(Players) \in 1 .. 20
  BY OrderAssumption, SameFinite, SameCardinality DEF Order!NoOne, Finish!NoOne

LEMMA LeastNumber ==
  ASSUME NEW S, S \subseteq Nat, S # {}
  PROVE  \E m \in S : \A n \in S : m <= n
  BY FinishTable, Finish!LeastNumber

LEMMA NumberInduction ==
  ASSUME NEW G, 0 \in G, \A n \in Nat : n \in G => n + 1 \in G
  PROVE  Nat \subseteq G
  BY FinishTable, Finish!NumberInduction

LEMMA SumNat ==
  ASSUME NEW S, IsFiniteSet(S), NEW f \in [S -> Nat]
  PROVE  SumFunction(f) \in Nat
  BY FinishTable, Finish!SumNat, SameSum, SameFinite

LEMMA SumEmpty == ASSUME NEW f, DOMAIN f = {} PROVE SumFunction(f) = 0
  BY FinishTable, Finish!SumEmpty, SameSum

LEMMA SumInsert ==
  ASSUME NEW S, IsFiniteSet(S), NEW m, m \notin S, NEW Z, Z = S \cup {m},
         NEW f \in [S -> Int], NEW g \in [Z -> Int], \A x \in S : f[x] = g[x]
  PROVE  SumFunction(g) = SumFunction(f) + g[m]
<1>1. Finish!IsFiniteSet(S) /\ g \in [S \cup {m} -> Int]
  BY SameFinite
<1>2. Finish!SumFunction(g) = Finish!SumFunction(f) + g[m]
  BY <1>1, FinishTable, Finish!SumInsert
<1> QED BY <1>2, SameSum

LEMMA Greatest ==
  ASSUME NEW S, S \subseteq Nat, S # {}, NEW k \in Nat, \A n \in S : n <= k
  PROVE  Max(S) \in S /\ \A n \in S : n <= Max(S)
<1> DEFINE Rest == {k - n : n \in S}
<1>1. Rest \subseteq Nat /\ Rest # {}
  <2>1. PICK e \in S : TRUE
    OBVIOUS
  <2>2. k - e \in Rest
    BY <2>1
  <2>3. \A n \in S : k - n \in Nat
    OBVIOUS
  <2> QED BY <2>2, <2>3
<1>2. PICK m \in Rest : \A r \in Rest : m <= r
  <2> HIDE DEF Rest
  <2> QED BY <1>1, LeastNumber
<1>3. PICK top \in S : m = k - top
  BY <1>2
<1>4. \A n \in S : n <= top
  BY <1>2, <1>3
<1> QED BY <1>3, <1>4 DEF Max

(* round_award in its two copies.                                          *)
LEMMA SameWinners ==
  ASSUME roundScore \in [Players -> Nat]
  PROVE  Order!RoundWinners = WinnersOf(roundScore)
<1>1. Finish!RoundWinners
        = {p \in Players : \A q \in Players : roundScore[q] <= roundScore[p]}
  BY FinishTable, Finish!Winners
<1>2. Order!RoundWinners = Finish!RoundWinners
  BY DEF Order!RoundWinners, Finish!RoundWinners, Order!Max, Finish!Max
<1> QED BY <1>1, <1>2 DEF WinnersOf

-----------------------------------------------------------------------------
(* The fold over the rounds, with the scores as a parameter: the same      *)
(* formula speaks of the scores before and after a step.                   *)

ScoreIn(scores, rows, n) == scores[<<n, LastOf(rows, n)>>]

Credited(scores, rows, p, n, w) ==
  IF n \notin PlayedRounds(rows) THEN w
  ELSE LET winners == WinnersOf(ScoreIn(scores, rows, n))
       IN IF p \in winners THEN Order!Plus(w, Order!Share(Cardinality(winners))) ELSE w

IsFold(scores, rows, p, last, won) ==
  won = [n \in 0 .. last |->
           IF n = 0 THEN <<0, 0>> ELSE Credited(scores, rows, p, n, won[n - 1])]

Fold(scores, rows, p, last) == (CHOOSE won : IsFold(scores, rows, p, last, won))[last]

LEMMA WinsFold ==
  \A rows, p, last : WinsIn(rows, p, last) = Fold(scoreAfter, rows, p, last)
  BY DEF WinsIn, Fold, IsFold, Credited, ScoreIn, ScoresOf

LEMMA WinsFoldNext ==
  \A rows, p, last : (WinsIn(rows, p, last) = Fold(scoreAfter, rows, p, last))'
  BY DEF WinsIn, Fold, IsFold, Credited, ScoreIn, ScoresOf

LEMMA FoldExists ==
  ASSUME NEW scores, NEW rows, NEW p, NEW last \in Nat
  PROVE  \E won : IsFold(scores, rows, p, last, won)
<1> DEFINE G == {n \in Nat : \E won : IsFold(scores, rows, p, n, won)}
<1>1. 0 \in G
  <2> DEFINE won == [n \in 0 .. 0 |-> <<0, 0>>]
  <2>1. won = [n \in 0 .. 0 |->
                 IF n = 0 THEN <<0, 0>> ELSE Credited(scores, rows, p, n, won[n - 1])]
    OBVIOUS
  <2>2. IsFold(scores, rows, p, 0, won)
    BY <2>1 DEF IsFold
  <2> QED BY <2>2
<1>2. ASSUME NEW k \in Nat, k \in G PROVE k + 1 \in G
  <2>1. PICK won : IsFold(scores, rows, p, k, won)
    BY <1>2
  <2> DEFINE more == [n \in 0 .. k + 1 |->
                        IF n <= k THEN won[n] ELSE Credited(scores, rows, p, n, won[n - 1])]
  <2>2. won = [n \in 0 .. k |->
                 IF n = 0 THEN <<0, 0>> ELSE Credited(scores, rows, p, n, won[n - 1])]
    BY <2>1 DEF IsFold
  <2>3. ASSUME NEW n \in 0 .. k + 1
        PROVE  more[n] = IF n = 0 THEN <<0, 0>> ELSE Credited(scores, rows, p, n, more[n - 1])
    <3>1. CASE n = 0
      BY <2>2, <3>1
    <3>2. CASE n # 0
      <4>1. n - 1 \in 0 .. k
        BY <3>2
      <4>2. more[n - 1] = won[n - 1]
        BY <4>1
      <4>3. ASSUME n <= k PROVE won[n] = Credited(scores, rows, p, n, won[n - 1])
        <5>1. n \in 0 .. k
          BY <4>3
        <5> HIDE DEF more
        <5> QED BY <2>2, <3>2, <5>1, Zenon
      <4>4. more[n] = Credited(scores, rows, p, n, won[n - 1])
        BY <4>3
      <4> QED BY <3>2, <4>2, <4>4
    <3> QED BY <3>1, <3>2
  <2>4. more = [n \in 0 .. k + 1 |-> more[n]]
    OBVIOUS
  <2> HIDE DEF more
  <2>5. more = [n \in 0 .. k + 1 |->
                  IF n = 0 THEN <<0, 0>> ELSE Credited(scores, rows, p, n, more[n - 1])]
    BY <2>3, <2>4
  <2>6. IsFold(scores, rows, p, k + 1, more)
    BY <2>5 DEF IsFold
  <2> QED BY <2>6
<1>3. \A k \in Nat : k \in G => k + 1 \in G
  BY <1>2
<1>4. Nat \subseteq G
  <2> HIDE DEF G
  <2> QED BY <1>1, <1>3, NumberInduction
<1> QED BY <1>4

LEMMA FoldFacts ==
  ASSUME NEW scores, NEW rows, NEW p, NEW last \in Nat, NEW won,
         IsFold(scores, rows, p, last, won)
  PROVE  /\ won[0] = <<0, 0>>
         /\ \A n \in Nat : n < last => won[n + 1] = Credited(scores, rows, p, n + 1, won[n])
<1>1. won = [n \in 0 .. last |->
               IF n = 0 THEN <<0, 0>> ELSE Credited(scores, rows, p, n, won[n - 1])]
  BY DEF IsFold
<1>2. ASSUME NEW n \in Nat, n < last
      PROVE  won[n + 1] = Credited(scores, rows, p, n + 1, won[n])
  <2>1. n + 1 \in 0 .. last /\ n + 1 # 0 /\ (n + 1) - 1 = n
    BY <1>2
  <2> QED BY <1>1, <2>1
<1>3. won[0] = <<0, 0>>
  <2>1. 0 \in 0 .. last
    OBVIOUS
  <2> QED BY <1>1, <2>1, Zenon
<1>4. \A n \in Nat : n < last => won[n + 1] = Credited(scores, rows, p, n + 1, won[n])
  BY <1>2
<1> QED BY <1>3, <1>4

LEMMA FoldSteps ==
  ASSUME NEW scores, NEW rows, NEW p
  PROVE  /\ Fold(scores, rows, p, 0) = <<0, 0>>
         /\ \A n \in Nat : Fold(scores, rows, p, n + 1)
                             = Credited(scores, rows, p, n + 1, Fold(scores, rows, p, n))
<1> DEFINE Won(last) == CHOOSE won : IsFold(scores, rows, p, last, won)
<1>1. \A last \in Nat : IsFold(scores, rows, p, last, Won(last))
  BY FoldExists
<1>2. \A last \in Nat : Fold(scores, rows, p, last) = Won(last)[last]
  BY DEF Fold
<1> HIDE DEF Won
<1>3. \A last \in Nat :
        /\ Won(last)[0] = <<0, 0>>
        /\ \A n \in Nat : n < last =>
             Won(last)[n + 1] = Credited(scores, rows, p, n + 1, Won(last)[n])
  <2> SUFFICES ASSUME NEW last \in Nat
               PROVE  /\ Won(last)[0] = <<0, 0>>
                      /\ \A n \in Nat : n < last =>
                           Won(last)[n + 1] = Credited(scores, rows, p, n + 1, Won(last)[n])
    OBVIOUS
  <2> DEFINE w == Won(last)
  <2>1. IsFold(scores, rows, p, last, w)
    BY <1>1
  <2> HIDE DEF w
  <2>2. w[0] = <<0, 0>>
    BY <2>1, FoldFacts
  <2>3. \A n \in Nat : n < last => w[n + 1] = Credited(scores, rows, p, n + 1, w[n])
    BY <2>1, FoldFacts
  <2> QED BY <2>2, <2>3 DEF w
<1>4. ASSUME NEW k \in Nat PROVE Won(k + 1)[k] = Won(k)[k]
  <2> DEFINE G == {n \in Nat : n <= k => Won(k + 1)[n] = Won(k)[n]}
  <2>1. 0 \in G
    BY <1>3
  <2>2. ASSUME NEW n \in Nat, n \in G PROVE n + 1 \in G
    <3> SUFFICES ASSUME n + 1 <= k PROVE Won(k + 1)[n + 1] = Won(k)[n + 1]
      OBVIOUS
    <3>1. Won(k + 1)[n + 1] = Credited(scores, rows, p, n + 1, Won(k + 1)[n])
      <4>1. k + 1 \in Nat /\ n < k + 1
        OBVIOUS
      <4> QED BY <1>3, <4>1
    <3>2. Won(k)[n + 1] = Credited(scores, rows, p, n + 1, Won(k)[n])
      BY <1>3
    <3>3. Won(k + 1)[n] = Won(k)[n]
      BY <2>2
    <3> QED BY <3>1, <3>2, <3>3
  <2>3. \A n \in Nat : n \in G => n + 1 \in G
    BY <2>2
  <2>4. Nat \subseteq G
    <3> HIDE DEF G
    <3> QED BY <2>1, <2>3, NumberInduction
  <2> QED BY <2>4
<1>5. ASSUME NEW n \in Nat
      PROVE  Fold(scores, rows, p, n + 1)
               = Credited(scores, rows, p, n + 1, Fold(scores, rows, p, n))
  <2>1. Won(n + 1)[n + 1] = Credited(scores, rows, p, n + 1, Won(n + 1)[n])
    <3>1. n + 1 \in Nat /\ n < n + 1
      OBVIOUS
    <3> QED BY <1>3, <3>1
  <2>2. Fold(scores, rows, p, n + 1) = Won(n + 1)[n + 1] /\ Fold(scores, rows, p, n) = Won(n)[n]
    BY <1>2
  <2> QED BY <1>4, <2>1, <2>2
<1>6. Fold(scores, rows, p, 0) = <<0, 0>>
  BY <1>2, <1>3
<1> QED BY <1>5, <1>6

-----------------------------------------------------------------------------
(* Two sets of rows that have the same of a round.                         *)

SameRound(scores, rows, others, more, n) ==
  \A t \in 1 .. TurnsPerRound :
    /\ <<n, t>> \in rows <=> <<n, t>> \in more
    /\ <<n, t>> \in rows => scores[<<n, t>>] = others[<<n, t>>]

LEMMA LastIs ==
  ASSUME NEW rows \in SUBSET TurnIds, NEW n \in PlayedRounds(rows)
  PROVE  /\ <<n, LastOf(rows, n)>> \in rows /\ LastOf(rows, n) \in 1 .. TurnsPerRound
         /\ \A t \in 1 .. TurnsPerRound : <<n, t>> \in rows => t <= LastOf(rows, n)
<1> DEFINE S == {t \in 1 .. TurnsPerRound : <<n, t>> \in rows}
<1>1. PICK id \in rows : n = id[1]
  BY DEF PlayedRounds
<1>2. id[2] \in S
  BY <1>1 DEF TurnIds
<1>3. S \subseteq Nat /\ S # {} /\ \A t \in S : t <= TurnsPerRound
  BY <1>2, Sizes
<1> HIDE DEF S
<1>4. Max(S) \in S /\ \A t \in S : t <= Max(S)
  BY <1>3, Greatest, Sizes
<1> QED BY <1>4 DEF S, LastOf

LEMMA PlayedIs ==
  ASSUME NEW rows \in SUBSET TurnIds
  PROVE  /\ PlayedRounds(rows) \subseteq 1 .. TotalRounds
         /\ \A n : n \in PlayedRounds(rows) <=> \E t \in 1 .. TurnsPerRound : <<n, t>> \in rows
<1>1. \A id \in rows : id = <<id[1], id[2]>> /\ id[1] \in 1 .. TotalRounds
                       /\ id[2] \in 1 .. TurnsPerRound
  BY DEF TurnIds
<1>2. \A n : n \in PlayedRounds(rows) <=> \E id \in rows : n = id[1]
  BY DEF PlayedRounds
<1>3. PlayedRounds(rows) \subseteq 1 .. TotalRounds
  BY <1>1, <1>2
<1>4. ASSUME NEW n
      PROVE n \in PlayedRounds(rows) <=> \E t \in 1 .. TurnsPerRound : <<n, t>> \in rows
  <2>1. ASSUME n \in PlayedRounds(rows) PROVE \E t \in 1 .. TurnsPerRound : <<n, t>> \in rows
    BY <1>1, <1>2, <2>1
  <2>2. ASSUME NEW t \in 1 .. TurnsPerRound, <<n, t>> \in rows PROVE n \in PlayedRounds(rows)
    <3>1. <<n, t>>[1] = n
      OBVIOUS
    <3> QED BY <1>2, <2>2, <3>1
  <2> QED BY <2>1, <2>2
<1> QED BY <1>3, <1>4

LEMMA RoundAgrees ==
  ASSUME NEW scores, NEW rows \in SUBSET TurnIds, NEW others, NEW more \in SUBSET TurnIds,
         NEW n, SameRound(scores, rows, others, more, n)
  PROVE  /\ n \in PlayedRounds(rows) <=> n \in PlayedRounds(more)
         /\ n \in PlayedRounds(rows) => ScoreIn(scores, rows, n) = ScoreIn(others, more, n)
<1>1. n \in PlayedRounds(rows) <=> n \in PlayedRounds(more)
  BY PlayedIs DEF SameRound
<1>2. ASSUME n \in PlayedRounds(rows)
      PROVE  ScoreIn(scores, rows, n) = ScoreIn(others, more, n)
  <2>1. {t \in 1 .. TurnsPerRound : <<n, t>> \in rows}
          = {t \in 1 .. TurnsPerRound : <<n, t>> \in more}
    BY DEF SameRound
  <2>2. LastOf(rows, n) = LastOf(more, n)
    BY <2>1 DEF LastOf
  <2>3. <<n, LastOf(rows, n)>> \in rows /\ LastOf(rows, n) \in 1 .. TurnsPerRound
    BY <1>2, LastIs
  <2>4. scores[<<n, LastOf(rows, n)>>] = others[<<n, LastOf(rows, n)>>]
    BY <2>3 DEF SameRound
  <2> QED BY <2>2, <2>4 DEF ScoreIn
<1> QED BY <1>1, <1>2

LEMMA FoldAgrees ==
  ASSUME NEW scores, NEW rows \in SUBSET TurnIds, NEW others, NEW more \in SUBSET TurnIds,
         NEW p, NEW last \in Nat,
         \A n \in 1 .. last : SameRound(scores, rows, others, more, n)
  PROVE  Fold(scores, rows, p, last) = Fold(others, more, p, last)
<1> DEFINE G == {n \in Nat : n <= last => Fold(scores, rows, p, n) = Fold(others, more, p, n)}
<1>1. 0 \in G
  BY FoldSteps
<1>2. ASSUME NEW n \in Nat, n \in G, n + 1 <= last
      PROVE  Fold(scores, rows, p, n + 1) = Fold(others, more, p, n + 1)
  <2>1. Fold(scores, rows, p, n) = Fold(others, more, p, n)
    BY <1>2
  <2>2. /\ n + 1 \in PlayedRounds(rows) <=> n + 1 \in PlayedRounds(more)
        /\ n + 1 \in PlayedRounds(rows) =>
             ScoreIn(scores, rows, n + 1) = ScoreIn(others, more, n + 1)
    <3>1. n + 1 \in 1 .. last
      BY <1>2
    <3>2. SameRound(scores, rows, others, more, n + 1)
      BY <3>1
    <3> QED BY <3>2, RoundAgrees
  <2>3. \A w : Credited(scores, rows, p, n + 1, w) = Credited(others, more, p, n + 1, w)
    BY <2>2 DEF Credited
  <2>4. /\ Fold(scores, rows, p, n + 1)
             = Credited(scores, rows, p, n + 1, Fold(scores, rows, p, n))
        /\ Fold(others, more, p, n + 1)
             = Credited(others, more, p, n + 1, Fold(others, more, p, n))
    BY FoldSteps
  <2> QED BY <2>1, <2>3, <2>4
<1>3. \A n \in Nat : n \in G => n + 1 \in G
  BY <1>2
<1>4. Nat \subseteq G
  <2> HIDE DEF G
  <2> QED BY <1>1, <1>3, NumberInduction
<1> QED BY <1>4

(* Rounds nobody played add nothing.                                       *)
LEMMA FoldStays ==
  ASSUME NEW scores, NEW rows, NEW p, NEW first \in Nat, NEW last \in Nat, first <= last,
         \A n \in Nat : first < n => n \notin PlayedRounds(rows)
  PROVE  Fold(scores, rows, p, last) = Fold(scores, rows, p, first)
<1> DEFINE G == {n \in Nat : first <= n =>
                   Fold(scores, rows, p, n) = Fold(scores, rows, p, first)}
<1>1. 0 \in G
  OBVIOUS
<1>2. ASSUME NEW n \in Nat, n \in G PROVE n + 1 \in G
  <2>1. CASE first < n + 1
    <3>1. Fold(scores, rows, p, n) = Fold(scores, rows, p, first)
      BY <1>2, <2>1
    <3>2. n + 1 \notin PlayedRounds(rows)
      BY <2>1
    <3>3. Fold(scores, rows, p, n + 1)
             = Credited(scores, rows, p, n + 1, Fold(scores, rows, p, n))
      BY FoldSteps
    <3>4. Fold(scores, rows, p, n + 1) = Fold(scores, rows, p, n)
      BY <3>2, <3>3 DEF Credited
    <3> QED BY <3>1, <3>4
  <2>2. CASE ~(first < n + 1)
    <3>1. first <= n + 1 => n + 1 = first
      BY <2>2
    <3> QED BY <3>1
  <2> QED BY <2>1, <2>2
<1>3. \A n \in Nat : n \in G => n + 1 \in G
  BY <1>2
<1>4. Nat \subseteq G
  <2> HIDE DEF G
  <2> QED BY <1>1, <1>3, NumberInduction
<1> QED BY <1>4

-----------------------------------------------------------------------------
(* The points.                                                             *)

Points(scores, rows, p, bound) ==
  SumFunction([n \in {m \in PlayedRounds(rows) : m < bound} |-> ScoreIn(scores, rows, n)[p]])

LEMMA PointsAre ==
  \A rows, p, at : PointsIn(rows, p, at) = Points(scoreAfter, rows, p, at[1])
  BY DEF PointsIn, Points, Decided, ScoresOf, ScoreIn

LEMMA PointsAgree ==
  ASSUME NEW scores, NEW rows \in SUBSET TurnIds, NEW others, NEW more \in SUBSET TurnIds,
         NEW p, NEW bound \in Nat,
         \A n \in Nat : n < bound => SameRound(scores, rows, others, more, n)
  PROVE  Points(scores, rows, p, bound) = Points(others, more, p, bound)
<1> DEFINE A == {m \in PlayedRounds(rows) : m < bound}
           B == {m \in PlayedRounds(more) : m < bound}
<1>1. \A n \in Nat : n < bound =>
        /\ n \in PlayedRounds(rows) <=> n \in PlayedRounds(more)
        /\ n \in PlayedRounds(rows) => ScoreIn(scores, rows, n) = ScoreIn(others, more, n)
  BY RoundAgrees
<1>2. PlayedRounds(rows) \subseteq Nat /\ PlayedRounds(more) \subseteq Nat
  BY PlayedIs
<1>3. A = B /\ \A n \in A : ScoreIn(scores, rows, n)[p] = ScoreIn(others, more, n)[p]
  BY <1>1, <1>2
<1>4. [n \in A |-> ScoreIn(scores, rows, n)[p]] = [n \in B |-> ScoreIn(others, more, n)[p]]
  <2> HIDE DEF A, B
  <2> QED BY <1>3
<1> QED BY <1>4 DEF Points

LEMMA ScoreType ==
  ASSUME NEW scores, NEW rows \in SUBSET TurnIds, NEW n \in PlayedRounds(rows),
         \A id \in rows : scores[id] \in [Players -> Nat]
  PROVE  ScoreIn(scores, rows, n) \in [Players -> Nat]
  BY LastIs DEF ScoreIn

LEMMA RoundsFinite ==
  ASSUME NEW rows \in SUBSET TurnIds, NEW bound
  PROVE  IsFiniteSet({m \in PlayedRounds(rows) : m < bound})
<1>1. IsFiniteSet(1 .. TotalRounds)
  BY Sizes, FS_Interval
<1>2. {m \in PlayedRounds(rows) : m < bound} \subseteq 1 .. TotalRounds
  BY PlayedIs
<1> QED BY <1>1, <1>2, FS_Subset

LEMMA PointsNat ==
  ASSUME NEW scores, NEW rows \in SUBSET TurnIds, NEW p \in Players, NEW bound,
         \A id \in rows : scores[id] \in [Players -> Nat]
  PROVE  Points(scores, rows, p, bound) \in Nat
<1> DEFINE A == {m \in PlayedRounds(rows) : m < bound}
           f == [n \in A |-> ScoreIn(scores, rows, n)[p]]
<1>1. IsFiniteSet(A)
  BY RoundsFinite
<1>2. \A n \in A : ScoreIn(scores, rows, n)[p] \in Nat
  BY ScoreType
<1>3. f \in [A -> Nat]
  BY <1>2
<1>4. SumFunction(f) \in Nat
  <2> HIDE DEF A, f
  <2> QED BY <1>1, <1>3, SumNat
<1> QED BY <1>4 DEF Points

LEMMA PointsZero ==
  ASSUME NEW scores, NEW p
  PROVE  Points(scores, {}, p, 1) = 0
<1>1. {m \in PlayedRounds({}) : m < 1} = {}
  BY DEF PlayedRounds
<1>2. DOMAIN [n \in {m \in PlayedRounds({}) : m < 1} |-> ScoreIn(scores, {}, n)[p]] = {}
  BY <1>1
<1> QED BY <1>2, SumEmpty DEF Points

LEMMA PointsMore ==
  ASSUME NEW scores, NEW rows \in SUBSET TurnIds, NEW p \in Players, NEW k \in PlayedRounds(rows),
         \A id \in rows : scores[id] \in [Players -> Nat]
  PROVE  Points(scores, rows, p, k + 1) = Points(scores, rows, p, k) + ScoreIn(scores, rows, k)[p]
<1> DEFINE A == {m \in PlayedRounds(rows) : m < k}
           B == {m \in PlayedRounds(rows) : m < k + 1}
           f == [n \in A |-> ScoreIn(scores, rows, n)[p]]
           g == [n \in B |-> ScoreIn(scores, rows, n)[p]]
<1>1. PlayedRounds(rows) \subseteq Nat /\ k \in Nat
  BY PlayedIs
<1>2. B = A \cup {k} /\ k \notin A /\ k \in B
  BY <1>1
<1>3. IsFiniteSet(A)
  BY RoundsFinite
<1>4. \A n \in B : ScoreIn(scores, rows, n)[p] \in Int
  BY ScoreType
<1>5. /\ f \in [A -> Int] /\ g \in [B -> Int]
      /\ \A n \in A : f[n] = g[n]
      /\ g[k] = ScoreIn(scores, rows, k)[p]
  <2> HIDE DEF A, B
  <2> QED BY <1>2, <1>4
<1>6. SumFunction(g) = SumFunction(f) + g[k]
  <2>1. k \notin A /\ B = A \cup {k}
    BY <1>2
  <2>2. f \in [A -> Int] /\ g \in [B -> Int] /\ \A n \in A : f[n] = g[n]
    BY <1>5
  <2> HIDE DEF A, B, f, g
  <2> QED BY <1>3, <2>1, <2>2, SumInsert
<1> QED BY <1>5, <1>6 DEF Points

-----------------------------------------------------------------------------
(* The inductive invariant.                                                *)

Ptr == <<round, turn>>
Recorded == DOMAIN scoreAfter

(* The rows lie before the pointer or at it, and the pointer is where the  *)
(* loop's step says.                                                       *)
RowsInv ==
  /\ scoreAfter = [id \in Recorded |-> scoreAfter[id]]
  /\ \A id \in Recorded : Before(id, Ptr) \/ id = Ptr
  /\ \A id \in Recorded : scoreAfter[id] \in [Players -> Nat]
  /\ pc = "play" /\ row = "resolved" => turn < TurnsPerRound
  /\ row = "open" => pc = "play"
  /\ pc \in {"award", "next", "done"} => row = "resolved" /\ turn = TurnsPerRound
  /\ pc \in {"play", "registering"} => roundsAwarded = round - 1
  /\ pc \in {"next", "done"} => roundsAwarded = round

ScoresInv ==
  /\ row = "resolved" => roundScore = scoreAfter[Ptr] \/ (turn = 1 /\ roundScore = Zero)
  /\ cut = Nowhere /\ row = "none" => turn = 1 /\ roundScore = Zero

(* The standings are the folds of the rows over the awarded rounds.        *)
StandingsInv ==
  /\ wins = [p \in Players |-> Fold(scoreAfter, Recorded, p, roundsAwarded)]
  /\ total = [p \in Players |-> Points(scoreAfter, Recorded, p, roundsAwarded + 1)]

(* What the source stood at is what the copy would compute.                *)
Earlier(rows, at) == {id \in rows : Before(id, at)}
ScoreAt(scores, rows, at) ==
  IF at[1] \in PlayedRounds(rows) THEN ScoreIn(scores, rows, at[1]) ELSE Zero
Stood(scores, rows, at, stand) ==
  /\ stand.wins = [p \in Players |-> Fold(scores, rows, p, at[1] - 1)]
  /\ stand.total = [p \in Players |-> Points(scores, rows, p, at[1])]
  /\ stand.score = ScoreAt(scores, rows, at) \/ (at[2] = 2 /\ stand.score = Zero)

PositionInv ==
  cut = Nowhere =>
    \A at \in DOMAIN position :
      /\ at \in TurnIds /\ (Before(at, Ptr) \/ (at = Ptr /\ row # "none"))
      /\ Stood(scoreAfter, Earlier(Recorded, at), at, position[at])

IInv == TypeOK /\ RowsInv /\ ScoresInv /\ StandingsInv /\ PositionInv /\ PositionCarried

LEMMA PtrFacts ==
  ASSUME TypeOK
  PROVE  /\ round \in Nat /\ turn \in Nat /\ round >= 1 /\ turn >= 1
         /\ Ptr \in TurnIds /\ Ptr[1] = round /\ Ptr[2] = turn /\ Ptr # Nowhere
         /\ roundsAwarded \in Nat /\ Recorded \in SUBSET TurnIds
  BY Sizes DEF TypeOK, Ptr, TurnIds, Nowhere, Recorded

LEMMA IdFacts ==
  \A id \in TurnIds : /\ id = <<id[1], id[2]>> /\ id # Nowhere
                      /\ id[1] \in 1 .. TotalRounds /\ id[2] \in 1 .. TurnsPerRound
                      /\ id[1] \in Nat /\ id[2] \in Nat /\ id[1] >= 1 /\ id[2] >= 1
  BY Sizes DEF TurnIds, Nowhere

LEMMA InitIInv == Init => IInv
<1> SUFFICES ASSUME Init PROVE IInv
  OBVIOUS
<1>1. /\ round = 1 /\ pc = "play" /\ roundScore = [p \in Players |-> 0] /\ roundsAwarded = 0
      /\ wins = [p \in Players |-> <<0, 0>>] /\ total = [p \in Players |-> 0]
      /\ turn = 1 /\ row = "none" /\ scoreAfter = <<>> /\ cut = Nowhere /\ position = <<>>
  BY DEF Init, Order!Init
<1>2. Recorded = {} /\ DOMAIN position = {} /\ scoreAfter = [id \in Recorded |-> scoreAfter[id]]
  BY <1>1 DEF Recorded
<1>3. TypeOK
  BY <1>1, <1>2, Sizes DEF TypeOK, Recorded
<1>4. RowsInv /\ ScoresInv
  BY <1>1, <1>2 DEF RowsInv, ScoresInv, Zero
<1>5. StandingsInv
  <2>1. \A p \in Players : Fold(scoreAfter, {}, p, 0) = <<0, 0>>
                           /\ Points(scoreAfter, {}, p, 1) = 0
    BY FoldSteps, PointsZero
  <2> QED BY <1>1, <1>2, <2>1 DEF StandingsInv
<1>6. PositionInv /\ PositionCarried
  BY <1>1, <1>2 DEF PositionInv, PositionCarried
<1> QED BY <1>3, <1>4, <1>5, <1>6 DEF IInv

-----------------------------------------------------------------------------
(* Rows before a turn, and rows added at the pointer.                      *)

LEMMA EarlierFolds ==
  ASSUME NEW scores, NEW rows \in SUBSET TurnIds, NEW at \in TurnIds, NEW p
  PROVE  /\ Fold(scores, Earlier(rows, at), p, at[1] - 1) = Fold(scores, rows, p, at[1] - 1)
         /\ Points(scores, Earlier(rows, at), p, at[1]) = Points(scores, rows, p, at[1])
<1> DEFINE more == Earlier(rows, at)
<1>1. more \in SUBSET TurnIds
  BY DEF Earlier
<1>2. at[1] \in Nat /\ at[1] - 1 \in Nat
  BY IdFacts
<1>3. ASSUME NEW n \in Nat, n < at[1] PROVE SameRound(scores, rows, scores, more, n)
  <2>1. \A t : Before(<<n, t>>, at)
    BY <1>3 DEF Before
  <2> QED BY <2>1 DEF SameRound, Earlier
<1>4. ASSUME NEW n \in Nat, n < at[1] PROVE SameRound(scores, more, scores, rows, n)
  <2>1. SameRound(scores, rows, scores, more, n)
    BY <1>3, <1>4
  <2> QED BY <2>1 DEF SameRound
<1> HIDE DEF more
<1>5. \A n \in 1 .. at[1] - 1 : SameRound(scores, more, scores, rows, n)
  BY <1>2, <1>4
<1>6. Fold(scores, more, p, at[1] - 1) = Fold(scores, rows, p, at[1] - 1)
  BY <1>1, <1>2, <1>5, FoldAgrees
<1>7. Points(scores, more, p, at[1]) = Points(scores, rows, p, at[1])
  BY <1>1, <1>2, <1>4, PointsAgree
<1> QED BY <1>6, <1>7 DEF more

(* Only the scores of the rows themselves matter.                          *)
LEMMA FoldsOfRows ==
  ASSUME NEW scores, NEW others, NEW rows \in SUBSET TurnIds, NEW p, NEW last \in Nat,
         \A id \in rows : scores[id] = others[id]
  PROVE  /\ Fold(scores, rows, p, last) = Fold(others, rows, p, last)
         /\ Points(scores, rows, p, last) = Points(others, rows, p, last)
         /\ \A n \in PlayedRounds(rows) : ScoreIn(scores, rows, n) = ScoreIn(others, rows, n)
<1>1. \A n : SameRound(scores, rows, others, rows, n)
  BY DEF SameRound
<1>2. \A n \in 1 .. last : SameRound(scores, rows, others, rows, n)
  BY <1>1
<1>3. \A n \in Nat : n < last => SameRound(scores, rows, others, rows, n)
  BY <1>1
<1>4. Fold(scores, rows, p, last) = Fold(others, rows, p, last)
  BY <1>2, FoldAgrees
<1>5. Points(scores, rows, p, last) = Points(others, rows, p, last)
  BY <1>3, PointsAgree
<1>6. \A n \in PlayedRounds(rows) : ScoreIn(scores, rows, n) = ScoreIn(others, rows, n)
  BY <1>1, RoundAgrees
<1> QED BY <1>4, <1>5, <1>6

LEMMA StoodAgrees ==
  ASSUME NEW scores, NEW others, NEW rows \in SUBSET TurnIds, NEW at \in TurnIds, NEW stand,
         \A id \in rows : scores[id] = others[id], Stood(scores, rows, at, stand)
  PROVE  Stood(others, rows, at, stand)
<1>1. at[1] \in Nat /\ at[1] - 1 \in Nat
  BY IdFacts
<1>2. \A p : /\ Fold(scores, rows, p, at[1] - 1) = Fold(others, rows, p, at[1] - 1)
             /\ Points(scores, rows, p, at[1]) = Points(others, rows, p, at[1])
  BY <1>1, FoldsOfRows
<1>3. ScoreAt(scores, rows, at) = ScoreAt(others, rows, at)
  BY <1>1, FoldsOfRows DEF ScoreAt
<1> QED BY <1>2, <1>3 DEF Stood

LEMMA StandingsFrame ==
  ASSUME TypeOK, TypeOK', StandingsInv, UNCHANGED <<roundsAwarded, wins, total>>,
         \A n \in Nat : n <= roundsAwarded =>
           SameRound(scoreAfter, Recorded, scoreAfter', Recorded', n)
  PROVE  StandingsInv'
<1>1. roundsAwarded \in Nat /\ Recorded \in SUBSET TurnIds
  BY PtrFacts
<1>2. Recorded' \in SUBSET TurnIds
  BY DEF TypeOK, Recorded
<1>3. \A n \in 1 .. roundsAwarded : SameRound(scoreAfter, Recorded, scoreAfter', Recorded', n)
  BY <1>1
<1>4. \A p : Fold(scoreAfter, Recorded, p, roundsAwarded)
               = Fold(scoreAfter', Recorded', p, roundsAwarded)
  BY <1>1, <1>2, <1>3, FoldAgrees
<1>5. \A n \in Nat : n < roundsAwarded + 1 =>
        SameRound(scoreAfter, Recorded, scoreAfter', Recorded', n)
  BY <1>1
<1>6. \A p : Points(scoreAfter, Recorded, p, roundsAwarded + 1)
               = Points(scoreAfter', Recorded', p, roundsAwarded + 1)
  <2>1. roundsAwarded + 1 \in Nat
    BY <1>1
  <2> QED BY <1>1, <1>2, <1>5, <2>1, PointsAgree
<1>7. roundsAwarded' = roundsAwarded /\ wins' = wins /\ total' = total
  OBVIOUS
<1> QED BY <1>4, <1>6, <1>7 DEF StandingsInv

-----------------------------------------------------------------------------
(* The loop's steps.                                                       *)

(* The score a turn opens with, against the one the copy would start from. *)
LEMMA OpeningScore ==
  ASSUME IInv, pc = "play", row # "open", cut = Nowhere,
         NEW next, next = IF row = "resolved" THEN turn + 1 ELSE turn
  PROVE  LET at == <<round, next>>
         IN \/ roundScore = ScoreAt(scoreAfter, Earlier(Recorded, at), at)
            \/ next = 2 /\ roundScore = Zero
<1> DEFINE at == <<round, next>>
           rows == Earlier(Recorded, at)
<1>1. /\ round \in Nat /\ turn \in Nat /\ turn >= 1 /\ Recorded \in SUBSET TurnIds
      /\ Ptr \in TurnIds
  BY PtrFacts DEF IInv
<1>2. rows \in SUBSET TurnIds /\ at[1] = round
  BY <1>1 DEF Earlier
<1>3. CASE row = "resolved"
  <2>1. Ptr \in Recorded /\ next = turn + 1
    BY <1>3 DEF IInv, TypeOK, Ptr, Recorded
  <2>2. Ptr \in rows
    BY <1>1, <2>1 DEF Earlier, Before, Ptr
  <2>3. \A t \in 1 .. TurnsPerRound : <<round, t>> \in rows => t <= turn
    BY <1>1, <2>1 DEF Earlier, Before
  <2>4. turn \in 1 .. TurnsPerRound
    BY DEF IInv, TypeOK
  <2>5. round \in PlayedRounds(rows)
    BY <1>2, <2>2, <2>4, PlayedIs DEF Ptr
  <2>6. LastOf(rows, round) = turn
    <3>1. /\ LastOf(rows, round) \in 1 .. TurnsPerRound
          /\ <<round, LastOf(rows, round)>> \in rows
          /\ \A t \in 1 .. TurnsPerRound : <<round, t>> \in rows => t <= LastOf(rows, round)
      BY <1>2, <2>5, LastIs
    <3>2. LastOf(rows, round) <= turn /\ turn <= LastOf(rows, round)
      BY <2>2, <2>3, <2>4, <3>1 DEF Ptr
    <3> QED BY <1>1, <3>1, <3>2
  <2>7. ScoreAt(scoreAfter, rows, at) = scoreAfter[Ptr]
    BY <1>2, <2>5, <2>6 DEF ScoreAt, ScoreIn, Ptr
  <2>8. roundScore = scoreAfter[Ptr] \/ (turn = 1 /\ roundScore = Zero)
    BY <1>3 DEF IInv, ScoresInv
  <2> QED BY <2>1, <2>7, <2>8
<1>4. CASE row # "resolved"
  <2>1. row = "none" /\ next = turn
    BY <1>4 DEF IInv, TypeOK
  <2>2. turn = 1 /\ roundScore = Zero
    BY <2>1 DEF IInv, ScoresInv
  <2>3. ASSUME NEW t \in 1 .. TurnsPerRound, <<round, t>> \in rows PROVE FALSE
    BY <1>1, <2>1, <2>2, <2>3 DEF Earlier, Before
  <2>4. round \notin PlayedRounds(rows)
    BY <1>2, <2>3, PlayedIs
  <2> QED BY <1>2, <2>2, <2>4 DEF ScoreAt
<1> QED BY <1>3, <1>4

LEMMA OpenStep == ASSUME IInv, OpenTurn PROVE IInv'
<1>1. /\ pc = "play" /\ row # "open" /\ row' = "open"
      /\ turn' = IF row = "resolved" THEN turn + 1 ELSE turn
      /\ UNCHANGED <<round, pc, roundScore, roundsAwarded, wins, total, winner, tally, trueWins>>
      /\ UNCHANGED <<scoreAfter, cut>>
      /\ position' = IF cut # Nowhere THEN position
           ELSE With(position, <<round, turn'>>,
                     [wins |-> wins, total |-> total, score |-> roundScore])
  BY DEF OpenTurn, orderVars
<1>2. /\ round \in Nat /\ turn \in Nat /\ round >= 1 /\ turn >= 1
      /\ Recorded \in SUBSET TurnIds /\ Recorded' = Recorded
      /\ Ptr' = <<round, turn'>>
  BY <1>1, PtrFacts DEF IInv, Recorded, Ptr
<1>3. turn' \in 1 .. TurnsPerRound /\ turn' >= turn
  <2>1. turn \in 1 .. TurnsPerRound
    BY DEF IInv, TypeOK
  <2>2. row = "resolved" => turn < TurnsPerRound
    BY <1>1 DEF IInv, RowsInv
  <2> QED BY <1>1, <2>1, <2>2, Sizes
<1>4. \A id \in Recorded : Before(id, Ptr')
  <2>1. CASE row = "resolved"
    BY <1>1, <1>2, <2>1, IdFacts DEF IInv, RowsInv, Before, Ptr
  <2>2. CASE row # "resolved"
    <3>1. Ptr' = Ptr /\ Ptr \notin Recorded
      BY <1>1, <2>2 DEF IInv, TypeOK, Ptr, Recorded
    <3> QED BY <3>1 DEF IInv, RowsInv
  <2> QED BY <2>1, <2>2
<1>5. Ptr' \notin Recorded
  BY <1>2, <1>3, <1>4 DEF Before
<1>6. TypeOK'
  BY <1>1, <1>2, <1>3, <1>5 DEF IInv, TypeOK, Ptr, Recorded
<1>7. RowsInv' /\ ScoresInv'
  BY <1>1, <1>2, <1>4 DEF IInv, RowsInv, ScoresInv
<1>8. StandingsInv'
  BY <1>1, <1>2 DEF IInv, StandingsInv
<1>9. PositionInv'
  <2> SUFFICES ASSUME cut = Nowhere, NEW at \in DOMAIN position'
               PROVE  /\ at \in TurnIds /\ (Before(at, Ptr') \/ at = Ptr')
                      /\ Stood(scoreAfter, Earlier(Recorded, at), at, position'[at])
    BY <1>1, <1>2 DEF PositionInv
  <2> DEFINE stand == [wins |-> wins, total |-> total, score |-> roundScore]
  <2>1. /\ at \in DOMAIN position \/ at = Ptr'
        /\ at \in DOMAIN position => position'[at] = position[at]
        /\ at \notin DOMAIN position => position'[at] = stand
    <3>1. position' = With(position, Ptr', stand)
      BY <1>1, <1>2
    <3> HIDE DEF stand
    <3>2. position' = [x \in DOMAIN position \cup {Ptr'} |->
                         IF x \in DOMAIN position THEN position[x] ELSE stand]
      BY <3>1 DEF With
    <3> QED BY <3>2
  <2>2. CASE at \in DOMAIN position
    <3>1. /\ at \in TurnIds /\ (Before(at, Ptr) \/ (at = Ptr /\ row # "none"))
          /\ Stood(scoreAfter, Earlier(Recorded, at), at, position[at])
      BY <2>2 DEF IInv, PositionInv
    <3>2. row # "none" => row = "resolved"
      BY <1>1 DEF IInv, TypeOK
    <3>3. Before(at, Ptr')
      BY <1>1, <1>2, <1>3, <3>1, <3>2, IdFacts DEF Before, Ptr
    <3> QED BY <2>1, <2>2, <3>1, <3>3
  <2>3. CASE at \notin DOMAIN position
    <3>1. at = Ptr' /\ position'[at] = stand
      BY <2>1, <2>3
    <3>2. at \in TurnIds /\ at[1] = round /\ at[2] = turn'
      BY <1>2, <1>3, <3>1 DEF IInv, TypeOK, TurnIds
    <3>3. \A p : /\ Fold(scoreAfter, Earlier(Recorded, at), p, round - 1)
                      = Fold(scoreAfter, Recorded, p, round - 1)
                 /\ Points(scoreAfter, Earlier(Recorded, at), p, round)
                      = Points(scoreAfter, Recorded, p, round)
      BY <1>2, <3>2, EarlierFolds
    <3>4. roundsAwarded = round - 1 /\ roundsAwarded + 1 = round
      BY <1>1, <1>2 DEF IInv, RowsInv
    <3>5. /\ wins = [p \in Players |-> Fold(scoreAfter, Earlier(Recorded, at), p, round - 1)]
          /\ total = [p \in Players |-> Points(scoreAfter, Earlier(Recorded, at), p, round)]
      BY <3>3, <3>4 DEF IInv, StandingsInv
    <3>6. \/ roundScore = ScoreAt(scoreAfter, Earlier(Recorded, at), at)
          \/ at[2] = 2 /\ roundScore = Zero
      BY <1>1, <1>2, <3>1, <3>2, OpeningScore
    <3>7. Stood(scoreAfter, Earlier(Recorded, at), at, stand)
      BY <3>2, <3>5, <3>6 DEF Stood
    <3> QED BY <3>1, <3>2, <3>7
  <2> QED BY <2>2, <2>3
<1>10. PositionCarried'
  BY <1>1 DEF PositionCarried
<1> QED BY <1>6, <1>7, <1>8, <1>9, <1>10 DEF IInv

LEMMA ResolveStep == ASSUME IInv, ResolveTurn PROVE IInv'
<1>1. /\ row = "open" /\ row' = "resolved"
      /\ roundScore' \in [Players -> RoundScores]
      /\ scoreAfter' = With(scoreAfter, Ptr, roundScore')
      /\ pc' = IF turn = TurnsPerRound THEN "award" ELSE "play"
      /\ UNCHANGED <<round, roundsAwarded, wins, total, winner, tally, trueWins,
                     turn, cut, position>>
  BY DEF ResolveTurn, Ptr
<1>2. pc = "play" /\ roundsAwarded = round - 1
  BY <1>1 DEF IInv, RowsInv
<1>3. /\ round \in Nat /\ turn \in Nat /\ Recorded \in SUBSET TurnIds
      /\ Ptr \in TurnIds /\ Ptr' = Ptr
  BY <1>1, PtrFacts DEF IInv, Ptr
<1>4. Ptr \notin Recorded
  BY <1>1 DEF IInv, TypeOK, Ptr, Recorded
<1>5. /\ Recorded' = Recorded \cup {Ptr}
      /\ \A id \in Recorded : scoreAfter'[id] = scoreAfter[id]
      /\ scoreAfter'[Ptr] = roundScore'
      /\ scoreAfter' = [id \in Recorded' |-> scoreAfter'[id]]
  BY <1>1, <1>4 DEF With, Recorded
<1>6. roundScore' \in [Players -> Nat]
  BY <1>1, Sizes
<1>7. TypeOK'
  <2>1. DOMAIN scoreAfter' \subseteq TurnIds /\ <<round, turn>> \in DOMAIN scoreAfter'
    BY <1>3, <1>5 DEF Recorded, Ptr
  <2>2. pc' \in {"play", "award"}
    BY <1>1
  <2> QED BY <1>1, <1>2, <1>6, <2>1, <2>2 DEF IInv, TypeOK
<1>8. RowsInv'
  <2>1. \A id \in Recorded' : Before(id, Ptr) \/ id = Ptr
    BY <1>5 DEF IInv, RowsInv
  <2>2. \A id \in Recorded' : scoreAfter'[id] \in [Players -> Nat]
    BY <1>5, <1>6 DEF IInv, RowsInv
  <2>3. /\ pc' = "play" => turn # TurnsPerRound
        /\ pc' \in {"award", "next", "done"} => turn = TurnsPerRound
        /\ pc' \in {"play", "award"}
    BY <1>1
  <2>4. turn # TurnsPerRound => turn < TurnsPerRound
    BY <1>3, Sizes DEF IInv, TypeOK
  <2> QED BY <1>1, <1>2, <1>3, <1>5, <2>1, <2>2, <2>3, <2>4 DEF RowsInv
<1>9. ScoresInv'
  BY <1>1, <1>3, <1>5 DEF ScoresInv
<1>10. StandingsInv'
  <2>1. ASSUME NEW n \in Nat, n <= roundsAwarded
        PROVE  SameRound(scoreAfter, Recorded, scoreAfter', Recorded', n)
    <3>1. \A t : <<n, t>> # Ptr
      BY <1>2, <1>3, <2>1 DEF Ptr
    <3> QED BY <1>5, <3>1 DEF SameRound
  <2> QED BY <1>1, <1>7, <2>1, StandingsFrame DEF IInv
<1>11. PositionInv'
  <2> SUFFICES ASSUME cut = Nowhere, NEW at \in DOMAIN position
               PROVE  /\ at \in TurnIds /\ (Before(at, Ptr) \/ at = Ptr)
                      /\ Stood(scoreAfter', Earlier(Recorded', at), at, position[at])
    BY <1>1, <1>3 DEF PositionInv
  <2>1. /\ at \in TurnIds /\ (Before(at, Ptr) \/ at = Ptr)
        /\ Stood(scoreAfter, Earlier(Recorded, at), at, position[at])
    BY DEF IInv, PositionInv
  <2>2. ~Before(Ptr, at)
    BY <1>3, <2>1, IdFacts DEF Before, Ptr
  <2>3. Earlier(Recorded', at) = Earlier(Recorded, at)
    BY <1>5, <2>2 DEF Earlier
  <2>4. /\ Earlier(Recorded, at) \in SUBSET TurnIds
        /\ \A id \in Earlier(Recorded, at) : scoreAfter[id] = scoreAfter'[id]
    BY <1>3, <1>5 DEF Earlier
  <2> QED BY <2>1, <2>3, <2>4, StoodAgrees
<1>12. PositionCarried'
  BY <1>1 DEF PositionCarried
<1> QED BY <1>7, <1>8, <1>9, <1>10, <1>11, <1>12 DEF IInv

LEMMA AwardStep == ASSUME IInv, Award PROVE IInv'
<1>1. /\ pc = "award" /\ pc' = "next"
      /\ UNCHANGED <<round, roundScore, winner, tally, turn, row, scoreAfter, cut, position>>
  BY DEF Award, Order!Award, turnVars
<1>2. row = "resolved" /\ turn = TurnsPerRound /\ turn # 1
  BY <1>1, Sizes DEF IInv, RowsInv
<1>3. /\ round \in Nat /\ turn \in Nat /\ Recorded \in SUBSET TurnIds /\ Recorded' = Recorded
      /\ Ptr \in TurnIds /\ Ptr' = Ptr /\ Ptr \in Recorded /\ turn \in 1 .. TurnsPerRound
      /\ roundsAwarded \in Nat /\ roundsAwarded \in {round - 1, round}
  <2>1. Ptr \in Recorded /\ turn \in 1 .. TurnsPerRound /\ roundsAwarded \in {round - 1, round}
    BY <1>2 DEF IInv, TypeOK, Ptr, Recorded
  <2> QED BY <1>1, <2>1, PtrFacts DEF IInv, Ptr, Recorded
<1>4. ScoresInv' /\ PositionInv' /\ PositionCarried'
  <2>1. pc' # "registering"
    BY <1>1
  <2> QED BY <1>1, <1>3, <2>1 DEF IInv, ScoresInv, PositionInv, PositionCarried
<1>5. CASE Order!AlreadyAwarded
  <2>1. UNCHANGED <<roundsAwarded, wins, total, trueWins>>
    BY <1>5 DEF Award, Order!Award
  <2>2. roundsAwarded = round
    BY <1>3, <1>5 DEF Order!AlreadyAwarded
  <2>3. TypeOK'
    BY <1>1, <2>1 DEF IInv, TypeOK
  <2>4. RowsInv'
    BY <1>1, <1>2, <1>3, <2>1, <2>2 DEF IInv, RowsInv
  <2>5. StandingsInv'
    BY <1>1, <1>3, <2>1 DEF IInv, StandingsInv
  <2> QED BY <1>4, <2>3, <2>4, <2>5 DEF IInv
<1>6. CASE ~Order!AlreadyAwarded
  <2> DEFINE n == Cardinality(Order!RoundWinners)
  <2>1. /\ roundsAwarded' = round
        /\ wins' = [p \in Players |->
             IF p \in Order!RoundWinners
             THEN Order!Plus(wins[p], Order!Share(Order!Cardinality(Order!RoundWinners)))
             ELSE wins[p]]
        /\ total' = [p \in Players |-> total[p] + roundScore[p]]
    BY <1>6 DEF Award, Order!Award
  <2>2. roundsAwarded = round - 1 /\ roundsAwarded + 1 = round
    BY <1>3, <1>6 DEF Order!AlreadyAwarded
  <2>3. roundScore = scoreAfter[Ptr] /\ roundScore \in [Players -> Nat]
    BY <1>2 DEF IInv, ScoresInv, TypeOK
  <2>4. round \in PlayedRounds(Recorded)
    BY <1>3, PlayedIs DEF Ptr
  <2>5. LastOf(Recorded, round) = turn
    <3>1. /\ LastOf(Recorded, round) \in 1 .. TurnsPerRound
          /\ \A t \in 1 .. TurnsPerRound : <<round, t>> \in Recorded => t <= LastOf(Recorded, round)
      BY <1>3, <2>4, LastIs
    <3>2. turn <= LastOf(Recorded, round)
      BY <1>3, <3>1 DEF Ptr
    <3> QED BY <1>2, <1>3, <3>1, <3>2
  <2>6. ScoreIn(scoreAfter, Recorded, round) = roundScore
    BY <2>3, <2>5 DEF ScoreIn, Ptr
  <2>7. TypeOK'
    <3>1. total' \in [Players -> Nat]
      BY <2>1, <2>3 DEF IInv, TypeOK
    <3> QED BY <1>1, <2>1, <3>1 DEF IInv, TypeOK
  <2>8. RowsInv'
    BY <1>1, <1>2, <1>3, <2>1 DEF IInv, RowsInv
  <2>9. ASSUME NEW p \in Players
        PROVE  /\ wins'[p] = Fold(scoreAfter, Recorded, p, round)
               /\ total'[p] = Points(scoreAfter, Recorded, p, round + 1)
    <3>1. /\ wins[p] = Fold(scoreAfter, Recorded, p, roundsAwarded)
          /\ total[p] = Points(scoreAfter, Recorded, p, round)
      BY <2>2 DEF IInv, StandingsInv
    <3>2. Fold(scoreAfter, Recorded, p, round)
            = Credited(scoreAfter, Recorded, p, round, wins[p])
      <4>1. Fold(scoreAfter, Recorded, p, roundsAwarded + 1)
              = Credited(scoreAfter, Recorded, p, roundsAwarded + 1,
                         Fold(scoreAfter, Recorded, p, roundsAwarded))
        BY <1>3, FoldSteps
      <4> QED BY <2>2, <3>1, <4>1, Zenon
    <3>3. Credited(scoreAfter, Recorded, p, round, wins[p])
            = IF p \in Order!RoundWinners
              THEN Order!Plus(wins[p], Order!Share(Cardinality(Order!RoundWinners)))
              ELSE wins[p]
      BY <2>3, <2>4, <2>6, SameWinners DEF Credited
    <3>4. Order!Cardinality(Order!RoundWinners) = Cardinality(Order!RoundWinners)
      BY OrderCardinality
    <3>5. wins'[p] = Fold(scoreAfter, Recorded, p, round)
      BY <2>1, <3>2, <3>3, <3>4
    <3>6. Points(scoreAfter, Recorded, p, round + 1)
            = Points(scoreAfter, Recorded, p, round) + roundScore[p]
      <4>1. \A id \in Recorded : scoreAfter[id] \in [Players -> Nat]
        BY DEF IInv, RowsInv
      <4> QED BY <1>3, <2>4, <2>6, <4>1, PointsMore
    <3>7. total'[p] = total[p] + roundScore[p]
      BY <2>1
    <3> QED BY <3>1, <3>5, <3>6, <3>7
  <2>10. StandingsInv'
    <3>1. wins' = [p \in Players |-> wins'[p]] /\ total' = [p \in Players |-> total'[p]]
      BY <2>1
    <3>2. wins' = [p \in Players |-> Fold(scoreAfter, Recorded, p, round)]
      BY <2>9, <3>1
    <3>3. total' = [p \in Players |-> Points(scoreAfter, Recorded, p, round + 1)]
      BY <2>9, <3>1
    <3> QED BY <1>1, <1>3, <2>1, <3>2, <3>3 DEF StandingsInv
  <2> QED BY <1>4, <2>7, <2>8, <2>10 DEF IInv
<1> QED BY <1>5, <1>6

LEMMA NextRoundStep == ASSUME IInv, NextRound PROVE IInv'
<1>1. /\ pc = "next" /\ round < TotalRounds /\ round' = round + 1 /\ pc' = "play"
      /\ roundScore' = [p \in Players |-> 0] /\ turn' = 1 /\ row' = "none"
      /\ UNCHANGED <<roundsAwarded, wins, total, winner, tally, trueWins,
                     scoreAfter, cut, position>>
  BY DEF NextRound, Order!NextRound
<1>2. /\ round \in Nat /\ turn \in Nat /\ Recorded \in SUBSET TurnIds /\ Recorded' = Recorded
      /\ Ptr' = <<round + 1, 1>> /\ round + 1 \in 1 .. TotalRounds /\ roundsAwarded = round
  BY <1>1, PtrFacts, Sizes DEF IInv, Ptr, Recorded, RowsInv
<1>3. \A id \in Recorded : Before(id, Ptr')
  BY <1>2, IdFacts DEF IInv, RowsInv, Before, Ptr
<1>4. Ptr' \notin Recorded
  BY <1>2, <1>3 DEF Before
<1>5. TypeOK'
  BY <1>1, <1>2, <1>4, Sizes DEF IInv, TypeOK, Recorded
<1>6. RowsInv' /\ ScoresInv' /\ StandingsInv'
  <2>1. RowsInv'
    BY <1>1, <1>2, <1>3 DEF IInv, RowsInv
  <2>2. ScoresInv'
    BY <1>1 DEF ScoresInv, Zero
  <2>3. StandingsInv'
    BY <1>1, <1>2 DEF IInv, StandingsInv
  <2> QED BY <2>1, <2>2, <2>3
<1>7. PositionInv'
  <2>1. ASSUME NEW at \in TurnIds, Before(at, Ptr) \/ at = Ptr PROVE Before(at, Ptr')
    BY <1>2, <2>1, IdFacts DEF Before, Ptr
  <2> QED BY <1>1, <1>2, <2>1 DEF IInv, PositionInv
<1>8. PositionCarried'
  BY <1>1 DEF PositionCarried
<1> QED BY <1>5, <1>6, <1>7, <1>8 DEF IInv

LEMMA RestartStep == ASSUME IInv, Restart PROVE IInv'
<1>1. /\ row = "resolved" /\ pc \in {"play", "award", "next"}
      /\ roundScore' = IF turn = 1 THEN Zero ELSE roundScore
      /\ pc' = IF turn = TurnsPerRound THEN "award" ELSE "play"
      /\ UNCHANGED <<round, roundsAwarded, wins, total, winner, tally, trueWins,
                     turn, row, scoreAfter, cut, position>>
  BY DEF Restart, turnVars
<1>2. Recorded' = Recorded /\ Ptr' = Ptr
  BY <1>1 DEF Recorded, Ptr
<1>3. TypeOK'
  <2>1. pc' \in {"play", "award"} /\ roundScore' \in [Players -> Nat]
    BY <1>1 DEF IInv, TypeOK, Zero
  <2> QED BY <1>1, <2>1 DEF IInv, TypeOK
<1>4. RowsInv'
  <2>1. /\ pc' = "play" => turn # TurnsPerRound
        /\ pc' \in {"award", "next", "done"} => turn = TurnsPerRound
        /\ pc' \in {"play", "award"}
    BY <1>1
  <2>2. turn # TurnsPerRound => turn < TurnsPerRound
    BY Sizes DEF IInv, TypeOK
  <2>3. turn # TurnsPerRound => pc = "play" /\ roundsAwarded = round - 1
    BY <1>1 DEF IInv, RowsInv
  <2> QED BY <1>1, <1>2, <2>1, <2>2, <2>3 DEF IInv, RowsInv
<1>5. ScoresInv' /\ StandingsInv' /\ PositionInv'
  BY <1>1, <1>2 DEF IInv, ScoresInv, StandingsInv, PositionInv
<1>6. PositionCarried'
  BY <1>1 DEF PositionCarried
<1> QED BY <1>3, <1>4, <1>5, <1>6 DEF IInv

LEMMA FinalizeStep == ASSUME IInv, Finalize PROVE IInv'
<1>1. /\ pc = "next" /\ pc' = "done"
      /\ UNCHANGED <<round, roundScore, roundsAwarded, wins, total, trueWins,
                     turn, row, scoreAfter, cut, position>>
  BY DEF Finalize, Order!Finalize, turnVars
<1>2. Recorded' = Recorded /\ Ptr' = Ptr
  BY <1>1 DEF Recorded, Ptr
<1>3. TypeOK' /\ RowsInv' /\ ScoresInv' /\ StandingsInv' /\ PositionInv' /\ PositionCarried'
  BY <1>1, <1>2
     DEF IInv, TypeOK, RowsInv, ScoresInv, StandingsInv, PositionInv, PositionCarried
<1> QED BY <1>3 DEF IInv

-----------------------------------------------------------------------------
(* The copy, and the theorems.                                             *)

LEMMA ResumeStep == ASSUME IInv, NEW at \in TurnIds, ResumeFrom(at) PROVE IInv'
<1> DEFINE rows == Earlier(Recorded, at)
<1>1. /\ cut = Nowhere /\ cut' = at /\ round' = at[1] /\ turn' = at[2] /\ row' = "none"
      /\ scoreAfter' = Restrict(scoreAfter, Seeded(at))
      /\ roundsAwarded' = at[1] - 1
      /\ wins' = [p \in Players |-> WinsIn(Seeded(at), p, at[1] - 1)]
      /\ total' = [p \in Players |-> PointsIn(Seeded(at), p, at)]
      /\ roundScore' = InRound(Seeded(at), at)
      /\ pc' = "registering" /\ position' = position
  BY DEF ResumeFrom, AwardedBefore
<1>2. Seeded(at) = rows
  BY DEF Seeded, Earlier, Recorded
<1>3. /\ at = <<at[1], at[2]>> /\ at # Nowhere
      /\ at[1] \in 1 .. TotalRounds /\ at[2] \in 1 .. TurnsPerRound
      /\ at[1] \in Nat /\ at[1] - 1 \in Nat /\ at[2] \in Nat /\ at[1] >= 1
  BY IdFacts
<1>4. /\ Recorded \in SUBSET TurnIds /\ rows \in SUBSET TurnIds /\ rows \subseteq Recorded
      /\ \A id \in rows : Before(id, at)
  BY PtrFacts DEF IInv, Earlier
<1>5. at \notin rows
  BY <1>3, <1>4 DEF Before
<1>6. \A id \in rows : scoreAfter[id] \in [Players -> Nat]
  BY <1>4 DEF IInv, RowsInv
<1>7. /\ wins' = [p \in Players |-> Fold(scoreAfter, rows, p, at[1] - 1)]
      /\ total' = [p \in Players |-> Points(scoreAfter, rows, p, at[1])]
      /\ roundScore' = ScoreAt(scoreAfter, rows, at)
  <2>1. InRound(rows, at) = ScoreAt(scoreAfter, rows, at)
    BY DEF InRound, ScoreAt, ScoresOf, ScoreIn
  <2> HIDE DEF rows
  <2> QED BY <1>1, <1>2, <2>1, WinsFold, PointsAre
<1> HIDE DEF rows
<1>8. /\ Recorded' = rows /\ Ptr' = at
      /\ \A id \in rows : scoreAfter'[id] = scoreAfter[id]
      /\ scoreAfter' = [id \in rows |-> scoreAfter'[id]]
  <2>1. scoreAfter' = [id \in rows |-> scoreAfter[id]]
    BY <1>1, <1>2 DEF Restrict
  <2> QED BY <1>1, <1>3, <2>1 DEF Recorded, Ptr
<1>9. TypeOK'
  <2>1. ScoreAt(scoreAfter, rows, at) \in [Players -> Nat]
    BY <1>4, <1>6, ScoreType DEF ScoreAt, Zero
  <2>2. \A p \in Players : Points(scoreAfter, rows, p, at[1]) \in Nat
    BY <1>4, <1>6, PointsNat
  <2>3. total' \in [Players -> Nat] /\ roundScore' \in [Players -> Nat]
    BY <1>7, <2>1, <2>2
  <2>4. <<round', turn'>> = at /\ DOMAIN scoreAfter' = rows
    BY <1>1, <1>3, <1>8 DEF Recorded
  <2> QED BY <1>1, <1>3, <1>4, <1>5, <2>3, <2>4 DEF TypeOK
<1>10. RowsInv'
  BY <1>1, <1>3, <1>4, <1>6, <1>8 DEF RowsInv
<1>11. ScoresInv' /\ PositionInv'
  BY <1>1, <1>3 DEF ScoresInv, PositionInv
<1>12. StandingsInv'
  <2>1. \A p : /\ Fold(scoreAfter, rows, p, at[1] - 1) = Fold(scoreAfter', rows, p, at[1] - 1)
               /\ Points(scoreAfter, rows, p, at[1]) = Points(scoreAfter', rows, p, at[1])
    BY <1>3, <1>4, <1>8, FoldsOfRows
  <2>2. roundsAwarded' = at[1] - 1 /\ roundsAwarded' + 1 = at[1]
    BY <1>1, <1>3
  <2> QED BY <1>7, <1>8, <2>1, <2>2 DEF StandingsInv
<1>13. PositionCarried'
  <2> SUFFICES ASSUME at \in DOMAIN position
               PROVE  /\ wins' = position[at].wins /\ total' = position[at].total
                      /\ \/ roundScore' = position[at].score
                         \/ at[2] = 2 /\ position[at].score = Zero
    BY <1>1 DEF PositionCarried, Zero
  <2>1. Stood(scoreAfter, rows, at, position[at])
    BY <1>1 DEF IInv, PositionInv, rows
  <2> QED BY <1>7, <2>1 DEF Stood
<1> QED BY <1>9, <1>10, <1>11, <1>12, <1>13 DEF IInv

LEMMA StartStep == ASSUME IInv, Start PROVE IInv'
<1>1. /\ pc = "registering" /\ pc' = "play" /\ position' = <<>>
      /\ roundScore' = IF turn = 1 THEN Zero ELSE roundScore
      /\ UNCHANGED <<round, roundsAwarded, wins, total, winner, tally, trueWins,
                     turn, row, scoreAfter, cut>>
  BY DEF Start, turnVars
<1>2. Recorded' = Recorded /\ Ptr' = Ptr /\ DOMAIN position' = {}
  BY <1>1 DEF Recorded, Ptr
<1>3. cut = Ptr /\ row = "none" /\ cut # Nowhere
  BY <1>1, PtrFacts DEF IInv, TypeOK, Ptr
<1>4. TypeOK'
  <2>1. roundScore' \in [Players -> Nat]
    BY <1>1 DEF IInv, TypeOK, Zero
  <2> QED BY <1>1, <2>1 DEF IInv, TypeOK
<1>5. RowsInv' /\ ScoresInv' /\ StandingsInv' /\ PositionInv' /\ PositionCarried'
  BY <1>1, <1>2, <1>3
     DEF IInv, RowsInv, ScoresInv, StandingsInv, PositionInv, PositionCarried
<1> QED BY <1>4, <1>5 DEF IInv

LEMMA NextIInv == IInv /\ [Next]_vars => IInv'
<1> SUFFICES ASSUME IInv, [Next]_vars PROVE IInv'
  OBVIOUS
<1>1. CASE UNCHANGED vars
  <2>1. UNCHANGED <<round, pc, roundScore, roundsAwarded, wins, total, turn, row, scoreAfter,
                    cut, position>>
    BY <1>1 DEF vars, orderVars, turnVars
  <2>2. Recorded' = Recorded /\ Ptr' = Ptr
    BY <2>1 DEF Recorded, Ptr
  <2>3. TypeOK' /\ RowsInv' /\ ScoresInv' /\ StandingsInv' /\ PositionInv' /\ PositionCarried'
    BY <2>1, <2>2
       DEF IInv, TypeOK, RowsInv, ScoresInv, StandingsInv, PositionInv, PositionCarried
  <2> QED BY <2>3 DEF IInv
<1>2. CASE Next
  BY <1>2, OpenStep, ResolveStep, AwardStep, NextRoundStep, RestartStep, FinalizeStep,
     ResumeStep, StartStep DEF Next
<1> QED BY <1>1, <1>2

THEOREM Invariant == Spec => []IInv
  BY InitIInv, NextIInv, PTL DEF Spec

(* The pointer, the rows and the standings of a match and of its copy are  *)
(* what the code's columns can hold; a copy has no row at its cut.         *)
THEOREM TypeCorrect == Spec => []TypeOK
<1>1. IInv => TypeOK
  BY DEF IInv
<1> QED BY <1>1, Invariant, PTL

(* resume_match_from: the standings recomputed from the turns before the   *)
(* cut are those the source had when it opened that turn.                  *)
THEOREM CarriesPosition == Spec => []PositionCarried
<1>1. IInv => PositionCarried
  BY DEF IInv
<1> QED BY <1>1, Invariant, PTL

LEMMA InvRail == IInv => RailAgrees
<1> SUFFICES ASSUME IInv, scoreAfter # <<>>, NEW p \in Players
             PROVE  wins[p] = RailWins(p, IF roundsAwarded >= Trailing THEN Trailing
                                          ELSE Trailing - 1)
  BY DEF RailAgrees
<1> DEFINE played == PlayedRounds(Recorded)
<1>1. /\ round \in Nat /\ round >= 1 /\ Recorded \in SUBSET TurnIds
      /\ roundsAwarded \in Nat /\ roundsAwarded \in {round - 1, round}
  BY PtrFacts DEF IInv, TypeOK
<1>2. Recorded # {}
  <2> SUFFICES ASSUME Recorded = {} PROVE FALSE
    OBVIOUS
  <2>1. scoreAfter = [id \in {} |-> scoreAfter[id]]
    BY DEF IInv, RowsInv
  <2>2. \A f : f = [id \in {} |-> f[id]] => f = <<>>
    OBVIOUS
  <2> QED BY <2>1, <2>2
<1>3. played # {} /\ played \subseteq Nat /\ \A n \in played : n <= round /\ n >= 1
  <2>1. \A id \in Recorded : id[1] \in Nat /\ id[1] <= round /\ id[1] >= 1
    <3> SUFFICES ASSUME NEW id \in Recorded
                 PROVE  id[1] \in Nat /\ id[1] <= round /\ id[1] >= 1
      OBVIOUS
    <3>1. Before(id, Ptr) \/ id = Ptr
      BY DEF IInv, RowsInv
    <3>2. id[1] \in Nat /\ id[1] >= 1
      BY <1>1, IdFacts
    <3>3. id[1] < round \/ id[1] = round
      BY <3>1 DEF Before, Ptr
    <3> QED BY <1>1, <3>2, <3>3
  <2> QED BY <1>2, <2>1 DEF PlayedRounds
<1> HIDE DEF played
<1>4. /\ Trailing = Max(played) /\ Trailing \in played
      /\ \A n \in played : n <= Trailing
  <2>1. Trailing = Max(played)
    BY DEF Trailing, played, Recorded
  <2> QED BY <1>1, <1>3, <2>1, Greatest
<1>5. Trailing \in Nat /\ Trailing <= round /\ Trailing >= 1
  BY <1>3, <1>4
<1>6. \A n \in Nat : Trailing < n => n \notin PlayedRounds(Recorded)
  BY <1>4, <1>5 DEF played
<1>7. \A last : RailWins(p, last) = Fold(scoreAfter, Recorded, p, last)
  BY WinsFold DEF RailWins, Recorded
<1>8. wins[p] = Fold(scoreAfter, Recorded, p, roundsAwarded)
  BY DEF IInv, StandingsInv
<1>9. CASE roundsAwarded >= Trailing
  <2>1. Fold(scoreAfter, Recorded, p, roundsAwarded) = Fold(scoreAfter, Recorded, p, Trailing)
    BY <1>1, <1>5, <1>6, <1>9, FoldStays
  <2> QED BY <1>7, <1>8, <1>9, <2>1
<1>10. CASE ~(roundsAwarded >= Trailing)
  <2>1. roundsAwarded = Trailing - 1
    BY <1>1, <1>5, <1>10
  <2> QED BY <1>7, <1>8, <1>10, <2>1
<1> QED BY <1>9, <1>10

(* The rail's fold of the award rule (replay_standings) and the match's    *)
(* own decide every round alike, in a match and in a copy of it.           *)
THEOREM RailsAgree == Spec => []RailAgrees
  BY Invariant, InvRail, PTL
=============================================================================
