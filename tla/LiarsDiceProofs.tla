---------------------------- MODULE LiarsDiceProofs ----------------------------
(***************************************************************************)
(* What holds of every match of Liar's Dice: for any number of seats, dice *)
(* and faces, any number of submissions, turns and hands, and any number   *)
(* of deaths of the driver. First what holds of the bids alone: their      *)
(* order, and what follows from it for the smallest raise, with or without *)
(* wild aces.                                                              *)
(***************************************************************************)
EXTENDS LiarsDice, FiniteSetTheorems, WellFoundedInduction, TLAPS

-----------------------------------------------------------------------------
(* A nonempty set of natural numbers has a least member.                   *)
LEMMA LeastNumber ==
  ASSUME NEW S, S \subseteq Nat, S # {}
  PROVE  \E m \in S : \A n \in S : m <= n
<1> DEFINE Less == {ss \in Nat \X Nat : ss[1] < ss[2]}
<1>1. IsWellFoundedOn(Less, Nat)
  BY NatLessThanWellFounded, Zenon DEF OpToRel
<1>2. PICK m \in S : \A n \in S : ~(<<n, m>> \in Less)
  <2> HIDE DEF Less
  <2> QED BY <1>1, WFMin
<1>3. \A n \in S : ~(n < m)
  BY <1>2
<1> QED
  BY <1>3

-----------------------------------------------------------------------------
(* The ladder. A bid of q wild aces stands between the bids of 2q and of   *)
(* 2q + 1 other dice.                                                      *)

Step == MaxFace + 1
Rank(b) ==
  IF Wild /\ Ace(b) THEN (2 * b.quantity + 1) * Step ELSE b.quantity * Step + b.face

LEMMA Steps ==
  ASSUME NEW q \in Nat, NEW r \in Nat, q < r
  PROVE  /\ q * Step \in Nat /\ r * Step \in Nat
         /\ q * Step + Step <= r * Step
<1>1. Step \in Nat
  BY RulesAssumption DEF Step
<1>2. r = (q + 1) + (r - q - 1) /\ r - q - 1 \in Nat
  OBVIOUS
<1> DEFINE d == r - q - 1
<1>3. r * Step = (q + 1) * Step + d * Step
  <2> HIDE DEF d
  <2>1. r = (q + 1) + d /\ d \in Nat
    BY <1>2 DEF d
  <2> QED BY <1>1, <2>1
<1>4. d * Step \in Nat
  BY <1>1, <1>2
<1>5. (q + 1) * Step = q * Step + Step
  BY <1>1
<1> HIDE DEF d
<1> QED
  BY <1>1, <1>3, <1>4, <1>5

LEMMA RankType == \A b \in Bid : Rank(b) \in Nat
BY RulesAssumption DEF Rank, Step, Bid, Faces, Ace

(* Legality is an order of numbers: a bid may follow another one exactly   *)
(* when its rank is higher.                                                *)
THEOREM RankOrder ==
  \A p, n \in Bid : IsLegalRaise(p, n) <=> Rank(p) < Rank(n)
<1> SUFFICES ASSUME NEW p \in Bid, NEW n \in Bid
             PROVE  IsLegalRaise(p, n) <=> Rank(p) < Rank(n)
  OBVIOUS
<1> DEFINE P == p.quantity
           N == n.quantity
<1>1. /\ P \in Nat /\ P > 0 /\ N \in Nat /\ N > 0
      /\ p.face \in 1 .. MaxFace /\ n.face \in 1 .. MaxFace
      /\ MaxFace \in Nat /\ MaxFace > 1 /\ Step = MaxFace + 1
      /\ p # NoBid /\ Wild \in BOOLEAN
  BY RulesAssumption DEF Bid, Faces, NoBid, Step
<1>2. \A q, r \in Nat :
        q < r => q * Step \in Nat /\ r * Step \in Nat /\ q * Step + Step <= r * Step
  BY Steps
<1>3. CASE ~Wild \/ (~Ace(p) /\ ~Ace(n))
  <2>1. IsLegalRaise(p, n) <=> HigherOf(p, n)
    <3>1. CASE ~Wild
      BY <1>1, <3>1 DEF IsLegalRaise
    <3>2. CASE Wild /\ ~Ace(p) /\ ~Ace(n)
      BY <1>1, <3>2 DEF IsLegalRaise
    <3> QED BY <1>1, <1>3, <3>1, <3>2
  <2>2. Rank(p) = P * Step + p.face /\ Rank(n) = N * Step + n.face
    BY <1>3 DEF Rank
  <2>3. P * Step \in Nat /\ N * Step \in Nat
    BY <1>1
  <2>4. P < N => P * Step + Step <= N * Step
    BY <1>1, <1>2
  <2>5. N < P => N * Step + Step <= P * Step
    BY <1>1, <1>2
  <2>6. HigherOf(p, n) <=> (N > P \/ (N = P /\ n.face > p.face))
    BY DEF HigherOf
  <2> HIDE DEF P, N
  <2>7. CASE N > P
    BY <1>1, <2>1, <2>2, <2>3, <2>4, <2>6, <2>7
  <2>8. CASE N < P
    BY <1>1, <2>1, <2>2, <2>3, <2>5, <2>6, <2>8
  <2>9. CASE N = P
    BY <1>1, <2>1, <2>2, <2>3, <2>6, <2>9
  <2> QED BY <1>1, <2>7, <2>8, <2>9
<1>4. CASE Wild /\ ~Ace(p) /\ Ace(n)
  <2>1. IsLegalRaise(p, n) <=> P < 2 * N + 1
    BY <1>1, <1>4 DEF IsLegalRaise
  <2>2. Rank(p) = P * Step + p.face /\ Rank(n) = (2 * N + 1) * Step
    BY <1>4 DEF Rank
  <2> DEFINE M == 2 * N + 1
  <2>3. M \in Nat /\ P * Step \in Nat /\ M * Step \in Nat
    BY <1>1
  <2>4. P < M => P * Step + Step <= M * Step
    BY <1>1, <1>2, <2>3
  <2>5. M < P => M * Step + Step <= P * Step
    BY <1>1, <1>2, <2>3
  <2>6. M = P => M * Step = P * Step
    OBVIOUS
  <2>7. Rank(n) = M * Step /\ (IsLegalRaise(p, n) <=> P < M)
    BY <2>1, <2>2
  <2> HIDE DEF M
  <2> QED BY <1>1, <2>2, <2>3, <2>4, <2>5, <2>6, <2>7
<1>5. CASE Wild /\ Ace(p) /\ ~Ace(n)
  <2> DEFINE M == 2 * P + 1
  <2>1. (IsLegalRaise(p, n) <=> M <= N) /\ M \in Nat
    BY <1>1, <1>5 DEF IsLegalRaise
  <2>2. Rank(p) = M * Step /\ Rank(n) = N * Step + n.face
    BY <1>5 DEF Rank
  <2>3. P * Step \in Nat /\ M * Step \in Nat /\ N * Step \in Nat
    BY <1>1
  <2>4. M < N => M * Step + Step <= N * Step
    BY <1>1, <1>2, <2>1
  <2>5. N < M => N * Step + Step <= M * Step
    BY <1>1, <1>2, <2>1
  <2>6. M = N => M * Step = N * Step
    OBVIOUS
  <2> HIDE DEF M
  <2> QED BY <1>1, <2>1, <2>2, <2>3, <2>4, <2>5, <2>6
<1>6. CASE Wild /\ Ace(p) /\ Ace(n)
  <2> DEFINE A == 2 * P + 1
             B == 2 * N + 1
  <2>1. (IsLegalRaise(p, n) <=> A < B) /\ A \in Nat /\ B \in Nat
    BY <1>1, <1>6 DEF IsLegalRaise
  <2>2. Rank(p) = A * Step /\ Rank(n) = B * Step
    BY <1>6 DEF Rank
  <2>3. A * Step \in Nat /\ B * Step \in Nat
    BY <1>1
  <2>4. A < B => A * Step + Step <= B * Step
    BY <1>2, <2>1
  <2>5. B < A => B * Step + Step <= A * Step
    BY <1>2, <2>1
  <2>6. A = B => A * Step = B * Step
    OBVIOUS
  <2> HIDE DEF A, B
  <2> QED BY <1>1, <2>1, <2>2, <2>3, <2>4, <2>5, <2>6
<1>7. Ace(p) \in BOOLEAN /\ Ace(n) \in BOOLEAN
  BY DEF Ace
<1> QED
  BY <1>1, <1>3, <1>4, <1>5, <1>6, <1>7

(* Two different bids never share a rank, so of two bids one raises the    *)
(* other.                                                                  *)
LEMMA RankInjective ==
  ASSUME NEW p \in Bid, NEW n \in Bid, Rank(p) = Rank(n)
  PROVE  p = n
<1>1. /\ p.quantity \in Nat /\ n.quantity \in Nat /\ p.face \in Nat /\ n.face \in Nat
      /\ p.face \in 1 .. MaxFace /\ n.face \in 1 .. MaxFace /\ p # NoBid
      /\ p.quantity > 0 /\ n.quantity > 0
      /\ p = [quantity |-> p.quantity, face |-> p.face]
      /\ n = [quantity |-> n.quantity, face |-> n.face]
  BY RulesAssumption DEF Bid, Faces, NoBid
<1>2. ~IsLegalRaise(p, n) /\ ~IsLegalRaise(n, p)
  BY RankOrder, RankType
<1>3. p.quantity = n.quantity /\ p.face = n.face
  BY <1>1, <1>2, RulesAssumption DEF IsLegalRaise, HigherOf, Ace, NoBid, Bid
<1> QED
  BY <1>1, <1>3

-----------------------------------------------------------------------------
(* The smallest raise. min_legal_raise asserts, before it returns a raise, *)
(* that the ladder lets it follow (ENGINE_INVARIANT): it always does, and  *)
(* every other bid that may follow is a raise over it. There is none only  *)
(* when no bid on the table's dice may follow.                             *)

LEMMA RaisesAreBids ==
  ASSUME NEW prev \in Bid \cup {NoBid}, NEW total \in Nat
  PROVE  LegalRaises(prev, total) \subseteq Bid
BY DEF LegalRaises, Offers, Bid, Faces

LEMMA FloorIsLeast ==
  ASSUME NEW raises, raises \subseteq Bid, raises # {}
  PROVE  /\ Floor(raises) \in raises
         /\ \A c \in raises : Floor(raises) = c \/ IsLegalRaise(Floor(raises), c)
<1> DEFINE S == {Rank(b) : b \in raises}
<1>1. S \subseteq Nat /\ S # {}
  BY RankType
<1>2. PICK m \in S : \A n \in S : m <= n
  <2> HIDE DEF S
  <2> QED BY <1>1, LeastNumber
<1>3. PICK b \in raises : Rank(b) = m
  BY <1>2
<1>4. ASSUME NEW c \in raises
      PROVE  b = c \/ IsLegalRaise(b, c)
  <2>1. Rank(b) <= Rank(c) /\ Rank(b) \in Nat /\ Rank(c) \in Nat
    BY <1>2, <1>3, RankType
  <2>2. CASE Rank(b) = Rank(c)
    BY <2>2, RankInjective
  <2>3. CASE Rank(b) < Rank(c)
    BY <2>3, RankOrder
  <2> QED BY <2>1, <2>2, <2>3
<1> QED
  BY <1>3, <1>4 DEF Floor

LEMMA NextStepIsLeast ==
  ASSUME NEW p \in Bid, ~Wild
  PROVE  /\ NextStep(p) \in Bid /\ IsLegalRaise(p, NextStep(p))
         /\ \A c \in Bid : IsLegalRaise(p, c) =>
              /\ NextStep(p).quantity <= c.quantity
              /\ NextStep(p) = c \/ IsLegalRaise(NextStep(p), c)
<1> DEFINE Lowest == NextStep(p)
<1>1. /\ p.quantity \in Nat \ {0} /\ p.face \in 1 .. MaxFace /\ p # NoBid
      /\ MaxFace \in Nat /\ MaxFace > 1
  BY RulesAssumption DEF Bid, Faces, NoBid
<1>2. Lowest \in Bid /\ IsLegalRaise(p, Lowest)
  BY <1>1 DEF NextStep, IsLegalRaise, HigherOf, Bid, Faces
<1>3. ASSUME NEW c \in Bid, IsLegalRaise(p, c)
      PROVE  Lowest.quantity <= c.quantity /\ (Lowest = c \/ IsLegalRaise(Lowest, c))
  <2>1. /\ c.quantity \in Nat \ {0} /\ c.face \in 1 .. MaxFace
        /\ c = [quantity |-> c.quantity, face |-> c.face]
    BY DEF Bid, Faces
  <2>2. HigherOf(p, c)
    BY <1>1, <1>3 DEF IsLegalRaise
  <2>3. Lowest # NoBid
    BY <1>2 DEF Bid, NoBid
  <2>4. CASE p.face < MaxFace
    <3>1. Lowest = [quantity |-> p.quantity, face |-> p.face + 1]
      BY <2>4 DEF NextStep
    <3>2. Lowest = c \/ HigherOf(Lowest, c)
      BY <1>1, <2>1, <2>2, <3>1 DEF HigherOf
    <3> QED BY <1>1, <2>1, <2>2, <2>3, <3>1, <3>2 DEF HigherOf, IsLegalRaise
  <2>5. CASE p.face = MaxFace
    <3>1. Lowest = [quantity |-> p.quantity + 1, face |-> 1]
      BY <1>1, <2>5 DEF NextStep
    <3>2. Lowest = c \/ HigherOf(Lowest, c)
      BY <1>1, <2>1, <2>2, <2>5, <3>1 DEF HigherOf
    <3> QED BY <1>1, <2>1, <2>2, <2>3, <2>5, <3>1, <3>2 DEF HigherOf, IsLegalRaise
  <2> QED BY <1>1, <2>4, <2>5
<1> QED
  BY <1>2, <1>3

THEOREM MinLegalRaiseIsLeast ==
  ASSUME NEW prev \in Bid \cup {NoBid}, NEW total \in Nat \ {0}
  PROVE  /\ LegalRaises(prev, total) = {} => MinLegalRaise(prev, total) = NoBid
         /\ LegalRaises(prev, total) # {} =>
              /\ MinLegalRaise(prev, total) \in LegalRaises(prev, total)
              /\ \A c \in LegalRaises(prev, total) :
                   \/ MinLegalRaise(prev, total) = c
                   \/ IsLegalRaise(MinLegalRaise(prev, total), c)
<1> DEFINE raises == LegalRaises(prev, total)
           least == MinLegalRaise(prev, total)
<1>0. Wild \in BOOLEAN /\ NoBid \notin Bid /\ MaxFace \in Nat /\ MaxFace > 1
  BY RulesAssumption DEF Bid, NoBid
<1>1. CASE prev = NoBid
  <2>1. least = [quantity |-> 1, face |-> 2]
    BY <1>1 DEF MinLegalRaise
  <2>2. least \in raises
    BY <1>0, <1>1, <2>1 DEF LegalRaises, Offers, Faces, IsLegalRaise, Ace
  <2>3. ASSUME NEW c \in raises
        PROVE  least = c \/ IsLegalRaise(least, c)
    <3>1. /\ c.quantity \in Nat \ {0} /\ c.face \in 1 .. MaxFace /\ ~Ace(c)
          /\ c = [quantity |-> c.quantity, face |-> c.face]
      BY <1>0, <1>1 DEF LegalRaises, Offers, Faces, IsLegalRaise
    <3>2. least = c \/ HigherOf(least, c)
      BY <1>0, <2>1, <3>1 DEF HigherOf, Ace
    <3>3. least # NoBid /\ ~Ace(least)
      BY <2>1 DEF NoBid, Ace
    <3> QED BY <1>0, <3>1, <3>2, <3>3 DEF IsLegalRaise
  <2> QED BY <2>2, <2>3
<1>2. CASE prev \in Bid /\ ~Wild
  <2>1. least = IF NextStep(prev).quantity > total THEN NoBid ELSE NextStep(prev)
    BY <1>0, <1>2 DEF MinLegalRaise
  <2>2. /\ NextStep(prev) \in Bid /\ IsLegalRaise(prev, NextStep(prev))
        /\ \A c \in Bid : IsLegalRaise(prev, c) =>
             /\ NextStep(prev).quantity <= c.quantity
             /\ NextStep(prev) = c \/ IsLegalRaise(NextStep(prev), c)
    BY <1>2, NextStepIsLeast
  <2>3. /\ raises \subseteq Bid
        /\ \A c \in raises : c.quantity \in 1 .. total /\ IsLegalRaise(prev, c)
    BY RaisesAreBids DEF LegalRaises, Offers
  <2>4. CASE NextStep(prev).quantity > total
    <3>1. raises = {}
      BY <2>2, <2>3, <2>4 DEF Bid
    <3> QED BY <2>1, <2>4, <3>1
  <2>5. CASE ~(NextStep(prev).quantity > total)
    <3>1. NextStep(prev) \in raises
      BY <2>2, <2>5 DEF LegalRaises, Offers, Bid
    <3> QED BY <2>1, <2>2, <2>3, <2>5, <3>1
  <2> QED BY <2>4, <2>5
<1>3. CASE prev \in Bid /\ Wild
  <2>1. least = IF raises = {} THEN NoBid ELSE Floor(raises)
    BY <1>0, <1>3 DEF MinLegalRaise
  <2>2. raises \subseteq Bid
    BY RaisesAreBids
  <2>3. ASSUME raises # {}
        PROVE  /\ least \in raises
               /\ \A c \in raises : least = c \/ IsLegalRaise(least, c)
    <3> HIDE DEF raises
    <3>1. /\ Floor(raises) \in raises
          /\ \A c \in raises : Floor(raises) = c \/ IsLegalRaise(Floor(raises), c)
      BY <2>2, <2>3, FloorIsLeast
    <3>2. least = Floor(raises)
      BY <2>1, <2>3
    <3> HIDE DEF least
    <3> QED BY <3>1, <3>2
  <2>4. raises = {} => least = NoBid
    BY <2>1
  <2> QED BY <2>3, <2>4
<1> QED
  BY <1>0, <1>1, <1>2, <1>3

LEMMA MinLegalRaiseType ==
  ASSUME NEW prev \in Bid \cup {NoBid}, NEW total \in Nat
  PROVE  MinLegalRaise(prev, total) \in Bid \cup {NoBid}
<1>1. /\ Wild \in BOOLEAN /\ NoBid \notin Bid
      /\ [quantity |-> 1, face |-> 2] \in Bid
  BY RulesAssumption DEF Bid, NoBid, Faces
<1>2. CASE prev = NoBid
  BY <1>1, <1>2 DEF MinLegalRaise
<1>3. CASE prev \in Bid /\ ~Wild
  BY <1>1, <1>3, NextStepIsLeast DEF MinLegalRaise
<1>4. CASE prev \in Bid /\ Wild
  <2>1. MinLegalRaise(prev, total) =
          IF LegalRaises(prev, total) = {} THEN NoBid ELSE Floor(LegalRaises(prev, total))
    BY <1>1, <1>4 DEF MinLegalRaise
  <2>2. LegalRaises(prev, total) \subseteq Bid
    BY RaisesAreBids
  <2>3. LegalRaises(prev, total) # {}
          => Floor(LegalRaises(prev, total)) \in LegalRaises(prev, total)
    BY <2>2, FloorIsLeast
  <2> QED BY <2>1, <2>2, <2>3
<1> QED
  BY <1>1, <1>2, <1>3, <1>4

-----------------------------------------------------------------------------
(* Whoever has dice is found, going round the table from any seat.         *)
LEMMA NextAliveSeatIsAlive ==
  ASSUME NEW alive, alive \subseteq Seats, NEW s \in Seats \cup {NoSeat}
  PROVE  NextAliveSeat(alive, s) \in alive \cup {NoSeat}
         /\ (alive # {} => NextAliveSeat(alive, s) \in alive)
<1>1. CASE alive = {}
  BY <1>1 DEF NextAliveSeat
<1>2. CASE alive # {}
  <2> DEFINE Hits == {d \in Seats : After(s, d) \in alive}
  <2>1. PICK a \in alive : TRUE
    BY <1>2
  <2>2. NumSeats \in Nat /\ NumSeats > 1 /\ a \in 1 .. NumSeats /\ s \in 0 .. NumSeats
    BY RulesAssumption DEF Seats, NoSeat
  <2>3. \E d \in Seats : After(s, d) = a
    <3>1. CASE a > s
      <4>1. a - s \in Seats /\ s - 1 + (a - s) = a - 1 /\ (a - 1) % NumSeats = a - 1
        BY <2>2, <3>1 DEF Seats
      <4> QED BY <2>2, <4>1 DEF After
    <3>2. CASE a <= s
      <4>1. a - s + NumSeats \in Seats /\ s - 1 + (a - s + NumSeats) = a - 1 + NumSeats
        BY <2>2, <3>2 DEF Seats
      <4>2. (a - 1 + NumSeats) % NumSeats = a - 1
        BY <2>2
      <4> QED BY <2>2, <4>1, <4>2 DEF After
    <3> QED BY <2>2, <3>1, <3>2
  <2>4. Hits \subseteq Nat /\ Hits # {}
    BY <2>1, <2>3 DEF Seats
  <2>5. PICK m \in Hits : \A n \in Hits : m <= n
    <3> HIDE DEF Hits
    <3> QED BY <2>4, LeastNumber
  <2>6. m \in Seats /\ After(s, m) \in alive
    BY <2>5
  <2>7. \A e \in 1 .. (m - 1) : After(s, e) \notin alive
    BY <2>2, <2>5, <2>6 DEF Seats
  <2> QED BY <1>2, <2>6, <2>7 DEF NextAliveSeat
<1> QED
  BY <1>1, <1>2

-----------------------------------------------------------------------------
(* Types.                                                                  *)

LEMMA SeatsFacts ==
  /\ NumSeats \in Nat /\ NumSeats > 1
  /\ Seats \subseteq Nat /\ 1 \in Seats /\ NoSeat \notin Seats
  /\ IsFiniteSet(Seats)
  /\ Challenge = NoBid /\ NoBid \notin Bid
<1>1. IsFiniteSet(1 .. NumSeats)
  BY FS_Interval, RulesAssumption
<1> QED
  BY <1>1, RulesAssumption DEF Seats, NoSeat, Challenge, NoBid, Bid

LEMMA TotalDiceType == TotalDice \in Nat
<1>1. IsFiniteSet(1 .. DicePerPlayer)
  BY FS_Interval, MatchAssumption
<1>2. IsFiniteSet(Seats \X (1 .. DicePerPlayer))
  BY <1>1, SeatsFacts, FS_Product
<1>3. DiceInPlay \subseteq Seats \X (1 .. DicePerPlayer)
  BY DEF DiceInPlay
<1> QED
  BY <1>2, <1>3, FS_Subset, FS_CardinalityType DEF TotalDice

LEMMA AliveFacts ==
  ASSUME TypeOK
  PROVE  Alive \subseteq Seats /\ IsFiniteSet(Alive)
BY SeatsFacts, FS_Subset DEF Alive

LEMMA RecordedType ==
  ASSUME TypeOK, NEW s \in Seats, NEW m \in Moves
  PROVE  /\ Recorded(s, m) \in Document
         /\ Recorded(s, m).out = blob.out
         /\ Recorded(s, m).settled = blob.settled
<1>1. NextAliveSeat(Alive, s) \in Seats \cup {NoSeat}
  BY AliveFacts, NextAliveSeatIsAlive
<1> QED
  BY <1>1 DEF TypeOK, Recorded, Document

LEMMA DealType ==
  ASSUME TypeOK, NEW r \in Nat \ {0}, Deal(r)
  PROVE  /\ round' \in 0 .. MaxRounds /\ round' = r
         /\ dice' \in [Seats -> 0 .. DicePerPlayer]
         /\ blob' \in Document
         /\ blob'.out = blob.out /\ blob'.settled = 0
<1>1. NextAliveSeat(Alive, NoSeat) \in Seats \cup {NoSeat}
  BY AliveFacts, NextAliveSeatIsAlive
<1>2. 0 \in 0 .. MaxRounds /\ r \in Nat
  BY MatchAssumption
<1>3. round' \in 0 .. MaxRounds /\ round' = r
  BY MatchAssumption DEF Deal
<1>4. dice' \in [Seats -> 0 .. DicePerPlayer]
  BY MatchAssumption DEF Deal
<1>5. blob' \in Document /\ blob'.out = blob.out /\ blob'.settled = 0
  <2>1. 1 \in Seats /\ NoBid \in Moves
    BY SeatsFacts DEF Moves
  <2> QED BY <1>1, <1>2, <2>1 DEF Deal, TypeOK, Document
<1> QED
  BY <1>3, <1>4, <1>5

LEMMA LoserType ==
  ASSUME TypeOK, NEW table
  PROVE  Loser(table) \in Seats \cup {NoSeat}
BY DEF TypeOK, Document, Loser

(* What the showdown leaves: at most one more seat is out, and it is the   *)
(* one that has lost its last die.                                         *)
LEMMA ShowdownFacts ==
  ASSUME TypeOK, NEW loser \in Seats \cup {NoSeat}, Showdown(loser)
  PROVE  /\ dice' \in [Seats -> 0 .. DicePerPlayer]
         /\ blob' \in Document
         /\ blob'.settled = round
         /\ \A s \in Seats \ {loser} : dice'[s] = dice[s]
         /\ loser \in Seats /\ dice[loser] > 0 => dice'[loser] = dice[loser] - 1
         /\ loser \in Seats /\ dice[loser] = 0 => dice'[loser] = 0
         /\ \/ blob'.out = blob.out
               /\ ~(loser \in Seats /\ dice'[loser] = 0 /\ loser \notin Gone)
            \/ /\ blob'.out = Append(blob.out, loser)
               /\ loser \in Seats /\ dice'[loser] = 0 /\ loser \notin Gone
<1> DEFINE alive == {s \in Seats : DiceLeft(loser)[s] > 0}
<1>1. dice' \in [Seats -> 0 .. DicePerPlayer] /\ dice' = DiceLeft(loser)
  BY MatchAssumption DEF Showdown, DiceLeft, TypeOK
<1>2. /\ \A s \in Seats \ {loser} : dice'[s] = dice[s]
      /\ loser \in Seats /\ dice[loser] > 0 => dice'[loser] = dice[loser] - 1
      /\ loser \in Seats /\ dice[loser] = 0 => dice'[loser] = 0
  BY <1>1, MatchAssumption DEF DiceLeft, TypeOK
<1>3. blob' = [blob EXCEPT
          !.bid = NoBid, !.pending = FALSE, !.challenger = NoSeat, !.active = NoSeat,
          !.nextLeader = IF loser \in alive \cup {NoSeat} THEN loser
                         ELSE NextAliveSeat(alive, loser),
          !.settled = round,
          !.out = IF loser \in Seats \ (alive \cup Gone) THEN Append(@, loser) ELSE @]
  BY DEF Showdown
<1>4. NextAliveSeat(alive, loser) \in Seats \cup {NoSeat}
  <2>1. alive \subseteq Seats
    OBVIOUS
  <2> HIDE DEF alive
  <2> QED BY <2>1, NextAliveSeatIsAlive
<1>5. \A s \in Seats : s \in alive <=> dice'[s] # 0
  BY <1>1, MatchAssumption
<1> HIDE DEF alive
<1>6. NoBid \in Moves /\ blob \in Document /\ round \in 0 .. MaxRounds
  BY SeatsFacts DEF Moves, TypeOK
<1>7. blob' \in Document /\ blob'.settled = round
  <2> DEFINE lead == IF loser \in alive \cup {NoSeat} THEN loser
                     ELSE NextAliveSeat(alive, loser)
             outs == IF loser \in Seats \ (alive \cup Gone) THEN Append(blob.out, loser)
                     ELSE blob.out
  <2>1. blob' = [blob EXCEPT !.bid = NoBid, !.pending = FALSE, !.challenger = NoSeat,
                   !.active = NoSeat, !.nextLeader = lead, !.settled = round, !.out = outs]
    BY <1>3, <1>6 DEF Document
  <2>2. lead \in Seats \cup {NoSeat}
    BY <1>4
  <2>3. outs \in Seq(Seats)
    BY <1>6 DEF Document
  <2> HIDE DEF lead, outs
  <2> QED BY <1>6, <2>1, <2>2, <2>3 DEF Document
<1>8. blob'.out = IF loser \in Seats \ (alive \cup Gone) THEN Append(blob.out, loser) ELSE blob.out
  BY <1>3, <1>6 DEF Document
<1> QED
  BY <1>1, <1>2, <1>5, <1>7, <1>8

LEMMA FreeTurn ==
  ASSUME TypeOK, Free # {}
  PROVE  (CHOOSE t \in Free : \A u \in Free : t <= u) \in Turns
<1>1. Free \subseteq Turns /\ Turns \subseteq Nat
  BY DEF Free, Turns
<1>2. \E t \in Free : \A u \in Free : t <= u
  <2>1. Free \subseteq Nat
    BY <1>1
  <2> HIDE DEF Free
  <2> QED BY <2>1, LeastNumber
<1> QED
  BY <1>1, <1>2

LEMMA MovesFacts ==
  ASSUME TypeOK
  PROVE  /\ BotMoves \subseteq Moves /\ DefaultMove \in Moves
         /\ Offers(TotalDice) \subseteq Bid
<1>1. blob.bid \in Bid \cup {NoBid}
  BY SeatsFacts DEF TypeOK, Document, Moves
<1>2. Offers(TotalDice) \subseteq Bid
  BY TotalDiceType DEF Offers, Bid, Faces
<1>3. LegalRaises(blob.bid, TotalDice) \subseteq Bid
  BY <1>1, TotalDiceType, RaisesAreBids
<1>4. DefaultMove \in Moves
  BY <1>1, TotalDiceType, MinLegalRaiseType, SeatsFacts DEF DefaultMove, Moves
<1> QED
  BY <1>2, <1>3, <1>4 DEF BotMoves, Moves

LEMMA InitType == Init => TypeOK
<1> SUFFICES ASSUME Init PROVE TypeOK
  OBVIOUS
<1>1. blob \in Document
  BY MatchAssumption, SeatsFacts DEF Init, Document, Moves
<1>2. turns \in [Turns -> TurnRow]
  BY DEF Init, TurnRow, Blank, NoAnswers, Answers
<1>3. requests \in [Requests -> {Unused, Over} \cup InFlight]
  BY DEF Init
<1>4. dice \in [Seats -> 0 .. DicePerPlayer] /\ round \in 0 .. MaxRounds
      /\ crashes \in 0 .. MaxCrashes
  BY MatchAssumption DEF Init
<1> QED
  BY <1>1, <1>2, <1>3, <1>4, SeatsFacts DEF Init, TypeOK, DriverPlaces, Moves

LEMMA ClosedType ==
  ASSUME NEW row \in TurnRow, NEW held \in BOOLEAN
  PROVE  Closed(row, held) \in TurnRow
BY DEF Closed, Blank, NoAnswers, Answers, TurnRow

LEMMA ForgetType == ForgetLocals =>
  actor' \in Seats \cup {NoSeat} /\ turn' \in Turns \cup {NoTurn} /\ move' \in Moves
BY SeatsFacts DEF ForgetLocals, Moves

LEMMA DriverStepType == TypeOK /\ DriverStep => TypeOK'
<1> SUFFICES ASSUME TypeOK, DriverStep PROVE TypeOK'
  OBVIOUS
<1> USE DEF matchVars, locals
<1>1. CASE Boot
  <2>1. CASE round = 0 /\ Deal(1)
    BY <1>1, <2>1, DealType DEF Boot, TypeOK, DriverPlaces
  <2>2. CASE round # 0 /\ UNCHANGED <<round, dice, blob>>
    BY <1>1, <2>2 DEF Boot, TypeOK, DriverPlaces
  <2> QED BY <1>1, <2>1, <2>2 DEF Boot
<1>2. CASE FindActor
  <2>1. blob.active \in Seats \cup {NoSeat}
    BY DEF TypeOK, Document
  <2>2. NextActor \in Seats \cup {NoSeat}
    BY <2>1, AliveFacts, NextAliveSeatIsAlive DEF NextActor
  <2> QED BY <1>2, <2>2 DEF FindActor, TypeOK, DriverPlaces
<1>3. CASE OpenTurn
  <2>1. turn' \in Turns
    BY <1>3, FreeTurn DEF OpenTurn
  <2>2. [Blank EXCEPT !.open = TRUE] \in TurnRow
    BY DEF Blank, NoAnswers, Answers, TurnRow
  <2>3. turns' \in [Turns -> TurnRow]
    BY <1>3, <2>1, <2>2 DEF OpenTurn, TypeOK
  <2> QED BY <1>3, <2>1, <2>3 DEF OpenTurn, TypeOK, DriverPlaces
<1>4. CASE Wait
  BY <1>4 DEF Wait, TypeOK, DriverPlaces
<1>5. CASE Decide
  <2>1. move' \in Moves
    BY <1>5, MovesFacts DEF Decide
  <2> QED BY <1>5, <2>1 DEF Decide, TypeOK, DriverPlaces
<1>6. CASE Record
  <2>1. CASE UNCHANGED <<blob, turns>>
    BY <1>6, <2>1 DEF Record, TypeOK, DriverPlaces
  <2>2. CASE /\ pc' = "resolve"
             /\ blob' = Recorded(actor, move)
             /\ turns' = [turns EXCEPT ![turn].answers[actor] =
                  IF actor \in Bots THEN "genuine" ELSE "defaulted"]
    <3>1. blob' \in Document
      <4>1. CASE actor \in Seats
        BY <2>2, <4>1, RecordedType DEF TypeOK
      <4>2. CASE actor = NoSeat
        <5>1. NextAliveSeat(Alive, NoSeat) \in Seats \cup {NoSeat}
          BY AliveFacts, NextAliveSeatIsAlive
        <5> QED BY <2>2, <4>2, <5>1 DEF TypeOK, Recorded, Document
      <4> QED BY <4>1, <4>2 DEF TypeOK
    <3>2. turns' \in [Turns -> TurnRow]
      BY <2>2 DEF TypeOK, TurnRow, Answers
    <3> QED BY <1>6, <2>2, <3>1, <3>2 DEF Record, TypeOK, DriverPlaces
  <2> QED BY <1>6, <2>1, <2>2 DEF Record
<1>7. CASE Resolve
  <2>1. Held(turn, Requests) \in BOOLEAN
    BY DEF Held
  <2>2. turns' \in [Turns -> TurnRow]
    BY <1>7, <2>1, ClosedType DEF Resolve, TypeOK
  <2> QED BY <1>7, <2>2, ForgetType DEF Resolve, TypeOK, DriverPlaces
<1>8. CASE AwardRound
  <2>1. dice' \in [Seats -> 0 .. DicePerPlayer] /\ blob' \in Document
    <3>1. CASE UNCHANGED <<dice, blob>>
      BY <3>1 DEF TypeOK
    <3>2. CASE \E table \in [DiceInPlay -> Faces] : Showdown(Loser(table))
      BY <3>2, LoserType, ShowdownFacts
    <3> QED BY <1>8, <3>1, <3>2 DEF AwardRound
  <2> QED BY <1>8, <2>1 DEF AwardRound, TypeOK, DriverPlaces
<1>9. CASE NextHand
  <2>1. round + 1 \in Nat \ {0}
    BY MatchAssumption DEF TypeOK
  <2> QED BY <1>9, <2>1, DealType DEF NextHand, TypeOK, DriverPlaces
<1>10. CASE Finalize
  BY <1>10 DEF Finalize, TypeOK, DriverPlaces
<1> QED
  BY <1>1, <1>2, <1>3, <1>4, <1>5, <1>6, <1>7, <1>8, <1>9, <1>10 DEF DriverStep

LEMMA CheckType ==
  ASSUME TypeOK, NEW q \in Requests, NEW s \in Seats \ Bots, NEW t \in Turns,
         NEW m \in Offers(TotalDice) \cup {Challenge}, NEW genuine \in BOOLEAN,
         Check(q, s, t, m, genuine)
  PROVE  TypeOK'
<1>1. m \in Moves
  BY MovesFacts DEF Moves
<1>2. turns[t].answers[s] \in Answers
  BY DEF TypeOK, TurnRow
<1> QED
  BY <1>1, <1>2 DEF Check, TypeOK, InFlight, matchVars, locals

LEMMA SubmitFacts ==
  ASSUME TypeOK, NEW q \in Requests, Submit(q)
  PROVE  /\ TypeOK' /\ UNCHANGED <<matchVars, pc>>
         /\ blob'.out = blob.out /\ blob'.settled = blob.settled
<1> DEFINE r == requests[q]
           row == turns[r.turn]
           fails == r.base = "none" /\ row.answers[r.seat] # "none"
           new == IF fails THEN row ELSE Answered(row, r)
           held == Held(r.turn, Requests \ {q})
<1>1. r \in InFlight
  BY DEF Submit, TypeOK, Unused, Over
<1>2. r.turn \in Turns /\ r.seat \in Seats /\ r.move \in Moves /\ r.genuine \in BOOLEAN
      /\ row \in TurnRow
  BY <1>1 DEF InFlight, TypeOK
<1>3. /\ blob' = IF fails THEN blob ELSE Recorded(r.seat, r.move)
      /\ turns' = [turns EXCEPT ![r.turn] = IF row.open THEN new ELSE Closed(new, held)]
      /\ requests' = [requests EXCEPT ![q] = Over]
      /\ UNCHANGED <<matchVars, pc, locals, crashes>>
  BY DEF Submit
<1>4. Answered(row, r) \in TurnRow
  BY <1>2 DEF Answered, TurnRow, Answers
<1>5. new \in TurnRow /\ held \in BOOLEAN
  BY <1>2, <1>4 DEF Held
<1>6. blob' \in Document /\ blob'.out = blob.out /\ blob'.settled = blob.settled
  BY <1>2, <1>3, RecordedType DEF TypeOK
<1> HIDE DEF new, held, fails
<1>7. Closed(new, held) \in TurnRow
  BY <1>5, ClosedType
<1>8. turns' \in [Turns -> TurnRow]
  BY <1>2, <1>3, <1>5, <1>7 DEF TypeOK
<1>9. requests' \in [Requests -> {Unused, Over} \cup InFlight]
  BY <1>3 DEF TypeOK
<1> QED
  BY <1>3, <1>6, <1>8, <1>9 DEF TypeOK, matchVars, locals

LEMMA TypeStep == TypeOK /\ [Next]_vars => TypeOK'
<1> SUFFICES ASSUME TypeOK, [Next]_vars PROVE TypeOK'
  OBVIOUS
<1>1. CASE DriverStep
  BY <1>1, DriverStepType
<1>2. CASE DriverDies
  BY <1>2, MatchAssumption DEF DriverDies, TypeOK, DriverPlaces, matchVars, locals
<1>3. CASE Restart
  BY <1>3, ForgetType DEF Restart, TypeOK, DriverPlaces, matchVars
<1>4. ASSUME NEW t \in Turns, Tick(t) PROVE TypeOK'
  <2>1. turns' \in [Turns -> TurnRow]
    BY <1>4 DEF Tick, TypeOK, TurnRow
  <2> QED BY <1>4, <2>1 DEF Tick, TypeOK, matchVars, locals
<1>5. ASSUME NEW q \in Requests, Submit(q) PROVE TypeOK'
  BY <1>5, SubmitFacts
<1>6. ASSUME NEW q \in Requests, NEW s \in Seats \ Bots, NEW t \in Turns,
             NEW m \in Offers(TotalDice) \cup {Challenge}, NEW genuine \in BOOLEAN,
             Check(q, s, t, m, genuine)
      PROVE  TypeOK'
  BY <1>6, CheckType
<1>7. CASE UNCHANGED vars
  BY <1>7 DEF TypeOK, vars, matchVars, locals
<1> QED
  BY <1>1, <1>2, <1>3, <1>4, <1>5, <1>6, <1>7 DEF Next

(* The state keeps its type, and every index of the driver its range.      *)
THEOREM TypeCorrect == Spec => []TypeOK
<1> QED BY InitType, TypeStep, PTL DEF Spec

-----------------------------------------------------------------------------
(* The inductive invariant. A seat is out exactly when it has no dice; a   *)
(* hand that has not had its showdown has room in the list of those out    *)
(* and two seats to play it; the match is over when one seat is left.      *)

OneIsLeft == \E s \in Seats : Alive = {s}

BeforeTheDeal ==
  round = 0 => pc \in {"boot", "dead"} /\ blob.out = <<>> /\ blob.settled = 0 /\ winners = {}

OutWithoutDice == round > 0 => Alive # {} /\ Gone = Seats \ Alive

RoomForOne ==
  /\ blob.settled \in {0, round}
  /\ Len(blob.out) <= round
  /\ round > 0 /\ blob.settled # round => Len(blob.out) < round

TwoToPlay ==
  round > 0 /\ (blob.settled # round \/ pc = "deal") => ~OneIsLeft

LastOneWins ==
  /\ pc = "finalize" => round > 0 /\ OneIsLeft
  /\ winners # {} => pc = "done" /\ round > 0 /\ OneIsLeft /\ winners = Alive

IInv ==
  TypeOK /\ BeforeTheDeal /\ OutWithoutDice /\ RoomForOne /\ TwoToPlay /\ LastOneWins

LEMMA InitIInv == Init => IInv
<1> SUFFICES ASSUME Init PROVE IInv
  OBVIOUS
<1> QED
  BY InitType DEF IInv, Init, BeforeTheDeal, OutWithoutDice, RoomForOne, TwoToPlay,
    LastOneWins

(* A step that neither deals nor settles keeps everything.                 *)
LEMMA QuietStep ==
  ASSUME IInv, TypeOK', UNCHANGED <<round, winners, dice>>,
         blob'.out = blob.out, blob'.settled = blob.settled,
         round = 0 => pc' \in {"boot", "dead"},
         pc' = "deal" => pc = "deal",
         pc' = "finalize" => pc = "finalize",
         pc = "done" => pc' = "done"
  PROVE  IInv'
<1>1. Alive' = Alive /\ Gone' = Gone /\ OneIsLeft' = OneIsLeft
  BY DEF Alive, Gone, OneIsLeft
<1>2. BeforeTheDeal' /\ OutWithoutDice'
  BY <1>1 DEF IInv, BeforeTheDeal, OutWithoutDice
<1>3. RoomForOne' /\ TwoToPlay'
  BY <1>1 DEF IInv, RoomForOne, TwoToPlay
<1>4. LastOneWins'
  BY <1>1 DEF IInv, LastOneWins
<1> QED
  BY <1>2, <1>3, <1>4 DEF IInv

(* A deal gives every seat that has dice a full hand again, so that nobody *)
(* comes back and nobody goes out.                                         *)
LEMMA DealKeepsSeats ==
  ASSUME TypeOK, NEW r \in Nat \ {0}, Deal(r)
  PROVE  Alive' = (IF r = 1 THEN Seats ELSE Alive) /\ Gone' = Gone
<1>1. blob'.out = blob.out
  BY DealType
<1> QED
  BY <1>1, MatchAssumption DEF Deal, Alive, Gone, TypeOK

Entries(list) == {list[i] : i \in 1 .. Len(list)}

LEMMA GrowingOut ==
  ASSUME NEW list \in Seq(Seats), NEW s \in Seats
  PROVE  /\ Len(Append(list, s)) = Len(list) + 1
         /\ Entries(Append(list, s)) = Entries(list) \cup {s}
BY DEF Entries

LEMMA BootIInv == IInv /\ Boot => IInv'
<1> SUFFICES ASSUME IInv, Boot PROVE IInv'
  OBVIOUS
<1>0. TypeOK' /\ TypeOK
  BY DriverStepType DEF IInv, DriverStep
<1>1. CASE round # 0 /\ UNCHANGED <<round, dice, blob>>
  BY <1>0, <1>1, QuietStep DEF Boot
<1>2. CASE round = 0 /\ Deal(1)
  <2>1. round' = 1 /\ blob'.out = blob.out /\ blob'.settled = 0
    BY <1>0, <1>2, DealType
  <2>2. Alive' = Seats /\ Gone' = Gone
    BY <1>0, <1>2, DealKeepsSeats
  <2>3. blob.out = <<>> /\ winners' = {} /\ pc' = "next"
    BY <1>2 DEF IInv, BeforeTheDeal, Boot
  <2>4. Gone = {}
    BY <2>3 DEF Gone
  <2>5. 1 \in Seats /\ 2 \in Seats
    BY SeatsFacts DEF Seats
  <2>6. ~OneIsLeft'
    BY <2>2, <2>5 DEF OneIsLeft
  <2> QED BY <1>0, <2>1, <2>2, <2>3, <2>4, <2>5, <2>6
        DEF IInv, BeforeTheDeal, OutWithoutDice, RoomForOne, TwoToPlay, LastOneWins
<1> QED
  BY <1>1, <1>2 DEF Boot

LEMMA NextHandIInv == IInv /\ NextHand => IInv'
<1> SUFFICES ASSUME IInv, NextHand PROVE IInv'
  OBVIOUS
<1>0. TypeOK' /\ TypeOK /\ round \in Nat
  BY DriverStepType, MatchAssumption DEF IInv, DriverStep, TypeOK
<1>1. round # 0 /\ pc = "deal" /\ pc' = "next" /\ winners' = winners /\ Deal(round + 1)
  BY DEF NextHand, IInv, BeforeTheDeal
<1>2. round' = round + 1 /\ blob'.out = blob.out /\ blob'.settled = 0
  BY <1>0, <1>1, DealType
<1>3. Alive' = Alive /\ Gone' = Gone
  BY <1>0, <1>1, DealKeepsSeats
<1>4. ~OneIsLeft /\ ~OneIsLeft'
  BY <1>0, <1>1, <1>3 DEF IInv, TwoToPlay, OneIsLeft
<1>5. winners = {}
  BY <1>1 DEF IInv, LastOneWins
<1>6. Len(blob.out) \in Nat /\ Len(blob.out) <= round
  BY <1>0 DEF IInv, RoomForOne, TypeOK, Document
<1> QED
  BY <1>0, <1>1, <1>2, <1>3, <1>4, <1>5, <1>6
    DEF IInv, BeforeTheDeal, OutWithoutDice, RoomForOne, TwoToPlay, LastOneWins

(* The showdown: what it does to the seats that have dice and the list of  *)
(* those that have none.                                                   *)
LEMMA ShowdownSeats ==
  ASSUME IInv, TypeOK', round > 0, ~OneIsLeft,
         NEW loser \in Seats \cup {NoSeat}, Showdown(loser)
  PROVE  /\ Alive' # {} /\ Gone' = Seats \ Alive'
         /\ \/ blob'.out = blob.out /\ Alive' = Alive
            \/ /\ loser \in Alive /\ blob'.out = Append(blob.out, loser)
               /\ Alive' = Alive \ {loser}
<1>1. /\ TypeOK /\ Gone = Seats \ Alive /\ Alive # {}
      /\ dice \in [Seats -> Nat] /\ dice' \in [Seats -> Nat]
      /\ blob.out \in Seq(Seats)
  <2>1. TypeOK /\ Gone = Seats \ Alive /\ Alive # {}
    BY DEF IInv, OutWithoutDice
  <2>2. dice \in [Seats -> 0 .. DicePerPlayer] /\ dice' \in [Seats -> 0 .. DicePerPlayer]
    BY <2>1 DEF TypeOK
  <2>3. blob.out \in Seq(Seats)
    BY <2>1 DEF TypeOK, Document
  <2> QED BY <2>1, <2>2, <2>3, MatchAssumption
<1>2. /\ \A s \in Seats \ {loser} : dice'[s] = dice[s]
      /\ loser \in Seats /\ dice[loser] > 0 => dice'[loser] = dice[loser] - 1
      /\ loser \in Seats /\ dice[loser] = 0 => dice'[loser] = 0
      /\ \/ blob'.out = blob.out
            /\ ~(loser \in Seats /\ dice'[loser] = 0 /\ loser \notin Gone)
         \/ /\ blob'.out = Append(blob.out, loser)
            /\ loser \in Seats /\ dice'[loser] = 0 /\ loser \notin Gone
  BY <1>1, ShowdownFacts
<1>3. \A s \in Seats : (s \in Alive <=> dice[s] > 0) /\ (s \in Alive' <=> dice'[s] > 0)
  BY DEF Alive
<1>4. CASE /\ blob'.out = blob.out
           /\ ~(loser \in Seats /\ dice'[loser] = 0 /\ loser \notin Gone)
  <2>1. Alive' = Alive
    <3>1. ASSUME NEW s \in Seats
          PROVE  dice'[s] > 0 <=> dice[s] > 0
      <4>1. CASE s # loser
        BY <1>2, <4>1
      <4>2. CASE s = loser
        <5>1. dice'[s] \in Nat /\ dice[s] \in Nat
          BY <1>1
        <5>2. s \in Gone <=> ~(dice[s] > 0)
          BY <1>1, <1>3
        <5> QED BY <1>2, <1>4, <4>2, <5>1, <5>2
      <4> QED BY <4>1, <4>2
    <3> QED BY <1>3, <3>1 DEF Alive
  <2>2. Gone' = Gone
    BY <1>4 DEF Gone
  <2> QED BY <1>1, <1>4, <2>1, <2>2
<1>5. CASE /\ blob'.out = Append(blob.out, loser)
           /\ loser \in Seats /\ dice'[loser] = 0 /\ loser \notin Gone
  <2>1. loser \in Alive
    BY <1>1, <1>5
  <2>2. Alive' = Alive \ {loser}
    <3>1. \A s \in Seats : s \in Alive' <=> s \in Alive /\ s # loser
      BY <1>1, <1>2, <1>3, <1>5, <2>1
    <3> QED BY <3>1 DEF Alive
  <2>3. Gone' = Gone \cup {loser}
    <3>1. Gone = Entries(blob.out) /\ Gone' = Entries(blob'.out)
      BY DEF Gone, Entries
    <3> QED BY <1>1, <1>5, <3>1, GrowingOut
  <2>4. Alive \ {loser} # {}
    BY <1>5, <2>1 DEF OneIsLeft
  <2> QED BY <1>1, <1>5, <2>1, <2>2, <2>3, <2>4, AliveFacts
<1> QED
  BY <1>2, <1>4, <1>5

LEMMA AwardFacts ==
  ASSUME IInv, AwardRound
  PROVE  /\ TypeOK' /\ round > 0 /\ round' = round /\ winners = {} /\ winners' = {}
         /\ pc' = (IF OneIsLeft' THEN "finalize" ELSE "deal")
<1>1. TypeOK' /\ TypeOK /\ round \in Nat
  BY DriverStepType, MatchAssumption DEF IInv, DriverStep, TypeOK
<1>2. pc = "award" /\ round # 0 /\ winners = {}
  BY DEF AwardRound, IInv, BeforeTheDeal, LastOneWins
<1>3. {s \in Seats : dice'[s] > 0} = Alive'
  BY DEF Alive
<1>4. Cardinality(Alive') = 1 <=> OneIsLeft'
  <2>1. IsFiniteSet(Alive') /\ Alive' \subseteq Seats
    BY SeatsFacts, FS_Subset DEF Alive
  <2>2. Cardinality(Alive') = 1 <=> \E x : Alive' = {x}
    BY <2>1, FS_Singleton
  <2> QED BY <2>1, <2>2 DEF OneIsLeft
<1> QED
  BY <1>1, <1>2, <1>3, <1>4 DEF AwardRound

LEMMA AwardIInv == IInv /\ AwardRound => IInv'
<1> SUFFICES ASSUME IInv, AwardRound PROVE IInv'
  OBVIOUS
<1>0. /\ TypeOK' /\ TypeOK /\ round > 0 /\ round' = round /\ winners = {} /\ winners' = {}
      /\ pc' = (IF OneIsLeft' THEN "finalize" ELSE "deal") /\ round \in Nat
  BY AwardFacts, MatchAssumption DEF IInv, TypeOK
<1>1. CASE UNCHANGED <<dice, blob>>
  <2>1. Alive' = Alive /\ Gone' = Gone /\ OneIsLeft' = OneIsLeft
    BY <1>1 DEF Alive, Gone, OneIsLeft
  <2> QED BY <1>0, <1>1, <2>1
        DEF IInv, BeforeTheDeal, OutWithoutDice, RoomForOne, TwoToPlay, LastOneWins
<1>2. CASE ~Settled /\ \E table \in [DiceInPlay -> Faces] : Showdown(Loser(table))
  <2>1. PICK table \in [DiceInPlay -> Faces] : Showdown(Loser(table))
    BY <1>2
  <2> DEFINE loser == Loser(table)
  <2>2. loser \in Seats \cup {NoSeat} /\ Showdown(loser)
    BY <1>0, <2>1, LoserType
  <2> HIDE DEF loser
  <2>3. blob.settled # round
    BY <1>2 DEF Settled
  <2>4. ~OneIsLeft /\ Len(blob.out) \in Nat /\ Len(blob.out) < round /\ blob.out \in Seq(Seats)
    BY <1>0, <2>3 DEF IInv, TwoToPlay, RoomForOne, TypeOK, Document
  <2>5. /\ Alive' # {} /\ Gone' = Seats \ Alive'
        /\ \/ blob'.out = blob.out /\ Alive' = Alive
           \/ /\ loser \in Alive /\ blob'.out = Append(blob.out, loser)
              /\ Alive' = Alive \ {loser}
    BY <1>0, <2>2, <2>4, ShowdownSeats
  <2>6. blob'.settled = round
    BY <1>0, <2>2, ShowdownFacts
  <2>7. Len(blob'.out) <= round
    <3>1. CASE blob'.out = blob.out
      BY <1>0, <2>4, <3>1
    <3>2. CASE loser \in Alive /\ blob'.out = Append(blob.out, loser)
      BY <1>0, <2>4, <3>2, AliveFacts, GrowingOut
    <3> QED BY <2>5, <3>1, <3>2
  <2> QED BY <1>0, <2>5, <2>6, <2>7
        DEF IInv, BeforeTheDeal, OutWithoutDice, RoomForOne, TwoToPlay, LastOneWins
<1> QED
  BY <1>1, <1>2 DEF AwardRound

LEMMA FinalizeFacts ==
  ASSUME IInv, Finalize
  PROVE  /\ round > 0 /\ OneIsLeft /\ winners = {} /\ Gone = Seats \ Alive
         /\ winners' = Alive /\ UNCHANGED <<round, dice, blob>> /\ pc' = "done"
<1>1. /\ pc = "finalize" /\ round > 0 /\ OneIsLeft /\ winners = {} /\ Gone = Seats \ Alive
      /\ TypeOK /\ pc' = "done" /\ UNCHANGED <<round, dice, blob>>
  BY DEF Finalize, IInv, LastOneWins, OutWithoutDice
<1>2. Seats \ Gone = Alive /\ Alive \subseteq Nat
  BY <1>1, AliveFacts, SeatsFacts
<1>3. winners' = {s \in Alive : \A r \in Alive : s <= r}
  BY <1>2 DEF Finalize
<1>4. PICK s \in Seats : Alive = {s}
  BY <1>1 DEF OneIsLeft
<1> QED
  BY <1>1, <1>2, <1>3, <1>4

LEMMA FinalizeIInv == IInv /\ Finalize => IInv'
<1> SUFFICES ASSUME IInv, Finalize PROVE IInv'
  OBVIOUS
<1>1. TypeOK'
  BY DriverStepType DEF IInv, DriverStep
<1>2. /\ round > 0 /\ OneIsLeft /\ winners' = Alive
      /\ UNCHANGED <<round, dice, blob>> /\ pc' = "done"
  BY FinalizeFacts
<1>3. Alive' = Alive /\ Gone' = Gone /\ OneIsLeft' = OneIsLeft
  BY <1>2 DEF Alive, Gone, OneIsLeft
<1> QED
  BY <1>1, <1>2, <1>3
    DEF IInv, BeforeTheDeal, OutWithoutDice, RoomForOne, TwoToPlay, LastOneWins

LEMMA IInvStep == IInv /\ [Next]_vars => IInv'
<1> SUFFICES ASSUME IInv, [Next]_vars PROVE IInv'
  OBVIOUS
<1>0. TypeOK' /\ TypeOK
  BY TypeStep DEF IInv
<1> USE DEF matchVars
<1>1. CASE DriverStep
  <2>1. CASE Boot
    BY <2>1, BootIInv
  <2>2. CASE FindActor
    BY <1>0, <2>2, QuietStep DEF FindActor, IInv, BeforeTheDeal
  <2>3. CASE OpenTurn
    BY <1>0, <2>3, QuietStep DEF OpenTurn, IInv, BeforeTheDeal
  <2>4. CASE Wait
    BY <1>0, <2>4, QuietStep DEF Wait, IInv, BeforeTheDeal
  <2>5. CASE Decide
    BY <1>0, <2>5, QuietStep DEF Decide, IInv, BeforeTheDeal
  <2>6. CASE Record
    <3>1. blob'.out = blob.out /\ blob'.settled = blob.settled
      <4>1. /\ Recorded(actor, move).out = blob.out
            /\ Recorded(actor, move).settled = blob.settled
        BY <1>0 DEF Recorded, TypeOK, Document
      <4>2. blob' = blob \/ blob' = Recorded(actor, move)
        BY <2>6 DEF Record
      <4> QED BY <4>1, <4>2
    <3> QED BY <1>0, <2>6, <3>1, QuietStep DEF Record, IInv, BeforeTheDeal
  <2>7. CASE Resolve
    BY <1>0, <2>7, QuietStep DEF Resolve, IInv, BeforeTheDeal
  <2>8. CASE AwardRound
    BY <2>8, AwardIInv
  <2>9. CASE NextHand
    BY <2>9, NextHandIInv
  <2>10. CASE Finalize
    BY <2>10, FinalizeIInv
  <2> QED BY <1>1, <2>1, <2>2, <2>3, <2>4, <2>5, <2>6, <2>7, <2>8, <2>9, <2>10 DEF DriverStep
<1>2. CASE DriverDies
  BY <1>0, <1>2, QuietStep DEF DriverDies
<1>3. CASE Restart
  BY <1>0, <1>3, QuietStep DEF Restart
<1>4. ASSUME NEW t \in Turns, Tick(t) PROVE IInv'
  BY <1>0, <1>4, QuietStep DEF Tick, IInv, BeforeTheDeal
<1>5. ASSUME NEW q \in Requests, Submit(q) PROVE IInv'
  BY <1>0, <1>5, SubmitFacts, QuietStep DEF IInv, BeforeTheDeal
<1>6. ASSUME NEW q \in Requests, NEW s \in Seats \ Bots, NEW t \in Turns,
             NEW m \in Offers(TotalDice) \cup {Challenge}, NEW genuine \in BOOLEAN,
             Check(q, s, t, m, genuine)
      PROVE  IInv'
  BY <1>0, <1>6, QuietStep DEF Check, IInv, BeforeTheDeal
<1>7. CASE UNCHANGED vars
  BY <1>0, <1>7, QuietStep DEF vars, IInv, BeforeTheDeal
<1> QED
  BY <1>1, <1>2, <1>3, <1>4, <1>5, <1>6, <1>7 DEF Next

LEMMA Invariant == Spec => []IInv
<1> QED BY InitIInv, IInvStep, PTL DEF Spec

(* However often the driver dies and is resumed, and whatever is submitted *)
(* meanwhile, no more seats are out than hands were played.                *)
THEOREM AtMostOneOutPerHand == Spec => []OneOutPerHand
<1>1. IInv => OneOutPerHand
  BY DEF IInv, RoomForOne, OneOutPerHand
<1> QED BY <1>1, Invariant, PTL

(* The seat that is named the winner is the only one with dice.            *)
THEOREM WinnerIsLastStanding == Spec => []WinnerStands
<1>1. IInv => WinnerStands
  BY DEF IInv, LastOneWins, WinnerStands
<1> QED BY <1>1, Invariant, PTL

-----------------------------------------------------------------------------
(* The match as its players are promised it: the mapping of LastStanding.  *)

LEMMA StandingStep ==
  ASSUME IInv, [Next]_vars
  PROVE  [Standing!Next]_(Standing!vars)
<1> USE DEF matchVars
<1>0. TypeOK
  BY DEF IInv
<1>1. Standing!Gone = Gone /\ (Standing!vars)' = <<blob'.out, winners'>>
      /\ Standing!vars = <<blob.out, winners>>
  BY DEF Standing!Gone, Gone, Standing!vars
<1>2. ASSUME blob'.out = blob.out, winners' = winners
      PROVE  UNCHANGED Standing!vars
  BY <1>1, <1>2
<1>3. CASE DriverStep
  <2>1. CASE Boot
    <3>1. CASE UNCHANGED <<round, dice, blob>>
      BY <1>2, <2>1, <3>1 DEF Boot
    <3>2. CASE Deal(1)
      BY <1>0, <1>2, <2>1, <3>2, DealType DEF Boot
    <3> QED BY <2>1, <3>1, <3>2 DEF Boot
  <2>2. CASE FindActor
    BY <1>2, <2>2 DEF FindActor
  <2>3. CASE OpenTurn
    BY <1>2, <2>3 DEF OpenTurn
  <2>4. CASE Wait
    BY <1>2, <2>4 DEF Wait
  <2>5. CASE Decide
    BY <1>2, <2>5 DEF Decide
  <2>6. CASE Record
    <3>1. Recorded(actor, move).out = blob.out
      BY <1>0 DEF Recorded, TypeOK, Document
    <3>2. blob' = blob \/ blob' = Recorded(actor, move)
      BY <2>6 DEF Record
    <3> QED BY <1>2, <2>6, <3>1, <3>2 DEF Record
  <2>7. CASE Resolve
    BY <1>2, <2>7 DEF Resolve
  <2>8. CASE AwardRound
    <3>0. TypeOK' /\ round > 0 /\ winners' = winners
      BY <2>8, AwardFacts
    <3>1. CASE UNCHANGED <<dice, blob>>
      BY <1>2, <3>0, <3>1
    <3>2. CASE ~Settled /\ \E table \in [DiceInPlay -> Faces] : Showdown(Loser(table))
      <4>1. PICK table \in [DiceInPlay -> Faces] : Showdown(Loser(table))
        BY <3>2
      <4> DEFINE loser == Loser(table)
      <4>2. loser \in Seats \cup {NoSeat} /\ Showdown(loser)
        BY <1>0, <4>1, LoserType
      <4> HIDE DEF loser
      <4>3. ~OneIsLeft /\ Gone = Seats \ Alive
        BY <3>0, <3>2 DEF IInv, TwoToPlay, OutWithoutDice, Settled
      <4>4. \/ blob'.out = blob.out
            \/ loser \in Alive /\ blob'.out = Append(blob.out, loser)
        BY <3>0, <4>2, <4>3, ShowdownSeats
      <4>5. CASE blob'.out = blob.out
        BY <1>2, <3>0, <4>5
      <4>6. CASE loser \in Alive /\ blob'.out = Append(blob.out, loser)
        <5>1. Standing!In = Alive /\ loser \in Seats
          BY <1>0, <1>1, <4>3, <4>6, AliveFacts DEF Standing!In
        <5>2. Standing!GoesOut(loser)
          BY <3>0, <4>3, <4>6, <5>1 DEF Standing!GoesOut, OneIsLeft
        <5> QED BY <5>1, <5>2 DEF Standing!Next
      <4> QED BY <4>4, <4>5, <4>6
    <3> QED BY <2>8, <3>1, <3>2 DEF AwardRound
  <2>9. CASE NextHand
    <3>1. round + 1 \in Nat \ {0}
      BY <1>0, MatchAssumption DEF TypeOK
    <3> QED BY <1>0, <1>2, <2>9, <3>1, DealType DEF NextHand
  <2>10. CASE Finalize
    <3>1. /\ OneIsLeft /\ winners = {} /\ Gone = Seats \ Alive
          /\ winners' = Alive /\ blob' = blob
      BY <2>10, FinalizeFacts
    <3>2. PICK s \in Seats : Alive = {s}
      BY <3>1 DEF OneIsLeft
    <3>3. Standing!In = {s}
      BY <1>0, <1>1, <3>1, <3>2, AliveFacts DEF Standing!In
    <3>4. Standing!Wins(s)
      BY <3>1, <3>2, <3>3 DEF Standing!Wins
    <3> QED BY <3>4 DEF Standing!Next
  <2> QED BY <1>3, <2>1, <2>2, <2>3, <2>4, <2>5, <2>6, <2>7, <2>8, <2>9, <2>10 DEF DriverStep
<1>4. CASE DriverDies
  BY <1>2, <1>4 DEF DriverDies
<1>5. CASE Restart
  BY <1>2, <1>5 DEF Restart
<1>6. ASSUME NEW t \in Turns, Tick(t) PROVE UNCHANGED Standing!vars
  BY <1>2, <1>6 DEF Tick
<1>7. ASSUME NEW q \in Requests, Submit(q) PROVE UNCHANGED Standing!vars
  BY <1>0, <1>2, <1>7, SubmitFacts
<1>8. ASSUME NEW q \in Requests, NEW s \in Seats \ Bots, NEW t \in Turns,
             NEW m \in Offers(TotalDice) \cup {Challenge}, NEW genuine \in BOOLEAN,
             Check(q, s, t, m, genuine)
      PROVE  UNCHANGED Standing!vars
  BY <1>2, <1>8 DEF Check
<1>9. CASE UNCHANGED vars
  BY <1>2, <1>9 DEF vars
<1> QED
  BY <1>3, <1>4, <1>5, <1>6, <1>7, <1>8, <1>9 DEF Next

(* Seats go out one at a time, nobody comes back, and the match ends with  *)
(* the one seat that is left: every match keeps the promise.               *)
THEOREM KeepsThePromise == Spec => StandingSpec
<1>1. Init => Standing!Init
  BY DEF Init, Standing!Init
<1>2. IInv /\ [Next]_vars => [Standing!Next]_(Standing!vars)
  BY StandingStep
<1> QED
  BY <1>1, <1>2, Invariant, PTL DEF Spec, StandingSpec, Standing!Spec
=============================================================================
