------------------------------- MODULE DudoBids -------------------------------
(***************************************************************************)
(* The rules of Liar's Dice that need no state: which bid raises which,    *)
(* the smallest raise that a missed turn falls back to, what a showdown    *)
(* decides, and who plays next.                                            *)
(*                                                                         *)
(* Seats are their places in the seat order. The dice on the table are     *)
(* counted by the face they show; nothing else about them is looked at.    *)
(***************************************************************************)
EXTENDS Integers, FiniteSets

CONSTANTS
  NumSeats,   \* seats of the match
  MaxFace,    \* faces of a die, 6 in the code; face 1 is the ace
  Wild        \* do aces count as every face?

ASSUME RulesAssumption ==
  /\ NumSeats \in Nat \ {0, 1}
  /\ MaxFace \in Nat \ {0, 1}
  /\ Wild \in BOOLEAN

Seats == 1 .. NumSeats
NoSeat == 0
Faces == 1 .. MaxFace
Bid == [quantity : Nat \ {0}, face : Faces]
NoBid == [quantity |-> 0, face |-> 0]

Ace(bid) == bid.face = 1

-----------------------------------------------------------------------------
(* The ladder.                                                             *)

HigherOf(prev, next) ==
  \/ next.quantity > prev.quantity
  \/ next.quantity = prev.quantity /\ next.face > prev.face

IsLegalRaise(prev, next) ==
  \/ prev = NoBid /\ ~Ace(next)
  \/ prev # NoBid /\ ~Wild /\ HigherOf(prev, next)
  \/ /\ prev # NoBid /\ Wild
     /\ \/ ~Ace(prev) /\ ~Ace(next) /\ HigherOf(prev, next)
        \/ ~Ace(prev) /\ Ace(next) /\ 2 * next.quantity >= prev.quantity
        \/ Ace(prev) /\ ~Ace(next) /\ next.quantity >= 2 * prev.quantity + 1
        \/ Ace(prev) /\ Ace(next) /\ next.quantity > prev.quantity

Offers(total) == [quantity : 1 .. total, face : Faces]
LegalRaises(prev, total) == {b \in Offers(total) : IsLegalRaise(prev, b)}

(* The legal raise that every other one is a raise over.                   *)
Floor(raises) ==
  CHOOSE b \in raises : \A c \in raises : b = c \/ IsLegalRaise(b, c)

NextStep(prev) ==
  IF prev.face < MaxFace
    THEN [quantity |-> prev.quantity, face |-> prev.face + 1]
    ELSE [quantity |-> prev.quantity + 1, face |-> 1]

(* NoBid when the standing bid cannot be raised.                           *)
MinLegalRaise(prev, total) ==
  CASE prev = NoBid -> [quantity |-> 1, face |-> 2]
    [] prev # NoBid /\ ~Wild ->
         IF NextStep(prev).quantity > total THEN NoBid ELSE NextStep(prev)
    [] prev # NoBid /\ Wild ->
         IF LegalRaises(prev, total) = {} THEN NoBid ELSE Floor(LegalRaises(prev, total))

-----------------------------------------------------------------------------
(* The showdown. A table is a function from the dice in play to the faces  *)
(* they show.                                                              *)

Showing(face, table) == Cardinality({d \in DOMAIN table : table[d] = face})

CountFor(face, table) ==
  Showing(face, table) + (IF Wild /\ face # 1 THEN Showing(1, table) ELSE 0)

Holds(bid, table) == CountFor(bid.face, table) >= bid.quantity

(* The next seat with dice after s, round the table; from the first seat   *)
(* when s is NoSeat.                                                       *)
After(s, step) == ((s - 1 + step) % NumSeats) + 1
NextAliveSeat(alive, s) ==
  IF alive = {} THEN NoSeat
  ELSE After(s, CHOOSE d \in Seats :
         /\ After(s, d) \in alive
         /\ \A e \in 1 .. (d - 1) : After(s, e) \notin alive)
=============================================================================
