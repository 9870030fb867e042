-------------------------- MODULE FinishOrderProofs --------------------------
(***************************************************************************)
(* Theorems about FinishOrder for every match of at most 20 seats and 20   *)
(* rounds, which is all create_match admits, whatever the rounds end with. *)
(***************************************************************************)
EXTENDS FinishOrder, FiniteSetTheorems, WellFoundedInduction, TLAPS

-----------------------------------------------------------------------------
(* Induction, with the set of the instances for the formula: the library's *)
(* theorems take an operator, which the provers cannot instantiate.        *)

LEMMA LeastNumber ==
  ASSUME NEW S, S \subseteq Nat, S # {}
  PROVE  \E m \in S : \A n \in S : m <= n
<1> DEFINE Less == {ss \in Nat \X Nat : ss[1] < ss[2]}
<1>1. IsWellFoundedOn(Less, Nat)
  BY NatLessThanWellFounded, Zenon DEF OpToRel
<1>2. PICK m \in S : \A n \in S : ~(<<n, m>> \in Less)
  <2> HIDE DEF Less
  <2> QED BY <1>1, WFMin
<1>3. \A n \in S : ~(n < m)
  BY <1>2
<1> QED
  BY <1>3

LEMMA NumberInduction ==
  ASSUME NEW G, 0 \in G, \A n \in Nat : n \in G => n + 1 \in G
  PROVE  Nat \subseteq G
<1> SUFFICES ASSUME Nat \ G # {} PROVE FALSE
  OBVIOUS
<1>1. PICK m \in Nat \ G : \A n \in Nat \ G : m <= n
  BY LeastNumber
<1>2. m # 0 /\ m - 1 \in Nat /\ m - 1 \in G
  BY <1>1
<1> QED BY <1>1, <1>2

LEMMA SubsetInduction ==
  ASSUME NEW S, IsFiniteSet(S), NEW G, {} \in G,
         \A s \in SUBSET S : s # {} /\ (\A x \in s : s \ {x} \in G) => s \in G
  PROVE  SUBSET S \subseteq G
<1> SUFFICES ASSUME NEW b \in SUBSET S, b \notin G PROVE FALSE
  OBVIOUS
<1> DEFINE sizes == {n \in Nat : \E s \in SUBSET S : s \notin G /\ Cardinality(s) = n}
<1>1. \A s \in SUBSET S : IsFiniteSet(s) /\ Cardinality(s) \in Nat
  BY FS_Subset, FS_CardinalityType
<1>2. sizes # {} /\ sizes \subseteq Nat
  BY <1>1
<1>3. PICK m \in sizes : \A n \in sizes : m <= n
  <2> HIDE DEF sizes
  <2> QED BY <1>2, LeastNumber
<1>4. PICK s \in SUBSET S : s \notin G /\ Cardinality(s) = m
  BY <1>3
<1>5. ASSUME NEW x \in s PROVE s \ {x} \in G
  <2>1. Cardinality(s \ {x}) = m - 1 /\ s \ {x} \in SUBSET S
    BY <1>1, <1>4, FS_RemoveElement
  <2>2. ~(m <= m - 1)
    BY <1>3
  <2>3. m - 1 \in Nat
    BY <1>1, <2>1
  <2> QED BY <1>3, <2>1, <2>2, <2>3
<1> QED BY <1>4, <1>5

(* A strict order has a maximal element on a finite set.                   *)
LEMMA MaximalElement ==
  ASSUME NEW S, IsFiniteSet(S), S # {}, NEW R,
         \A x \in S : <<x, x>> \notin R,
         \A x, y, z \in S : <<x, y>> \in R /\ <<y, z>> \in R => <<x, z>> \in R
  PROVE  \E x \in S : \A y \in S : <<y, x>> \notin R
<1> DEFINE Top(s) == \E x \in s : \A y \in s : <<y, x>> \notin R
           G == {s \in SUBSET S : s = {} \/ Top(s)}
<1>1. {} \in G
  OBVIOUS
<1>2. ASSUME NEW s \in SUBSET S, s # {}, \A x \in s : s \ {x} \in G PROVE Top(s)
  <2>1. PICK e \in s : TRUE
    BY <1>2
  <2>2. CASE s \ {e} = {}
    BY <2>1, <2>2
  <2>3. CASE s \ {e} # {}
    <3>1. PICK x \in s \ {e} : \A y \in s \ {e} : <<y, x>> \notin R
      BY <1>2, <2>1, <2>3
    <3>2. CASE <<e, x>> \notin R
      BY <3>1, <3>2
    <3>3. CASE <<e, x>> \in R
      BY <2>1, <3>1, <3>3
    <3> QED BY <3>2, <3>3
  <2> QED BY <2>2, <2>3
<1>3. \A s \in SUBSET S : s # {} /\ (\A x \in s : s \ {x} \in G) => s \in G
  BY <1>2
<1>4. SUBSET S \subseteq G
  <2> HIDE DEF G
  <2> QED BY <1>1, <1>3, SubsetInduction
<1> QED BY <1>4

-----------------------------------------------------------------------------
(* SumFunction.                                                            *)

Pick(s) == CHOOSE x \in s : TRUE
SumBody(f, iter, s) == IF s = {} THEN 0 ELSE f[Pick(s)] + iter[s \ {Pick(s)}]
IsSum(f, iter) == iter = [s \in SUBSET DOMAIN f |-> SumBody(f, iter, s)]

LEMMA PickIn == \A s : s # {} => Pick(s) \in s
  BY DEF Pick

(* The recursive definition has a solution: by induction on the size of    *)
(* the sets for which it is right.                                         *)
LEMMA SumExists ==
  ASSUME NEW f, IsFiniteSet(DOMAIN f)
  PROVE  \E iter : IsSum(f, iter)
<1> DEFINE S == DOMAIN f
           Right(iter, n) == /\ iter = [s \in SUBSET S |-> iter[s]]
                             /\ \A s \in SUBSET S : Cardinality(s) <= n =>
                                  iter[s] = SumBody(f, iter, s)
           G == {n \in Nat : \E iter : Right(iter, n)}
<1>0. \A s \in SUBSET S : IsFiniteSet(s) /\ Cardinality(s) \in Nat
  BY FS_Subset, FS_CardinalityType
<1>1. 0 \in G
  <2> DEFINE zero == [s \in SUBSET S |-> 0]
  <2>1. \A s \in SUBSET S : Cardinality(s) <= 0 => s = {}
    BY <1>0, FS_EmptySet
  <2>2. Right(zero, 0)
    BY <2>1 DEF SumBody
  <2> QED BY <2>2
<1>2. ASSUME NEW n \in Nat, n \in G PROVE n + 1 \in G
  <2>1. PICK old : Right(old, n)
    BY <1>2
  <2> DEFINE new == [s \in SUBSET S |-> IF Cardinality(s) <= n THEN old[s]
                                         ELSE SumBody(f, old, s)]
  <2>2. ASSUME NEW s \in SUBSET S, Cardinality(s) <= n + 1
        PROVE  new[s] = SumBody(f, new, s)
    <3>1. CASE s = {}
      <4>1. Cardinality(s) <= n
        BY <3>1, FS_EmptySet
      <4> QED BY <2>1, <3>1, <4>1 DEF SumBody
    <3>2. CASE s # {}
      <4> DEFINE t == s \ {Pick(s)}
      <4>1. t \in SUBSET S /\ Cardinality(t) = Cardinality(s) - 1
        BY <1>0, <3>2, PickIn, FS_RemoveElement
      <4>2. Cardinality(t) <= n
        BY <1>0, <2>2, <4>1
      <4>3. new[t] = old[t]
        BY <4>1, <4>2
      <4>4. SumBody(f, new, s) = SumBody(f, old, s)
        BY <3>2, <4>3 DEF SumBody
      <4>5. new[s] = SumBody(f, old, s)
        BY <2>1
      <4> QED BY <4>4, <4>5
    <3> QED BY <3>1, <3>2
  <2>3. new = [s \in SUBSET S |-> new[s]]
    OBVIOUS
  <2>4. Right(new, n + 1)
    <3> HIDE DEF new
    <3> QED BY <2>2, <2>3
  <2> HIDE DEF Right, new
  <2> QED BY <2>4
<1>3. Cardinality(S) \in G
  <2> HIDE DEF G
  <2> QED BY <1>0, <1>1, <1>2, NumberInduction
<1>4. PICK iter : Right(iter, Cardinality(S))
  BY <1>3
<1>5. \A s \in SUBSET S : Cardinality(s) <= Cardinality(S)
  BY FS_Subset
<1>6. \A s \in SUBSET S : iter[s] = SumBody(f, iter, s)
  BY <1>4, <1>5
<1>7. iter = [s \in SUBSET S |-> iter[s]]
  BY <1>4
<1>8. [s \in SUBSET S |-> iter[s]] = [s \in SUBSET S |-> SumBody(f, iter, s)]
  BY <1>6
<1> QED BY <1>7, <1>8 DEF IsSum

Iter(f) == CHOOSE iter : IsSum(f, iter)

LEMMA IterIsSum ==
  ASSUME NEW f, IsFiniteSet(DOMAIN f)
  PROVE  IsSum(f, Iter(f))
  BY SumExists DEF Iter

LEMMA SumFunctionIter ==
  ASSUME NEW f PROVE SumFunction(f) = Iter(f)[DOMAIN f]
  BY DEF SumFunction, SumFunctionOnSet, FoldFunctionOnSet, MapThenFoldSet, Iter, IsSum,
         SumBody, Pick

LEMMA IterInt ==
  ASSUME NEW f, IsFiniteSet(DOMAIN f), NEW T \in {Int, Nat, {0}}, \A x \in DOMAIN f : f[x] \in T
  PROVE  /\ Iter(f)[{}] = 0
         /\ \A s \in SUBSET DOMAIN f :
              /\ Iter(f)[s] \in T
              /\ Iter(f)[s] = SumBody(f, Iter(f), s)
<1> DEFINE S == DOMAIN f
           iter == Iter(f)
           G == {s \in SUBSET S : iter[s] \in T}
<1>1. \A s \in SUBSET S : iter[s] = SumBody(f, iter, s)
  BY IterIsSum DEF IsSum
<1> HIDE DEF iter
<1>2. iter[{}] = 0
  BY <1>1 DEF SumBody
<1>3. {} \in G
  BY <1>2
<1>4. ASSUME NEW s \in SUBSET S, s # {}, \A x \in s : s \ {x} \in G PROVE s \in G
  <2>1. Pick(s) \in s
    BY <1>4, PickIn
  <2>2. iter[s] = f[Pick(s)] + iter[s \ {Pick(s)}]
    BY <1>1, <1>4 DEF SumBody
  <2>3. f[Pick(s)] \in T /\ iter[s \ {Pick(s)}] \in T
    BY <1>4, <2>1
  <2>4. iter[s] \in T
    BY <2>2, <2>3
  <2> QED BY <2>4
<1>5. \A s \in SUBSET S : s # {} /\ (\A x \in s : s \ {x} \in G) => s \in G
  BY <1>4
<1>6. SUBSET S \subseteq G
  <2> HIDE DEF G, S
  <2>1. IsFiniteSet(S)
    BY DEF S
  <2> QED BY <1>3, <1>5, <2>1, SubsetInduction
<1> QED BY <1>1, <1>2, <1>6 DEF iter

(* The order in which the elements are taken does not matter.              *)
LEMMA IterAny ==
  ASSUME NEW f, IsFiniteSet(DOMAIN f), \A x \in DOMAIN f : f[x] \in Int
  PROVE  \A s \in SUBSET DOMAIN f : \A x \in s : Iter(f)[s] = f[x] + Iter(f)[s \ {x}]
<1> DEFINE S == DOMAIN f
           iter == Iter(f)
           G == {s \in SUBSET S : \A x \in s : iter[s] = f[x] + iter[s \ {x}]}
<1>1. /\ \A s \in SUBSET S : iter[s] = SumBody(f, iter, s)
      /\ \A s \in SUBSET S : iter[s] \in Int
  BY IterInt
<1> HIDE DEF iter
<1>3. {} \in G
  OBVIOUS
<1>4. ASSUME NEW s \in SUBSET S, s # {}, \A x \in s : s \ {x} \in G PROVE s \in G
  <2> DEFINE y == Pick(s)
  <2>1. y \in s
    BY <1>4, PickIn
  <2>2. iter[s] = f[y] + iter[s \ {y}]
    BY <1>1, <1>4 DEF SumBody
  <2> HIDE DEF y
  <2>4. ASSUME NEW x \in s PROVE iter[s] = f[x] + iter[s \ {x}]
    <3>1. CASE x = y
      BY <2>2, <3>1
    <3>2. CASE x # y
      <4> DEFINE r == (s \ {y}) \ {x}
      <4>1. r = (s \ {x}) \ {y} /\ r \in SUBSET S
        OBVIOUS
      <4>2. iter[s \ {y}] = f[x] + iter[r]
        BY <1>4, <2>1, <2>4, <3>2
      <4>3. iter[s \ {x}] = f[y] + iter[r]
        BY <1>4, <2>1, <2>4, <3>2, <4>1
      <4>4. f[x] \in Int /\ f[y] \in Int /\ iter[r] \in Int
        BY <1>1, <1>4, <2>1, <2>4, <4>1
      <4> HIDE DEF r
      <4> QED BY <2>2, <4>2, <4>3, <4>4
    <3> QED BY <3>1, <3>2
  <2> QED BY <2>4
<1>5. \A s \in SUBSET S : s # {} /\ (\A x \in s : s \ {x} \in G) => s \in G
  BY <1>4
<1>6. SUBSET S \subseteq G
  <2> HIDE DEF G, S
  <2>1. IsFiniteSet(S)
    BY DEF S
  <2> QED BY <1>3, <1>5, <2>1, SubsetInduction
<1> QED BY <1>6 DEF iter

(* Sums of natural numbers, of functions that agree, and of one element    *)
(* more.                                                                   *)
LEMMA SumNat ==
  ASSUME NEW S, IsFiniteSet(S), NEW f \in [S -> Nat]
  PROVE  SumFunction(f) \in Nat
<1>1. DOMAIN f = S /\ \A x \in DOMAIN f : f[x] \in Nat
  OBVIOUS
<1>2. Iter(f)[S] \in Nat
  BY <1>1, IterInt
<1> QED BY <1>1, <1>2, SumFunctionIter

LEMMA SumZero ==
  ASSUME NEW S, IsFiniteSet(S), NEW f \in [S -> {0}]
  PROVE  SumFunction(f) = 0
<1>1. DOMAIN f = S /\ \A x \in DOMAIN f : f[x] \in {0}
  OBVIOUS
<1>2. Iter(f)[S] \in {0}
  BY <1>1, IterInt
<1> QED BY <1>1, <1>2, SumFunctionIter

LEMMA IterAgree ==
  ASSUME NEW S, IsFiniteSet(S), NEW f \in [S -> Int],
         NEW Z, IsFiniteSet(Z), NEW g \in [Z -> Int],
         S \subseteq Z, \A x \in S : f[x] = g[x]
  PROVE  Iter(f)[S] = Iter(g)[S]
<1> DEFINE G == {s \in SUBSET S : Iter(f)[s] = Iter(g)[s]}
<1>1. /\ \A s \in SUBSET S : Iter(f)[s] = SumBody(f, Iter(f), s)
      /\ \A s \in SUBSET Z : Iter(g)[s] = SumBody(g, Iter(g), s)
      /\ Iter(f)[{}] = 0 /\ Iter(g)[{}] = 0
  <2>1. DOMAIN f = S /\ \A x \in DOMAIN f : f[x] \in Int
    OBVIOUS
  <2>2. DOMAIN g = Z /\ \A x \in DOMAIN g : g[x] \in Int
    OBVIOUS
  <2> QED BY <2>1, <2>2, IterInt
<1>2. {} \in G
  BY <1>1
<1>3. ASSUME NEW s \in SUBSET S, s # {}, \A x \in s : s \ {x} \in G PROVE s \in G
  <2>1. Pick(s) \in s
    BY <1>3, PickIn
  <2>2. Iter(f)[s] = f[Pick(s)] + Iter(f)[s \ {Pick(s)}]
    BY <1>1, <1>3 DEF SumBody
  <2>3. Iter(g)[s] = g[Pick(s)] + Iter(g)[s \ {Pick(s)}]
    BY <1>1, <1>3 DEF SumBody
  <2> QED BY <1>3, <2>1, <2>2, <2>3
<1>4. \A s \in SUBSET S : s # {} /\ (\A x \in s : s \ {x} \in G) => s \in G
  BY <1>3
<1>5. SUBSET S \subseteq G
  <2> HIDE DEF G
  <2> QED BY <1>2, <1>4, SubsetInduction
<1> QED BY <1>5

LEMMA SumInsert ==
  ASSUME NEW S, IsFiniteSet(S), NEW f \in [S -> Int], NEW m, m \notin S,
         NEW g \in [S \cup {m} -> Int], \A x \in S : f[x] = g[x]
  PROVE  SumFunction(g) = SumFunction(f) + g[m]
<1> DEFINE Z == S \cup {m}
<1>1. IsFiniteSet(Z)
  BY FS_AddElement
<1>2. DOMAIN g = Z /\ \A x \in DOMAIN g : g[x] \in Int
  OBVIOUS
<1>3. Iter(g)[Z] = g[m] + Iter(g)[Z \ {m}]
  BY <1>1, <1>2, IterAny
<1>4. Z \ {m} = S
  OBVIOUS
<1>5. Iter(f)[S] = Iter(g)[S]
  BY <1>1, IterAgree
<1>6. Iter(g)[S] \in Int
  BY <1>1, <1>2, IterInt
<1>7. SumFunction(g) = Iter(g)[Z] /\ SumFunction(f) = Iter(f)[S]
  <2>1. DOMAIN f = S
    OBVIOUS
  <2> QED BY <1>2, <2>1, SumFunctionIter
<1>8. g[m] \in Int
  OBVIOUS
<1>9. Iter(g)[Z] = g[m] + Iter(f)[S]
  BY <1>3, <1>4, <1>5
<1> HIDE DEF Z
<1> QED BY <1>5, <1>6, <1>7, <1>8, <1>9

LEMMA SumEmpty == ASSUME NEW f, DOMAIN f = {} PROVE SumFunction(f) = 0
<1>1. Iter(f)[{}] = 0
  BY IterInt, FS_EmptySet
<1> QED BY <1>1, SumFunctionIter

(* The same amount more for some of the elements.                          *)
LEMMA SumMore ==
  ASSUME NEW S, IsFiniteSet(S), NEW f \in [S -> Int], NEW g \in [S -> Int],
         NEW W \in SUBSET S, NEW c \in Int,
         \A x \in S : g[x] = f[x] + (IF x \in W THEN c ELSE 0)
  PROVE  SumFunction(g) = SumFunction(f) + c * Cardinality(W)
<1> DEFINE G == {s \in SUBSET S : Iter(g)[s] = Iter(f)[s] + c * Cardinality(s \cap W)}
<1>0. /\ DOMAIN f = S /\ \A x \in DOMAIN f : f[x] \in Int
      /\ DOMAIN g = S /\ \A x \in DOMAIN g : g[x] \in Int
  OBVIOUS
<1>1. /\ Iter(f)[{}] = 0 /\ Iter(g)[{}] = 0
      /\ \A s \in SUBSET S : Iter(f)[s] \in Int /\ Iter(f)[s] = SumBody(f, Iter(f), s)
      /\ \A s \in SUBSET S : Iter(g)[s] \in Int /\ Iter(g)[s] = SumBody(g, Iter(g), s)
  BY <1>0, IterInt
<1>2. {} \in G
  <2>1. {} \cap W = {} /\ Cardinality({}) = 0
    BY FS_EmptySet
  <2> QED BY <1>1, <2>1
<1>3. ASSUME NEW s \in SUBSET S, s # {}, \A x \in s : s \ {x} \in G PROVE s \in G
  <2> DEFINE y == Pick(s)
             n == Cardinality((s \ {y}) \cap W)
  <2>1. y \in s
    BY <1>3, PickIn
  <2>2. /\ Iter(f)[s] = f[y] + Iter(f)[s \ {y}]
        /\ Iter(g)[s] = g[y] + Iter(g)[s \ {y}]
    BY <1>1, <1>3 DEF SumBody
  <2> HIDE DEF y
  <2>3. Iter(g)[s \ {y}] = Iter(f)[s \ {y}] + c * n
    BY <1>3, <2>1
  <2>4. IsFiniteSet((s \ {y}) \cap W) /\ n \in Nat
    BY FS_Subset, FS_CardinalityType
  <2>5. /\ Iter(f)[s \ {y}] \in Int /\ f[y] \in Int /\ g[y] \in Int
    BY <1>0, <1>1, <2>1
  <2>6. CASE y \in W
    <3>1. s \cap W = ((s \ {y}) \cap W) \cup {y} /\ y \notin (s \ {y}) \cap W
      BY <2>1, <2>6
    <3>2. Cardinality(s \cap W) = n + 1
      BY <2>4, <3>1, FS_AddElement
    <3>3. c * (n + 1) = c * n + c /\ c * n \in Int
      BY <2>4
    <3>4. g[y] = f[y] + c
      BY <2>1, <2>6
    <3> HIDE DEF n
    <3>5. Iter(g)[s] = Iter(f)[s] + c * Cardinality(s \cap W)
      BY <2>2, <2>3, <2>5, <3>2, <3>3, <3>4
    <3> QED BY <3>5
  <2>7. CASE y \notin W
    <3>1. s \cap W = (s \ {y}) \cap W
      BY <2>7
    <3>2. g[y] = f[y]
      BY <2>1, <2>5, <2>7
    <3>3. c * n \in Int
      BY <2>4
    <3>4. Iter(g)[s] = Iter(f)[s] + c * n
      BY <2>2, <2>3, <2>5, <3>2, <3>3
    <3>5. Iter(g)[s] = Iter(f)[s] + c * Cardinality(s \cap W)
      BY <3>1, <3>4
    <3> QED BY <3>5
  <2> QED BY <2>6, <2>7
<1>4. \A s \in SUBSET S : s # {} /\ (\A x \in s : s \ {x} \in G) => s \in G
  BY <1>3
<1>5. SUBSET S \subseteq G
  <2> HIDE DEF G
  <2> QED BY <1>2, <1>4, SubsetInduction
<1>6. S \cap W = W /\ S \in SUBSET S
  OBVIOUS
<1>7. Iter(g)[S] = Iter(f)[S] + c * Cardinality(W)
  BY <1>5, <1>6
<1>8. SumFunction(g) = Iter(g)[S] /\ SumFunction(f) = Iter(f)[S]
  BY <1>0, SumFunctionIter
<1> QED BY <1>7, <1>8

-----------------------------------------------------------------------------
(* Doubles.                                                                *)

Doubles == {x \in Nat \X Nat : x[2] < Base}
Units(x) == x[1] * Base + x[2]

LEMMA BaseValue == Base = 536870912 /\ One = 268435456
  BY DEF Base, One

LEMMA PartsValue == WinParts = 232792560
  BY DEF WinParts

LEMMA ValueTypes == WinParts \in Int /\ One * Base \in Int
  BY BaseValue, PartsValue

Gaps == {1, 2, 4, 8, 16, 32, 64, 128, 256, 512}

LEMMA SpacingValues ==
  ASSUME NEW hi \in Nat
  PROVE  Spacing(hi) \in Gaps
<1> DEFINE Above == {k \in 0 .. 8 : hi \div 2 ^ 24 >= 2 ^ k}
<1>1. PICK first \in Int, last \in Int : first = 0 /\ last = 8
  OBVIOUS
<1>2. Above \subseteq first .. last
  BY <1>1
<1> HIDE DEF Above
<1>3. IsFiniteSet(first .. last) /\ Cardinality(first .. last) = 9
  <2>1. /\ IsFiniteSet(first .. last)
        /\ Cardinality(first .. last) = IF first > last THEN 0 ELSE last - first + 1
    BY FS_Interval
  <2> QED BY <1>1, <2>1
<1>4. Cardinality(Above) \in Nat /\ Cardinality(Above) <= 9
  <2>1. IsFiniteSet(Above) /\ Cardinality(Above) <= Cardinality(first .. last)
    BY <1>2, <1>3, FS_Subset
  <2> QED BY <1>3, <2>1, FS_CardinalityType
<1> DEFINE c == Cardinality(Above)
<1>5. c \in 0 .. 9
  BY <1>4
<1> HIDE DEF c
<1>6. 2 ^ c \in Gaps
  <2>1. CASE c = 0
    BY <2>1 DEF Gaps
  <2>2. CASE c = 1
    BY <2>2 DEF Gaps
  <2>3. CASE c = 2
    BY <2>3 DEF Gaps
  <2>4. CASE c = 3
    BY <2>4 DEF Gaps
  <2>5. CASE c = 4
    BY <2>5 DEF Gaps
  <2>6. CASE c = 5
    BY <2>6 DEF Gaps
  <2>7. CASE c = 6
    BY <2>7 DEF Gaps
  <2>8. CASE c = 7
    BY <2>8 DEF Gaps
  <2>9. CASE c = 8
    BY <2>9 DEF Gaps
  <2>10. CASE c = 9
    BY <2>10 DEF Gaps
  <2> QED BY <1>5, <2>1, <2>2, <2>3, <2>4, <2>5, <2>6, <2>7, <2>8, <2>9, <2>10
<1> QED BY <1>6 DEF Spacing, Above, c

(* A multiple of the spacing next to lo stays within 512 units of it, and  *)
(* below the next hi.                                                      *)
LEMMA NearMultiple ==
  ASSUME NEW gap \in Gaps, NEW lo \in Nat, lo < 536870912,
         NEW new, new = (lo \div gap) * gap \/ new = ((lo \div gap) + 1) * gap
  PROVE  /\ new \in Nat /\ new <= 536870912
         /\ new <= lo + 512 /\ lo <= new + 512
<1>1. CASE gap = 1
  BY <1>1
<1>2. CASE gap = 2
  BY <1>2
<1>3. CASE gap = 4
  BY <1>3
<1>4. CASE gap = 8
  BY <1>4
<1>5. CASE gap = 16
  BY <1>5
<1>6. CASE gap = 32
  BY <1>6
<1>7. CASE gap = 64
  BY <1>7
<1>8. CASE gap = 128
  BY <1>8
<1>9. CASE gap = 256
  BY <1>9
<1>10. CASE gap = 512
  BY <1>10
<1> QED BY <1>1, <1>2, <1>3, <1>4, <1>5, <1>6, <1>7, <1>8, <1>9, <1>10 DEF Gaps

LEMMA RoundedNear ==
  ASSUME NEW hi \in Nat, NEW lo \in Nat, lo < Base, NEW rest \in Nat, NEW n \in Nat
  PROVE  /\ Rounded(hi, lo, rest, n) \in Doubles
         /\ Units(Rounded(hi, lo, rest, n)) <= hi * Base + lo + 512
         /\ Units(Rounded(hi, lo, rest, n)) + 512 >= hi * Base + lo
         /\ Units(Rounded(hi, lo, rest, n)) <= (hi + 1) * Base
         /\ lo = 0 /\ rest = 0 => Rounded(hi, lo, rest, n) = <<hi, 0>>
<1> DEFINE gap == Spacing(hi)
           steps == lo \div gap
           over == 2 * ((lo % gap) * n + rest)
           up == over > gap * n \/ (over = gap * n /\ steps % 2 = 1)
           new == (IF up THEN steps + 1 ELSE steps) * gap
<1>1. Rounded(hi, lo, rest, n) = <<hi + new \div Base, new % Base>>
  BY DEF Rounded
<1>2. gap \in Gaps
  BY SpacingValues
<1>3. new = (lo \div gap) * gap \/ new = ((lo \div gap) + 1) * gap
  OBVIOUS
<1>4. lo = 0 /\ rest = 0 => new = 0
  <2> SUFFICES ASSUME lo = 0, rest = 0 PROVE new = 0
    OBVIOUS
  <2>1. steps = 0 /\ lo % gap = 0
    BY <1>2 DEF Gaps
  <2>2. over = 0
    BY <2>1
  <2>3. ~up
    BY <1>2, <2>1, <2>2 DEF Gaps
  <2> HIDE DEF up, steps
  <2> QED BY <1>2, <2>1, <2>3 DEF Gaps
<1> HIDE DEF gap, new
<1>5. /\ new \in Nat /\ new <= Base
      /\ new <= lo + 512 /\ lo <= new + 512
  <2>1. lo \in Nat /\ lo < 536870912
    BY BaseValue
  <2> QED BY <1>2, <1>3, <2>1, NearMultiple, BaseValue
<1>6. CASE new < Base
  <2>1. new \div Base = 0 /\ new % Base = new
    BY <1>5, <1>6, BaseValue
  <2>2. Rounded(hi, lo, rest, n) = <<hi, new>>
    BY <1>1, <2>1
  <2> QED BY <1>4, <1>5, <1>6, <2>2, BaseValue DEF Doubles, Units
<1>7. CASE new = Base
  <2>1. new \div Base = 1 /\ new % Base = 0
    BY <1>7, BaseValue
  <2>2. Rounded(hi, lo, rest, n) = <<hi + 1, 0>>
    BY <1>1, <2>1
  <2> QED BY <1>4, <1>5, <1>7, <2>2, BaseValue DEF Doubles, Units
<1> QED BY <1>5, <1>6, <1>7, BaseValue

(* The sum of two doubles, and the most it can be.                         *)
LEMMA PlusNear ==
  ASSUME NEW x \in Doubles, NEW y \in Doubles
  PROVE  /\ Plus(x, y) \in Doubles
         /\ Units(Plus(x, y)) <= Units(x) + Units(y) + 512
         /\ Units(Plus(x, y)) + 512 >= Units(x) + Units(y)
         /\ \A limit \in Nat : Units(x) + Units(y) <= limit * Base =>
              Units(Plus(x, y)) <= limit * Base
<1> DEFINE lo == x[2] + y[2]
           hi == x[1] + y[1] + lo \div Base
<1>1. x[1] \in Nat /\ y[1] \in Nat /\ x[2] \in Nat /\ x[2] < Base /\ y[2] \in Nat /\ y[2] < Base
  BY DEF Doubles
<1>2. hi \in Nat /\ (lo % Base) \in Nat /\ (lo % Base) < Base
  BY <1>1, BaseValue
<1>3. hi * Base + (lo % Base) = Units(x) + Units(y)
  BY <1>1, BaseValue DEF Units
<1>4. Plus(x, y) = Rounded(hi, lo % Base, 0, 1)
  BY DEF Plus
<1> DEFINE z == Plus(x, y)
           low == lo % Base
<1>5. /\ z \in Doubles
      /\ Units(z) <= hi * Base + low + 512
      /\ Units(z) + 512 >= hi * Base + low
      /\ Units(z) <= (hi + 1) * Base
      /\ low = 0 => z = <<hi, 0>>
  BY <1>2, <1>4, RoundedNear
<1>6. ASSUME NEW limit \in Nat, Units(x) + Units(y) <= limit * Base
      PROVE  Units(z) <= limit * Base
  <2> HIDE DEF hi, low, z
  <2>1. CASE low = 0
    <3>1. Units(z) = hi * Base
      BY <1>2, <1>5, <2>1, BaseValue DEF Units
    <3> QED BY <1>2, <1>3, <1>6, <2>1, <3>1, BaseValue DEF low
  <2>2. CASE low # 0
    <3>1. hi < limit
      BY <1>2, <1>3, <1>6, <2>2, BaseValue DEF low
    <3> QED BY <1>2, <1>5, <3>1, BaseValue DEF Doubles, Units
  <2> QED BY <2>1, <2>2
<1> QED BY <1>3, <1>5, <1>6

(* A share in units of 2^-57, times the parts of a win, against its exact  *)
(* value.                                                                  *)
Close(n) ==
  /\ Share(n) \in Doubles
  /\ Units(Share(n)) <= One * Base
  /\ WinParts * Units(Share(n)) <= (WinParts \div n) * (One * Base) + WinParts * 513
  /\ WinParts * Units(Share(n)) + WinParts * 513 >= (WinParts \div n) * (One * Base)

LEMMA ShareNear == \A n \in 1 .. 20 : Close(n)
<1>1. ASSUME NEW n \in 1 .. 20,
             NEW hi \in Nat, NEW lo \in Nat, lo < Base, NEW rest \in Nat, NEW part \in Nat,
             hi = One \div n, lo = ((One % n) * Base) \div n,
             rest = ((One % n) * Base) % n, part = WinParts \div n,
             n = 1 => rest = 0 /\ lo = 0, n > 1 => hi + 1 <= One,
             hi <= One,
             WinParts * (hi * Base + lo) <= part * (One * Base),
             WinParts * (hi * Base + lo + 1) >= part * (One * Base)
      PROVE  Close(n)
  <2> DEFINE z == Share(n)
  <2>1. z = Rounded(hi, lo, rest, n)
    BY <1>1 DEF Share
  <2>2. /\ z \in Doubles
        /\ Units(z) <= hi * Base + lo + 512
        /\ Units(z) + 512 >= hi * Base + lo
        /\ Units(z) <= (hi + 1) * Base
        /\ lo = 0 /\ rest = 0 => z = <<hi, 0>>
    <3>1. n \in Nat /\ lo < Base
      BY <1>1
    <3> HIDE DEF z
    <3> QED BY <2>1, <3>1, RoundedNear
  <2>3. Units(z) <= One * Base
    <3>1. CASE n = 1
      <4>1. Units(z) = hi * Base
        BY <1>1, <2>2, <3>1, BaseValue DEF Units
      <4> QED BY <1>1, <4>1, BaseValue
    <3>2. CASE n > 1
      <4>1. (hi + 1) * Base <= One * Base
        BY <1>1, <3>2, BaseValue
      <4> QED BY <2>2, <4>1, BaseValue DEF Doubles, Units
    <3> QED BY <3>1, <3>2
  <2>4. Units(z) \in Int
    BY <2>2, BaseValue DEF Doubles, Units
  <2> HIDE DEF z
  <2>5. /\ WinParts * Units(z) <= part * (One * Base) + WinParts * 513
        /\ WinParts * Units(z) + WinParts * 513 >= part * (One * Base)
    BY <1>1, <2>2, <2>4, BaseValue, PartsValue
  <2> QED BY <1>1, <2>2, <2>3, <2>5 DEF Close, z
<1>2. Close(1)
  BY <1>1, BaseValue, PartsValue
<1>3. Close(2)
  BY <1>1, BaseValue, PartsValue
<1>4. Close(3)
  BY <1>1, BaseValue, PartsValue
<1>5. Close(4)
  BY <1>1, BaseValue, PartsValue
<1>6. Close(5)
  BY <1>1, BaseValue, PartsValue
<1>7. Close(6)
  BY <1>1, BaseValue, PartsValue
<1>8. Close(7)
  BY <1>1, BaseValue, PartsValue
<1>9. Close(8)
  BY <1>1, BaseValue, PartsValue
<1>10. Close(9)
  BY <1>1, BaseValue, PartsValue
<1>11. Close(10)
  BY <1>1, BaseValue, PartsValue
<1>12. Close(11)
  BY <1>1, BaseValue, PartsValue
<1>13. Close(12)
  BY <1>1, BaseValue, PartsValue
<1>14. Close(13)
  BY <1>1, BaseValue, PartsValue
<1>15. Close(14)
  BY <1>1, BaseValue, PartsValue
<1>16. Close(15)
  BY <1>1, BaseValue, PartsValue
<1>17. Close(16)
  BY <1>1, BaseValue, PartsValue
<1>18. Close(17)
  BY <1>1, BaseValue, PartsValue
<1>19. Close(18)
  BY <1>1, BaseValue, PartsValue
<1>20. Close(19)
  BY <1>1, BaseValue, PartsValue
<1>21. Close(20)
  BY <1>1, BaseValue, PartsValue
<1> QED BY <1>2, <1>3, <1>4, <1>5, <1>6, <1>7, <1>8, <1>9, <1>10, <1>11,
          <1>12, <1>13, <1>14, <1>15, <1>16, <1>17, <1>18, <1>19, <1>20, <1>21

-----------------------------------------------------------------------------
(* Who wins a round.                                                       *)

LEMMA Table ==
  /\ IsFiniteSet(Players) /\ Players # {} /\ Cardinality(Players) \in 1 .. 20
  /\ TotalRounds \in 1 .. 20 /\ RoundScores \subseteq Nat /\ Tallies \subseteq Nat
  BY PlayersAssumption, RoundsAssumption, RanksAssumption, FS_EmptySet

LEMMA Winners ==
  ASSUME roundScore \in [Players -> Nat]
  PROVE  /\ RoundWinners = {p \in Players : \A q \in Players : roundScore[q] <= roundScore[p]}
         /\ Cardinality(RoundWinners) \in 1 .. 20
<1> DEFINE R == {pair \in Players \X Players : roundScore[pair[1]] > roundScore[pair[2]]}
           scores == {roundScore[q] : q \in Players}
<1>1. PICK top \in Players : \A q \in Players : <<q, top>> \notin R
  <2>1. \A p, q \in Players : <<p, q>> \in R <=> roundScore[p] > roundScore[q]
    OBVIOUS
  <2>2. \A p \in Players : roundScore[p] \in Nat
    OBVIOUS
  <2> HIDE DEF R
  <2>3. \A p \in Players : <<p, p>> \notin R
    BY <2>1, <2>2
  <2>4. \A p, q, r \in Players : <<p, q>> \in R /\ <<q, r>> \in R => <<p, r>> \in R
    BY <2>1, <2>2
  <2>5. IsFiniteSet(Players) /\ Players # {}
    BY Table
  <2>6. \E p \in Players : \A q \in Players : <<q, p>> \notin R
    BY <2>3, <2>4, <2>5, MaximalElement
  <2> QED BY <2>6
<1>2. \A q \in Players : roundScore[q] <= roundScore[top] /\ roundScore[q] \in Nat
  <2>1. \A p \in Players : roundScore[p] \in Nat
    OBVIOUS
  <2>2. ASSUME NEW q \in Players PROVE ~(roundScore[q] > roundScore[top])
    <3>1. <<q, top>> \notin R /\ <<q, top>> \in Players \X Players
      BY <1>1
    <3> QED BY <3>1
  <2> QED BY <2>1, <2>2
<1>3. Max(scores) = roundScore[top]
  <2>1. /\ roundScore[top] \in scores /\ \A n \in scores : roundScore[top] >= n /\ n \in Nat
    BY <1>2
  <2>2. Max(scores) \in scores /\ \A n \in scores : Max(scores) >= n
    <3> HIDE DEF scores
    <3> QED BY <2>1 DEF Max
  <2> HIDE DEF scores
  <2>3. Max(scores) \in Nat /\ roundScore[top] \in Nat
    BY <2>1, <2>2
  <2>4. Max(scores) >= roundScore[top] /\ roundScore[top] >= Max(scores)
    BY <2>1, <2>2
  <2> QED BY <2>3, <2>4
<1>4. RoundWinners = {p \in Players : roundScore[p] = roundScore[top]}
  BY <1>3 DEF RoundWinners
<1>5. RoundWinners = {p \in Players : \A q \in Players : roundScore[q] <= roundScore[p]}
  BY <1>2, <1>4
<1>6. /\ top \in RoundWinners /\ RoundWinners \subseteq Players
  BY <1>4
<1>7. /\ IsFiniteSet(RoundWinners) /\ Cardinality(RoundWinners) <= Cardinality(Players)
      /\ Cardinality(RoundWinners) \in Nat /\ Cardinality(RoundWinners) # 0
  BY <1>6, Table, FS_Subset, FS_CardinalityType, FS_EmptySet
<1> QED BY <1>5, <1>7, Table

(* A share in parts of a win, as trueWins counts it.                       *)
LEMMA Parts ==
  \A n \in 1 .. 20 : /\ (WinParts \div n) \in Nat /\ (WinParts \div n) <= WinParts
                     /\ (WinParts \div n) * n = WinParts
  BY PartsValue

-----------------------------------------------------------------------------
(* The inductive invariant. A seat's wins are as far from their exact      *)
(* value as the roundings so far can have moved them, in units of 2^-57.   *)

WinsNear(w, true, n) ==
  /\ w \in Doubles
  /\ Units(w) <= (n * One) * Base
  /\ true \in Nat /\ true <= WinParts * n
  /\ WinParts * Units(w) <= true * (One * Base) + WinParts * 1025 * n
  /\ WinParts * Units(w) + WinParts * 1025 * n >= true * (One * Base)

WinsInv == \A p \in Players : WinsNear(wins[p], trueWins[p], roundsAwarded)

PlaceInv ==
  /\ pc = "play" => roundsAwarded = round - 1
  /\ pc \in {"next", "done"} => roundsAwarded = round
  /\ pc = "done" => winner = Winner(tally)

(* TypeOK without the bounds that follow from WinsInv.                     *)
Shapes ==
  /\ round \in 1 .. TotalRounds /\ pc \in {"play", "award", "next", "done"}
  /\ roundScore \in [Players -> Nat] /\ total \in [Players -> Nat]
  /\ roundsAwarded \in {round - 1, round}
  /\ DOMAIN wins = Players /\ wins = [p \in Players |-> wins[p]]
  /\ winner \in Players \cup {NoOne}
  /\ tally \in [Players -> Tallies \cup {0}]
  /\ DOMAIN trueWins = Players /\ trueWins = [p \in Players |-> trueWins[p]]

IInv == Shapes /\ WinsInv /\ PlaceInv /\ OneWinPerRound

LEMMA InvTypeOK == IInv => TypeOK
<1> SUFFICES ASSUME IInv PROVE TypeOK
  OBVIOUS
<1>1. roundsAwarded \in 0 .. TotalRounds
  BY Table DEF IInv, Shapes
<1>2. ASSUME NEW p \in Players
      PROVE /\ wins[p] \in (0 .. TotalRounds * One) \X (0 .. Base - 1)
            /\ trueWins[p] \in 0 .. WinParts * TotalRounds
  <2>1. WinsNear(wins[p], trueWins[p], roundsAwarded)
    BY DEF IInv, WinsInv
  <2>2. PICK hi \in Nat, lo \in Nat : wins[p] = <<hi, lo>> /\ lo < Base
    BY <2>1 DEF WinsNear, Doubles
  <2>3. hi * Base + lo <= (roundsAwarded * One) * Base
    BY <2>1, <2>2 DEF WinsNear, Units
  <2>4. hi <= TotalRounds * One
    BY <1>1, <2>2, <2>3, BaseValue, Table
  <2>5. trueWins[p] \in 0 .. WinParts * TotalRounds
    <3>1. trueWins[p] \in Nat /\ trueWins[p] <= WinParts * roundsAwarded
      BY <2>1 DEF WinsNear
    <3>2. /\ WinParts * roundsAwarded <= WinParts * TotalRounds
          /\ WinParts * roundsAwarded \in Int /\ WinParts * TotalRounds \in Int
      BY <1>1, Table, PartsValue
    <3> QED BY <3>1, <3>2
  <2>6. Base \in Nat
    BY BaseValue
  <2> QED BY <2>2, <2>4, <2>5, <2>6, Table
<1>3. /\ wins \in [Players -> (0 .. TotalRounds * One) \X (0 .. Base - 1)]
      /\ trueWins \in [Players -> 0 .. WinParts * TotalRounds]
  BY <1>2 DEF IInv, Shapes
<1> QED BY <1>3 DEF IInv, Shapes, TypeOK

LEMMA InitIInv == Init => IInv
<1> SUFFICES ASSUME Init PROVE IInv
  OBVIOUS
<1>1. Shapes
  BY Table DEF Init, Shapes
<1>2. ASSUME NEW p \in Players PROVE WinsNear(wins[p], trueWins[p], roundsAwarded)
  <2>1. wins[p] = <<0, 0>> /\ trueWins[p] = 0 /\ roundsAwarded = 0
    BY DEF Init
  <2>2. <<0, 0>> \in Doubles /\ Units(<<0, 0>>) = 0
    BY BaseValue DEF Doubles, Units
  <2>3. /\ WinParts * 0 = 0 /\ (0 * One) * Base = 0 /\ 0 * (One * Base) = 0
        /\ WinParts * 1025 * 0 = 0
    BY BaseValue, PartsValue
  <2> QED BY <2>1, <2>2, <2>3 DEF WinsNear
<1>3. OneWinPerRound
  <2>1. trueWins \in [Players -> {0}] /\ roundsAwarded = 0
    BY DEF Init
  <2>2. WinParts * 0 = 0
    BY PartsValue
  <2> QED BY <2>1, <2>2, SumZero, Table DEF OneWinPerRound
<1>4. PlaceInv
  BY DEF Init, PlaceInv
<1> QED BY <1>1, <1>2, <1>3, <1>4 DEF IInv, WinsInv

(* One more round: the winners' sums are rounded, the others' stay.        *)
LEMMA WinnerNear ==
  ASSUME NEW w, NEW true, NEW n \in Nat, WinsNear(w, true, n), NEW k \in 1 .. 20,
         NEW part, part = WinParts \div k
  PROVE  WinsNear(Plus(w, Share(k)), true + part, n + 1)
<1> DEFINE z == Plus(w, Share(k))
           a == Units(w)
           s == Units(Share(k))
           c == Units(z)
<1>1. /\ Share(k) \in Doubles /\ s <= One * Base
      /\ WinParts * s <= part * (One * Base) + WinParts * 513
      /\ WinParts * s + WinParts * 513 >= part * (One * Base)
  BY ShareNear DEF Close
<1>2. /\ w \in Doubles /\ a <= (n * One) * Base /\ true \in Nat /\ true <= WinParts * n
      /\ WinParts * a <= true * (One * Base) + WinParts * 1025 * n
      /\ WinParts * a + WinParts * 1025 * n >= true * (One * Base)
  BY DEF WinsNear
<1>3. /\ z \in Doubles /\ c <= a + s + 512 /\ c + 512 >= a + s
      /\ \A limit \in Nat : a + s <= limit * Base => c <= limit * Base
  BY <1>1, <1>2, PlusNear
<1>4. a \in Int /\ s \in Int /\ c \in Int
  BY <1>1, <1>2, <1>3, BaseValue DEF Doubles, Units
<1>5. part \in Nat /\ part <= WinParts
  BY Parts
<1>6. (n + 1) * One \in Nat
  BY BaseValue
<1> HIDE DEF z, a, s, c
<1>7. a + s <= ((n + 1) * One) * Base
  BY <1>1, <1>2, <1>4, BaseValue
<1>8. c <= ((n + 1) * One) * Base
  BY <1>3, <1>6, <1>7
<1>9. true + part \in Nat /\ true + part <= WinParts * (n + 1)
  BY <1>2, <1>5, PartsValue
<1>10. /\ WinParts * c <= (true + part) * (One * Base) + WinParts * 1025 * (n + 1)
       /\ WinParts * c + WinParts * 1025 * (n + 1) >= (true + part) * (One * Base)
  <2>1. WinParts * c <= WinParts * a + WinParts * s + WinParts * 512
        /\ WinParts * c + WinParts * 512 >= WinParts * a + WinParts * s
    BY <1>3, <1>4, PartsValue
  <2>2. (true + part) * (One * Base) = true * (One * Base) + part * (One * Base)
    BY <1>2, <1>5, BaseValue
  <2> DEFINE A == WinParts * a  B == WinParts * s  C == WinParts * c
             E == true * (One * Base)  F == part * (One * Base)
             U == WinParts * 513  V == WinParts * 512
             S == WinParts * 1025 * n  T == WinParts * 1025 * (n + 1)
  <2>3. /\ A \in Int /\ B \in Int /\ C \in Int /\ E \in Int /\ F \in Int
        /\ U \in Int /\ V \in Int /\ S \in Int /\ T = S + U + V
    <3>1. true \in Int /\ part \in Int
      BY <1>2, <1>5
    <3>2. T = S + U + V
      BY PartsValue
    <3> QED BY <1>4, <3>1, <3>2, ValueTypes
  <2>4. /\ B <= F + U /\ B + U >= F /\ A <= E + S /\ A + S >= E
        /\ C <= A + B + V /\ C + V >= A + B
    BY <1>1, <1>2, <2>1
  <2> HIDE DEF A, B, C, E, F, U, V, S, T
  <2>5. C <= E + F + T /\ C + T >= E + F
    BY <2>3, <2>4
  <2> QED BY <2>2, <2>5 DEF C, E, F, T
<1>11. WinsNear(z, true + part, n + 1)
  BY <1>3, <1>8, <1>9, <1>10 DEF WinsNear, c
<1> QED BY <1>11 DEF z

LEMMA LoserNear ==
  ASSUME NEW w, NEW true, NEW n \in Nat, WinsNear(w, true, n)
  PROVE  WinsNear(w, true, n + 1)
<1> DEFINE a == Units(w)
<1>1. a \in Int
  BY BaseValue DEF WinsNear, Doubles, Units
<1>2. /\ w \in Doubles /\ a <= (n * One) * Base /\ true \in Nat /\ true <= WinParts * n
      /\ WinParts * a <= true * (One * Base) + WinParts * 1025 * n
      /\ WinParts * a + WinParts * 1025 * n >= true * (One * Base)
  BY DEF WinsNear
<1> HIDE DEF a
<1>3. a <= ((n + 1) * One) * Base /\ true <= WinParts * (n + 1)
  BY <1>1, <1>2, BaseValue, PartsValue
<1>4. WinParts * 1025 * (n + 1) >= WinParts * 1025 * n /\ WinParts * 1025 * n \in Int
      /\ WinParts * 1025 * (n + 1) \in Int
  BY PartsValue
<1>5. WinParts * a \in Int /\ true * (One * Base) \in Int
  BY <1>1, <1>2, ValueTypes
<1>6. /\ WinParts * a <= true * (One * Base) + WinParts * 1025 * (n + 1)
      /\ WinParts * a + WinParts * 1025 * (n + 1) >= true * (One * Base)
  BY <1>2, <1>4, <1>5
<1> QED BY <1>2, <1>3, <1>6 DEF WinsNear, a

LEMMA AwardStep == ASSUME IInv, Award PROVE IInv'
<1>0. pc = "award" /\ pc' = "next" /\ UNCHANGED <<round, roundScore, winner, tally>>
  BY DEF Award
<1>1. CASE AlreadyAwarded
  <2>1. UNCHANGED <<roundsAwarded, wins, total, trueWins>>
    BY <1>1 DEF Award
  <2>2. roundsAwarded = round
    BY <1>1, Table DEF IInv, Shapes, AlreadyAwarded
  <2>3. Shapes' /\ WinsInv' /\ OneWinPerRound' /\ PlaceInv'
    BY <1>0, <2>1, <2>2 DEF IInv, Shapes, WinsInv, OneWinPerRound, PlaceInv
  <2> QED BY <2>3 DEF IInv
<1>2. CASE ~AlreadyAwarded
  <2> DEFINE n == Cardinality(RoundWinners)
  <2>1. /\ roundsAwarded' = round
        /\ wins' = [p \in Players |->
             IF p \in RoundWinners THEN Plus(wins[p], Share(n)) ELSE wins[p]]
        /\ trueWins' = [p \in Players |->
             trueWins[p] + IF p \in RoundWinners THEN WinParts \div n ELSE 0]
        /\ total' = [p \in Players |-> total[p] + roundScore[p]]
    BY <1>2 DEF Award
  <2>2. n \in 1 .. 20 /\ RoundWinners \subseteq Players
    BY Winners DEF IInv, Shapes, RoundWinners
  <2>3. roundsAwarded = round - 1 /\ round \in 1 .. TotalRounds /\ roundsAwarded \in Nat
    BY <1>2, Table DEF IInv, Shapes, AlreadyAwarded
  <2> HIDE DEF n
  <2>4. \A p \in Players : WinsNear(wins[p], trueWins[p], roundsAwarded)
    BY DEF IInv, WinsInv
  <2>5. \A p \in Players : trueWins[p] \in Int
    BY <2>3, <2>4 DEF WinsNear
  <2>6. Shapes'
    <3>1. total' \in [Players -> Nat]
      BY <2>1 DEF IInv, Shapes
    <3> QED BY <1>0, <2>1, <2>3, <3>1 DEF IInv, Shapes
  <2>7. ASSUME NEW p \in Players PROVE WinsNear(wins'[p], trueWins'[p], roundsAwarded')
    <3>1. roundsAwarded' = roundsAwarded + 1
      BY <2>1, <2>3
    <3>2. CASE p \in RoundWinners
      <4> DEFINE part == WinParts \div n
      <4>1. wins'[p] = Plus(wins[p], Share(n)) /\ trueWins'[p] = trueWins[p] + part
        BY <2>1, <3>2
      <4>2. WinsNear(wins[p], trueWins[p], roundsAwarded)
        BY <2>4
      <4>3. roundsAwarded \in Nat
        BY <2>3
      <4>4. WinsNear(Plus(wins[p], Share(n)), trueWins[p] + part, roundsAwarded + 1)
        <5>1. n \in 1 .. 20 /\ part = WinParts \div n
          BY <2>2
        <5> HIDE DEF part
        <5> QED BY <4>2, <4>3, <5>1, WinnerNear, Zenon
      <4> HIDE DEF part
      <4> QED BY <3>1, <4>1, <4>4
    <3>3. CASE p \notin RoundWinners
      <4>1. wins'[p] = wins[p] /\ trueWins'[p] = trueWins[p]
        BY <2>1, <2>5, <3>3
      <4> QED BY <2>3, <2>4, <3>1, <4>1, LoserNear
    <3> QED BY <3>2, <3>3
  <2>8. OneWinPerRound'
    <3> DEFINE part == WinParts \div n
    <3>1. part \in Int /\ part * n = WinParts
      BY <2>2, Parts, ValueTypes
    <3>2. trueWins \in [Players -> Int]
      BY <2>5 DEF IInv, Shapes
    <3>3. /\ \A p \in Players :
                trueWins'[p] = trueWins[p] + (IF p \in RoundWinners THEN part ELSE 0)
          /\ DOMAIN trueWins' = Players /\ trueWins' = [p \in Players |-> trueWins'[p]]
      BY <2>1
    <3> HIDE DEF part
    <3>4. trueWins' \in [Players -> Int]
      BY <2>5, <3>1, <3>3
    <3>5. SumFunction(trueWins') = SumFunction(trueWins) + part * n
      BY <2>2, <3>1, <3>2, <3>3, <3>4, SumMore, Table DEF n
    <3>6. SumFunction(trueWins) = WinParts * roundsAwarded
      BY DEF IInv, OneWinPerRound
    <3>7. SumFunction(trueWins') = WinParts * roundsAwarded'
      <4>1. WinParts * round = WinParts * roundsAwarded + WinParts
        BY <2>3, Table, PartsValue
      <4> QED BY <2>1, <3>1, <3>5, <3>6, <4>1
    <3> QED BY <3>7 DEF OneWinPerRound
  <2>9. PlaceInv'
    BY <1>0, <2>1 DEF PlaceInv
  <2> QED BY <2>6, <2>7, <2>8, <2>9 DEF IInv, WinsInv
<1> QED BY <1>1, <1>2

LEMMA WinnerType == \A t : Winner(t) \in Players \cup {NoOne}
<1> SUFFICES ASSUME NEW t, Cardinality(TopGroup(t)) = 1
             PROVE (CHOOSE p \in TopGroup(t) : TRUE) \in Players
  BY DEF Winner
<1>1. TopGroup(t) # {} /\ TopGroup(t) \subseteq Players
  BY FS_EmptySet DEF TopGroup
<1> QED BY <1>1

LEMMA NextIInv == IInv /\ [Next]_vars => IInv'
<1> SUFFICES ASSUME IInv, [Next]_vars PROVE IInv'
  OBVIOUS
<1>1. CASE PlayRound
  <2>1. Shapes'
    BY <1>1, Table DEF IInv, Shapes, PlayRound
  <2>2. WinsInv' /\ OneWinPerRound' /\ PlaceInv'
    BY <1>1 DEF IInv, PlayRound, WinsInv, OneWinPerRound, PlaceInv
  <2> QED BY <2>1, <2>2 DEF IInv
<1>2. CASE Award
  BY <1>2, AwardStep
<1>3. CASE NextRound
  <2>1. Shapes'
    BY <1>3, Table DEF IInv, Shapes, NextRound, PlaceInv
  <2>2. WinsInv' /\ OneWinPerRound' /\ PlaceInv'
    BY <1>3, Table DEF IInv, Shapes, NextRound, WinsInv, OneWinPerRound, PlaceInv
  <2> QED BY <2>1, <2>2 DEF IInv
<1>4. CASE Restart
  <2>1. Shapes' /\ WinsInv' /\ OneWinPerRound' /\ PlaceInv'
    BY <1>4 DEF IInv, Shapes, Restart, WinsInv, OneWinPerRound, PlaceInv
  <2> QED BY <2>1 DEF IInv
<1>5. CASE Finalize
  <2>1. winner' = Winner(tally)' /\ winner' \in Players \cup {NoOne}
    <3>1. winner' = Winner(tally')
      BY <1>5 DEF Finalize
    <3>2. UNCHANGED <<wins, total>>
      BY <1>5 DEF Finalize
    <3>3. Winner(tally)' = Winner(tally')
      BY <3>2 DEF Winner, TopGroup, Outplaces
    <3> QED BY <3>1, <3>3, WinnerType
  <2>2. Shapes'
    BY <1>5, <2>1, Table DEF IInv, Shapes, Finalize
  <2>3. WinsInv' /\ OneWinPerRound'
    BY <1>5 DEF IInv, Finalize, WinsInv, OneWinPerRound
  <2>4. PlaceInv'
    BY <1>5, <2>1 DEF IInv, Finalize, PlaceInv
  <2> QED BY <2>2, <2>3, <2>4 DEF IInv
<1>6. CASE UNCHANGED vars
  <2>1. Shapes' /\ WinsInv' /\ OneWinPerRound' /\ PlaceInv'
    BY <1>6 DEF vars, IInv, Shapes, WinsInv, OneWinPerRound, PlaceInv, Winner, TopGroup, Outplaces
  <2> QED BY <2>1 DEF IInv
<1> QED BY <1>1, <1>2, <1>3, <1>4, <1>5, <1>6 DEF Next

THEOREM Invariant == Spec => []IInv
  BY InitIInv, NextIInv, PTL DEF Spec

(* The columns hold what the code can have written: no seat has more wins  *)
(* than rounds were played, and a winner is one of the seats.              *)
THEOREM TypeCorrect == Spec => []TypeOK
  BY Invariant, InvTypeOK, PTL

(* However often the loop dies after an award and awards the round again   *)
(* (award_round_winners), the seats together have one win a round.         *)
THEOREM OneWinEach == Spec => []OneWinPerRound
<1>1. IInv => OneWinPerRound
  BY DEF IInv
<1> QED BY <1>1, Invariant, PTL

-----------------------------------------------------------------------------
(* Floating point keeps the seats in the order of their exact wins: what   *)
(* the roundings can add up to is far below the difference between two     *)
(* different sums of shares, which is one part at least.                   *)

LEMMA MoreUnits ==
  ASSUME NEW x \in Doubles, NEW y \in Doubles, Units(x) > Units(y)
  PROVE  More(x, y)
<1>1. /\ x[1] \in Nat /\ y[1] \in Nat /\ x[2] \in Nat /\ y[2] \in Nat
      /\ x[2] < Base /\ y[2] < Base
  BY DEF Doubles
<1>2. x[1] * Base + x[2] > y[1] * Base + y[2]
  BY DEF Units
<1>3. ~(x[1] < y[1])
  BY <1>1, <1>2, BaseValue
<1>4. x[1] = y[1] => x[2] > y[2]
  BY <1>1, <1>2, BaseValue
<1> QED BY <1>1, <1>3, <1>4 DEF More

LEMMA InvLeader == IInv => LeaderIsAhead
<1> SUFFICES ASSUME IInv, NEW p \in Players, NEW q \in Players, trueWins[p] > trueWins[q]
             PROVE  More(wins[p], wins[q])
  BY DEF LeaderIsAhead
<1> DEFINE n == roundsAwarded
           a == Units(wins[p])
           b == Units(wins[q])
           e == trueWins[p]
           d == trueWins[q]
<1>1. n \in Nat /\ n <= 20
  BY Table DEF IInv, Shapes
<1>2. WinsNear(wins[p], e, n) /\ WinsNear(wins[q], d, n)
  BY DEF IInv, WinsInv
<1>3. /\ wins[p] \in Doubles /\ wins[q] \in Doubles
      /\ e \in Nat /\ d \in Nat /\ e >= d + 1
      /\ WinParts * a + WinParts * 1025 * n >= e * (One * Base)
      /\ WinParts * b <= d * (One * Base) + WinParts * 1025 * n
  BY <1>1, <1>2 DEF WinsNear
<1>4. a \in Int /\ b \in Int
  BY <1>3, BaseValue DEF Doubles, Units
<1> HIDE DEF n, a, b, e, d
<1>5. e * (One * Base) >= d * (One * Base) + One * Base
  BY <1>3, BaseValue
<1>6. a > b
  <2>1. /\ WinParts * 1025 * n <= WinParts * 20500 /\ WinParts * 41000 < One * Base
        /\ WinParts * 20500 + WinParts * 20500 = WinParts * 41000
    BY <1>1, BaseValue, PartsValue
  <2> DEFINE A == WinParts * a  B == WinParts * b
             E == e * (One * Base)  D == d * (One * Base)
             S == WinParts * 1025 * n  H == WinParts * 20500
             F == WinParts * 41000  G == One * Base
  <2>2. /\ A \in Int /\ B \in Int /\ E \in Int /\ D \in Int /\ S \in Int
        /\ H \in Int /\ F \in Int /\ G \in Int
    BY <1>1, <1>3, <1>4, BaseValue, PartsValue
  <2>3. A + S >= E /\ B <= D + S /\ E >= D + G /\ S <= H /\ F < G /\ H + H = F
    BY <1>3, <1>5, <2>1
  <2> HIDE DEF A, B, E, D, S, H, F, G
  <2>4. A > B
    BY <2>2, <2>3
  <2>5. WinParts * a > WinParts * b
    BY <2>4 DEF A, B
  <2> QED BY <1>4, <2>5, PartsValue
<1> QED BY <1>3, <1>6, MoreUnits DEF a, b

(* No rounding of the shares of a win (award_round_winners adds floats)    *)
(* ever puts a seat level with or behind one that has won less.            *)
THEOREM LeaderAhead == Spec => []LeaderIsAhead
  BY Invariant, InvLeader, PTL

-----------------------------------------------------------------------------
(* The winner. The placement chain is a strict order of the seats, so some *)
(* seat is at the top, and two seats at the top are level all along it.    *)

Numbers ==
  /\ \A p \in Players : /\ wins[p] \in Doubles /\ wins[p] = <<wins[p][1], wins[p][2]>>
                        /\ wins[p][1] \in Nat /\ wins[p][2] \in Nat
  /\ \A p \in Players : total[p] \in Nat /\ tally[p] \in Nat /\ trueWins[p] \in Nat

LEMMA InvNumbers == IInv => Numbers
<1> SUFFICES ASSUME IInv PROVE Numbers
  OBVIOUS
<1>1. ASSUME NEW p \in Players
      PROVE /\ wins[p] \in Doubles /\ wins[p] = <<wins[p][1], wins[p][2]>>
            /\ wins[p][1] \in Nat /\ wins[p][2] \in Nat /\ trueWins[p] \in Nat
  <2>1. WinsNear(wins[p], trueWins[p], roundsAwarded)
    BY DEF IInv, WinsInv
  <2>2. wins[p] \in Doubles /\ trueWins[p] \in Nat
    BY <2>1 DEF WinsNear
  <2> QED BY <2>2 DEF Doubles
<1>2. \A p \in Players : total[p] \in Nat /\ tally[p] \in Nat
  BY Table DEF IInv, Shapes
<1> QED BY <1>1, <1>2 DEF Numbers

LEMMA Chain ==
  ASSUME Numbers
  PROVE  /\ \A p \in Players : ~Outplaces(tally, p, p)
         /\ \A p, q, r \in Players :
              Outplaces(tally, p, q) /\ Outplaces(tally, q, r) => Outplaces(tally, p, r)
         /\ \A p, q \in Players :
              \/ Outplaces(tally, p, q) \/ Outplaces(tally, q, p)
              \/ wins[p] = wins[q] /\ total[p] = total[q] /\ tally[p] = tally[q]
<1>1. \A p \in Players : /\ wins[p] = <<wins[p][1], wins[p][2]>>
                         /\ wins[p][1] \in Nat /\ wins[p][2] \in Nat
                         /\ total[p] \in Nat /\ tally[p] \in Nat
  BY DEF Numbers
<1>2. \A p \in Players : ~Outplaces(tally, p, p)
  BY <1>1 DEF Outplaces, More
<1>3. ASSUME NEW p \in Players, NEW q \in Players, NEW r \in Players,
             Outplaces(tally, p, q), Outplaces(tally, q, r)
      PROVE  Outplaces(tally, p, r)
  <2>1. \/ More(wins[p], wins[r])
        \/ wins[p] = wins[r] /\ wins[p] = wins[q]
    BY <1>1, <1>3 DEF Outplaces, More
  <2>2. CASE More(wins[p], wins[r])
    BY <2>2 DEF Outplaces
  <2>3. CASE wins[p] = wins[r] /\ wins[p] = wins[q]
    <3>1. ~More(wins[p], wins[q]) /\ ~More(wins[q], wins[r])
      BY <1>1, <2>3 DEF More
    <3> QED BY <1>1, <1>3, <2>3, <3>1 DEF Outplaces
  <2> QED BY <2>1, <2>2, <2>3
<1>4. ASSUME NEW p \in Players, NEW q \in Players
      PROVE  \/ Outplaces(tally, p, q) \/ Outplaces(tally, q, p)
             \/ wins[p] = wins[q] /\ total[p] = total[q] /\ tally[p] = tally[q]
  <2>1. More(wins[p], wins[q]) \/ More(wins[q], wins[p]) \/ wins[p] = wins[q]
    BY <1>1 DEF More
  <2>2. CASE wins[p] = wins[q]
    BY <1>1, <2>2 DEF Outplaces
  <2> QED BY <2>1, <2>2 DEF Outplaces
<1> QED BY <1>2, <1>3, <1>4

LEMMA SomeTop == ASSUME Numbers PROVE \E p \in TopGroup(tally) : TRUE
<1> DEFINE R == {pair \in Players \X Players : Outplaces(tally, pair[1], pair[2])}
<1>1. \A p, q \in Players : <<p, q>> \in R <=> Outplaces(tally, p, q)
  OBVIOUS
<1>2. IsFiniteSet(Players) /\ Players # {}
  BY Table
<1> HIDE DEF R
<1>3. \A p \in Players : <<p, p>> \notin R
  BY <1>1, Chain
<1>4. \A p, q, r \in Players : <<p, q>> \in R /\ <<q, r>> \in R => <<p, r>> \in R
  BY <1>1, Chain
<1>5. \E p \in Players : \A q \in Players : <<q, p>> \notin R
  BY <1>2, <1>3, <1>4, MaximalElement
<1> QED BY <1>1, <1>5 DEF TopGroup

LEMMA InvSole == IInv => WinnerIsSole
<1> DEFINE Level(p, q) == wins[p] = wins[q] /\ total[p] = total[q] /\ tally[p] = tally[q]
<1> SUFFICES ASSUME IInv, pc = "done"
             PROVE \E p \in Players :
                     /\ \A q \in Players : trueWins[p] >= trueWins[q]
                     /\ IF winner = NoOne THEN \E q \in Players \ {p} : Level(p, q)
                        ELSE p = winner /\ \A q \in Players \ {p} : ~Level(p, q)
  BY DEF WinnerIsSole
<1>1. winner = Winner(tally) /\ Numbers
  BY InvNumbers DEF IInv, PlaceInv
<1>2. PICK p \in TopGroup(tally) : TRUE
  BY <1>1, SomeTop
<1>3. ASSUME NEW r \in TopGroup(tally)
      PROVE  r \in Players /\ \A q \in Players : trueWins[r] >= trueWins[q]
  <2>1. r \in Players /\ \A q \in Players : ~Outplaces(tally, q, r)
    BY DEF TopGroup
  <2>2. ASSUME NEW q \in Players PROVE ~(trueWins[q] > trueWins[r])
    <3>1. ~More(wins[q], wins[r])
      BY <2>1 DEF Outplaces
    <3> QED BY <2>1, <3>1, InvLeader DEF LeaderIsAhead
  <2>3. \A q \in Players : trueWins[q] \in Nat
    BY <1>1 DEF Numbers
  <2> QED BY <2>1, <2>2, <2>3
<1>4. \A x, y \in TopGroup(tally) : Level(x, y)
  BY <1>1, Chain DEF TopGroup
<1>5. IsFiniteSet(TopGroup(tally)) /\ TopGroup(tally) \subseteq Players
  <2>1. TopGroup(tally) \subseteq Players
    BY DEF TopGroup
  <2> QED BY <2>1, Table, FS_Subset
<1>6. CASE Cardinality(TopGroup(tally)) = 1
  <2>1. TopGroup(tally) = {p}
    <3>1. PICK x : TopGroup(tally) = {x}
      BY <1>5, <1>6, FS_Singleton
    <3> QED BY <1>2, <3>1
  <2>2. winner = p
    BY <1>1, <1>6, <2>1 DEF Winner
  <2>3. winner # NoOne
    BY <1>2, <1>3, <2>2, SeatsAssumption
  <2>4. ASSUME NEW q \in Players \ {p}, Level(p, q) PROVE FALSE
    <3>1. PICK x \in Players : Outplaces(tally, x, q)
      BY <2>1 DEF TopGroup
    <3>2. Outplaces(tally, x, p)
      BY <2>4, <3>1 DEF Outplaces
    <3> QED BY <1>2, <3>2 DEF TopGroup
  <2> QED BY <1>2, <1>3, <2>2, <2>3, <2>4
<1>7. CASE Cardinality(TopGroup(tally)) # 1
  <2>1. winner = NoOne
    BY <1>1, <1>7 DEF Winner
  <2>2. PICK q \in TopGroup(tally) : q # p
    <3> SUFFICES ASSUME \A q \in TopGroup(tally) : q = p PROVE FALSE
      OBVIOUS
    <3>1. TopGroup(tally) = {p}
      BY <1>2
    <3> QED BY <1>7, <3>1, FS_Singleton
  <2>3. Level(p, q) /\ q \in Players \ {p}
    BY <1>2, <1>4, <1>5, <2>2
  <2> QED BY <1>2, <1>3, <2>1, <2>3
<1> QED BY <1>6, <1>7

(* A recorded winner (finalize_game, finish_order.winner) is alone at its  *)
(* place, and nobody has won more rounds; a match without one has at least *)
(* two seats level at the top.                                             *)
THEOREM SoleWinner == Spec => []WinnerIsSole
  BY Invariant, InvSole, PTL
=============================================================================
