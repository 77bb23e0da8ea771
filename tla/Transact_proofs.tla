--------------------------- MODULE Transact_proofs ---------------------------
(***************************************************************************)
(* Proofs about a call of the SDK that sends a transaction, for any list   *)
(* of Troves, any call, any fees and whatever happens on the chain         *)
(* meanwhile.                                                              *)
(***************************************************************************)
EXTENDS Transact, TroveAlgebra_proofs, FiniteSetTheorems, SequenceTheorems

-----------------------------------------------------------------------------
(* The list of Troves.  The order of the list is strict and total, so that *)
(* there is exactly one Trove at each place.                               *)

LEMMA RatioType ==
    ASSUME NEW t \in Troves
    PROVE  NominalRatio(t) \in Nat
<1>1. t.collateral \in Nat /\ t.debt \in Nat /\ 100 * DIGITS \in Nat
  BY ScaleAssumption DEF Troves
<1> DEFINE n == t.collateral * (100 * DIGITS)
<1>2. n \in Nat
  BY <1>1, SMT
<1>3. CASE t.debt = 0
  BY <1>3, ScaleAssumption DEF NominalRatio, MulDiv
<1>4. CASE t.debt # 0
  <2>1. NominalRatio(t) = n \div t.debt
    BY <1>4 DEF NominalRatio, MulDiv
  <2> HIDE DEF n
  <2> QED
    BY <1>1, <1>2, <1>4, <2>1, Quotient
<1> QED
  BY <1>3, <1>4

LEMMA ChainFields ==
    ASSUME NEW c, IsChain(c)
    PROVE  /\ c.minute \in Nat /\ c.lastFeeOperation \in Nat /\ c.baseRate \in Nat
           /\ c.price \in Nat /\ c.gain \in Nat /\ c.due \in BOOLEAN
           /\ DOMAIN c = {"minute", "lastFeeOperation", "baseRate", "price", "gain",
                          "troves", "due"}
           /\ IsFiniteSet(Owners(c)) /\ Owners(c) \subseteq Nat \ {0}
           /\ c.troves \in [Owners(c) -> OpenTroves]
  BY DEF IsChain, AddressZero

LEMMA OwnersHave ==
    ASSUME NEW c, IsChain(c), NEW o \in Owners(c)
    PROVE  /\ c.troves[o] \in Troves /\ MINIMUM_DEBT <= c.troves[o].debt
           /\ RatioOf(c, o) \in Nat /\ o \in Nat /\ o # 0
  BY ChainFields, RatioType DEF OpenTroves, RatioOf

LEMMA ListIsOrdered ==
    ASSUME NEW c, IsChain(c), NEW a \in Owners(c), NEW b \in Owners(c)
    PROVE  /\ a \notin InFront(c, a)
           /\ a \in InFront(c, b) \/ b \in InFront(c, a) \/ a = b
           /\ a \in InFront(c, b) => InFront(c, a) \cup {a} \subseteq InFront(c, b)
           /\ InFront(c, a) \subseteq Owners(c)
<1>1. \A x \in Owners(c) : RatioOf(c, x) \in Nat /\ x \in Nat
  BY OwnersHave
<1> QED
  BY <1>1 DEF InFront

\* How many of a set of Troves are in front of one of them: no two Troves have
\* the same number, so every number is taken.
LEMMA Ranks ==
    ASSUME NEW c, IsChain(c), NEW R \in SUBSET Owners(c)
    PROVE  /\ \A a, b \in R : Cardinality(R \cap InFront(c, a))
                                  = Cardinality(R \cap InFront(c, b)) => a = b
           /\ \A i \in 0 .. Cardinality(R) - 1 :
                  \E o \in R : Cardinality(R \cap InFront(c, o)) = i
<1>1. IsFiniteSet(R) /\ Cardinality(R) \in Nat
  BY ChainFields, FS_Subset, FS_CardinalityType
<1> DEFINE rank(o) == Cardinality(R \cap InFront(c, o))
           f == [o \in R |-> rank(o)]
           T == 0 .. Cardinality(R) - 1
<1>2. ASSUME NEW a \in R
      PROVE  /\ IsFiniteSet(R \cap InFront(c, a)) /\ rank(a) \in Nat
             /\ rank(a) < Cardinality(R)
  <2>1. (R \cap InFront(c, a)) \in SUBSET R /\ R \cap InFront(c, a) # R
    BY ListIsOrdered
  <2> QED
    BY <1>1, <2>1, FS_Subset, FS_CardinalityType
<1>3. ASSUME NEW a \in R, NEW b \in R, a \in InFront(c, b)
      PROVE  rank(a) < rank(b)
  <2>1. /\ R \cap InFront(c, a) \in SUBSET (R \cap InFront(c, b))
        /\ a \in R \cap InFront(c, b) /\ a \notin R \cap InFront(c, a)
    BY <1>3, ListIsOrdered
  <2>2. R \cap InFront(c, a) # R \cap InFront(c, b)
    BY <2>1
  <2>3. rank(a) <= rank(b) /\ rank(a) # rank(b)
    BY <1>2, <2>1, <2>2, FS_Subset
  <2>4. rank(a) \in Nat /\ rank(b) \in Nat
    BY <1>2
  <2> HIDE DEF rank
  <2> QED
    BY <2>3, <2>4
<1>4. \A a, b \in R : rank(a) = rank(b) => a = b
  <2> SUFFICES ASSUME NEW a \in R, NEW b \in R, rank(a) = rank(b), a # b PROVE FALSE
    OBVIOUS
  <2>1. a \in InFront(c, b) \/ b \in InFront(c, a)
    BY ListIsOrdered
  <2>2. rank(a) < rank(b) \/ rank(b) < rank(a)
    BY <1>3, <2>1
  <2>3. rank(a) \in Nat /\ rank(b) \in Nat
    BY <1>2
  <2> HIDE DEF rank
  <2> QED
    BY <2>2, <2>3
<1>5. IsFiniteSet(T) /\ Cardinality(T) = Cardinality(R)
  BY <1>1, FS_Interval
<1>6. f \in [R -> T]
  <2>1. \A a \in R : rank(a) \in Nat /\ rank(a) < Cardinality(R)
    BY <1>2
  <2> HIDE DEF rank
  <2> QED
    BY <1>1, <2>1
<1> HIDE DEF rank
<1>7. f \in Injection(R, T)
  BY <1>4, <1>6 DEF Injection, IsInjective
<1>8. f \in Surjection(R, T)
  BY <1>5, <1>7, FS_Injection
<1>9. \A i \in T : \E o \in R : rank(o) = i
  BY <1>8 DEF Surjection
<1> QED
  BY <1>4, <1>9 DEF rank

LEMMA PlaceIs ==
    ASSUME NEW c, IsChain(c), NEW o \in Owners(c)
    PROVE  /\ IsFiniteSet(InFront(c, o)) /\ Cardinality(InFront(c, o)) \in Nat
           /\ Place(c, o) = Cardinality(InFront(c, o)) + 1
           /\ Place(c, o) \in 1 .. Cardinality(Owners(c))
           /\ Cardinality(Owners(c)) \in Nat
<1>1. InFront(c, o) \in SUBSET Owners(c) /\ InFront(c, o) # Owners(c)
  BY ListIsOrdered
<1>2. /\ IsFiniteSet(InFront(c, o)) /\ Cardinality(InFront(c, o)) \in Nat
      /\ Cardinality(InFront(c, o)) <= Cardinality(Owners(c))
      /\ Cardinality(InFront(c, o)) # Cardinality(Owners(c))
      /\ Cardinality(Owners(c)) \in Nat
  BY <1>1, ChainFields, FS_Subset, FS_CardinalityType
<1> QED
  BY <1>2 DEF Place

\* The Trove at a place.
LEMMA AtIs ==
    ASSUME NEW c, IsChain(c), NEW i \in Int
    PROVE  IF i \in 1 .. Cardinality(Owners(c))
           THEN At(c, i) \in Owners(c) /\ Place(c, At(c, i)) = i
           ELSE At(c, i) = 0
<1>1. CASE i \in 1 .. Cardinality(Owners(c))
  <2>1. i - 1 \in 0 .. Cardinality(Owners(c)) - 1
    BY <1>1, ChainFields, FS_CardinalityType
  <2>2. Owners(c) \in SUBSET Owners(c)
    OBVIOUS
  <2>3. \E o \in Owners(c) : Cardinality(Owners(c) \cap InFront(c, o)) = i - 1
    BY <2>1, <2>2, Ranks
  <2>4. PICK o \in Owners(c) : Cardinality(Owners(c) \cap InFront(c, o)) = i - 1
    BY <2>3
  <2>5. Owners(c) \cap InFront(c, o) = InFront(c, o)
    BY ListIsOrdered
  <2>6. Place(c, o) = Cardinality(InFront(c, o)) + 1 /\ Cardinality(InFront(c, o)) = i - 1
    BY <2>4, <2>5, PlaceIs
  <2>7. Place(c, o) = i
    BY <2>6
  <2> QED
    BY <1>1, <2>7 DEF At
<1>2. CASE i \notin 1 .. Cardinality(Owners(c))
  BY <1>2 DEF At, AddressZero
<1> QED
  BY <1>1, <1>2

\* A set of Troves from the head of the list on is what is in front of the
\* place behind it.
Heads(c) == {U \in SUBSET Owners(c) : \A o \in U : InFront(c, o) \subseteq U}

LEMMA HeadsOfTheList ==
    ASSUME NEW c, IsChain(c), NEW U \in Heads(c)
    PROVE  /\ IsFiniteSet(U) /\ Cardinality(U) \in 0 .. Cardinality(Owners(c))
           /\ Cardinality(U) = Cardinality(Owners(c)) => U = Owners(c)
           /\ Cardinality(U) = 0 => U = {}
           /\ \A o \in Owners(c) :
                 /\ Place(c, o) = Cardinality(U) =>
                        o \in U /\ U = InFront(c, o) \cup {o}
                 /\ Place(c, o) = Cardinality(U) + 1 =>
                        o \notin U /\ U = InFront(c, o)
<1>1. U \in SUBSET Owners(c) /\ IsFiniteSet(Owners(c))
  BY ChainFields DEF Heads
<1>2. /\ IsFiniteSet(U) /\ Cardinality(U) \in Nat /\ Cardinality(Owners(c)) \in Nat
      /\ Cardinality(U) <= Cardinality(Owners(c))
      /\ Cardinality(U) = Cardinality(Owners(c)) => U = Owners(c)
      /\ Cardinality(U) = 0 => U = {}
  <2>1. /\ IsFiniteSet(U) /\ Cardinality(U) <= Cardinality(Owners(c))
        /\ Cardinality(Owners(c)) = Cardinality(U) => U = Owners(c)
    BY <1>1, FS_Subset
  <2> QED
    BY <1>1, <2>1, FS_CardinalityType, FS_EmptySet
<1>3. ASSUME NEW o \in Owners(c)
      PROVE  /\ Place(c, o) = Cardinality(U) =>
                    o \in U /\ U = InFront(c, o) \cup {o}
             /\ Place(c, o) = Cardinality(U) + 1 =>
                    o \notin U /\ U = InFront(c, o)
  <2> DEFINE F == InFront(c, o)
             G == F \cup {o}
  <2>1. /\ IsFiniteSet(F) /\ Cardinality(F) \in Nat
        /\ Place(c, o) = Cardinality(F) + 1 /\ o \notin F
    BY PlaceIs, ListIsOrdered
  <2>2. IsFiniteSet(G) /\ Cardinality(G) = Cardinality(F) + 1
    BY <2>1, FS_AddElement
  <2>3. CASE o \in U
    <3>1. G \in SUBSET U
      BY <2>3 DEF Heads
    <3>2. Cardinality(G) <= Cardinality(U) /\ (Cardinality(U) = Cardinality(G) => U = G)
      BY <1>2, <3>1, FS_Subset
    <3> QED
      BY <1>2, <2>1, <2>2, <2>3, <3>2
  <2>4. CASE o \notin U
    <3>1. U \in SUBSET F
      <4> SUFFICES ASSUME NEW x \in U PROVE x \in F
        OBVIOUS
      <4>1. x \in Owners(c) /\ x # o /\ o \notin InFront(c, x)
        BY <1>1, <2>4 DEF Heads
      <4> QED
        BY <4>1, ListIsOrdered
    <3>2. Cardinality(U) <= Cardinality(F) /\ (Cardinality(F) = Cardinality(U) => F = U)
      BY <2>1, <3>1, FS_Subset
    <3> QED
      BY <1>2, <2>1, <2>4, <3>2
  <2> QED
    BY <2>3, <2>4
<1> QED
  BY <1>2, <1>3

\* The Troves that a new one of that ratio goes behind.
Higher(c, ratio) == {o \in Owners(c) : RatioOf(c, o) >= ratio}

LEMMA HigherIsAHead ==
    ASSUME NEW c, IsChain(c), NEW ratio \in Nat
    PROVE  /\ Higher(c, ratio) \in Heads(c)
           /\ Above(c, ratio) = Cardinality(Higher(c, ratio))
           /\ \A o \in Owners(c) : InFront(c, o) \in Heads(c)
<1>1. \A o \in Owners(c) : RatioOf(c, o) \in Nat /\ o \in Nat
  BY OwnersHave
<1>2. Higher(c, ratio) \in Heads(c)
  BY <1>1 DEF Higher, Heads, InFront
<1>3. \A o \in Owners(c) : InFront(c, o) \in Heads(c)
  BY ListIsOrdered DEF Heads
<1> QED
  BY <1>2, <1>3 DEF Above, Higher

\* Two addresses that enclose the place behind a head of the list.
IsLast(c, U, a)  == IF U = {} THEN a = 0 ELSE a \in U /\ U = InFront(c, a) \cup {a}
IsFirst(c, U, b) == IF U = Owners(c) THEN b = 0
                    ELSE b \in Owners(c) \ U /\ U = InFront(c, b)

LEMMA Enclosed ==
    ASSUME NEW c, IsChain(c), NEW U \in Heads(c)
    PROVE  /\ IsLast(c, U, At(c, Cardinality(U)))
           /\ IsFirst(c, U, At(c, Cardinality(U) + 1))
<1> DEFINE m == Cardinality(U)
           n == Cardinality(Owners(c))
<1>1. n \in Nat /\ m \in 0 .. n /\ IsFiniteSet(U) /\ (m = n => U = Owners(c)) /\ (m = 0 => U = {})
  BY HeadsOfTheList, ChainFields, FS_CardinalityType
<1>2. U = {} => m = 0
  BY FS_EmptySet
<1>3. U = Owners(c) => m = n
  OBVIOUS
<1>4. IsLast(c, U, At(c, m))
  <2>1. CASE m = 0
    <3>1. At(c, m) = 0
      BY <2>1 DEF At, AddressZero
    <3> QED
      BY <1>1, <2>1, <3>1 DEF IsLast
  <2>2. CASE m # 0
    <3>1. m \in 1 .. n /\ m \in Int
      BY <1>1, <2>2
    <3>2. At(c, m) \in Owners(c) /\ Place(c, At(c, m)) = m
      BY <3>1, AtIs
    <3> QED
      BY <1>2, <2>2, <3>2, HeadsOfTheList DEF IsLast
  <2> QED
    BY <2>1, <2>2
<1>5. IsFirst(c, U, At(c, m + 1))
  <2>1. CASE m = n
    <3>1. m + 1 \notin 1 .. n
      BY <1>1, <2>1
    <3>2. At(c, m + 1) = 0
      BY <3>1 DEF At, AddressZero
    <3> QED
      BY <1>1, <2>1, <3>2 DEF IsFirst
  <2>2. CASE m # n
    <3>1. m + 1 \in 1 .. n /\ m + 1 \in Int
      BY <1>1, <2>2
    <3>2. At(c, m + 1) \in Owners(c) /\ Place(c, At(c, m + 1)) = m + 1
      BY <3>1, AtIs
    <3> QED
      BY <1>3, <2>2, <3>2, HeadsOfTheList DEF IsFirst
  <2> QED
    BY <2>1, <2>2
<1> QED
  BY <1>4, <1>5

\* The two neighbours of a Trove.
LEMMA Neighbours ==
    ASSUME NEW c, IsChain(c), NEW o \in Owners(c)
    PROVE  /\ IsLast(c, InFront(c, o), GetPrev(c, o))
           /\ InFront(c, o) \cup {o} \in Heads(c)
           /\ IsFirst(c, InFront(c, o) \cup {o}, GetNext(c, o))
<1> DEFINE U == InFront(c, o)
           W == U \cup {o}
<1>1. U \in Heads(c)
  BY HigherIsAHead
<1>2. W \in Heads(c)
  BY <1>1 DEF Heads
<1>3. /\ IsFiniteSet(U) /\ Cardinality(U) \in Nat /\ o \notin U
      /\ Place(c, o) = Cardinality(U) + 1
  BY PlaceIs, ListIsOrdered
<1>4. Cardinality(W) = Cardinality(U) + 1
  BY <1>3, FS_AddElement
<1>5. Place(c, o) - 1 = Cardinality(U) /\ Place(c, o) + 1 = Cardinality(W) + 1
  BY <1>3, <1>4
<1>6. GetPrev(c, o) = At(c, Cardinality(U)) /\ GetNext(c, o) = At(c, Cardinality(W) + 1)
  BY <1>5 DEF GetPrev, GetNext
<1> QED
  BY <1>1, <1>2, <1>6, Enclosed

LEMMA WithoutIs ==
    ASSUME NEW c, IsChain(c), NEW x
    PROVE  /\ IsChain(Without(c, x))
           /\ Owners(Without(c, x)) = Owners(c) \ {x}
           /\ \A o \in Owners(c) \ {x} :
                 /\ Without(c, x).troves[o] = c.troves[o]
                 /\ RatioOf(Without(c, x), o) = RatioOf(c, o)
                 /\ InFront(Without(c, x), o) = InFront(c, o) \ {x}
           /\ \A ratio : Higher(Without(c, x), ratio) = Higher(c, ratio) \ {x}
<1> DEFINE d == Without(c, x)
<1>1. d.troves = [o \in Owners(c) \ {x} |-> c.troves[o]]
  BY ChainFields DEF Without, Restrict
<1>2. Owners(d) = Owners(c) \ {x}
  BY <1>1 DEF Owners
<1>3. d.troves \in [Owners(d) -> OpenTroves]
  BY <1>1, <1>2, ChainFields
<1>4. IsFiniteSet(Owners(d)) /\ Owners(d) \subseteq Nat \ {AddressZero}
  BY <1>2, ChainFields, FS_RemoveElement DEF AddressZero
<1>5. d \in [minute : Nat, lastFeeOperation : Nat, baseRate : Nat, price : Nat,
             gain : Nat, troves : {d.troves}, due : BOOLEAN]
  <2>1. c \in [minute : Nat, lastFeeOperation : Nat, baseRate : Nat, price : Nat,
               gain : Nat, troves : {c.troves}, due : BOOLEAN]
    BY DEF IsChain
  <2> QED
    BY <2>1 DEF Without
<1>6. IsChain(d)
  BY <1>3, <1>4, <1>5 DEF IsChain
<1>7. \A o \in Owners(c) \ {x} : /\ d.troves[o] = c.troves[o]
                                 /\ RatioOf(d, o) = RatioOf(c, o)
  BY <1>1 DEF RatioOf
<1> HIDE DEF d
<1>8. \A o \in Owners(c) \ {x} : InFront(d, o) = InFront(c, o) \ {x}
  BY <1>2, <1>7 DEF InFront
<1>9. \A ratio : Higher(d, ratio) = Higher(c, ratio) \ {x}
  BY <1>2, <1>7 DEF Higher
<1> QED
  BY <1>2, <1>6, <1>7, <1>8, <1>9 DEF d

\* Between the two addresses that enclose its place, the contract inserts a
\* Trove without a walk.
LEMMA NoWalk ==
    ASSUME NEW d, IsChain(d), NEW ratio \in Nat, NEW a, NEW b,
           IsLast(d, Higher(d, ratio), a), IsFirst(d, Higher(d, ratio), b)
    PROVE  /\ Hops(d, ratio, <<a, b>>) = 0
           /\ a = 0 /\ b = 0 => Owners(d) = {}
<1> DEFINE U == Higher(d, ratio)
           target == Above(d, ratio)
<1>1. /\ U \in Heads(d) /\ target = Cardinality(U) /\ U \subseteq Owners(d)
  BY HigherIsAHead DEF Higher
<1>2. IsFiniteSet(U) /\ target \in Nat /\ (U = {} => target = 0)
  BY <1>1, HeadsOfTheList, FS_CardinalityType, FS_EmptySet
<1>3. 0 \notin Owners(d) /\ \A o \in Owners(d) : RatioOf(d, o) \in Nat
  BY OwnersHave
<1>4. ASSUME U # {}
      PROVE  a \in Owners(d) /\ RatioOf(d, a) >= ratio /\ Place(d, a) = target
  <2>1. a \in U /\ U = InFront(d, a) \cup {a}
    BY <1>4 DEF IsLast
  <2>2. a \in Owners(d) /\ RatioOf(d, a) >= ratio
    BY <2>1 DEF Higher
  <2>3. /\ IsFiniteSet(InFront(d, a)) /\ a \notin InFront(d, a)
        /\ Place(d, a) = Cardinality(InFront(d, a)) + 1
    BY <2>2, PlaceIs, ListIsOrdered
  <2>4. Cardinality(U) = Cardinality(InFront(d, a)) + 1
    BY <2>1, <2>3, FS_AddElement
  <2> QED
    BY <1>1, <2>2, <2>3, <2>4
<1>5. ASSUME U # Owners(d)
      PROVE  b \in Owners(d) /\ RatioOf(d, b) <= ratio /\ Place(d, b) = target + 1
  <2>1. b \in Owners(d) \ U /\ U = InFront(d, b)
    BY <1>5 DEF IsFirst
  <2>2. ~(RatioOf(d, b) >= ratio) /\ RatioOf(d, b) \in Nat
    BY <1>3, <2>1 DEF Higher
  <2> QED
    BY <1>1, <2>1, <2>2, PlaceIs
<1>6. U = {} => a \notin Owners(d)
  BY <1>3 DEF IsLast
<1>7. U = Owners(d) => b \notin Owners(d)
  BY <1>3 DEF IsFirst
<1>8. <<a, b>>[1] = a /\ <<a, b>>[2] = b
  OBVIOUS
<1>9. a = 0 /\ b = 0 => Owners(d) = {}
  BY <1>3, <1>4, <1>5
<1> HIDE DEF U, target
<1>10. Hops(d, ratio, <<a, b>>) = 0
  <2> DEFINE h == <<a, b>>
  <2>1. h[1] = a /\ h[2] = b
    OBVIOUS
  <2> HIDE DEF h
  <2>2. CASE U # {} /\ U # Owners(d)
    BY <1>2, <1>4, <1>5, <2>1, <2>2 DEF Hops
  <2>3. CASE U # {} /\ U = Owners(d)
    BY <1>2, <1>4, <1>7, <2>1, <2>3 DEF Hops, target
  <2>4. CASE U = {} /\ U # Owners(d)
    BY <1>2, <1>5, <1>6, <2>1, <2>4 DEF Hops, target
  <2>5. CASE U = {} /\ U = Owners(d)
    BY <1>2, <1>6, <1>7, <2>1, <2>5 DEF Hops, target
  <2> QED
    BY <2>2, <2>3, <2>4, <2>5 DEF h
<1> QED
  BY <1>9, <1>10

\* What the code keeps of the two addresses, and what is asked of it.
Usable(d, ratio, own, h) ==
    /\ own # 0 => own \notin {h[1], h[2]}
    /\ Owners(d) # {} => 0 \notin {h[1], h[2]}
    /\ \E k \in {h, <<0, h[2]>>, <<h[1], 0>>} : Hops(d, ratio, k) = 0

LEMMA EnclosingIsUsable ==
    ASSUME NEW d, IsChain(d), NEW ratio \in Nat, NEW a, NEW b, NEW own,
           IsLast(d, Higher(d, ratio), a), IsFirst(d, Higher(d, ratio), b),
           own # 0 => own \notin {a, b}
    PROVE  Usable(d, ratio, own, NoZero(<<a, b>>))
<1> DEFINE g == <<a, b>>
           h == NoZero(g)
<1>1. g[1] = a /\ g[2] = b
  OBVIOUS
<1>2. Hops(d, ratio, g) = 0 /\ (a = 0 /\ b = 0 => Owners(d) = {})
  BY NoWalk
<1>3. CASE a = 0
  <2>1. h = <<b, b>>
    BY <1>1, <1>3 DEF NoZero, AddressZero
  <2>2. h[1] = b /\ h[2] = b /\ <<0, h[2]>> = g
    BY <1>3, <2>1
  <2> HIDE DEF g, h
  <2>3. Usable(d, ratio, own, h)
    BY <1>2, <1>3, <2>2 DEF Usable
  <2> QED
    BY <2>3 DEF g, h
<1>4. CASE a # 0 /\ b = 0
  <2>1. h = <<a, a>>
    BY <1>1, <1>4 DEF NoZero, AddressZero
  <2>2. h[1] = a /\ h[2] = a /\ <<h[1], 0>> = g
    BY <1>4, <2>1
  <2> HIDE DEF g, h
  <2>3. Usable(d, ratio, own, h)
    BY <1>2, <1>4, <2>2 DEF Usable
  <2> QED
    BY <2>3 DEF g, h
<1>5. CASE a # 0 /\ b # 0
  <2>1. h = g
    BY <1>1, <1>5 DEF NoZero, AddressZero
  <2> HIDE DEF g, h
  <2>3. Usable(d, ratio, own, h)
    BY <1>1, <1>2, <1>5, <2>1 DEF Usable
  <2> QED
    BY <2>3 DEF g, h
<1> QED
  BY <1>3, <1>4, <1>5

LEMMA SearchEncloses ==
    ASSUME NEW c, IsChain(c), NEW ratio \in Nat
    PROVE  LET h == FindInsertPosition(c, ratio)
           IN IsLast(c, Higher(c, ratio), h[1]) /\ IsFirst(c, Higher(c, ratio), h[2])
<1>1. Higher(c, ratio) \in Heads(c) /\ Above(c, ratio) = Cardinality(Higher(c, ratio))
  BY HigherIsAHead
<1> QED
  BY <1>1, Enclosed DEF FindInsertPosition

\* An address other than the own one encloses the place in the list without
\* the own Trove, too.
LEMMA StillEncloses ==
    ASSUME NEW c, IsChain(c), NEW U \in Heads(c), NEW x
    PROVE  /\ \A a : a # x /\ IsLast(c, U, a) => IsLast(Without(c, x), U \ {x}, a)
           /\ \A b : b # x /\ IsFirst(c, U, b) => IsFirst(Without(c, x), U \ {x}, b)
<1>1. U \subseteq Owners(c)
  BY DEF Heads
<1>2. ASSUME NEW a, a # x, IsLast(c, U, a) PROVE IsLast(Without(c, x), U \ {x}, a)
  <2>1. CASE U = {}
    BY <1>2, <2>1 DEF IsLast
  <2>2. CASE U # {}
    <3>1. a \in U /\ a \in Owners(c) \ {x} /\ U = InFront(c, a) \cup {a}
      BY <1>1, <1>2, <2>2 DEF IsLast
    <3>2. InFront(Without(c, x), a) = InFront(c, a) \ {x}
      BY <3>1, WithoutIs
    <3>3. U \ {x} = InFront(Without(c, x), a) \cup {a} /\ a \in U \ {x}
      BY <3>1, <3>2
    <3> QED
      BY <3>3 DEF IsLast
  <2> QED
    BY <2>1, <2>2
<1>3. ASSUME NEW b, b # x, IsFirst(c, U, b) PROVE IsFirst(Without(c, x), U \ {x}, b)
  <2>1. Owners(Without(c, x)) = Owners(c) \ {x}
    BY WithoutIs
  <2>2. CASE U = Owners(c)
    BY <1>3, <2>1, <2>2 DEF IsFirst
  <2>3. CASE U # Owners(c)
    <3>1. b \in Owners(c) \ U /\ b \in Owners(c) \ {x} /\ U = InFront(c, b)
      BY <1>3, <2>3 DEF IsFirst
    <3>2. InFront(Without(c, x), b) = InFront(c, b) \ {x}
      BY <3>1, WithoutIs
    <3> QED
      BY <2>1, <3>1, <3>2 DEF IsFirst
  <2> QED
    BY <2>2, <2>3
<1> QED
  BY <1>2, <1>3

\* The hints of a search that did not come upon the own Trove.
LEMMA FoundIsUsable ==
    ASSUME NEW c, IsChain(c), NEW ratio \in Nat, NEW own, NEW x,
           LET h == FindInsertPosition(c, ratio)
           IN x \notin {h[1], h[2]} /\ own \in {0, x}
    PROVE  Usable(Without(c, x), ratio, own, NoZero(FindInsertPosition(c, ratio)))
<1> DEFINE h == FindInsertPosition(c, ratio)
           a == At(c, Above(c, ratio))
           b == At(c, Above(c, ratio) + 1)
           U == Higher(c, ratio)
<1>1. h = <<a, b>> /\ h[1] = a /\ h[2] = b
  BY DEF FindInsertPosition
<1>2. IsLast(c, U, a) /\ IsFirst(c, U, b) /\ U \in Heads(c)
  BY <1>1, SearchEncloses, HigherIsAHead
<1>3. a # x /\ b # x /\ (own # 0 => own \notin {a, b})
  BY <1>1
<1> HIDE DEF a, b, h, U
<1>4. IsLast(Without(c, x), U \ {x}, a) /\ IsFirst(Without(c, x), U \ {x}, b)
  BY <1>2, <1>3, StillEncloses
<1>5. IsChain(Without(c, x)) /\ Higher(Without(c, x), ratio) = U \ {x}
  BY WithoutIs DEF U
<1>6. Usable(Without(c, x), ratio, own, NoZero(<<a, b>>))
  BY <1>3, <1>4, <1>5, EnclosingIsUsable
<1> QED
  BY <1>1, <1>6 DEF h

\* The hints of a search that jumped over the own Trove.
LEMMA JumpIsUsable ==
    ASSUME NEW c, IsChain(c), NEW ratio \in Nat, NEW x \in Owners(c),
           LET h == FindInsertPosition(c, ratio) IN x \in {h[1], h[2]}
    PROVE  LET h == FindInsertPosition(c, ratio)
           IN Usable(Without(c, x), ratio, x,
                     NoZero(IF h[1] = x THEN <<GetPrev(c, x), h[2]>>
                            ELSE <<h[1], GetNext(c, x)>>))
<1> DEFINE h == FindInsertPosition(c, ratio)
           a == h[1]
           b == h[2]
           U == Higher(c, ratio)
           d == Without(c, x)
<1>1. IsLast(c, U, a) /\ IsFirst(c, U, b) /\ U \in Heads(c)
  BY SearchEncloses, HigherIsAHead
<1>2. IsChain(d) /\ Higher(d, ratio) = U \ {x}
  BY WithoutIs
<1>3. x \in {a, b} /\ x # 0 /\ 0 \notin Owners(c) /\ x \notin InFront(c, x)
  BY OwnersHave, ListIsOrdered
<1>4. /\ IsLast(c, InFront(c, x), GetPrev(c, x)) /\ InFront(c, x) \in Heads(c)
      /\ InFront(c, x) \cup {x} \in Heads(c)
      /\ IsFirst(c, InFront(c, x) \cup {x}, GetNext(c, x))
  BY Neighbours, HigherIsAHead
<1>5. U \subseteq Owners(c)
  BY <1>1 DEF Heads
<1> HIDE DEF U, d, h
<1>6. CASE a = x
  <2> DEFINE p == GetPrev(c, x)
  <2>1. U = InFront(c, x) \cup {x} /\ x \in U
    BY <1>1, <1>3, <1>6 DEF IsLast
  <2>2. InFront(c, x) = U \ {x} /\ InFront(c, x) \ {x} = U \ {x}
    BY <1>3, <2>1
  <2>3. b # x
    BY <1>1, <1>3, <2>1 DEF IsFirst
  <2>4. IsFirst(d, U \ {x}, b)
    BY <1>1, <2>3, StillEncloses DEF d
  <2>5. p # x
    BY <1>3, <1>4 DEF IsLast
  <2>6. IsLast(d, U \ {x}, p)
    BY <1>4, <2>2, <2>5, StillEncloses DEF d
  <2> HIDE DEF p
  <2>7. Usable(d, ratio, x, NoZero(<<p, b>>))
    BY <1>2, <2>3, <2>4, <2>5, <2>6, EnclosingIsUsable
  <2> QED
    BY <1>6, <2>7 DEF p, d, h
<1>7. CASE a # x
  <2> DEFINE q == GetNext(c, x)
             W == InFront(c, x) \cup {x}
  <2>1. b = x /\ U = InFront(c, x)
    BY <1>1, <1>3, <1>7 DEF IsFirst
  <2>2. W \ {x} = U \ {x}
    BY <2>1
  <2>3. q # x
    BY <1>3, <1>4 DEF IsFirst
  <2>4. IsFirst(d, U \ {x}, q)
    <3>1. IsFirst(d, W \ {x}, q)
      BY <1>4, <2>3, StillEncloses DEF d
    <3> QED
      BY <2>2, <3>1
  <2>5. IsLast(d, U \ {x}, a)
    BY <1>1, <1>7, StillEncloses DEF d
  <2> HIDE DEF q
  <2>6. Usable(d, ratio, x, NoZero(<<a, q>>))
    BY <1>2, <1>7, <2>3, <2>4, <2>5, EnclosingIsUsable
  <2> QED
    BY <1>7, <2>6 DEF q, d, h
<1> QED
  BY <1>6, <1>7

-----------------------------------------------------------------------------
(* The Troves that a redemption clears.  The sums of their net debts are a *)
(* recursive function of their number; that there is one, and that an      *)
(* amount clears exactly one number of them, rests on the least number of  *)
(* a set (LeastNumber).                                                    *)

Accumulates(g, D, n) == g = [k \in 0 .. n |-> IF k = 0 THEN 0 ELSE g[k - 1] + D[k]]

LEMMA SumsExist ==
    ASSUME NEW n \in Nat, NEW D
    PROVE  \E g : Accumulates(g, D, n)
<1> DEFINE Bad == {m \in Nat : ~\E g : Accumulates(g, D, m)}
<1> SUFFICES ASSUME Bad # {} PROVE FALSE
  OBVIOUS
<1>1. PICK m \in Bad : \A k \in Bad : ~(k < m)
  BY LeastNumber
<1>2. m \in Nat /\ ~\E g : Accumulates(g, D, m)
  OBVIOUS
<1>3. CASE m = 0
  <2> DEFINE g == [k \in 0 .. 0 |-> 0]
  <2>1. Accumulates(g, D, 0)
    BY DEF Accumulates
  <2> QED
    BY <1>2, <1>3, <2>1
<1>4. CASE m # 0
  <2>1. m - 1 \in Nat /\ m - 1 < m /\ m - 1 \notin Bad
    BY <1>1, <1>2, <1>4
  <2>2. PICK h : Accumulates(h, D, m - 1)
    BY <2>1
  <2> DEFINE g == [k \in 0 .. m |-> IF k = m THEN h[m - 1] + D[m] ELSE h[k]]
  <2>3. \A k \in 0 .. m : g[k] = IF k = 0 THEN 0 ELSE g[k - 1] + D[k]
    <3> SUFFICES ASSUME NEW k \in 0 .. m
                 PROVE  g[k] = IF k = 0 THEN 0 ELSE g[k - 1] + D[k]
      OBVIOUS
    <3>1. CASE k = m
      <4>1. k - 1 \in 0 .. m /\ k - 1 # m /\ k # 0
        BY <1>2, <1>4, <3>1
      <4>2. g[k - 1] = h[k - 1] /\ g[k] = h[m - 1] + D[m]
        BY <3>1, <4>1
      <4> QED
        BY <3>1, <4>1, <4>2
    <3>2. CASE k # m
      <4>1. k \in 0 .. m - 1 /\ (k # 0 => k - 1 \in 0 .. m /\ k - 1 # m)
        BY <1>2, <3>2
      <4>2. g[k] = h[k] /\ (k # 0 => g[k - 1] = h[k - 1])
        BY <3>2, <4>1
      <4>3. h[k] = IF k = 0 THEN 0 ELSE h[k - 1] + D[k]
        BY <2>2, <4>1 DEF Accumulates
      <4> QED
        BY <4>2, <4>3
    <3> QED
      BY <3>1, <3>2
  <2>4. DOMAIN g = 0 .. m /\ g = [k \in 0 .. m |-> g[k]]
    OBVIOUS
  <2> HIDE DEF g
  <2>5. Accumulates(g, D, m)
    BY <2>3, <2>4 DEF Accumulates
  <2> QED
    BY <1>2, <2>5
<1> QED
  BY <1>3, <1>4

LEMMA SumsGrow ==
    ASSUME NEW n \in Nat, NEW D \in [1 .. n -> Nat \ {0}], NEW g, Accumulates(g, D, n)
    PROVE  /\ g \in [0 .. n -> Nat] /\ g[0] = 0
           /\ \A k \in 1 .. n : k - 1 \in 0 .. n /\ g[k] = g[k - 1] + D[k]
           /\ \A i, k \in 0 .. n : i < k => g[i] < g[k]
<1>1. \A k \in 0 .. n : g[k] = IF k = 0 THEN 0 ELSE g[k - 1] + D[k]
  BY DEF Accumulates
<1>2. g[0] = 0 /\ \A k \in 1 .. n : k - 1 \in 0 .. n /\ g[k] = g[k - 1] + D[k]
  BY <1>1
<1>3. \A k \in 0 .. n : g[k] \in Nat
  <2> DEFINE Bad == {k \in 0 .. n : g[k] \notin Nat}
  <2> SUFFICES ASSUME Bad # {} PROVE FALSE
    OBVIOUS
  <2>1. Bad \subseteq Nat
    OBVIOUS
  <2>2. PICK k \in Bad : \A j \in Bad : ~(j < k)
    BY <2>1, LeastNumber
  <2>3. k \in 1 .. n /\ k - 1 < k /\ k - 1 \in 0 .. n
    BY <1>2
  <2>4. g[k - 1] \in Nat
    BY <2>2, <2>3
  <2> QED
    BY <1>2, <2>3, <2>4
<1>4. g \in [0 .. n -> Nat]
  BY <1>3 DEF Accumulates
<1>5. \A k \in 1 .. n : g[k - 1] < g[k]
  BY <1>2, <1>3
<1>6. ASSUME NEW i \in 0 .. n, NEW e \in 0 .. n, i < e PROVE g[i] < g[e]
  <2> DEFINE Bad == {k \in 0 .. n : i < k /\ ~(g[i] < g[k])}
  <2> SUFFICES ASSUME Bad # {} PROVE FALSE
    BY <1>6
  <2>1. Bad \subseteq Nat
    OBVIOUS
  <2>2. PICK k \in Bad : \A j \in Bad : ~(j < k)
    BY <2>1, LeastNumber
  <2>3. k \in 1 .. n /\ k - 1 < k /\ k - 1 \in 0 .. n
    OBVIOUS
  <2>4. g[k - 1] < g[k] /\ g[k - 1] \in Nat /\ g[k] \in Nat /\ g[i] \in Nat
    BY <1>3, <1>5, <2>3
  <2>5. k - 1 = i \/ g[i] < g[k - 1]
    BY <2>2, <2>3
  <2>6. k - 1 = i => g[k - 1] = g[i]
    OBVIOUS
  <2> DEFINE x == g[k - 1]
             y == g[i]
             z == g[k]
  <2>7. x < z /\ (x = y \/ y < x) /\ x \in Nat /\ y \in Nat /\ z \in Nat
    BY <2>4, <2>5, <2>6
  <2>8. ~(y < z)
    OBVIOUS
  <2> HIDE DEF x, y, z
  <2> QED
    BY <2>7, <2>8
<1> QED
  BY <1>2, <1>4, <1>6

\* An amount clears that many: the sum of one more would be above it.
FitsIn(g, n, amount, k) == g[k] <= amount /\ (k < n => g[k + 1] > amount)

LEMMA OneFits ==
    ASSUME NEW n \in Nat, NEW D \in [1 .. n -> Nat \ {0}], NEW g, Accumulates(g, D, n),
           NEW amount \in Nat
    PROVE  /\ \E k \in 0 .. n : FitsIn(g, n, amount, k)
           /\ \A k, j \in 0 .. n : FitsIn(g, n, amount, k) /\ FitsIn(g, n, amount, j)
                                       => k = j
<1>1. /\ g \in [0 .. n -> Nat] /\ g[0] = 0
      /\ \A i, k \in 0 .. n : i < k => g[i] < g[k]
  BY SumsGrow
<1>2. \E k \in 0 .. n : FitsIn(g, n, amount, k)
  <2> DEFINE Over == {k \in 0 .. n : g[k] > amount}
  <2>1. CASE Over = {}
    <3>1. n \in 0 .. n /\ ~(g[n] > amount) /\ g[n] \in Nat
      BY <1>1, <2>1
    <3>2. FitsIn(g, n, amount, n)
      BY <3>1 DEF FitsIn
    <3> QED
      BY <3>1, <3>2
  <2>2. CASE Over # {}
    <3>1. Over \subseteq Nat
      OBVIOUS
    <3>2. PICK k \in Over : \A j \in Over : ~(j < k)
      BY <2>2, <3>1, LeastNumber
    <3>3. k \in 1 .. n /\ k - 1 \in 0 .. n /\ k - 1 < k /\ (k - 1) + 1 = k
      BY <1>1
    <3>4. ~(g[k - 1] > amount) /\ g[k] > amount /\ g[k - 1] \in Nat
      BY <1>1, <3>2, <3>3
    <3>5. FitsIn(g, n, amount, k - 1)
      BY <3>3, <3>4 DEF FitsIn
    <3> QED
      BY <3>3, <3>5
  <2> QED
    BY <2>1, <2>2
<1>3. ASSUME NEW k \in 0 .. n, NEW j \in 0 .. n, k < j,
             FitsIn(g, n, amount, k), FitsIn(g, n, amount, j)
      PROVE  FALSE
  <2>1. k + 1 \in 0 .. n /\ g[k + 1] > amount /\ g[j] <= amount
    BY <1>3 DEF FitsIn
  <2>2. k + 1 = j \/ g[k + 1] < g[j]
    BY <1>1, <1>3, <2>1
  <2>3. g[k + 1] \in Nat /\ g[j] \in Nat
    BY <1>1, <2>1
  <2> QED
    BY <2>1, <2>2, <2>3
<1>4. \A k, j \in 0 .. n : FitsIn(g, n, amount, k) /\ FitsIn(g, n, amount, j) => k = j
  <2> SUFFICES ASSUME NEW k \in 0 .. n, NEW j \in 0 .. n,
                      FitsIn(g, n, amount, k), FitsIn(g, n, amount, j), k # j
               PROVE  FALSE
    OBVIOUS
  <2>1. k < j \/ j < k
    OBVIOUS
  <2> QED
    BY <1>3, <2>1
<1> QED
  BY <1>2, <1>4

\* The Troves that a redemption goes through.
Queue(c, price) ==
    LET turns == Turns(c, Redeemable(c, price))
    IN SubSeq(turns, 1, Smaller(Len(turns), redeemMaxIterations))

QueueLength(c, price) ==
    Smaller(Cardinality(Redeemable(c, price)), redeemMaxIterations)

LEMMA QueueIs ==
    ASSUME NEW c, IsChain(c), NEW price
    PROVE  /\ QueueLength(c, price) \in Nat
           /\ Queue(c, price) \in [1 .. QueueLength(c, price) -> Owners(c)]
           /\ Len(Queue(c, price)) = QueueLength(c, price)
           /\ \A i, j \in 1 .. QueueLength(c, price) :
                  Queue(c, price)[i] = Queue(c, price)[j] => i = j
<1> DEFINE R == Redeemable(c, price)
           n == Cardinality(R)
           t == Turns(c, R)
           m == QueueLength(c, price)
           rank(o) == Cardinality(R \cap InFront(c, o))
<1>1. R \in SUBSET Owners(c) /\ IsFiniteSet(R) /\ n \in Nat
  <2>1. R \in SUBSET Owners(c)
    BY DEF Redeemable
  <2> QED
    BY <2>1, ChainFields, FS_Subset, FS_CardinalityType
<1>2. m \in Nat /\ m <= n
  BY <1>1, ListAssumption DEF QueueLength, Smaller
<1>3. ASSUME NEW k \in 1 .. n
      PROVE  t[k] \in R /\ rank(t[k]) = n - k
  <2>1. n - k \in 0 .. n - 1
    BY <1>1
  <2>2. \E o \in R : rank(o) = n - k
    <3>1. \A i \in 0 .. n - 1 : \E o \in R : rank(o) = i
      <4> HIDE DEF R
      <4> QED
        BY <1>1, Ranks
    <3> HIDE DEF rank
    <3> QED
      BY <2>1, <3>1
  <2>3. t[k] = CHOOSE x \in R : rank(x) = n - k
    BY DEF Turns
  <2> HIDE DEF t, rank
  <2> QED
    BY <2>2, <2>3
<1>4. t \in [1 .. n -> R]
  <2> DEFINE who(k) == CHOOSE x \in R : rank(x) = n - k
  <2>1. t = [k \in 1 .. n |-> who(k)]
    BY DEF Turns
  <2> HIDE DEF t, who
  <2>2. \A k \in 1 .. n : who(k) \in R
    BY <1>3, <2>1
  <2> QED
    BY <2>1, <2>2
<1>5. t \in Seq(R) /\ Len(t) = n
  <2> HIDE DEF t
  <2> QED
    BY <1>1, <1>4
<1>6. Queue(c, price) = SubSeq(t, 1, m)
  BY <1>5 DEF Queue, QueueLength
<1> HIDE DEF t
<1>7. /\ Queue(c, price) \in Seq(R) /\ Len(Queue(c, price)) = m
      /\ \A i \in 1 .. m : Queue(c, price)[i] = t[i]
  BY <1>1, <1>2, <1>5, <1>6
<1>8. \A i, j \in 1 .. m : t[i] = t[j] => i = j
  <2> SUFFICES ASSUME NEW i \in 1 .. m, NEW j \in 1 .. m, t[i] = t[j] PROVE i = j
    OBVIOUS
  <2>1. rank(t[i]) = n - i /\ rank(t[j]) = n - j
    BY <1>1, <1>2, <1>3
  <2>2. n - i = n - j
    BY <2>1
  <2> QED
    BY <1>1, <1>2, <2>2
<1>9. Queue(c, price) \in [1 .. m -> Owners(c)]
  <2>1. Queue(c, price) \in [1 .. m -> R]
    BY <1>7
  <2> QED
    BY <1>1, <2>1
<1> QED
  BY <1>2, <1>7, <1>8, <1>9

\* What the Troves of the queue owe, and its sums.
Debts(c, price) ==
    [k \in 1 .. QueueLength(c, price) |-> NetDebt(c.troves[Queue(c, price)[k]])]

SumOfQueue(g, c, q) ==
    g = [k \in 0 .. Len(q) |-> IF k = 0 THEN 0 ELSE g[k - 1] + NetDebt(c.troves[q[k]])]

SumsOf(c, price) == CHOOSE g : SumOfQueue(g, c, Queue(c, price))

Cleared(c, price, amount) ==
    CHOOSE k \in 0 .. Len(Queue(c, price)) :
        FitsIn(SumsOf(c, price), Len(Queue(c, price)), amount, k)

LEMMA DebtsAre ==
    ASSUME NEW c, IsChain(c), NEW price
    PROVE  /\ QueueLength(c, price) \in Nat
           /\ Debts(c, price) \in [1 .. QueueLength(c, price) -> Nat \ {0}]
           /\ \A k \in 1 .. QueueLength(c, price) :
                 /\ MINIMUM_NET_DEBT <= Debts(c, price)[k]
                 /\ Debts(c, price)[k] = NetDebt(c.troves[Queue(c, price)[k]])
                 /\ Queue(c, price)[k] \in Owners(c)
           /\ Accumulates(SumsOf(c, price), Debts(c, price), QueueLength(c, price))
<1> DEFINE n == QueueLength(c, price)
           D == Debts(c, price)
<1>1. n \in Nat /\ \A k \in 1 .. n : Queue(c, price)[k] \in Owners(c)
  BY QueueIs
<1>2. ASSUME NEW k \in 1 .. n
      PROVE  /\ D[k] = NetDebt(c.troves[Queue(c, price)[k]])
             /\ D[k] \in Nat \ {0} /\ MINIMUM_NET_DEBT <= D[k]
  <2> DEFINE t == c.troves[Queue(c, price)[k]]
  <2>1. t \in Troves /\ MINIMUM_DEBT <= t.debt
    BY <1>1, OwnersHave
  <2>2. D[k] = t.debt - LIQUIDATION_RESERVE
    BY DEF Debts, NetDebt
  <2> HIDE DEF t
  <2>3. t.debt \in Nat
    BY <2>1 DEF Troves
  <2> QED
    BY <2>1, <2>2, <2>3, ParametersAssumption DEF MINIMUM_DEBT, NetDebt, t, Debts
<1>3. D \in [1 .. n -> Nat \ {0}]
  <2>1. D = [k \in 1 .. n |-> D[k]]
    BY DEF Debts
  <2> HIDE DEF D, n
  <2> QED
    BY <1>2, <2>1
<1>4. Accumulates(SumsOf(c, price), D, n)
  <2> DEFINE q == Queue(c, price)
  <2>1. Len(q) = n /\ \A k \in 1 .. n : D[k] = NetDebt(c.troves[q[k]])
    BY <1>2, QueueIs
  <2> HIDE DEF D, n, q
  <2>2. \A g : SumOfQueue(g, c, q) <=> Accumulates(g, D, n)
    <3> SUFFICES ASSUME NEW g PROVE SumOfQueue(g, c, q) <=> Accumulates(g, D, n)
      OBVIOUS
    <3>1. \A k \in 0 .. n : (IF k = 0 THEN 0 ELSE g[k - 1] + D[k])
                               = (IF k = 0 THEN 0 ELSE g[k - 1] + NetDebt(c.troves[q[k]]))
      BY <1>1, <2>1
    <3> HIDE DEF NetDebt
    <3>2. [k \in 0 .. n |-> IF k = 0 THEN 0 ELSE g[k - 1] + D[k]]
            = [k \in 0 .. n |-> IF k = 0 THEN 0 ELSE g[k - 1] + NetDebt(c.troves[q[k]])]
      BY <3>1, Zenon
    <3> QED
      BY <2>1, <3>2, Zenon DEF SumOfQueue, Accumulates
  <2>3. \E g : SumOfQueue(g, c, q)
    BY <1>1, <2>2, SumsExist
  <2>4. SumOfQueue(SumsOf(c, price), c, q)
    BY <2>3, Zenon DEF SumsOf, q
  <2> QED
    BY <2>2, <2>4
<1> QED
  BY <1>1, <1>2, <1>3, <1>4

\* What an amount clears.
LEMMA ClearingIs ==
    ASSUME NEW c, IsChain(c), NEW price, NEW amount \in Nat
    PROVE  LET n   == QueueLength(c, price)
               q   == Queue(c, price)
               sum == SumsOf(c, price)
               k   == Cleared(c, price, amount)
               all == Clearing(c, price, amount)
           IN /\ n \in Nat /\ k \in 0 .. n /\ FitsIn(sum, n, amount, k)
              /\ \A j \in 0 .. n : FitsIn(sum, n, amount, j) => j = k
              /\ sum[k] \in Nat /\ sum[k] <= amount
              /\ \A j \in 1 .. n : sum[j] = sum[j - 1] + Debts(c, price)[j]
              /\ all.cleared = {q[i] : i \in 1 .. k}
              /\ all.amount = sum[k]
              /\ all.partial = IF k < n /\ amount > sum[k] THEN q[k + 1] ELSE 0
<1> DEFINE n   == QueueLength(c, price)
           q   == Queue(c, price)
           sum == SumsOf(c, price)
           k   == Cleared(c, price, amount)
           all == Clearing(c, price, amount)
<1>1. n \in Nat /\ Len(q) = n
  BY QueueIs
<1>2. /\ Debts(c, price) \in [1 .. n -> Nat \ {0}]
      /\ Accumulates(sum, Debts(c, price), n)
  BY DebtsAre
<1>3. /\ \E j \in 0 .. n : FitsIn(sum, n, amount, j)
      /\ \A i, j \in 0 .. n : FitsIn(sum, n, amount, i) /\ FitsIn(sum, n, amount, j)
                                   => i = j
  BY <1>1, <1>2, OneFits
<1>4. k \in 0 .. n /\ FitsIn(sum, n, amount, k)
  BY <1>1, <1>3 DEF Cleared
<1>5. /\ sum \in [0 .. n -> Nat]
      /\ \A j \in 1 .. n : sum[j] = sum[j - 1] + Debts(c, price)[j]
  <2> DEFINE D == Debts(c, price)
  <2> HIDE DEF n, sum, D
  <2>1. n \in Nat /\ D \in [1 .. n -> Nat \ {0}] /\ Accumulates(sum, D, n)
    BY <1>1, <1>2 DEF D
  <2>2. sum \in [0 .. n -> Nat]
    BY <2>1, SumsGrow
  <2>3. \A j \in 1 .. n : sum[j] = sum[j - 1] + D[j]
    BY <2>1 DEF Accumulates
  <2> QED
    BY <2>2, <2>3 DEF D
<1>6. sum[k] \in Nat /\ sum[k] <= amount
  BY <1>4, <1>5 DEF FitsIn
<1>7. all = [cleared |-> {q[i] : i \in 1 .. k},
             amount  |-> sum[k],
             partial |-> IF k < Len(q) /\ amount > sum[k] THEN q[k + 1] ELSE 0]
  <2>1. all = ClearingOf(c, q, amount)
    BY DEF Clearing, Queue
  <2>2. \A r : ClearingOf(c, r, amount) =
                  LET s == CHOOSE g : SumOfQueue(g, c, r)
                      j == CHOOSE i \in 0 .. Len(r) : FitsIn(s, Len(r), amount, i)
                  IN [cleared |-> {r[i] : i \in 1 .. j},
                      amount  |-> s[j],
                      partial |-> IF j < Len(r) /\ amount > s[j] THEN r[j + 1] ELSE 0]
    BY Zenon DEF ClearingOf, SumOfQueue, FitsIn, AddressZero
  <2> QED
    BY <2>1, <2>2, Zenon DEF SumsOf, Cleared
<1> HIDE DEF all
<1>8. /\ all.cleared = {q[i] : i \in 1 .. k} /\ all.amount = sum[k]
      /\ all.partial = IF k < n /\ amount > sum[k] THEN q[k + 1] ELSE 0
  BY <1>1, <1>7
<1> HIDE DEF n, q, sum, k
<1>9. \A j \in 0 .. n : FitsIn(sum, n, amount, j) => j = k
  BY <1>3, <1>4
<1> QED
  BY <1>1, <1>4, <1>5, <1>6, <1>8, <1>9 DEF n, q, sum, k, all

\* What getRedemptionHints() calls redeemable, in terms of the queue.
LEMMA HintsAre ==
    ASSUME NEW c, IsChain(c), NEW price, NEW amount \in Nat
    PROVE  LET n    == QueueLength(c, price)
               k    == Cleared(c, price, amount)
               sum  == SumsOf(c, price)
               t    == c.troves[Queue(c, price)[k + 1]]
               room == Debts(c, price)[k + 1] - MINIMUM_NET_DEBT
               part == IF k < n /\ amount > sum[k] THEN Smaller(amount - sum[k], room)
                       ELSE 0
               r    == GetRedemptionHints(c, amount, price)
           IN /\ k < n => room \in Nat /\ t \in OpenTroves
                                       /\ t.debt - MINIMUM_DEBT = room
              /\ part \in Nat /\ part <= amount - sum[k]
              /\ r.truncated = sum[k] + part
              /\ r.ratio = IF part = 0 THEN 0 ELSE NominalRatio(Reduced(t, part, price))
<1> DEFINE n    == QueueLength(c, price)
           k    == Cleared(c, price, amount)
           sum  == SumsOf(c, price)
           q    == Queue(c, price)
           D    == Debts(c, price)
           t    == c.troves[q[k + 1]]
           room == D[k + 1] - MINIMUM_NET_DEBT
           part == IF k < n /\ amount > sum[k] THEN Smaller(amount - sum[k], room) ELSE 0
           r    == GetRedemptionHints(c, amount, price)
           all  == Clearing(c, price, amount)
<1>1. /\ n \in Nat /\ k \in 0 .. n /\ sum[k] \in Nat /\ sum[k] <= amount
      /\ all.amount = sum[k]
      /\ all.partial = IF k < n /\ amount > sum[k] THEN q[k + 1] ELSE 0
  BY ClearingIs
<1>2. \A j \in 1 .. n : /\ D[j] \in Nat /\ MINIMUM_NET_DEBT <= D[j]
                        /\ D[j] = NetDebt(c.troves[q[j]]) /\ q[j] \in Owners(c)
  BY DebtsAre
<1>3. ASSUME k < n
      PROVE  /\ room \in Nat /\ t \in OpenTroves /\ t.debt - MINIMUM_DEBT = room
             /\ Less(NetDebt(t), MINIMUM_NET_DEBT) = room /\ q[k + 1] # 0
  <2>1. k + 1 \in 1 .. n
    BY <1>1, <1>3
  <2>2. /\ D[k + 1] \in Nat /\ MINIMUM_NET_DEBT <= D[k + 1]
        /\ D[k + 1] = NetDebt(t) /\ q[k + 1] \in Owners(c)
    BY <1>2, <2>1
  <2>3. t \in OpenTroves /\ q[k + 1] # 0
    BY <2>2, ChainFields
  <2> HIDE DEF D, q, t
  <2>4. t.debt \in Nat
    BY <2>3 DEF OpenTroves, Troves
  <2> QED
    BY <2>2, <2>3, <2>4, ParametersAssumption DEF NetDebt, Less, MINIMUM_DEBT
<1>4. part \in Nat /\ part <= amount - sum[k]
  <2> HIDE DEF n, k, sum, D, room
  <2> QED
    BY <1>1, <1>3 DEF Smaller
<1>5. r = HintsOf(c, all, amount, price)
  BY DEF GetRedemptionHints
<1>6. r = [truncated |-> all.amount + part,
           ratio |-> IF part = 0 THEN 0
                     ELSE NominalRatio(Reduced(c.troves[all.partial], part, price))]
  <2> DEFINE p == IF all.partial = 0 THEN 0
                  ELSE Smaller(amount - all.amount,
                               Less(NetDebt(c.troves[all.partial]), MINIMUM_NET_DEBT))
  <2>1. HintsOf(c, all, amount, price) =
            [truncated |-> all.amount + p,
             ratio |-> IF p = 0 THEN 0
                       ELSE NominalRatio(Reduced(c.troves[all.partial], p, price))]
    BY Zenon DEF HintsOf, AddressZero
  <2>2. p = part
    <3>1. CASE k < n /\ amount > sum[k]
      <4>1. all.partial = q[k + 1] /\ q[k + 1] # 0
        BY <1>1, <1>3, <3>1
      <4>2. Less(NetDebt(c.troves[all.partial]), MINIMUM_NET_DEBT) = room
        BY <1>3, <3>1, <4>1
      <4> HIDE DEF n, k, sum, q, D, room, all
      <4> QED
        BY <1>1, <3>1, <4>1, <4>2
    <3>2. CASE ~(k < n /\ amount > sum[k])
      <4>1. all.partial = 0
        BY <1>1, <3>2
      <4> HIDE DEF n, k, sum, q, D, room, all
      <4> QED
        BY <3>2, <4>1
    <3> QED
      BY <3>1, <3>2
  <2> HIDE DEF p, part, all
  <2> QED
    BY <1>5, <2>1, <2>2
<1>7. r.truncated = all.amount + part
  <2> HIDE DEF r, part, all
  <2> QED
    BY <1>6
<1>8. r.ratio = IF part = 0 THEN 0 ELSE NominalRatio(Reduced(t, part, price))
  <2>1. part # 0 => all.partial = q[k + 1]
    BY <1>1
  <2>2. r.ratio = IF part = 0 THEN 0
                  ELSE NominalRatio(Reduced(c.troves[all.partial], part, price))
    <3> HIDE DEF r, part, all
    <3> QED
      BY <1>6
  <2> HIDE DEF r, part, all, q, k
  <2> QED
    BY <2>1, <2>2 DEF t
<1> HIDE DEF r, part, room, all, t, n, k, sum, q, D
<1>9. r.truncated = sum[k] + part
  BY <1>1, <1>7
<1> QED
  BY <1>3, <1>4, <1>8, <1>9 DEF r, part, room, t, n, k, sum, q, D

\* What a redemption that succeeds redeems.
Actual(c, amount, ratio) ==
    LET all   == Clearing(c, c.price, amount)
        after == Reduced(c.troves[all.partial], amount - all.amount, c.price)
    IN IF all.partial # 0 /\ ComesOut(after, ratio) THEN amount ELSE all.amount

\* The first log that matches, of one or of two that do not both.
LEMMA FirstOfOne == \A l, S : S = {1} => FirstOf(<<l>>, S) = l
<1>1. (CHOOSE i \in {1} : \A j \in {1} : i <= j) = 1
  OBVIOUS
<1> QED
  BY <1>1 DEF FirstOf

LEMMA RedeemedAmount ==
    ASSUME NEW c, NEW t, Redeem(c, t).ok
    PROVE  Parse("redeemDebtToken", Redeem(c, t).logs)[1] = Actual(c, t.amount, t.ratio)
<1> DEFINE all   == Clearing(c, c.price, t.amount)
           after == Reduced(c.troves[all.partial], t.amount - all.amount, c.price)
           part  == all.partial # 0 /\ ComesOut(after, t.ratio)
           actual == IF part THEN t.amount ELSE all.amount
           gone  == IF part THEN all.cleared \cup {all.partial} ELSE all.cleared
           left  == [c EXCEPT !.troves = Restrict(@, DOMAIN @ \ gone)]
           next  == IF part THEN With(left, all.partial, after) ELSE left
           log   == Log("troveManager", "Redemption", actual)
<1>1. Redeem(c, t) = Redeemed(c, t, left, next, actual, GrownRate(c, actual))
  BY Zenon DEF Redeem, RedeemClearing, RedeemThese, AddressZero
<1>2. actual = Actual(c, t.amount, t.ratio)
  BY Zenon DEF Actual
<1> HIDE DEF actual, left, next, gone, part
<1>3. Redeem(c, t).logs = <<log>>
  <2> DEFINE grown == GrownRate(c, actual)
             cost  == BaseGas + BaseRateGas(c)
                        + (IF next = left THEN 0
                           ELSE WalkGas(Hops(left, t.ratio, t.hints)))
  <2>1. \/ Redeem(c, t) = Refused(c, "nothing")
        \/ Redeem(c, t) = Refused(c, "fee")
        \/ Redeem(c, t) = Done(FeeOperation(next, grown), cost, <<log>>)
    BY <1>1, Zenon DEF Redeemed
  <2> HIDE DEF log, cost, grown
  <2>2. \A why : Refused(c, why).ok = FALSE
    BY DEF Refused
  <2>3. \A d : Done(d, cost, <<log>>).logs = <<log>>
    BY DEF Done
  <2> QED
    BY <2>1, <2>2, <2>3, Zenon
<1>4. log.address = "troveManager" /\ log.name = "Redemption" /\ log.args = actual
  BY DEF Log
<1> HIDE DEF log
<1>5. {i \in DOMAIN <<log>> : <<log>>[i].address = "troveManager"
                              /\ <<log>>[i].name = "Redemption"} = {1}
  BY <1>4
<1>6. Extract(<<log>>, "troveManager", "Redemption") = actual
  BY <1>4, <1>5, FirstOfOne DEF Extract
<1>7. Parse("redeemDebtToken", <<log>>) = <<Extract(<<log>>, "troveManager", "Redemption")>>
  BY DEF Parse
<1> QED
  BY <1>2, <1>3, <1>6, <1>7

\* An amount that clears as many Troves is cleared alike.
LEMMA ClearsAlike ==
    ASSUME NEW c, IsChain(c), NEW price, NEW amount \in Nat,
           NEW k \in 0 .. QueueLength(c, price),
           FitsIn(SumsOf(c, price), QueueLength(c, price), amount, k)
    PROVE  LET all == Clearing(c, price, amount)
           IN /\ all.amount = SumsOf(c, price)[k]
              /\ all.cleared = {Queue(c, price)[i] : i \in 1 .. k}
              /\ all.partial = IF k < QueueLength(c, price) /\ amount > SumsOf(c, price)[k]
                               THEN Queue(c, price)[k + 1] ELSE 0
<1>1. k = Cleared(c, price, amount)
  BY ClearingIs
<1> QED
  BY <1>1, ClearingIs

\* What is called redeemable is what is redeemed, at the hinted ratio.
LEMMA RedeemsAsHinted ==
    ASSUME NEW c, IsChain(c), NEW amount \in Nat
    PROVE  LET r == GetRedemptionHints(c, amount, c.price)
           IN r.truncated \in Nat /\ Actual(c, r.truncated, r.ratio) = r.truncated
<1> DEFINE p    == c.price
           n    == QueueLength(c, p)
           k    == Cleared(c, p, amount)
           sum  == SumsOf(c, p)
           q    == Queue(c, p)
           t    == c.troves[q[k + 1]]
           room == Debts(c, p)[k + 1] - MINIMUM_NET_DEBT
           part == IF k < n /\ amount > sum[k] THEN Smaller(amount - sum[k], room) ELSE 0
           r    == GetRedemptionHints(c, amount, p)
           all  == Clearing(c, p, r.truncated)
           after == Reduced(c.troves[all.partial], r.truncated - all.amount, p)
<1>1. /\ n \in Nat /\ k \in 0 .. n /\ FitsIn(sum, n, amount, k)
      /\ sum[k] \in Nat /\ sum[k] <= amount
      /\ \A j \in 1 .. n : sum[j] = sum[j - 1] + Debts(c, p)[j]
  BY ClearingIs
<1>2. /\ k < n => room \in Nat /\ t \in OpenTroves /\ t.debt - MINIMUM_DEBT = room
      /\ part \in Nat /\ part <= amount - sum[k]
      /\ r.truncated = sum[k] + part
      /\ r.ratio = IF part = 0 THEN 0 ELSE NominalRatio(Reduced(t, part, p))
  BY HintsAre
<1>3. part # 0 => k < n /\ amount > sum[k] /\ part <= room
  <2> HIDE DEF n, k, sum, room
  <2> QED
    BY <1>1, <1>2 DEF Smaller
<1>4. k < n => /\ Debts(c, p)[k + 1] \in Nat \ {0}
               /\ sum[k + 1] = sum[k] + Debts(c, p)[k + 1]
               /\ q[k + 1] \in Owners(c) /\ q[k + 1] # 0
  <2> SUFFICES ASSUME k < n
               PROVE  /\ Debts(c, p)[k + 1] \in Nat \ {0}
                      /\ sum[k + 1] = sum[k] + Debts(c, p)[k + 1]
                      /\ q[k + 1] \in Owners(c) /\ q[k + 1] # 0
    OBVIOUS
  <2>1. k + 1 \in 1 .. n /\ (k + 1) - 1 = k
    BY <1>1
  <2>2. Debts(c, p) \in [1 .. n -> Nat \ {0}] /\ q[k + 1] \in Owners(c)
    BY <2>1, DebtsAre
  <2>3. q[k + 1] # 0
    BY <2>2, OwnersHave
  <2> HIDE DEF n, k, sum, q
  <2> QED
    BY <1>1, <2>1, <2>2, <2>3
<1>5. r.truncated \in Nat /\ FitsIn(sum, n, r.truncated, k)
  <2> HIDE DEF n, k, sum, room, part, r
  <2> QED
    BY <1>1, <1>2, <1>3, <1>4 DEF FitsIn
<1>6. /\ all.amount = sum[k]
      /\ all.partial = IF k < n /\ r.truncated > sum[k] THEN q[k + 1] ELSE 0
  BY <1>1, <1>5, ClearsAlike
<1>7. Actual(c, r.truncated, r.ratio)
        = IF all.partial # 0 /\ ComesOut(after, r.ratio) THEN r.truncated ELSE all.amount
  BY Zenon DEF Actual
<1>8. CASE part = 0
  <2> HIDE DEF n, k, sum, room, part, r, all, after
  <2>1. r.truncated = sum[k] /\ all.partial = 0
    BY <1>1, <1>2, <1>6, <1>8
  <2> QED
    BY <1>5, <1>6, <1>7, <2>1 DEF r
<1>9. CASE part # 0
  <2>1. all.partial = q[k + 1] /\ all.partial # 0
    <3> HIDE DEF n, k, sum, room, part, r, all, q
    <3> QED
      BY <1>1, <1>2, <1>3, <1>4, <1>6, <1>9
  <2>2. r.truncated - all.amount = part
    <3> HIDE DEF n, k, sum, room, part, r, all
    <3> QED
      BY <1>1, <1>2, <1>6
  <2>3. after = Reduced(t, part, p)
    <3> HIDE DEF part, r, all, k, q, p
    <3> QED
      BY <2>1, <2>2
  <2>4. after.debt = t.debt - part
    BY <2>3 DEF Reduced, Trove
  <2>5. t.debt \in Nat /\ MINIMUM_DEBT \in Nat
    BY <1>2, <1>3, <1>9, ParametersAssumption DEF OpenTroves, Troves, MINIMUM_DEBT
  <2>6. ComesOut(after, r.ratio)
    <3>1. NominalRatio(after) = r.ratio
      BY <1>2, <1>9, <2>3
    <3> HIDE DEF part, r, t, after, room, k, n, sum
    <3>2. after.debt >= MINIMUM_DEBT
      BY <1>2, <1>3, <1>9, <2>4, <2>5
    <3> QED
      BY <3>1, <3>2 DEF ComesOut
  <2> HIDE DEF all, r, after
  <2> QED
    BY <1>5, <1>7, <2>1, <2>6 DEF r
<1> QED
  BY <1>8, <1>9

\* A redemption that was truncated clears, with the minimum net debt added, the
\* Trove that it was truncated at; or there is none.
LEMMA RedeemsAsIncreased ==
    ASSUME NEW c, IsChain(c), NEW amount \in Nat,
           GetRedemptionHints(c, amount, c.price).truncated < amount
    PROVE  LET short == GetRedemptionHints(c, amount, c.price).truncated
               next  == Increased(short)
           IN \/ Actual(c, next, 0) = next
              \/ Actual(c, next, 0) = short /\ NoneLeft(c, short)
<1> DEFINE p    == c.price
           n    == QueueLength(c, p)
           k    == Cleared(c, p, amount)
           sum  == SumsOf(c, p)
           q    == Queue(c, p)
           t    == c.troves[q[k + 1]]
           D    == Debts(c, p)
           room == D[k + 1] - MINIMUM_NET_DEBT
           part == IF k < n /\ amount > sum[k] THEN Smaller(amount - sum[k], room) ELSE 0
           short == GetRedemptionHints(c, amount, p).truncated
           next == Increased(short)
           all  == Clearing(c, p, next)
           after == Reduced(c.troves[all.partial], next - all.amount, p)
<1>1. /\ n \in Nat /\ k \in 0 .. n /\ FitsIn(sum, n, amount, k)
      /\ sum[k] \in Nat /\ sum[k] <= amount
      /\ \A j \in 1 .. n : sum[j] = sum[j - 1] + D[j]
  BY ClearingIs
<1>2. /\ k < n => room \in Nat
      /\ part \in Nat /\ short = sum[k] + part
  BY HintsAre
<1>3. D \in [1 .. n -> Nat \ {0}]
  BY DebtsAre
<1>4. MINIMUM_NET_DEBT \in Nat \ {0}
  BY ParametersAssumption
<1>5. next = short + MINIMUM_NET_DEBT
  BY DEF Increased
<1>6. Actual(c, next, 0)
        = IF all.partial # 0 /\ ComesOut(after, 0) THEN next ELSE all.amount
  BY Zenon DEF Actual
<1>7. CASE k < n
  <2>1. k + 1 \in 1 .. n /\ k + 1 \in 0 .. n /\ (k + 1) - 1 = k
    BY <1>1, <1>7
  <2>2. sum[k + 1] = sum[k] + D[k + 1] /\ D[k + 1] \in Nat
    <3> HIDE DEF n, k, sum, D
    <3> QED
      BY <1>1, <1>3, <2>1
  <2>3. next = sum[k + 1]
    <3> HIDE DEF n, k, sum, D, short, next
    <3> QED
      BY <1>1, <1>2, <1>4, <1>5, <1>7, <2>2 DEF Smaller, short
  <2>4. next \in Nat /\ FitsIn(sum, n, next, k + 1)
    <3>1. k + 1 < n => sum[(k + 1) + 1] = sum[k + 1] + D[(k + 1) + 1]
                       /\ D[(k + 1) + 1] \in Nat \ {0}
      <4> HIDE DEF n, k, sum, D
      <4> QED
        BY <1>1, <1>3, <2>1
    <3> HIDE DEF n, k, sum, D, next
    <3> QED
      BY <1>1, <2>2, <2>3, <3>1 DEF FitsIn
  <2>5. all.amount = sum[k + 1] /\ all.partial = 0
    <3>1. all.amount = sum[k + 1]
      BY <2>1, <2>4, ClearsAlike
    <3>2. all.partial = IF k + 1 < n /\ next > sum[k + 1] THEN q[(k + 1) + 1] ELSE 0
      BY <2>1, <2>4, ClearsAlike
    <3> HIDE DEF n, k, sum, all, next
    <3> QED
      BY <2>2, <2>3, <2>4, <3>1, <3>2
  <2> HIDE DEF all, next, sum, after
  <2> QED
    BY <1>6, <2>3, <2>5 DEF next
<1>8. CASE ~(k < n)
  <2>1. k = n /\ part = 0 /\ short = sum[n]
    <3> HIDE DEF n, k, sum, short, room
    <3> QED
      BY <1>1, <1>2, <1>8
  <2>2. /\ next \in Nat /\ FitsIn(sum, n, next, n)
        /\ short \in Nat /\ FitsIn(sum, n, short, n) /\ n \in 0 .. n
    <3> HIDE DEF n, k, sum, next, short
    <3> QED
      BY <1>1, <1>4, <1>5, <2>1 DEF FitsIn
  <2>3. all.amount = short /\ all.partial = 0
    <3>1. all.amount = sum[n]
      BY <2>2, ClearsAlike
    <3>2. all.partial = IF n < n /\ next > sum[n] THEN q[n + 1] ELSE 0
      BY <2>2, ClearsAlike
    <3> HIDE DEF n, sum, all, short, next
    <3> QED
      BY <1>1, <2>1, <3>1, <3>2
  <2>4. Clearing(c, p, short).cleared = {q[i] : i \in 1 .. n}
    BY <2>2, ClearsAlike
  <2>5. Cardinality({q[i] : i \in 1 .. n}) = n
    <3> DEFINE S == {q[i] : i \in 1 .. n}
    <3>1. \A i, j \in 1 .. n : q[i] = q[j] => i = j
      BY QueueIs
    <3>2. q \in [1 .. n -> Owners(c)]
      BY QueueIs
    <3> HIDE DEF n, q
    <3>3. q \in Bijection(1 .. n, S)
      BY <3>1, <3>2 DEF Bijection, Injection, Surjection, IsInjective
    <3>4. ExistsBijection(1 .. n, S)
      BY <3>3 DEF ExistsBijection
    <3>5. IsFiniteSet(1 .. n) /\ Cardinality(1 .. n) = n
      BY <1>1, FS_Interval
    <3> HIDE DEF S
    <3>6. Cardinality(S) = Cardinality(1 .. n)
      BY <3>4, <3>5, FS_Bijection
    <3> QED
      BY <3>5, <3>6 DEF S
  <2>6. NoneLeft(c, short)
    BY <2>4, <2>5 DEF NoneLeft, QueueLength
  <2> HIDE DEF all, next, sum, after, short
  <2> QED
    BY <1>6, <2>3, <2>6 DEF next, short
<1> QED
  BY <1>7, <1>8

-----------------------------------------------------------------------------
(* What the chain is after a transaction.  The sum of all Troves is taken   *)
(* off a set of addresses one by one (FoldFunction); that it is a Trove     *)
(* again is what keeps the base rate, which grows with a redemption's share *)
(* of the debt, an amount.                                                  *)

Pick(s) == CHOOSE x \in s : TRUE

\* One round of the recursion.
Summed(g, f, s) == IF s = {} THEN EmptyTrove ELSE Plus(f[Pick(s)], g[s \ {Pick(s)}])

Sums(g, f, D) == g = [s \in D |-> Summed(g, f, s)]

UpTo(S, n) == {s \in SUBSET S : Cardinality(s) <= n}

LEMMA OneTaken ==
    ASSUME NEW S, IsFiniteSet(S), NEW s \in SUBSET S, s # {}
    PROVE  /\ Pick(s) \in s
           /\ s \ {Pick(s)} \in SUBSET S
           /\ Cardinality(s) \in Nat /\ Cardinality(s) > 0
           /\ Cardinality(s \ {Pick(s)}) = Cardinality(s) - 1
<1>1. Pick(s) \in s
  BY DEF Pick
<1>2. IsFiniteSet(s) /\ Cardinality(s) \in Nat
  BY FS_Subset, FS_CardinalityType
<1> QED
  BY <1>1, <1>2, FS_RemoveElement, FS_EmptySet

LEMMA PlusType == \A s, t \in Troves : Plus(s, t) \in Troves
  BY DEF Plus, Troves, Trove

LEMMA SumExists ==
    ASSUME NEW S, IsFiniteSet(S), NEW f
    PROVE  \E g : Sums(g, f, SUBSET S)
<1> DEFINE Bad == {n \in Nat : ~\E g : Sums(g, f, UpTo(S, n))}
<1>1. Bad = {}
  <2> SUFFICES ASSUME Bad # {} PROVE FALSE
    OBVIOUS
  <2>1. PICK n \in Bad : \A k \in Bad : ~(k < n)
    BY LeastNumber
  <2>2. n \in Nat /\ ~\E g : Sums(g, f, UpTo(S, n))
    OBVIOUS
  <2>3. CASE n = 0
    <3> DEFINE g == [s \in UpTo(S, 0) |-> EmptyTrove]
    <3>1. \A s \in UpTo(S, 0) : s = {}
      BY FS_Subset, FS_CardinalityType, FS_EmptySet DEF UpTo
    <3>2. Sums(g, f, UpTo(S, 0))
      BY <3>1 DEF Sums, Summed
    <3> QED
      BY <2>2, <2>3, <3>2
  <2>4. CASE n # 0
    <3>1. n - 1 \in Nat /\ n - 1 \notin Bad
      BY <2>1, <2>2, <2>4
    <3>2. PICK h : Sums(h, f, UpTo(S, n - 1))
      BY <3>1
    <3> DEFINE g == [s \in UpTo(S, n) |-> Summed(h, f, s)]
    <3>3. ASSUME NEW s \in UpTo(S, n), s # {}
          PROVE  /\ s \ {Pick(s)} \in UpTo(S, n - 1)
                 /\ s \ {Pick(s)} \in UpTo(S, n)
      BY <2>2, <3>3, OneTaken DEF UpTo
    <3>4. ASSUME NEW s \in UpTo(S, n - 1) PROVE g[s] = h[s]
      <4>1. s \in UpTo(S, n)
        <5>1. IsFiniteSet(s) /\ Cardinality(s) \in Nat
          BY FS_Subset, FS_CardinalityType DEF UpTo
        <5> QED
          BY <2>2, <5>1 DEF UpTo
      <4> QED
        BY <3>2, <4>1 DEF Sums
    <3>5. ASSUME NEW s \in UpTo(S, n) PROVE Summed(h, f, s) = Summed(g, f, s)
      <4> HIDE DEF g
      <4> QED
        BY <3>3, <3>4 DEF Summed
    <3>6. Sums(g, f, UpTo(S, n))
      BY <3>5 DEF Sums
    <3> QED
      BY <2>2, <3>6
  <2> QED
    BY <2>3, <2>4
<1>2. Cardinality(S) \in Nat
  BY FS_CardinalityType
<1>3. UpTo(S, Cardinality(S)) = SUBSET S
  BY FS_Subset DEF UpTo
<1>4. \E g : Sums(g, f, UpTo(S, Cardinality(S)))
  BY <1>1, <1>2
<1> QED
  BY <1>3, <1>4

LEMMA SumsAreTroves ==
    ASSUME NEW S, IsFiniteSet(S), NEW f, \A x \in S : f[x] \in Troves,
           NEW g, Sums(g, f, SUBSET S)
    PROVE  \A s \in SUBSET S : g[s] \in Troves
<1> DEFINE Bad == {n \in Nat : \E s \in SUBSET S : Cardinality(s) = n /\ g[s] \notin Troves}
<1>1. ASSUME NEW s \in SUBSET S, g[s] \notin Troves PROVE FALSE
  <2>1. Cardinality(s) \in Nat
    BY FS_Subset, FS_CardinalityType
  <2>2. Bad # {}
    BY <1>1, <2>1
  <2>3. PICK n \in Bad : \A k \in Bad : ~(k < n)
    BY <2>2, LeastNumber
  <2>4. PICK t \in SUBSET S : Cardinality(t) = n /\ g[t] \notin Troves
    OBVIOUS
  <2>5. g[t] = Summed(g, f, t)
    BY DEF Sums
  <2>6. EmptyTrove \in Troves
    BY DEF EmptyTrove, Trove, Troves
  <2>7. t # {}
    BY <2>4, <2>5, <2>6 DEF Summed
  <2>8. /\ Pick(t) \in t /\ t \ {Pick(t)} \in SUBSET S
        /\ Cardinality(t \ {Pick(t)}) = n - 1 /\ n \in Nat /\ n > 0
    BY <2>4, <2>7, OneTaken
  <2>9. g[t \ {Pick(t)}] \in Troves
    BY <2>3, <2>8
  <2>10. Plus(f[Pick(t)], g[t \ {Pick(t)}]) \in Troves
    BY <2>8, <2>9, PlusType
  <2> QED
    BY <2>4, <2>5, <2>7, <2>10 DEF Summed
<1> QED
  BY <1>1

LEMMA TotalType ==
    ASSUME NEW c, IsChain(c)
    PROVE  Total(c) \in Troves
<1> DEFINE S == Owners(c)
           f == c.troves
           g == CHOOSE h : Sums(h, f, SUBSET S)
<1>1. IsFiniteSet(S) /\ \A x \in S : f[x] \in Troves
  BY ChainFields, OwnersHave
<1>2. Sums(g, f, SUBSET S)
  BY <1>1, SumExists
<1>3. Total(c) = g[S]
  BY DEF Total, FoldFunction, FoldFunctionOnSet, MapThenFoldSet, Sums, Summed, Pick, Owners
<1> HIDE DEF g, S, f
<1>4. S \in SUBSET S
  OBVIOUS
<1> QED
  BY <1>1, <1>2, <1>3, <1>4, SumsAreTroves

LEMMA Amounts ==
    \A a, b \in Nat : Mul(a, b) \in Nat /\ Div(a, b) \in Nat /\ Less(a, b) \in Nat
<1> SUFFICES ASSUME NEW a \in Nat, NEW b \in Nat
             PROVE  Mul(a, b) \in Nat /\ Div(a, b) \in Nat /\ Less(a, b) \in Nat
  OBVIOUS
<1>1. DIGITS \in Nat \ {0} /\ INFINITY \in Nat
  BY ScaleAssumption
<1>2. a * b \in Nat /\ a * DIGITS \in Nat
  BY <1>1, SMT
<1>3. Mul(a, b) \in Nat
  <2> DEFINE n == a * b
  <2>1. n \in Nat /\ Mul(a, b) = n \div DIGITS
    BY <1>2 DEF Mul
  <2> HIDE DEF n
  <2> QED
    BY <1>1, <2>1, Quotient
<1>4. Div(a, b) \in Nat
  <2> DEFINE n == a * DIGITS
  <2>1. n \in Nat /\ Div(a, b) = IF b = 0 THEN INFINITY ELSE n \div b
    BY <1>2 DEF Div
  <2> HIDE DEF n
  <2> QED
    BY <1>1, <2>1, Quotient
<1> QED
  BY <1>3, <1>4 DEF Less

\* The fields of a chain, the list apart.
Clocked(T) == [minute : Nat, lastFeeOperation : Nat, baseRate : Nat, price : Nat,
               gain : Nat, troves : {T}, due : BOOLEAN]

LEMMA ChainIs ==
    ASSUME NEW c, NEW T, c \in Clocked(T), IsFiniteSet(DOMAIN T),
           DOMAIN T \subseteq Nat \ {0}, T \in [DOMAIN T -> OpenTroves]
    PROVE  IsChain(c)
<1>1. c.troves = T
  BY DEF Clocked
<1> QED
  BY <1>1 DEF IsChain, Owners, AddressZero, Clocked

LEMMA ChainHas ==
    ASSUME NEW c, IsChain(c)
    PROVE  c \in Clocked(c.troves)
  BY DEF IsChain, Clocked

\* Whatever leaves the list alone leaves a chain.
LEMMA SameList ==
    ASSUME NEW c, IsChain(c), NEW d, d \in Clocked(c.troves)
    PROVE  IsChain(d) /\ d.troves = c.troves
<1>1. IsChain(d)
  BY ChainFields, ChainIs DEF Owners
<1> QED
  BY <1>1 DEF Clocked

LEMMA WithIs ==
    ASSUME NEW c, IsChain(c), NEW o \in Nat \ {0}, NEW t \in OpenTroves
    PROVE  IsChain(With(c, o, t)) /\ With(c, o, t).troves[o] = t
<1> DEFINE T == [x \in Owners(c) \cup {o} |-> IF x = o THEN t ELSE c.troves[x]]
<1>1. T \in [DOMAIN T -> OpenTroves] /\ T[o] = t
  BY ChainFields
<1>2. DOMAIN T = Owners(c) \cup {o} /\ DOMAIN T \subseteq Nat \ {0}
  BY ChainFields
<1>3. IsFiniteSet(DOMAIN T)
  BY <1>2, ChainFields, FS_AddElement
<1>4. With(c, o, t) = [c EXCEPT !.troves = T]
  BY DEF With
<1> HIDE DEF T
<1>5. [c EXCEPT !.troves = T] \in Clocked(T) /\ [c EXCEPT !.troves = T].troves = T
  BY ChainHas DEF Clocked
<1> QED
  BY <1>1, <1>2, <1>3, <1>4, <1>5, ChainIs

LEMMA RestrictedIs ==
    ASSUME NEW c, IsChain(c), NEW S
    PROVE  IsChain([c EXCEPT !.troves = Restrict(@, DOMAIN @ \ S)])
<1> DEFINE T == [x \in Owners(c) \ S |-> c.troves[x]]
           d == [c EXCEPT !.troves = Restrict(@, DOMAIN @ \ S)]
<1>1. T \in [DOMAIN T -> OpenTroves]
  BY ChainFields
<1>2. DOMAIN T = Owners(c) \ S /\ DOMAIN T \subseteq Nat \ {0}
  BY ChainFields
<1>3. IsFiniteSet(DOMAIN T)
  <2>1. Owners(c) \ S \in SUBSET Owners(c)
    OBVIOUS
  <2> QED
    BY <1>2, <2>1, ChainFields, FS_Subset
<1>4. d = [c EXCEPT !.troves = T]
  BY ChainFields DEF Restrict, Owners
<1> HIDE DEF T
<1>5. [c EXCEPT !.troves = T] \in Clocked(T)
  BY ChainHas DEF Clocked
<1> HIDE DEF d
<1>6. IsChain(d)
  BY <1>1, <1>2, <1>3, <1>4, <1>5, ChainIs
<1> QED
  BY <1>6 DEF d

LEMMA FeesType ==
    ASSUME NEW c, IsChain(c)
    PROVE  /\ BaseRate(Fees(c), c.minute) \in Nat
           /\ BorrowingRate(Fees(c), c.minute) \in Nat
<1> DEFINE fees == Fees(c)
<1>1. fees.base \in Nat /\ fees.lastFeeOperation \in Nat /\ c.minute \in Nat
  BY ChainFields DEF Fees
<1>2. MAXIMUM_BORROWING_RATE \in Nat
  BY ParametersAssumption
<1> HIDE DEF fees
<1>3. /\ BaseRate(fees, c.minute) \in 0 .. fees.base
      /\ BorrowingRate(fees, c.minute) \in 0 .. MAXIMUM_BORROWING_RATE
  BY <1>1, RatesAreBounded
<1> QED
  BY <1>1, <1>2, <1>3 DEF fees

LEMMA FeeOperationIs ==
    ASSUME NEW c, IsChain(c), NEW r \in Nat
    PROVE  IsChain(FeeOperation(c, r)) /\ FeeOperation(c, r).troves = c.troves
<1>1. FeeOperation(c, r) \in Clocked(c.troves)
  BY ChainHas, ChainFields DEF Clocked, FeeOperation
<1> QED
  BY <1>1, SameList

\* A transaction that the contracts refuse leaves the chain as it is.
IsRefused(r, c) == r.ok = FALSE /\ r.chain = c

\* One that leaves the own Trove as its logs tell.
Leaves(r, t) ==
    /\ r.ok = TRUE /\ IsChain(r.chain) /\ r.chain.troves[Own] = t
    /\ Extract(r.logs, "borrowerOperations", "TroveUpdated") = t

LEMMA Refusal == \A c, why : IsRefused(Refused(c, why), c)
  BY DEF Refused, IsRefused

\* The parameters of a loan that the contracts are called with.
IsLoan(change) ==
    /\ change \in Parameters /\ change.type \in {"creation", "adjustment"}
    /\ change.type = "creation" => ~CreationThrows(change)

LEMMA FeeType == \A rate, amount \in Nat : ApplyFee(rate, amount) \in Nat
<1> SUFFICES ASSUME NEW rate \in Nat, NEW amount \in Nat PROVE ApplyFee(rate, amount) \in Nat
  OBVIOUS
<1>1. ONE + rate \in Nat
  BY ScaleAssumption DEF ONE
<1> QED
  BY <1>1, Amounts DEF ApplyFee

LEMMA LoanApplied ==
    ASSUME NEW change, IsLoan(change), NEW rate \in Nat, NEW before \in Troves
    PROVE  /\ Apply(before, change, rate) \in Troves \cup {Thrown}
           /\ (change.type = "creation" => IsEmpty(before))
                 => Apply(before, change, rate) \in Troves
<1> DEFINE borrowed == IF change.borrowDebtToken = Absent THEN 0
                       ELSE ApplyFee(rate, change.borrowDebtToken)
<1>1. /\ change.setToZero = "none"
      /\ {change.depositCollateral, change.withdrawCollateral,
          change.borrowDebtToken, change.repayDebtToken} \subseteq Nat \cup {Absent}
      /\ change.type = "creation" => /\ change.depositCollateral \in Nat
                                     /\ change.borrowDebtToken \in Nat
  BY DEF IsLoan, Parameters, CreationThrows
<1>2. borrowed \in Nat
  BY <1>1, FeeType
<1>3. CASE change.type = "creation"
  <2>1. LIQUIDATION_RESERVE + ApplyFee(rate, change.borrowDebtToken) \in Nat
    <3>1. ApplyFee(rate, change.borrowDebtToken) \in Nat
      BY <1>1, <1>3, FeeType
    <3>2. LIQUIDATION_RESERVE \in Nat
      BY ParametersAssumption
    <3> QED
      BY <3>1, <3>2
  <2>2. Trove(change.depositCollateral,
              LIQUIDATION_RESERVE + ApplyFee(rate, change.borrowDebtToken)) \in Troves
    <3> HIDE DEF ApplyFee
    <3> QED
      BY <1>1, <1>3, <2>1 DEF Trove, Troves
  <2> QED
    BY <1>3, <2>2 DEF Apply, ApplyThrows
<1>4. CASE change.type = "adjustment"
  <2>1. OrZero(change.depositCollateral) \in Nat /\ OrZero(change.withdrawCollateral) \in Nat
        /\ OrZero(change.repayDebtToken) \in Nat
    BY <1>1 DEF OrZero
  <2> DEFINE up == Trove(OrZero(change.depositCollateral), borrowed)
             down == Trove(OrZero(change.withdrawCollateral), OrZero(change.repayDebtToken))
  <2>2. up \in Troves /\ down \in Troves
    <3> HIDE DEF borrowed
    <3> QED
      BY <1>2, <2>1 DEF Trove, Troves
  <2>3. Adjusted(before, change, rate) = Subtract(Plus(before, up), down)
    BY <1>1 DEF Adjusted
  <2> HIDE DEF up, down
  <2>4. Subtract(Plus(before, up), down) \in Troves
    BY <2>2 DEF Plus, Subtract, Trove, Troves, Less
  <2> QED
    BY <1>4, <2>3, <2>4 DEF Apply, ApplyThrows
<1> QED
  BY <1>3, <1>4 DEF IsLoan

\* extractEvents() of the logs of a loan: the first TroveUpdated is another
\* contract's.
LEMMA LoanLogs ==
    ASSUME NEW a, NEW logs, NEW t, NEW fee,
           logs = <<Log("troveManager", "TroveUpdated", a),
                    Log("borrowerOperations", "TroveUpdated", t),
                    Log("borrowerOperations", "DebtTokenBorrowingFeePaid", fee)>>
    PROVE  Extract(logs, "borrowerOperations", "TroveUpdated") = t
<1> DEFINE S == {i \in DOMAIN logs : /\ logs[i].address = "borrowerOperations"
                                     /\ logs[i].name = "TroveUpdated"}
<1>1. DOMAIN logs = {1, 2, 3}
  BY DEF Log
<1>2. /\ logs[1].address = "troveManager" /\ logs[2].address = "borrowerOperations"
      /\ logs[2].name = "TroveUpdated" /\ logs[2].args = t
      /\ logs[3].name = "DebtTokenBorrowingFeePaid"
  BY DEF Log
<1>3. S = {2}
  BY <1>1, <1>2
<1>4. (CHOOSE i \in {2} : \A j \in {2} : i <= j) = 2
  OBVIOUS
<1>5. FirstOf(logs, {2}) = logs[2]
  BY <1>4 DEF FirstOf
<1>6. Extract(logs, "borrowerOperations", "TroveUpdated") = FirstOf(logs, S).args
  BY DEF Extract
<1> QED
  BY <1>2, <1>3, <1>5, <1>6

LEMMA GainLogs ==
    ASSUME NEW logs, NEW t, NEW gain,
           logs = <<Log("stabilityPool", "FILGainWithdrawn", gain),
                    Log("borrowerOperations", "TroveUpdated", t)>>
    PROVE  Extract(logs, "borrowerOperations", "TroveUpdated") = t
<1> DEFINE S == {i \in DOMAIN logs : /\ logs[i].address = "borrowerOperations"
                                     /\ logs[i].name = "TroveUpdated"}
<1>1. DOMAIN logs = {1, 2}
  BY DEF Log
<1>2. /\ logs[1].address = "stabilityPool" /\ logs[2].address = "borrowerOperations"
      /\ logs[2].name = "TroveUpdated" /\ logs[2].args = t
  BY DEF Log
<1>3. S = {2}
  BY <1>1, <1>2
<1>4. (CHOOSE i \in {2} : \A j \in {2} : i <= j) = 2
  OBVIOUS
<1>5. FirstOf(logs, {2}) = logs[2]
  BY <1>4 DEF FirstOf
<1>6. Extract(logs, "borrowerOperations", "TroveUpdated") = FirstOf(logs, S).args
  BY DEF Extract
<1> QED
  BY <1>2, <1>3, <1>5, <1>6

LEMMA BorrowIs ==
    ASSUME NEW c, IsChain(c), NEW t, IsLoan(t.change)
    PROVE  \/ IsRefused(Borrow(c, t), c)
           \/ \E trove : Leaves(Borrow(c, t), trove)
<1> DEFINE rate   == BorrowingRate(Fees(c), c.minute)
           opens  == t.change.type = "creation"
           before == IF opens THEN EmptyTrove ELSE c.troves[Own]
           trove  == Apply(before, t.change, rate)
           paid   == IF t.change.borrowDebtToken = Absent THEN c
                     ELSE FeeOperation(c, BaseRate(Fees(c), c.minute))
           next   == With(paid, Own, trove)
           borrows == t.change.borrowDebtToken # Absent
           fee    == IF borrows THEN Mul(rate, t.change.borrowDebtToken) ELSE 0
           cost   == BaseGas
                       + WalkGas(Hops(Without(c, Own), NominalRatio(trove), t.hints))
                       + (IF borrows THEN BaseRateGas(c) ELSE 0)
           logs   == <<Log("troveManager", "TroveUpdated", EmptyTrove),
                       Log("borrowerOperations", "TroveUpdated", trove),
                       Log("borrowerOperations", "DebtTokenBorrowingFeePaid", fee)>>
<1>1. Borrow(c, t) = IF opens = (Own \in Owners(c)) THEN Refused(c, "status")
                     ELSE BorrowAt(c, t, rate, trove, next)
  BY Zenon DEF Borrow, BorrowRate, BorrowTrove
<1>2. BorrowAt(c, t, rate, trove, next)
        = IF borrows /\ rate > t.maxRate THEN Refused(c, "fee")
          ELSE IF trove.debt < MINIMUM_DEBT THEN Refused(c, "debt")
          ELSE IF ~SafeEnough(c, trove, next) THEN Refused(c, "ratio")
          ELSE Done(next, cost, logs)
  BY Zenon DEF BorrowAt
<1>3. rate \in Nat
  BY FeesType
<1>4. IsChain(paid)
  BY FeesType, FeeOperationIs
<1>5. ASSUME ~(opens = (Own \in Owners(c))), ~(trove.debt < MINIMUM_DEBT)
      PROVE  trove \in OpenTroves
  <2>1. before \in Troves
    <3>1. EmptyTrove \in Troves
      BY DEF EmptyTrove, Trove, Troves
    <3>2. ~opens => Own \in Owners(c)
      BY <1>5
    <3> QED
      BY <3>1, <3>2, OwnersHave
  <2> HIDE DEF before, rate
  <2>2. trove \in Troves \cup {Thrown}
    BY <1>3, <2>1, LoanApplied
  <2> HIDE DEF trove
  <2>3. MINIMUM_DEBT \in Nat
    BY ParametersAssumption DEF MINIMUM_DEBT
  <2>4. Thrown.debt = -1
    BY DEF Thrown, Trove
  <2>5. trove \in Troves
    BY <1>5, <2>2, <2>3, <2>4
  <2> QED
    BY <1>5, <2>3, <2>5 DEF OpenTroves, Troves
<1> HIDE DEF trove, paid, rate, before, cost, fee
<1>6. ASSUME trove \in OpenTroves, Borrow(c, t) = Done(next, cost, logs)
      PROVE  Leaves(Borrow(c, t), trove)
  <2>1. Own \in Nat \ {0}
    BY ListAssumption
  <2>2. IsChain(next) /\ next.troves[Own] = trove
    BY <1>4, <1>6, <2>1, WithIs
  <2>3. Extract(logs, "borrowerOperations", "TroveUpdated") = trove
    BY LoanLogs
  <2> HIDE DEF next, logs
  <2>4. /\ Done(next, cost, logs).ok = TRUE /\ Done(next, cost, logs).chain = next
        /\ Done(next, cost, logs).logs = logs
    BY DEF Done
  <2> QED
    BY <1>6, <2>2, <2>3, <2>4 DEF Leaves
<1> HIDE DEF next, logs
<1>7. \/ \E why : Borrow(c, t) = Refused(c, why)
      \/ /\ ~(opens = (Own \in Owners(c))) /\ ~(trove.debt < MINIMUM_DEBT)
         /\ Borrow(c, t) = Done(next, cost, logs)
  BY <1>1, <1>2, Zenon
<1>8. CASE \E why : Borrow(c, t) = Refused(c, why)
  BY <1>8, Refusal
<1> QED
  BY <1>5, <1>6, <1>7, <1>8

LEMMA MoveGainIs ==
    ASSUME NEW c, IsChain(c), NEW t
    PROVE  \/ IsRefused(MoveGain(c, t), c)
           \/ \E trove : Leaves(MoveGain(c, t), trove)
<1> DEFINE trove == Plus(c.troves[Own], Trove(c.gain, 0))
           next  == [With(c, Own, trove) EXCEPT !.gain = 0, !.due = FALSE]
           cost  == BaseGas + IssuanceGas(c)
                      + WalkGas(Hops(Without(c, Own), NominalRatio(trove), t.hints))
           logs  == <<Log("stabilityPool", "FILGainWithdrawn", c.gain),
                      Log("borrowerOperations", "TroveUpdated", trove)>>
<1>1. MoveGain(c, t) = IF Own \notin Owners(c) \/ c.gain = 0 THEN Refused(c, "status")
                       ELSE Done(next, cost, logs)
  BY Zenon DEF MoveGain
<1>2. ASSUME Own \in Owners(c) PROVE trove \in OpenTroves
  <2> DEFINE a == c.troves[Own]
  <2>1. a \in Troves /\ MINIMUM_DEBT <= a.debt /\ c.gain \in Nat
    BY <1>2, OwnersHave, ChainFields
  <2> HIDE DEF a
  <2>2. Plus(a, Trove(c.gain, 0)) \in OpenTroves
    BY <2>1 DEF Plus, Trove, Troves, OpenTroves
  <2> QED
    BY <2>2 DEF a
<1> HIDE DEF trove, cost
<1>3. ASSUME Own \in Owners(c), MoveGain(c, t) = Done(next, cost, logs)
      PROVE  Leaves(MoveGain(c, t), trove)
  <2>1. Own \in Nat \ {0}
    BY ListAssumption
  <2>2. IsChain(With(c, Own, trove)) /\ With(c, Own, trove).troves[Own] = trove
    BY <1>2, <1>3, <2>1, WithIs
  <2>3. next \in Clocked(With(c, Own, trove).troves)
    <3> DEFINE w == With(c, Own, trove)
    <3> HIDE DEF w
    <3>1. w \in Clocked(w.troves)
      BY <2>2, ChainHas DEF w
    <3>2. [w EXCEPT !.gain = 0, !.due = FALSE] \in Clocked(w.troves)
      BY <3>1 DEF Clocked
    <3> QED
      BY <3>2 DEF w
  <2> HIDE DEF next
  <2>4. IsChain(next) /\ next.troves[Own] = trove
    BY <2>2, <2>3, SameList
  <2>5. Extract(logs, "borrowerOperations", "TroveUpdated") = trove
    BY GainLogs
  <2> HIDE DEF logs
  <2>6. /\ Done(next, cost, logs).ok = TRUE /\ Done(next, cost, logs).chain = next
        /\ Done(next, cost, logs).logs = logs
    BY DEF Done
  <2> QED
    BY <1>3, <2>4, <2>5, <2>6 DEF Leaves
<1> HIDE DEF next, logs
<1>4. CASE Own \notin Owners(c) \/ c.gain = 0
  BY <1>1, <1>4, Refusal
<1> QED
  BY <1>1, <1>3, <1>4

\* A transaction that the contracts carry out leaves a chain.
IsDone(r) == r.ok = TRUE /\ IsChain(r.chain)

LEMMA CloseIs ==
    ASSUME NEW c, IsChain(c)
    PROVE  IsRefused(Close(c), c) \/ IsDone(Close(c))
<1>1. IsChain(Without(c, Own))
  BY WithoutIs
<1>2. \A cost, logs : IsDone(Done(Without(c, Own), cost, logs))
  BY <1>1 DEF Done, IsDone
<1>3. \/ \E why : Close(c) = Refused(c, why)
      \/ \E cost, logs : Close(c) = Done(Without(c, Own), cost, logs)
  BY Zenon DEF Close
<1> QED
  BY <1>2, <1>3, Refusal

LEMMA SimpleIs ==
    ASSUME NEW c, IsChain(c), NEW function
    PROVE  IsDone(Simple(c, function))
<1>1. [c EXCEPT !.due = FALSE] \in Clocked(c.troves)
  BY ChainHas DEF Clocked
<1>2. IsChain([c EXCEPT !.due = FALSE])
  BY <1>1, SameList
<1> QED
  BY <1>2 DEF Simple, Done, IsDone

LEMMA RedeemIs ==
    ASSUME NEW c, IsChain(c), NEW t, t.amount \in Nat
    PROVE  IsRefused(Redeem(c, t), c) \/ IsDone(Redeem(c, t))
<1> DEFINE all   == Clearing(c, c.price, t.amount)
           amount == t.amount - all.amount
           after == Reduced(c.troves[all.partial], amount, c.price)
           part  == all.partial # 0 /\ ComesOut(after, t.ratio)
           actual == IF part THEN t.amount ELSE all.amount
           gone  == IF part THEN all.cleared \cup {all.partial} ELSE all.cleared
           left  == [c EXCEPT !.troves = Restrict(@, DOMAIN @ \ gone)]
           next  == IF part THEN With(left, all.partial, after) ELSE left
           grown == GrownRate(c, actual)
           cost  == BaseGas + BaseRateGas(c)
                      + (IF next = left THEN 0
                         ELSE WalkGas(Hops(left, t.ratio, t.hints)))
           logs  == <<Log("troveManager", "Redemption", actual)>>
<1>1. Redeem(c, t) = Redeemed(c, t, left, next, actual, grown)
  BY Zenon DEF Redeem, RedeemClearing, RedeemThese, AddressZero
<1>2. /\ all.amount \in Nat /\ all.amount <= t.amount
      /\ all.partial # 0 => all.partial \in Owners(c)
  <2> DEFINE n == QueueLength(c, c.price)
             k == Cleared(c, c.price, t.amount)
             q == Queue(c, c.price)
             sum == SumsOf(c, c.price)
  <2>1. /\ n \in Nat /\ k \in 0 .. n
        /\ sum[k] \in Nat /\ sum[k] <= t.amount /\ all.amount = sum[k]
        /\ all.partial = IF k < n /\ t.amount > sum[k] THEN q[k + 1] ELSE 0
    BY ClearingIs
  <2>2. q \in [1 .. n -> Owners(c)]
    BY QueueIs
  <2> HIDE DEF n, k, q, sum, all
  <2> QED
    BY <2>1, <2>2
<1>3. amount \in Nat /\ c.price \in Nat /\ actual \in Nat
  BY <1>2, ChainFields
<1>4. ASSUME part PROVE after \in OpenTroves /\ all.partial \in Nat \ {0}
  <2> DEFINE a == c.troves[all.partial]
  <2>1. a \in Troves /\ MINIMUM_DEBT <= a.debt /\ all.partial \in Nat \ {0}
    BY <1>2, <1>4, OwnersHave
  <2>2. after.debt >= MINIMUM_DEBT
    BY <1>4 DEF ComesOut
  <2>3. after = Trove(Less(a.collateral, Div(amount, c.price)), a.debt - amount)
    BY DEF Reduced
  <2> HIDE DEF a, amount, after, all, part
  <2>4. Less(a.collateral, Div(amount, c.price)) \in Nat
    BY <1>3, <2>1, Amounts DEF Troves
  <2> DEFINE collateral == Less(a.collateral, Div(amount, c.price))
  <2> HIDE DEF collateral
  <2>5. MINIMUM_DEBT \in Nat /\ a.debt \in Nat
    BY <2>1, ParametersAssumption DEF Troves, MINIMUM_DEBT
  <2>6. after.debt = a.debt - amount /\ after = Trove(collateral, a.debt - amount)
    BY <2>3 DEF Trove, collateral
  <2>7. a.debt - amount \in Nat
    BY <1>3, <2>2, <2>5, <2>6
  <2>8. Trove(collateral, a.debt - amount) \in Troves
    BY <2>4, <2>7 DEF Trove, Troves, collateral
  <2> QED
    BY <2>1, <2>2, <2>5, <2>6, <2>7, <2>8 DEF OpenTroves
<1>5. IsChain(left)
  BY RestrictedIs
<1>6. grown \in Nat
  <2> HIDE DEF actual
  <2>1. Total(c).debt \in Nat /\ BaseRate(Fees(c), c.minute) \in Nat
    BY TotalType, FeesType DEF Troves
  <2>2. Div(Div(actual, Total(c).debt), Beta) \in Nat
    <3>1. Beta \in Nat
      BY ParametersAssumption
    <3> QED
      BY <1>3, <2>1, <3>1, Amounts
  <2>3. ONE \in Nat
    BY ScaleAssumption DEF ONE
  <2> DEFINE x == BaseRate(Fees(c), c.minute)
             y == Div(Div(actual, Total(c).debt), Beta)
  <2>4. grown = Smaller(ONE, x + y)
    BY DEF GrownRate
  <2> HIDE DEF x, y
  <2> QED
    BY <2>1, <2>2, <2>3, <2>4 DEF Smaller, x, y
<1> HIDE DEF after, part, actual, left, all, amount
<1>7. IsChain(next)
  BY <1>4, <1>5, WithIs
<1> HIDE DEF next, grown, cost, logs
<1>8. IsChain(FeeOperation(next, grown))
  BY <1>6, <1>7, FeeOperationIs
<1>9. IsDone(Done(FeeOperation(next, grown), cost, logs))
  BY <1>8 DEF Done, IsDone
<1>10. \/ \E why : Redeem(c, t) = Refused(c, why)
       \/ Redeem(c, t) = Done(FeeOperation(next, grown), cost, logs)
  BY <1>1, Zenon DEF Redeemed, cost, logs
<1> QED
  BY <1>9, <1>10, Refusal

LEMMA ExecuteIs ==
    ASSUME NEW c, IsChain(c), NEW t, Trades(t) => IsLoan(t.change),
           Redeems(t) => t.amount \in Nat
    PROVE  IsRefused(Execute(c, t), c) \/ IsDone(Execute(c, t))
<1>1. \A r, trove : Leaves(r, trove) => IsDone(r)
  BY DEF Leaves, IsDone
<1>2. CASE Trades(t)
  <2>1. Execute(c, t) = Borrow(c, t)
    BY <1>2 DEF Execute, Trades, Redeems
  <2>2. \/ IsRefused(Borrow(c, t), c)
        \/ \E trove : Leaves(Borrow(c, t), trove)
    BY <1>2, BorrowIs
  <2> QED
    BY <1>1, <2>1, <2>2
<1>3. CASE Redeems(t)
  BY <1>3, RedeemIs DEF Execute, Trades, Redeems
<1>4. CASE t.function = "closeTrove"
  BY <1>4, CloseIs DEF Execute, Trades, Redeems
<1>5. CASE t.function = "transferCollateralGainToTrove"
  BY <1>1, <1>5, MoveGainIs DEF Execute, Trades, Redeems
<1>6. CASE /\ ~Trades(t) /\ ~Redeems(t) /\ t.function # "closeTrove"
           /\ t.function # "transferCollateralGainToTrove"
  BY <1>6, SimpleIs DEF Execute
<1> QED
  BY <1>2, <1>3, <1>4, <1>5, <1>6

LEMMA RunIs ==
    ASSUME NEW c, IsChain(c), NEW t, Trades(t) => IsLoan(t.change),
           Redeems(t) => t.amount \in Nat
    PROVE  /\ IsRefused(Run(c, t), c) \/ IsDone(Run(c, t))
           /\ Run(c, t).ok = TRUE => Run(c, t) = Execute(c, t)
<1> DEFINE r == Execute(c, t)
<1>1. Run(c, t) = IF r.ok /\ r.gas > t.gasLimit THEN Refused(c, "gas") ELSE r
  BY DEF Run, Limited
<1> HIDE DEF r
<1>2. IsRefused(r, c) \/ IsDone(r)
  BY ExecuteIs DEF r
<1>3. Run(c, t) = r \/ Run(c, t) = Refused(c, "gas")
  BY <1>1
<1>4. IsRefused(Refused(c, "gas"), c)
  BY Refusal
<1> QED
  BY <1>2, <1>3, <1>4 DEF IsRefused, r

-----------------------------------------------------------------------------
(* The types of what a call keeps.                                         *)

IsTx(t) ==
    t \in [function : {t.function}, change : {t.change}, amount : Nat,
           attempted : Nat, ratio : {t.ratio}, maxRate : {t.maxRate},
           hints : {t.hints}, gasLimit : {t.gasLimit}]

IsAnswer(name, value) ==
    /\ name = "fees" => value.base \in Nat /\ value.lastFeeOperation \in Nat
    /\ name \in {"timestamp", "price", "deposit"} => value \in Nat
    /\ name \in {"total", "trove"} => value \in Troves

IsSince(s) ==
    s \in [start : {s.start}, touched : {s.touched}, raised : {s.raised},
           priced : {s.priced}, mode : {s.mode}]

\* The chain is one that the contracts allow, the transaction is for the call,
\* and every answer is of its kind.
TypeInv ==
    /\ IsChain(chain) /\ IsTx(tx) /\ IsSince(since)
    /\ phase = "idle" => got = <<>> /\ tx = NoTx /\ promise = Pending
                         /\ since.touched = {}
    /\ phase # "idle" => /\ IsCall(call)
                         /\ tx.function = call.function /\ tx.change = call.change
    /\ phase \notin {"idle", "settled"} => (Trades(call) => IsLoan(call.change))
    /\ \A name \in DOMAIN got : IsAnswer(name, got[name])

LEMMA TypeInit == Init => TypeInv
<1> SUFFICES ASSUME Init PROVE TypeInv
  OBVIOUS
<1>1. IsChain(chain)
  BY TransactAssumption DEF Init
<1>2. IsTx(tx)
  BY DEF Init, NoTx, IsTx
<1>3. IsSince(since) /\ since.touched = {}
  BY DEF Init, IsSince
<1>4. \A name \in DOMAIN got : IsAnswer(name, got[name])
  <2>1. got = <<>>
    BY DEF Init
  <2>2. DOMAIN <<>> = {}
    OBVIOUS
  <2> QED
    BY <2>1, <2>2
<1> QED
  BY <1>1, <1>2, <1>3, <1>4 DEF Init, TypeInv

\* What happens on the chain meanwhile leaves a chain.
LEMMA WorldIs ==
    ASSUME IsChain(chain), World
    PROVE  \E c : IsChain(c) /\ Happens(c)
<1>1. chain \in Clocked(chain.troves)
  BY ChainHas
<1>2. CASE Tick
  <2> DEFINE c == [chain EXCEPT !.minute = @ + 1]
  <2>1. c \in Clocked(chain.troves)
    BY <1>1 DEF Clocked
  <2>2. IsChain(c)
    BY <2>1, SameList
  <2> QED
    BY <1>2, <2>2 DEF Tick
<1>3. CASE RedeemElsewhere
  <2> DEFINE t == [amount |-> RedeemedElsewhere, ratio |-> 0, maxRate |-> ONE,
                   hints |-> <<0, 0>>]
             r == Redeem(chain, t)
  <2>1. r.ok /\ Happens(r.chain)
    BY <1>3 DEF RedeemElsewhere
  <2>2. t.amount \in Nat
    BY TransactAssumption
  <2> HIDE DEF t
  <2>3. IsRefused(r, chain) \/ IsDone(r)
    BY <2>2, RedeemIs
  <2> HIDE DEF r
  <2>4. IsChain(r.chain)
    BY <2>1, <2>3 DEF IsRefused, IsDone
  <2> QED
    BY <2>1, <2>4
<1>4. CASE LiquidateElsewhere
  <2> DEFINE c == [chain EXCEPT !.gain = @ + GainStep, !.due = TRUE]
  <2>1. chain.gain + GainStep \in Nat
    BY ChainFields, TransactAssumption
  <2>2. c \in Clocked(chain.troves)
    <3> DEFINE g == chain.gain + GainStep
    <3>1. c = [chain EXCEPT !.gain = g, !.due = TRUE]
      OBVIOUS
    <3> HIDE DEF g, c
    <3> QED
      BY <1>1, <2>1, <3>1 DEF Clocked, g
  <2>3. IsChain(c)
    BY <2>2, SameList
  <2> QED
    BY <1>4, <2>3 DEF LiquidateElsewhere
<1>5. ASSUME NEW o \in DOMAIN NewTroves, Elsewhere(o, NewTroves[o])
      PROVE  \E c : IsChain(c) /\ Happens(c)
  <2> DEFINE d == FeeOperation(chain, BaseRate(Fees(chain), chain.minute))
             c == With(d, o, NewTroves[o])
  <2>1. Happens(c)
    BY <1>5 DEF Elsewhere
  <2>2. o \in Nat \ {0} /\ NewTroves[o] \in OpenTroves
    BY TransactAssumption DEF AddressZero
  <2>3. IsChain(d)
    BY FeesType, FeeOperationIs
  <2> HIDE DEF d
  <2>4. IsChain(c)
    BY <2>2, <2>3, WithIs
  <2> QED
    BY <2>1, <2>4
<1>6. ASSUME NEW o, CloseElsewhere(o) PROVE \E c : IsChain(c) /\ Happens(c)
  <2>1. Happens(Without(chain, o)) /\ IsChain(Without(chain, o))
    BY <1>6, WithoutIs DEF CloseElsewhere
  <2> QED
    BY <2>1
<1>7. ASSUME NEW p \in Prices, PriceMoves(p) PROVE \E c : IsChain(c) /\ Happens(c)
  <2> DEFINE c == [chain EXCEPT !.price = p]
  <2>1. c \in Clocked(chain.troves)
    BY <1>1, TransactAssumption DEF Clocked
  <2>2. IsChain(c)
    BY <2>1, SameList
  <2> QED
    BY <1>7, <2>2 DEF PriceMoves
<1> QED
  BY <1>2, <1>3, <1>4, <1>5, <1>6, <1>7 DEF World

LEMMA ReadType ==
    ASSUME NEW c, IsChain(c),
           NEW name \in {"fees", "timestamp", "total", "price", "trove", "deposit"}
    PROVE  IsAnswer(name, Read(c, name))
<1>1. /\ c.baseRate \in Nat /\ c.lastFeeOperation \in Nat /\ c.minute \in Nat
      /\ c.price \in Nat /\ c.gain \in Nat
  BY ChainFields
<1>2. Total(c) \in Troves /\ EmptyTrove \in Troves
  BY TotalType DEF EmptyTrove, Trove, Troves
<1>3. Own \in Owners(c) => c.troves[Own] \in Troves
  BY OwnersHave
<1> QED
  BY <1>1, <1>2, <1>3 DEF Read, IsAnswer

LEMMA NormalizedIs ==
    ASSUME NEW c, IsCall(c)
    PROVE  /\ IsCall(Normalized(c)) /\ Normalized(c).function = c.function
           /\ Normalized(c).amount = c.amount
           /\ ~InvalidParams(c) /\ Trades(c) => IsLoan(Normalized(c).change)
<1> DEFINE n == NormalizedAdjustment(c.change)
<1>1. c.change \in Parameters
  BY DEF IsCall
<1>2. n \in Parameters /\ n.type = c.change.type
  BY <1>1 DEF Parameters, NormalizedAdjustment, NonZero, Absent
<1>3. CASE c.function = "adjustTrove"
  <2>1. Normalized(c) = [c EXCEPT !.change = n]
    BY <1>3 DEF Normalized
  <2> HIDE DEF n
  <2>2. IsCall(Normalized(c)) /\ Normalized(c).function = c.function
        /\ Normalized(c).amount = c.amount /\ Normalized(c).change = n
    BY <1>2, <1>3, <2>1 DEF IsCall
  <2> QED
    BY <1>2, <1>3, <2>2 DEF IsCall, IsLoan
<1>4. CASE c.function # "adjustTrove"
  <2>1. Normalized(c) = c
    BY <1>4 DEF Normalized
  <2> QED
    BY <1>1, <1>4, <2>1 DEF IsCall, IsLoan, Trades, InvalidParams
<1> QED
  BY <1>3, <1>4

\* What the steps of a call make of the transaction.
Prepared(t, h, m, l)  == [t EXCEPT !.hints = h, !.maxRate = m, !.gasLimit = l]
WithLimit(t, l)       == [t EXCEPT !.gasLimit = l]
Truncated(t, a, r)    == [t EXCEPT !.amount = a, !.ratio = r]
MadeLarger(t, a, h, m, l) ==
    [t EXCEPT !.amount = a, !.attempted = a, !.ratio = 0,
              !.hints = h, !.maxRate = m, !.gasLimit = l]

\* It is for the same call, of that amount and at that ratio.
Keeps(s, t, amount, attempted, ratio) ==
    /\ IsTx(s) /\ s.function = t.function /\ s.change = t.change
    /\ s.amount = amount /\ s.attempted = attempted /\ s.ratio = ratio

LEMMA TxPrepared ==
    ASSUME NEW t, IsTx(t), NEW h, NEW m, NEW l
    PROVE  Keeps(Prepared(t, h, m, l), t, t.amount, t.attempted, t.ratio)
  BY DEF IsTx, Prepared, Keeps

LEMMA TxLimited ==
    ASSUME NEW t, IsTx(t), NEW l
    PROVE  Keeps(WithLimit(t, l), t, t.amount, t.attempted, t.ratio)
  BY DEF IsTx, WithLimit, Keeps

LEMMA TxTruncated ==
    ASSUME NEW t, IsTx(t), NEW a \in Nat, NEW r
    PROVE  Keeps(Truncated(t, a, r), t, a, t.attempted, r)
  BY DEF IsTx, Truncated, Keeps

LEMMA TxIncreased ==
    ASSUME NEW t, IsTx(t), NEW a \in Nat, NEW h, NEW m, NEW l
    PROVE  Keeps(MadeLarger(t, a, h, m, l), t, a, a, 0)
<1> DEFINE u == [t EXCEPT !.amount = a, !.attempted = a, !.ratio = 0]
<1>1. Keeps(u, t, a, a, 0)
  BY DEF IsTx, Keeps
<1>2. MadeLarger(t, a, h, m, l) = Prepared(u, h, m, l)
  BY DEF MadeLarger, Prepared
<1> HIDE DEF u
<1>3. Keeps(Prepared(u, h, m, l), u, u.amount, u.attempted, u.ratio)
  BY <1>1, TxPrepared DEF Keeps
<1> QED
  BY <1>1, <1>2, <1>3 DEF Keeps

\* The amounts that are called redeemable.
LEMMA TruncatedType ==
    ASSUME NEW c, IsChain(c), NEW amount \in Nat, NEW price
    PROVE  GetRedemptionHints(c, amount, price).truncated \in Nat
<1> DEFINE sum == SumsOf(c, price)
           k == Cleared(c, price, amount)
           r == GetRedemptionHints(c, amount, price)
<1>1. sum[k] \in Nat
  BY ClearingIs
<1>2. \E part \in Nat : r.truncated = sum[k] + part
  BY HintsAre
<1> HIDE DEF sum, k, r
<1>3. r.truncated \in Nat
  BY <1>1, <1>2
<1> QED
  BY <1>3 DEF r

LEMMA TypeNext == TypeInv /\ [Next]_vars => TypeInv'
<1> SUFFICES ASSUME TypeInv, [Next]_vars PROVE TypeInv'
  OBVIOUS
<1>1. IsChain(chain) /\ IsTx(tx) /\ IsSince(since)
  BY DEF TypeInv
<1>2. ASSUME NEW c \in Calls, Begin(c) PROVE TypeInv'
  <2>1. phase = "idle" /\ tx = NoTx /\ promise = Pending /\ phase' # "idle"
    BY <1>2 DEF TypeInv, Begin
  <2>2. IsCall(c) /\ call' = Normalized(c)
    BY <1>2, TransactAssumption DEF Begin
  <2>3. IsCall(call') /\ call'.function = c.function
        /\ (~InvalidParams(c) /\ Trades(c) => IsLoan(call'.change))
    BY <2>2, NormalizedIs
  <2>4. tx' = [NoTx EXCEPT !.function = c.function, !.change = call'.change,
                           !.attempted = c.amount]
    BY <1>2 DEF Begin
  <2>5. c.amount \in Nat
    BY <2>2 DEF IsCall
  <2>6. IsTx(tx') /\ tx'.function = c.function /\ tx'.change = call'.change
    BY <2>4, <2>5 DEF NoTx, IsTx
  <2>7. phase' # "settled" => ~InvalidParams(c)
    BY <1>2 DEF Begin
  <2>8. Trades(call)' => Trades(c)
    BY <2>3 DEF Trades
  <2>9. since' = [since EXCEPT !.start = chain.minute]
    BY <1>2 DEF Begin
  <2>10. IsSince(since')
    BY <1>1, <2>9 DEF IsSince
  <2>11. chain' = chain /\ got' = got
    BY <1>2 DEF Begin
  <2> QED
    BY <1>1, <2>1, <2>3, <2>6, <2>7, <2>8, <2>10, <2>11 DEF TypeInv
<1>3. ASSUME NEW name \in {"fees", "timestamp", "total", "price", "trove", "deposit"},
             Answer(name)
      PROVE  TypeInv'
  <2>1. IsAnswer(name, Read(chain, name))
    BY <1>1, ReadType
  <2>2. got' = [n \in DOMAIN got \cup {name} |->
                   IF n = name THEN Read(chain, n) ELSE got[n]]
    BY <1>3 DEF Answer
  <2>3. \A n \in DOMAIN got' : IsAnswer(n, got'[n])
    BY <2>1, <2>2 DEF TypeInv
  <2> QED
    BY <1>3, <2>3 DEF TypeInv, Answer, Trades
<1>4. CASE Truncate
  <2> DEFINE r == GetRedemptionHints(chain, call.amount, got.price)
  <2>1. /\ tx' = [tx EXCEPT !.amount = r.truncated, !.ratio = r.ratio]
        /\ phase = "reading" /\ phase' \in {"preparing", "counting"}
        /\ UNCHANGED <<chain, call, got, since>>
    BY <1>4 DEF Truncate
  <2>2. r.truncated \in Nat
    BY <1>1, <2>1, TruncatedType DEF TypeInv, IsCall
  <2> HIDE DEF r
  <2>3. tx' = Truncated(tx, r.truncated, r.ratio)
    BY <2>1 DEF Truncated
  <2>4. Keeps(tx', tx, r.truncated, tx.attempted, r.ratio)
    BY <1>1, <2>2, <2>3, TxTruncated
  <2> QED
    BY <1>4, <2>1, <2>4 DEF TypeInv, Trades, Keeps
<1>5. ASSUME /\ phase # "idle" /\ phase' # "idle"
             /\ UNCHANGED <<chain, call, got, tx, since>>
             /\ phase = "settled" => phase' = "settled"
      PROVE  TypeInv'
  BY <1>5 DEF TypeInv, Trades
<1>6. CASE StartSearch \/ Count \/ Search \/ Jump \/ Send \/ Deny \/ Settle \/ LoseReceipt
  BY <1>5, <1>6 DEF StartSearch, Count, Search, Jump, Send, Deny, Settle, LoseReceipt, Reject
<1>7. CASE Prepare
  <2>1. CASE Hopeless
    BY <1>5, <1>7, <2>1 DEF Prepare, Reject
  <2>2. CASE ~Hopeless
    <3>1. /\ tx' = [tx EXCEPT !.hints = hints, !.maxRate = MaxRate(tx.amount),
                              !.gasLimit = call.gasLimit]
          /\ phase = "preparing" /\ phase' \in {"estimating", "populated"}
          /\ UNCHANGED <<chain, call, got, since>>
      BY <1>7, <2>2 DEF Prepare
    <3>2. tx' = Prepared(tx, hints, MaxRate(tx.amount), call.gasLimit)
      BY <3>1 DEF Prepared
    <3>3. Keeps(tx', tx, tx.amount, tx.attempted, tx.ratio)
      BY <1>1, <3>2, TxPrepared
    <3> QED
      BY <3>1, <3>3 DEF TypeInv, Trades, Keeps
  <2> QED
    BY <2>1, <2>2
<1>8. ASSUME NEW which \in {"now", "later"}, Estimate(which) PROVE TypeInv'
  <2>1. phase = "estimating"
    BY <1>8 DEF Estimate
  <2>2. \/ Reject("estimate")
        \/ /\ \/ tx' = [tx EXCEPT !.gasLimit = GasLimit(call, gas')] /\ phase' = "populated"
              \/ UNCHANGED <<tx, phase>>
           /\ UNCHANGED <<chain, call, got, since>>
    BY <1>8 DEF Estimate
  <2>3. CASE tx' = [tx EXCEPT !.gasLimit = GasLimit(call, gas')] /\ phase' = "populated"
             /\ UNCHANGED <<chain, call, got, since>>
    <3>1. tx' = WithLimit(tx, GasLimit(call, gas'))
      BY <2>3 DEF WithLimit
    <3>2. Keeps(tx', tx, tx.amount, tx.attempted, tx.ratio)
      BY <1>1, <3>1, TxLimited
    <3> QED
      BY <2>1, <2>3, <3>2 DEF TypeInv, Trades, Keeps
  <2> QED
    BY <1>5, <2>1, <2>2, <2>3 DEF Reject
<1>9. CASE Increase
  <2> DEFINE a == Increased(tx.amount)
  <2>1. /\ tx' = [tx EXCEPT !.amount = a, !.attempted = a, !.ratio = 0,
                            !.hints = <<0, 0>>, !.maxRate = MaxRate(a),
                            !.gasLimit = call.gasLimit]
        /\ phase = "populated" /\ phase' \in {"estimating", "populated"}
        /\ UNCHANGED <<chain, call, got, since>>
    BY <1>9 DEF Increase
  <2>2. a \in Nat
    <3>1. tx.amount \in Nat /\ MINIMUM_NET_DEBT \in Nat
      BY <1>1, ParametersAssumption DEF IsTx
    <3> QED
      BY <3>1 DEF Increased
  <2> HIDE DEF a
  <2>3. tx' = MadeLarger(tx, a, <<0, 0>>, MaxRate(a), call.gasLimit)
    BY <2>1 DEF MadeLarger
  <2>4. Keeps(tx', tx, a, a, 0)
    BY <1>1, <2>2, <2>3, TxIncreased
  <2> QED
    BY <2>1, <2>4 DEF TypeInv, Trades, Keeps
<1>10. ASSUME NEW fate \in Fates, Mine(fate) PROVE TypeInv'
  <2>1. /\ phase = "sent" /\ phase' = "mined" /\ UNCHANGED <<call, got, tx, since>>
        /\ chain' = chain \/ chain' = Run(chain, tx).chain
    BY <1>10 DEF Mine
  <2>2. (Trades(tx) => IsLoan(tx.change)) /\ tx.amount \in Nat
    BY <2>1 DEF TypeInv, IsTx, Trades
  <2>3. IsChain(Run(chain, tx).chain)
    BY <1>1, <2>2, RunIs DEF IsRefused, IsDone
  <2>4. IsChain(chain')
    BY <1>1, <2>1, <2>3
  <2> QED
    BY <2>1, <2>4 DEF TypeInv, Trades
<1>11. CASE World
  <2>1. PICK c : IsChain(c) /\ Happens(c)
    BY <1>1, <1>11, WorldIs
  <2>2. /\ phase \notin {"idle", "mined", "settled"} /\ chain' = c
        /\ UNCHANGED <<call, phase, got, tx>>
    BY <2>1 DEF Happens
  <2>3. IsSince(since')
    BY <1>1, <2>1 DEF Happens, IsSince
  <2> QED
    BY <2>1, <2>2, <2>3 DEF TypeInv, Trades
<1>12. CASE UNCHANGED vars
  BY <1>12 DEF TypeInv, vars, Trades
<1> QED
  BY <1>2, <1>3, <1>4, <1>6, <1>7, <1>8, <1>9, <1>10, <1>11, <1>12 DEF Next

\* The chain stays one that the contracts allow, whatever is sent to it, and
\* the transaction that is sent is for the call, with an amount.
THEOREM TypeCorrect == Spec => []TypeInv
<1>1. TypeInv /\ [Next]_vars => TypeInv'
  BY TypeNext
<1> QED
  BY <1>1, TypeInit, PTL DEF Spec

-----------------------------------------------------------------------------
(* The promise.                                                            *)

\* The transaction was mined, or another in its place.
Landed ==
    /\ IsChain(mined.before) /\ (Trades(tx) => IsLoan(tx.change))
    /\ Supplanted(mined.fate) => chain = mined.before
    /\ ~Supplanted(mined.fate) =>
          LET r == Run(mined.before, tx)
          IN RawStatus(mined.fate) = r.ok /\ mined.logs = r.logs /\ chain = r.chain

\* What waitForSuccess() makes of it.
Outcome ==
    LET receipt == WaitForReceipt(mined.fate)
    IN CASE receipt = "succeeded" ->
               [status |-> "resolved", why |-> "",
                details |-> Parse(call.function, mined.logs)]
         [] receipt = "failed" -> Rejected("EthersTransactionFailedError")
         [] OTHER -> Rejected(receipt)

\* Nothing is told before the transaction is mined, and what is told then is
\* about the transaction and the chain that it left.
PromiseInv ==
    /\ phase # "settled" => promise = Pending
    /\ phase = "mined" => Landed
    /\ phase = "settled" =>
          \/ promise \in {Rejected(why) : why \in {"invalid", "hopeless", "estimate",
                                                   "denied", "connection"}}
          \/ Landed /\ promise = Outcome

\* What was mined, and the chain before and after it.
LEMMA MinedIs ==
    ASSUME NEW fate, Mine(fate)
    PROVE  /\ phase = "sent" /\ phase' = "mined"
           /\ UNCHANGED <<call, got, tx, promise, since>>
           /\ mined'.before = chain /\ mined'.fate = fate
           /\ Supplanted(fate) => chain' = chain
           /\ ~Supplanted(fate) =>
                 /\ RawStatus(fate) = Run(chain, tx).ok
                 /\ mined'.logs = Run(chain, tx).logs /\ chain' = Run(chain, tx).chain
<1> DEFINE r == Run(chain, tx)
<1>1. /\ phase = "sent" /\ phase' = "mined" /\ UNCHANGED <<call, got, tx, promise, since>>
      /\ Supplanted(fate) => chain' = chain
      /\ ~Supplanted(fate) => RawStatus(fate) = r.ok /\ chain' = r.chain
  BY Zenon DEF Mine
<1>2. \E why, logs :
         /\ mined' = [fate |-> fate, why |-> why, logs |-> logs, before |-> chain]
         /\ ~Supplanted(fate) => logs = r.logs
  <2>1. CASE Supplanted(fate)
    <3>1. mined' = [fate |-> fate, why |-> "", logs |-> <<>>, before |-> chain]
      BY <2>1, Zenon DEF Mine
    <3> QED
      BY <2>1, <3>1
  <2>2. CASE ~Supplanted(fate)
    <3>1. mined' = [fate |-> fate, why |-> r.why, logs |-> r.logs, before |-> chain]
      BY <2>2, Zenon DEF Mine
    <3> HIDE DEF r
    <3> QED
      BY <2>2, <3>1
  <2> QED
    BY <2>1, <2>2
<1> HIDE DEF r
<1>3. PICK why, logs :
         /\ mined' = [fate |-> fate, why |-> why, logs |-> logs, before |-> chain]
         /\ ~Supplanted(fate) => logs = r.logs
  BY <1>2
<1>4. mined'.before = chain /\ mined'.fate = fate /\ mined'.logs = logs
  BY <1>3
<1> QED
  BY <1>1, <1>3, <1>4 DEF r

LEMMA PromiseNext == TypeInv /\ PromiseInv /\ [Next]_vars => PromiseInv'
<1> SUFFICES ASSUME TypeInv, PromiseInv, [Next]_vars PROVE PromiseInv'
  OBVIOUS
<1> DEFINE Others == {"invalid", "hopeless", "estimate", "denied", "connection"}
<1>1. ASSUME phase \notin {"mined", "settled"}, phase' \notin {"mined", "settled"},
             UNCHANGED promise
      PROVE  PromiseInv'
  BY <1>1 DEF PromiseInv
<1>2. ASSUME NEW why \in Others, Reject(why) PROVE PromiseInv'
  BY <1>2 DEF PromiseInv, Reject
<1>3. ASSUME NEW c \in Calls, Begin(c) PROVE PromiseInv'
  <2>1. CASE InvalidParams(c)
    BY <1>3, <2>1 DEF Begin, PromiseInv
  <2>2. CASE ~InvalidParams(c)
    BY <1>1, <1>3, <2>2 DEF Begin
  <2> QED
    BY <2>1, <2>2
<1>4. ASSUME NEW name, Answer(name) PROVE PromiseInv'
  BY <1>1, <1>4 DEF Answer
<1>5. CASE Truncate \/ StartSearch \/ Count \/ Search \/ Jump \/ Increase \/ Send
  BY <1>1, <1>5 DEF Truncate, StartSearch, Count, Search, Jump, Increase, Send
<1>6. CASE Prepare
  BY <1>1, <1>2, <1>6 DEF Prepare
<1>7. ASSUME NEW which, Estimate(which) PROVE PromiseInv'
  BY <1>1, <1>2, <1>7 DEF Estimate
<1>8. CASE Deny \/ LoseReceipt
  BY <1>2, <1>8 DEF Deny, LoseReceipt
<1>9. ASSUME NEW fate \in Fates, Mine(fate) PROVE PromiseInv'
  <2>1. /\ phase = "sent" /\ phase' = "mined" /\ UNCHANGED <<tx, promise>>
        /\ mined'.before = chain /\ mined'.fate = fate
        /\ Supplanted(fate) => chain' = chain
        /\ ~Supplanted(fate) =>
              /\ RawStatus(fate) = Run(chain, tx).ok
              /\ mined'.logs = Run(chain, tx).logs /\ chain' = Run(chain, tx).chain
    BY <1>9, MinedIs
  <2>2. IsChain(chain) /\ (Trades(tx) => IsLoan(tx.change))
    BY <2>1 DEF TypeInv, Trades
  <2>3. Landed'
    BY <2>1, <2>2 DEF Landed, Trades
  <2> QED
    BY <2>1, <2>3 DEF PromiseInv
<1>10. CASE Settle
  <2>1. phase = "mined" /\ phase' = "settled" /\ promise' = Outcome
        /\ UNCHANGED <<chain, tx, mined, call>>
    BY <1>10, Zenon DEF Settle, Outcome
  <2>2. Landed' = Landed /\ Outcome' = Outcome
    BY <2>1 DEF Landed, Outcome, Trades
  <2> QED
    BY <2>1, <2>2 DEF PromiseInv
<1>11. CASE World
  <2>1. PICK c : Happens(c)
    BY <1>11, WorldIs DEF TypeInv
  <2> QED
    BY <1>1, <2>1 DEF Happens
<1>12. CASE UNCHANGED vars
  <2>1. Landed' = Landed /\ Outcome' = Outcome
    BY <1>12 DEF vars, Landed, Outcome, Trades
  <2> QED
    BY <1>12, <2>1 DEF vars, PromiseInv
<1> QED
  BY <1>3, <1>4, <1>5, <1>6, <1>7, <1>8, <1>9, <1>10, <1>11, <1>12 DEF Next

\* A loan or a move of the gain that succeeds leaves the Trove that it tells.
LEMMA TellsTheTrove ==
    ASSUME NEW c, IsChain(c), NEW t, Run(c, t).ok = TRUE, Trades(t) => IsLoan(t.change),
           Redeems(t) => t.amount \in Nat,
           t.function \in {"openTrove", "adjustTrove", "transferCollateralGainToTrove"}
    PROVE  Parse(t.function, Run(c, t).logs)[1] = Run(c, t).chain.troves[Own]
<1> DEFINE r == Run(c, t)
<1>1. r = Execute(c, t)
  BY RunIs
<1>2. r = Borrow(c, t) \/ r = MoveGain(c, t)
  BY <1>1 DEF Execute, Trades, Redeems
<1>3. r = Borrow(c, t) => Trades(t) \/ r = MoveGain(c, t)
  BY <1>1 DEF Execute, Trades, Redeems
<1>4. IsRefused(r, c) \/ \E trove : Leaves(r, trove)
  <2>1. CASE Trades(t)
    <3>1. r = Borrow(c, t)
      BY <1>1, <2>1 DEF Execute, Trades, Redeems
    <3>2. IsRefused(Borrow(c, t), c) \/ \E trove : Leaves(Borrow(c, t), trove)
      BY <2>1, BorrowIs
    <3> HIDE DEF r
    <3> QED
      BY <3>1, <3>2
  <2>2. CASE ~Trades(t)
    <3>1. r = MoveGain(c, t)
      BY <1>2, <1>3, <2>2
    <3>2. IsRefused(MoveGain(c, t), c) \/ \E trove : Leaves(MoveGain(c, t), trove)
      BY MoveGainIs
    <3> HIDE DEF r
    <3> QED
      BY <3>1, <3>2
  <2> QED
    BY <2>1, <2>2
<1>5. Parse(t.function, r.logs)[1] = Extract(r.logs, "borrowerOperations", "TroveUpdated")
  BY DEF Parse
<1> HIDE DEF r
<1>6. r.ok = TRUE
  BY DEF r
<1>7. r.chain.troves[Own] = Extract(r.logs, "borrowerOperations", "TroveUpdated")
  BY <1>4, <1>6 DEF IsRefused, Leaves
<1> QED
  BY <1>5, <1>7 DEF r

LEMMA LandedTells == TypeInv /\ PromiseInv => PromiseTellsTheTruth
<1> SUFFICES ASSUME TypeInv, PromiseInv PROVE PromiseTellsTheTruth
  OBVIOUS
<1>1. CASE promise = Pending
  BY <1>1 DEF Pending, PromiseTellsTheTruth
<1>2. CASE promise \in {Rejected(why) : why \in {"invalid", "hopeless", "estimate",
                                                 "denied", "connection"}}
  <2>1. PICK why \in {"invalid", "hopeless", "estimate", "denied", "connection"} :
            promise = Rejected(why)
    BY <1>2
  <2>2. promise.status = "rejected" /\ promise.why = why
    BY <2>1 DEF Rejected, Pending
  <2> QED
    BY <2>1, <2>2 DEF PromiseTellsTheTruth
<1>3. CASE phase = "settled" /\ Landed /\ promise = Outcome
  <2> DEFINE r == Run(mined.before, tx)
             details == Parse(call.function, mined.logs)
  <2>1. /\ IsChain(mined.before) /\ (Trades(tx) => IsLoan(tx.change))
        /\ Redeems(tx) => tx.amount \in Nat
        /\ tx.function = call.function
    BY <1>3 DEF Landed, TypeInv, IsTx
  <2>2. r.ok \in BOOLEAN
    BY <2>1, RunIs DEF IsRefused, IsDone
  <2>3. CASE Supplanted(mined.fate)
    <3>1. promise = Rejected("EthersTransactionCancelledError")
      BY <1>3, <2>3 DEF Outcome, WaitForReceipt
    <3>2. promise.status = "rejected" /\ promise.why = "EthersTransactionCancelledError"
      BY <3>1 DEF Rejected, Pending
    <3>3. chain = mined.before
      BY <1>3, <2>3 DEF Landed
    <3> QED
      BY <3>2, <3>3 DEF PromiseTellsTheTruth
  <2>4. CASE ~Supplanted(mined.fate) /\ RawStatus(mined.fate)
    <3>1. promise = [status |-> "resolved", why |-> "", details |-> details]
      BY <1>3, <2>4 DEF Outcome, WaitForReceipt
    <3>2. r.ok = TRUE /\ mined.logs = r.logs /\ chain = r.chain
      BY <1>3, <2>2, <2>4 DEF Landed
    <3>3. call.function \in {"openTrove", "adjustTrove", "transferCollateralGainToTrove"}
            => details[1] = chain.troves[Own]
      BY <2>1, <3>2, TellsTheTrove
    <3>4. promise.status = "resolved" /\ promise.why = "" /\ promise.details = details
      <4> HIDE DEF details
      <4> QED
        BY <3>1
    <3> HIDE DEF details
    <3> QED
      BY <2>4, <3>2, <3>3, <3>4 DEF PromiseTellsTheTruth
  <2>5. CASE ~Supplanted(mined.fate) /\ ~RawStatus(mined.fate)
    <3>1. promise = Rejected("EthersTransactionFailedError")
      BY <1>3, <2>5 DEF Outcome, WaitForReceipt
    <3>2. promise.status = "rejected" /\ promise.why = "EthersTransactionFailedError"
      BY <3>1 DEF Rejected, Pending
    <3>3. r.ok = FALSE
      BY <1>3, <2>2, <2>5 DEF Landed
    <3> QED
      BY <2>5, <3>2, <3>3 DEF PromiseTellsTheTruth
  <2> QED
    BY <2>3, <2>4, <2>5
<1> QED
  BY <1>1, <1>2, <1>3 DEF PromiseInv

\* The promise of a call resolves only when its own transaction was mined and
\* succeeded, with the Trove that this transaction left on the chain
\* (waitForSuccess() and extractEvents() of EthersSfStablecoin.ts and
\* PopulatableEthers.ts).
THEOREM TheTruthIsTold == Spec => []PromiseTellsTheTruth
<1>1. Init => TypeInv /\ PromiseInv
  <2>1. Init => PromiseInv
    BY DEF Init, PromiseInv
  <2> QED
    BY <2>1, TypeInit
<1>2. TypeInv /\ PromiseInv /\ [Next]_vars => (TypeInv /\ PromiseInv)'
  BY TypeNext, PromiseNext
<1>3. TypeInv /\ PromiseInv => PromiseTellsTheTruth
  BY LandedTells
<1> QED
  BY <1>1, <1>2, <1>3, PTL DEF Spec

-----------------------------------------------------------------------------
(* What is read from the chain depends on its Troves and its price alone,   *)
(* and they are the same as long as nothing has touched them.               *)

LEMMA SameTroves ==
    ASSUME NEW c, NEW d, d.troves = c.troves
    PROVE  /\ Owners(d) = Owners(c)
           /\ \A o : /\ RatioOf(d, o) = RatioOf(c, o)
                     /\ InFront(d, o) = InFront(c, o)
                     /\ Place(d, o) = Place(c, o)
           /\ \A k : At(d, k) = At(c, k)
           /\ \A ratio : Above(d, ratio) = Above(c, ratio)
<1>1. Owners(d) = Owners(c)
  BY DEF Owners
<1>2. \A o : RatioOf(d, o) = RatioOf(c, o)
  BY DEF RatioOf
<1>3. \A o : InFront(d, o) = InFront(c, o)
  BY <1>1, <1>2 DEF InFront
<1>4. \A o : Place(d, o) = Place(c, o)
  BY <1>3 DEF Place
<1>5. \A k : At(d, k) = At(c, k)
  <2> SUFFICES ASSUME NEW k PROVE At(d, k) = At(c, k)
    OBVIOUS
  <2> DEFINE who(e) == CHOOSE o \in Owners(e) : Place(e, o) = k
  <2>1. who(d) = who(c)
    BY <1>1, <1>4
  <2>2. \A e : At(e, k) = IF k \in 1 .. Cardinality(Owners(e)) THEN who(e) ELSE 0
    BY Zenon DEF At, AddressZero
  <2> HIDE DEF who
  <2> QED
    BY <1>1, <2>1, <2>2
<1>6. \A ratio : Above(d, ratio) = Above(c, ratio)
  <2> SUFFICES ASSUME NEW ratio PROVE Above(d, ratio) = Above(c, ratio)
    OBVIOUS
  <2>1. {o \in Owners(d) : RatioOf(d, o) >= ratio} = {o \in Owners(c) : RatioOf(c, o) >= ratio}
    BY <1>1, <1>2
  <2> QED
    BY <2>1 DEF Above
<1> QED
  BY <1>1, <1>2, <1>3, <1>4, <1>5, <1>6

LEMMA SamePosition ==
    ASSUME NEW c, NEW d, d.troves = c.troves, NEW ratio
    PROVE  FindInsertPosition(d, ratio) = FindInsertPosition(c, ratio)
  BY SameTroves DEF FindInsertPosition

LEMMA SameQuote ==
    ASSUME NEW c, NEW d, d.troves = c.troves, NEW amount, NEW price
    PROVE  GetRedemptionHints(d, amount, price) = GetRedemptionHints(c, amount, price)
<1>1. Redeemable(d, price) = Redeemable(c, price)
  BY SameTroves DEF Redeemable
<1> DEFINE R == Redeemable(c, price)
<1>2. Turns(d, R) = Turns(c, R)
  <2> HIDE DEF R
  <2> DEFINE who(e, k) ==
                 CHOOSE o \in R : Cardinality(R \cap InFront(e, o)) = Cardinality(R) - k
  <2>1. \A k : who(d, k) = who(c, k)
    BY SameTroves
  <2>2. \A e : Turns(e, R) = [k \in 1 .. Cardinality(R) |-> who(e, k)]
    BY Zenon DEF Turns
  <2> HIDE DEF who
  <2> QED
    BY <2>1, <2>2
<1> DEFINE turns == SubSeq(Turns(c, R), 1, Smaller(Len(Turns(c, R)), redeemMaxIterations))
<1>3. \A e : /\ Redeemable(e, price) = R
             /\ Turns(e, R) = Turns(c, R)
             => Clearing(e, price, amount) = ClearingOf(e, turns, amount)
  BY DEF Clearing
<1>4. Clearing(d, price, amount) = ClearingOf(d, turns, amount)
      /\ Clearing(c, price, amount) = ClearingOf(c, turns, amount)
  BY <1>1, <1>2, <1>3
<1> HIDE DEF turns, R
<1>5. ClearingOf(d, turns, amount) = ClearingOf(c, turns, amount)
  <2>1. \A g : SumOfQueue(g, d, turns) <=> SumOfQueue(g, c, turns)
    BY DEF SumOfQueue
  <2>2. (CHOOSE g : SumOfQueue(g, d, turns)) = (CHOOSE g : SumOfQueue(g, c, turns))
    BY <2>1
  <2>3. \A e : ClearingOf(e, turns, amount) =
                  LET s == CHOOSE g : SumOfQueue(g, e, turns)
                      j == CHOOSE i \in 0 .. Len(turns) : FitsIn(s, Len(turns), amount, i)
                  IN [cleared |-> {turns[i] : i \in 1 .. j},
                      amount  |-> s[j],
                      partial |-> IF j < Len(turns) /\ amount > s[j] THEN turns[j + 1]
                                  ELSE 0]
    BY Zenon DEF ClearingOf, SumOfQueue, FitsIn, AddressZero
  <2> DEFINE s(e) == CHOOSE g : SumOfQueue(g, e, turns)
             All(t) == LET j == CHOOSE i \in 0 .. Len(turns) : FitsIn(t, Len(turns), amount, i)
                       IN [cleared |-> {turns[i] : i \in 1 .. j},
                           amount  |-> t[j],
                           partial |-> IF j < Len(turns) /\ amount > t[j] THEN turns[j + 1]
                                       ELSE 0]
  <2>4. ClearingOf(d, turns, amount) = All(s(d)) /\ ClearingOf(c, turns, amount) = All(s(c))
    BY <2>3, Zenon
  <2>5. s(d) = s(c)
    BY <2>2
  <2> HIDE DEF All, s
  <2> QED
    BY <2>4, <2>5
<1>6. \A all : HintsOf(d, all, amount, price) = HintsOf(c, all, amount, price)
  BY DEF HintsOf
<1> QED
  BY <1>4, <1>5, <1>6 DEF GetRedemptionHints

LEMMA SameWalk ==
    ASSUME NEW c, NEW d, d.troves = c.troves, NEW ratio, NEW h
    PROVE  Hops(d, ratio, h) = Hops(c, ratio, h)
  BY SameTroves DEF Hops

LEMMA SameUse ==
    ASSUME NEW c, NEW d, IsChain(c), IsChain(d), d.troves = c.troves, NEW ratio, NEW own,
           NEW h, NEW x, Usable(Without(c, x), ratio, own, h)
    PROVE  Usable(Without(d, x), ratio, own, h)
<1> DEFINE e == Without(c, x)
           f == Without(d, x)
<1>1. f.troves = e.troves
  <2>1. "troves" \in DOMAIN c /\ "troves" \in DOMAIN d
    BY ChainFields
  <2> QED
    BY <2>1 DEF Without
<1> HIDE DEF e, f
<1>2. \A k : Hops(f, ratio, k) = Hops(e, ratio, k)
  BY <1>1, SameWalk
<1>3. Owners(f) = Owners(e)
  BY <1>1, SameTroves
<1>4. Usable(e, ratio, own, h)
  BY DEF e
<1>5. Usable(f, ratio, own, h)
  BY <1>2, <1>3, <1>4 DEF Usable
<1> QED
  BY <1>5 DEF f

\* What happens on the chain without touching a Trove.
LEMMA Untouched ==
    ASSUME TypeInv, NEW c, IsChain(c), Happens(c), since'.touched = {}
    PROVE  since.touched = {} /\ c.troves = chain.troves
<1>1. since' = [since EXCEPT
                    !.touched = @ \cup Differ(chain, c),
                    !.raised  = @ \/ BaseRate(Fees(c), c.minute)
                                        > BaseRate(Fees(chain), chain.minute),
                    !.priced  = @ \/ c.price # chain.price,
                    !.mode    = @ \/ RecoveryMode(c) # RecoveryMode(chain)]
  BY DEF Happens
<1>2. "touched" \in DOMAIN since
  BY DEF TypeInv, IsSince
<1>3. since'.touched = since.touched \cup Differ(chain, c)
  BY <1>1, <1>2
<1>4. since.touched = {} /\ Differ(chain, c) = {}
  BY <1>3
<1>5. Owners(c) = Owners(chain) /\ \A o \in Owners(c) : c.troves[o] = chain.troves[o]
  BY <1>4 DEF Differ
<1>6. c.troves \in [Owners(c) -> OpenTroves] /\ chain.troves \in [Owners(chain) -> OpenTroves]
  BY ChainFields DEF TypeInv
<1> QED
  BY <1>4, <1>5, <1>6

LEMMA Unpriced ==
    ASSUME TypeInv, NEW c, Happens(c), ~since'.priced
    PROVE  ~since.priced /\ c.price = chain.price
<1>1. since' = [since EXCEPT
                    !.touched = @ \cup Differ(chain, c),
                    !.raised  = @ \/ BaseRate(Fees(c), c.minute)
                                        > BaseRate(Fees(chain), chain.minute),
                    !.priced  = @ \/ c.price # chain.price,
                    !.mode    = @ \/ RecoveryMode(c) # RecoveryMode(chain)]
  BY DEF Happens
<1>2. "priced" \in DOMAIN since
  BY DEF TypeInv, IsSince
<1>3. since'.priced = (since.priced \/ c.price # chain.price)
  BY <1>1, <1>2
<1> QED
  BY <1>3

-----------------------------------------------------------------------------
(* Redemptions.                                                            *)

\* The amount is what would be redeemed from a chain, or was truncated to it
\* and then increased, without a hint of a ratio.
Quoted(c) ==
    LET quote == GetRedemptionHints(c, call.amount, c.price)
    IN \/ /\ tx.amount = quote.truncated /\ tx.ratio = quote.ratio
          /\ tx.attempted = call.amount
       \/ /\ quote.truncated < call.amount
          /\ tx.amount = Increased(quote.truncated) /\ tx.ratio = 0
          /\ tx.attempted = tx.amount

Planning == {"counting", "searching", "jumping", "preparing", "estimating",
             "populated", "sent"}

Fresh == since.touched = {} /\ ~since.priced

\* As long as no Trove and no price has changed, a redemption is planned for the
\* chain as it is.
RedeemInv ==
    Redeems(call) =>
        /\ phase = "reading" =>
              /\ tx.attempted = call.amount
              /\ "price" \in DOMAIN got /\ ~since.priced => got.price = chain.price
        /\ phase \in Planning /\ Fresh => Quoted(chain)
        /\ phase = "mined" /\ Fresh => Quoted(mined.before)

LEMMA RedeemNext == TypeInv /\ RedeemInv /\ [Next]_vars => RedeemInv'
<1> SUFFICES ASSUME TypeInv, RedeemInv, [Next]_vars, Redeems(call)', phase' # "settled"
             PROVE  RedeemInv'
  BY DEF RedeemInv, Planning
<1>1. IsChain(chain) /\ IsTx(tx)
  BY DEF TypeInv
<1>2. ASSUME NEW c \in Calls, Begin(c) PROVE RedeemInv'
  <2>1. /\ phase = "idle" /\ got' = <<>> /\ tx = NoTx /\ call' = Normalized(c)
        /\ phase' = IF Needs(c) = {} THEN "preparing" ELSE "reading"
        /\ tx' = [NoTx EXCEPT !.function = c.function, !.change = call'.change,
                              !.attempted = c.amount]
    BY <1>2 DEF Begin, TypeInv
  <2>2. call'.function = c.function /\ call'.amount = c.amount
    BY <2>1, NormalizedIs, TransactAssumption
  <2>3. Needs(c) # {}
    BY <2>2 DEF Needs, Redeems
  <2>4. phase' = "reading" /\ tx'.attempted = call'.amount
    BY <2>1, <2>2, <2>3 DEF NoTx
  <2>5. DOMAIN <<>> = {}
    OBVIOUS
  <2> QED
    BY <2>1, <2>4, <2>5 DEF RedeemInv, Planning
<1>3. ASSUME NEW name \in {"fees", "timestamp", "total", "price", "trove", "deposit"},
             Answer(name)
      PROVE  RedeemInv'
  <2>1. /\ UNCHANGED <<chain, call, phase, tx, since, mined>>
        /\ got' = [n \in DOMAIN got \cup {name} |->
                      IF n = name THEN Read(chain, n) ELSE got[n]]
    BY <1>3 DEF Answer
  <2>2. Read(chain, "price") = chain.price
    BY DEF Read
  <2>3. "price" \in DOMAIN got' /\ "price" \notin DOMAIN got => got'.price = chain.price
    BY <2>1, <2>2
  <2>4. "price" \in DOMAIN got => got'.price = got.price \/ got'.price = chain.price
    BY <2>1, <2>2
  <2>5. Redeems(call) /\ (Fresh' = Fresh)
    BY <2>1 DEF Redeems, Fresh
  <2>6. Quoted(chain)' = Quoted(chain) /\ Quoted(mined.before)' = Quoted(mined.before)
    BY <2>1 DEF Quoted
  <2> QED
    BY <2>1, <2>3, <2>4, <2>5, <2>6 DEF RedeemInv
<1>4. CASE Truncate
  <2> DEFINE r == GetRedemptionHints(chain, call.amount, got.price)
  <2>1. /\ tx' = [tx EXCEPT !.amount = r.truncated, !.ratio = r.ratio]
        /\ phase = "reading" /\ phase' \in Planning /\ Redeems(call)
        /\ "price" \in DOMAIN got
        /\ UNCHANGED <<chain, call, got, since>>
    BY <1>4 DEF Truncate, Planning
  <2>2. r.truncated \in Nat
    BY <1>1, <2>1, TruncatedType DEF TypeInv, IsCall
  <2> HIDE DEF r
  <2>3. tx' = Truncated(tx, r.truncated, r.ratio)
    BY <2>1 DEF Truncated
  <2>4. Keeps(tx', tx, r.truncated, tx.attempted, r.ratio)
    BY <1>1, <2>2, <2>3, TxTruncated
  <2>5. Fresh' => got.price = chain.price /\ tx.attempted = call.amount
    BY <2>1 DEF RedeemInv, Fresh
  <2>6. Fresh' => Quoted(chain)'
    BY <2>1, <2>4, <2>5 DEF Quoted, r, Keeps
  <2> QED
    BY <2>1, <2>6 DEF RedeemInv, Planning
\* The steps that leave the amount and its ratio.
<1>5. ASSUME phase \in Planning, phase' \in Planning, UNCHANGED <<chain, call, since>>,
             tx'.amount = tx.amount, tx'.attempted = tx.attempted, tx'.ratio = tx.ratio
      PROVE  RedeemInv'
  <2>1. Quoted(chain)' = Quoted(chain)
    BY <1>5 DEF Quoted
  <2>2. Fresh' = Fresh /\ Redeems(call)
    BY <1>5 DEF Fresh, Redeems
  <2> QED
    BY <1>5, <2>1, <2>2 DEF RedeemInv, Planning
<1>6. CASE StartSearch
  BY <1>6 DEF StartSearch, Redeems
<1>7. CASE Count \/ Search \/ Jump \/ Send
  BY <1>5, <1>7 DEF Count, Search, Jump, Send, Planning
<1>8. CASE Deny \/ Settle \/ LoseReceipt
  BY <1>8 DEF Deny, Settle, LoseReceipt, Reject
<1>9. CASE Prepare
  <2>1. /\ tx' = [tx EXCEPT !.hints = hints, !.maxRate = MaxRate(tx.amount),
                            !.gasLimit = call.gasLimit]
        /\ phase \in Planning /\ phase' \in Planning
        /\ UNCHANGED <<chain, call, since>>
    BY <1>9 DEF Prepare, Reject, Planning
  <2>2. tx' = Prepared(tx, hints, MaxRate(tx.amount), call.gasLimit)
    BY <2>1 DEF Prepared
  <2>3. Keeps(tx', tx, tx.amount, tx.attempted, tx.ratio)
    BY <1>1, <2>2, TxPrepared
  <2> QED
    BY <1>5, <2>1, <2>3 DEF Keeps
<1>10. ASSUME NEW which, Estimate(which) PROVE RedeemInv'
  <2>1. /\ phase \in Planning /\ phase' \in Planning
        /\ tx' = tx \/ tx' = [tx EXCEPT !.gasLimit = GasLimit(call, gas')]
        /\ UNCHANGED <<chain, call, since>>
    BY <1>10 DEF Estimate, Reject, Planning
  <2>2. tx' = tx \/ tx' = WithLimit(tx, GasLimit(call, gas'))
    BY <2>1 DEF WithLimit
  <2>3. tx' = tx \/ Keeps(tx', tx, tx.amount, tx.attempted, tx.ratio)
    BY <1>1, <2>2, TxLimited
  <2> QED
    BY <1>5, <2>1, <2>3 DEF Keeps
<1>11. CASE Increase
  <2> DEFINE a == Increased(tx.amount)
             quote == GetRedemptionHints(chain, call.amount, chain.price)
  <2>1. /\ tx' = [tx EXCEPT !.amount = a, !.attempted = a, !.ratio = 0,
                            !.hints = <<0, 0>>, !.maxRate = MaxRate(a),
                            !.gasLimit = call.gasLimit]
        /\ phase \in Planning /\ phase' \in Planning
        /\ UNCHANGED <<chain, call, since>>
        /\ Redeems(call) /\ tx.amount < tx.attempted
    BY <1>11 DEF Increase, IsTruncated, Planning
  <2>2. a \in Nat /\ tx.amount \in Nat
    <3>1. tx.amount \in Nat /\ MINIMUM_NET_DEBT \in Nat
      BY <1>1, ParametersAssumption DEF IsTx
    <3> QED
      BY <3>1 DEF Increased
  <2>3. tx' = MadeLarger(tx, a, <<0, 0>>, MaxRate(a), call.gasLimit)
    BY <2>1 DEF MadeLarger
  <2> HIDE DEF a
  <2>4. Keeps(tx', tx, a, a, 0)
    BY <1>1, <2>2, <2>3, TxIncreased
  <2>5. Fresh' = Fresh
    BY <2>1 DEF Fresh
  <2>6. ASSUME Fresh PROVE quote.truncated < call.amount /\ a = Increased(quote.truncated)
    <3>1. Quoted(chain)
      BY <2>1, <2>6 DEF RedeemInv
    <3>2. \/ tx.amount = quote.truncated /\ tx.attempted = call.amount
          \/ tx.attempted = tx.amount
      BY <3>1 DEF Quoted
    <3>3. tx.attempted # tx.amount
      BY <2>1, <2>2
    <3> QED
      BY <2>1, <3>2, <3>3 DEF a
  <2>7. Fresh' => Quoted(chain)'
    BY <2>1, <2>4, <2>5, <2>6 DEF Quoted, Keeps
  <2> QED
    BY <2>1, <2>7 DEF RedeemInv, Planning
<1>12. ASSUME NEW fate, Mine(fate) PROVE RedeemInv'
  <2>1. /\ phase = "sent" /\ phase' = "mined" /\ UNCHANGED <<call, tx, since>>
        /\ mined'.before = chain
    BY <1>12, MinedIs
  <2>2. Fresh' = Fresh /\ Redeems(call)
    BY <2>1 DEF Fresh, Redeems
  <2>3. Quoted(mined.before)' = Quoted(chain)
    BY <2>1 DEF Quoted
  <2> QED
    BY <2>1, <2>2, <2>3 DEF RedeemInv, Planning
<1>13. CASE World
  <2>1. PICK c : IsChain(c) /\ Happens(c)
    BY <1>1, <1>13, WorldIs
  <2>2. /\ phase \notin {"idle", "mined", "settled"} /\ chain' = c
        /\ UNCHANGED <<call, phase, got, tx>>
    BY <2>1 DEF Happens
  <2>3. Redeems(call)
    BY <2>2 DEF Redeems
  <2>4. ~since'.priced => ~since.priced /\ c.price = chain.price
    BY <2>1, Unpriced
  <2>5. since'.touched = {} => since.touched = {} /\ c.troves = chain.troves
    BY <2>1, Untouched
  <2>6. ASSUME Fresh' PROVE Fresh /\ (Quoted(chain)' = Quoted(chain))
    <3>1. Fresh /\ c.price = chain.price /\ c.troves = chain.troves
      BY <2>4, <2>5, <2>6 DEF Fresh
    <3>2. GetRedemptionHints(c, call.amount, c.price)
            = GetRedemptionHints(chain, call.amount, chain.price)
      BY <3>1, SameQuote
    <3> QED
      BY <2>2, <3>1, <3>2 DEF Quoted
  <2> QED
    BY <2>2, <2>3, <2>4, <2>6 DEF RedeemInv
<1>14. CASE UNCHANGED vars
  <2>1. /\ Quoted(chain)' = Quoted(chain) /\ Fresh' = Fresh
        /\ Quoted(mined.before)' = Quoted(mined.before) /\ Redeems(call)
    BY <1>14 DEF vars, Quoted, Fresh, Redeems
  <2> QED
    BY <1>14, <2>1 DEF vars, RedeemInv
<1> QED
  BY <1>2, <1>3, <1>4, <1>6, <1>7, <1>8, <1>9, <1>10, <1>11, <1>12, <1>13, <1>14
  DEF Next

LEMMA QuotedRedeems ==
    ASSUME TypeInv, PromiseInv, RedeemInv
    PROVE  RedeemsWhatIsRedeemable
<1> SUFFICES ASSUME phase = "mined", ~Supplanted(mined.fate), RawStatus(mined.fate),
                    Redeems(call), since.touched = {}, ~since.priced
             PROVE  LET actual == Parse("redeemDebtToken", mined.logs)[1]
                    IN \/ actual = tx.amount
                       \/ /\ tx.amount < call.amount + MINIMUM_NET_DEBT
                          /\ actual = tx.amount - MINIMUM_NET_DEBT
                          /\ NoneLeft(mined.before, actual)
  BY DEF RedeemsWhatIsRedeemable, Mined
<1> DEFINE c == mined.before
           quote == GetRedemptionHints(c, call.amount, c.price)
           short == quote.truncated
           actual == Parse("redeemDebtToken", mined.logs)[1]
<1>1. Landed /\ Quoted(c)
  BY DEF PromiseInv, RedeemInv, Fresh
<1>2. /\ IsChain(c) /\ call.amount \in Nat /\ tx.amount \in Nat
      /\ Redeems(tx) /\ ~Trades(tx)
  BY <1>1 DEF Landed, TypeInv, IsCall, IsTx, Redeems, Trades
<1>3. Run(c, tx).ok = TRUE /\ mined.logs = Run(c, tx).logs
  <2>1. RawStatus(mined.fate) = Run(c, tx).ok /\ mined.logs = Run(c, tx).logs
    BY <1>1 DEF Landed
  <2>2. IsRefused(Run(c, tx), c) \/ IsDone(Run(c, tx))
    BY <1>2, RunIs
  <2> QED
    BY <2>1, <2>2 DEF IsRefused, IsDone
<1>4. Run(c, tx) = Redeem(c, tx)
  <2>1. Run(c, tx) = Execute(c, tx)
    BY <1>2, <1>3, RunIs
  <2> QED
    BY <1>2, <2>1 DEF Execute, Trades, Redeems
<1>5. actual = Actual(c, tx.amount, tx.ratio)
  BY <1>3, <1>4, RedeemedAmount
<1>6. short \in Nat /\ Actual(c, short, quote.ratio) = short
  BY <1>2, RedeemsAsHinted
<1> HIDE DEF actual
<1>7. CASE tx.amount = short /\ tx.ratio = quote.ratio
  BY <1>5, <1>6, <1>7 DEF actual
<1>8. CASE short < call.amount /\ tx.amount = Increased(short) /\ tx.ratio = 0
  <2>1. \/ Actual(c, Increased(short), 0) = Increased(short)
        \/ Actual(c, Increased(short), 0) = short /\ NoneLeft(c, short)
    BY <1>2, <1>8, RedeemsAsIncreased
  <2>2. MINIMUM_NET_DEBT \in Nat
    BY ParametersAssumption
  <2> HIDE DEF short
  <2>3. tx.amount < call.amount + MINIMUM_NET_DEBT /\ short = tx.amount - MINIMUM_NET_DEBT
    BY <1>2, <1>6, <1>8, <2>2 DEF Increased
  <2> QED
    BY <1>5, <1>8, <2>1, <2>3 DEF actual
<1> QED
  BY <1>1, <1>7, <1>8 DEF Quoted

\* What a populated redemption calls redeemable (findRedemptionHints() of
\* PopulatableEthers.ts) is what it redeems, unless a Trove or the price changed
\* in between; an increased one may only come short when there is no Trove left.
THEOREM RedemptionsAreExact == Spec => []RedeemsWhatIsRedeemable
<1>1. Init => TypeInv /\ PromiseInv /\ RedeemInv
  <2>1. Init => PromiseInv
    BY DEF Init, PromiseInv
  <2>2. Init => RedeemInv
    <3>1. Init => phase = "idle"
      BY DEF Init
    <3> QED
      BY <3>1 DEF RedeemInv, Planning
  <2> QED
    BY <2>1, <2>2, TypeInit
<1>2. TypeInv /\ PromiseInv /\ RedeemInv /\ [Next]_vars
        => (TypeInv /\ PromiseInv /\ RedeemInv)'
  BY TypeNext, PromiseNext, RedeemNext
<1>3. TypeInv /\ PromiseInv /\ RedeemInv => RedeemsWhatIsRedeemable
  BY QuotedRedeems
<1> QED
  BY <1>1, <1>2, <1>3, PTL DEF Spec

-----------------------------------------------------------------------------
(* Hints.                                                                  *)

\* The calls that search the list for the place of a Trove.
Hinted == ~Redeems(call) /\ Needs(call) # {}

LEMMA HintedCalls ==
    /\ Hinted => call.function \in {"openTrove", "adjustTrove",
                                    "transferCollateralGainToTrove"}
    /\ OwnAddress = IF call.function \in {"adjustTrove", "transferCollateralGainToTrove"}
                    THEN Own ELSE 0
  BY DEF Hinted, Needs, Redeems, OwnAddress, AddressZero

LEMMA HintedRatioType ==
    ASSUME TypeInv, AllRead, Hinted, phase \notin {"idle", "settled"}
    PROVE  HintedRatio \in Nat
<1>1. /\ IsCall(call) /\ (Trades(call) => IsLoan(call.change))
      /\ \A name \in DOMAIN got : IsAnswer(name, got[name])
      /\ ~Redeems(call) /\ Needs(call) \subseteq DOMAIN got
  BY DEF TypeInv, AllRead, Hinted
<1>2. CASE Trades(call)
  <2>1. RateAfter(0) \in Nat
    <3>1. CASE Borrows(call)
      <4>1. {"fees", "timestamp"} \subseteq DOMAIN got
        BY <1>1, <1>2, <3>1 DEF Needs, Trades
      <4>2. /\ got.fees.base \in Nat /\ got.fees.lastFeeOperation \in Nat
            /\ got.timestamp \in Nat
        BY <1>1, <4>1 DEF IsAnswer
      <4>3. FeesRead.base \in Nat /\ FeesRead.lastFeeOperation \in Nat
        BY <4>2 DEF FeesRead
      <4>4. got.timestamp + 0 \in Nat
        BY <4>2
      <4>5. BorrowingRate(FeesRead, got.timestamp + 0) \in 0 .. MAXIMUM_BORROWING_RATE
        BY <4>3, <4>4, RatesAreBounded
      <4>6. MAXIMUM_BORROWING_RATE \in Nat
        BY ParametersAssumption
      <4> QED
        BY <3>1, <4>5, <4>6 DEF RateAfter
    <3>2. CASE ~Borrows(call)
      <4>1. MINIMUM_BORROWING_RATE \in Nat
        BY ParametersAssumption
      <4> QED
        BY <3>2, <4>1 DEF RateAfter
    <3> QED
      BY <3>1, <3>2
  <2>2. Before \in Troves /\ (call.change.type = "creation" => IsEmpty(Before))
    <3>1. CASE call.function = "openTrove"
      BY <3>1 DEF Before, EmptyTrove, Trove, Troves, IsEmpty
    <3>2. CASE call.function = "adjustTrove"
      <4>1. "trove" \in DOMAIN got
        BY <1>1, <3>2 DEF Needs
      <4>2. got.trove \in Troves
        BY <1>1, <4>1 DEF IsAnswer
      <4>3. call.change.type = "adjustment"
        BY <1>1, <3>2 DEF IsCall
      <4> QED
        BY <3>2, <4>2, <4>3 DEF Before
    <3> QED
      BY <1>2, <3>1, <3>2 DEF Trades
  <2>3. TroveAfter(0) \in Troves
    BY <1>1, <1>2, <2>1, <2>2, LoanApplied DEF TroveAfter
  <2>4. NominalRatio(TroveAfter(0)) \in Nat
    BY <2>3, RatioType
  <2> QED
    BY <1>1, <1>2, <2>4 DEF HintedRatio
<1>3. CASE ~Trades(call)
  <2>1. {"trove", "deposit"} \subseteq DOMAIN got
    BY <1>1, <1>3, HintedCalls DEF Needs, Trades
  <2>2. got.trove \in Troves /\ got.deposit \in Nat
    BY <1>1, <2>1 DEF IsAnswer
  <2>3. Trove(got.deposit, 0) \in Troves
    BY <2>2 DEF Trove, Troves
  <2>4. NominalRatio(Plus(got.trove, Trove(got.deposit, 0))) \in Nat
    BY <2>2, <2>3, PlusType, RatioType
  <2> QED
    BY <1>1, <1>3, <2>4 DEF HintedRatio
<1> QED
  BY <1>2, <1>3

\* The addresses that a search finds are of Troves in the list, or zero.
LEMMA FoundAreOwners ==
    ASSUME NEW c, IsChain(c), NEW ratio \in Nat
    PROVE  LET h == FindInsertPosition(c, ratio)
           IN h[1] \in Owners(c) \cup {0} /\ h[2] \in Owners(c) \cup {0}
<1>1. Higher(c, ratio) \subseteq Owners(c)
  BY DEF Higher
<1> QED
  BY <1>1, SearchEncloses DEF IsLast, IsFirst

\* In an empty list there is nothing to walk.
LEMMA NothingToWalk ==
    ASSUME NEW d, IsChain(d), Owners(d) = {}, NEW ratio \in Nat, NEW own
    PROVE  Usable(d, ratio, own, <<0, 0>>)
<1>1. Higher(d, ratio) = {}
  BY DEF Higher
<1>2. IsLast(d, Higher(d, ratio), 0) /\ IsFirst(d, Higher(d, ratio), 0)
  BY <1>1 DEF IsLast, IsFirst
<1>3. Usable(d, ratio, own, NoZero(<<0, 0>>))
  <2>1. own # 0 => own \notin {0, 0}
    OBVIOUS
  <2> QED
    BY <1>2, <2>1, EnclosingIsUsable
<1>4. NoZero(<<0, 0>>) = <<0, 0>>
  BY DEF NoZero, AddressZero
<1> QED
  BY <1>3, <1>4

Searching == {"counting", "searching", "jumping", "preparing", "estimating",
              "populated"}
Placed == {"preparing", "estimating", "populated"}

\* The list is the one that is searched, and takes the Trove.
Clean == /\ since.touched = {}
         /\ call.function = "openTrove" => Own \notin Owners(chain)

\* Once the list is searched, all that the ratio is made of has been read; as
\* long as the list stays, what was found is the place in it.
HintInv ==
    Hinted =>
        /\ phase \in Searching => AllRead
        /\ Clean /\ phase = "jumping" =>
              /\ OwnAddress = Own /\ Own \in {hints[1], hints[2]}
              /\ hints = FindInsertPosition(chain, HintedRatio)
        /\ Clean /\ phase \in Placed /\ HintedRatio # INFINITY =>
              Usable(Without(chain, Own), HintedRatio, OwnAddress, hints)

LEMMA SameRatio ==
    ASSUME UNCHANGED <<call, got>>, Hinted
    PROVE  /\ HintedRatio' = HintedRatio /\ OwnAddress' = OwnAddress
           /\ Hinted' /\ AllRead' = AllRead
<1>1. ~Redeems(call) /\ call' = call /\ got' = got
  BY DEF Hinted
<1>2. Hinted' /\ AllRead' = AllRead /\ OwnAddress' = OwnAddress
  BY <1>1 DEF Hinted, AllRead, OwnAddress
<1>3. RateAfter(0)' = RateAfter(0) /\ Before' = Before
  BY <1>1 DEF RateAfter, FeesRead, Before
<1>4. HintedRatio' = HintedRatio
  BY <1>1, <1>3 DEF HintedRatio, TroveAfter
<1> QED
  BY <1>2, <1>4

\* The hints of a search, before what is asked of them is known.
LEMMA SearchIsUsable ==
    ASSUME TypeInv, AllRead, Hinted, Clean, phase = "searching",
           ~NeedsJump(FindInsertPosition(chain, HintedRatio))
    PROVE  Usable(Without(chain, Own), HintedRatio, OwnAddress,
                  NoZero(FindInsertPosition(chain, HintedRatio)))
<1> DEFINE h == FindInsertPosition(chain, HintedRatio)
<1>1. IsChain(chain) /\ HintedRatio \in Nat /\ Own # 0
  BY HintedRatioType, ListAssumption DEF TypeInv
<1>2. OwnAddress \in {0, Own} /\ (OwnAddress = 0 => call.function = "openTrove")
  BY <1>1, HintedCalls
<1>3. Own \notin {h[1], h[2]}
  <2>1. CASE OwnAddress = Own
    BY <1>1, <2>1 DEF NeedsJump, AddressZero
  <2>2. CASE OwnAddress = 0
    <3>1. Own \notin Owners(chain)
      BY <1>2, <2>2 DEF Clean
    <3>2. h[1] \in Owners(chain) \cup {0} /\ h[2] \in Owners(chain) \cup {0}
      BY <1>1, FoundAreOwners
    <3> QED
      BY <1>1, <3>1, <3>2
  <2> QED
    BY <1>2, <2>1, <2>2
<1> QED
  BY <1>1, <1>2, <1>3, FoundIsUsable

LEMMA HintNext == TypeInv /\ HintInv /\ [Next]_vars => HintInv'
<1> SUFFICES ASSUME TypeInv, HintInv, [Next]_vars, Hinted', phase' \in Searching
             PROVE  HintInv'
  BY DEF HintInv, Searching, Placed
<1> DEFINE Found == FindInsertPosition(chain, HintedRatio)
           Fit(h) == Usable(Without(chain, Own), HintedRatio, OwnAddress, h)
<1>1. IsChain(chain) /\ Own \in Nat \ {0}
  BY ListAssumption DEF TypeInv
<1>2. ASSUME NEW c \in Calls, Begin(c) PROVE HintInv'
  <2>1. /\ call' = Normalized(c) /\ call'.function = c.function
        /\ phase' = "settled" \/ phase' = IF Needs(c) = {} THEN "preparing" ELSE "reading"
    BY <1>2, NormalizedIs, TransactAssumption DEF Begin
  <2>2. Needs(c) = {}
    BY <2>1 DEF Searching
  <2>3. c.function # "adjustTrove"
    <3>1. c.function = "adjustTrove" => "trove" \in Needs(c)
      BY DEF Needs, Redeems
    <3> QED
      BY <2>2, <3>1
  <2>4. Needs(call') = {}
    BY <2>1, <2>2, <2>3 DEF Normalized
  <2> QED
    BY <2>4 DEF Hinted
<1>3. ASSUME NEW name, Answer(name) PROVE HintInv'
  <2>1. /\ name \in Needs(call) \ DOMAIN got /\ UNCHANGED <<call, phase>>
    BY <1>3 DEF Answer
  <2>2. ~AllRead /\ Hinted /\ phase \in Searching
    BY <2>1 DEF AllRead, Hinted
  <2> QED
    BY <2>2 DEF HintInv
<1>4. CASE Truncate \/ Increase
  BY <1>4 DEF Truncate, Increase, IsTruncated, Hinted, Redeems
\* The steps that read nothing more.
<1>5. ASSUME UNCHANGED <<call, got>>, phase = "reading" => AllRead,
             phase \in Searching \cup {"reading"}
      PROVE  /\ AllRead /\ AllRead' /\ Hinted /\ (Clean <=> since.touched = {}
                 /\ (call.function = "openTrove" => Own \notin Owners(chain)))
             /\ HintedRatio' = HintedRatio /\ OwnAddress' = OwnAddress
             /\ HintedRatio \in Nat
  <2>1. Hinted
    BY <1>5 DEF Hinted, Redeems
  <2>2. AllRead
    BY <1>5, <2>1 DEF HintInv
  <2>3. HintedRatio \in Nat
    BY <1>5, <2>1, <2>2, HintedRatioType DEF Searching
  <2> QED
    BY <1>5, <2>1, <2>2, <2>3, SameRatio DEF Clean
<1>6. ASSUME UNCHANGED <<chain, call, since>> PROVE Clean' = Clean
  BY <1>6 DEF Clean
<1>7. CASE StartSearch
  <2>1. AllRead' /\ phase' = "counting"
    BY <1>7 DEF StartSearch, AllRead
  <2> QED
    BY <2>1 DEF HintInv, Placed
<1>8. CASE Count
  <2>1. /\ phase = "counting" /\ phase' \in {"preparing", "searching"}
        /\ hints' = IF HintedRatio = INFINITY /\ Owners(chain) # {}
                    THEN <<AddressZero, GetFirst(chain)>> ELSE <<0, 0>>
        /\ phase' = "preparing" => Owners(chain) = {} \/ HintedRatio = INFINITY
        /\ UNCHANGED <<chain, call, got, since>>
    BY <1>8 DEF Count
  <2>2. AllRead' /\ HintedRatio' = HintedRatio /\ OwnAddress' = OwnAddress
        /\ HintedRatio \in Nat
    BY <1>5, <2>1 DEF Searching
  <2>3. ASSUME phase' \in Placed, HintedRatio # INFINITY PROVE Fit(hints)'
    <3>1. Owners(chain) = {} /\ hints' = <<0, 0>>
      BY <2>1, <2>3 DEF Placed
    <3>2. IsChain(Without(chain, Own)) /\ Owners(Without(chain, Own)) = {}
      BY <1>1, <3>1, WithoutIs
    <3>3. Fit(<<0, 0>>)
      BY <2>2, <3>2, NothingToWalk
    <3> QED
      BY <2>1, <2>2, <3>1, <3>3
  <2> QED
    BY <2>1, <2>2, <2>3 DEF HintInv
<1>9. CASE Search
  <2>1. /\ phase = "searching"
        /\ \/ NeedsJump(Found) /\ hints' = Found /\ phase' = "jumping"
           \/ ~NeedsJump(Found) /\ hints' = NoZero(Found) /\ phase' = "preparing"
        /\ UNCHANGED <<chain, call, got, since>>
    BY <1>9 DEF Search
  <2>2. AllRead /\ AllRead' /\ Hinted /\ HintedRatio' = HintedRatio
        /\ OwnAddress' = OwnAddress /\ Clean' = Clean
    BY <1>5, <1>6, <2>1 DEF Searching
  <2>3. CASE phase' = "jumping"
    <3>1. NeedsJump(Found) /\ hints' = Found
      BY <2>1, <2>3
    <3>2. OwnAddress = Own /\ Own \in {Found[1], Found[2]}
      BY <3>1, HintedCalls DEF NeedsJump, AddressZero
    <3>3. (hints = FindInsertPosition(chain, HintedRatio))'
      BY <2>1, <2>2, <3>1
    <3>4. (OwnAddress = Own /\ Own \in {hints[1], hints[2]})'
      BY <2>2, <3>1, <3>2
    <3> QED
      BY <2>2, <2>3, <3>3, <3>4 DEF HintInv, Placed
  <2>4. CASE phase' = "preparing"
    <3>1. ~NeedsJump(Found) /\ hints' = NoZero(Found)
      BY <2>1, <2>4
    <3>2. Clean => Fit(NoZero(Found))
      BY <2>1, <2>2, <3>1, SearchIsUsable
    <3>3. Clean => Fit(hints)'
      BY <2>1, <2>2, <3>1, <3>2
    <3> QED
      BY <2>2, <2>4, <3>3 DEF HintInv
  <2> QED
    BY <2>1, <2>3, <2>4
<1>10. CASE Jump
  <2>1. /\ phase = "jumping" /\ phase' = "preparing"
        /\ hints' = NoZero(IF hints[1] = Own THEN <<GetPrev(chain, Own), hints[2]>>
                           ELSE <<hints[1], GetNext(chain, Own)>>)
        /\ UNCHANGED <<chain, call, got, since>>
    BY <1>10 DEF Jump
  <2>2. AllRead' /\ Hinted /\ HintedRatio' = HintedRatio /\ OwnAddress' = OwnAddress
        /\ HintedRatio \in Nat /\ Clean' = Clean
    BY <1>5, <1>6, <2>1 DEF Searching
  <2>3. ASSUME Clean PROVE Fit(hints)'
    <3>1. OwnAddress = Own /\ hints = Found /\ Own \in {Found[1], Found[2]}
      BY <2>1, <2>2, <2>3 DEF HintInv
    <3>2. Own \in Owners(chain)
      BY <1>1, <2>2, <3>1, FoundAreOwners
    <3>3. Fit(NoZero(IF Found[1] = Own THEN <<GetPrev(chain, Own), Found[2]>>
                     ELSE <<Found[1], GetNext(chain, Own)>>))
      BY <1>1, <2>2, <3>1, <3>2, JumpIsUsable
    <3> QED
      BY <2>1, <2>2, <3>1, <3>3
  <2> QED
    BY <2>1, <2>2, <2>3 DEF HintInv
\* The steps that leave the list and the hints.
<1>11. ASSUME UNCHANGED <<chain, call, got, hints, since>>, phase \in Placed,
              phase' \in Placed
       PROVE  HintInv'
  <2>1. AllRead' /\ Hinted /\ HintedRatio' = HintedRatio /\ OwnAddress' = OwnAddress
        /\ Clean' = Clean
    BY <1>5, <1>6, <1>11 DEF Searching, Placed
  <2>2. Clean /\ HintedRatio # INFINITY => Fit(hints)
    BY <1>11, <2>1 DEF HintInv
  <2>3. Clean /\ HintedRatio # INFINITY => Fit(hints)'
    BY <1>11, <2>1, <2>2
  <2> QED
    BY <1>11, <2>1, <2>3 DEF HintInv, Placed
<1>12. CASE Prepare
  BY <1>11, <1>12 DEF Prepare, Reject, Placed, Searching
<1>13. ASSUME NEW which, Estimate(which) PROVE HintInv'
  BY <1>11, <1>13 DEF Estimate, Reject, Placed, Searching
<1>14. CASE Send \/ Deny \/ Settle \/ LoseReceipt
  BY <1>14 DEF Send, Deny, Settle, LoseReceipt, Reject, Searching
<1>15. ASSUME NEW fate, Mine(fate) PROVE HintInv'
  BY <1>15, MinedIs DEF Searching
<1>16. CASE World
  <2>1. PICK c : IsChain(c) /\ Happens(c)
    BY <1>1, <1>16, WorldIs
  <2>2. chain' = c /\ UNCHANGED <<call, phase, got, hints>>
    BY <2>1 DEF Happens
  <2>3. AllRead /\ AllRead' /\ Hinted /\ HintedRatio' = HintedRatio
        /\ OwnAddress' = OwnAddress
    BY <1>5, <2>2 DEF Searching
  <2>4. ASSUME Clean' PROVE Clean /\ c.troves = chain.troves
    <3>1. since'.touched = {}
      BY <2>4 DEF Clean
    <3>2. since.touched = {} /\ c.troves = chain.troves
      BY <2>1, <3>1, Untouched
    <3>3. Owners(c) = Owners(chain)
      BY <3>2, SameTroves
    <3> QED
      BY <2>2, <2>4, <3>2, <3>3 DEF Clean
  <2>5. Clean' => FindInsertPosition(c, HintedRatio) = Found
    BY <2>4, SamePosition
  <2>6. ASSUME Clean', phase \in Placed, HintedRatio # INFINITY PROVE Fit(hints)'
    <3>1. Fit(hints)
      BY <2>3, <2>4, <2>6 DEF HintInv
    <3>2. Usable(Without(c, Own), HintedRatio, OwnAddress, hints)
      BY <1>1, <2>1, <2>4, <2>6, <3>1, SameUse
    <3> QED
      BY <2>2, <2>3, <3>2
  <2>7. Clean' /\ phase = "jumping" =>
            /\ (OwnAddress = Own /\ Own \in {hints[1], hints[2]})'
            /\ (hints = FindInsertPosition(chain, HintedRatio))'
    BY <2>2, <2>3, <2>4, <2>5 DEF HintInv
  <2> QED
    BY <2>2, <2>3, <2>6, <2>7 DEF HintInv
<1>17. CASE UNCHANGED vars
  <2>1. UNCHANGED <<chain, call, phase, got, hints, since>>
    BY <1>17 DEF vars
  <2>2. AllRead' /\ Hinted /\ HintedRatio' = HintedRatio /\ OwnAddress' = OwnAddress
        /\ Clean' = Clean
    BY <1>5, <1>6, <2>1 DEF Searching
  <2>3. (Fit(hints)' <=> Fit(hints))
        /\ (hints = FindInsertPosition(chain, HintedRatio))' = (hints = Found)
    BY <2>1, <2>2
  <2> QED
    BY <2>1, <2>2, <2>3 DEF HintInv
<1> QED
  BY <1>2, <1>3, <1>4, <1>7, <1>8, <1>9, <1>10, <1>12, <1>13, <1>14, <1>15, <1>16,
     <1>17
  DEF Next

\* Where a Trove is reinserted (findHintsForNominalCollateralRatio() of
\* PopulatableEthers.ts), whatever the list: the hints never name the Trove
\* itself, name others unless there are none, and enclose its place, as long as
\* no Trove changes.
THEOREM HintsAreRight == Spec => []HintsAreUsable
<1>1. Init => TypeInv /\ HintInv
  <2>1. Init => phase = "idle"
    BY DEF Init
  <2>2. Init => HintInv
    BY <2>1 DEF HintInv, Searching, Placed
  <2> QED
    BY <2>2, TypeInit
<1>2. TypeInv /\ HintInv /\ [Next]_vars => (TypeInv /\ HintInv)'
  BY TypeNext, HintNext
<1>3. TypeInv /\ HintInv => HintsAreUsable
  <2> SUFFICES ASSUME TypeInv, HintInv, phase = "populated", Hinted, Clean,
                      HintedRatio # INFINITY
               PROVE  /\ OwnAddress # AddressZero => OwnAddress \notin {hints[1], hints[2]}
                      /\ Owners(chain) \ {Own} # {} => AddressZero \notin {hints[1], hints[2]}
                      /\ \E h \in {hints, <<AddressZero, hints[2]>>,
                                   <<hints[1], AddressZero>>} :
                             Hops(Without(chain, Own), HintedRatio, h) = 0
    BY DEF HintsAreUsable, Hinted, Clean
  <2>1. Usable(Without(chain, Own), HintedRatio, OwnAddress, hints)
    BY DEF HintInv, Placed
  <2>2. Owners(Without(chain, Own)) = Owners(chain) \ {Own}
    BY WithoutIs DEF TypeInv
  <2> QED
    BY <2>1, <2>2 DEF Usable, AddressZero
<1> QED
  BY <1>1, <1>2, <1>3, PTL DEF Spec
=============================================================================
