------------------------- MODULE OrderedKeysProofs -------------------------
(***************************************************************************)
(* Facts about the insertion orders of OrderedKeys: each operation leaves  *)
(* a total order, and the first n keys of an order are n keys.             *)
(***************************************************************************)
EXTENDS OrderedKeys, FiniteSetTheorems, TLAPS

\* R orders exactly the keys of S, from the least to the most recent one.
IsOrder(R, S) ==
  /\ R \in SUBSET (S \X S)
  /\ \A x \in S : <<x, x>> \in R
  /\ \A x, y \in S : <<x, y>> \in R \/ <<y, x>> \in R
  /\ \A x, y \in S : <<x, y>> \in R /\ <<y, x>> \in R => x = y
  /\ \A x, y, z \in S : <<x, y>> \in R /\ <<y, z>> \in R => <<x, z>> \in R

\* A member is a key that comes no later than itself.
LEMMA MembersAre ==
  ASSUME NEW S, NEW R \in SUBSET (S \X S), NEW x
  PROVE  x \in Members(R) <=> <<x, x>> \in R
<1>1. ASSUME <<x, x>> \in R PROVE x \in Members(R)
  <2>1. <<x, x>>[1] = x /\ <<x, x>>[1] = <<x, x>>[2]
    OBVIOUS
  <2> QED  BY <1>1, <2>1 DEF Members
<1>2. ASSUME x \in Members(R) PROVE <<x, x>> \in R
  <2>1. PICK p \in R : p[1] = p[2] /\ x = p[1]
    BY <1>2 DEF Members
  <2>2. p = <<p[1], p[2]>>
    OBVIOUS
  <2> QED  BY <2>1, <2>2
<1> QED  BY <1>1, <1>2

\* An order's keys are its members.
LEMMA OrderMembers ==
  ASSUME NEW R, NEW S, IsOrder(R, S)
  PROVE  Members(R) = S
<1>1. \A x : x \in Members(R) <=> <<x, x>> \in R
  BY MembersAre DEF IsOrder
<1>2. \A x : <<x, x>> \in R <=> x \in S
  BY DEF IsOrder
<1> QED  BY <1>1, <1>2

\* What each operation leaves among the members, whatever the order.
LEMMA DropMembers ==
  ASSUME NEW S, NEW R \in SUBSET (S \X S), NEW X
  PROVE  Members(Drop(R, X)) = Members(R) \ X
<1>1. Drop(R, X) \in SUBSET (S \X S)
  BY DEF Drop
<1>2. \A x : <<x, x>> \in Drop(R, X) <=> <<x, x>> \in R /\ x \notin X
  BY DEF Drop
<1>3. \A x : x \in Members(Drop(R, X)) <=> <<x, x>> \in Drop(R, X)
  BY <1>1, MembersAre
<1>4. \A x : x \in Members(R) <=> <<x, x>> \in R
  BY MembersAre
<1> QED  BY <1>2, <1>3, <1>4

LEMMA PutAllLastMembers ==
  ASSUME NEW S \in SUBSET Int, NEW R \in SUBSET (S \X S), NEW X \in SUBSET S
  PROVE  Members(PutAllLast(R, X)) = Members(R) \cup X
<1> DEFINE rest == Drop(R, X)
           U == rest \cup (Members(rest) \X X) \cup {p \in X \X X : p[1] <= p[2]}
<1>1. rest \in SUBSET (S \X S) /\ Members(rest) = Members(R) \ X
  BY DropMembers DEF Drop
<1>2. Members(R) \in SUBSET S
  BY DEF Members
<1>3. \A x : x \in Members(rest) <=> <<x, x>> \in rest
  BY <1>1, MembersAre
<1> HIDE DEF rest
<1>4. U \in SUBSET (S \X S)
  BY <1>1, <1>2
<1>5. \A x : <<x, x>> \in U <=> x \in Members(rest) \/ x \in X
  <2>1. \A x : <<x, x>> \in Members(rest) \X X <=> x \in Members(rest) /\ x \in X
    OBVIOUS
  <2>2. \A x : <<x, x>> \in {p \in X \X X : p[1] <= p[2]} <=> x \in X
    <3>1. ASSUME NEW x \in X PROVE <<x, x>> \in {p \in X \X X : p[1] <= p[2]}
      <4>1. x \in Int /\ <<x, x>>[1] = x /\ <<x, x>>[2] = x /\ <<x, x>> \in X \X X
        OBVIOUS
      <4>2. <<x, x>>[1] <= <<x, x>>[2]
        BY <4>1
      <4> QED  BY <4>1, <4>2
    <3> QED  BY <3>1
  <2>3. \A x : <<x, x>> \in U <=> \/ <<x, x>> \in rest \/ <<x, x>> \in Members(rest) \X X
                                 \/ <<x, x>> \in {p \in X \X X : p[1] <= p[2]}
    OBVIOUS
  <2> HIDE DEF U
  <2> QED  BY <1>3, <2>1, <2>2, <2>3
<1> HIDE DEF U
<1>6. \A x : x \in Members(U) <=> <<x, x>> \in U
  BY <1>4, MembersAre
<1>7. PutAllLast(R, X) = U
  BY DEF PutAllLast, U, rest
<1> QED  BY <1>1, <1>5, <1>6, <1>7

LEMMA EmptyOrder == IsOrder({}, {})
BY DEF IsOrder

\* del d[x] keeps the order of the others.
LEMMA DropOrder ==
  ASSUME NEW R, NEW S, IsOrder(R, S), NEW X
  PROVE  IsOrder(Drop(R, X), S \ X)
<1>1. \A x, y : <<x, y>> \in Drop(R, X) <=> <<x, y>> \in R /\ x \notin X /\ y \notin X
  BY DEF Drop
<1>2. Drop(R, X) \in SUBSET ((S \ X) \X (S \ X))
  BY DEF Drop, IsOrder
<1> QED  BY <1>1, <1>2 DEF IsOrder

\* Keys inserted at the end, in an order of their own, extend the order.
LEMMA AppendOrder ==
  ASSUME NEW R, NEW S, IsOrder(R, S), NEW Q, NEW X, IsOrder(Q, X), S \cap X = {}
  PROVE  IsOrder(R \cup (S \X X) \cup Q, S \cup X)
<1> DEFINE U == R \cup (S \X X) \cup Q
<1>1. R \in SUBSET (S \X S) /\ Q \in SUBSET (X \X X)
  BY DEF IsOrder
<1>2. /\ \A x \in S, y \in S : <<x, y>> \in U <=> <<x, y>> \in R
      /\ \A x \in X, y \in X : <<x, y>> \in U <=> <<x, y>> \in Q
      /\ \A x \in S, y \in X : <<x, y>> \in U /\ <<y, x>> \notin U
  BY <1>1
<1>3. U \in SUBSET ((S \cup X) \X (S \cup X))
  BY <1>1
<1> HIDE DEF U
<1>4. \A x \in S \cup X : <<x, x>> \in U
  BY <1>2 DEF IsOrder
<1>5. \A x, y \in S \cup X : <<x, y>> \in U \/ <<y, x>> \in U
  BY <1>2 DEF IsOrder
<1>6. \A x, y \in S \cup X : <<x, y>> \in U /\ <<y, x>> \in U => x = y
  BY <1>2 DEF IsOrder
<1>7. ASSUME NEW x \in S \cup X, NEW y \in S \cup X, NEW z \in S \cup X,
             <<x, y>> \in U, <<y, z>> \in U
      PROVE  <<x, z>> \in U
  <2>1. CASE x \in S /\ z \in X
    BY <1>2, <2>1
  <2>2. CASE x \in S /\ z \in S
    <3>1. y \in S
      BY <1>2, <1>7, <2>2
    <3> QED  BY <1>2, <1>7, <2>2, <3>1 DEF IsOrder
  <2>3. CASE x \in X
    <3>1. y \in X
      BY <1>2, <1>7, <2>3
    <3>2. z \in X
      BY <1>2, <1>7, <3>1
    <3> QED  BY <1>2, <1>7, <2>3, <3>1, <3>2 DEF IsOrder
  <2> QED  BY <2>1, <2>2, <2>3
<1>8. IsOrder(U, S \cup X)
  BY <1>3, <1>4, <1>5, <1>6, <1>7 DEF IsOrder
<1> QED  BY <1>8 DEF U

\* d.move_to_end(x)
LEMMA PutLastOrder ==
  ASSUME NEW R, NEW S, IsOrder(R, S), NEW x
  PROVE  IsOrder(PutLast(R, x), S \cup {x})
<1> DEFINE rest == Drop(R, {x})
           T == S \ {x}
<1>1. IsOrder(rest, T)
  BY DropOrder
<1>2. IsOrder({<<x, x>>}, {x})
  BY DEF IsOrder
<1>3. Members(rest) = T
  BY <1>1, OrderMembers
<1> HIDE DEF rest
<1>4. T \cap {x} = {} /\ T \cup {x} = S \cup {x}
  OBVIOUS
<1> HIDE DEF T
<1>5. IsOrder(rest \cup (T \X {x}) \cup {<<x, x>>}, T \cup {x})
  BY <1>1, <1>2, <1>4, AppendOrder
<1>6. PutLast(R, x) = rest \cup (T \X {x}) \cup {<<x, x>>}
  BY <1>3 DEF PutLast, rest
<1> QED  BY <1>4, <1>5, <1>6

\* Numbered keys inserted in increasing order.
LEMMA PutAllLastOrder ==
  ASSUME NEW R, NEW S, IsOrder(R, S), NEW X \in SUBSET Int
  PROVE  IsOrder(PutAllLast(R, X), S \cup X)
<1> DEFINE rest == Drop(R, X)
           T == S \ X
           Q == {p \in X \X X : p[1] <= p[2]}
<1>1. IsOrder(rest, T)
  BY DropOrder
<1>2. IsOrder(Q, X)
  BY DEF IsOrder
<1>3. Members(rest) = T
  BY <1>1, OrderMembers
<1>4. T \cap X = {} /\ T \cup X = S \cup X
  OBVIOUS
<1>5. PutAllLast(R, X) = rest \cup (Members(rest) \X X) \cup Q
  BY DEF PutAllLast
<1> HIDE DEF rest, T, Q
<1>6. IsOrder(rest \cup (T \X X) \cup Q, T \cup X)
  BY <1>1, <1>2, <1>4, AppendOrder
<1> QED  BY <1>3, <1>4, <1>5, <1>6

-----------------------------------------------------------------------------
(* Counting.                                                               *)

\* A nonempty finite set of keys has a least recently used one, and a most
\* recent one.
LEMMA LeastRecent ==
  ASSUME NEW R, NEW S, IsOrder(R, S), NEW T \in SUBSET S, IsFiniteSet(T), T # {}
  PROVE  \E x \in T : \A y \in T : <<x, y>> \in R
<1> DEFINE F == {UpTo(R, T, x) : x \in T}
<1>1. F \subseteq FiniteSubsetsOf(T) /\ F # {}
  <2>1. \A x \in T : UpTo(R, T, x) \in SUBSET T
    BY DEF UpTo
  <2> QED  BY <2>1, FS_FiniteSubsetsOfFinite
<1>2. PICK A \in F : \A B \in F : <<B, A>> \notin StrictSubsetOrdering(T)
  <2> HIDE DEF F
  <2> QED  BY <1>1, FS_StrictSubsetOrderingWellFounded, WFMin
<1>3. PICK x \in T : A = UpTo(R, T, x)
  OBVIOUS
<1>4. ASSUME NEW y \in T, <<x, y>> \notin R PROVE FALSE
  <2> DEFINE B == UpTo(R, T, y)
  <2>1. <<y, x>> \in R /\ x \in A /\ x \notin B
    BY <1>3, <1>4 DEF IsOrder, UpTo
  <2>2. B \subseteq A /\ A \subseteq T
    BY <1>3, <2>1 DEF IsOrder, UpTo
  <2>3. <<B, A>> \in StrictSubsetOrdering(T)
    BY <2>1, <2>2 DEF StrictSubsetOrdering
  <2> QED  BY <1>2, <2>3
<1> QED  BY <1>4

LEMMA ReverseOrder ==
  ASSUME NEW R, NEW S, IsOrder(R, S)
  PROVE  \E Q : IsOrder(Q, S) /\ \A x, y \in S : <<x, y>> \in Q <=> <<y, x>> \in R
<1> DEFINE Q == {p \in S \X S : <<p[2], p[1]>> \in R}
<1>1. Q \in SUBSET (S \X S) /\ \A x, y \in S : <<x, y>> \in Q <=> <<y, x>> \in R
  OBVIOUS
<1> HIDE DEF Q
<1>2. IsOrder(Q, S)
  BY <1>1 DEF IsOrder
<1> QED  BY <1>1, <1>2

LEMMA MostRecent ==
  ASSUME NEW R, NEW S, IsOrder(R, S), NEW T \in SUBSET S, IsFiniteSet(T), T # {}
  PROVE  \E x \in T : \A y \in T : <<y, x>> \in R
<1>1. PICK Q : IsOrder(Q, S) /\ \A x, y \in S : <<x, y>> \in Q <=> <<y, x>> \in R
  BY ReverseOrder
<1>2. PICK x \in T : \A y \in T : <<x, y>> \in Q
  BY <1>1, LeastRecent
<1> QED  BY <1>1, <1>2

\* The first n keys of T are n keys, or all of T.
LEMMA FirstCount ==
  ASSUME NEW R, NEW S, IsOrder(R, S), NEW T \in SUBSET S, IsFiniteSet(T), NEW n \in Nat
  PROVE  /\ Cardinality(First(R, T, n)) <= n
         /\ n <= Cardinality(T) => Cardinality(First(R, T, n)) = n
<1> DEFINE F == First(R, T, n)
<1>1. F \in SUBSET T /\ IsFiniteSet(F) /\ Cardinality(F) \in Nat
  <2>1. F \in SUBSET T
    BY DEF First
  <2> HIDE DEF F
  <2> QED  BY <2>1, FS_Subset, FS_CardinalityType
<1>2. \A x \in T : UpTo(R, T, x) \in SUBSET T /\ IsFiniteSet(UpTo(R, T, x))
                   /\ Cardinality(UpTo(R, T, x)) \in Nat
  <2>1. \A x \in T : UpTo(R, T, x) \in SUBSET T
    BY DEF UpTo
  <2> QED  BY <2>1, FS_Subset, FS_CardinalityType
<1>3. \A x \in T : x \in F <=> Cardinality(UpTo(R, T, x)) <= n
  BY DEF First
<1>4. Cardinality(F) <= n
  <2>1. CASE F = {}
    <3> HIDE DEF F
    <3> QED  BY <2>1, FS_EmptySet
  <2>2. CASE F # {}
    <3>1. PICK x \in F : \A y \in F : <<y, x>> \in R
      <4> HIDE DEF F
      <4> QED  BY <1>1, <2>2, MostRecent
    <3>2. F \in SUBSET UpTo(R, T, x)
      BY <1>1, <3>1 DEF UpTo
    <3> HIDE DEF F
    <3>3. Cardinality(F) <= Cardinality(UpTo(R, T, x))
      BY <1>1, <1>2, <3>2, FS_Subset
    <3> QED  BY <1>1, <1>2, <1>3, <3>3
  <2> QED  BY <2>1, <2>2
<1>5. ASSUME n <= Cardinality(T) PROVE Cardinality(F) >= n
  <2>1. CASE T \ F = {}
    <3>1. F = T
      BY <1>1, <2>1
    <3> QED  BY <1>1, <1>5, <3>1
  <2>2. CASE T \ F # {}
    <3>1. PICK z \in T \ F : \A y \in T \ F : <<z, y>> \in R
      <4>1. T \ F \in SUBSET S /\ IsFiniteSet(T \ F)
        BY FS_Difference
      <4> HIDE DEF F
      <4> QED  BY <2>2, <4>1, LeastRecent
    <3> HIDE DEF F
    <3>2. UpTo(R, T, z) \in SUBSET (F \cup {z})
      BY <3>1 DEF UpTo, IsOrder
    <3>3. IsFiniteSet(F \cup {z}) /\ Cardinality(F \cup {z}) = Cardinality(F) + 1
      BY <1>1, <3>1, FS_AddElement
    <3>4. Cardinality(UpTo(R, T, z)) <= Cardinality(F) + 1
      BY <3>2, <3>3, FS_Subset
    <3>5. ~ (Cardinality(UpTo(R, T, z)) <= n)
      BY <1>3, <3>1
    <3> QED  BY <1>1, <1>2, <3>1, <3>4, <3>5
  <2> QED  BY <2>1, <2>2
<1> HIDE DEF F
<1>6. n <= Cardinality(T) => Cardinality(F) = n
  BY <1>1, <1>4, <1>5
<1> QED  BY <1>4, <1>6 DEF F

=============================================================================
