---------------------------- MODULE QueueProofs ----------------------------
(***************************************************************************)
(* Queues without repetitions: what is left of one, and that it still has  *)
(* no repetitions, when its front is popped, an element is pushed or       *)
(* removed, or the elements that pass a test are kept.                     *)
(***************************************************************************)
EXTENDS Integers, Functions, Queues, FiniteSetTheorems, SequenceTheorems,
        WellFoundedInduction, TLAPS

(* Taking the front of a queue without repetitions, the way pop_free does. *)
LEMMA TailInjective ==
    ASSUME NEW S, NEW q \in Seq(S), q # <<>>, IsInjective(q)
    PROVE  /\ Tail(q) \in Seq(S)
           /\ Head(q) \in Range(q)
           /\ Head(q) \in S
           /\ IsInjective(Tail(q))
           /\ Range(Tail(q)) = Range(q) \ {Head(q)}
<1>1. /\ Tail(q) \in Seq(S) /\ Head(q) \in S
      /\ Len(Tail(q)) = Len(q) - 1 /\ Len(q) \in Nat /\ Len(q) > 0
      /\ Head(q) = q[1]
      /\ \A i \in 1 .. Len(Tail(q)) : Tail(q)[i] = q[i + 1]
      /\ DOMAIN q = 1 .. Len(q)
      /\ DOMAIN Tail(q) = 1 .. Len(q) - 1
  OBVIOUS
<1>2. Head(q) \in Range(q)
  BY <1>1 DEF Range
<1>3. IsInjective(Tail(q))
  BY <1>1 DEF IsInjective
<1>4. Range(Tail(q)) \subseteq Range(q) \ {Head(q)}
  BY <1>1 DEF Range, IsInjective
<1>5. ASSUME NEW x \in Range(q), x # Head(q) PROVE x \in Range(Tail(q))
  <2>1. PICK i \in 1 .. Len(q) : x = q[i]
    BY <1>1 DEF Range
  <2>2. i - 1 \in 1 .. Len(q) - 1 /\ Tail(q)[i - 1] = x
    BY <1>1, <1>5, <2>1
  <2> QED BY <1>1, <2>2 DEF Range
<1> QED BY <1>1, <1>2, <1>3, <1>4, <1>5

(* Pushing a new element at the back.                                      *)
LEMMA AppendInjective2 ==
    ASSUME NEW S, NEW q \in Seq(S), NEW e \in S,
           IsInjective(q), e \notin Range(q)
    PROVE  /\ Append(q, e) \in Seq(S)
           /\ IsInjective(Append(q, e))
           /\ Range(Append(q, e)) = Range(q) \cup {e}
<1> DEFINE r == Append(q, e)
<1>1. /\ r \in Seq(S) /\ Len(q) \in Nat
      /\ DOMAIN q = 1 .. Len(q) /\ DOMAIN r = 1 .. Len(q) + 1
      /\ r[Len(q) + 1] = e
      /\ \A i \in 1 .. Len(q) : r[i] = q[i]
  OBVIOUS
<1> HIDE DEF r
<1>2. IsInjective(r)
  BY <1>1 DEF IsInjective, Range
<1>3. Range(r) \subseteq Range(q) \cup {e}
  <2> SUFFICES ASSUME NEW i \in 1 .. Len(q) + 1 PROVE r[i] \in Range(q) \cup {e}
    BY <1>1 DEF Range
  <2>1. CASE i = Len(q) + 1
    BY <1>1, <2>1
  <2>2. CASE i \in 1 .. Len(q)
    BY <1>1, <2>2 DEF Range
  <2> QED BY <1>1, <2>1, <2>2
<1>4. Range(q) \cup {e} \subseteq Range(r)
  BY <1>1 DEF Range
<1> QED BY <1>1, <1>2, <1>3, <1>4 DEF r

(* Retaining everything but one element.                                   *)
LEMMA WithoutInjective ==
    ASSUME NEW S, NEW q \in Seq(S), NEW e \in Range(q), IsInjective(q)
    PROVE  /\ Without(q, e) \in Seq(S)
           /\ IsInjective(Without(q, e))
           /\ Range(Without(q, e)) = Range(q) \ {e}
<1> DEFINE k == CHOOSE i \in 1 .. Len(q) : q[i] = e
           r == [i \in 1 .. Len(q) - 1 |-> IF i < k THEN q[i] ELSE q[i + 1]]
<1>1. /\ Len(q) \in Nat /\ DOMAIN q = 1 .. Len(q)
      /\ \A i \in 1 .. Len(q) : q[i] \in S
  OBVIOUS
<1>2. k \in 1 .. Len(q) /\ q[k] = e
  BY <1>1 DEF Range
<1>3. r = Without(q, e)
  BY DEF Without
<1> HIDE DEF k
<1>4. /\ DOMAIN r = 1 .. Len(q) - 1
      /\ \A i \in 1 .. Len(q) - 1 : r[i] = IF i < k THEN q[i] ELSE q[i + 1]
  OBVIOUS
<1>5. r \in Seq(S)
  <2>1. Len(q) - 1 \in Nat
    BY <1>1, <1>2
  <2>2. r \in [1 .. Len(q) - 1 -> S]
    BY <1>1, <1>2
  <2> QED BY <2>1, <2>2
<1> HIDE DEF r
<1>6. IsInjective(r)
  <2> SUFFICES ASSUME NEW i \in 1 .. Len(q) - 1, NEW j \in 1 .. Len(q) - 1,
                      r[i] = r[j]
               PROVE  i = j
    BY <1>4 DEF IsInjective
  <2>1. \A m, n \in 1 .. Len(q) : q[m] = q[n] => m = n
    BY <1>1 DEF IsInjective
  <2>2. CASE i < k /\ j < k
    BY <1>1, <1>2, <1>4, <2>1, <2>2
  <2>3. CASE i < k /\ ~(j < k)
    BY <1>1, <1>2, <1>4, <2>1, <2>3
  <2>4. CASE ~(i < k) /\ j < k
    BY <1>1, <1>2, <1>4, <2>1, <2>4
  <2>5. CASE ~(i < k) /\ ~(j < k)
    <3>1. q[i + 1] = q[j + 1]
      BY <1>4, <2>5
    <3> QED BY <1>1, <2>1, <3>1
  <2> QED BY <2>2, <2>3, <2>4, <2>5
<1>7. Range(r) \subseteq Range(q) \ {e}
  BY <1>1, <1>2, <1>4 DEF Range, IsInjective
<1>8. ASSUME NEW x \in Range(q), x # e PROVE x \in Range(r)
  <2>1. PICK i \in 1 .. Len(q) : x = q[i]
    BY <1>1 DEF Range
  <2>2. CASE i < k
    <3>1. i \in 1 .. Len(q) - 1 /\ r[i] = x
      BY <1>1, <1>2, <1>4, <2>1, <2>2
    <3> QED BY <1>4, <3>1 DEF Range
  <2>3. CASE i > k
    <3>1. i - 1 \in 1 .. Len(q) - 1 /\ ~(i - 1 < k) /\ r[i - 1] = x
      BY <1>1, <1>2, <1>4, <2>1, <2>3
    <3> QED BY <1>4, <3>1 DEF Range
  <2> QED BY <1>1, <1>2, <1>8, <2>1, <2>2, <2>3
<1> QED BY <1>3, <1>5, <1>6, <1>7, <1>8

(* The first n elements of a sequence.                                     *)
LEMMA PrefixProperties ==
    ASSUME NEW S, NEW q \in Seq(S), NEW n \in Nat, n <= Len(q)
    PROVE  /\ SubSeq(q, 1, n) \in Seq(S)
           /\ Len(SubSeq(q, 1, n)) = n
           /\ \A i \in 1 .. n : SubSeq(q, 1, n)[i] = q[i]
<1>1. \A i \in 1 .. n : q[i] \in S
  OBVIOUS
<1>2. SubSeq(q, 1, n) \in Seq(S)
  BY <1>1, SubSeqProperties
<1>3. \A i \in 1 .. n : SubSeq(q, 1, n)[i] = q[i]
  <2> TAKE i \in 1 .. n
  <2>1. n - 1 + 1 = n /\ 1 + i - 1 = i
    OBVIOUS
  <2>2. \A j \in 1 .. n - 1 + 1 : SubSeq(q, 1, n)[j] = q[1 + j - 1]
    BY <1>1, SubSeqProperties
  <2> QED BY <2>1, <2>2
<1>4. Len(SubSeq(q, 1, n)) = n
  OBVIOUS
<1> QED BY <1>2, <1>3, <1>4

(* Dropping the last element, the way deallocate walks a table.            *)
LEMMA FrontInjective ==
    ASSUME NEW S, NEW q \in Seq(S), q # <<>>, IsInjective(q)
    PROVE  /\ SubSeq(q, 1, Len(q) - 1) \in Seq(S)
           /\ q[Len(q)] \in S
           /\ q[Len(q)] \in Range(q)
           /\ IsInjective(SubSeq(q, 1, Len(q) - 1))
           /\ Len(SubSeq(q, 1, Len(q) - 1)) = Len(q) - 1
           /\ \A i \in 1 .. Len(q) - 1 : SubSeq(q, 1, Len(q) - 1)[i] = q[i]
           /\ Range(SubSeq(q, 1, Len(q) - 1)) = Range(q) \ {q[Len(q)]}
<1> DEFINE r == SubSeq(q, 1, Len(q) - 1)
<1>0. /\ Len(q) \in Nat /\ Len(q) > 0 /\ DOMAIN q = 1 .. Len(q)
      /\ \A i \in 1 .. Len(q) : q[i] \in S
  OBVIOUS
<1>1. /\ Len(q) \in Nat /\ Len(q) > 0 /\ DOMAIN q = 1 .. Len(q)
      /\ \A i \in 1 .. Len(q) : q[i] \in S
      /\ r \in Seq(S) /\ Len(r) = Len(q) - 1 /\ DOMAIN r = 1 .. Len(q) - 1
      /\ \A i \in 1 .. Len(q) - 1 : r[i] = q[i]
  BY <1>0, PrefixProperties, LenProperties
<1> HIDE DEF r
<1>2. IsInjective(r)
  BY <1>1 DEF IsInjective
<1>3. q[Len(q)] \in Range(q)
  BY <1>1 DEF Range
<1>4. Range(r) \subseteq Range(q) \ {q[Len(q)]}
  BY <1>1 DEF Range, IsInjective
<1>5. Range(q) \ {q[Len(q)]} \subseteq Range(r)
  BY <1>1 DEF Range
<1> QED BY <1>1, <1>2, <1>3, <1>4, <1>5 DEF r

-----------------------------------------------------------------------------
(* Induction over the natural numbers, as a fact about sets.               *)
LEMMA LeastNat ==
    ASSUME NEW T, T \subseteq Nat, T # {}
    PROVE  \E x \in T : \A y \in T : x <= y
<1> DEFINE R == OpToRel(<, Nat)
<1>1. IsWellFoundedOn(R, Nat)
  BY NatLessThanWellFounded
<1>2. \A x, y \in Nat : y < x => <<y, x>> \in R
  BY DEF OpToRel
<1> HIDE DEF R
<1>3. PICK x \in T : \A y \in T : ~ (<<y, x>> \in R)
  BY <1>1, WFMin
<1>4. \A y \in T : y \in Nat /\ x \in Nat /\ ~(y < x)
  BY <1>2, <1>3
<1>5. \A y \in T : x <= y
  BY <1>4
<1> QED BY <1>5

UpTo(X, i) == {j \in X : j <= i}

(* In a finite set of numbers, the elements have the ranks 1, 2, ...       *)
LEMMA RankExists ==
    ASSUME NEW N \in Nat, NEW X, X \subseteq 1 .. N,
           NEW k \in 1 .. Cardinality(X)
    PROVE  \E i \in X : Cardinality(UpTo(X, i)) = k
<1> DEFINE Below(i) == UpTo(X, i)
<1> USE DEF UpTo
<1>0. /\ X \subseteq Nat /\ IsFiniteSet(X) /\ Cardinality(X) \in Nat /\ k \in Nat /\ k >= 1
      /\ \A j \in X : j \in Nat /\ j >= 1 /\ j <= N
  <2>1. 1 \in Int /\ N \in Int
    OBVIOUS
  <2>2. IsFiniteSet(1 .. N)
    BY ONLY <2>1, FS_Interval
  <2>3. IsFiniteSet(X) /\ Cardinality(X) \in Nat
    BY <2>2, FS_Subset, FS_CardinalityType
  <2>4. \A j \in X : j \in 1 .. N
    OBVIOUS
  <2>5. \A j \in X : j \in Nat /\ j >= 1 /\ j <= N
    BY <2>4
  <2> QED BY <2>3, <2>5
<1>1. ASSUME NEW i \in Nat
      PROVE  IsFiniteSet(Below(i)) /\ Cardinality(Below(i)) \in Nat
  <2>1. IsFiniteSet(Below(i))
    BY <1>0, FS_Subset
  <2> QED BY <2>1, FS_CardinalityType
<1> DEFINE T == {i \in 1 .. N : k <= Cardinality(Below(i))}
<1>2. T \subseteq Nat /\ T # {}
  <2>1. Below(N) = X
    BY <1>0
  <2>2. N >= 1
    <3>1. CASE N = 0
      <4>1. X = {}
        BY <1>0, <3>1
      <4>2. Cardinality(X) = 0
        BY <4>1, FS_EmptySet
      <4> QED BY <4>2
    <3> QED BY <3>1
  <2>3. N \in T
    <3>1. k <= Cardinality(Below(N))
      BY <1>0, <2>1
    <3>2. N \in 1 .. N
      BY <2>2
    <3> HIDE DEF Below, UpTo
    <3> QED BY <3>1, <3>2
  <2>4. T \subseteq 1 .. N
    OBVIOUS
  <2> HIDE DEF T
  <2> QED BY <2>3, <2>4
<1>3. PICK i \in T : \A y \in T : i <= y
  <2> HIDE DEF T
  <2> QED BY <1>2, LeastNat
<1>4. i \in 1 .. N /\ i \in Nat /\ k <= Cardinality(Below(i))
  OBVIOUS
<1>5. Cardinality(Below(i - 1)) < k
  <2>1. CASE i = 1
    <3>0. \A j \in X : ~(j <= 0)
      BY <1>0
    <3>1. Below(0) = {}
      BY <3>0
    <3>2. Cardinality(Below(0)) = 0
      BY <3>1, FS_EmptySet
    <3>3. i - 1 = 0
      BY <2>1
    <3> HIDE DEF Below, UpTo
    <3> QED BY <1>0, <3>2, <3>3
  <2>2. CASE i # 1
    <3>1. i - 1 \in 1 .. N /\ ~(i <= i - 1)
      BY <1>4, <2>2
    <3>2. i - 1 \notin T
      BY <1>3, <3>1
    <3>3. Cardinality(Below(i - 1)) \in Nat
      <4>1. i - 1 \in Nat
        BY <3>1
      <4> QED BY <1>1, <4>1
    <3>4. ~(k <= Cardinality(Below(i - 1)))
      BY <3>1, <3>2
    <3> HIDE DEF Below, UpTo
    <3> QED BY <1>0, <3>3, <3>4
  <2> QED BY <2>1, <2>2
<1>6. i \in X
  <2>1. CASE i \notin X
    <3>0. \A j \in X : j <= i <=> j <= i - 1
      BY <1>0, <1>4, <2>1
    <3>1. Below(i) = Below(i - 1)
      BY <3>0
    <3>2. Cardinality(Below(i)) \in Nat
      BY <1>1, <1>4
    <3> HIDE DEF Below, UpTo
    <3> QED BY <1>0, <1>4, <1>5, <3>1, <3>2
  <2> QED BY <2>1
<1>7. Below(i) \ {i} = Below(i - 1)
  <2>1. \A j \in X : (j <= i /\ j # i) <=> j <= i - 1
    BY <1>0, <1>4
  <2> QED BY <2>1
<1>8. i \in Below(i)
  BY <1>4, <1>6
<1>9. Cardinality(Below(i) \ {i}) = Cardinality(Below(i)) - 1
  <2>1. IsFiniteSet(Below(i))
    BY <1>1, <1>4
  <2> HIDE DEF Below, UpTo
  <2> QED BY <1>8, <2>1, FS_RemoveElement
<1>10. Cardinality(Below(i)) \in Nat /\ Cardinality(Below(i)) = k
  <2>1. Cardinality(Below(i)) \in Nat
    BY <1>1, <1>4
  <2> HIDE DEF Below, UpTo
  <2>2. Cardinality(Below(i - 1)) = Cardinality(Below(i)) - 1
    BY <1>7, <1>9
  <2> QED BY <1>0, <1>4, <1>5, <2>1, <2>2
<1> QED BY <1>6, <1>10

(* Elements of a finite set of positions differ in rank.                   *)
LEMMA RankDiffers ==
    ASSUME NEW N \in Nat, NEW X, X \subseteq 1 .. N, IsFiniteSet(X),
           NEW i \in X, NEW j \in X, Cardinality(UpTo(X, i)) = Cardinality(UpTo(X, j))
    PROVE  i = j
<1>1. \A x \in X : x \in Nat
  OBVIOUS
<1>2. ASSUME NEW x \in X, NEW y \in X, x < y
      PROVE  Cardinality(UpTo(X, x)) # Cardinality(UpTo(X, y))
  <2>0. \A z \in X : z <= x => z <= y
    BY <1>1, <1>2
  <2>1. UpTo(X, x) \subseteq UpTo(X, y) /\ UpTo(X, y) \subseteq X
    BY <2>0 DEF UpTo
  <2>2. y \in UpTo(X, y) /\ y \notin UpTo(X, x)
    BY <1>1, <1>2 DEF UpTo
  <2>3. IsFiniteSet(UpTo(X, y))
    BY <2>1, FS_Subset
  <2> QED BY <2>1, <2>2, <2>3, FS_Subset
<1>3. i < j \/ j < i \/ i = j
  BY <1>1
<1> QED BY <1>2, <1>3

(* A filtered queue without repetitions has none either, and the wanted    *)
(* elements of the queue.                                                  *)
LEMMA FilteredProperties ==
    ASSUME NEW A, NEW q \in Seq(A), NEW S, IsInjective(q)
    PROVE  /\ Filtered(q, S) \in Seq(A)
           /\ IsInjective(Filtered(q, S))
           /\ Range(Filtered(q, S)) = Range(q) \cap S
           /\ Len(Filtered(q, S)) \in Nat
<1> DEFINE X == {i \in 1 .. Len(q) : q[i] \in S}
           nth(k) == CHOOSE i \in X : Cardinality(UpTo(X, i)) = k
           r == [k \in 1 .. Cardinality(X) |-> q[nth(k)]]
<1>1. r = Filtered(q, S)
  BY DEF Filtered, UpTo
<1>2. Len(q) \in Nat /\ DOMAIN q = 1 .. Len(q) /\ \A i \in 1 .. Len(q) : q[i] \in A
  OBVIOUS
<1>3. X \subseteq 1 .. Len(q) /\ IsFiniteSet(X) /\ Cardinality(X) \in Nat
  <2>1. 1 \in Int /\ Len(q) \in Int
    BY <1>2
  <2>2. IsFiniteSet(1 .. Len(q))
    BY ONLY <2>1, FS_Interval
  <2>3. X \subseteq 1 .. Len(q)
    OBVIOUS
  <2> HIDE DEF X
  <2> QED BY <2>2, <2>3, FS_Subset, FS_CardinalityType
<1>4. ASSUME NEW k \in 1 .. Cardinality(X)
      PROVE  /\ nth(k) \in X
             /\ Cardinality(UpTo(X, nth(k))) = k
  <2>1. \E i \in X : Cardinality(UpTo(X, i)) = k
    <3> HIDE DEF X
    <3> QED BY <1>2, <1>3, RankExists
  <2> QED BY <2>1
<1>5. \A k \in 1 .. Cardinality(X) :
         nth(k) \in 1 .. Len(q) /\ q[nth(k)] \in S /\ q[nth(k)] \in A
  BY <1>2, <1>4
<1>6. \A k, l \in 1 .. Cardinality(X) : nth(k) = nth(l) => k = l
  <2> HIDE DEF nth
  <2> QED BY <1>4
<1>a. ASSUME NEW i \in X
      PROVE  \E k \in 1 .. Cardinality(X) : nth(k) = i
  <2> DEFINE k == Cardinality(UpTo(X, i))
  <2> HIDE DEF X, nth
  <2>1. UpTo(X, i) \subseteq X /\ i \in UpTo(X, i)
    BY <1>3 DEF UpTo
  <2>2. IsFiniteSet(UpTo(X, i)) /\ k \in Nat /\ k <= Cardinality(X)
    BY <1>3, <2>1, FS_Subset, FS_CardinalityType
  <2>3. k # 0
    BY <2>1, <2>2, FS_EmptySet
  <2>4. k \in 1 .. Cardinality(X)
    BY <1>3, <2>2, <2>3
  <2>5. nth(k) \in X /\ Cardinality(UpTo(X, nth(k))) = k
    BY <1>4, <2>4
  <2>6. nth(k) = i
    BY <1>2, <1>3, <2>5, RankDiffers
  <2> QED BY <2>4, <2>6
<1>b. \A i \in 1 .. Len(q) : q[i] \in S => i \in X
  OBVIOUS
<1> HIDE DEF nth, X
<1>7. r \in [1 .. Cardinality(X) -> A]
  BY <1>5
<1>8. r \in Seq(A) /\ Len(r) = Cardinality(X)
  BY <1>3, <1>7
<1>9. IsInjective(r)
  BY <1>2, <1>5, <1>6 DEF IsInjective
<1>10. Range(r) \subseteq Range(q) \cap S
  BY <1>2, <1>5 DEF Range
<1>11. ASSUME NEW e \in Range(q), e \in S PROVE e \in Range(r)
  <2>1. PICK i \in 1 .. Len(q) : q[i] = e
    BY <1>2 DEF Range
  <2>2. PICK k \in 1 .. Cardinality(X) : nth(k) = i
    BY <1>11, <1>a, <1>b, <2>1
  <2>3. k \in DOMAIN r /\ r[k] = e
    BY <2>1, <2>2
  <2> HIDE DEF r
  <2> QED BY <2>3 DEF Range
<1>12. Range(r) = Range(q) \cap S
  BY <1>10, <1>11
<1> QED BY <1>1, <1>3, <1>8, <1>9, <1>12
=============================================================================
