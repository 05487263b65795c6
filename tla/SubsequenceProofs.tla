------------------------- MODULE SubsequenceProofs -------------------------
(***************************************************************************)
(* What the filter of Subsequence returns, for every sequence and every    *)
(* set of positions, and the induction on natural numbers that the other   *)
(* proofs use: a set of them that is not empty has a least member.         *)
(***************************************************************************)
EXTENDS Subsequence, FiniteSetTheorems, WellFoundedInduction, TLAPS

(* The library's theorem on <, with the relation spelled out. *)
LEMMA LessThanWellFounded == IsWellFoundedOn({p \in Nat \X Nat : p[1] < p[2]}, Nat)
BY NatLessThanWellFounded DEF OpToRel

(* The least-number principle, from the well-foundedness of <. *)
LEMMA LeastNumber ==
    ASSUME NEW T \in SUBSET Nat, T # {}
    PROVE  \E n \in T : \A m \in T : n <= m
<1> DEFINE R == {p \in Nat \X Nat : p[1] < p[2]}
<1>1. \A m, n \in Nat : m < n => <<m, n>> \in R
    OBVIOUS
<1>2. IsWellFoundedOn(R, Nat)
    BY LessThanWellFounded
<1> HIDE DEF R
<1>3. PICK n \in T : \A m \in T : ~ (<<m, n>> \in R)
    BY <1>2, WFMin
<1>4. ASSUME NEW m \in T PROVE n <= m
    <2>1. m \in Nat /\ n \in Nat OBVIOUS
    <2>2. ~ (m < n) BY <1>1, <1>3, <2>1
    <2> QED BY <2>1, <2>2
<1> QED BY <1>3, <1>4

(* Counting one by one, an initial segment has as many members as its end. *)
LEMMA SegmentCount ==
    \A n \in Nat : IsFiniteSet(1..n) /\ Cardinality(1..n) = n
<1>1. TAKE n \in Nat
<1>2. 1 \in Int /\ n \in Int OBVIOUS
<1>3. IsFiniteSet(1..n) /\ Cardinality(1..n) = IF 1 > n THEN 0 ELSE n - 1 + 1
    BY <1>2, FS_Interval
<1> QED BY <1>3

(* The ranks of the positions kept are 1 to the number of them, and a      *)
(* later position has a higher rank.                                       *)
LEMMA RankRange ==
    ASSUME NEW I \in SUBSET Int, IsFiniteSet(I)
    PROVE  /\ Cardinality(I) \in Nat
           /\ \A i \in I : Rank(I, i) \in 1..Cardinality(I)
           /\ \A i, j \in I : i < j => Rank(I, i) < Rank(I, j)
<1> DEFINE Upto(i) == {j \in I : j <= i}
<1>1. \A i \in I : IsFiniteSet(Upto(i)) /\ Cardinality(Upto(i)) <= Cardinality(I)
    BY FS_Subset
<1>2. Cardinality(I) \in Nat /\ \A i \in I : Cardinality(Upto(i)) \in Nat
    BY <1>1, FS_CardinalityType
<1>3. \A i \in I : Cardinality(Upto(i)) # 0
    <2>1. TAKE i \in I
    <2>2. i \in Upto(i) OBVIOUS
    <2> QED BY <1>1, <2>2, FS_EmptySet
<1>4. ASSUME NEW i \in I, NEW j \in I, i < j
      PROVE  Cardinality(Upto(i)) < Cardinality(Upto(j))
    <2>1. Upto(i) \subseteq Upto(j) /\ j \in Upto(j) /\ j \notin Upto(i)
        <3>1. i \in Int /\ j \in Int /\ \A k \in I : k \in Int OBVIOUS
        <3>2. \A k \in I : k <= i => k <= j BY <1>4, <3>1
        <3>3. ~(j <= i) /\ j <= j BY <1>4, <3>1
        <3> QED BY <3>2, <3>3
    <2>2. /\ Cardinality(Upto(i)) <= Cardinality(Upto(j))
          /\ Cardinality(Upto(i)) # Cardinality(Upto(j))
        BY <1>1, <2>1, FS_Subset
    <2> QED BY <1>2, <2>2
<1> QED BY <1>1, <1>2, <1>3, <1>4 DEF Rank

(* Place enumerates the positions in increasing order: every rank has a    *)
(* position, since as many ranks as positions are taken.                   *)
LEMMA Enumerated ==
    ASSUME NEW I \in SUBSET Int, IsFiniteSet(I)
    PROVE  /\ Cardinality(I) \in Nat
           /\ \A k \in 1..Cardinality(I) : Place(I, k) \in I /\ Rank(I, Place(I, k)) = k
           /\ \A i \in I : Rank(I, i) \in 1..Cardinality(I) /\ Place(I, Rank(I, i)) = i
           /\ \A k, l \in 1..Cardinality(I) : k < l <=> Place(I, k) < Place(I, l)
<1> DEFINE n == Cardinality(I)
           f == [i \in I |-> Rank(I, i)]
<1>1. /\ n \in Nat
      /\ \A i \in I : Rank(I, i) \in 1..n
      /\ \A i, j \in I : i < j => Rank(I, i) < Rank(I, j)
    BY RankRange
<1>2. \A i, j \in I : Rank(I, i) = Rank(I, j) => i = j
    BY <1>1
<1> DEFINE R == {Rank(I, i) : i \in I}
<1>3. Cardinality(R) = n
    <2>1. f \in Surjection(I, R)
        BY DEF Surjection
    <2>2. f \in Injection(I, R)
        <3>1. f \in [I -> R] /\ \A i, j \in I : f[i] = f[j] => i = j
            BY <1>2
        <3> HIDE DEF f, R
        <3> QED BY <3>1 DEF Injection, IsInjective
    <2> QED BY <2>1, <2>2, FS_Surjection
<1>4. IsFiniteSet(1..n) /\ Cardinality(1..n) = n
    BY <1>1, SegmentCount
<1>5. R = 1..n
    <2>1. R \subseteq 1..n BY <1>1
    <2> HIDE DEF R, n
    <2> QED BY <1>3, <1>4, <2>1, FS_Subset
<1>6. \A k \in 1..n : \E i \in I : Rank(I, i) = k
    BY <1>5
<1>7. \A k \in 1..n : Place(I, k) \in I /\ Rank(I, Place(I, k)) = k
    BY <1>6 DEF Place
<1>8. \A i \in I : Place(I, Rank(I, i)) = i
    BY <1>1, <1>2, <1>7
<1>9. \A k, l \in 1..n : k < l <=> Place(I, k) < Place(I, l)
    <2>1. TAKE k, l \in 1..n
    <2>2. /\ Place(I, k) \in I /\ Rank(I, Place(I, k)) = k
          /\ Place(I, l) \in I /\ Rank(I, Place(I, l)) = l
        BY <1>7
    <2> DEFINE p == Place(I, k)
               q == Place(I, l)
    <2>3. p \in Int /\ q \in Int BY <2>2
    <2>4. p < q => k < l BY <1>1, <2>2
    <2>5. q < p => l < k BY <1>1, <2>2
    <2>6. p = q => k = l BY <2>2
    <2> HIDE DEF p, q
    <2>7. k < l <=> p < q BY <2>3, <2>4, <2>5, <2>6
    <2> QED BY <2>7 DEF p, q
<1> QED BY <1>1, <1>7, <1>8, <1>9
-----------------------------------------------------------------------------
(* What is kept of a sequence: as many elements as positions, the same     *)
(* elements, in the same order.                                            *)
LEMMA Kept ==
    ASSUME NEW S, NEW s \in Seq(S), NEW I \in SUBSET DOMAIN s
    PROVE  /\ IsFiniteSet(I) /\ I \subseteq 1..Len(s) /\ Cardinality(I) \in Nat
           /\ At(s, I) \in Seq(S) /\ Len(At(s, I)) = Cardinality(I)
           /\ DOMAIN At(s, I) = 1..Cardinality(I)
           /\ \A k \in 1..Cardinality(I) : Place(I, k) \in I /\ At(s, I)[k] = s[Place(I, k)]
           /\ \A i \in I : /\ Rank(I, i) \in 1..Cardinality(I) /\ Place(I, Rank(I, i)) = i
                           /\ At(s, I)[Rank(I, i)] = s[i]
           /\ \A k, l \in 1..Cardinality(I) : k < l <=> Place(I, k) < Place(I, l)
<1>1. Len(s) \in Nat /\ DOMAIN s = 1..Len(s)
    OBVIOUS
<1>2. IsFiniteSet(I) /\ I \in SUBSET Int /\ I \subseteq 1..Len(s)
    BY <1>1, SegmentCount, FS_Subset
<1> DEFINE n == Cardinality(I)
<1>3. /\ n \in Nat
      /\ \A k \in 1..n : Place(I, k) \in I
      /\ \A i \in I : Rank(I, i) \in 1..n /\ Place(I, Rank(I, i)) = i
      /\ \A k, l \in 1..n : k < l <=> Place(I, k) < Place(I, l)
    BY <1>2, Enumerated
<1>4. \A k \in 1..n : s[Place(I, k)] \in S
    BY <1>1, <1>2, <1>3
<1> HIDE DEF n
<1>5. [k \in 1..n |-> s[Place(I, k)]] \in Seq(S)
    BY <1>3, <1>4
<1>6. At(s, I) = [k \in 1..n |-> s[Place(I, k)]]
    BY DEF At, n
<1>7. DOMAIN At(s, I) = 1..n /\ \A k \in 1..n : At(s, I)[k] = s[Place(I, k)]
    BY <1>6
<1>8. Len(At(s, I)) = n
    BY <1>3, <1>5, <1>6, <1>7
<1> QED BY <1>2, <1>3, <1>5, <1>6, <1>7, <1>8 DEF n

(* The members of a sequence: what Elems and Range say of it. *)
Members(s) == {s[i] : i \in DOMAIN s}

(* The elements kept are those at the positions. *)
LEMMA KeptMembers ==
    ASSUME NEW S, NEW s \in Seq(S), NEW I \in SUBSET DOMAIN s
    PROVE  Members(At(s, I)) = {s[i] : i \in I}
<1>1. \A x \in Members(At(s, I)) : x \in {s[i] : i \in I}
    BY Kept DEF Members
<1>2. \A i \in I : s[i] \in Members(At(s, I))
    BY SMTT(30), Kept DEF Members
<1> QED BY <1>1, <1>2

(* What is kept of a sequence without repetition has none.                 *)
LEMMA KeptDistinct ==
    ASSUME NEW S, NEW s \in Seq(S), NEW I \in SUBSET DOMAIN s,
           \A i, j \in DOMAIN s : s[i] = s[j] => i = j
    PROVE  \A k, l \in DOMAIN At(s, I) : At(s, I)[k] = At(s, I)[l] => k = l
<1> DEFINE n == Cardinality(I)
<1>1. /\ n \in Nat /\ DOMAIN At(s, I) = 1..n /\ I \subseteq 1..Len(s) /\ Len(s) \in Nat
      /\ \A k \in 1..n : Place(I, k) \in I /\ At(s, I)[k] = s[Place(I, k)]
      /\ \A k, l \in 1..n : k < l <=> Place(I, k) < Place(I, l)
    BY Kept
<1> HIDE DEF n
<1> SUFFICES ASSUME NEW k \in 1..n, NEW l \in 1..n, At(s, I)[k] = At(s, I)[l] PROVE k = l
    BY <1>1
<1>2. Place(I, k) = Place(I, l)
    BY <1>1
<1>3. ~ (k < l) /\ ~ (l < k)
    BY <1>1, <1>2
<1> QED BY <1>1, <1>3

(* A sequence without repetition is as long as the set of its members is   *)
(* large.                                                                  *)
LEMMA MembersCount ==
    ASSUME NEW S, NEW s \in Seq(S), \A i, j \in DOMAIN s : s[i] = s[j] => i = j
    PROVE  IsFiniteSet(Members(s)) /\ Cardinality(Members(s)) = Len(s)
<1>1. Len(s) \in Nat /\ DOMAIN s = 1..Len(s) /\ s = [i \in DOMAIN s |-> s[i]]
    OBVIOUS
<1>2. s \in [1..Len(s) -> Members(s)]
    BY <1>1 DEF Members
<1>3. s \in Surjection(1..Len(s), Members(s))
    BY <1>1, <1>2 DEF Surjection, Members
<1>4. s \in Injection(1..Len(s), Members(s))
    BY <1>1, <1>2 DEF Injection, IsInjective
<1>5. IsFiniteSet(1..Len(s)) /\ Cardinality(1..Len(s)) = Len(s)
    BY <1>1, SegmentCount
<1> QED BY <1>3, <1>4, <1>5, FS_Surjection

(* Of what is kept no more is in a set than before. *)
LEMMA KeptCount ==
    ASSUME NEW S, NEW s \in Seq(S), NEW I \in SUBSET DOMAIN s, NEW V
    PROVE  LET before == {i \in DOMAIN s : s[i] \in V}
               after  == {k \in DOMAIN At(s, I) : At(s, I)[k] \in V}
           IN  /\ IsFiniteSet(before) /\ IsFiniteSet(after)
               /\ Cardinality(after) \in Nat /\ Cardinality(before) \in Nat
               /\ Cardinality(after) <= Cardinality(before)
               /\ Len(At(s, I)) <= Len(s)
<1> DEFINE before == {i \in DOMAIN s : s[i] \in V}
           n == Cardinality(I)
           after == {k \in 1..n : At(s, I)[k] \in V}
           f == [k \in after |-> Place(I, k)]
<1>1. /\ n \in Nat /\ DOMAIN At(s, I) = 1..n /\ Len(At(s, I)) = n
      /\ I \subseteq 1..Len(s) /\ Len(s) \in Nat /\ DOMAIN s = 1..Len(s)
      /\ \A k \in 1..n : Place(I, k) \in I /\ At(s, I)[k] = s[Place(I, k)]
      /\ \A k, l \in 1..n : k < l <=> Place(I, k) < Place(I, l)
    BY Kept
<1>2. IsFiniteSet(before)
    BY <1>1, SegmentCount, FS_Subset
<1>3. f \in [after -> before]
    BY <1>1
<1>4. \A k, l \in after : f[k] = f[l] => k = l
    <2>1. TAKE k, l \in after
    <2>2. HAVE f[k] = f[l]
    <2>3. k \in Nat /\ l \in Nat /\ k \in 1..n /\ l \in 1..n /\ Place(I, k) = Place(I, l)
        BY <1>1, <2>2
    <2>4. ~ (k < l) /\ ~ (l < k)
        <3>1. Place(I, k) \in Int BY <1>1, <2>3
        <3> HIDE DEF after, n, f
        <3> QED BY <1>1, <2>3, <3>1
    <2> QED BY <2>3, <2>4
<1>5. f \in Injection(after, before)
    <2> HIDE DEF f, after, before
    <2> QED BY <1>3, <1>4 DEF Injection, IsInjective
<1>6. IsFiniteSet(after) /\ Cardinality(after) <= Cardinality(before)
    BY <1>2, <1>5, FS_Injection
<1>7. n <= Len(s)
    <2>1. IsFiniteSet(1..Len(s)) /\ Cardinality(1..Len(s)) = Len(s)
        BY <1>1, SegmentCount
    <2> QED BY <1>1, <2>1, FS_Subset
<1> QED BY <1>1, <1>2, <1>6, <1>7, FS_CardinalityType
=============================================================================
