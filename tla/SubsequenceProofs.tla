-------------------------- MODULE SubsequenceProofs --------------------------
(***************************************************************************)
(* Lemmas about Subsequences, for any finite set of numbers and any        *)
(* sequence: a rank is taken exactly once, so what is kept of a sequence   *)
(* is what it had at the places that stay, each once.                      *)
(***************************************************************************)
EXTENDS Subsequences, FiniteSetTheorems, TLAPS

(* Ranks in a finite set of numbers count its members from 1 on. *)
LEMMA Ranks ==
    ASSUME NEW S \in SUBSET Nat, IsFiniteSet(S)
    PROVE  /\ Cardinality(S) \in Nat
           /\ \A x \in S : Rank(S, x) \in 1..Cardinality(S)
           /\ \A x, y \in S : Rank(S, x) = Rank(S, y) => x = y
           /\ \A i \in 1..Cardinality(S) : \E x \in S : Rank(S, x) = i
<1> DEFINE n == Cardinality(S)
           Upto(x) == {z \in S : z <= x}
           f == [x \in S |-> Rank(S, x)]
<1>1. n \in Nat
  BY FS_CardinalityType
<1>2. ASSUME NEW x \in S
      PROVE  IsFiniteSet(Upto(x)) /\ Cardinality(Upto(x)) \in 1..n /\ Rank(S, x) = Cardinality(Upto(x))
  <2>1. Upto(x) \in SUBSET S /\ x \in Upto(x)
    OBVIOUS
  <2>2. IsFiniteSet(Upto(x)) /\ Cardinality(Upto(x)) <= n
    BY <2>1, FS_Subset
  <2>3. Cardinality(Upto(x)) \in Nat /\ Cardinality(Upto(x)) # 0
    BY <2>1, <2>2, FS_CardinalityType, FS_EmptySet
  <2> QED
    BY <1>1, <2>2, <2>3 DEF Rank
<1>3. ASSUME NEW x \in S, NEW y \in S, x < y PROVE Rank(S, x) # Rank(S, y)
  <2>1. Upto(x) \in SUBSET Upto(y) /\ y \in Upto(y) /\ y \notin Upto(x)
    <3>1. x \in Nat /\ y \in Nat /\ \A z \in S : z \in Nat
      OBVIOUS
    <3>2. \A z \in S : z <= x => z <= y
      BY <1>3, <3>1
    <3>3. Upto(x) \in SUBSET Upto(y)
      BY <3>2
    <3>4. y <= y /\ ~(y <= x)
      BY <1>3, <3>1
    <3> QED
      BY <3>3, <3>4
  <2>2. Cardinality(Upto(y)) # Cardinality(Upto(x))
    BY <1>2, <2>1, FS_Subset
  <2> QED
    BY <1>2, <2>2
<1>4. \A x, y \in S : Rank(S, x) = Rank(S, y) => x = y
  BY <1>3
<1>5. f \in Injection(S, 1..n)
  <2> HIDE DEF n
  <2> QED
    BY <1>2, <1>4 DEF Injection, IsInjective
<1>6. IsFiniteSet(1..n) /\ Cardinality(1..n) = n
  BY <1>1, FS_Interval
<1>7. f \in Surjection(S, 1..n)
  <2> HIDE DEF f
  <2> QED
    BY <1>5, <1>6, FS_Injection
<1>8. \A i \in 1..n : \E x \in S : Rank(S, x) = i
  BY <1>7 DEF Surjection
<1> QED
  BY <1>1, <1>2, <1>4, <1>8
-----------------------------------------------------------------------------
(* A set of numbers in ascending order has each member at one place. *)
LEMMA AscendingMembers ==
    ASSUME NEW S \in SUBSET Nat, IsFiniteSet(S)
    PROVE  /\ Cardinality(S) \in Nat /\ DOMAIN Ascending(S) = 1..Cardinality(S)
           /\ Ascending(S) \in Seq(S) /\ Len(Ascending(S)) = Cardinality(S)
           /\ \A i \in 1..Cardinality(S) : Ascending(S)[i] \in S
           /\ \A x \in S : \E i \in 1..Cardinality(S) : Ascending(S)[i] = x
           /\ ToSet(Ascending(S)) = S
           /\ \A i, j \in DOMAIN Ascending(S) : Ascending(S)[i] = Ascending(S)[j] => i = j
<1> DEFINE n == Cardinality(S)
           Nth(i) == CHOOSE x \in S : Rank(S, x) = i
           s == [i \in 1..n |-> Nth(i)]
<1>1. /\ n \in Nat
      /\ \A x \in S : Rank(S, x) \in 1..n
      /\ \A x, y \in S : Rank(S, x) = Rank(S, y) => x = y
      /\ \A i \in 1..n : \E x \in S : Rank(S, x) = i
  BY Ranks
<1>2. Ascending(S) = s
  BY DEF Ascending
<1> HIDE DEF n
<1>3. \A i \in 1..n : Nth(i) \in S /\ Rank(S, Nth(i)) = i
  BY <1>1
<1> HIDE DEF Nth
<1>4. \A x \in S : Nth(Rank(S, x)) = x
  BY <1>1, <1>3
<1>5. DOMAIN s = 1..n /\ \A i \in 1..n : s[i] = Nth(i)
  OBVIOUS
<1>6. s \in Seq(S) /\ Len(s) = n
  BY <1>1, <1>3
<1> HIDE DEF s
<1>7. /\ \A i \in 1..n : s[i] \in S
      /\ \A x \in S : \E i \in 1..n : s[i] = x
  BY <1>1, <1>3, <1>4, <1>5
<1>8. ToSet(s) = S
  BY <1>5, <1>7 DEF ToSet
<1>9. \A i, j \in DOMAIN s : s[i] = s[j] => i = j
  BY <1>3, <1>5
<1> QED
  BY <1>1, <1>2, <1>5, <1>6, <1>7, <1>8, <1>9 DEF n

(* What is kept of a sequence. *)
LEMMA KeptElements ==
    ASSUME NEW T, NEW s \in Seq(T), NEW I \in SUBSET DOMAIN s
    PROVE  /\ IsFiniteSet(I) /\ Cardinality(I) \in Nat
           /\ Kept(s, I) \in Seq(T) /\ Len(Kept(s, I)) = Cardinality(I)
           /\ ToSet(Kept(s, I)) = {s[i] : i \in I}
           /\ ToSet(Kept(s, I)) \in SUBSET ToSet(s)
<1> DEFINE n == Cardinality(I)
           a == Ascending(I)
<1>1. I \in SUBSET Nat /\ IsFiniteSet(I) /\ \A i \in I : s[i] \in T
  <2>1. Len(s) \in Nat /\ DOMAIN s = 1..Len(s) /\ \A i \in 1..Len(s) : s[i] \in T
    OBVIOUS
  <2>2. I \in SUBSET (1..Len(s)) /\ IsFiniteSet(1..Len(s))
    BY <2>1, FS_Interval
  <2>3. IsFiniteSet(I)
    BY <2>2, FS_Subset
  <2> QED
    BY <2>1, <2>2, <2>3
<1>2. /\ n \in Nat /\ DOMAIN a = 1..n /\ \A i \in 1..n : a[i] \in I
      /\ \A x \in I : \E i \in 1..n : a[i] = x
  BY <1>1, AscendingMembers
<1>3. Kept(s, I) = [i \in 1..n |-> s[a[i]]]
  BY DEF Kept
<1> HIDE DEF n, a
<1>4. Kept(s, I) \in Seq(T) /\ Len(Kept(s, I)) = n /\ DOMAIN Kept(s, I) = 1..n
  BY <1>1, <1>2, <1>3
<1>5. ToSet(Kept(s, I)) = {s[i] : i \in I}
  <2> DEFINE k == Kept(s, I)
  <2>1. DOMAIN k = 1..n /\ \A i \in 1..n : k[i] = s[a[i]]
    BY <1>3, <1>4
  <2> HIDE DEF k
  <2>2. ToSet(k) = {k[i] : i \in 1..n}
    BY <2>1 DEF ToSet
  <2>3. ASSUME NEW x \in {k[i] : i \in 1..n} PROVE x \in {s[i] : i \in I}
    <3>1. PICK i \in 1..n : x = k[i]
      BY <2>3
    <3>2. a[i] \in I /\ x = s[a[i]]
      BY <3>1, <2>1, <1>2
    <3> QED
      BY <3>2
  <2>4. ASSUME NEW x \in {s[i] : i \in I} PROVE x \in {k[i] : i \in 1..n}
    <3>1. PICK j \in I : x = s[j]
      BY <2>4
    <3>2. PICK i \in 1..n : a[i] = j
      BY <1>2
    <3>3. x = k[i]
      BY <3>1, <3>2, <2>1
    <3> QED
      BY <3>3
  <2>5. ToSet(k) = {s[i] : i \in I}
    BY <2>2, <2>3, <2>4
  <2> QED
    BY <2>5 DEF k
<1>6. ToSet(Kept(s, I)) \in SUBSET ToSet(s)
  BY <1>5 DEF ToSet
<1> QED
  BY <1>1, <1>2, <1>4, <1>5, <1>6 DEF n

(* What is kept comes from different places. *)
LEMMA KeptPlaces ==
    ASSUME NEW T, NEW s \in Seq(T), NEW I \in SUBSET DOMAIN s
    PROVE  /\ Len(Kept(s, I)) <= Len(s)
           /\ \A x \in DOMAIN s : x \notin I => Len(Kept(s, I)) < Len(s)
           /\ \A i, j \in DOMAIN Kept(s, I) :
                \E x, y \in I : Kept(s, I)[i] = s[x] /\ Kept(s, I)[j] = s[y] /\ (x = y => i = j)
<1> DEFINE n == Cardinality(I)
           a == Ascending(I)
<1>1. /\ Len(s) \in Nat /\ DOMAIN s = 1..Len(s) /\ I \in SUBSET Nat /\ IsFiniteSet(I) /\ n \in Nat
      /\ Kept(s, I) \in Seq(T) /\ Len(Kept(s, I)) = n
  <2>1. Len(s) \in Nat /\ DOMAIN s = 1..Len(s)
    OBVIOUS
  <2>2. IsFiniteSet(I) /\ n \in Nat /\ Kept(s, I) \in Seq(T) /\ Len(Kept(s, I)) = n
    BY KeptElements
  <2> QED
    BY <2>1, <2>2
<1>2. /\ \A i \in 1..n : a[i] \in I
      /\ \A i, j \in 1..n : a[i] = a[j] => i = j
  BY <1>1, AscendingMembers
<1>3. \A i \in 1..n : Kept(s, I)[i] = s[a[i]]
  BY DEF Kept
<1>4. DOMAIN Kept(s, I) = 1..n
  BY <1>1
<1>5. IsFiniteSet(1..Len(s)) /\ Cardinality(1..Len(s)) = Len(s)
  <2>1. ASSUME NEW k \in Nat PROVE IsFiniteSet(1..k) /\ Cardinality(1..k) = k
    <3>1. 1 \in Int /\ k \in Int
      OBVIOUS
    <3>2. IsFiniteSet(1..k) /\ Cardinality(1..k) = IF 1 > k THEN 0 ELSE k - 1 + 1
      BY ONLY <3>1, FS_Interval
    <3>3. (IF 1 > k THEN 0 ELSE k - 1 + 1) = k
      OBVIOUS
    <3> QED
      BY ONLY <3>2, <3>3
  <2> QED
    BY ONLY <1>1, <2>1
<1>6. n <= Len(s)
  BY <1>1, <1>5, FS_Subset
<1>7. ASSUME NEW x \in DOMAIN s, x \notin I PROVE n < Len(s)
  <2>1. I \subseteq 1..Len(s) /\ I # 1..Len(s)
    BY <1>1, <1>7
  <2>2. n # Len(s)
    BY <1>5, <2>1, FS_Subset
  <2> QED
    BY <1>1, <1>6, <2>2
<1> HIDE DEF n, a
<1> QED
  BY <1>1, <1>2, <1>3, <1>4, <1>6, <1>7

(* Of the places that stay, as many have new places as there are. *)
LEMMA KeptCount ==
    ASSUME NEW T, NEW s \in Seq(T), NEW I \in SUBSET DOMAIN s, NEW J \in SUBSET I, NEW N \in SUBSET DOMAIN Kept(s, I),
           \A j \in DOMAIN Kept(s, I) : j \in N <=> Ascending(I)[j] \in J
    PROVE  Cardinality(N) = Cardinality(J)
<1> DEFINE n == Cardinality(I)
           a == Ascending(I)
           new == {j \in 1..n : a[j] \in J}
           f == [j \in new |-> a[j]]
<1>1. I \in SUBSET Nat /\ IsFiniteSet(I) /\ n \in Nat /\ DOMAIN Kept(s, I) = 1..n
  BY KeptElements
<1>2. /\ DOMAIN a = 1..n /\ \A x \in I : \E i \in 1..n : a[i] = x
      /\ \A i, j \in 1..n : a[i] = a[j] => i = j
  BY <1>1, AscendingMembers
<1> HIDE DEF n, a
<1>3. f \in [new -> J] /\ \A i, j \in new : f[i] = f[j] => i = j
  BY <1>2
<1>4. \A x \in J : \E j \in new : f[j] = x
  BY <1>2
<1>5. IsFiniteSet(new)
  <2>1. IsFiniteSet(1..n) /\ new \in SUBSET (1..n)
    BY <1>1, FS_Interval
  <2> QED
    BY <2>1, FS_Subset
<1>6. N = new
  BY <1>1 DEF a
<1> HIDE DEF f, new
<1>7. f \in Bijection(new, J)
  BY <1>3, <1>4 DEF Bijection, Injection, Surjection, IsInjective
<1>8. Cardinality(new) = Cardinality(J)
  BY <1>5, <1>7, FS_Bijection DEF ExistsBijection
<1> QED
  BY <1>6, <1>8
(* What Append and Tail do to the elements. *)
LEMMA AppendElements ==
    ASSUME NEW T, NEW s \in Seq(T), NEW e \in T
    PROVE  Append(s, e) \in Seq(T) /\ ToSet(Append(s, e)) = ToSet(s) \cup {e}
<1>1. /\ Append(s, e) \in Seq(T) /\ DOMAIN Append(s, e) = 1..Len(s) + 1 /\ Len(s) \in Nat
      /\ DOMAIN s = 1..Len(s)
      /\ \A i \in 1..Len(s) + 1 : Append(s, e)[i] = IF i = Len(s) + 1 THEN e ELSE s[i]
  OBVIOUS
<1>2. Len(s) + 1 \in 1..Len(s) + 1 /\ \A i \in 1..Len(s) : i \in 1..Len(s) + 1 /\ i # Len(s) + 1
  BY <1>1
<1> QED
  BY <1>1, <1>2 DEF ToSet

LEMMA TailElements ==
    ASSUME NEW T, NEW s \in Seq(T), Len(s) > 0
    PROVE  Tail(s) \in Seq(T) /\ ToSet(Tail(s)) \in SUBSET ToSet(s)
<1>1. /\ Tail(s) \in Seq(T) /\ DOMAIN Tail(s) = 1..Len(s) - 1 /\ Len(s) \in Nat
      /\ DOMAIN s = 1..Len(s)
      /\ \A i \in 1..Len(s) - 1 : Tail(s)[i] = s[i + 1]
  OBVIOUS
<1>2. \A i \in 1..Len(s) - 1 : i + 1 \in 1..Len(s)
  BY <1>1
<1> QED
  BY <1>1, <1>2 DEF ToSet
=============================================================================
