----------------------------- MODULE PositionFacts -----------------------------
(***************************************************************************)
(* Facts about Positions: what Nth, Pick and Chain return.  Induction is   *)
(* over sets of numbers (NatSet): a set that holds 0 and the successor of  *)
(* each of its members is all of Nat.                                      *)
(***************************************************************************)
EXTENDS Positions, FiniteSetTheorems, FiniteSetsExt, WellFoundedInduction, TLAPS

\* Induction, with a set for the predicate: the least number outside would have a
\* predecessor inside.
LEMMA NatSet ==
    ASSUME NEW S, 0 \in S, \A n \in Nat : n \in S => n + 1 \in S
    PROVE  Nat \subseteq S
<1> DEFINE R == OpToRel(<, Nat)
<1>1. IsWellFoundedOn(R, Nat) BY NatLessThanWellFounded
<1>2. \A i, j \in Nat : i < j => <<i, j>> \in R BY DEF OpToRel
<1> HIDE DEF R
<1> SUFFICES ASSUME Nat \ S # {} PROVE FALSE OBVIOUS
<1>3. PICK x \in Nat \ S : \A y \in Nat \ S : ~(<<y, x>> \in R) BY <1>1, WFMin
<1>4. x # 0 /\ x - 1 \in Nat /\ x - 1 < x /\ (x - 1) + 1 = x BY <1>3
<1>5. x - 1 \in S
  <2>1. <<x - 1, x>> \in R BY <1>2, <1>3, <1>4
  <2> QED BY <1>3, <1>4, <2>1
<1> QED BY <1>3, <1>4, <1>5

\* A set of numbers that is not empty has a least member, which Min is.
LEMMA MinIs ==
    ASSUME NEW S \in SUBSET Nat, S # {}
    PROVE  Min(S) \in S /\ \A y \in S : Min(S) <= y
<1> DEFINE R == OpToRel(<, Nat)
<1>1. IsWellFoundedOn(R, Nat) BY NatLessThanWellFounded
<1>2. \A i, j \in Nat : i < j => <<i, j>> \in R BY DEF OpToRel
<1> HIDE DEF R
<1>3. PICK x \in S : \A y \in S : ~(<<y, x>> \in R) BY <1>1, WFMin
<1>4. \A y \in S : x <= y
  <2> SUFFICES ASSUME NEW y \in S, ~(x <= y) PROVE FALSE OBVIOUS
  <2>1. y < x /\ x \in Nat /\ y \in Nat OBVIOUS
  <2> QED BY <1>2, <1>3, <2>1
<1> QED BY <1>4 DEF Min

\* Where the elements of two sequences stand in their concatenation.
LEMMA ConcatIs ==
    ASSUME NEW X, NEW s \in Seq(X), NEW t \in Seq(X)
    PROVE  /\ s \o t \in Seq(X) /\ Len(s \o t) = Len(s) + Len(t)
           /\ \A k \in 1 .. Len(s) : (s \o t)[k] = s[k]
           /\ \A k \in 1 .. Len(t) : (s \o t)[Len(s) + k] = t[k]
OBVIOUS

\* A sequence and one element.
LEMMA ConcatOne ==
    ASSUME NEW X, NEW s \in Seq(X), NEW m \in X
    PROVE  /\ s \o <<m>> \in Seq(X) /\ Len(s \o <<m>>) = Len(s) + 1
           /\ \A k \in 1 .. Len(s) : (s \o <<m>>)[k] = s[k]
           /\ (s \o <<m>>)[Len(s) + 1] = m
OBVIOUS

-----------------------------------------------------------------------------
(* Rank, Nth and Pick *)

\* Of two positions the later one has the higher rank.
LEMMA RankGrows ==
    ASSUME NEW P \in SUBSET Int, IsFiniteSet(P), NEW i \in P, NEW j \in P, i < j
    PROVE  Rank(P, i) < Rank(P, j) /\ Rank(P, i) \in Nat /\ Rank(P, j) \in Nat
<1> DEFINE A == {k \in P : k <= i}
           B == {k \in P : k <= j}
<1>1. IsFiniteSet(A) /\ IsFiniteSet(B) BY FS_Subset
<1>2. A \subseteq B /\ j \in B /\ j \notin A
  <2>1. i \in Int /\ j \in Int /\ \A k \in P : k \in Int OBVIOUS
  <2>2. j <= j /\ ~(j <= i) /\ \A k \in P : k <= i => k <= j BY <2>1
  <2> QED BY <2>2
<1>3. Cardinality(A) <= Cardinality(B) /\ Cardinality(A) # Cardinality(B)
  <2> HIDE DEF A, B
  <2> QED BY <1>1, <1>2, FS_Subset
<1>4. Cardinality(A) \in Nat /\ Cardinality(B) \in Nat BY <1>1, FS_CardinalityType
<1> HIDE DEF A, B
<1>5. Cardinality(A) < Cardinality(B) BY <1>3, <1>4
<1> QED BY <1>4, <1>5 DEF Rank, A, B

\* A rank is a number between one and the number of positions.
LEMMA RankType ==
    ASSUME NEW P \in SUBSET Int, IsFiniteSet(P), NEW i \in P
    PROVE  Rank(P, i) \in 1 .. Cardinality(P) /\ Cardinality(P) \in Nat
<1> DEFINE A == {k \in P : k <= i}
<1>1. IsFiniteSet(A) /\ Cardinality(A) <= Cardinality(P) BY FS_Subset
<1>2. Cardinality(A) \in Nat /\ Cardinality(P) \in Nat BY <1>1, FS_CardinalityType
<1>3. A # {} OBVIOUS
<1>4. Cardinality(A) # 0
  <2> HIDE DEF A
  <2> QED BY <1>1, <1>3, FS_EmptySet
<1> HIDE DEF A
<1>5. Cardinality(A) \in 1 .. Cardinality(P) BY <1>1, <1>2, <1>4
<1> QED BY <1>2, <1>5 DEF Rank, A

\* The k-th position is a position, of rank k, and the only one of that rank.
LEMMA NthIs ==
    ASSUME NEW P \in SUBSET Int, IsFiniteSet(P)
    PROVE  /\ Cardinality(P) \in Nat
           /\ \A k \in 1 .. Cardinality(P) : Nth(P, k) \in P /\ Rank(P, Nth(P, k)) = k
           /\ \A i \in P : Rank(P, i) \in 1 .. Cardinality(P) /\ Nth(P, Rank(P, i)) = i
           /\ \A i, j \in P : i < j <=> Rank(P, i) < Rank(P, j)
<1> DEFINE T == 1 .. Cardinality(P)
           f == [i \in P |-> Rank(P, i)]
<1>1. Cardinality(P) \in Nat BY FS_CardinalityType
<1>2. \A i \in P : Rank(P, i) \in T BY RankType
<1>3. \A i, j \in P : i < j => Rank(P, i) < Rank(P, j) BY RankGrows
<1>4. \A i, j \in P : Rank(P, i) = Rank(P, j) => i = j
  <2> SUFFICES ASSUME NEW i \in P, NEW j \in P, Rank(P, i) = Rank(P, j) PROVE i = j OBVIOUS
  <2>1. i \in Int /\ j \in Int /\ Rank(P, i) \in Nat BY <1>2
  <2>2. ~(i < j) /\ ~(j < i) BY <2>1, <1>2, <1>3
  <2> QED BY <2>1, <2>2
<1>5. f \in Injection(P, T) BY <1>2, <1>4 DEF Injection, IsInjective
<1>6. IsFiniteSet(T) /\ Cardinality(T) = Cardinality(P)
  <2>1. 1 \in Int /\ Cardinality(P) \in Int BY <1>1
  <2>2. IsFiniteSet(T) /\ Cardinality(T) = IF 1 > Cardinality(P) THEN 0 ELSE Cardinality(P) - 1 + 1
        BY <2>1, FS_Interval
  <2> QED BY <2>2, <1>1
<1> HIDE DEF T
<1>7. f \in Surjection(P, T)
  <2> HIDE DEF f
  <2> QED BY <1>5, <1>6, FS_Injection
<1>8. \A k \in T : \E i \in P : Rank(P, i) = k BY <1>7 DEF Surjection
<1>9. \A k \in T : Nth(P, k) \in P /\ Rank(P, Nth(P, k)) = k BY <1>8 DEF Nth
<1>10. \A i \in P : Nth(P, Rank(P, i)) = i BY <1>2, <1>4, <1>9
<1>11. \A i, j \in P : i < j <=> Rank(P, i) < Rank(P, j)
  <2> SUFFICES ASSUME NEW i \in P, NEW j \in P PROVE i < j <=> Rank(P, i) < Rank(P, j) OBVIOUS
  <2>1. i \in Int /\ j \in Int /\ Rank(P, i) \in Int /\ Rank(P, j) \in Int BY <1>2 DEF T
  <2>2. i < j \/ i = j \/ j < i BY <2>1
  <2> QED BY <2>1, <2>2, <1>3
<1> QED BY <1>1, <1>2, <1>9, <1>10, <1>11 DEF T

\* The positions of a sequence are finitely many.
LEMMA PositionsFinite ==
    ASSUME NEW n \in Nat, NEW P \in SUBSET (1 .. n)
    PROVE  P \in SUBSET Int /\ IsFiniteSet(P) /\ Cardinality(P) \in Nat /\ Cardinality(P) <= n
<1>1. IsFiniteSet(1 .. n) /\ Cardinality(1 .. n) = n
  <2>1. IsFiniteSet(1 .. n) /\ Cardinality(1 .. n) = IF 1 > n THEN 0 ELSE n - 1 + 1 BY FS_Interval
  <2> QED BY <2>1
<1>2. IsFiniteSet(P) /\ Cardinality(P) <= n BY <1>1, FS_Subset
<1>3. Cardinality(P) \in Nat BY <1>2, FS_CardinalityType
<1> QED BY <1>2, <1>3

\* What Pick returns: the element at position i stands where i's rank says.
LEMMA PickIs ==
    ASSUME NEW X, NEW s \in Seq(X), NEW P \in SUBSET DOMAIN s
    PROVE  /\ Pick(s, P) \in Seq(X) /\ Len(Pick(s, P)) = Cardinality(P) /\ Cardinality(P) \in Nat
           /\ \A k \in 1 .. Cardinality(P) : Nth(P, k) \in P /\ Pick(s, P)[k] = s[Nth(P, k)]
           /\ \A i \in P : Rank(P, i) \in 1 .. Cardinality(P) /\ Pick(s, P)[Rank(P, i)] = s[i]
<1>1. DOMAIN s = 1 .. Len(s) /\ Len(s) \in Nat OBVIOUS
<1>2. P \in SUBSET Int /\ IsFiniteSet(P) /\ Cardinality(P) \in Nat BY <1>1, PositionsFinite
<1>3. /\ \A k \in 1 .. Cardinality(P) : Nth(P, k) \in P /\ Rank(P, Nth(P, k)) = k
      /\ \A i \in P : Rank(P, i) \in 1 .. Cardinality(P) /\ Nth(P, Rank(P, i)) = i
      BY <1>2, NthIs
<1>4. \A k \in 1 .. Cardinality(P) : s[Nth(P, k)] \in X BY <1>3
<1>5. Pick(s, P) \in Seq(X) /\ Len(Pick(s, P)) = Cardinality(P) BY <1>2, <1>4 DEF Pick
<1> QED BY <1>2, <1>3, <1>5 DEF Pick

\* The rank of the next number is one more if that number is a position.
LEMMA RankNext ==
    ASSUME NEW P \in SUBSET Int, IsFiniteSet(P), NEW i \in Int
    PROVE  /\ Rank(P, i) \in Nat
           /\ Rank(P, i + 1) = Rank(P, i) + (IF i + 1 \in P THEN 1 ELSE 0)
<1> DEFINE A == {k \in P : k <= i}
           B == {k \in P : k <= i + 1}
<1>1. IsFiniteSet(A) /\ Cardinality(A) \in Nat
  <2>1. A \in SUBSET P OBVIOUS
  <2>2. IsFiniteSet(A) BY <2>1, FS_Subset
  <2> QED BY <2>2, FS_CardinalityType
<1>2. i + 1 \notin A OBVIOUS
<1>3. CASE i + 1 \in P
  <2>1. \A k \in P : k <= i + 1 <=> k <= i \/ k = i + 1 OBVIOUS
  <2>2. B = A \cup {i + 1} BY <1>3, <2>1
  <2>3. Cardinality(A \cup {i + 1}) = Cardinality(A) + 1
    <3> HIDE DEF A
    <3> QED BY <1>1, <1>2, FS_AddElement
  <2> QED BY <1>1, <1>3, <2>2, <2>3 DEF Rank
<1>4. CASE i + 1 \notin P
  <2>1. \A k \in P : k # i + 1 BY <1>4
  <2>2. \A k \in P : k <= i + 1 <=> k <= i BY <2>1
  <2>3. B = A BY <2>2
  <2> QED BY <1>1, <1>4, <2>3 DEF Rank
<1> QED BY <1>3, <1>4

\* Along a run of positions the rank counts the steps.
LEMMA RankRun ==
    ASSUME NEW P \in SUBSET Int, IsFiniteSet(P), NEW h \in Int, NEW n \in Nat, \A j \in h + 1 .. h + n : j \in P
    PROVE  \A j \in h .. h + n : Rank(P, j) = Rank(P, h) + (j - h)
<1> DEFINE S == {k \in Nat : k <= n => Rank(P, h + k) = Rank(P, h) + k}
<1>1. 0 \in S
  <2>1. h + 0 = h /\ Rank(P, h) \in Nat BY RankNext
  <2> QED BY <2>1
<1>2. ASSUME NEW k \in Nat, k \in S PROVE k + 1 \in S
  <2> SUFFICES ASSUME k + 1 <= n PROVE Rank(P, h + (k + 1)) = Rank(P, h) + (k + 1) OBVIOUS
  <2>1. Rank(P, h + k) = Rank(P, h) + k BY <1>2
  <2>2. (h + k) + 1 \in P /\ h + k \in Int /\ (h + k) + 1 = h + (k + 1) OBVIOUS
  <2>3. Rank(P, (h + k) + 1) = Rank(P, h + k) + 1 BY <2>2, RankNext
  <2>4. Rank(P, h) \in Nat BY RankNext
  <2> QED BY <2>1, <2>2, <2>3, <2>4
<1>3. Nat \subseteq S
  <2> HIDE DEF S
  <2> QED BY <1>1, <1>2, NatSet
<1> SUFFICES ASSUME NEW j \in h .. h + n PROVE Rank(P, j) = Rank(P, h) + (j - h) OBVIOUS
<1>4. j - h \in Nat /\ j - h <= n /\ h + (j - h) = j OBVIOUS
<1>5. j - h \in S BY <1>3, <1>4
<1> QED BY <1>4, <1>5

\* Positions in two blocks, one before the other, are picked block by block.
LEMMA PickSplit ==
    ASSUME NEW X, NEW s \in Seq(X), NEW A \in SUBSET DOMAIN s, NEW B \in SUBSET DOMAIN s,
           \A i \in A, j \in B : i < j
    PROVE  Pick(s, A \cup B) = Pick(s, A) \o Pick(s, B)
<1> DEFINE P == A \cup B
           a == Cardinality(A)
           b == Cardinality(B)
<1>1. DOMAIN s = 1 .. Len(s) /\ Len(s) \in Nat /\ P \in SUBSET DOMAIN s OBVIOUS
<1>2. /\ A \in SUBSET Int /\ IsFiniteSet(A) /\ a \in Nat
      /\ B \in SUBSET Int /\ IsFiniteSet(B) /\ b \in Nat
      /\ P \in SUBSET Int /\ IsFiniteSet(P)
  <2> HIDE DEF P
  <2> QED BY <1>1, PositionsFinite
<1>0. a \in Nat /\ b \in Nat BY <1>2
<1>3. A \cap B = {}
  <2> SUFFICES ASSUME NEW x \in A, x \in B PROVE FALSE OBVIOUS
  <2>1. x \in Int /\ x < x BY <1>2
  <2> QED BY <2>1
<1>4. Cardinality(P) = a + b
  <2>1. Cardinality(A \cap B) = 0 BY <1>3, FS_EmptySet
  <2>2. Cardinality(A \cup B) = Cardinality(A) + Cardinality(B) - Cardinality(A \cap B) BY <1>2, FS_Union
  <2> QED BY <1>0, <2>1, <2>2
<1>5. ASSUME NEW i \in A PROVE Rank(P, i) = Rank(A, i)
  <2>1. \A j \in B : ~(j <= i) BY <1>2
  <2>2. {j \in P : j <= i} = {j \in A : j <= i} BY <2>1
  <2> QED BY <2>2 DEF Rank
<1>6. ASSUME NEW i \in B PROVE Rank(P, i) = a + Rank(B, i) /\ Rank(B, i) \in 1 .. b
  <2> DEFINE C == {j \in B : j <= i}
  <2>1. C \in SUBSET B /\ IsFiniteSet(C) /\ A \cap C = {} BY <1>2, <1>3, FS_Subset
  <2>2. \A j \in A : j <= i BY <1>2
  <2>3. {j \in P : j <= i} = A \cup C BY <2>2
  <2>4. Cardinality(A \cup C) = a + Cardinality(C)
    <3> HIDE DEF C
    <3>1. Cardinality(A \cap C) = 0 BY <2>1, FS_EmptySet
    <3>2. Cardinality(C) \in Nat BY <2>1, FS_CardinalityType
    <3>3. Cardinality(A \cup C) = Cardinality(A) + Cardinality(C) - Cardinality(A \cap C) BY <1>2, <2>1, FS_Union
    <3> QED BY <1>0, <3>1, <3>2, <3>3
  <2>5. Rank(B, i) \in 1 .. b BY <1>2, RankType
  <2> QED BY <2>3, <2>4, <2>5 DEF Rank
<1> HIDE DEF P, a, b
<1> DEFINE u == Pick(s, A)
           v == Pick(s, B)
           t == Pick(s, P)
<1>7. u \in Seq(X) /\ Len(u) = a /\ \A k \in 1 .. a : Nth(A, k) \in A /\ u[k] = s[Nth(A, k)] BY PickIs DEF a
<1>8. v \in Seq(X) /\ Len(v) = b /\ \A k \in 1 .. b : Nth(B, k) \in B /\ v[k] = s[Nth(B, k)] BY PickIs DEF b
<1>9. /\ t \in Seq(X) /\ Len(t) = a + b
      /\ \A i \in P : t[Rank(P, i)] = s[i]
      BY <1>1, <1>4, PickIs
<1> HIDE DEF u, v, t
<1>10. u \o v \in Seq(X) /\ Len(u \o v) = a + b
       /\ \A k \in 1 .. a + b : (u \o v)[k] = IF k <= a THEN u[k] ELSE v[k - a]
  <2>1. u \in Seq(X) /\ v \in Seq(X) /\ Len(u) = a /\ Len(v) = b BY <1>7, <1>8
  <2> QED BY <2>1, <1>0
<1>11. ASSUME NEW k \in 1 .. a + b PROVE t[k] = (u \o v)[k]
  <2>1. CASE k <= a
    <3>1. k \in 1 .. a BY <2>1, <1>2
    <3>2. Nth(A, k) \in A /\ Rank(A, Nth(A, k)) = k /\ Nth(A, k) \in P BY <3>1, <1>2, NthIs DEF a, P
    <3>3. t[k] = s[Nth(A, k)] BY <3>2, <1>5, <1>9
    <3> QED BY <3>1, <3>3, <2>1, <1>7, <1>10
  <2>2. CASE k > a
    <3>1. k - a \in 1 .. b /\ a + (k - a) = k BY <2>2, <1>2
    <3>2. Nth(B, k - a) \in B /\ Rank(B, Nth(B, k - a)) = k - a /\ Nth(B, k - a) \in P
          BY <3>1, <1>2, NthIs DEF b, P
    <3>3. t[k] = s[Nth(B, k - a)] BY <3>1, <3>2, <1>6, <1>9
    <3> QED BY <3>1, <3>3, <2>2, <1>2, <1>8, <1>10
  <2>3. k \in Int BY <1>0
  <2>4. k <= a \/ k > a BY <1>0, <2>3
  <2> QED BY <2>1, <2>2, <2>4
<1>12. t = u \o v BY <1>9, <1>10, <1>11, <1>2
<1> QED BY <1>12 DEF t, u, v, P

\* Picking nothing, and picking a block of adjacent positions.
LEMMA PickNone ==
    ASSUME NEW s
    PROVE  Pick(s, {}) = <<>>
<1>1. Cardinality({}) = 0 BY FS_EmptySet
<1> QED BY <1>1 DEF Pick

\* Adjacent positions pick a subsequence.
LEMMA PickBlock ==
    ASSUME NEW X, NEW s \in Seq(X), NEW i \in DOMAIN s, NEW n \in Nat, i + n <= Len(s)
    PROVE  Pick(s, i .. i + n) = SubSeq(s, i, i + n)
<1> DEFINE P == i .. i + n
           t == Pick(s, P)
<1>1. DOMAIN s = 1 .. Len(s) /\ Len(s) \in Nat /\ i \in 1 .. Len(s) OBVIOUS
<1>0. i \in Int /\ i + n \in Int BY <1>1
<1>2. P \in SUBSET DOMAIN s /\ P \in SUBSET Int /\ \A j \in i + 1 .. i + n : j \in P BY <1>1
<1>3. IsFiniteSet(P) /\ Cardinality(P) = n + 1
  <2>1. IsFiniteSet(i .. i + n) /\ Cardinality(i .. i + n) = IF i > i + n THEN 0 ELSE (i + n) - i + 1
        BY <1>0, FS_Interval
  <2> QED BY <2>1, <1>0
<1>4. Rank(P, i) = 1
  <2>1. \A k \in P : k <= i <=> k = i BY <1>1
  <2>2. {k \in P : k <= i} = {i} BY <1>1, <2>1
  <2> QED BY <2>2, FS_Singleton DEF Rank
<1> HIDE DEF P
<1>5. \A j \in i .. i + n : Rank(P, j) = 1 + (j - i)
  <2>1. \A j \in i .. i + n : Rank(P, j) = Rank(P, i) + (j - i) BY <1>0, <1>2, <1>3, RankRun
  <2> QED BY <2>1, <1>4
<1>6. t \in Seq(X) /\ Len(t) = n + 1 /\ \A j \in P : t[Rank(P, j)] = s[j] BY <1>2, <1>3, PickIs
<1> HIDE DEF t
<1>7. \A k \in 1 .. n + 1 : t[k] = s[i + k - 1]
  <2> SUFFICES ASSUME NEW k \in 1 .. n + 1 PROVE t[k] = s[i + k - 1] OBVIOUS
  <2>1. i + k - 1 \in i .. i + n /\ 1 + ((i + k - 1) - i) = k BY <1>1
  <2>2. i + k - 1 \in P BY <2>1 DEF P
  <2> QED BY <2>1, <2>2, <1>5, <1>6
<1>8. SubSeq(s, i, i + n) \in Seq(X) /\ Len(SubSeq(s, i, i + n)) = n + 1
      /\ \A k \in 1 .. n + 1 : SubSeq(s, i, i + n)[k] = s[i + k - 1]
      BY <1>1
<1>9. t = SubSeq(s, i, i + n)
  <2> DEFINE u == SubSeq(s, i, i + n)
  <2>1. u \in Seq(X) /\ Len(u) = n + 1 /\ \A k \in 1 .. n + 1 : u[k] = s[i + k - 1] BY <1>8
  <2> HIDE DEF u
  <2>2. t = u BY <1>6, <1>7, <2>1
  <2> QED BY <2>2 DEF u
<1> QED BY <1>9 DEF t, P

\* All positions pick the whole sequence.
LEMMA PickAll ==
    ASSUME NEW X, NEW s \in Seq(X)
    PROVE  Pick(s, DOMAIN s) = s
<1> DEFINE n == Len(s)
<1>1. n \in Nat /\ DOMAIN s = 1 .. n OBVIOUS
<1>2. CASE n = 0
  <2>1. s = <<>> /\ DOMAIN s = {} BY <1>2
  <2> QED BY <2>1, PickNone
<1>3. CASE n # 0
  <2> DEFINE k == n - 1
  <2>1. k \in Nat /\ 1 \in DOMAIN s /\ 1 + k = n /\ 1 + k <= Len(s) BY <1>1, <1>3
  <2>2. Pick(s, 1 .. 1 + k) = SubSeq(s, 1, 1 + k)
    <3> HIDE DEF k, n
    <3> QED BY <2>1, PickBlock
  <2>3. SubSeq(s, 1, n) = s BY <1>1
  <2> QED BY <1>1, <2>1, <2>2, <2>3
<1> QED BY <1>2, <1>3

-----------------------------------------------------------------------------
(* Chain *)

\* f holds what the scan returns from each position on.
Scans(f, n, piece, next) ==
    f = [i \in 1 .. n + 1 |-> IF i > n THEN <<>> ELSE piece[i] \o f[next[i]]]

\* Backward induction over the positions 1 .. n + 1.
LEMMA Backwards ==
    ASSUME NEW n \in Nat, NEW G, n + 1 \in G,
           \A i \in 1 .. n : (\A j \in i + 1 .. n + 1 : j \in G) => i \in G
    PROVE  \A i \in 1 .. n + 1 : i \in G
<1> DEFINE S == {k \in Nat : k <= n => \A i \in n + 1 - k .. n + 1 : i \in G}
<1>1. 0 \in S OBVIOUS
<1>2. ASSUME NEW k \in Nat, k \in S PROVE k + 1 \in S
  <2> SUFFICES ASSUME k + 1 <= n, NEW i \in n + 1 - (k + 1) .. n + 1 PROVE i \in G OBVIOUS
  <2>1. k <= n /\ \A j \in n + 1 - k .. n + 1 : j \in G BY <1>2
  <2>2. CASE i = n - k
    <3>1. i \in 1 .. n /\ \A j \in i + 1 .. n + 1 : j \in n + 1 - k .. n + 1 BY <2>1, <2>2
    <3> QED BY <3>1, <2>1
  <2>3. CASE i # n - k
    <3>1. i \in n + 1 - k .. n + 1 BY <2>1, <2>3
    <3> QED BY <3>1, <2>1
  <2> QED BY <2>2, <2>3
<1>3. n \in S
  <2> HIDE DEF S
  <2> QED BY <1>1, <1>2, NatSet
<1> QED BY <1>3

\* A scan that moves forward is well defined: position by position, from the last.
LEMMA ScanExists ==
    ASSUME NEW n \in Nat, NEW piece, NEW next \in [1 .. n -> 1 .. n + 1], \A i \in 1 .. n : next[i] > i
    PROVE  \E f : Scans(f, n, piece, next)
<1> DEFINE Put(i, rest) == piece[i] \o rest
           Solves(g, m) == g = [i \in m .. n + 1 |-> IF i > n THEN <<>> ELSE Put(i, g[next[i]])]
           G == {m \in 1 .. n + 1 : \E g : Solves(g, m)}
<1> HIDE DEF Put
<1>1. n + 1 \in G
  <2> DEFINE g == [i \in n + 1 .. n + 1 |-> <<>>]
  <2>1. g = [i \in n + 1 .. n + 1 |-> IF i > n THEN <<>> ELSE Put(i, g[next[i]])]
    <3>1. \A i \in n + 1 .. n + 1 : i > n OBVIOUS
    <3> QED BY <3>1
  <2>2. Solves(g, n + 1) BY <2>1
  <2> HIDE DEF Solves, g
  <2> QED BY <2>2
<1>2. ASSUME NEW m \in 1 .. n, m + 1 \in G PROVE m \in G
  <2>1. PICK g : Solves(g, m + 1) BY <1>2
  <2> DEFINE h == [i \in m .. n + 1 |-> IF i = m THEN Put(m, g[next[m]]) ELSE g[i]]
  <2>3. \A i \in m .. n : next[i] \in m + 1 .. n + 1 /\ next[i] # m
    <3> SUFFICES ASSUME NEW i \in m .. n PROVE next[i] \in m + 1 .. n + 1 /\ next[i] # m OBVIOUS
    <3>1. i \in 1 .. n /\ next[i] \in 1 .. n + 1 /\ next[i] > i OBVIOUS
    <3> QED BY <3>1
  <2>4. ASSUME NEW i \in m .. n + 1 PROVE h[i] = IF i > n THEN <<>> ELSE Put(i, h[next[i]])
    <3>1. CASE i = m
      <4>1. h[i] = Put(m, g[next[m]]) BY <3>1
      <4>2. i \in m .. n /\ next[i] \in m .. n + 1 BY <3>1, <2>3
      <4>3. h[next[i]] = g[next[i]] BY <4>2, <2>3
      <4> QED BY <4>1, <4>2, <4>3, <3>1
    <3>2. CASE i # m /\ i <= n
      <4>1. i \in m + 1 .. n + 1 /\ h[i] = g[i] BY <3>2
      <4>2. g[i] = Put(i, g[next[i]]) BY <4>1, <2>1, <3>2
      <4>3. i \in m .. n /\ next[i] \in m .. n + 1 BY <3>2, <2>3
      <4>4. h[next[i]] = g[next[i]] BY <4>3, <2>3
      <4> QED BY <4>1, <4>2, <4>4, <3>2
    <3>3. CASE i > n
      <4>1. i = n + 1 /\ i # m /\ h[i] = g[i] /\ i \in m + 1 .. n + 1 BY <3>3
      <4> QED BY <4>1, <2>1, <3>3
    <3> QED BY <3>1, <3>2, <3>3
  <2>5. Solves(h, m)
    <3>1. h = [i \in m .. n + 1 |-> h[i]] OBVIOUS
    <3> HIDE DEF h
    <3>2. [i \in m .. n + 1 |-> h[i]] = [i \in m .. n + 1 |-> IF i > n THEN <<>> ELSE Put(i, h[next[i]])]
          BY <2>4
    <3> QED BY <3>1, <3>2
  <2>6. m \in 1 .. n + 1 OBVIOUS
  <2> HIDE DEF Solves, h
  <2> QED BY <2>5, <2>6
<1>3. 1 \in G
  <2> HIDE DEF G
  <2>1. \A i \in 1 .. n : (\A j \in i + 1 .. n + 1 : j \in G) => i \in G BY <1>2
  <2>2. \A i \in 1 .. n + 1 : i \in G BY <1>1, <2>1, Backwards
  <2> QED BY <2>2
<1> QED BY <1>3 DEF Scans, Put

\* So Chain is the first entry of such a function.
LEMMA ChainIs ==
    ASSUME NEW n \in Nat, NEW piece, NEW next \in [1 .. n -> 1 .. n + 1], \A i \in 1 .. n : next[i] > i
    PROVE  \E f : Scans(f, n, piece, next) /\ Chain(n, piece, next) = f[1]
<1>1. \E f : Scans(f, n, piece, next) BY ScanExists
<1> DEFINE c == CHOOSE f : f = [i \in 1 .. n + 1 |-> IF i > n THEN <<>> ELSE piece[i] \o f[next[i]]]
<1>2. Scans(c, n, piece, next) BY <1>1 DEF Scans
<1>3. Chain(n, piece, next) = c[1] BY DEF Chain
<1> HIDE DEF c
<1> QED BY <1>2, <1>3

\* What a scan returns is built from pieces, each put in front of what the scan
\* returns from a later position.
LEMMA ScanInduction ==
    ASSUME NEW n \in Nat, NEW piece, NEW next \in [1 .. n -> 1 .. n + 1], \A i \in 1 .. n : next[i] > i,
           NEW T, <<>> \in T, \A i \in 1 .. n : \A t \in T : piece[i] \o t \in T
    PROVE  Chain(n, piece, next) \in T
<1>1. PICK f : Scans(f, n, piece, next) /\ Chain(n, piece, next) = f[1] BY ChainIs
<1> DEFINE G == {i \in 1 .. n + 1 : f[i] \in T}
<1>2. n + 1 \in G BY <1>1 DEF Scans
<1>3. ASSUME NEW i \in 1 .. n, \A j \in i + 1 .. n + 1 : j \in G PROVE i \in G
  <2>1. next[i] \in i + 1 .. n + 1
    <3>1. next[i] \in 1 .. n + 1 /\ next[i] > i OBVIOUS
    <3> QED BY <3>1
  <2>2. f[next[i]] \in T BY <2>1, <1>3
  <2>3. i \in 1 .. n + 1 /\ ~(i > n) OBVIOUS
  <2>4. f[i] = piece[i] \o f[next[i]] BY <2>3, <1>1 DEF Scans
  <2> QED BY <2>2, <2>3, <2>4
<1> HIDE DEF G
<1>4. \A i \in 1 .. n + 1 : i \in G BY <1>2, <1>3, Backwards
<1>5. 1 \in G BY <1>4
<1> QED BY <1>5, <1>1 DEF G

=============================================================================
