------------------------------- MODULE Lemmas -------------------------------
(***************************************************************************)
(* Facts about numbers, finite sets, lists of findings and finite graphs   *)
(* that the proofs share.                                                  *)
(*                                                                         *)
(* The induction theorems of the library take the property as an operator, *)
(* which the provers cannot instantiate.  Where induction is needed it is  *)
(* by a minimal counterexample instead: WFMin over the numbers, or over    *)
(* the subsets of a finite set.                                            *)
(***************************************************************************)
EXTENDS Findings, SequencesExt, FiniteSetTheorems, TLAPS

\* A set of naturals has a minimum.
LEMMA MinOfNaturals ==
  ASSUME NEW S \in SUBSET Nat, S # {}
  PROVE  Min(S) \in S /\ \A x \in S : Min(S) <= x
<1> DEFINE less == {ss \in Nat \X Nat : ss[1] < ss[2]}
<1>1. IsWellFoundedOn(less, Nat)
  BY NatLessThanWellFounded, Zenon DEF OpToRel
<1>2. PICK x \in S : \A y \in S : <<y, x>> \notin less
  <2> HIDE DEF less
  <2> QED
    BY <1>1, WFMin
<1>3. \A y \in S : x <= y
  <2> SUFFICES ASSUME NEW y \in S, ~(x <= y) PROVE FALSE
    OBVIOUS
  <2>1. y \in Nat /\ x \in Nat /\ y < x
    OBVIOUS
  <2> QED
    BY <1>2, <2>1
<1> QED
  BY <1>3 DEF Min

\* The maximum of two naturals.
LEMMA MaxOfTwo ==
  ASSUME NEW a \in Nat, NEW b \in Nat
  PROVE  Max({a, b}) = IF a >= b THEN a ELSE b
BY DEF Max

\* The remainder of a number within reach of the divisor.
LEMMA Remainder ==
  ASSUME NEW n \in Nat \ {0}, NEW x \in Int, -n <= x, x < n
  PROVE  /\ 0 <= x => x % n = x
         /\ x < 0 => x % n = x + n
OBVIOUS

-----------------------------------------------------------------------------
(***************************************************************************)
(* Ranks.  In a finite set with a strict total order each element goes     *)
(* after a number of others, each number below the size of the set for     *)
(* exactly one element.                                                    *)
(***************************************************************************)
Under(S, R, i) == {j \in S : <<j, i>> \in R}

LEMMA Ranks ==
  ASSUME NEW S, IsFiniteSet(S), NEW R,
         \A i \in S : <<i, i>> \notin R,
         \A i, j, k \in S : <<i, j>> \in R /\ <<j, k>> \in R => <<i, k>> \in R,
         \A i, j \in S : i # j => <<i, j>> \in R \/ <<j, i>> \in R
  PROVE  /\ \A i \in S : Cardinality(Under(S, R, i)) \in 0 .. Cardinality(S) - 1
         /\ \A i, j \in S : <<i, j>> \in R => Cardinality(Under(S, R, i)) < Cardinality(Under(S, R, j))
         /\ \A k \in 0 .. Cardinality(S) - 1 : \E i \in S : Cardinality(Under(S, R, i)) = k
<1> DEFINE rank(i) == Cardinality(Under(S, R, i))
           n == Cardinality(S)
<1>1. n \in Nat
  BY FS_CardinalityType
<1>2. ASSUME NEW T \in SUBSET S, NEW U \in SUBSET T, U # T
      PROVE  Cardinality(U) \in Nat /\ Cardinality(T) \in Nat /\ Cardinality(U) < Cardinality(T)
  <2>1. IsFiniteSet(T) /\ IsFiniteSet(U)
    BY FS_Subset
  <2>2. Cardinality(T) \in Nat /\ Cardinality(U) \in Nat
    BY <2>1, FS_CardinalityType
  <2>3. Cardinality(U) <= Cardinality(T) /\ Cardinality(U) # Cardinality(T)
    BY <1>2, <2>1, FS_Subset
  <2> QED
    BY <2>2, <2>3
<1>3. ASSUME NEW i \in S PROVE rank(i) \in 0 .. n - 1
  <2>1. Under(S, R, i) \in SUBSET S /\ i \notin Under(S, R, i)
    BY DEF Under
  <2> QED
    BY <1>1, <1>2, <2>1
<1>4. ASSUME NEW i \in S, NEW j \in S, <<i, j>> \in R PROVE rank(i) < rank(j)
  <2>1. Under(S, R, i) \in SUBSET Under(S, R, j) /\ Under(S, R, j) \in SUBSET S
    BY <1>4 DEF Under
  <2>2. i \in Under(S, R, j) /\ i \notin Under(S, R, i)
    BY <1>4 DEF Under
  <2> QED
    BY <1>2, <2>1, <2>2
<1>5. \A k \in 0 .. n - 1 : \E i \in S : rank(i) = k
  <2> DEFINE f == [i \in S |-> rank(i)]
  <2>1. f \in [S -> 0 .. n - 1]
    BY <1>3
  <2>2. \A i, j \in S : f[i] = f[j] => i = j
    <3> SUFFICES ASSUME NEW i \in S, NEW j \in S, i # j PROVE rank(i) # rank(j)
      OBVIOUS
    <3>1. rank(i) \in Int /\ rank(j) \in Int
      BY <1>3
    <3>2. rank(i) < rank(j) \/ rank(j) < rank(i)
      BY <1>4
    <3> QED
      BY <3>1, <3>2
  <2> HIDE DEF f
  <2>3. f \in Injection(S, 0 .. n - 1)
    BY <2>1, <2>2 DEF Injection, IsInjective
  <2>4. IsFiniteSet(0 .. n - 1) /\ Cardinality(0 .. n - 1) = n
    <3>1. 0 \in Int /\ n - 1 \in Int
      BY <1>1
    <3> HIDE DEF n
    <3> QED
      BY <1>1, <3>1, FS_Interval
  <2>5. f \in Surjection(S, 0 .. n - 1)
    BY <2>3, <2>4, FS_Injection
  <2> QED
    BY <2>5 DEF Surjection, f
<1> QED
  BY <1>3, <1>4, <1>5

\* The maximum of a finite set of naturals.
LEMMA MaxOfNaturals ==
  ASSUME NEW S \in SUBSET Nat, S # {}, IsFiniteSet(S)
  PROVE  Max(S) \in S /\ \A x \in S : x <= Max(S)
<1> DEFINE R == {p \in S \X S : p[1] < p[2]}
           n == Cardinality(S)
<1>1. n \in Nat /\ n # 0
  BY FS_CardinalityType, FS_EmptySet
<1>2. \A i, j \in S : <<i, j>> \in R <=> i < j
  OBVIOUS
<1>3. \A i, j \in S : i \in Nat /\ j \in Nat
  OBVIOUS
<1> HIDE DEF R, n
<1>4. /\ \A i \in S : <<i, i>> \notin R
      /\ \A i, j, k \in S : <<i, j>> \in R /\ <<j, k>> \in R => <<i, k>> \in R
      /\ \A i, j \in S : i # j => <<i, j>> \in R \/ <<j, i>> \in R
  BY <1>2, <1>3
<1>5. /\ \A i \in S : Cardinality(Under(S, R, i)) \in 0 .. n - 1
      /\ \A i, j \in S : <<i, j>> \in R => Cardinality(Under(S, R, i)) < Cardinality(Under(S, R, j))
      /\ \A k \in 0 .. n - 1 : \E i \in S : Cardinality(Under(S, R, i)) = k
  BY <1>4, Ranks DEF n
<1>6. PICK i \in S : Cardinality(Under(S, R, i)) = n - 1
  BY <1>1, <1>5
<1>7. ASSUME NEW x \in S PROVE x <= i
  <2> SUFFICES ASSUME i < x PROVE FALSE
    BY <1>3
  <2>1. <<i, x>> \in R
    BY <1>2
  <2>2. Cardinality(Under(S, R, x)) \in 0 .. n - 1
    BY <1>5
  <2>3. n - 1 < Cardinality(Under(S, R, x))
    BY <1>5, <1>6, <2>1
  <2> QED
    BY <1>1, <2>2, <2>3
<1>8. \A x \in S : i >= x
  BY <1>3, <1>7
<1>9. Max(S) \in S /\ \A x \in S : Max(S) >= x
  BY <1>8 DEF Max
<1> QED
  BY <1>3, <1>9

-----------------------------------------------------------------------------
(***************************************************************************)
(* Lists: what Pick and SortFindings of module Findings return.            *)
(***************************************************************************)
Nth(P, k) == CHOOSE i \in P : Cardinality({j \in P : j <= i}) = k

\* The positions in a finite set, counted from the lowest.
LEMMA NthPosition ==
  ASSUME NEW P \in SUBSET Nat, IsFiniteSet(P)
  PROVE  /\ \A k \in 1 .. Cardinality(P) : Nth(P, k) \in P
         /\ \A k, l \in 1 .. Cardinality(P) : k < l => Nth(P, k) < Nth(P, l)
         /\ \A i \in P : \E k \in 1 .. Cardinality(P) : Nth(P, k) = i
<1> DEFINE R == {p \in P \X P : p[1] < p[2]}
           n == Cardinality(P)
           upTo(i) == Cardinality({j \in P : j <= i})
<1>1. n \in Nat
  BY FS_CardinalityType
<1>2. \A i, j \in P : <<i, j>> \in R <=> i < j
  OBVIOUS
<1>3. \A i, j \in P : i \in Nat /\ j \in Nat
  OBVIOUS
<1>4. ASSUME NEW i \in P PROVE upTo(i) = Cardinality(Under(P, R, i)) + 1
  <2>1. i \notin Under(P, R, i) /\ Under(P, R, i) \in SUBSET P
    BY DEF Under
  <2>2. {j \in P : j <= i} = Under(P, R, i) \cup {i}
    <3>1. \A j \in P : j <= i <=> <<j, i>> \in R \/ j = i
      BY <1>2, <1>3
    <3> HIDE DEF R
    <3> QED
      BY <3>1 DEF Under
  <2> QED
    BY <2>1, <2>2, FS_Subset, FS_AddElement
<1> HIDE DEF R, n
<1>5. /\ \A i \in P : <<i, i>> \notin R
      /\ \A i, j, k \in P : <<i, j>> \in R /\ <<j, k>> \in R => <<i, k>> \in R
      /\ \A i, j \in P : i # j => <<i, j>> \in R \/ <<j, i>> \in R
  BY <1>2, <1>3
<1>6. /\ \A i \in P : Cardinality(Under(P, R, i)) \in 0 .. n - 1
      /\ \A i, j \in P : <<i, j>> \in R => Cardinality(Under(P, R, i)) < Cardinality(Under(P, R, j))
      /\ \A k \in 0 .. n - 1 : \E i \in P : Cardinality(Under(P, R, i)) = k
  BY <1>5, Ranks DEF n
<1>7. \A i \in P : upTo(i) \in 1 .. n
  BY <1>1, <1>4, <1>6
<1>8. \A i, j \in P : i < j => upTo(i) < upTo(j)
  <2> SUFFICES ASSUME NEW i \in P, NEW j \in P, i < j PROVE upTo(i) < upTo(j)
    OBVIOUS
  <2> DEFINE r(x) == Cardinality(Under(P, R, x))
  <2>1. r(i) \in 0 .. n - 1 /\ r(j) \in 0 .. n - 1 /\ r(i) < r(j)
    BY <1>2, <1>6
  <2>2. upTo(i) = r(i) + 1 /\ upTo(j) = r(j) + 1
    BY <1>4
  <2> HIDE DEF upTo, r
  <2> QED
    BY <1>1, <2>1, <2>2
<1>9. \A k \in 1 .. n : \E i \in P : upTo(i) = k
  <2> SUFFICES ASSUME NEW k \in 1 .. n PROVE \E i \in P : upTo(i) = k
    OBVIOUS
  <2>1. k - 1 \in 0 .. n - 1
    BY <1>1
  <2>2. PICK i \in P : Cardinality(Under(P, R, i)) = k - 1
    BY <1>6, <2>1
  <2> QED
    BY <1>1, <1>4, <2>2
<1> HIDE DEF upTo
<1>10. \A k \in 1 .. n : Nth(P, k) \in P /\ upTo(Nth(P, k)) = k
  BY <1>9 DEF Nth, upTo
<1>11. \A i, j \in P : upTo(i) = upTo(j) => i = j
  BY <1>1, <1>3, <1>7, <1>8
<1>12. ASSUME NEW k \in 1 .. n, NEW l \in 1 .. n, k < l PROVE Nth(P, k) < Nth(P, l)
  <2> DEFINE a == Nth(P, k)
             b == Nth(P, l)
  <2>1. a \in P /\ b \in P /\ upTo(a) = k /\ upTo(b) = l
    BY <1>10
  <2>2. a \in Nat /\ b \in Nat
    BY <1>3, <2>1
  <2> HIDE DEF a, b
  <2>3. ~(b < a) /\ a # b
    BY <1>1, <1>8, <1>12, <2>1
  <2> QED
    BY <2>2, <2>3 DEF a, b
<1> QED
  BY <1>7, <1>10, <1>11, <1>12 DEF n

\* Pick keeps the elements at the positions given, in their order, and no others.
LEMMA Picked ==
  ASSUME NEW fs, NEW P \in SUBSET Nat, IsFiniteSet(P)
  PROVE  /\ Pick(fs, P) = [k \in 1 .. Cardinality(P) |-> fs[Nth(P, k)]]
         /\ Cardinality(P) \in Nat
         /\ ToSet(Pick(fs, P)) = {fs[i] : i \in P}
<1>1. Pick(fs, P) = [k \in 1 .. Cardinality(P) |-> fs[Nth(P, k)]]
  BY DEF Pick, Nth
<1>2. ToSet(Pick(fs, P)) = {fs[Nth(P, k)] : k \in 1 .. Cardinality(P)}
  BY <1>1 DEF ToSet
<1>3. {fs[Nth(P, k)] : k \in 1 .. Cardinality(P)} = {fs[i] : i \in P}
  <2>1. \A k \in 1 .. Cardinality(P) : Nth(P, k) \in P
    BY NthPosition
  <2>2. \A i \in P : \E k \in 1 .. Cardinality(P) : Nth(P, k) = i
    BY NthPosition
  <2> QED
    BY <2>1, <2>2
<1>4. Cardinality(P) \in Nat
  BY FS_CardinalityType
<1> QED
  BY <1>1, <1>2, <1>3, <1>4

LEMMA Severities ==
  /\ \A s \in Status : severity(s) \in 0 .. 3
  /\ \A s, t \in Status : severity(s) = severity(t) => s = t
<1>1. severity("OK") = 0 /\ severity("WARN") = 1 /\ severity("BAD") = 2 /\ severity("ERROR") = 3
  BY DEF severity
<1> QED
  BY <1>1 DEF Status

\* What a list of findings is.
AreFindings(fs) ==
  \A i \in DOMAIN fs : fs[i].status \in Status /\ fs[i].check \in Nat /\ fs[i].target \in Nat

Ahead(fs, i, j) == Before(fs[i], fs[j]) \/ (~Before(fs[j], fs[i]) /\ i < j)

\* Ties broken by place, the less function orders the places of a list.
LEMMA AheadIsOrder ==
  ASSUME NEW D \in SUBSET Nat, NEW fs, D = DOMAIN fs, AreFindings(fs)
  PROVE  /\ \A i \in D : ~Ahead(fs, i, i)
         /\ \A i, j, k \in D : Ahead(fs, i, j) /\ Ahead(fs, j, k) => Ahead(fs, i, k)
         /\ \A i, j \in D : i # j => Ahead(fs, i, j) \/ Ahead(fs, j, i)
<1> DEFINE sev(i) == severity(fs[i].status)
           before(i, j) == \/ sev(i) > sev(j)
                           \/ sev(i) = sev(j) /\ fs[i].check < fs[j].check
                           \/ sev(i) = sev(j) /\ fs[i].check = fs[j].check /\ fs[i].target < fs[j].target
<1>1. \A i \in D : i \in Nat /\ sev(i) \in Nat /\ fs[i].check \in Nat /\ fs[i].target \in Nat
  BY Severities DEF AreFindings
<1>2. \A i, j \in D : Before(fs[i], fs[j]) <=> before(i, j)
  <2> SUFFICES ASSUME NEW i \in D, NEW j \in D PROVE Before(fs[i], fs[j]) <=> before(i, j)
    OBVIOUS
  <2>1. fs[i].status = fs[j].status <=> sev(i) = sev(j)
    BY Severities DEF AreFindings
  <2> QED
    BY <2>1 DEF Before
<1>3. \A i, j \in D : Ahead(fs, i, j) <=> before(i, j) \/ (~before(j, i) /\ i < j)
  BY <1>2 DEF Ahead
<1> HIDE DEF sev
<1> QED
  BY <1>1, <1>3

\* Which of n places an order puts k-th.
Placed(n, R, k) == CHOOSE j \in 1 .. n : 1 + Cardinality(Under(1 .. n, R, j)) = k

LEMMA PlacesAreTaken ==
  ASSUME NEW n \in Nat, NEW R,
         \A i \in 1 .. n : <<i, i>> \notin R,
         \A i, j, k \in 1 .. n : <<i, j>> \in R /\ <<j, k>> \in R => <<i, k>> \in R,
         \A i, j \in 1 .. n : i # j => <<i, j>> \in R \/ <<j, i>> \in R
  PROVE  /\ \A k \in 1 .. n : Placed(n, R, k) \in 1 .. n
         /\ \A j \in 1 .. n : \E k \in 1 .. n : Placed(n, R, k) = j
         /\ \A k, l \in 1 .. n : k < l => <<Placed(n, R, k), Placed(n, R, l)>> \in R
<1> DEFINE D == 1 .. n
           place(j) == 1 + Cardinality(Under(D, R, j))
           at(k) == Placed(n, R, k)
<1>1. IsFiniteSet(D) /\ Cardinality(D) = n
  <2>1. 1 \in Int /\ n \in Int
    OBVIOUS
  <2> QED
    BY <2>1, FS_Interval
<1>2. \A k : at(k) = CHOOSE j \in D : place(j) = k
  BY DEF Placed
<1> HIDE DEF D, at
<1>3. /\ \A i \in D : <<i, i>> \notin R
      /\ \A i, j, k \in D : <<i, j>> \in R /\ <<j, k>> \in R => <<i, k>> \in R
      /\ \A i, j \in D : i # j => <<i, j>> \in R \/ <<j, i>> \in R
  BY DEF D
<1>4. /\ \A j \in D : Cardinality(Under(D, R, j)) \in 0 .. n - 1
      /\ \A i, j \in D : <<i, j>> \in R => Cardinality(Under(D, R, i)) < Cardinality(Under(D, R, j))
      /\ \A k \in 0 .. n - 1 : \E j \in D : Cardinality(Under(D, R, j)) = k
  BY <1>1, <1>3, Ranks
<1>5. \A j \in D : place(j) \in 1 .. n
  BY <1>4
<1>6. \A i, j \in D : <<i, j>> \in R => place(i) < place(j)
  <2> SUFFICES ASSUME NEW i \in D, NEW j \in D, <<i, j>> \in R PROVE place(i) < place(j)
    OBVIOUS
  <2> DEFINE a == Cardinality(Under(D, R, i))
             b == Cardinality(Under(D, R, j))
  <2>1. a \in Nat /\ b \in Nat /\ a < b
    BY <1>4
  <2>2. place(i) = 1 + a /\ place(j) = 1 + b
    OBVIOUS
  <2> HIDE DEF a, b, place
  <2> QED
    BY <2>1, <2>2
<1>7. \A k \in D : \E j \in D : place(j) = k
  <2> SUFFICES ASSUME NEW k \in D PROVE \E j \in D : place(j) = k
    OBVIOUS
  <2>1. k - 1 \in 0 .. n - 1 /\ k \in Nat
    BY DEF D
  <2>2. PICK j \in D : Cardinality(Under(D, R, j)) = k - 1
    BY <1>4, <2>1
  <2>3. place(j) = 1 + (k - 1)
    BY <2>2
  <2> QED
    BY <2>1, <2>3
<1> HIDE DEF place
<1>8. \A k \in D : at(k) \in D /\ place(at(k)) = k
  BY <1>2, <1>7
<1>9. \A j \in D : place(j) \in D /\ place(j) \in Int
  BY <1>5 DEF D
<1>10. \A i, j \in D : place(i) = place(j) => i = j
  <2> SUFFICES ASSUME NEW i \in D, NEW j \in D, i # j PROVE place(i) # place(j)
    OBVIOUS
  <2>1. place(i) < place(j) \/ place(j) < place(i)
    BY <1>3, <1>6
  <2>2. place(i) \in Int /\ place(j) \in Int
    BY <1>9
  <2> QED
    BY <2>1, <2>2
<1>11. \A j \in D : at(place(j)) = j
  BY <1>8, <1>9, <1>10
<1>12. ASSUME NEW k \in D, NEW l \in D, k < l PROVE <<at(k), at(l)>> \in R
  <2>1. at(k) \in D /\ at(l) \in D /\ place(at(k)) = k /\ place(at(l)) = l
    BY <1>8
  <2>2. k \in Int /\ l \in Int
    BY DEF D
  <2>3. at(k) # at(l)
    BY <1>12, <2>1, <2>2
  <2>4. <<at(l), at(k)>> \notin R
    <3> SUFFICES ASSUME <<at(l), at(k)>> \in R PROVE FALSE
      OBVIOUS
    <3>1. place(at(l)) < place(at(k))
      BY <1>6, <2>1
    <3> QED
      BY <1>12, <2>1, <2>2, <3>1
  <2> QED
    BY <1>3, <2>1, <2>3, <2>4
<1> QED
  BY <1>8, <1>9, <1>11, <1>12 DEF D, at

\* A sort returns the findings it is given.
LEMMA Sorted ==
  ASSUME NEW n \in Nat, NEW fs, DOMAIN fs = 1 .. n, AreFindings(fs)
  PROVE  DOMAIN SortFindings(fs) = 1 .. n /\ ToSet(SortFindings(fs)) = ToSet(fs)
<1> DEFINE D == 1 .. n
           R == {p \in D \X D : Ahead(fs, p[1], p[2])}
<1>1. D \in SUBSET Nat
  OBVIOUS
<1>2. \A i, j \in D : <<i, j>> \in R <=> Ahead(fs, i, j)
  OBVIOUS
<1>3. \A j \in D : {i \in D : Ahead(fs, i, j)} = Under(D, R, j)
  BY DEF Under
<1> HIDE DEF R
<1>4. SortFindings(fs) = [k \in D |-> fs[Placed(n, R, k)]]
  <2> DEFINE at(k) == CHOOSE j \in D : 1 + Cardinality({i \in D : Ahead(fs, i, j)}) = k
  <2>1. SortFindings(fs) = [k \in D |-> fs[at(k)]]
    BY DEF SortFindings, Ahead
  <2>2. \A k : at(k) = Placed(n, R, k)
    BY <1>3 DEF Placed
  <2> HIDE DEF at
  <2> QED
    BY <2>1, <2>2
<1>5. /\ \A i \in D : ~Ahead(fs, i, i)
      /\ \A i, j, k \in D : Ahead(fs, i, j) /\ Ahead(fs, j, k) => Ahead(fs, i, k)
      /\ \A i, j \in D : i # j => Ahead(fs, i, j) \/ Ahead(fs, j, i)
  <2> HIDE DEF D
  <2>1. D = DOMAIN fs
    BY DEF D
  <2> QED
    BY <1>1, <2>1, AheadIsOrder
<1>6. /\ \A k \in D : Placed(n, R, k) \in D
      /\ \A j \in D : \E k \in D : Placed(n, R, k) = j
  BY <1>2, <1>5, PlacesAreTaken
<1>7. ToSet(SortFindings(fs)) = {fs[Placed(n, R, k)] : k \in D}
  BY <1>4 DEF ToSet
<1>8. {fs[Placed(n, R, k)] : k \in D} = {fs[j] : j \in D}
  BY <1>6
<1>9. ToSet(fs) = {fs[j] : j \in D}
  BY DEF ToSet
<1> QED
  BY <1>4, <1>7, <1>8, <1>9

-----------------------------------------------------------------------------
(***************************************************************************)
(* A list is a function on the numbers up to its length.                   *)
(***************************************************************************)
IsList(fs) == Len(fs) \in Nat /\ DOMAIN fs = 1 .. Len(fs)

LEMMA FunctionIsList ==
  ASSUME NEW fs, NEW n \in Nat, fs = [k \in 1 .. n |-> fs[k]]
  PROVE  IsList(fs) /\ Len(fs) = n
<1>1. fs \in [1 .. n -> {fs[k] : k \in 1 .. n}]
  OBVIOUS
<1>2. fs \in Seq({fs[k] : k \in 1 .. n})
  BY <1>1
<1>3. DOMAIN fs = 1 .. n
  BY <1>1
<1>4. Len(fs) \in Nat /\ DOMAIN fs = 1 .. Len(fs)
  BY <1>2
<1> QED
  BY <1>3, <1>4 DEF IsList

LEMMA ListIsFinite ==
  ASSUME NEW fs, IsList(fs), NEW P \in SUBSET DOMAIN fs
  PROVE  P \in SUBSET Nat /\ IsFiniteSet(P)
<1>1. 1 \in Int /\ Len(fs) \in Int
  BY DEF IsList
<1>2. IsFiniteSet(DOMAIN fs)
  BY <1>1, FS_Interval DEF IsList
<1> QED
  BY <1>2, FS_Subset DEF IsList

LEMMA PickedList ==
  ASSUME NEW fs, IsList(fs), NEW P \in SUBSET DOMAIN fs
  PROVE  IsList(Pick(fs, P)) /\ ToSet(Pick(fs, P)) = {fs[i] : i \in P}
<1>1. P \in SUBSET Nat /\ IsFiniteSet(P)
  BY ListIsFinite
<1>2. /\ Pick(fs, P) = [k \in 1 .. Cardinality(P) |-> fs[Nth(P, k)]]
      /\ Cardinality(P) \in Nat
      /\ ToSet(Pick(fs, P)) = {fs[i] : i \in P}
  BY <1>1, Picked
<1>3. Pick(fs, P) = [k \in 1 .. Cardinality(P) |-> Pick(fs, P)[k]]
  BY <1>2
<1> HIDE DEF IsList
<1> QED
  BY <1>2, <1>3, FunctionIsList

\* A finite set as a list.
LEMMA SetAsList ==
  ASSUME NEW S, IsFiniteSet(S)
  PROVE  IsList(SetToSeq(S)) /\ ToSet(SetToSeq(S)) = S
<1> DEFINE n == Cardinality(S)
           f == SetToSeq(S)
<1>1. n \in Nat /\ ExistsBijection(1 .. n, S)
  BY FS_CardinalityType
<1>2. PICK b \in [1 .. n -> S] : IsInjective(b)
  BY <1>1 DEF ExistsBijection, Bijection, Injection
<1>3. f \in [1 .. n -> S] /\ IsInjective(f)
  BY <1>2 DEF SetToSeq
<1>4. 1 \in Int /\ n \in Int
  BY <1>1
<1>5. IsFiniteSet(1 .. n) /\ Cardinality(1 .. n) = n
  <2> HIDE DEF n
  <2> QED
    BY <1>1, <1>4, FS_Interval
<1> HIDE DEF f
<1>6. f \in Surjection(1 .. n, S)
  BY <1>3, <1>5, FS_Injection DEF Injection
<1>7. ToSet(f) = S
  BY <1>6 DEF Surjection, ToSet
<1>8. f = [k \in 1 .. n |-> f[k]]
  BY <1>3
<1>9. IsList(f)
  BY <1>1, <1>8, FunctionIsList
<1> QED
  BY <1>7, <1>9 DEF f

-----------------------------------------------------------------------------
(***************************************************************************)
(* A finite graph in which every node has a successor has a cycle: some    *)
(* node is in every set that holds its successors and those of its own     *)
(* members.  By a set without dead ends that is as small as one can be.    *)
(***************************************************************************)
LEMMA SomeCycle ==
  ASSUME NEW S, IsFiniteSet(S), S # {}, NEW E, \A a \in S : \E b \in S : <<a, b>> \in E
  PROVE  \E n \in S : \A C : (\A a \in C \cup {n}, b \in S : <<a, b>> \in E => b \in C) => n \in C
<1> DEFINE endless == {T \in SUBSET S : T # {} /\ \A a \in T : \E b \in T : <<a, b>> \in E}
           sizes == {Cardinality(T) : T \in endless}
<1>1. S \in endless
  OBVIOUS
<1>2. \A T \in endless : IsFiniteSet(T) /\ Cardinality(T) \in Nat
  BY FS_Subset, FS_CardinalityType
<1>3. sizes \in SUBSET Nat /\ sizes # {}
  BY <1>1, <1>2
<1>4. PICK T \in endless : \A U \in endless : Cardinality(T) <= Cardinality(U)
  <2> HIDE DEF endless
  <2>1. PICK T \in endless : Cardinality(T) = Min(sizes)
    <3>1. Min(sizes) \in sizes
      <4> HIDE DEF sizes
      <4> QED
        BY <1>3, MinOfNaturals
    <3> QED
      BY <3>1
  <2>2. \A x \in sizes : Min(sizes) <= x
    <3> HIDE DEF sizes
    <3> QED
      BY <1>3, MinOfNaturals
  <2> QED
    BY <2>1, <2>2
<1>5. PICK n \in T : TRUE
  OBVIOUS
<1>6. ASSUME NEW C, \A a \in C \cup {n}, b \in S : <<a, b>> \in E => b \in C, n \notin C
      PROVE  FALSE
  <2> DEFINE U == T \cap C
  <2>1. \A a \in T : \E b \in T : <<a, b>> \in E
    BY <1>4
  <2>2. \A a \in U \cup {n} : \E b \in U : <<a, b>> \in E
    BY <1>4, <1>5, <1>6, <2>1
  <2>3. U \in endless
    BY <2>2
  <2>4. Cardinality(T) <= Cardinality(U)
    BY <1>4, <2>3
  <2>5. U \in SUBSET T /\ U # T /\ IsFiniteSet(T)
    BY <1>2, <1>4, <1>5, <1>6
  <2>6. Cardinality(U) <= Cardinality(T) /\ Cardinality(U) # Cardinality(T)
    <3> HIDE DEF U
    <3> QED
      BY <2>5, FS_Subset
  <2>7. Cardinality(U) \in Nat /\ Cardinality(T) \in Nat
    BY <1>2, <1>4, <2>3
  <2> QED
    BY ONLY <2>4, <2>6, <2>7
<1> QED
  BY <1>4, <1>5, <1>6

-----------------------------------------------------------------------------
(***************************************************************************)
(* What a run reports.                                                     *)
(***************************************************************************)
\* sort.SliceStable with the less function of SortFindings: a permutation, worst first,
\* ties as they came.
THEOREM SortIsStable ==
  ASSUME NEW fs, IsList(fs), AreFindings(fs)
  PROVE  \E p \in [DOMAIN fs -> DOMAIN fs] :
           /\ SortFindings(fs) = [k \in DOMAIN fs |-> fs[p[k]]]
           /\ \A j \in DOMAIN fs : \E k \in DOMAIN fs : p[k] = j
           /\ \A k, l \in DOMAIN fs : k < l =>
                /\ p[k] # p[l]
                /\ ~Before(fs[p[l]], fs[p[k]])
                /\ ~Before(fs[p[k]], fs[p[l]]) => p[k] < p[l]
<1> DEFINE n == Len(fs)
           D == 1 .. n
           R == {q \in D \X D : Ahead(fs, q[1], q[2])}
           p == [k \in D |-> Placed(n, R, k)]
<1>1. n \in Nat /\ D = DOMAIN fs
  BY DEF IsList
<1>2. \A i, j \in D : <<i, j>> \in R <=> Ahead(fs, i, j)
  OBVIOUS
<1>3. \A j \in D : {i \in D : Ahead(fs, i, j)} = Under(D, R, j)
  BY DEF Under
<1> HIDE DEF R
<1>4. SortFindings(fs) = [k \in D |-> fs[Placed(n, R, k)]]
  <2> HIDE DEF D
  <2> DEFINE at(k) == CHOOSE j \in D : 1 + Cardinality({i \in D : Ahead(fs, i, j)}) = k
  <2>1. SortFindings(fs) = [k \in D |-> fs[at(k)]]
    BY <1>1 DEF SortFindings, Ahead
  <2>2. \A k : at(k) = Placed(n, R, k)
    BY <1>3 DEF Placed, D
  <2> HIDE DEF at
  <2> QED
    BY <2>1, <2>2
<1>5. /\ \A i \in D : ~Ahead(fs, i, i)
      /\ \A i, j, k \in D : Ahead(fs, i, j) /\ Ahead(fs, j, k) => Ahead(fs, i, k)
      /\ \A i, j \in D : i # j => Ahead(fs, i, j) \/ Ahead(fs, j, i)
  <2>1. D \in SUBSET Nat
    BY <1>1
  <2> HIDE DEF D
  <2> QED
    BY <1>1, <2>1, AheadIsOrder
<1>6. /\ \A k \in D : Placed(n, R, k) \in D
      /\ \A j \in D : \E k \in D : Placed(n, R, k) = j
      /\ \A k, l \in D : k < l => <<Placed(n, R, k), Placed(n, R, l)>> \in R
  <2> HIDE DEF n
  <2> QED
    BY <1>1, <1>2, <1>5, PlacesAreTaken
<1> HIDE DEF D
<1>7. /\ p \in [D -> D]
      /\ \A j \in D : \E k \in D : p[k] = j
      /\ SortFindings(fs) = [k \in D |-> fs[p[k]]]
      /\ \A k, l \in D : k < l => Ahead(fs, p[k], p[l])
  BY <1>2, <1>4, <1>6
<1> HIDE DEF p
<1>8. ASSUME NEW k \in D, NEW l \in D, k < l
      PROVE  /\ p[k] # p[l]
             /\ ~Before(fs[p[l]], fs[p[k]])
             /\ ~Before(fs[p[k]], fs[p[l]]) => p[k] < p[l]
  <2>1. Ahead(fs, p[k], p[l]) /\ p[k] \in D /\ p[l] \in D
    BY <1>7, <1>8
  <2>2. ~Ahead(fs, p[l], p[k]) /\ p[k] # p[l]
    BY <1>5, <2>1
  <2> QED
    BY <2>1, <2>2 DEF Ahead
<1> QED
  BY <1>1, <1>7, <1>8

\* Dedup loses no finding, repeats none, and keeps the order of their first occurrences.
THEOREM FirstsAreKept ==
  ASSUME NEW fs, IsList(fs)
  PROVE  /\ IsList(Dedup(fs)) /\ ToSet(Dedup(fs)) = ToSet(fs)
         /\ \A k, l \in DOMAIN Dedup(fs) : k < l =>
              \E i, j \in DOMAIN fs :
                /\ i < j /\ Dedup(fs)[k] = fs[i] /\ Dedup(fs)[l] = fs[j]
                /\ \A m \in 1 .. j - 1 : fs[m] # fs[j]
<1> DEFINE P == {i \in DOMAIN fs : \A j \in 1 .. i - 1 : fs[j] # fs[i]}
           d == Dedup(fs)
<1>1. Len(fs) \in Nat /\ DOMAIN fs = 1 .. Len(fs)
  BY DEF IsList
<1>2. d = Pick(fs, P)
  BY DEF Dedup
<1>3. P \in SUBSET DOMAIN fs
  OBVIOUS
<1>4. P \in SUBSET Nat /\ IsFiniteSet(P)
  <2> HIDE DEF P
  <2> QED
    BY <1>3, ListIsFinite
<1>5. \A i \in DOMAIN fs : \E j \in P : fs[j] = fs[i]
  <2> SUFFICES ASSUME NEW i \in DOMAIN fs PROVE \E j \in P : fs[j] = fs[i]
    OBVIOUS
  <2> DEFINE S == {j \in DOMAIN fs : fs[j] = fs[i]}
             m == Min(S)
  <2>1. S \in SUBSET Nat /\ S # {}
    BY <1>1
  <2>2. m \in S /\ \A j \in S : m <= j
    <3> HIDE DEF S
    <3> QED
      BY <2>1, MinOfNaturals
  <2> HIDE DEF m
  <2>3. \A j \in 1 .. m - 1 : fs[j] # fs[m]
    <3> SUFFICES ASSUME NEW j \in 1 .. m - 1, fs[j] = fs[m] PROVE FALSE
      OBVIOUS
    <3>1. m \in 1 .. Len(fs) /\ fs[m] = fs[i]
      BY <1>1, <2>2
    <3>2. j \in 1 .. Len(fs) /\ ~(m <= j)
      BY <1>1, <3>1
    <3> QED
      BY <1>1, <2>2, <3>1, <3>2
  <2> QED
    BY <2>2, <2>3
<1> HIDE DEF d
<1>6. /\ IsList(d) /\ ToSet(d) = {fs[i] : i \in P}
      /\ d = [k \in 1 .. Cardinality(P) |-> fs[Nth(P, k)]]
      /\ \A k \in 1 .. Cardinality(P) : Nth(P, k) \in P
      /\ \A k, l \in 1 .. Cardinality(P) : k < l => Nth(P, k) < Nth(P, l)
  <2> HIDE DEF P, IsList
  <2> QED
    BY <1>2, <1>3, <1>4, PickedList, Picked, NthPosition
<1>7. ToSet(d) = ToSet(fs)
  <2>1. {fs[i] : i \in P} = {fs[i] : i \in DOMAIN fs}
    BY <1>3, <1>5
  <2> QED
    BY <1>6, <2>1 DEF ToSet
<1>8. ASSUME NEW k \in DOMAIN d, NEW l \in DOMAIN d, k < l
      PROVE  \E i, j \in DOMAIN fs : /\ i < j /\ d[k] = fs[i] /\ d[l] = fs[j]
                                     /\ \A m \in 1 .. j - 1 : fs[m] # fs[j]
  <2>1. /\ k \in 1 .. Cardinality(P) /\ l \in 1 .. Cardinality(P)
        /\ d[k] = fs[Nth(P, k)] /\ d[l] = fs[Nth(P, l)]
        /\ Nth(P, k) \in P /\ Nth(P, l) \in P /\ Nth(P, k) < Nth(P, l)
    <3> HIDE DEF P
    <3> QED
      BY <1>6, <1>8
  <2> QED
    BY <2>1
<1> QED
  BY <1>6, <1>7, <1>8 DEF d

\* The report of a run has each finding its checks returned, once, and the worst first.
THEOREM ReportIsComplete ==
  ASSUME NEW flat, IsList(flat), AreFindings(flat)
  PROVE  /\ ToSet(Report(flat)) = ToSet(flat)
         /\ \A k, l \in DOMAIN Report(flat) : k < l =>
              Report(flat)[k] # Report(flat)[l] /\ ~Before(Report(flat)[l], Report(flat)[k])
<1> DEFINE d == Dedup(flat)
           r == Report(flat)
<1>1. /\ IsList(d) /\ ToSet(d) = ToSet(flat)
      /\ \A k, l \in DOMAIN d : k < l =>
           \E i, j \in DOMAIN flat : /\ i < j /\ d[k] = flat[i] /\ d[l] = flat[j]
                                     /\ \A m \in 1 .. j - 1 : flat[m] # flat[j]
  BY FirstsAreKept
<1>2. r = SortFindings(d)
  BY DEF Report
<1> HIDE DEF d, r
<1>3. \A k, l \in DOMAIN d : k # l => d[k] # d[l]
  <2>1. ASSUME NEW k \in DOMAIN d, NEW l \in DOMAIN d, k < l PROVE d[k] # d[l]
    <3>1. PICK i \in DOMAIN flat, j \in DOMAIN flat :
            /\ i < j /\ d[k] = flat[i] /\ d[l] = flat[j]
            /\ \A m \in 1 .. j - 1 : flat[m] # flat[j]
      BY <1>1, <2>1
    <3>2. i \in 1 .. j - 1
      BY <3>1 DEF IsList
    <3> QED
      BY <3>1, <3>2
  <2>2. \A k, l \in DOMAIN d : k < l \/ l < k \/ k = l
    BY <1>1 DEF IsList
  <2> QED
    BY <2>1, <2>2
<1>4. AreFindings(d)
  <2>1. \A i \in DOMAIN d : \E j \in DOMAIN flat : d[i] = flat[j]
    BY <1>1 DEF ToSet
  <2> QED
    BY <2>1 DEF AreFindings
<1>5. PICK p \in [DOMAIN d -> DOMAIN d] :
        /\ r = [k \in DOMAIN d |-> d[p[k]]]
        /\ \A j \in DOMAIN d : \E k \in DOMAIN d : p[k] = j
        /\ \A k, l \in DOMAIN d : k < l =>
             /\ p[k] # p[l]
             /\ ~Before(d[p[l]], d[p[k]])
             /\ ~Before(d[p[k]], d[p[l]]) => p[k] < p[l]
  <2> HIDE DEF IsList, AreFindings
  <2> QED
    BY ONLY <1>1, <1>2, <1>4, SortIsStable
<1>6. ToSet(r) = ToSet(flat)
  <2>1. {d[p[k]] : k \in DOMAIN d} = {d[j] : j \in DOMAIN d}
    BY <1>5
  <2>2. DOMAIN r = DOMAIN d /\ \A k \in DOMAIN d : r[k] = d[p[k]]
    BY <1>5
  <2>3. ToSet(r) = {d[p[k]] : k \in DOMAIN d}
    BY <2>2 DEF ToSet
  <2>4. ToSet(d) = {d[j] : j \in DOMAIN d}
    BY DEF ToSet
  <2> QED
    BY <1>1, <2>1, <2>3, <2>4
<1>7. \A k, l \in DOMAIN r : k < l => r[k] # r[l] /\ ~Before(r[l], r[k])
  BY <1>3, <1>5
<1> QED
  BY <1>6, <1>7 DEF r
=============================================================================
