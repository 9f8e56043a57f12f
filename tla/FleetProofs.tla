---------------------------- MODULE FleetProofs ----------------------------
(***************************************************************************)
(* The reports of the check modules of module Fleet, for any set of        *)
(* modules and however far from well a server gets.                        *)
(*                                                                         *)
(* The state itself is simple: each thing about the server stays on its    *)
(* scale.  The work is in what each module makes of it: one lemma for the  *)
(* report of each, by the rules its code applies, and one that sets the    *)
(* report beside the places.  Two of the operators it takes are defined by *)
(* recursion, FlattenSeq and readVarint: what they return is proved by     *)
(* lemma Recursion, by which a function with given steps exists.           *)
(***************************************************************************)
EXTENDS Fleet, Lemmas, SequenceTheorems

-----------------------------------------------------------------------------
(***************************************************************************)
(* Recursion over the naturals, and what FlattenSeq returns.               *)
(***************************************************************************)

\* A set of naturals that has zero and, of each number in it, the next, has them all.
LEMMA AllNaturals ==
  ASSUME NEW P \in SUBSET Nat, 0 \in P, \A n \in P : n + 1 \in P
  PROVE  P = Nat
<1> SUFFICES ASSUME Nat \ P # {} PROVE FALSE
  OBVIOUS
<1> DEFINE m == Min(Nat \ P)
<1>1. m \in Nat \ P /\ \A x \in Nat \ P : m <= x
  <2>1. Nat \ P \in SUBSET Nat
    OBVIOUS
  <2> QED
    BY <2>1, MinOfNaturals
<1> HIDE DEF m
<1>2. m # 0
  BY <1>1
<1>3. m - 1 \in Nat /\ ~(m <= m - 1) /\ (m - 1) + 1 = m
  BY <1>1, <1>2
<1>4. m - 1 \in P
  BY <1>1, <1>3
<1> QED
  BY <1>1, <1>3, <1>4

\* The first n steps of a recursion from v by D.
Begun(V, v, D, n) == {f \in [0 .. n -> V] : f[0] = v /\ \A i \in 0 .. n - 1 : f[i + 1] = D[i][f[i]]}

Recurs(f, v, D) == f[0] = v /\ \A n \in Nat : f[n + 1] = D[n][f[n]]

\* A function defined by recursion over the naturals, each value a function of the one
\* before and of its place.
LEMMA Recursion ==
  ASSUME NEW V, NEW v \in V, NEW D \in [Nat -> [V -> V]]
  PROVE  \E f \in [Nat -> V] : Recurs(f, v, D)
<1>1. ASSUME NEW n \in Nat, NEW f \in Begun(V, v, D, n), NEW k \in Nat, NEW g \in Begun(V, v, D, k)
      PROVE  \A i \in Nat : i <= n /\ i <= k => f[i] = g[i]
  <2> DEFINE P == {i \in Nat : i <= n /\ i <= k => f[i] = g[i]}
  <2>1. 0 \in P
    BY DEF Begun
  <2>2. ASSUME NEW i \in P PROVE i + 1 \in P
    <3> SUFFICES ASSUME i + 1 <= n, i + 1 <= k PROVE f[i + 1] = g[i + 1]
      OBVIOUS
    <3>1. i \in Nat /\ i <= n /\ i <= k /\ i \in 0 .. n - 1 /\ i \in 0 .. k - 1
      OBVIOUS
    <3>2. f[i] = g[i]
      BY <3>1
    <3>3. f[i + 1] = D[i][f[i]] /\ g[i + 1] = D[i][g[i]]
      BY <3>1 DEF Begun
    <3> QED
      BY <3>2, <3>3
  <2> HIDE DEF P
  <2>3. P \in SUBSET Nat
    BY DEF P
  <2>4. P = Nat
    BY <2>1, <2>2, <2>3, AllNaturals
  <2> QED
    BY <2>4 DEF P
<1>2. \A n \in Nat : Begun(V, v, D, n) # {}
  <2> DEFINE P == {n \in Nat : Begun(V, v, D, n) # {}}
  <2>1. 0 \in P
    <3>1. [i \in 0 .. 0 |-> v] \in Begun(V, v, D, 0)
      BY DEF Begun
    <3> QED
      BY <3>1
  <2>2. ASSUME NEW n \in P PROVE n + 1 \in P
    <3>1. PICK f \in Begun(V, v, D, n) : TRUE
      OBVIOUS
    <3> DEFINE g == [i \in 0 .. n + 1 |-> IF i <= n THEN f[i] ELSE D[n][f[n]]]
    <3>2. n \in Nat /\ f \in [0 .. n -> V] /\ f[0] = v /\ \A i \in 0 .. n - 1 : f[i + 1] = D[i][f[i]]
      BY DEF Begun
    <3>3. D[n][f[n]] \in V
      BY <3>2
    <3>4. g \in [0 .. n + 1 -> V]
      BY <3>2, <3>3
    <3>5. g[0] = v
      BY <3>2
    <3>6. ASSUME NEW i \in 0 .. (n + 1) - 1 PROVE g[i + 1] = D[i][g[i]]
      <4>1. CASE i = n
        BY <4>1, <3>2
      <4>2. CASE i # n
        <5>1. i \in 0 .. n - 1 /\ i <= n /\ i + 1 <= n
          BY <4>2, <3>2
        <5> QED
          BY <5>1, <3>2
      <4> QED
        BY <4>1, <4>2
    <3>7. g \in Begun(V, v, D, n + 1)
      BY <3>4, <3>5, <3>6 DEF Begun
    <3> QED
      BY <3>2, <3>7
  <2> HIDE DEF P
  <2>3. P \in SUBSET Nat
    BY DEF P
  <2>4. P = Nat
    BY <2>1, <2>2, <2>3, AllNaturals
  <2> QED
    BY <2>4 DEF P
<1> DEFINE s(n) == CHOOSE f : f \in Begun(V, v, D, n)
           F == [n \in Nat |-> s(n)[n]]
<1>3. \A n \in Nat : s(n) \in Begun(V, v, D, n)
  BY <1>2
<1> HIDE DEF s
<1>4. F \in [Nat -> V]
  BY <1>3 DEF Begun
<1>5. F[0] = v
  BY <1>3 DEF Begun
<1>6. ASSUME NEW n \in Nat PROVE F[n + 1] = D[n][F[n]]
  <2>1. n + 1 \in Nat /\ n \in 0 .. (n + 1) - 1 /\ n <= n /\ n <= n + 1
    OBVIOUS
  <2>2. s(n) \in Begun(V, v, D, n) /\ s(n + 1) \in Begun(V, v, D, n + 1)
    BY <1>3, <2>1
  <2>3. s(n)[n] = s(n + 1)[n]
    BY <1>1, <2>1, <2>2
  <2>4. s(n + 1)[n + 1] = D[n][s(n + 1)[n]]
    BY <2>1, <2>2 DEF Begun
  <2> QED
    BY <2>1, <2>3, <2>4
<1>7. Recurs(F, v, D)
  BY <1>5, <1>6 DEF Recurs
<1> QED
  BY <1>4, <1>7

IsSequence(s) == s \in Seq(ToSet(s))

\* A sequence, and the elements it has.
LEMMA SequenceOf ==
  ASSUME NEW S, NEW s \in Seq(S)
  PROVE  IsSequence(s) /\ ToSet(s) \subseteq S /\ Len(s) \in Nat /\ DOMAIN s = 1 .. Len(s)
<1>1. Len(s) \in Nat /\ s \in [1 .. Len(s) -> S] /\ DOMAIN s = 1 .. Len(s)
  OBVIOUS
<1>2. s \in [1 .. Len(s) -> ToSet(s)]
  BY <1>1 DEF ToSet
<1>3. s \in Seq(ToSet(s))
  BY <1>1, <1>2
<1>4. ToSet(s) \subseteq S
  BY <1>1 DEF ToSet
<1> QED
  BY <1>1, <1>3, <1>4 DEF IsSequence

\* Two sequences, one after the other.
LEMMA Concatenated ==
  ASSUME NEW s, NEW t, IsSequence(s), IsSequence(t)
  PROVE  IsSequence(s \o t) /\ ToSet(s \o t) = ToSet(s) \cup ToSet(t)
<1> DEFINE S == ToSet(s) \cup ToSet(t)
<1>1. s \in Seq(S) /\ t \in Seq(S)
  BY SeqMonotonic DEF IsSequence
<1> HIDE DEF S
<1>2. /\ s \o t \in Seq(S)
      /\ Len(s \o t) = Len(s) + Len(t)
      /\ \A i \in 1 .. Len(s) + Len(t) : (s \o t)[i] = IF i <= Len(s) THEN s[i] ELSE t[i - Len(s)]
  BY <1>1, ConcatProperties
<1>3. Len(s) \in Nat /\ Len(t) \in Nat /\ DOMAIN s = 1 .. Len(s) /\ DOMAIN t = 1 .. Len(t)
  BY <1>1
<1>4. DOMAIN (s \o t) = 1 .. Len(s) + Len(t)
  BY <1>2
<1>5. ToSet(s \o t) \subseteq S
  BY <1>2, SequenceOf
<1>6. ASSUME NEW i \in DOMAIN s PROVE s[i] \in ToSet(s \o t)
  <2>1. i \in 1 .. Len(s) + Len(t) /\ i <= Len(s)
    BY <1>3
  <2>2. (s \o t)[i] = s[i]
    BY <1>2, <2>1
  <2> QED
    BY <1>4, <2>1, <2>2 DEF ToSet
<1>7. ASSUME NEW i \in DOMAIN t PROVE t[i] \in ToSet(s \o t)
  <2>1. Len(s) + i \in 1 .. Len(s) + Len(t) /\ ~(Len(s) + i <= Len(s)) /\ (Len(s) + i) - Len(s) = i
    BY <1>3
  <2>2. (s \o t)[Len(s) + i] = t[i]
    BY <1>2, <2>1
  <2> QED
    BY <1>4, <2>1, <2>2 DEF ToSet
<1>8. ToSet(s \o t) = S
  BY <1>5, <1>6, <1>7 DEF ToSet, S
<1> QED
  BY <1>2, <1>8, SequenceOf DEF S

\* FlattenSeq, which the library defines by recursion: the elements of a list of sequences.
LEMMA Flattened ==
  ASSUME NEW n \in Nat, NEW ss, ss = [i \in 1 .. n |-> ss[i]], \A i \in 1 .. n : IsSequence(ss[i])
  PROVE  /\ IsSequence(FlattenSeq(ss))
         /\ ToSet(FlattenSeq(ss)) = UNION {ToSet(ss[i]) : i \in 1 .. n}
<1>1. IsList(ss) /\ Len(ss) = n
  BY FunctionIsList
<1>2. CASE n = 0
  <2>1. ss = <<>>
    BY <1>2
  <2>2. FlattenSeq(ss) = ss
    BY <1>1, <1>2 DEF FlattenSeq
  <2>3. ToSet(ss) = {}
    BY <1>1, <1>2 DEF ToSet, IsList
  <2>4. IsSequence(ss)
    BY <2>1, EmptySeq DEF IsSequence
  <2> QED
    BY <1>2, <2>2, <2>3, <2>4
<1>3. CASE n # 0
  <2> DEFINE U == UNION {ToSet(ss[i]) : i \in 1 .. n}
             V == Seq(U)
             Follows(g) == g = [i \in 1 .. n |-> IF i = 1 THEN ss[i] ELSE g[i - 1] \o ss[i]]
             D == [k \in Nat |-> [w \in V |-> IF k + 2 <= n THEN w \o ss[k + 2] ELSE w]]
  <2>1. \A i \in 1 .. n : ss[i] \in V
    <3> SUFFICES ASSUME NEW i \in 1 .. n PROVE ss[i] \in V
      OBVIOUS
    <3>1. ToSet(ss[i]) \subseteq U
      OBVIOUS
    <3> HIDE DEF U
    <3> QED
      BY <3>1, SeqMonotonic DEF IsSequence
  <2>2. \A w \in V, i \in 1 .. n : w \o ss[i] \in V
    <3> HIDE DEF U
    <3> QED
      BY <2>1, ConcatProperties
  <2>3. D \in [Nat -> [V -> V]]
    <3> SUFFICES ASSUME NEW k \in Nat, NEW w \in V PROVE (IF k + 2 <= n THEN w \o ss[k + 2] ELSE w) \in V
      BY Zenon
    <3>1. k + 2 <= n => k + 2 \in 1 .. n
      OBVIOUS
    <3> HIDE DEF V
    <3> QED
      BY <2>2, <3>1
  <2>4. 1 \in 1 .. n
    BY <1>3
  <2>5. ss[1] \in V
    BY <2>1, <2>4
  <2>6. PICK f \in [Nat -> V] : f[0] = ss[1] /\ \A k \in Nat : f[k + 1] = D[k][f[k]]
    <3> HIDE DEF D, V
    <3>1. PICK f \in [Nat -> V] : Recurs(f, ss[1], D)
      BY <2>3, <2>5, Recursion
    <3>2. f[0] = ss[1] /\ \A k \in Nat : f[k + 1] = D[k][f[k]]
      BY <3>1 DEF Recurs
    <3> QED
      BY <3>2
  <2> DEFINE h == [i \in 1 .. n |-> f[i - 1]]
  <2>7. Follows(h)
    <3> SUFFICES ASSUME NEW i \in 1 .. n
                 PROVE  h[i] = IF i = 1 THEN ss[i] ELSE h[i - 1] \o ss[i]
      BY Zenon
    <3>1. CASE i = 1
      BY <3>1, <2>6
    <3>2. CASE i # 1
      <4> DEFINE k == i - 2
      <4>1. k \in Nat /\ k + 1 = i - 1 /\ k + 2 = i /\ k + 2 <= n /\ i - 1 \in 1 .. n /\ (i - 1) - 1 = k
        BY <3>2
      <4> HIDE DEF k, V
      <4>2. f[k + 1] = D[k][f[k]] /\ f[k] \in V
        BY <2>6, <4>1
      <4>3. D[k][f[k]] = f[k] \o ss[k + 2]
        BY <4>1, <4>2
      <4>4. h[i] = f[k + 1] /\ h[i - 1] = f[k]
        BY <4>1
      <4> QED
        BY <3>2, <4>1, <4>2, <4>3, <4>4
    <3> QED
      BY <3>1, <3>2
  <2> DEFINE g == CHOOSE g : Follows(g)
  <2>8. Follows(g)
    <3> HIDE DEF Follows, h
    <3> QED
      BY <2>7
  <2>9. FlattenSeq(ss) = g[n]
    BY <1>1, <1>3 DEF FlattenSeq
  <2> HIDE DEF g
  <2> DEFINE Upto(i) == UNION {ToSet(ss[j]) : j \in 1 .. i}
             P == {i \in Nat : i + 1 <= n => IsSequence(g[i + 1]) /\ ToSet(g[i + 1]) = Upto(i + 1)}
  <2>10. 0 \in P
    <3>1. g[1] = ss[1]
      BY <2>4, <2>8
    <3>2. Upto(1) = ToSet(ss[1])
      OBVIOUS
    <3> QED
      BY <2>4, <3>1, <3>2
  <2>11. ASSUME NEW k \in P PROVE k + 1 \in P
    <3> SUFFICES ASSUME (k + 1) + 1 <= n
                 PROVE  IsSequence(g[(k + 1) + 1]) /\ ToSet(g[(k + 1) + 1]) = Upto((k + 1) + 1)
      OBVIOUS
    <3> DEFINE i == (k + 1) + 1
    <3>1. i \in 1 .. n /\ i # 1 /\ i - 1 = k + 1 /\ k + 1 <= n
      OBVIOUS
    <3>2. g[i] = g[k + 1] \o ss[i]
      BY <2>8, <3>1
    <3>3. IsSequence(g[k + 1]) /\ ToSet(g[k + 1]) = Upto(k + 1)
      BY <3>1
    <3>4. Upto(i) = Upto(k + 1) \cup ToSet(ss[i])
      <4>1. 1 .. i = (1 .. k + 1) \cup {i}
        BY <3>1
      <4> HIDE DEF i
      <4> QED
        BY <4>1
    <3> HIDE DEF Upto, i
    <3>5. IsSequence(g[i]) /\ ToSet(g[i]) = Upto(i)
      BY <3>1, <3>2, <3>3, <3>4, Concatenated
    <3> QED
      BY <3>5 DEF i
  <2> HIDE DEF P
  <2>12. P \in SUBSET Nat
    BY DEF P
  <2>13. P = Nat
    BY <2>10, <2>11, <2>12, AllNaturals
  <2>14. n - 1 \in P /\ (n - 1) + 1 = n
    BY <1>3, <2>13
  <2>15. IsSequence(g[n]) /\ ToSet(g[n]) = Upto(n)
    BY <2>14 DEF P
  <2> QED
    BY <2>9, <2>15
<1> QED
  BY <1>2, <1>3

-----------------------------------------------------------------------------
(***************************************************************************)
(* What the check modules are built from: a finding, a list of rules of    *)
(* which the first that applies decides, the targets found.                *)
(***************************************************************************)

F(t, p, s) == [target |-> t, part |-> p, status |-> s]

\* A list of one.
LEMMA Single == \A x : IsSequence(<<x>>) /\ ToSet(<<x>>) = {x}
<1> SUFFICES ASSUME NEW x PROVE IsSequence(<<x>>) /\ ToSet(<<x>>) = {x}
  OBVIOUS
<1> DEFINE s == <<x>>
<1>1. s \in Seq({x}) /\ Len(s) = 1 /\ s[1] = x /\ DOMAIN s = {1}
  OBVIOUS
<1> HIDE DEF s
<1>2. IsSequence(s) /\ ToSet(s) = {x}
  BY <1>1, SequenceOf DEF ToSet
<1> QED
  BY <1>2 DEF s

\* What Say returns.
LEMMA Said ==
  \A t, p, s : IsSequence(Say(t, p, s)) /\ ToSet(Say(t, p, s)) = {F(t, p, s)}
BY Single DEF Say, F

\* The empty list.
LEMMA Nothing == IsSequence(<<>>) /\ ToSet(<<>>) = {}
BY EmptySeq DEF IsSequence, ToSet

\* The same of any two lists.
LEMMA Added ==
  \A s, t : IsSequence(s) /\ IsSequence(t) => IsSequence(s \o t) /\ ToSet(s \o t) = ToSet(s) \cup ToSet(t)
BY Concatenated

\* A list of findings under a condition.
LEMMA Conditional ==
  ASSUME NEW b \in BOOLEAN, NEW s, IsSequence(s)
  PROVE  IsSequence(IfSo(b, s)) /\ ToSet(IfSo(b, s)) = IF b THEN ToSet(s) ELSE {}
BY Nothing DEF IfSo

\* The first status that is not OK.
Leads(ss, i) == ss[i] # "OK" /\ \A j \in 1 .. i - 1 : ss[j] = "OK"

\* The first rule that applies decides.
LEMMA FirstOfSome ==
  ASSUME NEW n \in Nat, NEW statuses, DOMAIN statuses = 1 .. n
  PROVE  \/ /\ \A i \in 1 .. n : statuses[i] = "OK"
            /\ FirstOf(statuses) = "OK"
         \/ \E i \in 1 .. n : Leads(statuses, i) /\ FirstOf(statuses) = statuses[i]
<1> DEFINE wrong == {i \in DOMAIN statuses : statuses[i] # "OK"}
<1>1. CASE wrong = {}
  BY <1>1 DEF FirstOf
<1>2. CASE wrong # {}
  <2> DEFINE m == Min(wrong)
  <2>1. wrong \in SUBSET Nat
    OBVIOUS
  <2>2. m \in wrong /\ \A x \in wrong : m <= x
    <3> HIDE DEF wrong
    <3> QED
      BY <1>2, <2>1, MinOfNaturals
  <2>3. FirstOf(statuses) = statuses[m]
    BY <1>2 DEF FirstOf
  <2> HIDE DEF m
  <2>4. m \in 1 .. n /\ statuses[m] # "OK"
    BY <2>2
  <2>5. \A j \in 1 .. m - 1 : statuses[j] = "OK"
    BY <2>2, <2>4
  <2> QED
    BY <2>3, <2>4, <2>5 DEF Leads
<1> QED
  BY <1>1, <1>2

\* The rules one after the other.
Rest(n, s, ts, ss) ==
  DOMAIN ts = 1 .. n /\ DOMAIN ss = 1 .. n + 1 /\ ss[1] = s /\ \A i \in 1 .. n : ss[i + 1] = ts[i]

\* The first rule decides, or the rest do.
LEMMA FirstOfRest ==
  ASSUME NEW n \in Nat, NEW s, NEW ts, NEW ss, Rest(n, s, ts, ss)
  PROVE  FirstOf(ss) = IF s # "OK" THEN s ELSE FirstOf(ts)
<1> USE DEF Rest
<1>1. n + 1 \in Nat
  OBVIOUS
<1>2. \/ /\ \A i \in 1 .. n + 1 : ss[i] = "OK"
         /\ FirstOf(ss) = "OK"
      \/ \E i \in 1 .. n + 1 : Leads(ss, i) /\ FirstOf(ss) = ss[i]
  BY <1>1, FirstOfSome
<1>3. \/ /\ \A i \in 1 .. n : ts[i] = "OK"
         /\ FirstOf(ts) = "OK"
      \/ \E i \in 1 .. n : Leads(ts, i) /\ FirstOf(ts) = ts[i]
  BY FirstOfSome
<1>4. \A i \in 1 .. n + 1 : i = 1 \/ (i - 1 \in 1 .. n /\ ss[i] = ts[i - 1])
  <2> SUFFICES ASSUME NEW i \in 1 .. n + 1, i # 1 PROVE i - 1 \in 1 .. n /\ ss[i] = ts[i - 1]
    OBVIOUS
  <2>1. i - 1 \in 1 .. n /\ (i - 1) + 1 = i
    OBVIOUS
  <2> QED
    BY <2>1
<1>5. 1 \in 1 .. n + 1
  OBVIOUS
<1>6. CASE s # "OK"
  <2>1. ~(\A i \in 1 .. n + 1 : ss[i] = "OK")
    BY <1>5, <1>6
  <2>2. PICK i \in 1 .. n + 1 : Leads(ss, i) /\ FirstOf(ss) = ss[i]
    BY <1>2, <2>1
  <2>3. i = 1
    <3> SUFFICES ASSUME i # 1 PROVE FALSE
      OBVIOUS
    <3>1. 1 \in 1 .. i - 1
      OBVIOUS
    <3> QED
      BY <1>6, <2>2, <3>1 DEF Leads
  <2> QED
    BY <1>6, <2>2, <2>3
<1>7. CASE s = "OK"
  <2>1. CASE \A i \in 1 .. n : ts[i] = "OK"
    <3>1. \A i \in 1 .. n + 1 : ss[i] = "OK"
      BY <1>4, <1>7, <2>1
    <3> QED
      BY <1>2, <1>3, <1>7, <2>1, <3>1
  <2>2. CASE ~(\A i \in 1 .. n : ts[i] = "OK")
    <3>1. PICK k \in 1 .. n : Leads(ts, k) /\ FirstOf(ts) = ts[k]
      BY <1>3, <2>2
    <3>2. k + 1 \in 1 .. n + 1 /\ ss[k + 1] = ts[k]
      OBVIOUS
    <3>3. PICK i \in 1 .. n + 1 : Leads(ss, i) /\ FirstOf(ss) = ss[i]
      BY <1>2, <3>1, <3>2 DEF Leads
    <3>4. i - 1 \in 1 .. n /\ ss[i] = ts[i - 1] /\ i # 1
      BY <1>4, <1>7, <3>3 DEF Leads
    <3>5. ~(i - 1 < k)
      <4> SUFFICES ASSUME i - 1 < k PROVE FALSE
        OBVIOUS
      <4>1. i - 1 \in 1 .. k - 1
        BY <3>4
      <4> QED
        BY <3>1, <3>3, <3>4, <4>1 DEF Leads
    <3>6. ~(k < i - 1)
      <4> SUFFICES ASSUME k < i - 1 PROVE FALSE
        OBVIOUS
      <4>1. k + 1 \in 1 .. i - 1
        BY <3>4
      <4>2. ss[k + 1] = "OK"
        BY <3>3, <4>1 DEF Leads
      <4>3. ts[k] # "OK"
        BY <3>1 DEF Leads
      <4> QED
        BY <3>2, <4>2, <4>3
    <3>7. i - 1 = k
      BY <3>4, <3>5, <3>6
    <3> QED
      BY <1>7, <3>1, <3>3, <3>4, <3>7
  <2> QED
    BY <2>1, <2>2
<1> QED
  BY <1>6, <1>7

\* A list of rules, unrolled.
LEMMA FirstOfTwo == \A s, t : FirstOf(<<s, t>>) = IF s # "OK" THEN s ELSE t
<1> SUFFICES ASSUME NEW s, NEW t PROVE FirstOf(<<s, t>>) = IF s # "OK" THEN s ELSE t
  OBVIOUS
<1> DEFINE ss == <<s, t>>
           ts == <<t>>
<1>1. 1 \in Nat /\ Rest(1, s, ts, ss)
  BY DEF Rest
<1>2. DOMAIN ts = 1 .. 1 /\ ts[1] = t /\ 1 \in 1 .. 1 /\ \A i \in 1 .. 1 : i = 1
  OBVIOUS
<1> HIDE DEF ss, ts
<1>3. FirstOf(ts) = t
  BY <1>1, <1>2, FirstOfSome
<1>4. FirstOf(ss) = IF s # "OK" THEN s ELSE FirstOf(ts)
  BY <1>1, FirstOfRest
<1> QED
  BY <1>3, <1>4 DEF ss

\* Three rules.
LEMMA FirstOfThree ==
  \A s, t, u : FirstOf(<<s, t, u>>) = IF s # "OK" THEN s ELSE IF t # "OK" THEN t ELSE u
<1> SUFFICES ASSUME NEW s, NEW t, NEW u
             PROVE  FirstOf(<<s, t, u>>) = IF s # "OK" THEN s ELSE IF t # "OK" THEN t ELSE u
  OBVIOUS
<1> DEFINE ss == <<s, t, u>>
           ts == <<t, u>>
<1>1. 2 \in Nat /\ Rest(2, s, ts, ss)
  BY DEF Rest
<1>2. FirstOf(ts) = IF t # "OK" THEN t ELSE u
  BY FirstOfTwo
<1> HIDE DEF ss, ts
<1>3. FirstOf(ss) = IF s # "OK" THEN s ELSE FirstOf(ts)
  BY <1>1, FirstOfRest
<1> QED
  BY <1>2, <1>3 DEF ss

\* Four.
LEMMA FirstOfFour ==
  \A s, t, u, v : FirstOf(<<s, t, u, v>>) =
                    IF s # "OK" THEN s ELSE IF t # "OK" THEN t ELSE IF u # "OK" THEN u ELSE v
<1> SUFFICES ASSUME NEW s, NEW t, NEW u, NEW v
             PROVE  FirstOf(<<s, t, u, v>>) =
                      IF s # "OK" THEN s ELSE IF t # "OK" THEN t ELSE IF u # "OK" THEN u ELSE v
  OBVIOUS
<1> DEFINE ss == <<s, t, u, v>>
           ts == <<t, u, v>>
<1>1. 3 \in Nat /\ Rest(3, s, ts, ss)
  BY DEF Rest
<1>2. FirstOf(ts) = IF t # "OK" THEN t ELSE IF u # "OK" THEN u ELSE v
  BY FirstOfThree
<1> HIDE DEF ss, ts
<1>3. FirstOf(ss) = IF s # "OK" THEN s ELSE FirstOf(ts)
  BY <1>1, FirstOfRest
<1> QED
  BY <1>2, <1>3 DEF ss

\* The values of a scale of truth.
LEMMA Truths == ToSet(Bool) = BOOLEAN
<1>1. Bool[1] = TRUE /\ Bool[2] = FALSE /\ DOMAIN Bool = 1 .. 2
  BY DEF Bool
<1>2. 1 \in 1 .. 2 /\ 2 \in 1 .. 2 /\ \A i \in 1 .. 2 : i = 1 \/ i = 2
  OBVIOUS
<1>3. \A i \in DOMAIN Bool : Bool[i] = TRUE \/ Bool[i] = FALSE
  BY <1>1, <1>2
<1>4. ToSet(Bool) \subseteq BOOLEAN
  BY <1>3 DEF ToSet
<1>5. TRUE \in {Bool[i] : i \in DOMAIN Bool}
  BY Zenon, <1>1, <1>2
<1>6. FALSE \in {Bool[i] : i \in DOMAIN Bool}
  BY Zenon, <1>1, <1>2
<1> QED
  BY <1>4, <1>5, <1>6 DEF ToSet

\* The fields of a finding.
LEMMA Fields == \A t, p, s : F(t, p, s).target = t /\ F(t, p, s).part = p /\ F(t, p, s).status = s
BY DEF F

\* Two lists, flattened.
LEMMA FlattenedTwo ==
  \A a, b : IsSequence(a) /\ IsSequence(b) =>
     /\ IsSequence(FlattenSeq(<<a, b>>))
     /\ \A x : x \in ToSet(FlattenSeq(<<a, b>>)) <=> x \in ToSet(a) \/ x \in ToSet(b)
<1> SUFFICES ASSUME NEW a, NEW b, IsSequence(a), IsSequence(b)
             PROVE  /\ IsSequence(FlattenSeq(<<a, b>>))
                    /\ ToSet(FlattenSeq(<<a, b>>)) = ToSet(a) \cup ToSet(b)
  OBVIOUS
<1> DEFINE ss == <<a, b>>
<1>1. 2 \in Nat /\ ss = [i \in 1 .. 2 |-> ss[i]] /\ ss[1] = a /\ ss[2] = b
  OBVIOUS
<1>2. \A i \in 1 .. 2 : i = 1 \/ i = 2
  OBVIOUS
<1>3. 1 \in 1 .. 2 /\ 2 \in 1 .. 2
  OBVIOUS
<1> HIDE DEF ss
<1>4. \A i \in 1 .. 2 : IsSequence(ss[i])
  BY <1>1, <1>2
<1>5. IsSequence(FlattenSeq(ss)) /\ ToSet(FlattenSeq(ss)) = UNION {ToSet(ss[i]) : i \in 1 .. 2}
  BY <1>1, <1>4, Flattened
<1>6. UNION {ToSet(ss[i]) : i \in 1 .. 2} = ToSet(a) \cup ToSet(b)
  BY <1>1, <1>2, <1>3
<1> QED
  BY <1>5, <1>6 DEF ss

\* One.
LEMMA FlattenedOne ==
  \A a : IsSequence(a) =>
     /\ IsSequence(FlattenSeq(<<a>>))
     /\ \A x : x \in ToSet(FlattenSeq(<<a>>)) <=> x \in ToSet(a)
<1> SUFFICES ASSUME NEW a, IsSequence(a)
             PROVE  /\ IsSequence(FlattenSeq(<<a>>))
                    /\ ToSet(FlattenSeq(<<a>>)) = ToSet(a)
  OBVIOUS
<1> DEFINE ss == <<a>>
<1>1. 1 \in Nat /\ ss = [i \in 1 .. 1 |-> ss[i]] /\ ss[1] = a
  OBVIOUS
<1>2. 1 \in 1 .. 1 /\ \A i \in 1 .. 1 : i = 1
  OBVIOUS
<1> HIDE DEF ss
<1>3. \A i \in 1 .. 1 : IsSequence(ss[i])
  BY <1>1, <1>2
<1>4. IsSequence(FlattenSeq(ss)) /\ ToSet(FlattenSeq(ss)) = UNION {ToSet(ss[i]) : i \in 1 .. 1}
  BY <1>1, <1>3, Flattened
<1>5. UNION {ToSet(ss[i]) : i \in 1 .. 1} = ToSet(a)
  BY <1>1, <1>2
<1> QED
  BY <1>4, <1>5 DEF ss

\* None.
LEMMA NothingFlattened == IsSequence(FlattenSeq(<<>>)) /\ ToSet(FlattenSeq(<<>>)) = {}
<1> DEFINE ss == <<>>
<1>1. 0 \in Nat /\ ss = [i \in 1 .. 0 |-> ss[i]] /\ \A i \in 1 .. 0 : IsSequence(ss[i])
  OBVIOUS
<1> HIDE DEF ss
<1>2. IsSequence(FlattenSeq(ss)) /\ ToSet(FlattenSeq(ss)) = UNION {ToSet(ss[i]) : i \in 1 .. 0}
  BY <1>1, Flattened
<1>3. 1 .. 0 = {}
  OBVIOUS
<1> QED
  BY <1>2, <1>3 DEF ss

\* The elements picked from a sequence are a sequence again.
LEMMA PickedSequence ==
  ASSUME NEW s, IsSequence(s), NEW P \in SUBSET DOMAIN s
  PROVE  /\ IsSequence(Pick(s, P))
         /\ \A x : x \in ToSet(Pick(s, P)) <=> \E i \in P : x = s[i]
<1>1. s \in Seq(ToSet(s)) /\ Len(s) \in Nat /\ DOMAIN s = 1 .. Len(s)
  BY DEF IsSequence
<1>2. IsList(s)
  BY <1>1 DEF IsList
<1>3. P \in SUBSET Nat /\ IsFiniteSet(P)
  BY <1>2, ListIsFinite
<1>4. /\ Pick(s, P) = [k \in 1 .. Cardinality(P) |-> s[Nth(P, k)]]
      /\ Cardinality(P) \in Nat
      /\ ToSet(Pick(s, P)) = {s[i] : i \in P}
  BY <1>3, Picked
<1>5. Pick(s, P) \in [1 .. Cardinality(P) -> ToSet(Pick(s, P))]
  BY <1>4 DEF ToSet
<1>6. Pick(s, P) \in Seq(ToSet(Pick(s, P)))
  BY <1>4, <1>5
<1> QED
  BY <1>4, <1>6 DEF IsSequence

\* The findings of a sequence of lists are those of each.
LEMMA FlattenedEach ==
  ASSUME NEW xs, IsSequence(xs), NEW ss, ss = [i \in DOMAIN xs |-> ss[i]], \A i \in DOMAIN xs : IsSequence(ss[i])
  PROVE  /\ IsSequence(FlattenSeq(ss))
         /\ \A x : x \in ToSet(FlattenSeq(ss)) <=> \E i \in DOMAIN xs : x \in ToSet(ss[i])
<1>1. xs \in Seq(ToSet(xs))
  BY DEF IsSequence
<1>2. Len(xs) \in Nat /\ DOMAIN xs = 1 .. Len(xs)
  BY <1>1
<1> DEFINE n == Len(xs)
<1>3. n \in Nat /\ ss = [i \in 1 .. n |-> ss[i]] /\ \A i \in 1 .. n : IsSequence(ss[i])
  BY <1>2
<1> HIDE DEF n
<1>4. IsSequence(FlattenSeq(ss)) /\ ToSet(FlattenSeq(ss)) = UNION {ToSet(ss[i]) : i \in 1 .. n}
  BY <1>3, Flattened
<1>5. DOMAIN xs = 1 .. n
  BY <1>2 DEF n
<1> QED
  BY <1>4, <1>5

\* The one host of the inventory.
LEMMA InventoryGives == Inventory.hosts = <<Host("host", "found", "inventory")>> /\ ~Inventory.failed
<1>1. Inventory.hosts = <<Host("host", "found", "inventory")>>
  BY DEF Inventory, LoadPath
<1>2. ~Inventory.failed
  BY DEF Inventory, LoadPath
<1> QED
  BY <1>1, <1>2

\* The catalog lists the instances that pass, unless the lookup fails.
LEMMA CatalogGives ==
  ASSUME NEW o, o.resolved \in BOOLEAN
  PROVE  /\ IsSequence(Catalog(o).hosts)
         /\ \A h : h \in ToSet(Catalog(o).hosts) => h.address \in {"found", "given"}
         /\ Catalog(o).failed <=> ~o.resolved
<1> DEFINE first == [node |-> "found", service |-> Absent, passing |-> TRUE]
           second == [node |-> "node", service |-> "given", passing |-> TRUE]
           third == [node |-> "lost", service |-> Absent, passing |-> FALSE]
           entries == <<first, second, third>>
           kept == {i \in DOMAIN entries : /\ TRUE => entries[i].passing
                                           /\ entries[i].service # Absent \/ entries[i].node # Absent}
           instance(e) == Host(e.node, IF e.service # Absent THEN e.service ELSE e.node, "consul")
           listed == Pick(entries, kept)
           hosts == [i \in DOMAIN listed |-> instance(listed[i])]
<1>1. IsSequence(entries) /\ \A i \in DOMAIN entries : entries[i] = first \/ entries[i] = second \/ entries[i] = third
  <2>1. entries \in Seq({first, second, third}) /\ \A i \in 1 .. 3 : i = 1 \/ i = 2 \/ i = 3
    OBVIOUS
  <2>2. DOMAIN entries = 1 .. 3 /\ entries[1] = first /\ entries[2] = second /\ entries[3] = third
    OBVIOUS
  <2> HIDE DEF entries
  <2> QED
    BY <2>1, <2>2, SequenceOf
<1>2. /\ instance(first).address = "found" /\ instance(second).address = "given"
      /\ ~third.passing
  BY DEF Host, Absent
<1>3. Catalog(o) = [hosts |-> IF o.resolved THEN hosts ELSE <<>>, failed |-> ~o.resolved]
  BY DEF Catalog, consulCatalog, Only
<1>4. IsSequence(listed) /\ \A e : e \in ToSet(listed) => \E i \in kept : e = entries[i]
  <2>1. kept \in SUBSET DOMAIN entries
    OBVIOUS
  <2> HIDE DEF entries, kept
  <2> QED
    BY <1>1, <2>1, PickedSequence
<1>5. \A i \in kept : i \in DOMAIN entries /\ entries[i].passing
  OBVIOUS
<1> HIDE DEF entries, kept, listed, first, second, third, instance
<1>6. \A i \in DOMAIN listed : hosts[i].address \in {"found", "given"}
  <2> SUFFICES ASSUME NEW i \in DOMAIN listed PROVE hosts[i].address \in {"found", "given"}
    OBVIOUS
  <2>1. PICK k \in kept : listed[i] = entries[k]
    BY <1>4 DEF ToSet
  <2>2. listed[i] = first \/ listed[i] = second
    BY <1>1, <1>2, <1>5, <2>1
  <2> QED
    BY <1>2, <2>2
<1>7. Len(listed) \in Nat /\ DOMAIN listed = 1 .. Len(listed) /\ DOMAIN hosts = DOMAIN listed
  BY <1>4 DEF IsSequence
<1>8. IsSequence(hosts)
  <2>1. hosts \in [1 .. Len(listed) -> ToSet(hosts)]
    BY <1>7 DEF ToSet
  <2> QED
    BY <1>7, <2>1 DEF IsSequence
<1>9. \A h : h \in ToSet(hosts) => h.address \in {"found", "given"}
  BY <1>6, <1>7 DEF ToSet
<1> HIDE DEF hosts
<1>10. Catalog(o).hosts = IF o.resolved THEN hosts ELSE <<>>
  BY <1>3
<1>11. Catalog(o).failed <=> ~o.resolved
  <2>1. Catalog(o).failed = (~o.resolved)
    BY ONLY <1>3
  <2> QED
    BY ONLY <2>1
<1> QED
  BY <1>8, <1>9, <1>10, <1>11, Nothing

\* A module with a discovery has the target it is given and those that are found, which
\* the one of the inventory is among however the lookup ends, and an ERROR where the
\* lookup fails.
LEMMA GivenAndFound ==
  ASSUME NEW o, o.resolved \in BOOLEAN
  PROVE  /\ IsSequence(Targets(o))
         /\ \A t : t \in ToSet(Targets(o)) <=> t = "given" \/ t = "found"
         /\ Unresolved(o) = IfSo(~o.resolved, Say("discovery", Absent, "ERROR"))
<1> DEFINE sources == <<Inventory, Catalog(o)>>
           gave == [i \in DOMAIN sources |-> sources[i].hosts]
           hosts == FlattenSeq(gave)
           sorted == <<"found", "given", "lost">>
           held == {i \in DOMAIN sorted : sorted[i] # Absent /\ Of(hosts, sorted[i]) # {}}
           addresses == Pick(sorted, held)
           kept == [k \in DOMAIN addresses |-> hosts[Min(Of(hosts, addresses[k]))]]
<1>1. IsSequence(hosts) /\ \A h : h \in ToSet(hosts) <=> h \in ToSet(Inventory.hosts) \/ h \in ToSet(Catalog(o).hosts)
  <2>1. gave = <<Inventory.hosts, Catalog(o).hosts>>
    OBVIOUS
  <2>2. IsSequence(Inventory.hosts) /\ IsSequence(Catalog(o).hosts)
    BY InventoryGives, Single, CatalogGives
  <2> HIDE DEF gave
  <2> QED
    BY <2>1, <2>2, FlattenedTwo
<1>2. \A h : h \in ToSet(Inventory.hosts) <=> h = Host("host", "found", "inventory")
  BY InventoryGives, Single
<1>3. Resolved(o).hosts = kept
  BY DEF Resolved, Resolve, dedup, Only
<1>4. Unresolved(o) = IfSo(~o.resolved, Say("discovery", Absent, "ERROR"))
  <2>1. Resolved(o).failed <=> Inventory.failed \/ Catalog(o).failed
    BY DEF Resolved, Resolve
  <2>2. Resolved(o).failed <=> ~o.resolved
    BY <2>1, InventoryGives, CatalogGives
  <2> QED
    BY <2>2 DEF Unresolved, Label, IfSo
<1> HIDE DEF gave, hosts
<1>5. \A a : Of(hosts, a) # {} => /\ Min(Of(hosts, a)) \in DOMAIN hosts
                                   /\ hosts[Min(Of(hosts, a))].address = a
                                   /\ a \in {"found", "given"}
  <2> SUFFICES ASSUME NEW a, Of(hosts, a) # {}
               PROVE  /\ Min(Of(hosts, a)) \in DOMAIN hosts
                      /\ hosts[Min(Of(hosts, a))].address = a
                      /\ a \in {"found", "given"}
    OBVIOUS
  <2>1. DOMAIN hosts \in SUBSET Nat
    BY <1>1 DEF IsSequence
  <2>2. Of(hosts, a) \in SUBSET Nat
    BY <2>1 DEF Of
  <2>3. Min(Of(hosts, a)) \in Of(hosts, a)
    BY <2>2, MinOfNaturals
  <2>4. Min(Of(hosts, a)) \in DOMAIN hosts /\ hosts[Min(Of(hosts, a))].address = a
    BY <2>3 DEF Of
  <2>5. hosts[Min(Of(hosts, a))] \in ToSet(hosts)
    BY <2>4 DEF ToSet
  <2>6. \A h : h \in ToSet(hosts) => h.address \in {"found", "given"}
    BY <1>1, <1>2, CatalogGives DEF Host
  <2> QED
    BY <2>4, <2>5, <2>6
<1>6. Of(hosts, "found") # {}
  <2>1. Host("host", "found", "inventory") \in ToSet(hosts)
    BY <1>1, <1>2
  <2>2. PICK i \in DOMAIN hosts : hosts[i] = Host("host", "found", "inventory")
    BY <2>1 DEF ToSet
  <2>3. hosts[i].address = "found"
    BY <2>2 DEF Host
  <2> QED
    BY <2>3 DEF Of
<1>7. IsSequence(addresses) /\ \A a : a \in ToSet(addresses) <=> \E i \in held : a = sorted[i]
  <2>1. sorted \in Seq({"found", "given", "lost"}) /\ held \in SUBSET DOMAIN sorted
    OBVIOUS
  <2> HIDE DEF sorted, held
  <2> QED
    BY <2>1, SequenceOf, PickedSequence
<1>8. 1 \in held /\ sorted[1] = "found"
  BY <1>6 DEF Absent
<1>9. \A i \in held : Of(hosts, sorted[i]) # {}
  OBVIOUS
<1> HIDE DEF held, sorted, addresses
<1>10. \A k \in DOMAIN addresses : /\ kept[k].address = addresses[k]
                                    /\ addresses[k] \in {"found", "given"}
  <2> SUFFICES ASSUME NEW k \in DOMAIN addresses
               PROVE  kept[k].address = addresses[k] /\ addresses[k] \in {"found", "given"}
    OBVIOUS
  <2>1. PICK i \in held : addresses[k] = sorted[i]
    BY <1>7 DEF ToSet
  <2> QED
    BY <1>5, <1>9, <2>1
<1>11. [k \in DOMAIN kept |-> kept[k].address] = addresses
  <2>1. addresses = [k \in DOMAIN addresses |-> addresses[k]]
    BY <1>7 DEF IsSequence
  <2>2. DOMAIN kept = DOMAIN addresses
    OBVIOUS
  <2> HIDE DEF kept
  <2> QED
    BY <1>10, <2>1, <2>2
<1>12. \A a : a \in ToSet(addresses) => a = "found" \/ a = "given"
  BY <1>10 DEF ToSet
<1>13. "found" \in ToSet(addresses)
  BY <1>7, <1>8
<1> HIDE DEF kept
<1>14. Targets(o) = <<"given">> \o addresses
  BY <1>3, <1>11 DEF Targets
<1>15. IsSequence(<<"given">>) /\ ToSet(<<"given">>) = {"given"}
  BY Single
<1>16. IsSequence(Targets(o)) /\ ToSet(Targets(o)) = {"given"} \cup ToSet(addresses)
  BY <1>7, <1>14, <1>15, Concatenated
<1> QED
  BY <1>4, <1>12, <1>13, <1>16

\* What is found of each of the targets: one probed twice counts once.
LEMMA OfTargets ==
  ASSUME NEW o, o.resolved \in BOOLEAN, NEW a, NEW b, IsSequence(a), IsSequence(b),
         NEW ss, ss = [i \in DOMAIN Targets(o) |-> ss[i]],
         \A i \in DOMAIN Targets(o) : /\ Targets(o)[i] = "given" => ss[i] = a
                                      /\ Targets(o)[i] = "found" => ss[i] = b
  PROVE  /\ IsSequence(FlattenSeq(ss))
         /\ \A x : x \in ToSet(FlattenSeq(ss)) <=> x \in ToSet(a) \/ x \in ToSet(b)
<1>1. \A i \in DOMAIN Targets(o) : Targets(o)[i] = "given" \/ Targets(o)[i] = "found"
  BY GivenAndFound DEF ToSet
<1>2. PICK i \in DOMAIN Targets(o) : Targets(o)[i] = "given"
  BY GivenAndFound DEF ToSet
<1>3. PICK j \in DOMAIN Targets(o) : Targets(o)[j] = "found"
  BY GivenAndFound DEF ToSet
<1>4. \A k \in DOMAIN Targets(o) : IsSequence(ss[k])
  BY <1>1
<1>5. /\ IsSequence(FlattenSeq(ss))
      /\ \A x : x \in ToSet(FlattenSeq(ss)) <=> \E k \in DOMAIN Targets(o) : x \in ToSet(ss[k])
  BY <1>4, GivenAndFound, FlattenedEach
<1> QED
  BY <1>1, <1>2, <1>3, <1>5

Typed(fs) == IsSequence(fs) /\ \A x \in ToSet(fs) : x.status \in Status
Agrees(fs) == \A x, y \in ToSet(fs) : x.target = y.target /\ x.part = y.part => x.status = y.status
Fails(fs) == \E x \in ToSet(fs) : x.status = "ERROR"
IsRed(fs) == \E x \in ToSet(fs) : x.status \in {"BAD", "ERROR"}
Blames(fs, t) == \E x \in ToSet(fs) : x.target = t /\ x.status = "ERROR"

Sees(scale, o) == \A f \in DOMAIN scale : o[f] \in ToSet(scale[f])
Meets(s, o) == \A f \in DOMAIN s : o[f] = s[f]

\* What a lookup that fails adds to a report.
LEMMA EachTarget ==
  ASSUME NEW o, o.resolved \in BOOLEAN
  PROVE  /\ IsSequence(Unresolved(o))
         /\ \A x : x \in ToSet(Unresolved(o)) <=> ~o.resolved /\ x = F("discovery", Absent, "ERROR")
BY GivenAndFound, Said, Nothing DEF IfSo

\* A list of statuses under names, one finding to each.
Spoken(s, S) == \E t, p, st : st \in S /\ s = Say(t, p, st)

\* One finding for each element, flattened.
LEMMA EachSpoken ==
  ASSUME NEW S, NEW xs, IsSequence(xs), NEW ss, ss = [i \in DOMAIN xs |-> ss[i]],
         \A i \in DOMAIN xs : Spoken(ss[i], S)
  PROVE  /\ IsSequence(FlattenSeq(ss))
         /\ \A x : x \in ToSet(FlattenSeq(ss)) => x.status \in S
<1>1. \A s : Spoken(s, S) => IsSequence(s) /\ \A x : x \in ToSet(s) => x.status \in S
  BY Said, Fields DEF Spoken
<1>2. \A i \in DOMAIN xs : IsSequence(ss[i])
  BY <1>1
<1>3. /\ IsSequence(FlattenSeq(ss))
      /\ \A x : x \in ToSet(FlattenSeq(ss)) <=> \E i \in DOMAIN xs : x \in ToSet(ss[i])
  BY <1>2, FlattenedEach
<1> QED
  BY <1>1, <1>3

-----------------------------------------------------------------------------
(***************************************************************************)
(* The reports of the check modules, one lemma to each: their findings     *)
(* have a status and, unless they share a target (SharesTargets), one for  *)
(* each name; when one is an ERROR, which hosts are named in one, and when *)
(* the report is red.                                                      *)
(***************************************************************************)

\* The reports of module kafka.
LEMMA KafkaReport == ASSUME NEW c \in KafkaConfig, NEW o, Sees(KafkaScale, o)
 PROVE  /\ Typed(KafkaRun(c, o))
        /\ Agrees(KafkaRun(c, o))
        /\ Fails(KafkaRun(c, o)) <=> ~c.caReadable \/ ~o.metadata \/ ~o.group
        /\ ~o.controller => IsRed(KafkaRun(c, o))
<1>1. o.lag \in Int /\ o.brokers \in Int
  BY DEF Sees, KafkaScale, ToSet
<1>2. c.lagWarn \in Int /\ c.lagCrit \in Int
  BY DEF KafkaConfig
<1> USE Said, Added, Fields, FirstOfTwo DEF KafkaRun, KafkaClusterFinding, partitionsFinding,
   groupFinding, Bad, Warn, Level
<1>4. Typed(KafkaRun(c, o))
  BY <1>1, <1>2 DEF Typed, Status
<1>6. Agrees(KafkaRun(c, o))
  BY <1>1, <1>2 DEF Agrees
<1>7. Fails(KafkaRun(c, o)) <=> ~c.caReadable \/ ~o.metadata \/ ~o.group
  BY <1>1, <1>2 DEF Fails
<1>8. ~o.controller => IsRed(KafkaRun(c, o))
  BY <1>1, <1>2 DEF IsRed
<1> QED
  BY ONLY <1>4, <1>6, <1>7, <1>8

\* The reports of module certs.
LEMMA CertsReport ==
  ASSUME NEW c \in CertsConfig, NEW o, Sees(CertsScale, o)
  PROVE  /\ Typed(CertsRun(c, o))
         /\ Agrees(CertsRun(c, o))
         /\ Fails(CertsRun(c, o)) <=> ~o.resolved \/ ~o.connects \/ ~o.handshake
         /\ o.hours = -30 => IsRed(CertsRun(c, o))
         /\ ~o.connects \/ ~o.handshake => Blames(CertsRun(c, o), "given") /\ Blames(CertsRun(c, o), "found")
<1>1. o.hours \in Int /\ o.resolved \in BOOLEAN
  BY Truths DEF Sees, CertsScale, ToSet
<1>2. c.critDays = 1 /\ c.warnDays = 2
  BY DEF CertsConfig
<1>3. days(o) \in Int /\ (o.hours = -30 => days(o) = -1)
  BY <1>1 DEF days
<1> DEFINE st == FirstOf(<<Error(~o.connects \/ ~o.handshake), Bad(days(o) < 0 \/ days(o) < c.critDays),
                          Warn(days(o) < c.warnDays)>>)
<1>4. /\ st \in Status
      /\ st = "ERROR" <=> ~o.connects \/ ~o.handshake
      /\ o.hours = -30 => st \in {"BAD", "ERROR"}
  BY <1>3, FirstOfThree DEF Error, Bad, Warn, Status
<1> DEFINE ss == [i \in DOMAIN Targets(o) |-> CertsProbe(c, Targets(o)[i], o)]
           each == FlattenSeq(ss)
<1>5. \A t : CertsProbe(c, t, o) = Say(t, Absent, st)
  BY DEF CertsProbe
<1> HIDE DEF st
<1>6. CertsRun(c, o) = each \o Unresolved(o)
  BY DEF CertsRun, Each
<1>7. IsSequence(CertsRun(c, o)) /\ \A x : x \in ToSet(CertsRun(c, o)) <=>
        \/ x = F("given", Absent, st)
        \/ x = F("found", Absent, st)
        \/ ~o.resolved /\ x = F("discovery", Absent, "ERROR")
  <2> DEFINE a == Say("given", Absent, st)
             b == Say("found", Absent, st)
  <2>1. /\ IsSequence(a) /\ \A x : x \in ToSet(a) <=> x = F("given", Absent, st)
        /\ IsSequence(b) /\ \A x : x \in ToSet(b) <=> x = F("found", Absent, st)
    BY Said
  <2>2. /\ ss = [i \in DOMAIN Targets(o) |-> ss[i]]
        /\ \A i \in DOMAIN Targets(o) : /\ Targets(o)[i] = "given" => ss[i] = a
                                        /\ Targets(o)[i] = "found" => ss[i] = b
    BY <1>5
  <2> HIDE DEF a, b, ss
  <2>3. IsSequence(each) /\ \A x : x \in ToSet(each) <=> x \in ToSet(a) \/ x \in ToSet(b)
    BY <1>1, <2>1, <2>2, OfTargets
  <2> HIDE DEF each
  <2> QED
    BY <1>1, <1>6, <2>1, <2>3, Added, EachTarget
<1> USE <1>4, <1>7, Fields
<1>8. Typed(CertsRun(c, o))
  BY DEF Typed, Status
<1>9. Agrees(CertsRun(c, o))
  BY DEF Agrees
<1>10. Fails(CertsRun(c, o)) <=> ~o.resolved \/ ~o.connects \/ ~o.handshake
  BY DEF Fails
<1>11. o.hours = -30 => IsRed(CertsRun(c, o))
  BY DEF IsRed
<1>12. ~o.connects \/ ~o.handshake => Blames(CertsRun(c, o), "given") /\ Blames(CertsRun(c, o), "found")
  BY DEF Blames
<1> QED
  BY ONLY <1>8, <1>9, <1>10, <1>11, <1>12

\* The reports of module clickhouse.
LEMMA ClickHouseReport ==
  ASSUME NEW c \in ClickHouseConfig, NEW o, Sees(ClickHouseScale, o)
  PROVE  /\ Typed(ClickHouseRun(c, o))
         /\ Agrees(ClickHouseRun(c, o))
         /\ Fails(ClickHouseRun(c, o)) <=> o.ping = "none" \/ (o.ping # "other" /\ ~o.version)
<1>1. o.delay \in Int
  BY DEF Sees, ClickHouseScale, ToSet
<1>2. c.delayWarnSeconds \in Int /\ c.delayCritSeconds \in Int
  BY DEF ClickHouseConfig
<1> USE <1>1, <1>2, Said, Added, Nothing, Fields DEF ClickHouseRun, ClickHouseProbe,
   replicaFindings, IfSo, Level, Absent
<1>3. Typed(ClickHouseRun(c, o))
  BY DEF Typed, Status
<1>4. Agrees(ClickHouseRun(c, o))
  BY DEF Agrees
<1>5. Fails(ClickHouseRun(c, o)) <=> o.ping = "none" \/ (o.ping # "other" /\ ~o.version)
  BY DEF Fails
<1> QED
  BY ONLY <1>3, <1>4, <1>5

\* The reports of module cassandra.
LEMMA CassandraReport ==
  ASSUME NEW c \in CassandraConfig, NEW o, Sees(CassandraScale, o)
  PROVE  /\ Typed(CassandraRun(c, o))
         /\ Agrees(CassandraRun(c, o))
         /\ o.n1 = "down" => Fails(CassandraRun(c, o))
         /\ Fails(CassandraRun(c, o)) => o.n1 \in {"garbled", "down"} \/ o.n2 \in {"garbled", "down"}
<1> DEFINE st(n) == IF ~readFrame(o[n]) THEN "ERROR" ELSE IF o[n] \in {"rejected", "odd"} THEN "BAD"
                    ELSE Warn(o[n] = "slow" /\ c.maxLatency > 0)
           nodes == Each(c.nodes, LAMBDA n : CassandraProbe(c, o, n))
           cluster == CassandraClusterFinding(c, nodes)
<1>1. \A n : st(n) \in Status /\ (st(n) = "ERROR" <=> o[n] \in {"garbled", "down"})
  BY DEF Status, Warn, readFrame
<1>2. \/ nodes = FlattenSeq(<<Say("n1", Absent, st("n1"))>>)
      \/ nodes = FlattenSeq(<<Say("n1", Absent, st("n1")), Say("n2", Absent, st("n2"))>>)
  <2>1. c.nodes = <<"n1">> \/ c.nodes = <<"n1", "n2">>
    BY DEF CassandraConfig
  <2>2. CASE c.nodes = <<"n1">>
    BY <2>2 DEF Each, CassandraProbe
  <2>3. CASE c.nodes = <<"n1", "n2">>
    BY <2>3 DEF Each, CassandraProbe
  <2> QED
    BY <2>1, <2>2, <2>3
<1> HIDE DEF st
<1>3. /\ IsSequence(nodes)
      /\ F("n1", Absent, st("n1")) \in ToSet(nodes)
      /\ \A x : x \in ToSet(nodes) => x \in {F("n1", Absent, st("n1")), F("n2", Absent, st("n2"))}
  <2> DEFINE one == FlattenSeq(<<Say("n1", Absent, st("n1"))>>)
             two == FlattenSeq(<<Say("n1", Absent, st("n1")), Say("n2", Absent, st("n2"))>>)
  <2>1. IsSequence(one) /\ \A x : x \in ToSet(one) <=> x = F("n1", Absent, st("n1"))
    BY Said, FlattenedOne
  <2>2. IsSequence(two) /\ \A x : x \in ToSet(two) <=> x = F("n1", Absent, st("n1")) \/ x = F("n2", Absent, st("n2"))
    BY Said, FlattenedTwo
  <2>3. nodes = one \/ nodes = two
    BY <1>2
  <2> HIDE DEF one, two, nodes
  <2> QED
    BY <2>1, <2>2, <2>3
<1>4. PICK k \in {"BAD", "WARN", "OK"} : /\ IsSequence(cluster)
                                         /\ \A x : x \in ToSet(cluster) => x = F("cluster", Absent, k)
  <2>1. cluster = <<>> \/ \E k \in {"BAD", "WARN", "OK"} : cluster = Say("cluster", Absent, k)
    <3> HIDE DEF nodes
    <3> DEFINE up == Cardinality({i \in DOMAIN nodes : acceptsCQL(nodes[i].status)})
               want == IF c.expectNodes = 0 THEN Len(nodes) ELSE c.expectNodes
               k == IF up < want THEN "BAD" ELSE Warn(up < Len(nodes))
    <3>1. k \in {"BAD", "WARN", "OK"}
      BY DEF Warn
    <3>2. cluster = <<>> \/ cluster = Say("cluster", Absent, k)
      BY DEF CassandraClusterFinding, IfSo
    <3> QED
      BY <3>1, <3>2
  <2> HIDE DEF cluster
  <2> QED
    BY <2>1, Said, Nothing
<1>5. CassandraRun(c, o) = nodes \o cluster
  BY DEF CassandraRun
<1> HIDE DEF nodes, cluster
<1>6. /\ IsSequence(CassandraRun(c, o))
      /\ F("n1", Absent, st("n1")) \in ToSet(CassandraRun(c, o))
      /\ \A x : x \in ToSet(CassandraRun(c, o)) =>
           x \in {F("n1", Absent, st("n1")), F("n2", Absent, st("n2")), F("cluster", Absent, k)}
  BY <1>3, <1>4, <1>5, Added
<1> USE <1>1, <1>4, <1>6, Fields
<1>7. Typed(CassandraRun(c, o))
  BY DEF Typed, Status
<1>8. Agrees(CassandraRun(c, o))
  BY DEF Agrees
<1>9. o.n1 = "down" => Fails(CassandraRun(c, o))
  BY DEF Fails
<1>10. Fails(CassandraRun(c, o)) => o.n1 \in {"garbled", "down"} \/ o.n2 \in {"garbled", "down"}
  BY DEF Fails
<1> QED
  BY ONLY <1>7, <1>8, <1>9, <1>10

\* The reports of module etcd.
LEMMA EtcdReport ==
  ASSUME NEW c \in EtcdConfig, NEW o, Sees(EtcdScale, o)
  PROVE  /\ Typed(EtcdRun(c, o))
         /\ Agrees(EtcdRun(c, o))
         /\ Fails(EtcdRun(c, o)) <=>
              ~authenticate(c, o) \/ o.health = "none" \/ (o.health = "true" /\ ~o.status)
         /\ ~o.leader => IsRed(EtcdRun(c, o))
<1>1. EtcdMembers(o) \in Int /\ c.expectMembers \in Int
  BY DEF Sees, EtcdScale, ToSet, EtcdConfig, EtcdMembers
<1> USE <1>1, Said, Added, Nothing, Fields DEF EtcdRun, EtcdProbe, IfSo, Absent
<1>2. Typed(EtcdRun(c, o))
  BY DEF Typed, Status
<1>3. Agrees(EtcdRun(c, o))
  BY DEF Agrees
<1>4. Fails(EtcdRun(c, o)) <=> ~authenticate(c, o) \/ o.health = "none" \/ (o.health = "true" /\ ~o.status)
  BY DEF Fails
<1>5. ~o.leader => IsRed(EtcdRun(c, o))
  BY DEF IsRed
<1> QED
  BY ONLY <1>2, <1>3, <1>4, <1>5

\* The reports of module http.
LEMMA HttpReport ==
  ASSUME NEW c \in HttpConfig, NEW o, Sees(HttpScale, o)
  PROVE  /\ Typed(HttpRun(c, o))
         /\ Agrees(HttpRun(c, o))
         /\ Fails(HttpRun(c, o)) <=> ~c.caReadable \/ ~o.answers
         /\ o.status # "expected" => IsRed(HttpRun(c, o))
<1>1. /\ HttpProbe(c, o) \in Status
      /\ HttpProbe(c, o) = "ERROR" <=> ~c.caReadable \/ ~o.answers
      /\ o.status # "expected" => HttpProbe(c, o) \in {"BAD", "ERROR"}
  BY FirstOfFour DEF HttpProbe, Error, Bad, Warn, Status
<1> QED
  BY <1>1, Said, Fields DEF HttpRun, Typed, Agrees, Fails, IsRed

\* The reports of module ingest.
LEMMA IngestReport ==
  ASSUME NEW c \in IngestConfig, NEW o, Sees(IngestScale, o)
  PROVE  /\ Typed(IngestRun(c, o))
         /\ Agrees(IngestRun(c, o))
         /\ Fails(IngestRun(c, o)) => ~handshake(o)
<1>1. IngestProbe(c, o) \in Status /\ (IngestProbe(c, o) = "ERROR" => ~handshake(o))
  BY FirstOfThree DEF IngestProbe, Error, Bad, Warn, Status
<1> QED
  BY <1>1, Said, Fields DEF IngestRun, Typed, Agrees, Fails

\* The reports of module ntp.
LEMMA NtpReport ==
  ASSUME NEW c \in NtpConfig, NEW o, Sees(NtpScale, o)
  PROVE  /\ Typed(NtpRun(c, o))
         /\ Agrees(NtpRun(c, o))
         /\ Fails(NtpRun(c, o)) <=> ~o.answers
         /\ o.stratum = 16 => IsRed(NtpRun(c, o))
<1>1. Level(Abs(liveQuery(o)), c.offsetWarnMS, c.offsetCritMS) \in {"OK", "WARN", "BAD"}
  BY DEF Level
<1>2. /\ NtpProbe(c, o) \in Status
      /\ NtpProbe(c, o) = "ERROR" <=> ~o.answers
      /\ o.stratum = 16 => NtpProbe(c, o) \in {"BAD", "ERROR"}
  <2> DEFINE level == Level(Abs(liveQuery(o)), c.offsetWarnMS, c.offsetCritMS)
  <2>1. NtpProbe(c, o) = FirstOf(<<Error(~o.answers), Bad(o.stratum = 0 \/ o.stratum >= 16), level>>)
    BY DEF NtpProbe
  <2> HIDE DEF level
  <2> QED
    BY <1>1, <2>1, FirstOfThree DEF Error, Bad, Status, level
<1> QED
  BY <1>2, Said, Fields DEF NtpRun, Typed, Agrees, Fails, IsRed

\* The reports of module ldap.
LEMMA LdapReport ==
  ASSUME NEW c \in LdapConfig, NEW o, Sees(LdapScale, o)
  PROVE  /\ Typed(LdapRun(c, o))
         /\ Agrees(LdapRun(c, o))
         /\ Fails(LdapRun(c, o)) <=> ~o.dial \/ (c.startTLS /\ ~o.tls)
<1>1. LdapProbe(c, o) \in Status /\ (LdapProbe(c, o) = "ERROR" <=> ~o.dial \/ (c.startTLS /\ ~o.tls))
  BY FirstOfFour DEF LdapProbe, Error, Bad, Status
<1> QED
  BY <1>1, Said, Fields DEF LdapRun, Typed, Agrees, Fails

\* The reports of module tcp.
LEMMA TcpReport ==
  ASSUME NEW c \in TcpConfig, NEW o, Sees(TcpScale, o)
  PROVE  /\ Typed(TcpRun(c, o))
         /\ Agrees(TcpRun(c, o))
         /\ Fails(TcpRun(c, o)) <=> ~dial(c, o)
BY Said, Fields DEF TcpRun, TcpProbe, Warn, Typed, Agrees, Fails, Status

\* The reports of module keycloak.
LEMMA KeycloakReport ==
  ASSUME NEW c \in KeycloakConfig, NEW o, Sees(KeycloakScale, o)
  PROVE  /\ Typed(KeycloakRun(c, o))
         /\ Agrees(KeycloakRun(c, o))
         /\ Fails(KeycloakRun(c, o)) <=> (c.healthURL /\ ~KeycloakGet(o.health)) \/ ~KeycloakGet(o.discovery)
         /\ ~o.tokenEndpoint => IsRed(KeycloakRun(c, o))
<1> DEFINE st == FirstOf(<<Error(~KeycloakGet(o.discovery)), Bad(o.discovery # 200), Bad(~o.tokenEndpoint),
                           Warn(~o.issuer)>>)
<1>1. /\ st \in Status
      /\ st = "ERROR" <=> ~KeycloakGet(o.discovery)
      /\ ~o.tokenEndpoint => st \in {"BAD", "ERROR"}
  BY FirstOfFour DEF Error, Bad, Warn, Status
<1>2. realmFinding(o) = Say("realm", Absent, st)
  BY DEF realmFinding
<1> HIDE DEF st
<1> USE <1>1, <1>2, Said, Added, Nothing, Fields DEF KeycloakRun, healthFinding, IfSo, Bad
<1>3. Typed(KeycloakRun(c, o))
  BY DEF Typed, Status
<1>4. Agrees(KeycloakRun(c, o))
  BY DEF Agrees
<1>5. Fails(KeycloakRun(c, o)) <=> (c.healthURL /\ ~KeycloakGet(o.health)) \/ ~KeycloakGet(o.discovery)
  BY DEF Fails
<1>6. ~o.tokenEndpoint => IsRed(KeycloakRun(c, o))
  BY DEF IsRed
<1> QED
  BY ONLY <1>3, <1>4, <1>5, <1>6

\* The reports of module memcached.
LEMMA MemcachedReport ==
  ASSUME NEW c \in MemcachedConfig, NEW o, Sees(MemcachedScale, o)
  PROVE  /\ Typed(MemcachedRun(c, o))
         /\ Agrees(MemcachedRun(c, o))
         /\ Fails(MemcachedRun(c, o)) <=> ~o.connected \/ ~o.replied
<1> DEFINE st == Warn(o.limit > 0 /\ c.memWarnPct > 0 /\ (o.bytes * 100) \div o.limit >= c.memWarnPct)
<1>1. st \in {"OK", "WARN"} /\ MemcachedMemoryFinding(c, o) = Say("given", Absent, st)
  BY DEF MemcachedMemoryFinding, Warn
<1> HIDE DEF st
<1> USE <1>1, Said, Added, Nothing, Fields DEF MemcachedRun, MemcachedProbe, stats,
   evictionsFinding, IfSo, Warn, Absent
<1>2. Typed(MemcachedRun(c, o))
  BY DEF Typed, Status
<1>3. Agrees(MemcachedRun(c, o))
  BY DEF Agrees
<1>4. Fails(MemcachedRun(c, o)) <=> ~o.connected \/ ~o.replied
  BY DEF Fails
<1> QED
  BY ONLY <1>2, <1>3, <1>4

\* The reports of module mysql.
LEMMA MySQLReport ==
  ASSUME NEW c \in MySQLConfig, NEW o, Sees(MySQLScale, o)
  PROVE  /\ Typed(MySQLRun(c, o))
         /\ c.named => Agrees(MySQLRun(c, o))
         /\ ~o.t1 \/ ~o.t2 \/ ~o.version => Fails(MySQLRun(c, o))
         /\ Fails(MySQLRun(c, o)) => ~o.t1 \/ ~o.t2 \/ ~o.version \/ (~o.showReplica /\ ~o.showSlave)
<1>1. PICK st \in {"OK", "WARN"} : \A t : MySQLConnectionFinding(c, t, o) = Say(MySQLLabel(c, t), "connections", st)
  <2> DEFINE w == Warn(/\ MaxConnections(o) > 0 /\ c.connWarnPct > 0
                       /\ (Connections(o) * 100) \div MaxConnections(o) >= c.connWarnPct)
  <2>1. w \in {"OK", "WARN"}
    BY DEF Warn
  <2>2. \A t : MySQLConnectionFinding(c, t, o) = Say(MySQLLabel(c, t), "connections", w)
    BY DEF MySQLConnectionFinding
  <2> QED
    BY <2>1, <2>2
<1>2. PICK level \in {"OK", "WARN", "BAD"} : \A t : replicaFinding(c, t, o) = Say(MySQLLabel(c, t), "replication", level)
  <2> DEFINE w == IF ~o.ioRunning \/ ~o.sqlRunning \/ ~o.replicating THEN "BAD"
                  ELSE Level(o.behind, c.lagWarnSeconds, c.lagCritSeconds)
  <2>1. w \in {"OK", "WARN", "BAD"}
    BY DEF Level
  <2>2. \A t : replicaFinding(c, t, o) = Say(MySQLLabel(c, t), "replication", w)
    BY DEF replicaFinding
  <2> QED
    BY <2>1, <2>2
<1> DEFINE fs == MySQLRun(c, o)
           a == MySQLProbe(c, "t1", o)
           b == MySQLProbe(c, "t2", o)
           reached(t) == o[t] /\ MySQLCollect(o)
           Here(x, t) == LET name == MySQLLabel(c, t)
                         IN  IF ~reached(t) THEN x = F(name, Absent, "ERROR")
                             ELSE \/ x = F(name, Absent, "OK") \/ x = F(name, "connections", st)
                                  \/ o.replica /\ x = F(name, "replication", level)
<1>3. \A t : IsSequence(MySQLProbe(c, t, o)) /\ \A x : x \in ToSet(MySQLProbe(c, t, o)) <=> Here(x, t)
  <2> SUFFICES ASSUME NEW t
               PROVE  IsSequence(MySQLProbe(c, t, o)) /\ \A x : x \in ToSet(MySQLProbe(c, t, o)) <=> Here(x, t)
    OBVIOUS
  <2>1. CASE ~reached(t)
    BY <2>1, Said DEF MySQLProbe
  <2>2. CASE reached(t)
    <3>1. MySQLProbe(c, t, o) = Say(MySQLLabel(c, t), Absent, "OK") \o Say(MySQLLabel(c, t), "connections", st)
                                  \o IfSo(o.replica, Say(MySQLLabel(c, t), "replication", level))
      BY <1>1, <1>2, <2>2 DEF MySQLProbe
    <3>2. /\ IsSequence(IfSo(o.replica, Say(MySQLLabel(c, t), "replication", level)))
          /\ \A x : x \in ToSet(IfSo(o.replica, Say(MySQLLabel(c, t), "replication", level)))
                      <=> o.replica /\ x = F(MySQLLabel(c, t), "replication", level)
      BY Said, Nothing DEF IfSo
    <3> QED
      BY <2>2, <3>1, <3>2, Said, Added
  <2> QED
    BY <2>1, <2>2
<1>4. fs = FlattenSeq(<<a, b>>)
  BY DEF MySQLRun, Each
<1>5. /\ IsSequence(a) /\ \A x : x \in ToSet(a) <=> Here(x, "t1")
      /\ IsSequence(b) /\ \A x : x \in ToSet(b) <=> Here(x, "t2")
  BY <1>3
<1> HIDE DEF a, b, Here, fs
<1>6. IsSequence(fs) /\ \A x : x \in ToSet(fs) <=> Here(x, "t1") \/ Here(x, "t2")
  BY <1>4, <1>5, FlattenedTwo
<1> USE <1>1, <1>2, <1>6, Fields DEF Here
<1>7. Typed(fs)
  BY DEF Typed, Status
<1>8. c.named => Agrees(fs)
  <2> SUFFICES ASSUME c.named PROVE Agrees(fs)
    OBVIOUS
  <2>1. \A t : MySQLLabel(c, t) = t
    BY DEF MySQLLabel
  <2> HIDE DEF reached
  <2>2. \A x : x \in ToSet(fs) => /\ x.target \in {"t1", "t2"}
                                  /\ reached(x.target) =>
                                       /\ x.part = Absent => x.status = "OK"
                                       /\ x.part = "connections" => x.status = st
                                       /\ x.part = "replication" => x.status = level
                                       /\ x.part \in {Absent, "connections", "replication"}
                                  /\ ~reached(x.target) => x.status = "ERROR"
    BY <2>1 DEF Absent
  <2> QED
    BY ONLY <2>2 DEF Agrees
<1>9. \A t \in {"t1", "t2"} : ~reached(t) => Fails(fs)
  BY DEF Fails
<1>10. Fails(fs) => ~reached("t1") \/ ~reached("t2")
  BY DEF Fails
<1> QED
  BY ONLY <1>7, <1>8, <1>9, <1>10 DEF fs, reached, MySQLCollect, replicaStatus

\* The reports of module s3.
LEMMA S3Report ==
  ASSUME NEW c \in S3Config, NEW o, Sees(S3Scale, o)
  PROVE  /\ Typed(S3Run(c, o))
         /\ c.named => Agrees(S3Run(c, o))
         /\ o.t1 = 0 \/ o.t2 = 0 => Fails(S3Run(c, o))
         /\ Fails(S3Run(c, o)) => o.t1 = 0 \/ o.t2 = 0 \/ o.object = 0
<1> DEFINE object == IF o.object # 200 THEN ofCode(o.object)
                     ELSE Warn(c.maxAgeWarnSeconds > 0 /\ o.age > c.maxAgeWarnSeconds)
<1>1. object \in Status /\ (object = "ERROR" => o.object = 0)
  BY DEF ofCode, Bad, Warn, Status
<1>2. \A t : S3Probe(c, t, o) = Say(S3Label(c, t), Absent, ofCode(o[t]))
                      \o IfSo(ofCode(o[t]) = "OK" /\ c.object, Say(S3Label(c, t), "object", object))
  BY DEF S3Probe
<1>3. \A n : ofCode(n) \in {"OK", "BAD", "ERROR"} /\ (ofCode(n) = "ERROR" <=> n = 0)
  BY DEF ofCode, Bad
<1> HIDE DEF object
<1> DEFINE fs == S3Run(c, o)
           a == S3Probe(c, "t1", o)
           b == S3Probe(c, "t2", o)
           looks(t) == ofCode(o[t]) = "OK" /\ c.object
           Here(x, t) == LET name == S3Label(c, t)
                         IN  x = F(name, Absent, ofCode(o[t])) \/ (looks(t) /\ x = F(name, "object", object))
<1>4. \A t : IsSequence(S3Probe(c, t, o)) /\ \A x : x \in ToSet(S3Probe(c, t, o)) <=> Here(x, t)
  <2> SUFFICES ASSUME NEW t
               PROVE  IsSequence(S3Probe(c, t, o)) /\ \A x : x \in ToSet(S3Probe(c, t, o)) <=> Here(x, t)
    OBVIOUS
  <2> DEFINE found == Say(S3Label(c, t), Absent, ofCode(o[t]))
             seen == IfSo(looks(t), Say(S3Label(c, t), "object", object))
  <2>1. /\ IsSequence(seen)
        /\ \A x : x \in ToSet(seen) <=> looks(t) /\ x = F(S3Label(c, t), "object", object)
    BY Said, Nothing DEF IfSo
  <2>2. IsSequence(found) /\ \A x : x \in ToSet(found) <=> x = F(S3Label(c, t), Absent, ofCode(o[t]))
    BY Said
  <2>3. S3Probe(c, t, o) = found \o seen
    BY <1>2
  <2> HIDE DEF found, seen, looks
  <2> QED
    BY ONLY <2>1, <2>2, <2>3, Added
<1>5. fs = FlattenSeq(<<a, b>>)
  BY DEF S3Run, Each
<1>6. /\ IsSequence(a) /\ \A x : x \in ToSet(a) <=> Here(x, "t1")
      /\ IsSequence(b) /\ \A x : x \in ToSet(b) <=> Here(x, "t2")
  BY <1>4
<1> HIDE DEF a, b, Here, fs, looks
<1>7. IsSequence(fs) /\ \A x : x \in ToSet(fs) <=> Here(x, "t1") \/ Here(x, "t2")
  BY <1>5, <1>6, FlattenedTwo
<1> USE <1>1, <1>3, <1>7, Fields DEF Here
<1>8. Typed(fs)
  BY DEF Typed, Status
<1>9. c.named => Agrees(fs)
  <2> SUFFICES ASSUME c.named PROVE Agrees(fs)
    OBVIOUS
  <2>1. \A t : S3Label(c, t) = t
    BY DEF S3Label
  <2>2. \A x : x \in ToSet(fs) => /\ x.part = Absent => x.status = ofCode(o[x.target])
                                  /\ x.part = "object" => x.status = object
                                  /\ x.part \in {Absent, "object"}
    BY <2>1 DEF Absent
  <2> QED
    BY ONLY <2>2 DEF Agrees
<1>10. \A t \in {"t1", "t2"} : o[t] = 0 => Fails(fs)
  BY DEF Fails
<1>11. Fails(fs) => o.t1 = 0 \/ o.t2 = 0 \/ o.object = 0
  BY DEF Fails
<1> QED
  BY ONLY <1>8, <1>9, <1>10, <1>11 DEF fs

\* The reports of module vault.
LEMMA VaultReport ==
  ASSUME NEW c \in VaultConfig, NEW o, Sees(VaultScale, o)
  PROVE  /\ Typed(VaultRun(c, o))
         /\ Agrees(VaultRun(c, o))
         /\ Fails(VaultRun(c, o)) <=> o.t1 = "none" \/ o.t2 = "none"
         /\ ~o.initialized \/ ~o.unsealed => IsRed(VaultRun(c, o))
<1> DEFINE st(t) == FirstOf(<<Error(o[t] = "none"), Bad(o[t] = "other" \/ ~o.initialized), Bad(~o.unsealed)>>)
<1>1. \A t : /\ st(t) \in Status
             /\ st(t) = "ERROR" <=> o[t] = "none"
             /\ ~o.initialized \/ ~o.unsealed => st(t) \in {"BAD", "ERROR"}
  BY FirstOfThree DEF Error, Bad, Status
<1>2. VaultRun(c, o) = FlattenSeq(<<Say("t1", Absent, st("t1")), Say("t2", Absent, st("t2"))>>)
  BY DEF VaultRun, Each, VaultProbe
<1> HIDE DEF st
<1>3. /\ IsSequence(VaultRun(c, o))
      /\ \A x : x \in ToSet(VaultRun(c, o)) <=> x = F("t1", Absent, st("t1")) \/ x = F("t2", Absent, st("t2"))
  BY <1>2, Said, FlattenedTwo
<1> USE <1>1, <1>3, Fields
<1>4. Typed(VaultRun(c, o))
  BY DEF Typed
<1>5. Agrees(VaultRun(c, o))
  BY DEF Agrees
<1>6. Fails(VaultRun(c, o)) <=> o.t1 = "none" \/ o.t2 = "none"
  BY DEF Fails
<1>7. ~o.initialized \/ ~o.unsealed => IsRed(VaultRun(c, o))
  BY DEF IsRed
<1> QED
  BY ONLY <1>4, <1>5, <1>6, <1>7

\* The reports of module flow.
LEMMA FlowReport ==
  ASSUME NEW c \in FlowConfig, NEW o, Sees(FlowScale, o)
  PROVE  /\ Typed(FlowRun(c, o))
         /\ c.named => Agrees(FlowRun(c, o))
         /\ ~o.f1 \/ ~o.f2 => Fails(FlowRun(c, o))
         /\ Fails(FlowRun(c, o)) => \/ ~c.caReadable \/ ~c.extract \/ (c.bodyEnv /\ ~o.bodySet)
                                    \/ ~o.f1 \/ ~o.f2 \/ ~o.answers2
         /\ o.status = "other" \/ ~o.token => IsRed(FlowRun(c, o))
<1> DEFINE Needs(f) == ~c.extract \/ (c.bodyEnv /\ ~o.bodySet) \/ ~o[f] \/ ~o.answers2
           st(f) == run(c, o, f)
<1>1. ASSUME NEW f
      PROVE  /\ ~o[f] => Steps(c, o, f).fails = "measure"
             /\ Steps(c, o, f).fails \in {"no", "measure", "expectation"}
             /\ Steps(c, o, f).fails = "measure" => Needs(f)
             /\ o.status = "other" \/ ~o.token => Steps(c, o, f).fails # "no"
  <2> DEFINE fails == Steps(c, o, f).fails
             flow == login(c, o, f, Start)
  <2>1. /\ ~o[f] => flow.fails = "measure"
        /\ o[f] /\ c.extract /\ ~o.token => flow.fails = "expectation"
        /\ o[f] /\ ~(c.extract /\ ~o.token) =>
             flow.fails = "no" /\ flow.captured = IF c.extract THEN {"token"} ELSE {}
        /\ flow = [captured |-> flow.captured, fails |-> flow.fails]
    BY DEF login, Start
  <2> HIDE DEF flow
  <2>2. use(c, o, flow).fails = IF ~("token" \in flow.captured) \/ ~stepBody(c, o) \/ ~o.answers2 THEN "measure"
          ELSE IF o.status # "expected" \/ (c.expectBody /\ ~o.body) THEN "expectation" ELSE flow.fails
    <3>1. substitute({"token"}, flow.captured) <=> "token" \in flow.captured
      BY DEF substitute
    <3>2. PICK v, w : flow = [captured |-> v, fails |-> w]
      BY <2>1
    <3>3. /\ [flow EXCEPT !.fails = "measure"].fails = "measure"
          /\ [flow EXCEPT !.fails = "expectation"].fails = "expectation"
      BY <3>2
    <3> QED
      BY <3>1, <3>3 DEF use
  <2>3. fails = IF flow.fails # "no" THEN flow.fails ELSE use(c, o, flow).fails
    BY DEF Steps, flow
  <2> HIDE DEF fails
  <2>4. /\ ~o[f] => fails = "measure"
        /\ fails \in {"no", "measure", "expectation"}
        /\ fails = "measure" => Needs(f)
        /\ o.status = "other" \/ ~o.token => fails # "no"
    BY <2>1, <2>2, <2>3 DEF stepBody
  <2> QED
    BY <2>4 DEF fails
<1> HIDE DEF Needs
<1>2. ASSUME NEW f
      PROVE  /\ st(f) \in Status
             /\ st(f) = "ERROR" <=> ~c.caReadable \/ Steps(c, o, f).fails = "measure"
             /\ Steps(c, o, f).fails # "no" => st(f) \in {"BAD", "ERROR"}
  BY <1>1, FirstOfFour DEF Error, Warn, statusFor, Status, run
<1> HIDE DEF st
<1> DEFINE fs == FlowRun(c, o)
           a == Say(flowName(c, "f1"), Absent, st("f1"))
           b == Say(flowName(c, "f2"), Absent, st("f2"))
<1>3. fs = FlattenSeq(<<a, b>>)
  BY DEF FlowRun, Each, st
<1>4. /\ IsSequence(a) /\ \A x : x \in ToSet(a) <=> x = F(flowName(c, "f1"), Absent, st("f1"))
      /\ IsSequence(b) /\ \A x : x \in ToSet(b) <=> x = F(flowName(c, "f2"), Absent, st("f2"))
  BY Said
<1> HIDE DEF a, b, fs
<1>5. IsSequence(fs) /\ \A x : x \in ToSet(fs) <=> \/ x = F(flowName(c, "f1"), Absent, st("f1"))
                                                   \/ x = F(flowName(c, "f2"), Absent, st("f2"))
  BY <1>3, <1>4, FlattenedTwo
<1>6. Typed(fs)
  BY <1>2, <1>5, Fields DEF Typed
<1>7. c.named => Agrees(fs)
  BY <1>5, Fields DEF Agrees, flowName
<1>8. ~o.f1 \/ ~o.f2 => Fails(fs)
  BY <1>1, <1>2, <1>5, Fields DEF Fails
<1>9. Fails(fs) => ~c.caReadable \/ Needs("f1") \/ Needs("f2")
  BY <1>1, <1>2, <1>5, Fields DEF Fails
<1>10. o.status = "other" \/ ~o.token => IsRed(fs)
  BY <1>1, <1>2, <1>5, Fields DEF IsRed
<1> QED
  BY ONLY <1>6, <1>7, <1>8, <1>9, <1>10 DEF fs, Needs

\* The reports of module postgres.
LEMMA PostgresReport ==
  ASSUME NEW c \in PostgresConfig, NEW o, Sees(PostgresScale, o)
  PROVE  /\ Typed(PostgresRun(c, o))
         /\ ~o.oneClient => Agrees(PostgresRun(c, o))
         /\ Fails(PostgresRun(c, o)) <=> ~o.connected \/ ~o.queried
<1> DEFINE Well3 == {"OK", "WARN", "BAD"}
           level == Level(o.age, c.wraparoundWarnAge, c.wraparoundCritAge)
<1>1. PICK st \in Well3 : wraparoundFinding(c, o) = Say("given", "wraparound", st)
  BY DEF wraparoundFinding, Level
<1>2. PICK many \in Well3 : connectionsFinding(c, o) = Say("given", "connections", many)
  BY DEF connectionsFinding, Warn
<1> DEFINE held == IF c.slotCritBytes > 0 /\ o.slot >= c.slotCritBytes THEN "BAD" ELSE "WARN"
           lagging(n) == Level(n, c.lagWarnBytes, c.lagCritBytes)
           second == IF o.oneClient THEN "r1" ELSE "r2"
<1>3. IsSequence(slotFindings(c, o)) /\ \A x : x \in ToSet(slotFindings(c, o)) => x = F("given", "slot", held)
  <2>1. slotFindings(c, o) = FlattenSeq(<<>>) \/ slotFindings(c, o) = FlattenSeq(<<Say("given", "slot", held)>>)
    BY DEF slotFindings, Each, Slots, IfSo
  <2>2. IsSequence(FlattenSeq(<<>>)) /\ \A x : x \notin ToSet(FlattenSeq(<<>>))
    BY Nothing, NothingFlattened
  <2> HIDE DEF held
  <2> QED
    BY <2>1, <2>2, Said, FlattenedOne
<1>4. /\ IsSequence(PostgresReplicaFindings(c, o))
      /\ \A x : x \in ToSet(PostgresReplicaFindings(c, o)) => \/ x = F("given", "r1", lagging(0))
                                                              \/ x = F("given", second, lagging(o.lag))
  <2> DEFINE xs == Replicas(o)
             said(r) == Say("given", r.client, lagging(r.lag))
             ss == [i \in DOMAIN xs |-> said(xs[i])]
  <2>1. IsSequence(xs) /\ \A r : r \in ToSet(xs) => \/ r = [client |-> "r1", lag |-> 0]
                                                    \/ r = [client |-> second, lag |-> o.lag]
    BY Nothing, Single, Added DEF Replicas, IfSo
  <2>2. \A i \in DOMAIN xs : ss[i] = Say("given", "r1", lagging(0)) \/ ss[i] = Say("given", second, lagging(o.lag))
    <3> HIDE DEF xs, lagging, second
    <3>1. \A i \in DOMAIN xs : xs[i] \in ToSet(xs)
      BY DEF ToSet
    <3> QED
      BY <2>1, <3>1
  <2>3. PostgresReplicaFindings(c, o) = FlattenSeq(ss)
    BY DEF PostgresReplicaFindings, Each
  <2>4. ss = [i \in DOMAIN xs |-> ss[i]]
    OBVIOUS
  <2> HIDE DEF ss, xs, lagging, second
  <2>5. \A i \in DOMAIN xs : IsSequence(ss[i])
    BY <2>2, Said
  <2>6. /\ IsSequence(FlattenSeq(ss))
        /\ \A x : x \in ToSet(FlattenSeq(ss)) <=> \E i \in DOMAIN xs : x \in ToSet(ss[i])
    BY <2>1, <2>4, <2>5, FlattenedEach
  <2> QED
    BY <2>2, <2>3, <2>6, Said
<1>5. held \in Well3 /\ \A n : lagging(n) \in Well3
  BY DEF Level
<1> HIDE DEF held, lagging
<1> DEFINE fs == PostgresRun(c, o)
<1>6. /\ IsSequence(fs)
      /\ ~o.connected \/ ~o.queried => F("given", Absent, "ERROR") \in ToSet(fs)
      /\ \A x : x \in ToSet(fs) =>
           IF o.connected /\ o.queried
           THEN \/ x = F("given", Absent, "OK") \/ x = F("given", "wraparound", st) \/ x = F("given", "connections", many)
                \/ x = F("given", "slot", held)
                \/ x = F("given", "r1", lagging(0)) \/ x = F("given", second, lagging(o.lag))
           ELSE x = F("given", Absent, "ERROR")
  <2>1. CASE o.connected /\ o.queried
    <3>1. fs = Say("given", Absent, "OK") \o Say("given", "wraparound", st) \o Say("given", "connections", many)
                 \o slotFindings(c, o) \o IfSo(~o.inRecovery, PostgresReplicaFindings(c, o))
      BY <1>1, <1>2, <2>1 DEF PostgresRun, PostgresProbe, PostgresEvaluate
    <3>2. /\ IsSequence(IfSo(~o.inRecovery, PostgresReplicaFindings(c, o)))
          /\ \A x : x \in ToSet(IfSo(~o.inRecovery, PostgresReplicaFindings(c, o))) =>
               \/ x = F("given", "r1", lagging(0)) \/ x = F("given", second, lagging(o.lag))
      BY <1>4, Nothing DEF IfSo
    <3> DEFINE a == Say("given", Absent, "OK")
               b == Say("given", "wraparound", st)
               d == Say("given", "connections", many)
               e == slotFindings(c, o)
               r == IfSo(~o.inRecovery, PostgresReplicaFindings(c, o))
    <3>3. /\ IsSequence(a) /\ IsSequence(b) /\ IsSequence(d)
          /\ \A x : x \in ToSet(a) <=> x = F("given", Absent, "OK")
          /\ \A x : x \in ToSet(b) <=> x = F("given", "wraparound", st)
          /\ \A x : x \in ToSet(d) <=> x = F("given", "connections", many)
      BY Said
    <3> HIDE DEF fs, second, a, b, d, e, r
    <3>4. IsSequence(fs) /\ \A x : x \in ToSet(fs) <=>
            x \in ToSet(a) \/ x \in ToSet(b) \/ x \in ToSet(d) \/ x \in ToSet(e) \/ x \in ToSet(r)
      <4>1. IsSequence(e) /\ IsSequence(r) /\ fs = a \o b \o d \o e \o r
        BY <1>3, <3>1, <3>2 DEF a, b, d, e, r
      <4> QED
        BY ONLY <3>3, <4>1, Added
    <3>5. \A x : x \in ToSet(e) => x = F("given", "slot", held)
      BY <1>3 DEF e
    <3>6. \A x : x \in ToSet(r) => x = F("given", "r1", lagging(0)) \/ x = F("given", second, lagging(o.lag))
      BY <3>2 DEF r
    <3> QED
      BY ONLY <2>1, <3>3, <3>4, <3>5, <3>6
  <2>2. CASE ~(o.connected /\ o.queried)
    BY <2>2, Said DEF PostgresRun, PostgresProbe
  <2> QED
    BY <2>1, <2>2
<1> HIDE DEF fs
<1>7. Typed(fs)
  BY <1>5, <1>6, Fields DEF Typed, Status
<1>8. ~o.oneClient => Agrees(fs)
  <2> SUFFICES ASSUME ~o.oneClient PROVE Agrees(fs)
    OBVIOUS
  <2>1. CASE o.connected /\ o.queried
    <3>1. \A x : x \in ToSet(fs) => /\ x.part = Absent => x.status = "OK"
                                    /\ x.part = "wraparound" => x.status = st
                                    /\ x.part = "connections" => x.status = many
                                    /\ x.part = "slot" => x.status = held
                                    /\ x.part = "r1" => x.status = lagging(0)
                                    /\ x.part = "r2" => x.status = lagging(o.lag)
                                    /\ x.part \in {Absent, "wraparound", "connections", "slot", "r1", "r2"}
      BY <1>6, <2>1, Fields DEF Absent
    <3> QED
      BY ONLY <3>1 DEF Agrees
  <2>2. CASE ~(o.connected /\ o.queried)
    BY <1>6, <2>2, Fields DEF Agrees
  <2> QED
    BY <2>1, <2>2
<1>9. Fails(fs) <=> ~o.connected \/ ~o.queried
  BY <1>5, <1>6, Fields DEF Fails
<1> QED
  BY ONLY <1>7, <1>8, <1>9 DEF fs

\* The reports of module dns.
LEMMA DnsReport ==
  ASSUME NEW c \in DnsConfig, NEW o, Sees(DnsScale, o)
  PROVE  /\ Typed(DnsRun(c, o))
         /\ Agrees(DnsRun(c, o))
         /\ Fails(DnsRun(c, o)) => ~c.supported \/ ~c.asked \/ (o.r1 = {"fails"} /\ o.r2 = {"fails"})
<1>1. PICK st \in {"OK", "BAD"} : resolutionFinding(c, o) = Say("given", Absent, st)
  BY DEF resolutionFinding, Bad
<1>2. PICK two \in BOOLEAN : consistencyFinding(o) = IfSo(two, Say("given", "consistency", "WARN"))
  BY DEF consistencyFinding, IfSo
<1>3. PICK short \in {"OK", "WARN"}, b \in BOOLEAN : ttlFinding(c, o) = IfSo(b, Say("given", "ttl", short))
  BY DEF ttlFinding, Warn, IfSo
<1>4. Answered(o) = <<>> => o.r1 = {"fails"} /\ o.r2 = {"fails"}
  <2> SUFFICES ASSUME Answered(o) = <<>>, NEW i \in DOMAIN resolvers, o[resolvers[i]] # {"fails"} PROVE FALSE
    <3>1. 1 \in DOMAIN resolvers /\ 2 \in DOMAIN resolvers /\ resolvers[1] = "r1" /\ resolvers[2] = "r2"
      BY DEF resolvers
    <3> QED
      BY <3>1
  <2> DEFINE P == {k \in DOMAIN resolvers : o[resolvers[k]] # {"fails"}}
  <2>1. i \in P /\ P \in SUBSET DOMAIN resolvers
    OBVIOUS
  <2>2. IsList(resolvers)
    BY DEF resolvers, IsList
  <2>3. Answered(o) = Pick(resolvers, P)
    BY DEF Answered, Only
  <2> HIDE DEF P
  <2>4. ToSet(Pick(resolvers, P)) = {resolvers[k] : k \in P}
    BY ONLY <2>1, <2>2, PickedList
  <2> QED
    BY <2>1, <2>3, <2>4, Nothing
<1> USE <1>1, <1>2, <1>3, <1>4, Said, Added, Nothing, Fields DEF DnsRun, DnsProbe, IfSo, Absent
<1>5. Typed(DnsRun(c, o))
  BY DEF Typed, Status
<1>6. Agrees(DnsRun(c, o))
  BY DEF Agrees
<1>7. Fails(DnsRun(c, o)) => ~c.supported \/ ~c.asked \/ (o.r1 = {"fails"} /\ o.r2 = {"fails"})
  BY DEF Fails
<1> QED
  BY ONLY <1>5, <1>6, <1>7

\* The reports of module elasticsearch.
LEMMA ElasticsearchReport ==
  ASSUME NEW c \in ElasticsearchConfig, NEW o, Sees(ElasticsearchScale, o)
  PROVE  /\ Typed(ElasticsearchRun(c, o))
         /\ Agrees(ElasticsearchRun(c, o))
         /\ ~o.health => Fails(ElasticsearchRun(c, o))
         /\ Fails(ElasticsearchRun(c, o)) => ~c.caReadable \/ ~o.health \/ o.status = "other" \/ ~o.allocation
<1> DEFINE full(pct) == IF pct >= DiskCritPct THEN "BAD" ELSE Warn(pct >= DiskWarnPct)
<1>1. \A n : full(n) \in {"OK", "WARN", "BAD"}
  BY DEF Warn
<1> DEFINE a == full(0)
           b == full(o.disk)
           disks == [i \in DOMAIN Rows(o) |->
                      IfSo(Rows(o)[i].node # Absent, Say("given", Rows(o)[i].node, full(Rows(o)[i].pct)))]
           each == FlattenSeq(disks)
<1>2. IsSequence(Rows(o)) /\ \A r : r \in ToSet(Rows(o)) =>
         r = [node |-> "e1", pct |-> 0] \/ r = [node |-> "e2", pct |-> o.disk] \/ r = [node |-> Absent, pct |-> 0]
  <2>1. \A r : IsSequence(<<r>>) /\ ToSet(<<r>>) = {r}
    BY Single
  <2> QED
    BY <2>1, Nothing, Added DEF Rows, IfSo
<1>3. \A i \in DOMAIN Rows(o) :
         disks[i] = Say("given", "e1", a) \/ disks[i] = Say("given", "e2", b) \/ disks[i] = <<>>
  <2> SUFFICES ASSUME NEW i \in DOMAIN Rows(o)
               PROVE  disks[i] = Say("given", "e1", a) \/ disks[i] = Say("given", "e2", b) \/ disks[i] = <<>>
    OBVIOUS
  <2>1. Rows(o)[i] \in ToSet(Rows(o))
    BY DEF ToSet
  <2>2. disks[i] = IfSo(Rows(o)[i].node # Absent, Say("given", Rows(o)[i].node, full(Rows(o)[i].pct)))
    OBVIOUS
  <2> HIDE DEF disks, full
  <2> QED
    BY <1>2, <2>1, <2>2 DEF IfSo
<1>4. IsSequence(each) /\ \A x : x \in ToSet(each) => x = F("given", "e1", a) \/ x = F("given", "e2", b)
  <2>1. disks = [i \in DOMAIN Rows(o) |-> disks[i]]
    OBVIOUS
  <2> HIDE DEF disks, full, a, b
  <2>2. \A i \in DOMAIN Rows(o) : IsSequence(disks[i])
    BY <1>3, Said, Nothing
  <2>3. IsSequence(each) /\ \A x : x \in ToSet(each) <=> \E i \in DOMAIN Rows(o) : x \in ToSet(disks[i])
    BY <1>2, <2>1, <2>2, FlattenedEach
  <2> QED
    BY <1>3, <2>3, Said, Nothing
<1>5. diskFindings(c, o) = IF ~get(c, o.allocation) THEN Say("given", "disk", "ERROR") ELSE each
  BY DEF diskFindings, Each
<1>6. a \in {"OK", "WARN", "BAD"} /\ b \in {"OK", "WARN", "BAD"}
  BY <1>1
<1> HIDE DEF a, b, each
<1> DEFINE st == StatusOf(o.status)
<1>7. st \in Status /\ (st = "ERROR" => o.status = "other")
  BY DEF StatusOf, Status, Sees, ElasticsearchScale, ToSet
<1>8. ElasticsearchProbe(c, o) = IF ~get(c, o.health) THEN Say("given", Absent, "ERROR")
       ELSE Say("given", Absent, st) \o IfSo(c.expectNodes > 0 /\ o.nodes < c.expectNodes, Say("given", "nodes", "BAD"))
              \o diskFindings(c, o)
  BY DEF ElasticsearchProbe
<1> HIDE DEF st
<1> USE <1>4, <1>5, <1>6, <1>7, <1>8, Said, Added, Nothing, Fields DEF ElasticsearchRun, IfSo,
   Absent, get
<1>9. Typed(ElasticsearchRun(c, o))
  BY DEF Typed, Status
<1>10. Agrees(ElasticsearchRun(c, o))
  BY DEF Agrees
<1>11. ~o.health => Fails(ElasticsearchRun(c, o))
  BY DEF Fails
<1>12. Fails(ElasticsearchRun(c, o)) => ~c.caReadable \/ ~o.health \/ o.status = "other" \/ ~o.allocation
  BY DEF Fails
<1> QED
  BY ONLY <1>9, <1>10, <1>11, <1>12

\* The reports of module mediamtx.
LEMMA MediaMTXReport ==
  ASSUME NEW c \in MediaMTXConfig, NEW o, Sees(MediaMTXScale, o)
  PROVE  /\ Typed(MediaMTXRun(c, o))
         /\ Agrees(MediaMTXRun(c, o))
         /\ ~o.page1 => Fails(MediaMTXRun(c, o))
         /\ Fails(MediaMTXRun(c, o)) => ~c.caReadable \/ ~o.page1 \/ ~o.page2
<1>1. PICK st \in {"OK", "WARN"} : st = Warn(c.maxLatencyMS > 0 /\ o.latency > c.maxLatencyMS)
  BY DEF Warn
<1>2. IsSequence(Names(c, o)) /\ \A i \in DOMAIN Names(c, o) : Names(c, o)[i] \in {"p1", "p2"}
  <2>1. CASE c.expectPaths # <<>>
    <3>1. Names(c, o) = <<"p1", "p2">>
      BY <2>1 DEF Names, MediaMTXConfig
    <3>2. <<"p1", "p2">> \in Seq({"p1", "p2"})
      OBVIOUS
    <3> HIDE DEF Names
    <3>3. Names(c, o) \in Seq({"p1", "p2"})
      BY <3>1, <3>2
    <3>4. IsSequence(Names(c, o)) /\ ToSet(Names(c, o)) \subseteq {"p1", "p2"}
      BY <3>3, SequenceOf
    <3> QED
      BY <3>4 DEF ToSet
  <2>2. CASE c.expectPaths = <<>>
    <3>1. \A p : IsSequence(<<p>>) /\ ToSet(<<p>>) = {p}
      BY Single
    <3>2. IsSequence(paths(o)) /\ \A p : p \in ToSet(paths(o)) => p.name \in {"p1", "p2"}
      BY <3>1, Nothing, Added DEF paths, Page, Path, IfSo
    <3>3. Names(c, o) = [i \in DOMAIN paths(o) |-> paths(o)[i].name]
      BY <2>2 DEF Names
    <3>4. \A i \in DOMAIN paths(o) : paths(o)[i].name \in {"p1", "p2"}
      BY <3>2 DEF ToSet
    <3>5. Len(paths(o)) \in Nat /\ DOMAIN paths(o) = 1 .. Len(paths(o))
      BY <3>2 DEF IsSequence
    <3>6. Names(c, o) \in [1 .. Len(paths(o)) -> {"p1", "p2"}]
      BY <3>3, <3>4, <3>5
    <3>7. Names(c, o) \in Seq({"p1", "p2"})
      BY <3>5, <3>6
    <3>8. IsSequence(Names(c, o)) /\ ToSet(Names(c, o)) \subseteq {"p1", "p2"}
      BY <3>7, SequenceOf
    <3> QED
      BY <3>8 DEF ToSet
  <2> QED
    BY <2>1, <2>2
<1> DEFINE ss == [i \in DOMAIN Names(c, o) |-> pathFinding(c, o, Names(c, o)[i])]
           each == FlattenSeq(ss)
<1>3. \A name : \E s \in {"OK", "WARN", "BAD"} : pathFinding(c, o, name) = Say(name, Absent, s)
  BY DEF pathFinding, Warn
<1>4. PICK s1 \in {"OK", "WARN", "BAD"} : pathFinding(c, o, "p1") = Say("p1", Absent, s1)
  BY <1>3
<1>5. PICK s2 \in {"OK", "WARN", "BAD"} : pathFinding(c, o, "p2") = Say("p2", Absent, s2)
  BY <1>3
<1>6. \A i \in DOMAIN Names(c, o) : ss[i] = Say("p1", Absent, s1) \/ ss[i] = Say("p2", Absent, s2)
  BY <1>2, <1>4, <1>5
<1>7. IsSequence(each) /\ \A x : x \in ToSet(each) => x = F("p1", Absent, s1) \/ x = F("p2", Absent, s2)
  <2>1. ss = [i \in DOMAIN Names(c, o) |-> ss[i]]
    OBVIOUS
  <2> HIDE DEF ss
  <2>2. \A i \in DOMAIN Names(c, o) : IsSequence(ss[i])
    BY <1>6, Said
  <2>3. IsSequence(each) /\ \A x : x \in ToSet(each) <=> \E i \in DOMAIN Names(c, o) : x \in ToSet(ss[i])
    BY <1>2, <2>1, <2>2, FlattenedEach
  <2> QED
    BY <1>6, <2>3, Said
<1>8. MediaMTXProbe(c, o) = IF ~c.caReadable \/ ~Fetched(o) THEN Say("given", Absent, "ERROR")
                            ELSE Say("given", Absent, st) \o each
  BY <1>1 DEF MediaMTXProbe, Each
<1> HIDE DEF each, ss
<1> USE <1>1, <1>7, <1>8, Said, Added, Nothing, Fields DEF MediaMTXRun, Fetched
<1>9. Typed(MediaMTXRun(c, o))
  BY DEF Typed, Status
<1>10. Agrees(MediaMTXRun(c, o))
  <2>1. \/ \A x : x \in ToSet(MediaMTXRun(c, o)) => x = F("given", Absent, "ERROR")
        \/ \A x : x \in ToSet(MediaMTXRun(c, o)) =>
              x = F("given", Absent, st) \/ x = F("p1", Absent, s1) \/ x = F("p2", Absent, s2)
    OBVIOUS
  <2> QED
    BY ONLY <2>1, Fields DEF Agrees
<1>11. ~o.page1 => Fails(MediaMTXRun(c, o))
  BY DEF Fails
<1>12. Fails(MediaMTXRun(c, o)) => ~c.caReadable \/ ~o.page1 \/ ~o.page2
  BY DEF Fails
<1> QED
  BY ONLY <1>9, <1>10, <1>11, <1>12

\* The reports of module mongodb.
LEMMA MongoDBReport ==
  ASSUME NEW c \in MongoDBConfig, NEW o, Sees(MongoDBScale, o)
  PROVE  /\ Typed(MongoDBRun(c, o))
         /\ Agrees(MongoDBRun(c, o))
         /\ Fails(MongoDBRun(c, o)) <=> ~o.connected \/ ~o.serverStatus \/ ~o.replStatus
         /\ ~o.standalone /\ ~o.primary => IsRed(MongoDBRun(c, o))
<1>1. PICK many \in {"OK", "WARN"} : MongoDBConnectionFinding(c, o) = Say("given", "connections", many)
  BY DEF MongoDBConnectionFinding, Warn
<1>2. \A m : MemberStatus(c, o, m) \in {"OK", "WARN", "BAD"}
  BY DEF MemberStatus, Level
<1> DEFINE m1 == [name |-> "m1", health |-> o.primary, state |-> "PRIMARY", behind |-> 0]
           m2 == [name |-> "m2", health |-> o.secondary, behind |-> o.behind,
                  state |-> IF o.behind = TooStale THEN "RECOVERING" ELSE "SECONDARY"]
           a == MemberStatus(c, o, m1)
           b == MemberStatus(c, o, m2)
           each == FlattenSeq(<<Say("given", "m1", a), Say("given", "m2", b)>>)
           lost == IfSo(~primaryPresent(o), Say("given", "primary", "BAD"))
<1>3. MongoDBReplicaFindings(c, o) = lost \o each
  <2>1. MongoDBMembers(o) = <<m1, m2>> /\ m1.name = "m1" /\ m2.name = "m2"
    BY DEF MongoDBMembers
  <2> HIDE DEF m1, m2
  <2>2. [i \in DOMAIN <<m1, m2>> |-> Say("given", <<m1, m2>>[i].name, MemberStatus(c, o, <<m1, m2>>[i]))]
        = <<Say("given", "m1", a), Say("given", "m2", b)>>
    BY <2>1
  <2> QED
    BY <2>1, <2>2 DEF MongoDBReplicaFindings, Each
<1>4. a \in {"OK", "WARN", "BAD"} /\ b \in {"OK", "WARN", "BAD"}
  BY <1>2
<1> HIDE DEF a, b
<1>5. IsSequence(each) /\ \A x : x \in ToSet(each) <=> x = F("given", "m1", a) \/ x = F("given", "m2", b)
  BY Said, FlattenedTwo
<1> HIDE DEF each
<1>6. IsSequence(lost) /\ \A x : x \in ToSet(lost) => x = F("given", "primary", "BAD")
  BY Said, Nothing DEF IfSo
<1>61. ~o.primary => F("given", "primary", "BAD") \in ToSet(lost)
  <2>1. MongoDBMembers(o) = <<m1, m2>> /\ m1.health = o.primary /\ m2.state # "PRIMARY"
    BY DEF MongoDBMembers
  <2> HIDE DEF m1, m2
  <2>2. \A i \in DOMAIN <<m1, m2>> : <<m1, m2>>[i] = m1 \/ <<m1, m2>>[i] = m2
    OBVIOUS
  <2>3. ~o.primary => ~primaryPresent(o)
    BY <2>1, <2>2 DEF primaryPresent
  <2> QED
    BY <2>3, Said DEF IfSo
<1> HIDE DEF lost
<1> DEFINE replica == MongoDBReplicaFindings(c, o)
<1>65. IsSequence(replica) /\ \A x : x \in ToSet(replica) =>
          x = F("given", "primary", "BAD") \/ x = F("given", "m1", a) \/ x = F("given", "m2", b)
  BY <1>3, <1>5, <1>6, Added
<1>67. ~o.primary => F("given", "primary", "BAD") \in ToSet(replica)
  BY <1>3, <1>5, <1>6, <1>61, Added
<1>66. MongoDBRun(c, o) = IF ~o.connected \/ ~MongoDBCollect(o) THEN Say("given", Absent, "ERROR")
         ELSE Say("given", Absent, "OK") \o Say("given", "connections", many) \o IfSo(~o.standalone, replica)
  BY <1>1 DEF MongoDBRun, MongoDBProbe
<1> HIDE DEF replica
<1> USE <1>1, <1>4, <1>65, <1>66, Said, Added, Nothing, Fields DEF MongoDBCollect, IfSo, Absent
<1>7. Typed(MongoDBRun(c, o))
  <2>1. IsSequence(MongoDBRun(c, o))
    OBVIOUS
  <2>2. \A x : x \in ToSet(MongoDBRun(c, o)) =>
               \/ x = F("given", Absent, "ERROR") \/ x = F("given", Absent, "OK") \/ x = F("given", "connections", many)
               \/ x = F("given", "primary", "BAD") \/ x = F("given", "m1", a) \/ x = F("given", "m2", b)
    OBVIOUS
  <2> QED
    BY ONLY <1>1, <1>4, <2>1, <2>2, Fields DEF Typed, Status
<1>8. Agrees(MongoDBRun(c, o))
  BY DEF Agrees
<1>9. Fails(MongoDBRun(c, o)) <=> ~o.connected \/ ~o.serverStatus \/ ~o.replStatus
  BY DEF Fails
<1>10. ~o.standalone /\ ~o.primary => IsRed(MongoDBRun(c, o))
  BY <1>67 DEF IsRed
<1> QED
  BY ONLY <1>7, <1>8, <1>9, <1>10

\* The reports of module smtp.
LEMMA SmtpReport ==
  ASSUME NEW c \in SmtpConfig, NEW o, Sees(SmtpScale, o)
  PROVE  /\ Typed(SmtpRun(c, o))
         /\ Agrees(SmtpRun(c, o))
         /\ o.failsAt = "dial" => Fails(SmtpRun(c, o))
         /\ Fails(SmtpRun(c, o)) => ~c.caReadable \/ o.failsAt # "nothing"
         /\ o.greeting = 554 \/ o.ehlo = 502 => IsRed(SmtpRun(c, o))
<1> DEFINE unsecured == ~c.caReadable \/ o.failsAt = "handshake"
           ss == <<
             Error(o.failsAt = "dial"),
             Error(c.tls /\ unsecured),
             Error(o.failsAt = "greeting"),
             Bad(o.greeting # 220),
             Bad(c.expectBanner /\ ~o.banner),
             Error(o.failsAt = "ehlo"),
             Bad(o.ehlo # 250),
             Bad(Upgrades(c) /\ ~o.offersStartTLS),
             Bad(Upgrades(c) /\ o.startTLS # 220),
             Error(Upgrades(c) /\ unsecured),
             certificate(c, o),
             Warn(c.maxLatencyMS > 0 /\ o.latency > c.maxLatencyMS)>>
           st == FirstOf(ss)
<1>1. 12 \in Nat /\ DOMAIN ss = 1 .. 12
  OBVIOUS
<1>2. /\ ss[1] = Error(o.failsAt = "dial") /\ ss[2] = Error(c.tls /\ unsecured)
      /\ ss[3] = Error(o.failsAt = "greeting") /\ ss[4] = Bad(o.greeting # 220)
      /\ ss[5] = Bad(c.expectBanner /\ ~o.banner) /\ ss[6] = Error(o.failsAt = "ehlo")
      /\ ss[7] = Bad(o.ehlo # 250) /\ ss[8] = Bad(Upgrades(c) /\ ~o.offersStartTLS)
      /\ ss[9] = Bad(Upgrades(c) /\ o.startTLS # 220) /\ ss[10] = Error(Upgrades(c) /\ unsecured)
      /\ ss[11] = certificate(c, o)
      /\ ss[12] = Warn(c.maxLatencyMS > 0 /\ o.latency > c.maxLatencyMS)
  OBVIOUS
<1>3. /\ ss[4] = IF o.greeting # 220 THEN "BAD" ELSE "OK"
      /\ ss[7] = IF o.ehlo # 250 THEN "BAD" ELSE "OK"
      /\ ss[1] = IF o.failsAt = "dial" THEN "ERROR" ELSE "OK"
  BY <1>2 DEF Bad, Error
<1>4. /\ ss[1] \in {"OK", "ERROR"} /\ ss[2] \in {"OK", "ERROR"} /\ ss[3] \in {"OK", "ERROR"}
      /\ ss[4] \in {"OK", "BAD"} /\ ss[5] \in {"OK", "BAD"} /\ ss[6] \in {"OK", "ERROR"}
      /\ ss[7] \in {"OK", "BAD"} /\ ss[8] \in {"OK", "BAD"} /\ ss[9] \in {"OK", "BAD"}
      /\ ss[10] \in {"OK", "ERROR"} /\ ss[11] \in {"OK", "WARN", "BAD"} /\ ss[12] \in {"OK", "WARN"}
  BY <1>2 DEF Bad, Error, Warn, certificate
<1>5. o.failsAt = "nothing" /\ c.caReadable =>
        ss[1] = "OK" /\ ss[2] = "OK" /\ ss[3] = "OK" /\ ss[6] = "OK" /\ ss[10] = "OK"
  BY <1>2 DEF Error
<1>6. \A i : i \in 1 .. 12 => \/ i = 1 \/ i = 2 \/ i = 3 \/ i = 4 \/ i = 5 \/ i = 6
                              \/ i = 7 \/ i = 8 \/ i = 9 \/ i = 10 \/ i = 11 \/ i = 12
  OBVIOUS
<1>7. SmtpRun(c, o) = Say("given", Absent, st)
  BY DEF SmtpRun, SmtpProbe
<1> HIDE DEF ss, unsecured
<1>8. \/ (\A i \in 1 .. 12 : ss[i] = "OK") /\ st = "OK"
      \/ \E i \in 1 .. 12 : Leads(ss, i) /\ st = ss[i]
  BY <1>1, FirstOfSome
<1> HIDE DEF st
<1>9. st \in Status
  BY <1>4, <1>6, <1>8 DEF Status
<1>10. st = "ERROR" => ~c.caReadable \/ o.failsAt # "nothing"
  BY <1>4, <1>5, <1>6, <1>8
<1>11. o.failsAt = "dial" => st = "ERROR"
  <2> SUFFICES ASSUME o.failsAt = "dial" PROVE st = "ERROR"
    OBVIOUS
  <2>1. ss[1] = "ERROR" /\ 1 \in 1 .. 12
    BY <1>3
  <2>2. PICK i \in 1 .. 12 : Leads(ss, i) /\ st = ss[i]
    BY <1>8, <2>1
  <2>3. i = 1
    <3>1. i # 1 => 1 \in 1 .. i - 1
      OBVIOUS
    <3> QED
      BY <2>1, <2>2, <3>1 DEF Leads
  <2> QED
    BY <2>1, <2>2, <2>3
<1>12. o.greeting = 554 \/ o.ehlo = 502 => st \in {"BAD", "ERROR"}
  <2> SUFFICES ASSUME o.greeting = 554 \/ o.ehlo = 502 PROVE st \in {"BAD", "ERROR"}
    OBVIOUS
  <2>1. PICK k \in 1 .. 7 : ss[k] = "BAD"
    BY <1>3
  <2>2. k \in 1 .. 12 /\ k \in Int /\ k <= 7
    OBVIOUS
  <2>3. PICK i \in 1 .. 12 : Leads(ss, i) /\ st = ss[i]
    BY <1>8, <2>1, <2>2
  <2>4. i <= 7
    <3>1. ~(i <= 7) => k \in 1 .. i - 1
      BY <2>2
    <3> QED
      BY <2>1, <2>3, <3>1 DEF Leads
  <2>5. i = 1 \/ i = 2 \/ i = 3 \/ i = 4 \/ i = 5 \/ i = 6 \/ i = 7
    BY <2>4
  <2> QED
    BY <1>4, <2>3, <2>5 DEF Leads
<1> USE <1>7, <1>9, <1>10, <1>11, <1>12, Said, Fields
<1>13. Typed(SmtpRun(c, o))
  BY DEF Typed
<1>14. Agrees(SmtpRun(c, o))
  BY DEF Agrees
<1>15. o.failsAt = "dial" => Fails(SmtpRun(c, o))
  BY DEF Fails
<1>16. Fails(SmtpRun(c, o)) => ~c.caReadable \/ o.failsAt # "nothing"
  BY DEF Fails
<1>17. o.greeting = 554 \/ o.ehlo = 502 => IsRed(SmtpRun(c, o))
  BY DEF IsRed
<1> QED
  BY ONLY <1>13, <1>14, <1>15, <1>16, <1>17

\* The reports of module stream.
LEMMA StreamReport ==
  ASSUME NEW c \in StreamConfig, NEW o, Sees(StreamScale, o)
  PROVE  /\ Typed(StreamRun(c, o))
         /\ Agrees(StreamRun(c, o))
         /\ Fails(StreamRun(c, o)) <=> ~o.reachable
         /\ ~o.valid => IsRed(StreamRun(c, o))
<1> DEFINE Three(st, ladder, edge, a, b) ==
             (Say("given", Absent, st) \o IfSo(a, Say("given", "ladder", ladder)))
               \o IfSo(b, Say("given", "live-edge", edge))
           Said3(fs) == \E st, ladder, edge \in {"OK", "WARN", "BAD"}, a, b \in BOOLEAN :
                          fs = Three(st, ladder, edge, a, b)
           top == StreamFetch(o, "top")
           pl == parseM3U8(top)
           lines == StreamFetch(o, topVariant(pl.variants).uri)
<1>0. \A st, ladder, edge \in {"OK", "WARN", "BAD"}, a, b \in BOOLEAN :
        Said3(Three(st, ladder, edge, a, b))
  <2> HIDE DEF Three
  <2> QED
    OBVIOUS
<1>1. \A n : Fresh(c, n) \in {"OK", "WARN", "BAD"}
  BY DEF Fresh, Level
<1>2. \A n : \E a \in BOOLEAN, s \in {"OK", "WARN", "BAD"} : ladderFinding(c, n) = IfSo(a, Say("given", "ladder", s))
  BY DEF ladderFinding, IfSo, Warn
<1>3. \A p : \E s \in {"OK", "WARN", "BAD"} : liveEdgeFinding(c, p) = Say("given", "live-edge", s)
  BY <1>1 DEF liveEdgeFinding
<1> HIDE DEF pl, lines
<1>4. \E a \in BOOLEAN, s \in {"OK", "WARN", "BAD"} :
        masterFindings(c, o, pl) = (Say("given", Absent, "OK") \o ladderFinding(c, Len(pl.variants)))
                                     \o IfSo(a, Say("given", "live-edge", s))
  BY <1>3 DEF masterFindings, IfSo, lines
<1>5. Said3(masterFindings(c, o, pl))
  <2>1. PICK a \in BOOLEAN, s \in {"OK", "WARN", "BAD"} :
          masterFindings(c, o, pl) = (Say("given", Absent, "OK") \o ladderFinding(c, Len(pl.variants)))
                                       \o IfSo(a, Say("given", "live-edge", s))
    BY ONLY <1>4
  <2>2. PICK b \in BOOLEAN, r \in {"OK", "WARN", "BAD"} :
          ladderFinding(c, Len(pl.variants)) = IfSo(b, Say("given", "ladder", r))
    BY ONLY <1>2
  <2>3. masterFindings(c, o, pl) = (Say("given", Absent, "OK") \o IfSo(b, Say("given", "ladder", r)))
                                     \o IfSo(a, Say("given", "live-edge", s))
    BY ONLY <2>1, <2>2
  <2>4. "OK" \in {"OK", "WARN", "BAD"}
    OBVIOUS
  <2> HIDE DEF Said3
  <2> QED
    BY ONLY <1>0, <2>3, <2>4, b \in BOOLEAN, r \in {"OK", "WARN", "BAD"},
            a \in BOOLEAN, s \in {"OK", "WARN", "BAD"}
<1>6. \A s : (Say("given", Absent, s) \o <<>>) = Say("given", Absent, s)
  BY DEF Say
<1>7. Said3(Say("given", Absent, "OK") \o IfSo(c.live, liveEdgeFinding(c, pl)))
  BY <1>3, <1>6 DEF IfSo
<1>8. Said3(Say("given", Absent, "BAD"))
  BY <1>6 DEF IfSo
<1>9. Said3(probeHLS(c, o))
  <2> HIDE DEF Said3
  <2> QED
    BY <1>5, <1>7, <1>8 DEF probeHLS, pl
<1>10. Said3(probeDASH(c, o))
  <2>1. PICK a \in BOOLEAN, s \in {"OK", "WARN", "BAD"} : ladderFinding(c, o.variants) = IfSo(a, Say("given", "ladder", s))
    BY <1>2
  <2>2. PICK edge \in {"OK", "WARN", "BAD"} : edge = IF ~o.onAir \/ ~o.dated THEN "WARN" ELSE Fresh(c, o.age)
    BY <1>1
  <2>3. c.live \in BOOLEAN
    BY DEF StreamConfig
  <2>4. Said3((Say("given", Absent, "OK") \o IfSo(a, Say("given", "ladder", s))) \o IfSo(c.live, Say("given", "live-edge", edge)))
    <3>1. "OK" \in {"OK", "WARN", "BAD"}
      OBVIOUS
    <3> HIDE DEF Said3
    <3> QED
      BY ONLY <1>0, <2>3, <3>1, a \in BOOLEAN, s \in {"OK", "WARN", "BAD"}, edge \in {"OK",
         "WARN", "BAD"}
  <2> HIDE DEF Said3
  <2> QED
    BY <1>8, <2>1, <2>2, <2>4 DEF probeDASH
<1> HIDE DEF Said3, top
<1>11. \/ o.reachable /\ Said3(StreamRun(c, o))
       \/ ~o.reachable /\ StreamRun(c, o) = Say("given", Absent, "ERROR")
  BY <1>9, <1>10 DEF StreamRun, StreamProbe
<1>12. o.reachable /\ ~o.valid => StreamRun(c, o) = Say("given", Absent, "BAD")
  <2>1. ~o.valid => top = Line("html", 0)
    BY DEF StreamFetch, top
  <2>2. Line("html", 0)[1].tag = "html"
    BY DEF Line
  <2>3. ~o.valid => ~Parses(top)
    BY <2>1, <2>2 DEF Parses
  <2> QED
    BY <2>3 DEF StreamRun, StreamProbe, probeHLS, probeDASH, top
<1>13. Said3(StreamRun(c, o)) => Typed(StreamRun(c, o)) /\ Agrees(StreamRun(c, o)) /\ ~Fails(StreamRun(c, o))
  <2> SUFFICES ASSUME Said3(StreamRun(c, o))
               PROVE  Typed(StreamRun(c, o)) /\ Agrees(StreamRun(c, o)) /\ ~Fails(StreamRun(c, o))
    OBVIOUS
  <2>0. PICK st, ladder, edge \in {"OK", "WARN", "BAD"}, a, b \in BOOLEAN :
          StreamRun(c, o) = (Say("given", Absent, st) \o IfSo(a, Say("given", "ladder", ladder)))
                               \o IfSo(b, Say("given", "live-edge", edge))
    BY DEF Said3
  <2> USE <2>0
  <2> USE Said, Added, Nothing, Fields DEF IfSo, Absent
  <2>1. Typed(StreamRun(c, o))
    BY DEF Typed, Status
  <2>2. Agrees(StreamRun(c, o))
    BY DEF Agrees
  <2>3. ~Fails(StreamRun(c, o))
    BY DEF Fails
  <2> QED
    BY ONLY <2>1, <2>2, <2>3
<1>14. ~o.reachable => Typed(StreamRun(c, o)) /\ Agrees(StreamRun(c, o)) /\ Fails(StreamRun(c, o))
  BY <1>11, Said, Fields DEF Typed, Agrees, Fails, Status
<1>15. ~o.valid => IsRed(StreamRun(c, o))
  BY <1>11, <1>12, Said, Fields DEF IsRed
<1> QED
  BY ONLY <1>11, <1>13, <1>14, <1>15

\* The targets that do not answer.
LEMMA Unanswered ==
  ASSUME NEW o, o.resolved \in BOOLEAN
  PROVE  /\ IsSequence(ConsulUnreachable(o))
         /\ PatroniUnreachable(o) = ConsulUnreachable(o)
         /\ \A x : x \in ToSet(ConsulUnreachable(o)) <=> \/ ~o.given /\ x = F("given", Absent, "ERROR")
                                                         \/ ~o.found /\ x = F("found", Absent, "ERROR")
         /\ (\E i \in DOMAIN Targets(o) : o[Targets(o)[i]]) <=> o.given \/ o.found
<1> DEFINE a == IfSo(~o.given, Say("given", Absent, "ERROR"))
           b == IfSo(~o.found, Say("found", Absent, "ERROR"))
           ss == [i \in DOMAIN Targets(o) |-> IfSo(~o[Targets(o)[i]], Say(Targets(o)[i], Absent, "ERROR"))]
<1>1. ConsulUnreachable(o) = FlattenSeq(ss) /\ PatroniUnreachable(o) = FlattenSeq(ss)
  BY DEF ConsulUnreachable, PatroniUnreachable, Each
<1>2. /\ ss = [i \in DOMAIN Targets(o) |-> ss[i]]
      /\ \A i \in DOMAIN Targets(o) : /\ Targets(o)[i] = "given" => ss[i] = a
                                      /\ Targets(o)[i] = "found" => ss[i] = b
  OBVIOUS
<1>3. /\ IsSequence(a) /\ \A x : x \in ToSet(a) <=> ~o.given /\ x = F("given", Absent, "ERROR")
      /\ IsSequence(b) /\ \A x : x \in ToSet(b) <=> ~o.found /\ x = F("found", Absent, "ERROR")
  BY Said, Nothing DEF IfSo
<1> HIDE DEF a, b, ss
<1>4. /\ IsSequence(ConsulUnreachable(o))
      /\ \A x : x \in ToSet(ConsulUnreachable(o)) <=> x \in ToSet(a) \/ x \in ToSet(b)
  BY <1>1, <1>2, <1>3, OfTargets
<1>5. (\E i \in DOMAIN Targets(o) : o[Targets(o)[i]]) <=> o.given \/ o.found
  BY GivenAndFound DEF ToSet
<1> QED
  BY <1>1, <1>3, <1>4, <1>5

\* The reports of module redis.
LEMMA RedisReport ==
  ASSUME NEW c \in RedisConfig, NEW o, Sees(RedisScale, o)
  PROVE  /\ Typed(RedisRun(c, o))
         /\ Agrees(RedisRun(c, o))
         /\ ~o.resolved \/ o.failsAt = "dial" => Fails(RedisRun(c, o))
         /\ Fails(RedisRun(c, o)) => ~o.resolved \/ o.failsAt # "nothing"
         /\ o.failsAt = "dial" => Blames(RedisRun(c, o), "given") /\ Blames(RedisRun(c, o), "found")
<1>1. o.resolved \in BOOLEAN
  BY Truths DEF Sees, RedisScale, ToSet
<1>2. PICK st \in {"OK", "WARN"} : st = Warn(~o.loaded)
  BY DEF Warn
<1>3. PICK mem \in {"OK", "WARN"} : \A t : RedisMemoryFinding(c, t, o) = Say(t, "memory", mem)
  <2> DEFINE w == Warn(/\ o.maxmemory > 0 /\ c.memWarnPct > 0
                       /\ (o.used * 100) \div o.maxmemory >= c.memWarnPct)
  <2>1. w \in {"OK", "WARN"}
    BY DEF Warn
  <2>2. \A t : RedisMemoryFinding(c, t, o) = Say(t, "memory", w)
    BY DEF RedisMemoryFinding
  <2> QED
    BY <2>1, <2>2
<1>4. PICK repl \in {"OK", "WARN", "BAD"} : \A t : replicationFinding(c, t, o) = Say(t, "replication", repl)
  <2> DEFINE w == IF ~o.link THEN "BAD" ELSE Level(Max2(o.behind, 0), c.lagWarnBytes, c.lagCritBytes)
  <2>1. w \in {"OK", "WARN", "BAD"}
    BY DEF Level
  <2>2. \A t : replicationFinding(c, t, o) = Say(t, "replication", w)
    BY DEF replicationFinding
  <2> QED
    BY <2>1, <2>2
<1>5. \A t : /\ IsSequence(RedisEvaluate(c, t, o))
             /\ \A x : x \in ToSet(RedisEvaluate(c, t, o)) =>
                  \/ x = F(t, Absent, st) \/ x = F(t, "memory", mem)
                  \/ x = F(t, "replication", repl) \/ x = F(t, "persistence", "WARN")
  <2> SUFFICES ASSUME NEW t
               PROVE  /\ IsSequence(RedisEvaluate(c, t, o))
                      /\ \A x : x \in ToSet(RedisEvaluate(c, t, o)) =>
                           \/ x = F(t, Absent, st) \/ x = F(t, "memory", mem)
                           \/ x = F(t, "replication", repl) \/ x = F(t, "persistence", "WARN")
    OBVIOUS
  <2>1. /\ IsSequence(persistenceFindings(t, o))
        /\ \A x : x \in ToSet(persistenceFindings(t, o)) => x = F(t, "persistence", "WARN")
    BY Said, Added, Nothing DEF persistenceFindings, IfSo
  <2>2. /\ IsSequence(IfSo(o.replica, Say(t, "replication", repl)))
        /\ \A x : x \in ToSet(IfSo(o.replica, Say(t, "replication", repl))) => x = F(t, "replication", repl)
    BY Said, Nothing DEF IfSo
  <2>3. RedisEvaluate(c, t, o) = Say(t, Absent, st) \o Say(t, "memory", mem)
           \o IfSo(o.replica, Say(t, "replication", repl)) \o persistenceFindings(t, o)
    BY <1>2, <1>3, <1>4 DEF RedisEvaluate
  <2> QED
    BY <2>1, <2>2, <2>3, Said, Added
<1> DEFINE fs == RedisRun(c, o)
           a == RedisProbe(c, "given", o)
           b == RedisProbe(c, "found", o)
           ss == [i \in DOMAIN Targets(o) |-> RedisProbe(c, Targets(o)[i], o)]
<1>6. /\ ss = [i \in DOMAIN Targets(o) |-> ss[i]]
      /\ \A i \in DOMAIN Targets(o) : /\ Targets(o)[i] = "given" => ss[i] = a
                                      /\ Targets(o)[i] = "found" => ss[i] = b
  OBVIOUS
<1>7. fs = Unresolved(o) \o FlattenSeq(ss)
  BY DEF RedisRun, Each
<1> DEFINE Here(x, t) ==
             IF liveInfo(c, o)
             THEN \/ x = F(t, Absent, st) \/ x = F(t, "memory", mem)
                  \/ x = F(t, "replication", repl) \/ x = F(t, "persistence", "WARN")
             ELSE x = F(t, Absent, "ERROR")
<1>8. /\ IsSequence(a) /\ \A x : x \in ToSet(a) => Here(x, "given")
      /\ IsSequence(b) /\ \A x : x \in ToSet(b) => Here(x, "found")
      /\ ~liveInfo(c, o) => F("given", Absent, "ERROR") \in ToSet(a) /\ F("found", Absent, "ERROR") \in ToSet(b)
  BY <1>5, Said DEF RedisProbe
<1> HIDE DEF a, b, ss
<1>9. /\ IsSequence(fs)
      /\ \A x : x \in ToSet(fs) => \/ ~o.resolved /\ x = F("discovery", Absent, "ERROR")
                                   \/ Here(x, "given") \/ Here(x, "found")
      /\ ~o.resolved => F("discovery", Absent, "ERROR") \in ToSet(fs)
      /\ ~liveInfo(c, o) => F("given", Absent, "ERROR") \in ToSet(fs) /\ F("found", Absent, "ERROR") \in ToSet(fs)
  <2> DEFINE each == FlattenSeq(ss)
  <2>1. IsSequence(each) /\ \A x : x \in ToSet(each) <=> x \in ToSet(a) \/ x \in ToSet(b)
    BY <1>1, <1>6, <1>8, OfTargets
  <2> HIDE DEF each, fs, Here
  <2>2. IsSequence(fs) /\ \A x : x \in ToSet(fs) <=> x \in ToSet(Unresolved(o)) \/ x \in ToSet(each)
    BY <1>1, <1>7, <2>1, EachTarget, Added DEF each
  <2> QED
    BY <1>1, <1>8, <2>1, <2>2, EachTarget
<1> HIDE DEF fs
<1>10. Typed(fs)
  BY <1>2, <1>3, <1>4, <1>9, Fields DEF Typed, Status
<1>11. Agrees(fs)
  <2>1. \A x : x \in ToSet(fs) => /\ x.target = "discovery" => x.status = "ERROR"
                                  /\ x.target # "discovery" /\ ~liveInfo(c, o) => x.status = "ERROR"
                                  /\ x.target # "discovery" /\ liveInfo(c, o) =>
                                       /\ x.part = Absent => x.status = st
                                       /\ x.part = "memory" => x.status = mem
                                       /\ x.part = "replication" => x.status = repl
                                       /\ x.part = "persistence" => x.status = "WARN"
                                       /\ x.part \in {Absent, "memory", "replication", "persistence"}
    BY <1>9, Fields DEF Absent
  <2> QED
    BY ONLY <2>1 DEF Agrees
<1>12. ~liveInfo(c, o) => o.failsAt # "nothing"
  BY DEF liveInfo
<1>13. o.failsAt = "dial" => ~liveInfo(c, o)
  BY DEF liveInfo
<1>14. ~o.resolved \/ o.failsAt = "dial" => Fails(fs)
  BY <1>9, <1>13, Fields DEF Fails
<1>15. Fails(fs) => ~o.resolved \/ o.failsAt # "nothing"
  BY <1>2, <1>3, <1>4, <1>9, <1>12, Fields DEF Fails
<1>16. o.failsAt = "dial" => Blames(fs, "given") /\ Blames(fs, "found")
  BY <1>9, <1>13, Fields DEF Blames
<1> QED
  BY <1>10, <1>11, <1>14, <1>15, <1>16 DEF fs

\* The reports of module tls.
LEMMA TlsReport ==
  ASSUME NEW c \in TlsConfig, NEW o, Sees(TlsScale, o)
  PROVE  /\ Typed(TlsRun(c, o))
         /\ Agrees(TlsRun(c, o))
         /\ Fails(TlsRun(c, o)) <=> ~o.resolved \/ ~o.connects \/ ~o.handshake
         /\ o.hours = -30 \/ ~o.trusted => IsRed(TlsRun(c, o))
         /\ ~o.connects \/ ~o.handshake => Blames(TlsRun(c, o), "given") /\ Blames(TlsRun(c, o), "found")
<1>1. o.hours \in Int /\ o.resolved \in BOOLEAN
  BY Truths DEF Sees, TlsScale, ToSet
<1>2. days(o) \in Int /\ (o.hours = -30 => days(o) = -1)
  BY <1>1 DEF days
<1> DEFINE expiry == IF days(o) < 0 \/ days(o) < c.critDays THEN "BAD" ELSE Warn(days(o) < c.warnDays)
           chain == Bad(~o.trusted \/ o.hours < 0)
           protocol == Warn(o.version < 12)
<1>3. /\ expiry \in {"OK", "WARN", "BAD"} /\ chain \in {"OK", "BAD"} /\ protocol \in {"OK", "WARN"}
      /\ o.hours = -30 => expiry = "BAD"
      /\ ~o.trusted => chain = "BAD"
  BY <1>2 DEF Bad, Warn
<1>4. \A t : TlsProbe(c, t, o) = IF ~o.connects \/ ~o.handshake THEN Say(t, Absent, "ERROR")
                ELSE Say(t, "expiry", expiry) \o Say(t, "chain", chain) \o Say(t, "protocol", protocol)
  BY DEF TlsProbe, expiryFinding, chainFinding, protocolFinding
<1> HIDE DEF expiry, chain, protocol
<1> DEFINE fs == TlsRun(c, o)
           a == TlsProbe(c, "given", o)
           b == TlsProbe(c, "found", o)
           Here(x, t) == IF ~o.connects \/ ~o.handshake THEN x = F(t, Absent, "ERROR")
                         ELSE x = F(t, "expiry", expiry) \/ x = F(t, "chain", chain) \/ x = F(t, "protocol", protocol)
           ss == [i \in DOMAIN Targets(o) |-> TlsProbe(c, Targets(o)[i], o)]
<1>5. /\ ss = [i \in DOMAIN Targets(o) |-> ss[i]]
      /\ \A i \in DOMAIN Targets(o) : /\ Targets(o)[i] = "given" => ss[i] = a
                                      /\ Targets(o)[i] = "found" => ss[i] = b
  OBVIOUS
<1>6. fs = Unresolved(o) \o FlattenSeq(ss)
  BY DEF TlsRun, Each
<1>7. /\ IsSequence(a) /\ \A x : x \in ToSet(a) <=> Here(x, "given")
      /\ IsSequence(b) /\ \A x : x \in ToSet(b) <=> Here(x, "found")
  <2>1. \A t : IsSequence(TlsProbe(c, t, o)) /\ \A x : x \in ToSet(TlsProbe(c, t, o)) <=> Here(x, t)
    <3> SUFFICES ASSUME NEW t
                 PROVE  IsSequence(TlsProbe(c, t, o)) /\ \A x : x \in ToSet(TlsProbe(c, t, o)) <=> Here(x, t)
      OBVIOUS
    <3>1. CASE ~o.connects \/ ~o.handshake
      BY <1>4, <3>1, Said
    <3>2. CASE o.connects /\ o.handshake
      <4>1. TlsProbe(c, t, o) = (Say(t, "expiry", expiry) \o Say(t, "chain", chain)) \o Say(t, "protocol", protocol)
        BY <1>4, <3>2
      <4>2. /\ IsSequence(Say(t, "expiry", expiry) \o Say(t, "chain", chain))
            /\ ToSet(Say(t, "expiry", expiry) \o Say(t, "chain", chain)) = {F(t, "expiry", expiry), F(t, "chain", chain)}
        BY Said, Added
      <4>3. /\ IsSequence(TlsProbe(c, t, o))
            /\ ToSet(TlsProbe(c, t, o)) = {F(t, "expiry", expiry), F(t, "chain", chain), F(t, "protocol", protocol)}
        BY <4>1, <4>2, Said, Added
      <4> QED
        BY <3>2, <4>3
    <3> QED
      BY <3>1, <3>2
  <2> HIDE DEF Here
  <2> QED
    BY <2>1
<1> HIDE DEF a, b, ss
<1>8. /\ IsSequence(fs)
      /\ \A x : x \in ToSet(fs) <=> \/ ~o.resolved /\ x = F("discovery", Absent, "ERROR")
                                    \/ Here(x, "given") \/ Here(x, "found")
  <2> DEFINE each == FlattenSeq(ss)
  <2>1. IsSequence(each) /\ \A x : x \in ToSet(each) <=> x \in ToSet(a) \/ x \in ToSet(b)
    BY <1>1, <1>5, <1>7, OfTargets
  <2> HIDE DEF each, fs, Here
  <2>2. IsSequence(fs) /\ \A x : x \in ToSet(fs) <=> x \in ToSet(Unresolved(o)) \/ x \in ToSet(each)
    BY <1>1, <1>6, <2>1, EachTarget, Added DEF each
  <2> QED
    BY <1>1, <1>7, <2>1, <2>2, EachTarget
<1> HIDE DEF fs
<1>9. Typed(fs)
  BY <1>3, <1>8, Fields DEF Typed, Status
<1>10. Agrees(fs)
  <2>1. \A x : x \in ToSet(fs) => /\ x.target = "discovery" => x.status = "ERROR"
                                  /\ x.target # "discovery" /\ (~o.connects \/ ~o.handshake) => x.status = "ERROR"
                                  /\ x.target # "discovery" /\ o.connects /\ o.handshake =>
                                       /\ x.part = "expiry" => x.status = expiry
                                       /\ x.part = "chain" => x.status = chain
                                       /\ x.part = "protocol" => x.status = protocol
                                       /\ x.part \in {"expiry", "chain", "protocol"}
    BY <1>8, Fields DEF Absent
  <2> QED
    BY ONLY <2>1 DEF Agrees
<1>11. Fails(fs) <=> ~o.resolved \/ ~o.connects \/ ~o.handshake
  BY <1>3, <1>8, Fields DEF Fails
<1>12. o.hours = -30 \/ ~o.trusted => IsRed(fs)
  BY <1>3, <1>8, Fields DEF IsRed
<1>13. ~o.connects \/ ~o.handshake => Blames(fs, "given") /\ Blames(fs, "found")
  BY <1>8, Fields DEF Blames
<1> QED
  BY <1>9, <1>10, <1>11, <1>12, <1>13 DEF fs

\* The reports of module haproxy.
LEMMA HAProxyReport ==
  ASSUME NEW c \in HAProxyConfig, NEW o, Sees(HAProxyScale, o)
  PROVE  /\ Typed(HAProxyRun(c, o))
         /\ Fails(HAProxyRun(c, o)) <=> ~o.resolved \/ ~o.given \/ ~o.found
         /\ o.server = "DOWN" => IsRed(HAProxyRun(c, o))
         /\ ~o.given => Blames(HAProxyRun(c, o), "given")
         /\ ~o.found => Blames(HAProxyRun(c, o), "found")
<1>1. o.resolved \in BOOLEAN
  BY Truths DEF Sees, HAProxyScale, ToSet
<1> DEFINE Well3 == {"OK", "WARN", "BAD"}
           listed(t) == {i \in DOMAIN fetchStats(o, t) : fetchStats(o, t)[i].svname \notin {Absent, "FRONTEND"}}
           rows(t) == Pick(fetchStats(o, t), listed(t))
           ss(t) == [i \in DOMAIN rows(t) |-> rowFinding(c, rows(t)[i])]
<1>2. \A t : HAProxyProbe(c, t, o) = IF ~o[t] THEN Say(t, Absent, "ERROR")
                                     ELSE IF rows(t) = <<>> THEN Say(t, Absent, "WARN") ELSE FlattenSeq(ss(t))
  BY DEF HAProxyProbe, Only, Each
<1>3. \A t : IsSequence(fetchStats(o, t))
  <2> SUFFICES ASSUME NEW t PROVE IsSequence(fetchStats(o, t))
    OBVIOUS
  <2>1. \A x : IsSequence(<<x>>)
    BY Single
  <2>2. \A x, y, z : IsSequence(<<x, y, z>>)
    <3> SUFFICES ASSUME NEW x, NEW y, NEW z PROVE IsSequence(<<x, y, z>>)
      OBVIOUS
    <3>1. <<x, y, z>> \in Seq({x, y, z})
      OBVIOUS
    <3> QED
      BY <3>1, SequenceOf
  <2> QED
    BY <2>1, <2>2 DEF fetchStats
<1>4. \A t : IsSequence(rows(t)) /\ \A r : r \in ToSet(rows(t)) <=> \E i \in listed(t) : r = fetchStats(o, t)[i]
  <2> SUFFICES ASSUME NEW t
               PROVE  IsSequence(rows(t)) /\ \A r : r \in ToSet(rows(t)) <=> \E i \in listed(t) : r = fetchStats(o, t)[i]
    OBVIOUS
  <2>1. listed(t) \in SUBSET DOMAIN fetchStats(o, t)
    OBVIOUS
  <2> HIDE DEF listed
  <2> QED
    BY <1>3, <2>1, PickedSequence
<1>5. \A r : \E s \in Well3 : rowFinding(c, r) = Say("be", r.svname, s)
  BY DEF rowFinding, Warn
<1>6. \A t : IsSequence(FlattenSeq(ss(t))) /\ \A x : x \in ToSet(FlattenSeq(ss(t))) => x.status \in Well3
  <2> SUFFICES ASSUME NEW t
               PROVE  IsSequence(FlattenSeq(ss(t))) /\ \A x : x \in ToSet(FlattenSeq(ss(t))) => x.status \in Well3
    OBVIOUS
  <2>1. ss(t) = [i \in DOMAIN rows(t) |-> ss(t)[i]]
    OBVIOUS
  <2>2. \A i \in DOMAIN rows(t) : Spoken(ss(t)[i], Well3)
    BY <1>5 DEF Spoken
  <2> HIDE DEF ss, rows, Well3
  <2> QED
    BY <1>4, <2>1, <2>2, EachSpoken
<1>7. o.server = "DOWN" => F("be", "s1", "BAD") \in ToSet(FlattenSeq(ss("given"))) /\ rows("given") # <<>>
  <2> SUFFICES ASSUME o.server = "DOWN"
               PROVE  F("be", "s1", "BAD") \in ToSet(FlattenSeq(ss("given"))) /\ rows("given") # <<>>
    OBVIOUS
  <2> DEFINE row == Row("s1", o.server, o.sessions, o.limit)
             table == fetchStats(o, "given")
  <2>1. table = << Row("FRONTEND", "OPEN", 1, 4), row,
                   Row("BACKEND", IF o.server = "DOWN" THEN "DOWN" ELSE "UP", o.sessions, o.limit) >>
    BY DEF fetchStats
  <2>2. 2 \in DOMAIN table /\ table[2] = row
    BY <2>1
  <2>3. row.svname = "s1" /\ row.status = "DOWN"
    BY DEF Row
  <2> HIDE DEF row
  <2>4. 2 \in listed("given")
    BY <2>2, <2>3 DEF Absent
  <2> HIDE DEF listed
  <2>5. row \in ToSet(rows("given"))
    BY <1>4, <2>2, <2>4
  <2> HIDE DEF rows
  <2>6. PICK i \in DOMAIN rows("given") : rows("given")[i] = row
    BY <2>5 DEF ToSet
  <2>7. ss("given")[i] = Say("be", "s1", "BAD")
    <3>1. rowFinding(c, row) = Say("be", "s1", "BAD")
      BY <2>3 DEF rowFinding
    <3> QED
      BY <2>6, <3>1
  <2>8. ss("given") = [k \in DOMAIN rows("given") |-> ss("given")[k]]
    OBVIOUS
  <2>9. \A k \in DOMAIN rows("given") : IsSequence(ss("given")[k])
    BY <1>5, Said
  <2> HIDE DEF ss
  <2>10. \A x : x \in ToSet(FlattenSeq(ss("given"))) <=> \E k \in DOMAIN rows("given") : x \in ToSet(ss("given")[k])
    BY <1>4, <2>8, <2>9, FlattenedEach
  <2>11. F("be", "s1", "BAD") \in ToSet(ss("given")[i])
    BY <2>7, Said
  <2>12. rows("given") # <<>>
    BY <2>5, Nothing
  <2> QED
    BY <2>6, <2>10, <2>11, <2>12
<1> HIDE DEF ss, rows
<1> DEFINE fs == HAProxyRun(c, o)
           a == HAProxyProbe(c, "given", o)
           b == HAProxyProbe(c, "found", o)
<1>8. \A t : /\ IsSequence(HAProxyProbe(c, t, o))
             /\ \A x : x \in ToSet(HAProxyProbe(c, t, o)) => x.status \in Status /\ (x.status = "ERROR" => ~o[t])
             /\ ~o[t] => F(t, Absent, "ERROR") \in ToSet(HAProxyProbe(c, t, o))
  BY <1>2, <1>6, Said, Fields DEF Status
<1>9. o.server = "DOWN" => \E x \in ToSet(a) : x.status \in {"BAD", "ERROR"}
  BY <1>2, <1>7, <1>8, Fields
<1> DEFINE all == [i \in DOMAIN Targets(o) |-> HAProxyProbe(c, Targets(o)[i], o)]
<1>10. /\ all = [i \in DOMAIN Targets(o) |-> all[i]]
       /\ \A i \in DOMAIN Targets(o) : /\ Targets(o)[i] = "given" => all[i] = a
                                       /\ Targets(o)[i] = "found" => all[i] = b
  OBVIOUS
<1>11. fs = Unresolved(o) \o FlattenSeq(all)
  BY DEF HAProxyRun, Each
<1>12. /\ IsSequence(a) /\ \A x : x \in ToSet(a) => x.status \in Status /\ (x.status = "ERROR" => ~o.given)
       /\ IsSequence(b) /\ \A x : x \in ToSet(b) => x.status \in Status /\ (x.status = "ERROR" => ~o.found)
       /\ ~o.given => F("given", Absent, "ERROR") \in ToSet(a)
       /\ ~o.found => F("found", Absent, "ERROR") \in ToSet(b)
  BY <1>8
<1> HIDE DEF a, b, all
<1>13. IsSequence(fs) /\ \A x : x \in ToSet(fs) <=> \/ ~o.resolved /\ x = F("discovery", Absent, "ERROR")
                                                   \/ x \in ToSet(a) \/ x \in ToSet(b)
  <2> DEFINE each == FlattenSeq(all)
  <2>1. IsSequence(each) /\ \A x : x \in ToSet(each) <=> x \in ToSet(a) \/ x \in ToSet(b)
    BY <1>1, <1>10, <1>12, OfTargets
  <2> HIDE DEF each, fs
  <2>2. IsSequence(fs) /\ \A x : x \in ToSet(fs) <=> x \in ToSet(Unresolved(o)) \/ x \in ToSet(each)
    BY <1>1, <1>11, <2>1, EachTarget, Added DEF each
  <2> QED
    BY <1>1, <2>1, <2>2, EachTarget
<1> HIDE DEF fs
<1>14. Typed(fs)
  BY <1>12, <1>13, Fields DEF Typed, Status
<1>15. Fails(fs) <=> ~o.resolved \/ ~o.given \/ ~o.found
  BY <1>12, <1>13, Fields DEF Fails
<1>16. o.server = "DOWN" => IsRed(fs)
  BY <1>9, <1>13, Fields DEF IsRed
<1>17. (~o.given => Blames(fs, "given")) /\ (~o.found => Blames(fs, "found"))
  BY <1>12, <1>13, Fields DEF Blames
<1> QED
  BY <1>14, <1>15, <1>16, <1>17 DEF fs

\* The reports of module consul.
LEMMA ConsulReport ==
  ASSUME NEW c \in ConsulConfig, NEW o, Sees(ConsulScale, o)
  PROVE  /\ Typed(ConsulRun(c, o))
         /\ ~o.resolved \/ ~o.given \/ ~o.found => Fails(ConsulRun(c, o))
         /\ Fails(ConsulRun(c, o)) => \/ ~o.resolved \/ ~o.given \/ ~o.found
                                      \/ ~o.leaderAnswers \/ ~o.peersAnswer \/ ~o.kvAnswers
                                      \/ o.critical = "fails" \/ o.warning = "fails"
         /\ o.leader = Absent => IsRed(ConsulRun(c, o))
         /\ o.critical # "unread" /\ (o.state = "critical" \/ o.other = "critical") => IsRed(ConsulRun(c, o))
         /\ c.expectPeers > 0 /\ 2 * o.peers <= c.expectPeers => IsRed(ConsulRun(c, o))
         /\ ~o.given => Blames(ConsulRun(c, o), "given")
         /\ ~o.found => Blames(ConsulRun(c, o), "found")
<1>1. /\ o.resolved \in BOOLEAN /\ o.peers \in {0, 1, 2, 3} /\ c.expectPeers \in {0, 3}
      /\ o.critical \in {"listed", "unread", "fails"} /\ o.warning \in {"listed", "unread", "fails"}
  BY Truths DEF Sees, ConsulScale, Listing, ToSet, ConsulConfig
<1> DEFINE leader == IF ~o.leaderAnswers THEN "ERROR" ELSE Bad(o.leader = Absent)
           peers == FirstOf(<<Error(~o.peersAnswer),
                              Bad(c.expectPeers > 0 /\ o.peers < (c.expectPeers \div 2) + 1),
                              Warn(c.expectPeers > 0 /\ o.peers < c.expectPeers)>>)
           key == IF ~o.kvAnswers THEN "ERROR" ELSE Bad(~o.key)
<1>2. /\ leader \in Status /\ (leader = "ERROR" => ~o.leaderAnswers)
      /\ o.leader = Absent => leader \in {"BAD", "ERROR"}
      /\ key \in Status /\ (key = "ERROR" => ~o.kvAnswers)
  BY DEF Bad, Status
<1>3. /\ peers \in Status /\ (peers = "ERROR" => ~o.peersAnswer)
      /\ c.expectPeers > 0 /\ 2 * o.peers <= c.expectPeers => peers \in {"BAD", "ERROR"}
  <2>1. c.expectPeers > 0 /\ 2 * o.peers <= c.expectPeers => o.peers < (c.expectPeers \div 2) + 1
    BY <1>1
  <2> QED
    BY <2>1, FirstOfThree DEF Error, Bad, Warn, Status
<1>4. /\ leaderFinding(o) = Say("raft-leader", Absent, leader)
      /\ peersFinding(c, o) = Say("raft-peers", Absent, peers)
      /\ kvFindings(c, o) = IfSo(c.kv, Say("key", Absent, key))
  BY DEF leaderFinding, peersFinding, kvFindings
<1> HIDE DEF leader, peers, key
<1>5. \A s, st : /\ IsSequence(stateFindings(o, s, st))
                 /\ \A x : x \in ToSet(stateFindings(o, s, st)) <=>
                             IF o[s] = "fails" THEN x = F("health", s, "ERROR")
                             ELSE o[s] = "listed" /\ (o.state = s \/ o.other = s) /\ x = F("svc", "node1", st)
  <2> SUFFICES ASSUME NEW s, NEW st
               PROVE  /\ IsSequence(stateFindings(o, s, st))
                      /\ \A x : x \in ToSet(stateFindings(o, s, st)) <=>
                                  IF o[s] = "fails" THEN x = F("health", s, "ERROR")
                                  ELSE o[s] = "listed" /\ (o.state = s \/ o.other = s) /\ x = F("svc", "node1", st)
    OBVIOUS
  <2>1. CASE o[s] = "fails"
    BY <2>1, Said DEF stateFindings
  <2>2. CASE o[s] # "fails"
    BY <2>2, Said, Added, Nothing DEF stateFindings, IfSo
  <2> QED
    BY <2>1, <2>2
<1> DEFINE fs == ConsulRun(c, o)
           cluster == leaderFinding(o) \o peersFinding(c, o) \o stateFindings(o, "critical", "BAD")
                        \o stateFindings(o, "warning", "WARN") \o kvFindings(c, o)
<1>6. IsSequence(cluster) /\ \A x : x \in ToSet(cluster) <=>
         \/ x = F("raft-leader", Absent, leader) \/ x = F("raft-peers", Absent, peers)
         \/ x \in ToSet(stateFindings(o, "critical", "BAD")) \/ x \in ToSet(stateFindings(o, "warning", "WARN"))
         \/ c.kv /\ x = F("key", Absent, key)
  <2>1. IsSequence(kvFindings(c, o)) /\ \A x : x \in ToSet(kvFindings(c, o)) <=> c.kv /\ x = F("key", Absent, key)
    BY <1>4, Said, Nothing DEF IfSo
  <2> QED
    BY <1>4, <1>5, <2>1, Said, Added
<1>7. fs = Unresolved(o) \o ConsulUnreachable(o) \o IfSo(o.given \/ o.found, cluster)
  <2> HIDE DEF cluster
  <2>1. fs = Unresolved(o) \o ConsulUnreachable(o) \o IfSo(\E i \in DOMAIN Targets(o) : o[Targets(o)[i]], cluster)
    BY DEF ConsulRun, cluster
  <2> HIDE DEF fs
  <2>2. (\E i \in DOMAIN Targets(o) : o[Targets(o)[i]]) <=> o.given \/ o.found
    BY <1>1, Unanswered
  <2>3. IfSo(\E i \in DOMAIN Targets(o) : o[Targets(o)[i]], cluster) = IfSo(o.given \/ o.found, cluster)
    BY ONLY <2>2 DEF IfSo
  <2> QED
    BY ONLY <2>1, <2>3
<1> HIDE DEF cluster, fs
<1>8. IsSequence(fs) /\ \A x : x \in ToSet(fs) <=>
         \/ ~o.resolved /\ x = F("discovery", Absent, "ERROR")
         \/ ~o.given /\ x = F("given", Absent, "ERROR")
         \/ ~o.found /\ x = F("found", Absent, "ERROR")
         \/ (o.given \/ o.found) /\ x \in ToSet(cluster)
  <2>1. /\ IsSequence(IfSo(o.given \/ o.found, cluster))
        /\ \A x : x \in ToSet(IfSo(o.given \/ o.found, cluster)) <=> (o.given \/ o.found) /\ x \in ToSet(cluster)
    BY <1>6, Nothing DEF IfSo
  <2> QED
    BY <1>1, <1>7, <2>1, Unanswered, EachTarget, Added
<1>9. \A x : x \in ToSet(cluster) => /\ x.status \in Status
                                     /\ x.status = "ERROR" =>
                                          \/ ~o.leaderAnswers \/ ~o.peersAnswer \/ ~o.kvAnswers
                                          \/ o.critical = "fails" \/ o.warning = "fails"
  BY <1>2, <1>3, <1>5, <1>6, Fields DEF Status
<1>10. /\ o.leader = Absent => \E x \in ToSet(cluster) : x.status \in {"BAD", "ERROR"}
       /\ o.critical # "unread" /\ (o.state = "critical" \/ o.other = "critical") =>
            \E x \in ToSet(cluster) : x.status \in {"BAD", "ERROR"}
  <2>1. o.leader = Absent => \E x \in ToSet(cluster) : x.status \in {"BAD", "ERROR"}
    BY <1>2, <1>6, Fields
  <2>2. o.critical # "unread" /\ (o.state = "critical" \/ o.other = "critical") =>
          \/ F("health", "critical", "ERROR") \in ToSet(stateFindings(o, "critical", "BAD"))
          \/ F("svc", "node1", "BAD") \in ToSet(stateFindings(o, "critical", "BAD"))
    BY <1>1, <1>5
  <2> QED
    BY <1>6, <2>1, <2>2, Fields
<1>11. c.expectPeers > 0 /\ 2 * o.peers <= c.expectPeers => \E x \in ToSet(cluster) : x.status \in {"BAD", "ERROR"}
  BY <1>3, <1>6, Fields
<1>12. Typed(fs)
  BY <1>8, <1>9, Fields DEF Typed, Status
<1>13. ~o.resolved \/ ~o.given \/ ~o.found => Fails(fs)
  BY <1>8, Fields DEF Fails
<1>14. Fails(fs) => \/ ~o.resolved \/ ~o.given \/ ~o.found
                    \/ ~o.leaderAnswers \/ ~o.peersAnswer \/ ~o.kvAnswers
                    \/ o.critical = "fails" \/ o.warning = "fails"
  BY <1>8, <1>9, Fields DEF Fails
<1>18. (\E x \in ToSet(cluster) : x.status \in {"BAD", "ERROR"}) => IsRed(fs)
  BY <1>8, Fields DEF IsRed
<1>15. /\ o.leader = Absent => IsRed(fs)
       /\ o.critical # "unread" /\ (o.state = "critical" \/ o.other = "critical") => IsRed(fs)
  BY ONLY <1>10, <1>18
<1>16. c.expectPeers > 0 /\ 2 * o.peers <= c.expectPeers => IsRed(fs)
  BY ONLY <1>11, <1>18
<1>17. (~o.given => Blames(fs, "given")) /\ (~o.found => Blames(fs, "found"))
  BY <1>8, Fields DEF Blames
<1> QED
  BY <1>12, <1>13, <1>14, <1>15, <1>16, <1>17 DEF fs

\* Three lists, flattened.
LEMMA FlattenedThree ==
  \A a, b, d : IsSequence(a) /\ IsSequence(b) /\ IsSequence(d) =>
     /\ IsSequence(FlattenSeq(<<a, b, d>>))
     /\ \A x : x \in ToSet(FlattenSeq(<<a, b, d>>)) <=> x \in ToSet(a) \/ x \in ToSet(b) \/ x \in ToSet(d)
<1> SUFFICES ASSUME NEW a, NEW b, NEW d, IsSequence(a), IsSequence(b), IsSequence(d)
             PROVE  /\ IsSequence(FlattenSeq(<<a, b, d>>))
                    /\ \A x : x \in ToSet(FlattenSeq(<<a, b, d>>)) <=> x \in ToSet(a) \/ x \in ToSet(b) \/ x \in ToSet(d)
  OBVIOUS
<1> DEFINE ss == <<a, b, d>>
<1>1. 3 \in Nat /\ ss = [i \in 1 .. 3 |-> ss[i]] /\ ss[1] = a /\ ss[2] = b /\ ss[3] = d
  OBVIOUS
<1>2. \A i \in 1 .. 3 : i = 1 \/ i = 2 \/ i = 3
  OBVIOUS
<1>3. 1 \in 1 .. 3 /\ 2 \in 1 .. 3 /\ 3 \in 1 .. 3
  OBVIOUS
<1> HIDE DEF ss
<1>4. \A i \in 1 .. 3 : IsSequence(ss[i])
  BY <1>1, <1>2
<1>5. IsSequence(FlattenSeq(ss)) /\ ToSet(FlattenSeq(ss)) = UNION {ToSet(ss[i]) : i \in 1 .. 3}
  BY <1>1, <1>4, Flattened
<1>6. \A x : x \in UNION {ToSet(ss[i]) : i \in 1 .. 3} <=> x \in ToSet(a) \/ x \in ToSet(b) \/ x \in ToSet(d)
  BY <1>1, <1>2, <1>3
<1> QED
  BY <1>5, <1>6 DEF ss

\* The reports of module patroni.
LEMMA PatroniReport ==
  ASSUME NEW c \in PatroniConfig, NEW o, Sees(PatroniScale, o)
  PROVE  /\ Typed(PatroniRun(c, o))
         /\ Agrees(PatroniRun(c, o))
         /\ Fails(PatroniRun(c, o)) <=> ~o.resolved \/ ~o.given \/ ~o.found
         /\ o.leaders = "none" => IsRed(PatroniRun(c, o))
         /\ ~o.given => Blames(PatroniRun(c, o), "given")
         /\ ~o.found => Blames(PatroniRun(c, o), "found")
<1>1. o.resolved \in BOOLEAN
  BY Truths DEF Sees, PatroniScale, ToSet
<1> DEFINE m1 == Member("m1", o.leaders # "none", "running", 0, 2)
           m2 == Member("m2", FALSE, o.state, o.lag, IF o.sameTimeline THEN 2 ELSE 1)
           m3 == Member("m3", o.leaders = "two", "streaming", 0, 2)
           xs == PatroniMembers(o)
           P == {i \in DOMAIN xs : xs[i].leads}
           leaders == Pick(xs, P)
           timeline == IF Len(leaders) = 1 THEN leaders[1].timeline ELSE 0
           scope == IF leaders = <<>> THEN "BAD" ELSE Warn(Len(leaders) > 1)
           each == FlattenSeq([i \in DOMAIN xs |-> memberFinding(c, o, xs[i], timeline)])
<1>2. analyze(c, o) = Say("scope", Absent, scope) \o each
  BY DEF analyze, Only, Each
<1>3. xs = <<m1, m2, m3>> /\ m1.name = "m1" /\ m2.name = "m2" /\ m3.name = "m3"
  BY DEF PatroniMembers, Member
<1>4. scope \in {"OK", "WARN", "BAD"}
  BY DEF Warn
<1>5. o.leaders = "none" => scope = "BAD"
  <2> SUFFICES ASSUME o.leaders = "none" PROVE leaders = <<>>
    OBVIOUS
  <2>1. ~m1.leads /\ ~m2.leads /\ ~m3.leads
    BY DEF Member
  <2> HIDE DEF m1, m2, m3
  <2>2. DOMAIN xs = {1, 2, 3} /\ xs[1] = m1 /\ xs[2] = m2 /\ xs[3] = m3
    BY <1>3
  <2>3. P = {}
    BY <2>1, <2>2
  <2>4. Pick(xs, {}) = [k \in 1 .. 0 |-> (CHOOSE i \in {} : Cardinality({j \in {} : j <= i}) = k)]
    BY FS_EmptySet DEF Pick
  <2>5. Pick(xs, {}) = <<>>
    BY <2>4
  <2> QED
    BY <2>3, <2>5
<1>6. \A m : \E s \in {"OK", "WARN", "BAD"} : memberFinding(c, o, m, timeline) = Say(m.name, Absent, s)
  <2> SUFFICES ASSUME NEW m
               PROVE  \E s \in {"OK", "WARN", "BAD"} : memberFinding(c, o, m, timeline) = Say(m.name, Absent, s)
    OBVIOUS
  <2> HIDE DEF timeline
  <2>1. replicaState(m.state) \in {"OK", "WARN", "BAD"}
    BY DEF replicaState
  <2> QED
    BY <2>1 DEF memberFinding, Level, Warn
<1> HIDE DEF m1, m2, m3, timeline, scope, xs
<1>7. PICK s1 \in {"OK", "WARN", "BAD"} : memberFinding(c, o, m1, timeline) = Say("m1", Absent, s1)
  BY <1>3, <1>6
<1>8. PICK s2 \in {"OK", "WARN", "BAD"} : memberFinding(c, o, m2, timeline) = Say("m2", Absent, s2)
  BY <1>3, <1>6
<1>9. PICK s3 \in {"OK", "WARN", "BAD"} : memberFinding(c, o, m3, timeline) = Say("m3", Absent, s3)
  BY <1>3, <1>6
<1>10. [i \in DOMAIN xs |-> memberFinding(c, o, xs[i], timeline)]
         = <<Say("m1", Absent, s1), Say("m2", Absent, s2), Say("m3", Absent, s3)>>
  BY <1>3, <1>7, <1>8, <1>9
<1>11. IsSequence(each) /\ \A x : x \in ToSet(each) <=>
         x = F("m1", Absent, s1) \/ x = F("m2", Absent, s2) \/ x = F("m3", Absent, s3)
  BY <1>10, Said, FlattenedThree
<1> HIDE DEF each
<1> DEFINE fs == PatroniRun(c, o)
           cluster == analyze(c, o)
<1>12. IsSequence(cluster) /\ \A x : x \in ToSet(cluster) <=>
         \/ x = F("scope", Absent, scope)
         \/ x = F("m1", Absent, s1) \/ x = F("m2", Absent, s2) \/ x = F("m3", Absent, s3)
  BY <1>2, <1>11, Said, Added
<1>13. fs = Unresolved(o) \o PatroniUnreachable(o) \o IfSo(o.given \/ o.found, cluster)
  <2>1. fs = Unresolved(o) \o PatroniUnreachable(o) \o IfSo(\E i \in DOMAIN Targets(o) : o[Targets(o)[i]], cluster)
    BY DEF PatroniRun
  <2> HIDE DEF fs, cluster
  <2>2. (\E i \in DOMAIN Targets(o) : o[Targets(o)[i]]) <=> o.given \/ o.found
    BY <1>1, Unanswered
  <2>3. IfSo(\E i \in DOMAIN Targets(o) : o[Targets(o)[i]], cluster) = IfSo(o.given \/ o.found, cluster)
    BY ONLY <2>2 DEF IfSo
  <2> QED
    BY ONLY <2>1, <2>3
<1> HIDE DEF cluster, fs
<1>14. IsSequence(fs) /\ \A x : x \in ToSet(fs) <=>
         \/ ~o.resolved /\ x = F("discovery", Absent, "ERROR")
         \/ ~o.given /\ x = F("given", Absent, "ERROR")
         \/ ~o.found /\ x = F("found", Absent, "ERROR")
         \/ (o.given \/ o.found) /\ x \in ToSet(cluster)
  <2>1. /\ IsSequence(IfSo(o.given \/ o.found, cluster))
        /\ \A x : x \in ToSet(IfSo(o.given \/ o.found, cluster)) <=> (o.given \/ o.found) /\ x \in ToSet(cluster)
    BY <1>12, Nothing DEF IfSo
  <2> QED
    BY <1>1, <1>13, <2>1, Unanswered, EachTarget, Added
<1>15. \A x : x \in ToSet(fs) =>
         /\ x.status \in Status
         /\ x.status = "ERROR" <=> x.target \in {"discovery", "given", "found"}
         /\ x.target \in {"discovery", "given", "found", "scope", "m1", "m2", "m3"}
         /\ x.target = "scope" => x.status = scope
         /\ x.target = "m1" => x.status = s1
         /\ x.target = "m2" => x.status = s2
         /\ x.target = "m3" => x.status = s3
  BY <1>4, <1>7, <1>8, <1>9, <1>12, <1>14, Fields DEF Status
<1>16. Typed(fs)
  BY <1>14, <1>15 DEF Typed
<1>17. Agrees(fs)
  BY ONLY <1>15 DEF Agrees
<1>18. Fails(fs) <=> ~o.resolved \/ ~o.given \/ ~o.found
  <2>1. \A x : x \in ToSet(cluster) => x.status # "ERROR"
    BY <1>4, <1>7, <1>8, <1>9, <1>12, Fields
  <2> QED
    BY <1>14, <2>1, Fields DEF Fails
<1>19. o.leaders = "none" => IsRed(fs)
  BY <1>5, <1>12, <1>14, Fields DEF IsRed
<1>20. (~o.given => Blames(fs, "given")) /\ (~o.found => Blames(fs, "found"))
  BY <1>14, Fields DEF Blames
<1> QED
  BY <1>16, <1>17, <1>18, <1>19, <1>20 DEF fs

\* The reports of module pq.
LEMMA PqReport ==
  ASSUME NEW c \in PqConfig, NEW o, Sees(PqScale, o)
  PROVE  /\ Typed(PqRun(c, o))
         /\ Agrees(PqRun(c, o))
         /\ o.verdict = "ERROR" => Fails(PqRun(c, o))
         /\ Fails(PqRun(c, o)) => ~c.profilesKnown \/ o.verdict = "ERROR"
<1>1. o.verdict \in Status /\ o.profile \in {"OK", "WARN", "BAD"}
  BY DEF Sees, PqScale, ToSet, Status
<1> DEFINE v == [check |-> "verdict", status |-> o.verdict]
           p == [check |-> "profile", status |-> o.profile]
           xs == Reported(o)
           P == {i \in DOMAIN xs : Kept(xs[i])}
           kept == Pick(xs, P)
<1>2. xs = <<v, p>> /\ IsSequence(xs) /\ v.check = "verdict" /\ v.status = o.verdict /\ p.check = "profile" /\ p.status = o.profile
  <2>1. <<v, p>> \in Seq({v, p})
    OBVIOUS
  <2> QED
    BY <2>1, SequenceOf DEF Reported
<1> HIDE DEF v, p, xs
<1>3. DOMAIN xs = {1, 2} /\ xs[1] = v /\ xs[2] = p
  BY <1>2
<1>4. IsSequence(kept) /\ \A f : f \in ToSet(kept) <=> f = v \/ (o.profile # "OK" /\ f = p)
  <2>1. P \in SUBSET DOMAIN xs
    OBVIOUS
  <2>2. 1 \in P /\ (2 \in P <=> o.profile # "OK") /\ \A i : i \in P => i = 1 \/ i = 2
    BY <1>2, <1>3 DEF Kept
  <2> HIDE DEF P
  <2>3. IsSequence(kept) /\ \A f : f \in ToSet(kept) <=> \E i \in P : f = xs[i]
    BY <1>2, <2>1, PickedSequence
  <2> QED
    BY <1>3, <2>2, <2>3
<1> HIDE DEF kept
<1> DEFINE of(t) == FlattenSeq([i \in DOMAIN kept |-> Say(t, subject(kept[i]), kept[i].status)])
           said(t) == IF ~c.profilesKnown THEN Say(t, Absent, "ERROR") ELSE of(t)
<1>5. \A t : IsSequence(of(t)) /\ \A x : x \in ToSet(of(t)) <=>
                x = F(t, Absent, o.verdict) \/ (o.profile # "OK" /\ x = F(t, "profile", o.profile))
  <2> SUFFICES ASSUME NEW t
               PROVE  IsSequence(of(t)) /\ \A x : x \in ToSet(of(t)) <=>
                         x = F(t, Absent, o.verdict) \/ (o.profile # "OK" /\ x = F(t, "profile", o.profile))
    OBVIOUS
  <2> DEFINE ss == [i \in DOMAIN kept |-> Say(t, subject(kept[i]), kept[i].status)]
  <2>1. ss = [i \in DOMAIN kept |-> ss[i]] /\ \A i \in DOMAIN kept : IsSequence(ss[i])
    BY Said
  <2>2. \A i \in DOMAIN kept : \A x : x \in ToSet(ss[i]) <=> x = F(t, subject(kept[i]), kept[i].status)
    BY Said
  <2>3. of(t) = FlattenSeq(ss)
    OBVIOUS
  <2> HIDE DEF ss, of
  <2>4. IsSequence(of(t)) /\ \A x : x \in ToSet(of(t)) <=> \E i \in DOMAIN kept : x \in ToSet(ss[i])
    BY <1>4, <2>1, <2>3, FlattenedEach
  <2>5. \A x : x \in ToSet(of(t)) <=> \E f : f \in ToSet(kept) /\ x = F(t, subject(f), f.status)
    <3>1. \A f : f \in ToSet(kept) <=> \E i \in DOMAIN kept : f = kept[i]
      BY DEF ToSet
    <3>2. ASSUME NEW x, NEW i \in DOMAIN kept, x \in ToSet(ss[i])
          PROVE  \E f : f \in ToSet(kept) /\ x = F(t, subject(f), f.status)
      <4>1. kept[i] \in ToSet(kept) /\ x = F(t, subject(kept[i]), kept[i].status)
        BY ONLY i \in DOMAIN kept, x \in ToSet(ss[i]), <2>2, <3>1
      <4> QED
        BY ONLY <4>1
    <3>3. ASSUME NEW f \in ToSet(kept), NEW x, x = F(t, subject(f), f.status)
          PROVE  \E i \in DOMAIN kept : x \in ToSet(ss[i])
      <4>1. PICK i \in DOMAIN kept : f = kept[i]
        BY ONLY f \in ToSet(kept), <3>1
      <4> QED
        BY ONLY <2>2, <3>3, <4>1
    <3> QED
      BY ONLY <2>4, <3>2, <3>3
  <2>6. subject(v) = Absent /\ subject(p) = "profile"
    BY <1>2 DEF subject
  <2> QED
    BY <1>2, <1>4, <2>4, <2>5, <2>6
<1>6. PqRun(c, o) = FlattenSeq(<<said("given"), said("other")>>)
  <2>1. [i \in DOMAIN targets |-> said(targets[i])] = <<said("given"), said("other")>>
    <3> HIDE DEF said
    <3> QED
      BY DEF targets
  <2> QED
    BY <2>1 DEF PqRun, Each, Only, kept, xs
<1> HIDE DEF of
<1>7. \A t : IsSequence(said(t)) /\ \A x : x \in ToSet(said(t)) <=>
                IF ~c.profilesKnown THEN x = F(t, Absent, "ERROR")
                ELSE x = F(t, Absent, o.verdict) \/ (o.profile # "OK" /\ x = F(t, "profile", o.profile))
  BY <1>5, Said
<1> HIDE DEF said
<1> DEFINE fs == PqRun(c, o)
<1>8. IsSequence(fs) /\ \A x : x \in ToSet(fs) <=> x \in ToSet(said("given")) \/ x \in ToSet(said("other"))
  BY <1>6, <1>7, FlattenedTwo
<1> HIDE DEF fs
<1>9. \A x : x \in ToSet(fs) =>
         /\ x.status \in Status
         /\ ~c.profilesKnown => x.status = "ERROR"
         /\ c.profilesKnown => /\ x.part \in {Absent, "profile"}
                               /\ x.part = Absent => x.status = o.verdict
                               /\ x.part = "profile" => x.status = o.profile
  BY <1>1, <1>7, <1>8, Fields DEF Status, Absent
<1>10. Typed(fs)
  BY <1>8, <1>9 DEF Typed
<1>11. Agrees(fs)
  BY ONLY <1>9 DEF Agrees
<1>12. o.verdict = "ERROR" => Fails(fs)
  <2>1. \E x : x \in ToSet(said("given")) /\ (o.verdict = "ERROR" => x.status = "ERROR")
    BY <1>7, Fields
  <2> QED
    BY <1>8, <2>1 DEF Fails
<1>13. Fails(fs) => ~c.profilesKnown \/ o.verdict = "ERROR"
  BY <1>1, <1>9 DEF Fails
<1> QED
  BY <1>10, <1>11, <1>12, <1>13 DEF fs

\* The reports of module rabbitmq.
LEMMA RabbitMQReport ==
  ASSUME NEW c \in RabbitMQConfig, NEW o, Sees(RabbitMQScale, o)
  PROVE  /\ Typed(RabbitMQRun(c, o))
         /\ ~o.sameHost => Agrees(RabbitMQRun(c, o))
         /\ ~o.t1 \/ ~o.t2 => Fails(RabbitMQRun(c, o))
         /\ Fails(RabbitMQRun(c, o)) => ~o.t1 \/ ~o.t2 \/ ~o.nodes \/ ~o.queues
         /\ ~o.running \/ ~o.memory \/ ~o.disk => IsRed(RabbitMQRun(c, o))
<1> DEFINE node == Bad(~o.running \/ ~o.memory \/ ~o.disk)
           level == Level(o.messages, c.queueWarnDepth, c.queueCritDepth)
           queue == IF level # "OK" THEN level ELSE Warn(o.messages > 0 /\ o.consumers = 0)
           a == Endpoint(o, "t1")
           b == Endpoint(o, "t2")
           each == FlattenSeq(<<a, b>>)
           nodes == nodeFindings(o)
           queues == queueFindings(c, o)
           fs == RabbitMQRun(c, o)
<1>1. node \in {"OK", "BAD"} /\ (~o.running \/ ~o.memory \/ ~o.disk => node = "BAD")
  BY DEF Bad
<1>2. queue \in {"OK", "WARN", "BAD"}
  BY DEF Level, Warn
<1>3. nodes = IF ~o.nodes THEN Say("nodes", Absent, "ERROR")
              ELSE Say(shortNode(o, "node1"), Absent, "OK") \o Say(shortNode(o, "node2"), Absent, node)
  BY DEF nodeFindings
<1>4. queues = IF ~o.queues THEN Say("queues", Absent, "ERROR") ELSE Say("queue", Absent, queue)
  BY DEF queueFindings
<1>5. fs = each \o IfSo(base(o) # Absent, nodes \o queues)
  <2>1. <<"t1", "t2">> = [i \in {1, 2} |-> <<"t1", "t2">>[i]]
    OBVIOUS
  <2>2. [i \in DOMAIN <<"t1", "t2">> |-> Endpoint(o, <<"t1", "t2">>[i])] = <<a, b>>
    OBVIOUS
  <2> QED
    BY <2>2 DEF RabbitMQRun, Each
<1>6. /\ IsSequence(a) /\ \A x : x \in ToSet(a) => x.status = IF o.t1 THEN "OK" ELSE "ERROR"
      /\ ~o.t1 => F("t1", Absent, "ERROR") \in ToSet(a)
  BY Said, Nothing, Fields DEF Endpoint, IfSo
<1>7. /\ IsSequence(b) /\ \A x : x \in ToSet(b) => x.status = IF o.t2 THEN "OK" ELSE "ERROR"
      /\ ~o.t2 => F("t2", Absent, "ERROR") \in ToSet(b)
  BY Said, Nothing, Fields DEF Endpoint, IfSo
<1>8. (o.t1 \/ o.t2) <=> base(o) # Absent
  BY DEF base, Absent
<1>17. ~o.sameHost => \A x : x \in ToSet(nodes) =>
         \/ x = F("nodes", Absent, "ERROR") \/ x = F("node1", Absent, "OK") \/ x = F("node2", Absent, node)
  <2> SUFFICES ASSUME ~o.sameHost
               PROVE  \A x : x \in ToSet(nodes) => \/ x = F("nodes", Absent, "ERROR")
                        \/ x = F("node1", Absent, "OK") \/ x = F("node2", Absent, node)
    OBVIOUS
  <2>1. shortNode(o, "node1") = "node1" /\ shortNode(o, "node2") = "node2"
    BY DEF shortNode
  <2> HIDE DEF nodes, node
  <2> QED
    BY <1>3, <2>1, Said, Added
<1>18. \A x : x \in ToSet(queues) => x = F("queues", Absent, "ERROR") \/ x = F("queue", Absent, queue)
  <2> HIDE DEF queues, queue
  <2> QED
    BY <1>4, Said
<1>19. /\ \A x : x \in ToSet(a) => x = F("t1", Absent, IF o.t1 THEN "OK" ELSE "ERROR")
       /\ \A x : x \in ToSet(b) => x = F("t2", Absent, IF o.t2 THEN "OK" ELSE "ERROR")
  BY Said, Nothing DEF Endpoint, IfSo
<1> HIDE DEF a, b, nodes, queues, node, queue
<1>9. IsSequence(each) /\ \A x : x \in ToSet(each) <=> x \in ToSet(a) \/ x \in ToSet(b)
  BY <1>6, <1>7, FlattenedTwo
<1>10. /\ IsSequence(nodes)
       /\ \A x : x \in ToSet(nodes) => x.status \in Status /\ (x.status = "ERROR" => ~o.nodes)
       /\ ~o.running \/ ~o.memory \/ ~o.disk => \E x : x \in ToSet(nodes) /\ x.status \in {"BAD", "ERROR"}
  <2>1. CASE ~o.nodes
    BY <1>3, <2>1, Said, Fields DEF Status
  <2>2. CASE o.nodes
    BY <1>1, <1>3, <2>2, Said, Added, Fields DEF Status
  <2> QED
    BY <2>1, <2>2
<1>11. /\ IsSequence(queues)
       /\ \A x : x \in ToSet(queues) => x.status \in Status /\ (x.status = "ERROR" => ~o.queues)
  BY <1>2, <1>4, Said, Fields DEF Status
<1> HIDE DEF each, fs
<1>12. IsSequence(fs) /\ \A x : x \in ToSet(fs) <=> \/ x \in ToSet(each)
                                                    \/ (o.t1 \/ o.t2) /\ (x \in ToSet(nodes) \/ x \in ToSet(queues))
  <2>1. /\ IsSequence(IfSo(base(o) # Absent, nodes \o queues))
        /\ \A x : x \in ToSet(IfSo(base(o) # Absent, nodes \o queues)) <=>
                    (o.t1 \/ o.t2) /\ (x \in ToSet(nodes) \/ x \in ToSet(queues))
    BY <1>8, <1>10, <1>11, Added, Nothing DEF IfSo
  <2> QED
    BY <1>5, <1>9, <2>1, Added
<1>13. Typed(fs)
  BY <1>6, <1>7, <1>9, <1>10, <1>11, <1>12 DEF Typed, Status
<1>14. ~o.t1 \/ ~o.t2 => Fails(fs)
  BY <1>6, <1>7, <1>9, <1>12, Fields DEF Fails
<1>15. Fails(fs) => ~o.t1 \/ ~o.t2 \/ ~o.nodes \/ ~o.queues
  BY <1>6, <1>7, <1>9, <1>10, <1>11, <1>12 DEF Fails
<1>16. ~o.running \/ ~o.memory \/ ~o.disk => IsRed(fs)
  BY <1>6, <1>7, <1>9, <1>10, <1>12, Fields DEF IsRed
<1>20. ~o.sameHost => Agrees(fs)
  <2> SUFFICES ASSUME ~o.sameHost PROVE Agrees(fs)
    OBVIOUS
  <2>1. \A x : x \in ToSet(fs) => \/ x = F("t1", Absent, IF o.t1 THEN "OK" ELSE "ERROR")
                                  \/ x = F("t2", Absent, IF o.t2 THEN "OK" ELSE "ERROR")
                                  \/ x = F("nodes", Absent, "ERROR") \/ x = F("node1", Absent, "OK")
                                  \/ x = F("node2", Absent, node) \/ x = F("queues", Absent, "ERROR")
                                  \/ x = F("queue", Absent, queue)
    BY ONLY <1>9, <1>12, <1>17, <1>18, <1>19, ~o.sameHost
  <2> QED
    BY <2>1, Fields DEF Agrees
<1> QED
  BY <1>13, <1>14, <1>15, <1>16, <1>20 DEF fs

\* The reports of module nats.
LEMMA NatsReport ==
  ASSUME NEW c \in NatsConfig, NEW o, Sees(NatsScale, o)
  PROVE  /\ Typed(NatsRun(c, o))
         /\ c.expectPeers = {} => Agrees(NatsRun(c, o))
         /\ Fails(NatsRun(c, o)) <=> ~o.resolved \/ ~o.s1 \/ ~o.s2
<1>1. o.resolved \in BOOLEAN
  BY Truths DEF Sees, NatsScale, ToSet
<1> DEFINE Well3 == {"OK", "WARN", "BAD"}
           Mild(fs) == IsSequence(fs) /\ \A x : x \in ToSet(fs) => x.status \in Well3
           views == NatsFetch(o)
           four == <<"s1", "s2", "s3", "s4">>
           three == <<"s1", "s2", "s3">>
<1>2. IsSequence(four) /\ IsSequence(three)
  <2>1. four \in Seq({"s1", "s2", "s3", "s4"}) /\ three \in Seq({"s1", "s2", "s3"})
    OBVIOUS
  <2> QED
    BY <2>1, SequenceOf
<1>3. ASSUME NEW xs, IsSequence(xs), NEW P \in SUBSET DOMAIN xs
      PROVE  IsSequence(Pick(xs, P))
  BY <1>3, PickedSequence
<1>4. Mild(Leader(c, views))
  <2>1. \E s \in Well3 : Leader(c, views) = Say("meta-cluster", Absent, s)
    BY DEF Leader, Warn
  <2> QED
    BY <2>1, Said, Fields
<1>5. \A S : Mild(ghostFindings(c, S))
  <2> SUFFICES ASSUME NEW S PROVE Mild(ghostFindings(c, S))
    OBVIOUS
  <2> DEFINE P == {i \in DOMAIN four : four[i] \in S \ c.expectPeers}
             Q == {i \in DOMAIN three : three[i] \in c.expectPeers \ S}
             ghosts == Pick(four, P)
             missing == Pick(three, Q)
             gs == [i \in DOMAIN ghosts |-> Say(ghosts[i], Absent, "WARN")]
             ms == [i \in DOMAIN missing |-> Say(missing[i], Absent, "BAD")]
  <2>1. ghostFindings(c, S) = IfSo(c.expectPeers # {}, FlattenSeq(gs) \o FlattenSeq(ms))
    BY DEF ghostFindings, Each, Only
  <2>2. P \in SUBSET DOMAIN four /\ Q \in SUBSET DOMAIN three
    OBVIOUS
  <2> HIDE DEF P, Q
  <2>3. IsSequence(ghosts) /\ IsSequence(missing)
    <3> HIDE DEF four, three
    <3> QED
      BY <1>2, <1>3, <2>2
  <2> HIDE DEF ghosts, missing
  <2>4. /\ gs = [i \in DOMAIN ghosts |-> gs[i]] /\ \A i \in DOMAIN ghosts : Spoken(gs[i], Well3)
        /\ ms = [i \in DOMAIN missing |-> ms[i]] /\ \A i \in DOMAIN missing : Spoken(ms[i], Well3)
    BY DEF Spoken
  <2> HIDE DEF gs, ms, Well3
  <2>5. Mild(FlattenSeq(gs)) /\ Mild(FlattenSeq(ms))
    BY <2>3, <2>4, EachSpoken
  <2>6. Mild(FlattenSeq(gs) \o FlattenSeq(ms))
    BY <2>5, Added
  <2> QED
    BY <2>1, <2>6, Nothing DEF IfSo
<1>6. Mild(analyzePeers(c, views))
  <2> DEFINE replicas == UNION {views[i].replicas : i \in DOMAIN views}
             P == {i \in DOMAIN four : \E p \in replicas : p.name = four[i]}
             members == {p.name : p \in replicas} \cup ({views[i].leader : i \in DOMAIN views} \ {Absent})
                          \cup {views[i].responder : i \in DOMAIN views}
             known == Pick(four, P)
             of(n) == peerFinding(c, n, Merged({p \in replicas : p.name = n}))
             ss == [i \in DOMAIN known |-> of(known[i])]
  <2>1. analyzePeers(c, views) = FlattenSeq(ss) \o ghostFindings(c, members)
    BY DEF analyzePeers, Each, Only
  <2>2. P \in SUBSET DOMAIN four
    OBVIOUS
  <2> HIDE DEF P
  <2>3. IsSequence(known)
    <3> HIDE DEF four
    <3> QED
      BY <1>2, <1>3, <2>2
  <2>4. \A n, p : Spoken(peerFinding(c, n, p), Well3)
    BY DEF Spoken, peerFinding, Level
  <2>5. ss = [i \in DOMAIN known |-> ss[i]] /\ \A i \in DOMAIN known : Spoken(ss[i], Well3)
    BY <2>4
  <2> HIDE DEF ss, known, Well3, members
  <2>6. Mild(FlattenSeq(ss)) /\ Mild(ghostFindings(c, members))
    BY <1>5, <2>3, <2>5, EachSpoken
  <2> QED
    BY <2>1, <2>6, Added
<1>7. Mild(analyzeMeta(c, views))
  <2>1. Mild(Leader(c, views) \o analyzePeers(c, views))
    BY <1>4, <1>6, Added
  <2> QED
    BY <2>1, Nothing DEF analyzeMeta, IfSo
<1>8. Mild(MixedVersions(o))
  BY Said, Nothing, Fields DEF MixedVersions, IfSo
<1> DEFINE replicas == UNION {views[i].replicas : i \in DOMAIN views}
           of(n) == Merged({p \in replicas : p.name = n})
           g == [n \in {"s1", "s2", "s3", "s4"} |->
                   IF of(n).offline THEN "BAD" ELSE IF ~of(n).current THEN "WARN"
                   ELSE Level(of(n).lag, c.lagWarn, c.lagCrit)]
\* Without a list of peers to expect, each peer has one finding.
<1>15. ASSUME c.expectPeers = {}
       PROVE  \A x : x \in ToSet(analyzePeers(c, views)) =>
                x.target \in {"s1", "s2", "s3", "s4"} /\ x = F(x.target, Absent, g[x.target])
  <2> DEFINE P == {i \in DOMAIN four : \E p \in replicas : p.name = four[i]}
             members == {p.name : p \in replicas} \cup ({views[i].leader : i \in DOMAIN views} \ {Absent})
                          \cup {views[i].responder : i \in DOMAIN views}
             known == Pick(four, P)
             ss == [i \in DOMAIN known |-> peerFinding(c, known[i], of(known[i]))]
  <2>1. analyzePeers(c, views) = FlattenSeq(ss) \o ghostFindings(c, members)
    BY DEF analyzePeers, Each, Only
  <2>2. ghostFindings(c, members) = <<>>
    BY <1>15 DEF ghostFindings, IfSo
  <2>3. P \in SUBSET DOMAIN four
    OBVIOUS
  <2>4. \A i \in DOMAIN four : four[i] \in {"s1", "s2", "s3", "s4"}
    OBVIOUS
  <2> HIDE DEF P, members
  <2>5. IsSequence(known) /\ \A x : x \in ToSet(known) => x \in {"s1", "s2", "s3", "s4"}
    <3> HIDE DEF four
    <3> QED
      BY <1>2, <2>3, <2>4, PickedSequence
  <2>6. \A n \in {"s1", "s2", "s3", "s4"} : peerFinding(c, n, of(n)) = Say(n, Absent, g[n])
    BY DEF peerFinding
  <2> HIDE DEF known, g, of
  <2>7. \A i \in DOMAIN known : known[i] \in {"s1", "s2", "s3", "s4"}
    BY <2>5 DEF ToSet
  <2>8. ss = [i \in DOMAIN known |-> ss[i]] /\ \A i \in DOMAIN known : ss[i] = Say(known[i], Absent, g[known[i]])
    BY <2>6, <2>7
  <2> HIDE DEF ss
  <2>9. \A i \in DOMAIN known : /\ IsSequence(ss[i])
                               /\ \A x : x \in ToSet(ss[i]) => x = F(known[i], Absent, g[known[i]])
    BY <2>8, Said
  <2>10. IsSequence(FlattenSeq(ss)) /\ \A x : x \in ToSet(FlattenSeq(ss)) <=> \E i \in DOMAIN known : x \in ToSet(ss[i])
    BY <2>5, <2>8, <2>9, FlattenedEach
  <2>11. \A x : x \in ToSet(FlattenSeq(ss)) =>
           x.target \in {"s1", "s2", "s3", "s4"} /\ x = F(x.target, Absent, g[x.target])
    BY <2>7, <2>9, <2>10, Fields
  <2>12. \A x : x \in ToSet(analyzePeers(c, views)) <=> x \in ToSet(FlattenSeq(ss))
    BY <2>1, <2>2, <2>10, Nothing, Added
  <2> QED
    BY <2>11, <2>12
<1>16. /\ IsSequence(Leader(c, views))
       /\ \E st : \A x : x \in ToSet(Leader(c, views)) => x = F("meta-cluster", Absent, st)
  <2>1. PICK st : Leader(c, views) = Say("meta-cluster", Absent, st)
    BY DEF Leader
  <2> QED
    BY <2>1, Said
<1>17. \A x : x \in ToSet(MixedVersions(o)) => x = F("cluster", Absent, "WARN")
  BY Said, Nothing DEF MixedVersions, IfSo
<1> HIDE DEF g
<1>18. \A x : x \in ToSet(analyzeMeta(c, views)) =>
         x \in ToSet(Leader(c, views)) \/ x \in ToSet(analyzePeers(c, views))
  <2>1. IsSequence(analyzePeers(c, views))
    BY <1>6
  <2> QED
    BY <1>16, <2>1, Added, Nothing DEF analyzeMeta, IfSo
<1> DEFINE a == Say("s1", "monitoring", IF o.s1 THEN "OK" ELSE "ERROR")
           b == Say("s2", "monitoring", IF o.s2 THEN "OK" ELSE "ERROR")
           fs == NatsRun(c, o)
           meta == analyzeMeta(c, views)
<1>9. /\ IsSequence(Reachability(o))
      /\ \A x : x \in ToSet(Reachability(o)) <=> \/ x = F("s1", "monitoring", IF o.s1 THEN "OK" ELSE "ERROR")
                                                 \/ x = F("s2", "monitoring", IF o.s2 THEN "OK" ELSE "ERROR")
  <2>1. [i \in DOMAIN <<"s1", "s2">> |-> Say(<<"s1", "s2">>[i], "monitoring", IF o[<<"s1", "s2">>[i]] THEN "OK" ELSE "ERROR")]
        = <<a, b>>
    OBVIOUS
  <2>2. Reachability(o) = FlattenSeq(<<a, b>>)
    BY <2>1 DEF Reachability, Each
  <2> QED
    BY <2>2, Said, FlattenedTwo
<1>10. fs = Unresolved(o) \o Reachability(o) \o MixedVersions(o) \o meta
  BY DEF NatsRun
<1> HIDE DEF fs, meta
<1>11. IsSequence(fs) /\ \A x : x \in ToSet(fs) <=> \/ ~o.resolved /\ x = F("discovery", Absent, "ERROR")
                                                    \/ x \in ToSet(Reachability(o))
                                                    \/ x \in ToSet(MixedVersions(o)) \/ x \in ToSet(meta)
  BY <1>1, <1>7, <1>8, <1>9, <1>10, EachTarget, Added DEF meta
<1>12. Typed(fs)
  BY <1>7, <1>8, <1>9, <1>11, Fields DEF Typed, Status, meta
<1>13. Fails(fs) <=> ~o.resolved \/ ~o.s1 \/ ~o.s2
  BY <1>7, <1>8, <1>9, <1>11, Fields DEF Fails, meta
<1>19. c.expectPeers = {} => Agrees(fs)
  <2> SUFFICES ASSUME c.expectPeers = {} PROVE Agrees(fs)
    OBVIOUS
  <2>1. PICK st : \A x : x \in ToSet(Leader(c, views)) => x = F("meta-cluster", Absent, st)
    BY <1>16
  <2>2. \A x : x \in ToSet(analyzePeers(c, views)) =>
          x.target \in {"s1", "s2", "s3", "s4"} /\ x = F(x.target, Absent, g[x.target])
    BY <1>15
  <2> HIDE DEF views
  <2>3. \A x : x \in ToSet(fs) =>
          \/ x = F("discovery", Absent, "ERROR") \/ x = F("cluster", Absent, "WARN")
          \/ x = F("s1", "monitoring", IF o.s1 THEN "OK" ELSE "ERROR")
          \/ x = F("s2", "monitoring", IF o.s2 THEN "OK" ELSE "ERROR")
          \/ x = F("meta-cluster", Absent, st)
          \/ x.target \in {"s1", "s2", "s3", "s4"} /\ x = F(x.target, Absent, g[x.target])
    BY ONLY <1>9, <1>11, <1>17, <1>18, <2>1, <2>2 DEF meta
  <2> QED
    BY ONLY <2>3, Fields DEF Agrees, Absent
<1> QED
  BY <1>12, <1>13, <1>19 DEF fs

\* The recursion of readVarint is one over the length of what is left, and so has a solution.
Varints == [Seq(0 .. 255) -> [value : Nat, ok : BOOLEAN]]
Unread == [value |-> 0, ok |-> FALSE]
Reads(g, b) ==
  IF b = <<>> THEN [value |-> 0, ok |-> FALSE]
  ELSE IF b[1] < 128 THEN [value |-> b[1], ok |-> TRUE]
  ELSE [value |-> (b[1] % 128) + 128 * g[Tail(b)].value, ok |-> g[Tail(b)].ok]

\* The first byte of a list, and the others.
LEMMA FirstAndRest ==
  ASSUME NEW S, NEW b \in Seq(S), b # <<>>
  PROVE  b[1] \in S /\ Tail(b) \in Seq(S) /\ Len(Tail(b)) + 1 = Len(b) /\ Len(b) \in Nat
<1>1. Len(b) \in Nat \ {0}
  BY EmptySeq
<1>2. 1 \in 1 .. Len(b)
  BY <1>1
<1>3. b[1] \in S
  BY <1>2, ElementOfSeq
<1>4. Tail(b) \in Seq(S) /\ Len(Tail(b)) = Len(b) - 1
  BY HeadTailProperties
<1> QED
  BY <1>1, <1>3, <1>4

\* Two lists of two bytes.
LEMMA TwoAndTwo ==
  ASSUME NEW S, NEW x \in S, NEW y \in S, NEW z \in S, NEW w \in S
  PROVE  /\ <<x, y>> \o <<z, w>> = <<x, y, z, w>>
         /\ SubSeq(<<x, y, z, w>>, 3, 4) = <<z, w>>
<1> DEFINE a == <<x, y>>
           b == <<z, w>>
           ab == <<x, y, z, w>>
<1>1. a \in Seq(S) /\ Len(a) = 2 /\ a[1] = x /\ a[2] = y
  OBVIOUS
<1>2. b \in Seq(S) /\ Len(b) = 2 /\ b[1] = z /\ b[2] = w
  OBVIOUS
<1>3. ab \in Seq(S) /\ Len(ab) = 4 /\ ab[1] = x /\ ab[2] = y /\ ab[3] = z /\ ab[4] = w
  OBVIOUS
<1> HIDE DEF a, b, ab
<1>4. /\ a \o b \in Seq(S) /\ Len(a \o b) = 4
      /\ \A i \in 1 .. 4 : (a \o b)[i] = IF i <= 2 THEN a[i] ELSE b[i - 2]
  <2>1. /\ a \o b \in Seq(S) /\ Len(a \o b) = Len(a) + Len(b)
        /\ \A i \in 1 .. Len(a) + Len(b) : (a \o b)[i] = IF i <= Len(a) THEN a[i] ELSE b[i - Len(a)]
    BY <1>1, <1>2, ConcatProperties
  <2>2. Len(a) + Len(b) = 4 /\ Len(a) = 2
    BY <1>1, <1>2
  <2> QED
    BY <2>1, <2>2
<1>5. \A i \in 1 .. 4 : i = 1 \/ i = 2 \/ i = 3 \/ i = 4
  OBVIOUS
<1>6. (a \o b)[1] = x /\ (a \o b)[2] = y /\ (a \o b)[3] = z /\ (a \o b)[4] = w
  <2>1. 1 \in 1 .. 4 /\ 2 \in 1 .. 4 /\ 3 \in 1 .. 4 /\ 4 \in 1 .. 4 /\ 3 - 2 = 1 /\ 4 - 2 = 2
    OBVIOUS
  <2> QED
    BY <1>1, <1>2, <1>4, <2>1
<1>7. a \o b = ab
  <2>1. \A i \in 1 .. Len(a \o b) : (a \o b)[i] = ab[i]
    BY <1>3, <1>4, <1>5, <1>6
  <2> QED
    BY <1>3, <1>4, <2>1, SeqEqual
<1>8. SubSeq(ab, 3, 4) = b
  <2>1. \A i \in 3 .. 4 : ab[i] \in S
    BY <1>3
  <2>2. /\ SubSeq(ab, 3, 4) \in Seq(S)
        /\ Len(SubSeq(ab, 3, 4)) = IF 3 <= 4 THEN 4 - 3 + 1 ELSE 0
        /\ \A i \in 1 .. 4 - 3 + 1 : SubSeq(ab, 3, 4)[i] = ab[3 + i - 1]
    BY <2>1, SubSeqProperties
  <2>3. Len(SubSeq(ab, 3, 4)) = 2
    BY <2>2
  <2>4. SubSeq(ab, 3, 4)[1] = z /\ SubSeq(ab, 3, 4)[2] = w
    <3>1. 1 \in 1 .. 4 - 3 + 1 /\ 2 \in 1 .. 4 - 3 + 1 /\ 3 + 1 - 1 = 3 /\ 3 + 2 - 1 = 4
      OBVIOUS
    <3> QED
      BY <1>3, <2>2, <3>1
  <2>5. \A i \in 1 .. Len(SubSeq(ab, 3, 4)) : SubSeq(ab, 3, 4)[i] = b[i]
    <3>1. \A i \in 1 .. 2 : i = 1 \/ i = 2
      OBVIOUS
    <3> QED
      BY <1>2, <2>3, <2>4, <3>1
  <2> QED
    BY <1>2, <2>2, <2>3, <2>5, SeqEqual
<1> QED
  BY <1>7, <1>8 DEF a, b, ab

\* readVarint, which is defined by recursion on what is left to read, has the equation that
\* defines it.
LEMMA ReadVarint == \A b \in Seq(0 .. 255) : readVarint[b] = Reads(readVarint, b)
<1> DEFINE B == Seq(0 .. 255)
           v == [b \in B |-> Unread]
           D == [n \in Nat |-> [g \in Varints |-> [b \in B |-> Reads(g, b)]]]
<1>1. v \in Varints
  BY DEF Varints, Unread
<1>2. \A g \in Varints, b \in B : Reads(g, b) \in [value : Nat, ok : BOOLEAN]
  <2> SUFFICES ASSUME NEW g \in Varints, NEW b \in B PROVE Reads(g, b) \in [value : Nat, ok : BOOLEAN]
    OBVIOUS
  <2>1. CASE b = <<>>
    BY <2>1 DEF Reads
  <2>2. CASE b # <<>>
    <3>1. b[1] \in 0 .. 255 /\ Tail(b) \in B
      BY <2>2, FirstAndRest
    <3>2. g[Tail(b)] \in [value : Nat, ok : BOOLEAN]
      BY <3>1 DEF Varints
    <3>3. b[1] \in Nat /\ b[1] % 128 \in Nat
      <4>1. \A n \in 0 .. 255 : n \in Nat /\ n % 128 \in Nat
        OBVIOUS
      <4> QED
        BY ONLY <3>1, <4>1
    <3>4. (b[1] % 128) + 128 * g[Tail(b)].value \in Nat
      BY <3>2, <3>3
    <3> QED
      BY <2>2, <3>2, <3>3, <3>4 DEF Reads
  <2> QED
    BY <2>1, <2>2
<1>3. D \in [Nat -> [Varints -> Varints]]
  <2>1. \A g \in Varints : [b \in B |-> Reads(g, b)] \in Varints
    BY <1>2 DEF Varints
  <2> QED
    BY <2>1
<1>4. PICK f \in [Nat -> Varints] : f[0] = v /\ \A n \in Nat : f[n + 1] = D[n][f[n]]
  <2> HIDE DEF D, v
  <2>1. PICK f \in [Nat -> Varints] : Recurs(f, v, D)
    BY <1>1, <1>3, Recursion
  <2> QED
    BY <2>1 DEF Recurs
<1> DEFINE h == [b \in B |-> f[Len(b) + 1][b]]
<1>5. h = [b \in B |-> Reads(h, b)]
  <2>0. h = [b \in B |-> h[b]]
    BY DEF h
  <2> SUFFICES ASSUME NEW b \in B PROVE h[b] = Reads(h, b)
    <3> HIDE DEF h
    <3> QED
      BY ONLY <2>0, \A b \in B : h[b] = Reads(h, b)
  <2>1. Len(b) \in Nat
    OBVIOUS
  <2>2. f[Len(b) + 1] = [x \in B |-> Reads(f[Len(b)], x)]
    <3>1. f[Len(b) + 1] = D[Len(b)][f[Len(b)]] /\ f[Len(b)] \in Varints
      BY ONLY <1>4, <2>1, f \in [Nat -> Varints]
    <3>2. D[Len(b)][f[Len(b)]] = [x \in B |-> Reads(f[Len(b)], x)]
      BY ONLY <2>1, <3>1 DEF D
    <3> QED
      BY ONLY <3>1, <3>2
  <2>3. h[b] = Reads(f[Len(b)], b)
    BY <2>2
  <2>4. CASE b = <<>>
    BY <2>3, <2>4 DEF Reads
  <2>5. CASE b # <<>>
    <3>1. Tail(b) \in B /\ Len(Tail(b)) + 1 = Len(b)
      BY <2>5, FirstAndRest
    <3>2. h[Tail(b)] = f[Len(b)][Tail(b)]
      BY <3>1
    <3> QED
      BY <2>3, <2>5, <3>2 DEF Reads
  <2> QED
    BY <2>4, <2>5
<1>6. readVarint = CHOOSE g : g = [b \in B |-> Reads(g, b)]
  BY DEF readVarint, Reads
<1> HIDE DEF h
<1>7. \E g : g = [b \in B |-> Reads(g, b)]
  BY ONLY <1>5
<1>8. readVarint = [b \in B |-> Reads(readVarint, b)]
  BY ONLY <1>6, <1>7, Zenon
<1> QED
  BY <1>8

\* The reports of module grpc.
LEMMA GrpcReport ==
  ASSUME NEW c \in GrpcConfig, NEW o, Sees(GrpcScale, o)
  PROVE  /\ Typed(GrpcRun(c, o))
         /\ Agrees(GrpcRun(c, o))
         /\ ~o.connects => Fails(GrpcRun(c, o))
         /\ Fails(GrpcRun(c, o)) => ~c.caReadable \/ ~o.connects \/ o.grpcStatus = 14 \/ ~o.whole \/ o.field # 8
<1>1. o.serving \in {0, 1, 2, 3} /\ o.grpcStatus \in {0, 5, 12, 14}
  BY DEF Sees, GrpcScale, ToSet
<1> DEFINE answer == decodeHealthResponse(Frame(o))
           msg == <<8, o.serving>>
<1>2. o.whole /\ o.field = 8 => answer.ok
  <2> SUFFICES ASSUME o.whole, o.field = 8 PROVE answer.ok
    OBVIOUS
  <2>1. CASE o.serving = 0
    <3> DEFINE frame == <<0, 0>>
    <3>1. Frame(o) = frame
      BY <2>1 DEF Frame
    <3>2. Len(frame) = 2 /\ frame[2] = 0 /\ SubSeq(frame, 3, Len(frame)) = <<>>
      OBVIOUS
    <3> HIDE DEF frame
    <3>3. Len(<<>>) = 0
      OBVIOUS
    <3> QED
      BY <3>1, <3>2, <3>3 DEF decodeHealthResponse
  <2>2. CASE o.serving # 0
    <3> DEFINE frame == <<0, 2, 8, o.serving>>
               rest == <<o.serving>>
    <3>1. Frame(o) = frame /\ SubSeq(frame, 3, 4) = msg
      <4>1. 0 \in Int /\ 2 \in Int /\ 8 \in Int /\ o.serving \in Int
        BY <1>1
      <4>2. <<0, 2>> \o msg = frame /\ SubSeq(frame, 3, 4) = msg
        BY <4>1, TwoAndTwo
      <4>3. Len(msg) = 2
        OBVIOUS
      <4>4. Frame(o) = <<0, Len(<<o.field, o.serving>>)>> \o <<o.field, o.serving>>
        BY <2>2 DEF Frame
      <4>5. <<o.field, o.serving>> = msg
        OBVIOUS
      <4> HIDE DEF frame
      <4> QED
        BY ONLY <4>2, <4>3, <4>4, <4>5
    <3>2. frame \in Seq(Int) /\ Len(frame) = 4 /\ frame[2] = 2 /\ frame[3] = 8 /\ frame[4] = o.serving
      BY <1>1
    <3>4. Len(msg) = 2 /\ msg # <<>> /\ msg[1] = 8 /\ Tail(msg) = rest
      OBVIOUS
    <3>5. rest \in Seq(0 .. 255) /\ rest # <<>> /\ rest[1] < 128 /\ rest[1] = o.serving
      BY <1>1
    <3> HIDE DEF rest, msg, frame
    <3>6. readVarint[rest] = [value |-> o.serving, ok |-> TRUE]
      BY <3>5, ReadVarint DEF Reads
    <3>7. answer = [status |-> readVarint[rest].value, ok |-> msg[1] = 8 /\ readVarint[rest].ok]
      <4>1. ~(Len(frame) < 2 \/ frame[2] > Len(msg)) /\ Len(frame) = 4
        BY <3>2, <3>4
      <4>2. SubSeq(frame, 3, Len(frame)) = msg
        BY <3>1, <4>1
      <4> QED
        BY <3>1, <3>4, <4>1, <4>2 DEF decodeHealthResponse
    <3>8. answer.ok = (msg[1] = 8 /\ readVarint[rest].ok)
      BY ONLY <3>7
    <3>9. readVarint[rest].ok
      BY <3>6
    <3> QED
      BY <3>4, <3>8, <3>9
  <2> QED
    BY <2>1, <2>2
<1> HIDE DEF answer
<1> DEFINE st == FirstOf(<<Error(~c.caReadable \/ ~o.connects),
                          IF o.grpcStatus # 0 THEN ofGrpcStatus(o.grpcStatus) ELSE "OK",
                          Error(~answer.ok), ofServing(answer.status)>>)
<1>3. /\ st \in Status
      /\ ~o.connects => st = "ERROR"
      /\ st = "ERROR" => ~c.caReadable \/ ~o.connects \/ o.grpcStatus = 14 \/ ~o.whole \/ o.field # 8
  BY <1>1, <1>2, FirstOfFour DEF Error, ofGrpcStatus, ofServing, Status
<1>4. GrpcRun(c, o) = Say("given", Absent, st)
  BY DEF GrpcRun, GrpcProbe, answer
<1> HIDE DEF st
<1> USE <1>3, <1>4, Said, Fields
<1>5. Typed(GrpcRun(c, o))
  BY DEF Typed
<1>6. Agrees(GrpcRun(c, o))
  BY DEF Agrees
<1>7. ~o.connects => Fails(GrpcRun(c, o))
  BY DEF Fails
<1>8. Fails(GrpcRun(c, o)) => ~c.caReadable \/ ~o.connects \/ o.grpcStatus = 14 \/ ~o.whole \/ o.field # 8
  BY DEF Fails
<1> QED
  BY ONLY <1>5, <1>6, <1>7, <1>8

-----------------------------------------------------------------------------
(***************************************************************************)
(* A state of a behaviour, and what is asked of the report in it.  The     *)
(* report of each module is right because what it sees is at the best or   *)
(* at the worst of its scale where its place is.                           *)
(***************************************************************************)

\* A place on the scale of everything that can be seen of the server.
OnScale ==
  /\ check \in Checks /\ cfg \in Configs[check] /\ server \in Servers[check]
  /\ DOMAIN place = DOMAIN Scale
  /\ \A f \in DOMAIN Scale : place[f] \in DOMAIN Scale[f]

IsGrade(s) == Len(s) \in Nat \ {0} /\ DOMAIN s = 1 .. Len(s)

Graded(scale) == \A f \in DOMAIN scale : IsGrade(scale[f])

Apart(server_, scale) == \A f \in DOMAIN scale : f \notin DOMAIN server_

\* A Raft cluster of known size without its quorum.
Minority == check = "consul" /\ cfg.expectPeers > 0 /\ 2 * Seen(place).peers <= cfg.expectPeers

\* What is asked of a report.
Right ==
  /\ Typed(Verdict(place))
  /\ ~SharesTargets => Agrees(Verdict(place))
  /\ (\E f \in Contact[check] : place[f] = Len(Scale[f])) => Fails(Verdict(place))
  /\ Fails(Verdict(place)) => ~Sound \/ Unmeasured(Seen(place))
  /\ (\E f \in Outage : place[f] = Len(Scale[f])) => IsRed(Verdict(place))
  /\ Minority => IsRed(Verdict(place))
  /\ check \in Discovers => \A t \in Unreached : Blames(Verdict(place), t)

Ends(o) ==
  \A f \in DOMAIN Scale : place[f] = Len(Scale[f]) => o[f] = Scale[f][Len(Scale[f])]

\* The scale of truth.
LEMMA OfBool == Len(Bool) = 2 /\ DOMAIN Bool = 1 .. 2 /\ Bool[1] = TRUE /\ Bool[2] = FALSE
BY DEF Bool

\* Scales of up to six.
LEMMA Grades ==
  /\ IsGrade(Bool)
  /\ \A a, b : IsGrade(<<a, b>>)
  /\ \A a, b, c : IsGrade(<<a, b, c>>)
  /\ \A a, b, c, d : IsGrade(<<a, b, c, d>>)
  /\ \A a, b, c, d, e : IsGrade(<<a, b, c, d, e>>)
  /\ \A a, b, c, d, e, f : IsGrade(<<a, b, c, d, e, f>>)
BY DEF IsGrade, Bool

\* Every scale has a best.
LEMMA AllGraded == \A k \in DOMAIN Scales : Graded(Scales[k])
<1>1. Graded(CassandraScale)
  BY Grades DEF Graded, CassandraScale, Handshake
<1>2. Graded(CertsScale)
  BY Grades DEF Graded, CertsScale
<1>3. Graded(ClickHouseScale)
  BY Grades DEF Graded, ClickHouseScale
<1>4. Graded(ConsulScale)
  BY Grades DEF Graded, ConsulScale, Listing
<1>5. Graded(DnsScale)
  BY Grades DEF Graded, DnsScale
<1>6. Graded(ElasticsearchScale)
  BY Grades DEF Graded, ElasticsearchScale
<1>7. Graded(EtcdScale)
  BY Grades DEF Graded, EtcdScale
<1>8. Graded(FlowScale)
  BY Grades DEF Graded, FlowScale
<1>9. Graded(GrpcScale)
  BY Grades DEF Graded, GrpcScale
<1>10. Graded(HAProxyScale)
  BY Grades DEF Graded, HAProxyScale
<1>11. Graded(HttpScale)
  BY Grades DEF Graded, HttpScale
<1>12. Graded(IngestScale)
  BY Grades DEF Graded, IngestScale
<1>13. Graded(KafkaScale)
  BY Grades DEF Graded, KafkaScale
<1>14. Graded(KeycloakScale)
  BY Grades DEF Graded, KeycloakScale
<1>15. Graded(LdapScale)
  BY Grades DEF Graded, LdapScale
<1>16. Graded(MediaMTXScale)
  BY Grades DEF Graded, MediaMTXScale
<1>17. Graded(MemcachedScale)
  BY Grades DEF Graded, MemcachedScale
<1>18. Graded(MongoDBScale)
  BY Grades DEF Graded, MongoDBScale
<1>19. Graded(MySQLScale)
  BY Grades DEF Graded, MySQLScale
<1>20. Graded(NatsScale)
  BY Grades DEF Graded, NatsScale
<1>21. Graded(NtpScale)
  BY Grades DEF Graded, NtpScale
<1>22. Graded(PatroniScale)
  BY Grades DEF Graded, PatroniScale
<1>23. Graded(PostgresScale)
  BY Grades DEF Graded, PostgresScale
<1>24. Graded(PqScale)
  BY Grades DEF Graded, PqScale
<1>25. Graded(RabbitMQScale)
  BY Grades DEF Graded, RabbitMQScale
<1>26. Graded(RedisScale)
  BY Grades DEF Graded, RedisScale
<1>27. Graded(S3Scale)
  BY Grades DEF Graded, S3Scale
<1>28. Graded(SmtpScale)
  BY Grades DEF Graded, SmtpScale
<1>29. Graded(StreamScale)
  BY Grades DEF Graded, StreamScale
<1>30. Graded(TcpScale)
  BY Grades DEF Graded, TcpScale
<1>31. Graded(TlsScale)
  BY Grades DEF Graded, TlsScale
<1>32. Graded(VaultScale)
  BY Grades DEF Graded, VaultScale
<1> QED
  BY <1>1, <1>2, <1>3, <1>4, <1>5, <1>6, <1>7, <1>8, <1>9, <1>10, <1>11, <1>12, <1>13, <1>14,
     <1>15, <1>16, <1>17, <1>18, <1>19, <1>20, <1>21, <1>22, <1>23, <1>24, <1>25, <1>26, <1>27,
     <1>28, <1>29, <1>30, <1>31, <1>32 DEF Scales

\* What a server is and how well it is are different things.
LEMMA AllApart == \A k \in DOMAIN Scales : \A s \in Servers[k] : Apart(s, Scales[k])
<1>1. \A s \in CassandraServer : Apart(s, CassandraScale)
  BY DEF Apart, CassandraScale, CassandraServer
<1>2. \A s \in CertsServer : Apart(s, CertsScale)
  BY DEF Apart, CertsScale, CertsServer
<1>3. \A s \in ClickHouseServer : Apart(s, ClickHouseScale)
  BY DEF Apart, ClickHouseScale, ClickHouseServer
<1>4. \A s \in ConsulServer : Apart(s, ConsulScale)
  BY DEF Apart, ConsulScale, ConsulServer
<1>5. \A s \in DnsServer : Apart(s, DnsScale)
  BY DEF Apart, DnsScale, DnsServer
<1>6. \A s \in ElasticsearchServer : Apart(s, ElasticsearchScale)
  BY DEF Apart, ElasticsearchScale, ElasticsearchServer
<1>7. \A s \in EtcdServer : Apart(s, EtcdScale)
  BY DEF Apart, EtcdScale, EtcdServer
<1>8. \A s \in FlowServer : Apart(s, FlowScale)
  BY DEF Apart, FlowScale, FlowServer
<1>9. \A s \in GrpcServer : Apart(s, GrpcScale)
  BY DEF Apart, GrpcScale, GrpcServer
<1>10. \A s \in HAProxyServer : Apart(s, HAProxyScale)
  BY DEF Apart, HAProxyScale, HAProxyServer
<1>11. \A s \in HttpServer : Apart(s, HttpScale)
  BY DEF Apart, HttpScale, HttpServer
<1>12. \A s \in IngestServer : Apart(s, IngestScale)
  BY DEF Apart, IngestScale, IngestServer
<1>13. \A s \in KafkaServer : Apart(s, KafkaScale)
  BY DEF Apart, KafkaScale, KafkaServer
<1>14. \A s \in KeycloakServer : Apart(s, KeycloakScale)
  BY DEF Apart, KeycloakScale, KeycloakServer
<1>15. \A s \in LdapServer : Apart(s, LdapScale)
  BY DEF Apart, LdapScale, LdapServer
<1>16. \A s \in MediaMTXServer : Apart(s, MediaMTXScale)
  BY DEF Apart, MediaMTXScale, MediaMTXServer
<1>17. \A s \in MemcachedServer : Apart(s, MemcachedScale)
  BY DEF Apart, MemcachedScale, MemcachedServer
<1>18. \A s \in MongoDBServer : Apart(s, MongoDBScale)
  BY DEF Apart, MongoDBScale, MongoDBServer
<1>19. \A s \in MySQLServer : Apart(s, MySQLScale)
  BY DEF Apart, MySQLScale, MySQLServer
<1>20. \A s \in NatsServer : Apart(s, NatsScale)
  BY DEF Apart, NatsScale, NatsServer
<1>21. \A s \in NtpServer : Apart(s, NtpScale)
  BY DEF Apart, NtpScale, NtpServer
<1>22. \A s \in PatroniServer : Apart(s, PatroniScale)
  BY DEF Apart, PatroniScale, PatroniServer
<1>23. \A s \in PostgresServer : Apart(s, PostgresScale)
  BY DEF Apart, PostgresScale, PostgresServer
<1>24. \A s \in PqServer : Apart(s, PqScale)
  BY DEF Apart, PqScale, PqServer
<1>25. \A s \in RabbitMQServer : Apart(s, RabbitMQScale)
  BY DEF Apart, RabbitMQScale, RabbitMQServer
<1>26. \A s \in RedisServer : Apart(s, RedisScale)
  BY DEF Apart, RedisScale, RedisServer
<1>27. \A s \in S3Server : Apart(s, S3Scale)
  BY DEF Apart, S3Scale, S3Server
<1>28. \A s \in SmtpServer : Apart(s, SmtpScale)
  BY DEF Apart, SmtpScale, SmtpServer
<1>29. \A s \in StreamServer : Apart(s, StreamScale)
  BY DEF Apart, StreamScale, StreamServer
<1>30. \A s \in TcpServer : Apart(s, TcpScale)
  BY DEF Apart, TcpScale, TcpServer
<1>31. \A s \in TlsServer : Apart(s, TlsScale)
  BY DEF Apart, TlsScale, TlsServer
<1>32. \A s \in VaultServer : Apart(s, VaultScale)
  BY DEF Apart, VaultScale, VaultServer
<1> QED
  BY <1>1, <1>2, <1>3, <1>4, <1>5, <1>6, <1>7, <1>8, <1>9, <1>10, <1>11, <1>12, <1>13, <1>14,
     <1>15, <1>16, <1>17, <1>18, <1>19, <1>20, <1>21, <1>22, <1>23, <1>24, <1>25, <1>26, <1>27,
     <1>28, <1>29, <1>30, <1>31, <1>32 DEF Scales, Servers

\* What is seen of a server that is placed.
LEMMA SeenOf ==
  ASSUME OnScale, check \in DOMAIN Scales
  PROVE  Sees(Scale, Seen(place)) /\ Meets(server, Seen(place)) /\ Ends(Seen(place))
<1>1. Graded(Scale) /\ Apart(server, Scale)
  BY AllGraded, AllApart DEF OnScale, Scale
<1>2. \A f \in DOMAIN Scale : Seen(place)[f] = Scale[f][place[f]]
  BY <1>1 DEF Seen, Apart
<1>3. Sees(Scale, Seen(place))
  BY <1>2 DEF Sees, ToSet, OnScale
<1>4. Meets(server, Seen(place))
  BY DEF Meets, Seen
<1>5. Ends(Seen(place))
  BY <1>2 DEF Ends
<1> QED
  BY <1>3, <1>4, <1>5

\* A report of module cassandra is right in every state.
LEMMA CassandraVerdict ==
  ASSUME OnScale, check = "cassandra"
  PROVE  Right
<1> DEFINE o == Seen(place)
<1>1. Scale = CassandraScale /\ cfg \in CassandraConfig /\ server \in CassandraServer
  BY DEF OnScale, Scale, Scales, Configs, Servers
<1>2. Sees(CassandraScale, o) /\ Meets(server, o) /\ Ends(o)
  BY <1>1, SeenOf DEF Scales
<1>3. Verdict(place) = CassandraRun(cfg, o)
  BY DEF Verdict, RunCheck
<1>4. /\ Contact[check] = {"n1"}
      /\ Outage = {}
      /\ Unmeasured(o) <=> ({o.n1, o.n2} \cap {"garbled", "down"} # {})
  BY DEF Contact, Outage, Unmeasured
<1>5. Sound
  BY <1>1 DEF Sound, CassandraConfig
<1>6. place["n1"] = Len(Scale["n1"]) => o.n1 = "down"
  BY <1>1, <1>2, OfBool DEF Ends, CassandraScale, Handshake
<1> HIDE DEF o
<1>7. Typed(Verdict(place))
  BY <1>1, <1>2, <1>3, CassandraReport
<1>8. ~SharesTargets => Agrees(Verdict(place))
  BY <1>1, <1>2, <1>3, CassandraReport
<1>9. (\E f \in Contact[check] : place[f] = Len(Scale[f])) => Fails(Verdict(place))
  BY <1>1, <1>2, <1>3, CassandraReport, <1>4, <1>6
<1>10. Fails(Verdict(place)) => ~Sound \/ Unmeasured(o)
  <2>1. Fails(Verdict(place)) => {o.n1, o.n2} \cap {"garbled", "down"} # {}
    BY <1>1, <1>2, <1>3, CassandraReport
  <2> QED
    BY ONLY <1>4, <1>5, <2>1
<1>11. (\E f \in Outage : place[f] = Len(Scale[f])) => IsRed(Verdict(place))
  BY <1>4
<1>12. Minority => IsRed(Verdict(place))
  BY DEF Minority
<1>13. check \in Discovers => \A t \in Unreached : Blames(Verdict(place), t)
  BY DEF Discovers
<1> QED
  BY ONLY <1>7, <1>8, <1>9, <1>10, <1>11, <1>12, <1>13 DEF Right, o

\* A report of module certs is right in every state.
LEMMA CertsVerdict ==
  ASSUME OnScale, check = "certs"
  PROVE  Right
<1> DEFINE o == Seen(place)
<1>1. Scale = CertsScale /\ cfg \in CertsConfig /\ server \in CertsServer
  BY DEF OnScale, Scale, Scales, Configs, Servers
<1>2. Sees(CertsScale, o) /\ Meets(server, o) /\ Ends(o)
  BY <1>1, SeenOf DEF Scales
<1>3. Verdict(place) = CertsRun(cfg, o)
  BY DEF Verdict, RunCheck
<1>4. /\ Contact[check] = {"resolved", "connects", "handshake"}
      /\ Outage = {"hours"}
      /\ Unmeasured(o) <=> (~o.resolved \/ ~o.connects \/ ~o.handshake)
  BY DEF Contact, Outage, Unmeasured, Requests
<1>5. Sound
  BY <1>1 DEF Sound, CertsConfig
<1>6. /\ place["resolved"] = Len(Scale["resolved"]) => ~o.resolved
      /\ place["connects"] = Len(Scale["connects"]) => ~o.connects
      /\ place["handshake"] = Len(Scale["handshake"]) => ~o.handshake
      /\ place["hours"] = Len(Scale["hours"]) => o.hours = -30
  BY <1>1, <1>2, OfBool DEF Ends, CertsScale
<1> HIDE DEF o
<1>7. Typed(Verdict(place))
  BY <1>1, <1>2, <1>3, CertsReport
<1>8. ~SharesTargets => Agrees(Verdict(place))
  BY <1>1, <1>2, <1>3, CertsReport
<1>9. (\E f \in Contact[check] : place[f] = Len(Scale[f])) => Fails(Verdict(place))
  BY <1>1, <1>2, <1>3, CertsReport, <1>4, <1>6
<1>10. Fails(Verdict(place)) => ~Sound \/ Unmeasured(o)
  <2>1. Fails(Verdict(place)) => ~o.resolved \/ ~o.connects \/ ~o.handshake
    BY <1>1, <1>2, <1>3, CertsReport
  <2> QED
    BY ONLY <1>4, <1>5, <2>1
<1>11. (\E f \in Outage : place[f] = Len(Scale[f])) => IsRed(Verdict(place))
  BY <1>1, <1>2, <1>3, CertsReport, <1>4, <1>6
<1>12. Minority => IsRed(Verdict(place))
  BY DEF Minority
<1>13. check \in Discovers => \A t \in Unreached : Blames(Verdict(place), t)
  BY <1>1, <1>2, <1>3, CertsReport, <1>4, <1>6 DEF Unreached, CertsScale
<1> QED
  BY ONLY <1>7, <1>8, <1>9, <1>10, <1>11, <1>12, <1>13 DEF Right, o

\* A report of module clickhouse is right in every state.
LEMMA ClickHouseVerdict ==
  ASSUME OnScale, check = "clickhouse"
  PROVE  Right
<1> DEFINE o == Seen(place)
<1>1. Scale = ClickHouseScale /\ cfg \in ClickHouseConfig /\ server \in ClickHouseServer
  BY DEF OnScale, Scale, Scales, Configs, Servers
<1>2. Sees(ClickHouseScale, o) /\ Meets(server, o) /\ Ends(o)
  BY <1>1, SeenOf DEF Scales
<1>3. Verdict(place) = ClickHouseRun(cfg, o)
  BY DEF Verdict, RunCheck
<1>4. /\ Contact[check] = {"ping"}
      /\ Outage = {}
      /\ Unmeasured(o) <=> (o.ping = "none" \/ ~o.version)
  BY DEF Contact, Outage, Unmeasured
<1>5. Sound
  BY <1>1 DEF Sound, ClickHouseConfig
<1>6. place["ping"] = Len(Scale["ping"]) => o.ping = "none"
  BY <1>1, <1>2, OfBool DEF Ends, ClickHouseScale
<1> HIDE DEF o
<1>7. Typed(Verdict(place))
  BY <1>1, <1>2, <1>3, ClickHouseReport
<1>8. ~SharesTargets => Agrees(Verdict(place))
  BY <1>1, <1>2, <1>3, ClickHouseReport
<1>9. (\E f \in Contact[check] : place[f] = Len(Scale[f])) => Fails(Verdict(place))
  BY <1>1, <1>2, <1>3, ClickHouseReport, <1>4, <1>6
<1>10. Fails(Verdict(place)) => ~Sound \/ Unmeasured(o)
  <2>1. Fails(Verdict(place)) => o.ping = "none" \/ ~o.version
    BY <1>1, <1>2, <1>3, ClickHouseReport
  <2> QED
    BY ONLY <1>4, <1>5, <2>1
<1>11. (\E f \in Outage : place[f] = Len(Scale[f])) => IsRed(Verdict(place))
  BY <1>4
<1>12. Minority => IsRed(Verdict(place))
  BY DEF Minority
<1>13. check \in Discovers => \A t \in Unreached : Blames(Verdict(place), t)
  BY DEF Discovers
<1> QED
  BY ONLY <1>7, <1>8, <1>9, <1>10, <1>11, <1>12, <1>13 DEF Right, o

\* A report of module consul is right in every state.
LEMMA ConsulVerdict ==
  ASSUME OnScale, check = "consul"
  PROVE  Right
<1> DEFINE o == Seen(place)
<1>1. Scale = ConsulScale /\ cfg \in ConsulConfig /\ server \in ConsulServer
  BY DEF OnScale, Scale, Scales, Configs, Servers
<1>2. Sees(ConsulScale, o) /\ Meets(server, o) /\ Ends(o)
  BY <1>1, SeenOf DEF Scales
<1>3. Verdict(place) = ConsulRun(cfg, o)
  BY DEF Verdict, RunCheck
<1>4. /\ Contact[check] = {"resolved", "given", "found"}
      /\ Outage = {"leader"} \cup (IF o.critical = "unread" THEN {} ELSE {"state", "other"})
      /\ Unmeasured(o) <=> (~o.resolved \/ ~o.given \/ ~o.found \/ ~o.leaderAnswers \/ ~o.peersAnswer
                         \/ ~o.kvAnswers \/ "fails" \in {o.critical, o.warning})
  BY DEF Contact, Outage, Unmeasured
<1>5. Sound
  BY <1>1 DEF Sound, ConsulConfig
<1>6. /\ place["resolved"] = Len(Scale["resolved"]) => ~o.resolved
      /\ place["given"] = Len(Scale["given"]) => ~o.given
      /\ place["found"] = Len(Scale["found"]) => ~o.found
      /\ place["leader"] = Len(Scale["leader"]) => o.leader = Absent
      /\ place["state"] = Len(Scale["state"]) => o.state = "critical"
      /\ place["other"] = Len(Scale["other"]) => o.other = "critical"
  BY <1>1, <1>2, OfBool DEF Ends, ConsulScale
<1> HIDE DEF o
<1>7. Typed(Verdict(place))
  BY <1>1, <1>2, <1>3, ConsulReport
<1>8. ~SharesTargets => Agrees(Verdict(place))
  BY DEF SharesTargets
<1>9. (\E f \in Contact[check] : place[f] = Len(Scale[f])) => Fails(Verdict(place))
  BY <1>1, <1>2, <1>3, ConsulReport, <1>4, <1>6
<1>10. Fails(Verdict(place)) => ~Sound \/ Unmeasured(o)
  <2>1. Fails(Verdict(place)) => ~o.resolved \/ ~o.given \/ ~o.found \/ ~o.leaderAnswers \/ ~o.peersAnswer
                         \/ ~o.kvAnswers \/ "fails" \in {o.critical, o.warning}
    BY <1>1, <1>2, <1>3, ConsulReport
  <2> QED
    BY ONLY <1>4, <1>5, <2>1
<1>11. (\E f \in Outage : place[f] = Len(Scale[f])) => IsRed(Verdict(place))
  BY <1>1, <1>2, <1>3, ConsulReport, <1>4, <1>6
<1>12. Minority => IsRed(Verdict(place))
  BY <1>1, <1>2, <1>3, ConsulReport DEF o, Minority
<1>13. check \in Discovers => \A t \in Unreached : Blames(Verdict(place), t)
  BY <1>1, <1>2, <1>3, ConsulReport, <1>4, <1>6 DEF Unreached, ConsulScale
<1> QED
  BY ONLY <1>7, <1>8, <1>9, <1>10, <1>11, <1>12, <1>13 DEF Right, o

\* A report of module dns is right in every state.
LEMMA DnsVerdict ==
  ASSUME OnScale, check = "dns"
  PROVE  Right
<1> DEFINE o == Seen(place)
<1>1. Scale = DnsScale /\ cfg \in DnsConfig /\ server \in DnsServer
  BY DEF OnScale, Scale, Scales, Configs, Servers
<1>2. Sees(DnsScale, o) /\ Meets(server, o) /\ Ends(o)
  BY <1>1, SeenOf DEF Scales
<1>3. Verdict(place) = DnsRun(cfg, o)
  BY DEF Verdict, RunCheck
<1>4. /\ Contact[check] = {}
      /\ Outage = {}
      /\ Unmeasured(o) <=> (o.r1 = {"fails"} /\ o.r2 = {"fails"})
  BY DEF Contact, Outage, Unmeasured
<1>5. Sound => cfg.supported /\ cfg.asked
  BY <1>1 DEF Sound, DnsConfig
<1> HIDE DEF o
<1>7. Typed(Verdict(place))
  BY <1>1, <1>2, <1>3, DnsReport
<1>8. ~SharesTargets => Agrees(Verdict(place))
  BY <1>1, <1>2, <1>3, DnsReport
<1>9. (\E f \in Contact[check] : place[f] = Len(Scale[f])) => Fails(Verdict(place))
  BY <1>4
<1>10. Fails(Verdict(place)) => ~Sound \/ Unmeasured(o)
  <2>1. Fails(Verdict(place)) => ~cfg.supported \/ ~cfg.asked \/ (o.r1 = {"fails"} /\ o.r2 = {"fails"})
    BY <1>1, <1>2, <1>3, DnsReport
  <2> QED
    BY ONLY <1>4, <1>5, <2>1
<1>11. (\E f \in Outage : place[f] = Len(Scale[f])) => IsRed(Verdict(place))
  BY <1>4
<1>12. Minority => IsRed(Verdict(place))
  BY DEF Minority
<1>13. check \in Discovers => \A t \in Unreached : Blames(Verdict(place), t)
  BY DEF Discovers
<1> QED
  BY ONLY <1>7, <1>8, <1>9, <1>10, <1>11, <1>12, <1>13 DEF Right, o

\* A report of module elasticsearch is right in every state.
LEMMA ElasticsearchVerdict ==
  ASSUME OnScale, check = "elasticsearch"
  PROVE  Right
<1> DEFINE o == Seen(place)
<1>1. Scale = ElasticsearchScale /\ cfg \in ElasticsearchConfig /\ server \in ElasticsearchServer
  BY DEF OnScale, Scale, Scales, Configs, Servers
<1>2. Sees(ElasticsearchScale, o) /\ Meets(server, o) /\ Ends(o)
  BY <1>1, SeenOf DEF Scales
<1>3. Verdict(place) = ElasticsearchRun(cfg, o)
  BY DEF Verdict, RunCheck
<1>4. /\ Contact[check] = {"health"}
      /\ Outage = {}
      /\ Unmeasured(o) <=> (~o.health \/ ~o.allocation \/ o.status = "other")
  BY DEF Contact, Outage, Unmeasured
<1>5. Sound => cfg.caReadable
  BY <1>1 DEF Sound, ElasticsearchConfig
<1>6. place["health"] = Len(Scale["health"]) => ~o.health
  BY <1>1, <1>2, OfBool DEF Ends, ElasticsearchScale
<1> HIDE DEF o
<1>7. Typed(Verdict(place))
  BY <1>1, <1>2, <1>3, ElasticsearchReport
<1>8. ~SharesTargets => Agrees(Verdict(place))
  BY <1>1, <1>2, <1>3, ElasticsearchReport
<1>9. (\E f \in Contact[check] : place[f] = Len(Scale[f])) => Fails(Verdict(place))
  BY <1>1, <1>2, <1>3, ElasticsearchReport, <1>4, <1>6
<1>10. Fails(Verdict(place)) => ~Sound \/ Unmeasured(o)
  <2>1. Fails(Verdict(place)) => ~cfg.caReadable \/ ~o.health \/ ~o.allocation \/ o.status = "other"
    BY <1>1, <1>2, <1>3, ElasticsearchReport
  <2> QED
    BY ONLY <1>4, <1>5, <2>1
<1>11. (\E f \in Outage : place[f] = Len(Scale[f])) => IsRed(Verdict(place))
  BY <1>4
<1>12. Minority => IsRed(Verdict(place))
  BY DEF Minority
<1>13. check \in Discovers => \A t \in Unreached : Blames(Verdict(place), t)
  BY DEF Discovers
<1> QED
  BY ONLY <1>7, <1>8, <1>9, <1>10, <1>11, <1>12, <1>13 DEF Right, o

\* A report of module etcd is right in every state.
LEMMA EtcdVerdict ==
  ASSUME OnScale, check = "etcd"
  PROVE  Right
<1> DEFINE o == Seen(place)
<1>1. Scale = EtcdScale /\ cfg \in EtcdConfig /\ server \in EtcdServer
  BY DEF OnScale, Scale, Scales, Configs, Servers
<1>2. Sees(EtcdScale, o) /\ Meets(server, o) /\ Ends(o)
  BY <1>1, SeenOf DEF Scales
<1>3. Verdict(place) = EtcdRun(cfg, o)
  BY DEF Verdict, RunCheck
<1>4. /\ Contact[check] = {"health"}
      /\ Outage = {"leader"}
      /\ Unmeasured(o) <=> (~o.authenticates \/ o.health = "none" \/ ~o.status)
  BY DEF Contact, Outage, Unmeasured
<1>5. Sound
  BY <1>1 DEF Sound, EtcdConfig
<1>6. /\ place["health"] = Len(Scale["health"]) => o.health = "none"
      /\ place["leader"] = Len(Scale["leader"]) => ~o.leader
  BY <1>1, <1>2, OfBool DEF Ends, EtcdScale
<1> HIDE DEF o
<1>7. Typed(Verdict(place))
  BY <1>1, <1>2, <1>3, EtcdReport
<1>8. ~SharesTargets => Agrees(Verdict(place))
  BY <1>1, <1>2, <1>3, EtcdReport
<1>9. (\E f \in Contact[check] : place[f] = Len(Scale[f])) => Fails(Verdict(place))
  BY <1>1, <1>2, <1>3, EtcdReport, <1>4, <1>6 DEF authenticate
<1>10. Fails(Verdict(place)) => ~Sound \/ Unmeasured(o)
  <2>1. Fails(Verdict(place)) => ~o.authenticates \/ o.health = "none" \/ ~o.status
    BY <1>1, <1>2, <1>3, EtcdReport DEF authenticate
  <2> QED
    BY ONLY <1>4, <1>5, <2>1
<1>11. (\E f \in Outage : place[f] = Len(Scale[f])) => IsRed(Verdict(place))
  BY <1>1, <1>2, <1>3, EtcdReport, <1>4, <1>6
<1>12. Minority => IsRed(Verdict(place))
  BY DEF Minority
<1>13. check \in Discovers => \A t \in Unreached : Blames(Verdict(place), t)
  BY DEF Discovers
<1> QED
  BY ONLY <1>7, <1>8, <1>9, <1>10, <1>11, <1>12, <1>13 DEF Right, o

\* A report of module flow is right in every state.
LEMMA FlowVerdict ==
  ASSUME OnScale, check = "flow"
  PROVE  Right
<1> DEFINE o == Seen(place)
<1>1. Scale = FlowScale /\ cfg \in FlowConfig /\ server \in FlowServer
  BY DEF OnScale, Scale, Scales, Configs, Servers
<1>2. Sees(FlowScale, o) /\ Meets(server, o) /\ Ends(o)
  BY <1>1, SeenOf DEF Scales
<1>3. Verdict(place) = FlowRun(cfg, o)
  BY DEF Verdict, RunCheck
<1>4. /\ Contact[check] = {"f1", "f2"}
      /\ Outage = {"status", "token"}
      /\ Unmeasured(o) <=> (~o.f1 \/ ~o.f2 \/ ~o.answers2)
  BY DEF Contact, Outage, Unmeasured, Requests
<1>5. Sound => (cfg.caReadable /\ cfg.extract /\ (cfg.bodyEnv => o.bodySet))
  BY <1>1, <1>2 DEF Sound, FlowConfig, Meets, FlowServer
<1>6. /\ place["f1"] = Len(Scale["f1"]) => ~o.f1
      /\ place["f2"] = Len(Scale["f2"]) => ~o.f2
      /\ place["status"] = Len(Scale["status"]) => o.status = "other"
      /\ place["token"] = Len(Scale["token"]) => ~o.token
  BY <1>1, <1>2, OfBool DEF Ends, FlowScale
<1> HIDE DEF o
<1>7. Typed(Verdict(place))
  BY <1>1, <1>2, <1>3, FlowReport
<1>8. ~SharesTargets => Agrees(Verdict(place))
  BY <1>1, <1>2, <1>3, FlowReport DEF SharesTargets
<1>9. (\E f \in Contact[check] : place[f] = Len(Scale[f])) => Fails(Verdict(place))
  BY <1>1, <1>2, <1>3, FlowReport, <1>4, <1>6
<1>10. Fails(Verdict(place)) => ~Sound \/ Unmeasured(o)
  <2>1. Fails(Verdict(place)) => ~cfg.caReadable \/ ~cfg.extract \/ (cfg.bodyEnv /\ ~o.bodySet) \/ ~o.f1 \/ ~o.f2 \/ ~o.answers2
    BY <1>1, <1>2, <1>3, FlowReport
  <2> QED
    BY ONLY <1>4, <1>5, <2>1
<1>11. (\E f \in Outage : place[f] = Len(Scale[f])) => IsRed(Verdict(place))
  BY <1>1, <1>2, <1>3, FlowReport, <1>4, <1>6
<1>12. Minority => IsRed(Verdict(place))
  BY DEF Minority
<1>13. check \in Discovers => \A t \in Unreached : Blames(Verdict(place), t)
  BY DEF Discovers
<1> QED
  BY ONLY <1>7, <1>8, <1>9, <1>10, <1>11, <1>12, <1>13 DEF Right, o

\* A report of module grpc is right in every state.
LEMMA GrpcVerdict ==
  ASSUME OnScale, check = "grpc"
  PROVE  Right
<1> DEFINE o == Seen(place)
<1>1. Scale = GrpcScale /\ cfg \in GrpcConfig /\ server \in GrpcServer
  BY DEF OnScale, Scale, Scales, Configs, Servers
<1>2. Sees(GrpcScale, o) /\ Meets(server, o) /\ Ends(o)
  BY <1>1, SeenOf DEF Scales
<1>3. Verdict(place) = GrpcRun(cfg, o)
  BY DEF Verdict, RunCheck
<1>4. /\ Contact[check] = {"connects"}
      /\ Outage = {}
      /\ Unmeasured(o) <=> (~o.connects \/ o.grpcStatus = 14 \/ ~o.whole \/ o.field # 8)
  BY DEF Contact, Outage, Unmeasured
<1>5. Sound => cfg.caReadable
  BY <1>1 DEF Sound, GrpcConfig
<1>6. place["connects"] = Len(Scale["connects"]) => ~o.connects
  BY <1>1, <1>2, OfBool DEF Ends, GrpcScale
<1> HIDE DEF o
<1>7. Typed(Verdict(place))
  BY <1>1, <1>2, <1>3, GrpcReport
<1>8. ~SharesTargets => Agrees(Verdict(place))
  BY <1>1, <1>2, <1>3, GrpcReport
<1>9. (\E f \in Contact[check] : place[f] = Len(Scale[f])) => Fails(Verdict(place))
  BY <1>1, <1>2, <1>3, GrpcReport, <1>4, <1>6
<1>10. Fails(Verdict(place)) => ~Sound \/ Unmeasured(o)
  <2>1. Fails(Verdict(place)) => ~cfg.caReadable \/ ~o.connects \/ o.grpcStatus = 14 \/ ~o.whole \/ o.field # 8
    BY <1>1, <1>2, <1>3, GrpcReport
  <2> QED
    BY ONLY <1>4, <1>5, <2>1
<1>11. (\E f \in Outage : place[f] = Len(Scale[f])) => IsRed(Verdict(place))
  BY <1>4
<1>12. Minority => IsRed(Verdict(place))
  BY DEF Minority
<1>13. check \in Discovers => \A t \in Unreached : Blames(Verdict(place), t)
  BY DEF Discovers
<1> QED
  BY ONLY <1>7, <1>8, <1>9, <1>10, <1>11, <1>12, <1>13 DEF Right, o

\* A report of module haproxy is right in every state.
LEMMA HAProxyVerdict ==
  ASSUME OnScale, check = "haproxy"
  PROVE  Right
<1> DEFINE o == Seen(place)
<1>1. Scale = HAProxyScale /\ cfg \in HAProxyConfig /\ server \in HAProxyServer
  BY DEF OnScale, Scale, Scales, Configs, Servers
<1>2. Sees(HAProxyScale, o) /\ Meets(server, o) /\ Ends(o)
  BY <1>1, SeenOf DEF Scales
<1>3. Verdict(place) = HAProxyRun(cfg, o)
  BY DEF Verdict, RunCheck
<1>4. /\ Contact[check] = {"resolved", "given", "found"}
      /\ Outage = {"server"}
      /\ Unmeasured(o) <=> (~o.resolved \/ ~o.given \/ ~o.found)
  BY DEF Contact, Outage, Unmeasured, Requests
<1>5. Sound
  BY <1>1 DEF Sound, HAProxyConfig
<1>6. /\ place["resolved"] = Len(Scale["resolved"]) => ~o.resolved
      /\ place["given"] = Len(Scale["given"]) => ~o.given
      /\ place["found"] = Len(Scale["found"]) => ~o.found
      /\ place["server"] = Len(Scale["server"]) => o.server = "DOWN"
  BY <1>1, <1>2, OfBool DEF Ends, HAProxyScale
<1> HIDE DEF o
<1>7. Typed(Verdict(place))
  BY <1>1, <1>2, <1>3, HAProxyReport
<1>8. ~SharesTargets => Agrees(Verdict(place))
  BY DEF SharesTargets
<1>9. (\E f \in Contact[check] : place[f] = Len(Scale[f])) => Fails(Verdict(place))
  BY <1>1, <1>2, <1>3, HAProxyReport, <1>4, <1>6
<1>10. Fails(Verdict(place)) => ~Sound \/ Unmeasured(o)
  <2>1. Fails(Verdict(place)) => ~o.resolved \/ ~o.given \/ ~o.found
    BY <1>1, <1>2, <1>3, HAProxyReport
  <2> QED
    BY ONLY <1>4, <1>5, <2>1
<1>11. (\E f \in Outage : place[f] = Len(Scale[f])) => IsRed(Verdict(place))
  BY <1>1, <1>2, <1>3, HAProxyReport, <1>4, <1>6
<1>12. Minority => IsRed(Verdict(place))
  BY DEF Minority
<1>13. check \in Discovers => \A t \in Unreached : Blames(Verdict(place), t)
  BY <1>1, <1>2, <1>3, HAProxyReport, <1>4, <1>6 DEF Unreached, HAProxyScale
<1> QED
  BY ONLY <1>7, <1>8, <1>9, <1>10, <1>11, <1>12, <1>13 DEF Right, o

\* A report of module http is right in every state.
LEMMA HttpVerdict ==
  ASSUME OnScale, check = "http"
  PROVE  Right
<1> DEFINE o == Seen(place)
<1>1. Scale = HttpScale /\ cfg \in HttpConfig /\ server \in HttpServer
  BY DEF OnScale, Scale, Scales, Configs, Servers
<1>2. Sees(HttpScale, o) /\ Meets(server, o) /\ Ends(o)
  BY <1>1, SeenOf DEF Scales
<1>3. Verdict(place) = HttpRun(cfg, o)
  BY DEF Verdict, RunCheck
<1>4. /\ Contact[check] = {"answers"}
      /\ Outage = {"status"}
      /\ Unmeasured(o) <=> (~o.answers)
  BY DEF Contact, Outage, Unmeasured, Requests
<1>5. Sound => cfg.caReadable
  BY <1>1 DEF Sound, HttpConfig
<1>6. /\ place["answers"] = Len(Scale["answers"]) => ~o.answers
      /\ place["status"] = Len(Scale["status"]) => o.status = "other"
  BY <1>1, <1>2, OfBool DEF Ends, HttpScale
<1> HIDE DEF o
<1>7. Typed(Verdict(place))
  BY <1>1, <1>2, <1>3, HttpReport
<1>8. ~SharesTargets => Agrees(Verdict(place))
  BY <1>1, <1>2, <1>3, HttpReport
<1>9. (\E f \in Contact[check] : place[f] = Len(Scale[f])) => Fails(Verdict(place))
  BY <1>1, <1>2, <1>3, HttpReport, <1>4, <1>6
<1>10. Fails(Verdict(place)) => ~Sound \/ Unmeasured(o)
  <2>1. Fails(Verdict(place)) => ~cfg.caReadable \/ ~o.answers
    BY <1>1, <1>2, <1>3, HttpReport
  <2> QED
    BY ONLY <1>4, <1>5, <2>1
<1>11. (\E f \in Outage : place[f] = Len(Scale[f])) => IsRed(Verdict(place))
  BY <1>1, <1>2, <1>3, HttpReport, <1>4, <1>6
<1>12. Minority => IsRed(Verdict(place))
  BY DEF Minority
<1>13. check \in Discovers => \A t \in Unreached : Blames(Verdict(place), t)
  BY DEF Discovers
<1> QED
  BY ONLY <1>7, <1>8, <1>9, <1>10, <1>11, <1>12, <1>13 DEF Right, o

\* A report of module ingest is right in every state.
LEMMA IngestVerdict ==
  ASSUME OnScale, check = "ingest"
  PROVE  Right
<1> DEFINE o == Seen(place)
<1>1. Scale = IngestScale /\ cfg \in IngestConfig /\ server \in IngestServer
  BY DEF OnScale, Scale, Scales, Configs, Servers
<1>2. Sees(IngestScale, o) /\ Meets(server, o) /\ Ends(o)
  BY <1>1, SeenOf DEF Scales
<1>3. Verdict(place) = IngestRun(cfg, o)
  BY DEF Verdict, RunCheck
<1>4. /\ Contact[check] = {}
      /\ Outage = {}
      /\ Unmeasured(o) <=> (~o.connects \/ ~o.answers \/ ~o.answer)
  BY DEF Contact, Outage, Unmeasured, Requests
<1>5. Sound
  BY <1>1 DEF Sound, IngestConfig
<1> HIDE DEF o
<1>7. Typed(Verdict(place))
  BY <1>1, <1>2, <1>3, IngestReport
<1>8. ~SharesTargets => Agrees(Verdict(place))
  BY <1>1, <1>2, <1>3, IngestReport
<1>9. (\E f \in Contact[check] : place[f] = Len(Scale[f])) => Fails(Verdict(place))
  BY <1>4
<1>10. Fails(Verdict(place)) => ~Sound \/ Unmeasured(o)
  <2>1. Fails(Verdict(place)) => ~o.connects \/ ~o.answers \/ ~o.answer
    BY <1>1, <1>2, <1>3, IngestReport DEF handshake
  <2> QED
    BY ONLY <1>4, <1>5, <2>1
<1>11. (\E f \in Outage : place[f] = Len(Scale[f])) => IsRed(Verdict(place))
  BY <1>4
<1>12. Minority => IsRed(Verdict(place))
  BY DEF Minority
<1>13. check \in Discovers => \A t \in Unreached : Blames(Verdict(place), t)
  BY DEF Discovers
<1> QED
  BY ONLY <1>7, <1>8, <1>9, <1>10, <1>11, <1>12, <1>13 DEF Right, o

\* A report of module kafka is right in every state.
LEMMA KafkaVerdict ==
  ASSUME OnScale, check = "kafka"
  PROVE  Right
<1> DEFINE o == Seen(place)
<1>1. Scale = KafkaScale /\ cfg \in KafkaConfig /\ server \in KafkaServer
  BY DEF OnScale, Scale, Scales, Configs, Servers
<1>2. Sees(KafkaScale, o) /\ Meets(server, o) /\ Ends(o)
  BY <1>1, SeenOf DEF Scales
<1>3. Verdict(place) = KafkaRun(cfg, o)
  BY DEF Verdict, RunCheck
<1>4. /\ Contact[check] = {"metadata", "group"}
      /\ Outage = {"controller"}
      /\ Unmeasured(o) <=> (~o.metadata \/ ~o.group)
  BY DEF Contact, Outage, Unmeasured, Requests
<1>5. Sound => cfg.caReadable
  BY <1>1 DEF Sound, KafkaConfig
<1>6. /\ place["metadata"] = Len(Scale["metadata"]) => ~o.metadata
      /\ place["group"] = Len(Scale["group"]) => ~o.group
      /\ place["controller"] = Len(Scale["controller"]) => ~o.controller
  BY <1>1, <1>2, OfBool DEF Ends, KafkaScale
<1> HIDE DEF o
<1>7. Typed(Verdict(place))
  BY <1>1, <1>2, <1>3, KafkaReport
<1>8. ~SharesTargets => Agrees(Verdict(place))
  BY <1>1, <1>2, <1>3, KafkaReport
<1>9. (\E f \in Contact[check] : place[f] = Len(Scale[f])) => Fails(Verdict(place))
  BY <1>1, <1>2, <1>3, KafkaReport, <1>4, <1>6
<1>10. Fails(Verdict(place)) => ~Sound \/ Unmeasured(o)
  <2>1. Fails(Verdict(place)) => ~cfg.caReadable \/ ~o.metadata \/ ~o.group
    BY <1>1, <1>2, <1>3, KafkaReport
  <2> QED
    BY ONLY <1>4, <1>5, <2>1
<1>11. (\E f \in Outage : place[f] = Len(Scale[f])) => IsRed(Verdict(place))
  BY <1>1, <1>2, <1>3, KafkaReport, <1>4, <1>6
<1>12. Minority => IsRed(Verdict(place))
  BY DEF Minority
<1>13. check \in Discovers => \A t \in Unreached : Blames(Verdict(place), t)
  BY DEF Discovers
<1> QED
  BY ONLY <1>7, <1>8, <1>9, <1>10, <1>11, <1>12, <1>13 DEF Right, o

\* A report of module keycloak is right in every state.
LEMMA KeycloakVerdict ==
  ASSUME OnScale, check = "keycloak"
  PROVE  Right
<1> DEFINE o == Seen(place)
<1>1. Scale = KeycloakScale /\ cfg \in KeycloakConfig /\ server \in KeycloakServer
  BY DEF OnScale, Scale, Scales, Configs, Servers
<1>2. Sees(KeycloakScale, o) /\ Meets(server, o) /\ Ends(o)
  BY <1>1, SeenOf DEF Scales
<1>3. Verdict(place) = KeycloakRun(cfg, o)
  BY DEF Verdict, RunCheck
<1>4. /\ Contact[check] = {"discovery"}
      /\ Outage = {"tokenEndpoint"}
      /\ Unmeasured(o) <=> ({o.health, o.discovery} \cap {0, 503} # {})
  BY DEF Contact, Outage, Unmeasured
<1>5. Sound
  BY <1>1 DEF Sound, KeycloakConfig
<1>6. /\ place["discovery"] = Len(Scale["discovery"]) => o.discovery = 0
      /\ place["tokenEndpoint"] = Len(Scale["tokenEndpoint"]) => ~o.tokenEndpoint
  <2>1. place["discovery"] = Len(Scale["discovery"]) => o.discovery = 0
    <3>1. "discovery" \in DOMAIN Scale
      BY <1>1 DEF KeycloakScale
    <3>2. Scale["discovery"] = <<200, 404, 503, 0>>
      BY <1>1 DEF KeycloakScale
    <3>3. Len(Scale["discovery"]) = 4 /\ Scale["discovery"][4] = 0
      BY ONLY <3>2
    <3>4. place["discovery"] = Len(Scale["discovery"]) => o["discovery"] = Scale["discovery"][Len(Scale["discovery"])]
      BY <1>2, <3>1 DEF Ends
    <3> QED
      BY ONLY <3>3, <3>4
  <2>2. place["tokenEndpoint"] = Len(Scale["tokenEndpoint"]) => ~o.tokenEndpoint
    <3>1. "tokenEndpoint" \in DOMAIN Scale
      BY <1>1 DEF KeycloakScale
    <3>2. Scale["tokenEndpoint"] = Bool
      BY <1>1 DEF KeycloakScale
    <3>3. Len(Scale["tokenEndpoint"]) = 2 /\ Scale["tokenEndpoint"][2] = FALSE
      BY ONLY <3>2, OfBool
    <3>4. place["tokenEndpoint"] = Len(Scale["tokenEndpoint"]) => o["tokenEndpoint"] = Scale["tokenEndpoint"][Len(Scale["tokenEndpoint"])]
      BY <1>2, <3>1 DEF Ends
    <3> QED
      BY ONLY <3>3, <3>4
  <2> QED
    BY ONLY <2>1, <2>2
<1> HIDE DEF o
<1>7. Typed(Verdict(place))
  BY <1>1, <1>2, <1>3, KeycloakReport
<1>8. ~SharesTargets => Agrees(Verdict(place))
  BY <1>1, <1>2, <1>3, KeycloakReport
<1>9. (\E f \in Contact[check] : place[f] = Len(Scale[f])) => Fails(Verdict(place))
  BY <1>1, <1>2, <1>3, KeycloakReport, <1>4, <1>6 DEF KeycloakGet
<1>10. Fails(Verdict(place)) => ~Sound \/ Unmeasured(o)
  <2>1. Fails(Verdict(place)) => {o.health, o.discovery} \cap {0, 503} # {}
    <3>1. o.health \in {200, 404, 503, 0} /\ o.discovery \in {200, 404, 503, 0}
      BY <1>2 DEF Sees, KeycloakScale, ToSet
    <3>2. \A n \in {200, 404, 503, 0} : ~KeycloakGet(n) => n \in {0, 503}
      BY DEF KeycloakGet
    <3>3. Fails(Verdict(place)) => ~KeycloakGet(o.health) \/ ~KeycloakGet(o.discovery)
      BY <1>1, <1>2, <1>3, KeycloakReport
    <3>4. Fails(Verdict(place)) => o.health \in {0, 503} \/ o.discovery \in {0, 503}
      BY ONLY <3>1, <3>2, <3>3
    <3> QED
      BY ONLY <3>4, Zenon
  <2> QED
    BY ONLY <1>4, <1>5, <2>1
<1>11. (\E f \in Outage : place[f] = Len(Scale[f])) => IsRed(Verdict(place))
  BY <1>1, <1>2, <1>3, KeycloakReport, <1>4, <1>6
<1>12. Minority => IsRed(Verdict(place))
  BY DEF Minority
<1>13. check \in Discovers => \A t \in Unreached : Blames(Verdict(place), t)
  BY DEF Discovers
<1> QED
  BY ONLY <1>7, <1>8, <1>9, <1>10, <1>11, <1>12, <1>13 DEF Right, o

\* A report of module ldap is right in every state.
LEMMA LdapVerdict ==
  ASSUME OnScale, check = "ldap"
  PROVE  Right
<1> DEFINE o == Seen(place)
<1>1. Scale = LdapScale /\ cfg \in LdapConfig /\ server \in LdapServer
  BY DEF OnScale, Scale, Scales, Configs, Servers
<1>2. Sees(LdapScale, o) /\ Meets(server, o) /\ Ends(o)
  BY <1>1, SeenOf DEF Scales
<1>3. Verdict(place) = LdapRun(cfg, o)
  BY DEF Verdict, RunCheck
<1>4. /\ Contact[check] = {"dial"}
      /\ Outage = {}
      /\ Unmeasured(o) <=> (~o.dial \/ ~o.tls)
  BY DEF Contact, Outage, Unmeasured, Requests
<1>5. Sound
  BY <1>1 DEF Sound, LdapConfig
<1>6. place["dial"] = Len(Scale["dial"]) => ~o.dial
  BY <1>1, <1>2, OfBool DEF Ends, LdapScale
<1> HIDE DEF o
<1>7. Typed(Verdict(place))
  BY <1>1, <1>2, <1>3, LdapReport
<1>8. ~SharesTargets => Agrees(Verdict(place))
  BY <1>1, <1>2, <1>3, LdapReport
<1>9. (\E f \in Contact[check] : place[f] = Len(Scale[f])) => Fails(Verdict(place))
  BY <1>1, <1>2, <1>3, LdapReport, <1>4, <1>6
<1>10. Fails(Verdict(place)) => ~Sound \/ Unmeasured(o)
  <2>1. Fails(Verdict(place)) => ~o.dial \/ ~o.tls
    BY <1>1, <1>2, <1>3, LdapReport
  <2> QED
    BY ONLY <1>4, <1>5, <2>1
<1>11. (\E f \in Outage : place[f] = Len(Scale[f])) => IsRed(Verdict(place))
  BY <1>4
<1>12. Minority => IsRed(Verdict(place))
  BY DEF Minority
<1>13. check \in Discovers => \A t \in Unreached : Blames(Verdict(place), t)
  BY DEF Discovers
<1> QED
  BY ONLY <1>7, <1>8, <1>9, <1>10, <1>11, <1>12, <1>13 DEF Right, o

\* A report of module mediamtx is right in every state.
LEMMA MediaMTXVerdict ==
  ASSUME OnScale, check = "mediamtx"
  PROVE  Right
<1> DEFINE o == Seen(place)
<1>1. Scale = MediaMTXScale /\ cfg \in MediaMTXConfig /\ server \in MediaMTXServer
  BY DEF OnScale, Scale, Scales, Configs, Servers
<1>2. Sees(MediaMTXScale, o) /\ Meets(server, o) /\ Ends(o)
  BY <1>1, SeenOf DEF Scales
<1>3. Verdict(place) = MediaMTXRun(cfg, o)
  BY DEF Verdict, RunCheck
<1>4. /\ Contact[check] = {"page1"}
      /\ Outage = {}
      /\ Unmeasured(o) <=> (~o.page1 \/ ~o.page2)
  BY DEF Contact, Outage, Unmeasured, Requests
<1>5. Sound => cfg.caReadable
  BY <1>1 DEF Sound, MediaMTXConfig
<1>6. place["page1"] = Len(Scale["page1"]) => ~o.page1
  BY <1>1, <1>2, OfBool DEF Ends, MediaMTXScale
<1> HIDE DEF o
<1>7. Typed(Verdict(place))
  BY <1>1, <1>2, <1>3, MediaMTXReport
<1>8. ~SharesTargets => Agrees(Verdict(place))
  BY <1>1, <1>2, <1>3, MediaMTXReport
<1>9. (\E f \in Contact[check] : place[f] = Len(Scale[f])) => Fails(Verdict(place))
  BY <1>1, <1>2, <1>3, MediaMTXReport, <1>4, <1>6
<1>10. Fails(Verdict(place)) => ~Sound \/ Unmeasured(o)
  <2>1. Fails(Verdict(place)) => ~cfg.caReadable \/ ~o.page1 \/ ~o.page2
    BY <1>1, <1>2, <1>3, MediaMTXReport
  <2> QED
    BY ONLY <1>4, <1>5, <2>1
<1>11. (\E f \in Outage : place[f] = Len(Scale[f])) => IsRed(Verdict(place))
  BY <1>4
<1>12. Minority => IsRed(Verdict(place))
  BY DEF Minority
<1>13. check \in Discovers => \A t \in Unreached : Blames(Verdict(place), t)
  BY DEF Discovers
<1> QED
  BY ONLY <1>7, <1>8, <1>9, <1>10, <1>11, <1>12, <1>13 DEF Right, o

\* A report of module memcached is right in every state.
LEMMA MemcachedVerdict ==
  ASSUME OnScale, check = "memcached"
  PROVE  Right
<1> DEFINE o == Seen(place)
<1>1. Scale = MemcachedScale /\ cfg \in MemcachedConfig /\ server \in MemcachedServer
  BY DEF OnScale, Scale, Scales, Configs, Servers
<1>2. Sees(MemcachedScale, o) /\ Meets(server, o) /\ Ends(o)
  BY <1>1, SeenOf DEF Scales
<1>3. Verdict(place) = MemcachedRun(cfg, o)
  BY DEF Verdict, RunCheck
<1>4. /\ Contact[check] = {"connected", "replied"}
      /\ Outage = {}
      /\ Unmeasured(o) <=> (~o.connected \/ ~o.replied)
  BY DEF Contact, Outage, Unmeasured, Requests
<1>5. Sound
  BY <1>1 DEF Sound, MemcachedConfig
<1>6. /\ place["connected"] = Len(Scale["connected"]) => ~o.connected
      /\ place["replied"] = Len(Scale["replied"]) => ~o.replied
  BY <1>1, <1>2, OfBool DEF Ends, MemcachedScale
<1> HIDE DEF o
<1>7. Typed(Verdict(place))
  BY <1>1, <1>2, <1>3, MemcachedReport
<1>8. ~SharesTargets => Agrees(Verdict(place))
  BY <1>1, <1>2, <1>3, MemcachedReport
<1>9. (\E f \in Contact[check] : place[f] = Len(Scale[f])) => Fails(Verdict(place))
  BY <1>1, <1>2, <1>3, MemcachedReport, <1>4, <1>6
<1>10. Fails(Verdict(place)) => ~Sound \/ Unmeasured(o)
  <2>1. Fails(Verdict(place)) => ~o.connected \/ ~o.replied
    BY <1>1, <1>2, <1>3, MemcachedReport
  <2> QED
    BY ONLY <1>4, <1>5, <2>1
<1>11. (\E f \in Outage : place[f] = Len(Scale[f])) => IsRed(Verdict(place))
  BY <1>4
<1>12. Minority => IsRed(Verdict(place))
  BY DEF Minority
<1>13. check \in Discovers => \A t \in Unreached : Blames(Verdict(place), t)
  BY DEF Discovers
<1> QED
  BY ONLY <1>7, <1>8, <1>9, <1>10, <1>11, <1>12, <1>13 DEF Right, o

\* A report of module mongodb is right in every state.
LEMMA MongoDBVerdict ==
  ASSUME OnScale, check = "mongodb"
  PROVE  Right
<1> DEFINE o == Seen(place)
<1>1. Scale = MongoDBScale /\ cfg \in MongoDBConfig /\ server \in MongoDBServer
  BY DEF OnScale, Scale, Scales, Configs, Servers
<1>2. Sees(MongoDBScale, o) /\ Meets(server, o) /\ Ends(o)
  BY <1>1, SeenOf DEF Scales
<1>3. Verdict(place) = MongoDBRun(cfg, o)
  BY DEF Verdict, RunCheck
<1>4. /\ Contact[check] = {"connected", "serverStatus", "replStatus"}
      /\ Outage = IF server.standalone THEN {} ELSE {"primary"}
      /\ Unmeasured(o) <=> (~o.connected \/ ~o.serverStatus \/ ~o.replStatus)
  BY DEF Contact, Outage, Unmeasured, Requests
<1>5. Sound
  BY <1>1 DEF Sound, MongoDBConfig
<1>6. /\ place["connected"] = Len(Scale["connected"]) => ~o.connected
      /\ place["serverStatus"] = Len(Scale["serverStatus"]) => ~o.serverStatus
      /\ place["replStatus"] = Len(Scale["replStatus"]) => ~o.replStatus
      /\ place["primary"] = Len(Scale["primary"]) => ~o.primary
  BY <1>1, <1>2, OfBool DEF Ends, MongoDBScale
<1> HIDE DEF o
<1>7. Typed(Verdict(place))
  BY <1>1, <1>2, <1>3, MongoDBReport
<1>8. ~SharesTargets => Agrees(Verdict(place))
  BY <1>1, <1>2, <1>3, MongoDBReport
<1>9. (\E f \in Contact[check] : place[f] = Len(Scale[f])) => Fails(Verdict(place))
  BY <1>1, <1>2, <1>3, MongoDBReport, <1>4, <1>6
<1>10. Fails(Verdict(place)) => ~Sound \/ Unmeasured(o)
  <2>1. Fails(Verdict(place)) => ~o.connected \/ ~o.serverStatus \/ ~o.replStatus
    BY <1>1, <1>2, <1>3, MongoDBReport
  <2> QED
    BY ONLY <1>4, <1>5, <2>1
<1>11. (\E f \in Outage : place[f] = Len(Scale[f])) => IsRed(Verdict(place))
  <2>1. o.standalone = server.standalone
    BY <1>1, <1>2 DEF Meets, MongoDBServer
  <2> QED
    BY <2>1, <1>1, <1>2, <1>3, MongoDBReport, <1>4, <1>6
<1>12. Minority => IsRed(Verdict(place))
  BY DEF Minority
<1>13. check \in Discovers => \A t \in Unreached : Blames(Verdict(place), t)
  BY DEF Discovers
<1> QED
  BY ONLY <1>7, <1>8, <1>9, <1>10, <1>11, <1>12, <1>13 DEF Right, o

\* A report of module mysql is right in every state.
LEMMA MySQLVerdict ==
  ASSUME OnScale, check = "mysql"
  PROVE  Right
<1> DEFINE o == Seen(place)
<1>1. Scale = MySQLScale /\ cfg \in MySQLConfig /\ server \in MySQLServer
  BY DEF OnScale, Scale, Scales, Configs, Servers
<1>2. Sees(MySQLScale, o) /\ Meets(server, o) /\ Ends(o)
  BY <1>1, SeenOf DEF Scales
<1>3. Verdict(place) = MySQLRun(cfg, o)
  BY DEF Verdict, RunCheck
<1>4. /\ Contact[check] = {"t1", "t2", "version"}
      /\ Outage = {}
      /\ Unmeasured(o) <=> (~o.t1 \/ ~o.t2 \/ ~o.version \/ ~o.showReplica \/ ~o.showSlave)
  BY DEF Contact, Outage, Unmeasured, Requests
<1>5. Sound
  BY <1>1 DEF Sound, MySQLConfig
<1>6. /\ place["t1"] = Len(Scale["t1"]) => ~o.t1
      /\ place["t2"] = Len(Scale["t2"]) => ~o.t2
      /\ place["version"] = Len(Scale["version"]) => ~o.version
  BY <1>1, <1>2, OfBool DEF Ends, MySQLScale
<1> HIDE DEF o
<1>7. Typed(Verdict(place))
  BY <1>1, <1>2, <1>3, MySQLReport
<1>8. ~SharesTargets => Agrees(Verdict(place))
  BY <1>1, <1>2, <1>3, MySQLReport DEF SharesTargets
<1>9. (\E f \in Contact[check] : place[f] = Len(Scale[f])) => Fails(Verdict(place))
  BY <1>1, <1>2, <1>3, MySQLReport, <1>4, <1>6
<1>10. Fails(Verdict(place)) => ~Sound \/ Unmeasured(o)
  <2>1. Fails(Verdict(place)) => ~o.t1 \/ ~o.t2 \/ ~o.version \/ ~o.showReplica \/ ~o.showSlave
    BY <1>1, <1>2, <1>3, MySQLReport
  <2> QED
    BY ONLY <1>4, <1>5, <2>1
<1>11. (\E f \in Outage : place[f] = Len(Scale[f])) => IsRed(Verdict(place))
  BY <1>4
<1>12. Minority => IsRed(Verdict(place))
  BY DEF Minority
<1>13. check \in Discovers => \A t \in Unreached : Blames(Verdict(place), t)
  BY DEF Discovers
<1> QED
  BY ONLY <1>7, <1>8, <1>9, <1>10, <1>11, <1>12, <1>13 DEF Right, o

\* A report of module nats is right in every state.
LEMMA NatsVerdict ==
  ASSUME OnScale, check = "nats"
  PROVE  Right
<1> DEFINE o == Seen(place)
<1>1. Scale = NatsScale /\ cfg \in NatsConfig /\ server \in NatsServer
  BY DEF OnScale, Scale, Scales, Configs, Servers
<1>2. Sees(NatsScale, o) /\ Meets(server, o) /\ Ends(o)
  BY <1>1, SeenOf DEF Scales
<1>3. Verdict(place) = NatsRun(cfg, o)
  BY DEF Verdict, RunCheck
<1>4. /\ Contact[check] = {"resolved", "s1", "s2"}
      /\ Outage = {}
      /\ Unmeasured(o) <=> (~o.resolved \/ ~o.s1 \/ ~o.s2)
  BY DEF Contact, Outage, Unmeasured, Requests
<1>5. Sound
  BY <1>1 DEF Sound, NatsConfig
<1>6. /\ place["resolved"] = Len(Scale["resolved"]) => ~o.resolved
      /\ place["s1"] = Len(Scale["s1"]) => ~o.s1
      /\ place["s2"] = Len(Scale["s2"]) => ~o.s2
  BY <1>1, <1>2, OfBool DEF Ends, NatsScale
<1> HIDE DEF o
<1>7. Typed(Verdict(place))
  BY <1>1, <1>2, <1>3, NatsReport
<1>8. ~SharesTargets => Agrees(Verdict(place))
  BY <1>1, <1>2, <1>3, NatsReport DEF SharesTargets
<1>9. (\E f \in Contact[check] : place[f] = Len(Scale[f])) => Fails(Verdict(place))
  BY <1>1, <1>2, <1>3, NatsReport, <1>4, <1>6
<1>10. Fails(Verdict(place)) => ~Sound \/ Unmeasured(o)
  <2>1. Fails(Verdict(place)) => ~o.resolved \/ ~o.s1 \/ ~o.s2
    BY <1>1, <1>2, <1>3, NatsReport
  <2> QED
    BY ONLY <1>4, <1>5, <2>1
<1>11. (\E f \in Outage : place[f] = Len(Scale[f])) => IsRed(Verdict(place))
  BY <1>4
<1>12. Minority => IsRed(Verdict(place))
  BY DEF Minority
<1>13. check \in Discovers => \A t \in Unreached : Blames(Verdict(place), t)
  BY DEF Discovers
<1> QED
  BY ONLY <1>7, <1>8, <1>9, <1>10, <1>11, <1>12, <1>13 DEF Right, o

\* A report of module ntp is right in every state.
LEMMA NtpVerdict ==
  ASSUME OnScale, check = "ntp"
  PROVE  Right
<1> DEFINE o == Seen(place)
<1>1. Scale = NtpScale /\ cfg \in NtpConfig /\ server \in NtpServer
  BY DEF OnScale, Scale, Scales, Configs, Servers
<1>2. Sees(NtpScale, o) /\ Meets(server, o) /\ Ends(o)
  BY <1>1, SeenOf DEF Scales
<1>3. Verdict(place) = NtpRun(cfg, o)
  BY DEF Verdict, RunCheck
<1>4. /\ Contact[check] = {"answers"}
      /\ Outage = {"stratum"}
      /\ Unmeasured(o) <=> (~o.answers)
  BY DEF Contact, Outage, Unmeasured, Requests
<1>5. Sound
  BY <1>1 DEF Sound, NtpConfig
<1>6. /\ place["answers"] = Len(Scale["answers"]) => ~o.answers
      /\ place["stratum"] = Len(Scale["stratum"]) => o.stratum = 16
  BY <1>1, <1>2, OfBool DEF Ends, NtpScale
<1> HIDE DEF o
<1>7. Typed(Verdict(place))
  BY <1>1, <1>2, <1>3, NtpReport
<1>8. ~SharesTargets => Agrees(Verdict(place))
  BY <1>1, <1>2, <1>3, NtpReport
<1>9. (\E f \in Contact[check] : place[f] = Len(Scale[f])) => Fails(Verdict(place))
  BY <1>1, <1>2, <1>3, NtpReport, <1>4, <1>6
<1>10. Fails(Verdict(place)) => ~Sound \/ Unmeasured(o)
  <2>1. Fails(Verdict(place)) => ~o.answers
    BY <1>1, <1>2, <1>3, NtpReport
  <2> QED
    BY ONLY <1>4, <1>5, <2>1
<1>11. (\E f \in Outage : place[f] = Len(Scale[f])) => IsRed(Verdict(place))
  BY <1>1, <1>2, <1>3, NtpReport, <1>4, <1>6
<1>12. Minority => IsRed(Verdict(place))
  BY DEF Minority
<1>13. check \in Discovers => \A t \in Unreached : Blames(Verdict(place), t)
  BY DEF Discovers
<1> QED
  BY ONLY <1>7, <1>8, <1>9, <1>10, <1>11, <1>12, <1>13 DEF Right, o

\* A report of module patroni is right in every state.
LEMMA PatroniVerdict ==
  ASSUME OnScale, check = "patroni"
  PROVE  Right
<1> DEFINE o == Seen(place)
<1>1. Scale = PatroniScale /\ cfg \in PatroniConfig /\ server \in PatroniServer
  BY DEF OnScale, Scale, Scales, Configs, Servers
<1>2. Sees(PatroniScale, o) /\ Meets(server, o) /\ Ends(o)
  BY <1>1, SeenOf DEF Scales
<1>3. Verdict(place) = PatroniRun(cfg, o)
  BY DEF Verdict, RunCheck
<1>4. /\ Contact[check] = {"resolved", "given", "found"}
      /\ Outage = {"leaders"}
      /\ Unmeasured(o) <=> (~o.resolved \/ ~o.given \/ ~o.found)
  BY DEF Contact, Outage, Unmeasured, Requests
<1>5. Sound
  BY <1>1 DEF Sound, PatroniConfig
<1>6. /\ place["resolved"] = Len(Scale["resolved"]) => ~o.resolved
      /\ place["given"] = Len(Scale["given"]) => ~o.given
      /\ place["found"] = Len(Scale["found"]) => ~o.found
      /\ place["leaders"] = Len(Scale["leaders"]) => o.leaders = "none"
  BY <1>1, <1>2, OfBool DEF Ends, PatroniScale
<1> HIDE DEF o
<1>7. Typed(Verdict(place))
  BY <1>1, <1>2, <1>3, PatroniReport
<1>8. ~SharesTargets => Agrees(Verdict(place))
  BY <1>1, <1>2, <1>3, PatroniReport
<1>9. (\E f \in Contact[check] : place[f] = Len(Scale[f])) => Fails(Verdict(place))
  BY <1>1, <1>2, <1>3, PatroniReport, <1>4, <1>6
<1>10. Fails(Verdict(place)) => ~Sound \/ Unmeasured(o)
  <2>1. Fails(Verdict(place)) => ~o.resolved \/ ~o.given \/ ~o.found
    BY <1>1, <1>2, <1>3, PatroniReport
  <2> QED
    BY ONLY <1>4, <1>5, <2>1
<1>11. (\E f \in Outage : place[f] = Len(Scale[f])) => IsRed(Verdict(place))
  BY <1>1, <1>2, <1>3, PatroniReport, <1>4, <1>6
<1>12. Minority => IsRed(Verdict(place))
  BY DEF Minority
<1>13. check \in Discovers => \A t \in Unreached : Blames(Verdict(place), t)
  BY <1>1, <1>2, <1>3, PatroniReport, <1>4, <1>6 DEF Unreached, PatroniScale
<1> QED
  BY ONLY <1>7, <1>8, <1>9, <1>10, <1>11, <1>12, <1>13 DEF Right, o

\* A report of module postgres is right in every state.
LEMMA PostgresVerdict ==
  ASSUME OnScale, check = "postgres"
  PROVE  Right
<1> DEFINE o == Seen(place)
<1>1. Scale = PostgresScale /\ cfg \in PostgresConfig /\ server \in PostgresServer
  BY DEF OnScale, Scale, Scales, Configs, Servers
<1>2. Sees(PostgresScale, o) /\ Meets(server, o) /\ Ends(o)
  BY <1>1, SeenOf DEF Scales
<1>3. Verdict(place) = PostgresRun(cfg, o)
  BY DEF Verdict, RunCheck
<1>4. /\ Contact[check] = {"connected", "queried"}
      /\ Outage = {}
      /\ Unmeasured(o) <=> (~o.connected \/ ~o.queried)
  BY DEF Contact, Outage, Unmeasured, Requests
<1>5. Sound
  BY <1>1 DEF Sound, PostgresConfig
<1>6. /\ place["connected"] = Len(Scale["connected"]) => ~o.connected
      /\ place["queried"] = Len(Scale["queried"]) => ~o.queried
  BY <1>1, <1>2, OfBool DEF Ends, PostgresScale
<1> HIDE DEF o
<1>7. Typed(Verdict(place))
  BY <1>1, <1>2, <1>3, PostgresReport
<1>8. ~SharesTargets => Agrees(Verdict(place))
  <2>1. o.oneClient = server.oneClient
    BY <1>1, <1>2 DEF Meets, PostgresServer
  <2> QED
    BY <2>1, <1>1, <1>2, <1>3, PostgresReport DEF SharesTargets
<1>9. (\E f \in Contact[check] : place[f] = Len(Scale[f])) => Fails(Verdict(place))
  BY <1>1, <1>2, <1>3, PostgresReport, <1>4, <1>6
<1>10. Fails(Verdict(place)) => ~Sound \/ Unmeasured(o)
  <2>1. Fails(Verdict(place)) => ~o.connected \/ ~o.queried
    BY <1>1, <1>2, <1>3, PostgresReport
  <2> QED
    BY ONLY <1>4, <1>5, <2>1
<1>11. (\E f \in Outage : place[f] = Len(Scale[f])) => IsRed(Verdict(place))
  BY <1>4
<1>12. Minority => IsRed(Verdict(place))
  BY DEF Minority
<1>13. check \in Discovers => \A t \in Unreached : Blames(Verdict(place), t)
  BY DEF Discovers
<1> QED
  BY ONLY <1>7, <1>8, <1>9, <1>10, <1>11, <1>12, <1>13 DEF Right, o

\* A report of module pq is right in every state.
LEMMA PqVerdict ==
  ASSUME OnScale, check = "pq"
  PROVE  Right
<1> DEFINE o == Seen(place)
<1>1. Scale = PqScale /\ cfg \in PqConfig /\ server \in PqServer
  BY DEF OnScale, Scale, Scales, Configs, Servers
<1>2. Sees(PqScale, o) /\ Meets(server, o) /\ Ends(o)
  BY <1>1, SeenOf DEF Scales
<1>3. Verdict(place) = PqRun(cfg, o)
  BY DEF Verdict, RunCheck
<1>4. /\ Contact[check] = {"verdict"}
      /\ Outage = {}
      /\ Unmeasured(o) <=> (o.verdict = "ERROR")
  BY DEF Contact, Outage, Unmeasured
<1>5. Sound => cfg.profilesKnown
  BY <1>1 DEF Sound, PqConfig
<1>6. place["verdict"] = Len(Scale["verdict"]) => o.verdict = "ERROR"
  BY <1>1, <1>2, OfBool DEF Ends, PqScale
<1> HIDE DEF o
<1>7. Typed(Verdict(place))
  BY <1>1, <1>2, <1>3, PqReport
<1>8. ~SharesTargets => Agrees(Verdict(place))
  BY <1>1, <1>2, <1>3, PqReport
<1>9. (\E f \in Contact[check] : place[f] = Len(Scale[f])) => Fails(Verdict(place))
  BY <1>1, <1>2, <1>3, PqReport, <1>4, <1>6
<1>10. Fails(Verdict(place)) => ~Sound \/ Unmeasured(o)
  <2>1. Fails(Verdict(place)) => ~cfg.profilesKnown \/ o.verdict = "ERROR"
    BY <1>1, <1>2, <1>3, PqReport
  <2> QED
    BY ONLY <1>4, <1>5, <2>1
<1>11. (\E f \in Outage : place[f] = Len(Scale[f])) => IsRed(Verdict(place))
  BY <1>4
<1>12. Minority => IsRed(Verdict(place))
  BY DEF Minority
<1>13. check \in Discovers => \A t \in Unreached : Blames(Verdict(place), t)
  BY DEF Discovers
<1> QED
  BY ONLY <1>7, <1>8, <1>9, <1>10, <1>11, <1>12, <1>13 DEF Right, o

\* A report of module rabbitmq is right in every state.
LEMMA RabbitMQVerdict ==
  ASSUME OnScale, check = "rabbitmq"
  PROVE  Right
<1> DEFINE o == Seen(place)
<1>1. Scale = RabbitMQScale /\ cfg \in RabbitMQConfig /\ server \in RabbitMQServer
  BY DEF OnScale, Scale, Scales, Configs, Servers
<1>2. Sees(RabbitMQScale, o) /\ Meets(server, o) /\ Ends(o)
  BY <1>1, SeenOf DEF Scales
<1>3. Verdict(place) = RabbitMQRun(cfg, o)
  BY DEF Verdict, RunCheck
<1>4. /\ Contact[check] = {"t1", "t2"}
      /\ Outage = {"running", "memory", "disk"}
      /\ Unmeasured(o) <=> (~o.t1 \/ ~o.t2 \/ ~o.nodes \/ ~o.queues)
  BY DEF Contact, Outage, Unmeasured, Requests
<1>5. Sound
  BY <1>1 DEF Sound, RabbitMQConfig
<1>6. /\ place["t1"] = Len(Scale["t1"]) => ~o.t1
      /\ place["t2"] = Len(Scale["t2"]) => ~o.t2
      /\ place["running"] = Len(Scale["running"]) => ~o.running
      /\ place["memory"] = Len(Scale["memory"]) => ~o.memory
      /\ place["disk"] = Len(Scale["disk"]) => ~o.disk
  BY <1>1, <1>2, OfBool DEF Ends, RabbitMQScale
<1> HIDE DEF o
<1>7. Typed(Verdict(place))
  BY <1>1, <1>2, <1>3, RabbitMQReport
<1>8. ~SharesTargets => Agrees(Verdict(place))
  <2>1. o.sameHost = server.sameHost
    BY <1>1, <1>2 DEF Meets, RabbitMQServer
  <2> QED
    BY <2>1, <1>1, <1>2, <1>3, RabbitMQReport DEF SharesTargets
<1>9. (\E f \in Contact[check] : place[f] = Len(Scale[f])) => Fails(Verdict(place))
  BY <1>1, <1>2, <1>3, RabbitMQReport, <1>4, <1>6
<1>10. Fails(Verdict(place)) => ~Sound \/ Unmeasured(o)
  <2>1. Fails(Verdict(place)) => ~o.t1 \/ ~o.t2 \/ ~o.nodes \/ ~o.queues
    BY <1>1, <1>2, <1>3, RabbitMQReport
  <2> QED
    BY ONLY <1>4, <1>5, <2>1
<1>11. (\E f \in Outage : place[f] = Len(Scale[f])) => IsRed(Verdict(place))
  BY <1>1, <1>2, <1>3, RabbitMQReport, <1>4, <1>6
<1>12. Minority => IsRed(Verdict(place))
  BY DEF Minority
<1>13. check \in Discovers => \A t \in Unreached : Blames(Verdict(place), t)
  BY DEF Discovers
<1> QED
  BY ONLY <1>7, <1>8, <1>9, <1>10, <1>11, <1>12, <1>13 DEF Right, o

\* A report of module redis is right in every state.
LEMMA RedisVerdict ==
  ASSUME OnScale, check = "redis"
  PROVE  Right
<1> DEFINE o == Seen(place)
<1>1. Scale = RedisScale /\ cfg \in RedisConfig /\ server \in RedisServer
  BY DEF OnScale, Scale, Scales, Configs, Servers
<1>2. Sees(RedisScale, o) /\ Meets(server, o) /\ Ends(o)
  BY <1>1, SeenOf DEF Scales
<1>3. Verdict(place) = RedisRun(cfg, o)
  BY DEF Verdict, RunCheck
<1>4. /\ Contact[check] = {"resolved", "failsAt"}
      /\ Outage = {}
      /\ Unmeasured(o) <=> (~o.resolved \/ o.failsAt # "nothing")
  BY DEF Contact, Outage, Unmeasured
<1>5. Sound
  BY <1>1 DEF Sound, RedisConfig
<1>6. /\ place["resolved"] = Len(Scale["resolved"]) => ~o.resolved
      /\ place["failsAt"] = Len(Scale["failsAt"]) => o.failsAt = "dial"
  BY <1>1, <1>2, OfBool DEF Ends, RedisScale
<1> HIDE DEF o
<1>7. Typed(Verdict(place))
  BY <1>1, <1>2, <1>3, RedisReport
<1>8. ~SharesTargets => Agrees(Verdict(place))
  BY <1>1, <1>2, <1>3, RedisReport
<1>9. (\E f \in Contact[check] : place[f] = Len(Scale[f])) => Fails(Verdict(place))
  BY <1>1, <1>2, <1>3, RedisReport, <1>4, <1>6
<1>10. Fails(Verdict(place)) => ~Sound \/ Unmeasured(o)
  <2>1. Fails(Verdict(place)) => ~o.resolved \/ o.failsAt # "nothing"
    BY <1>1, <1>2, <1>3, RedisReport
  <2> QED
    BY ONLY <1>4, <1>5, <2>1
<1>11. (\E f \in Outage : place[f] = Len(Scale[f])) => IsRed(Verdict(place))
  BY <1>4
<1>12. Minority => IsRed(Verdict(place))
  BY DEF Minority
<1>13. check \in Discovers => \A t \in Unreached : Blames(Verdict(place), t)
  <2>1. \A t \in {"given", "found"} : t \notin DOMAIN Scale
    BY <1>1 DEF RedisScale
  <2>2. Unreached # {} => o.failsAt = "dial"
    BY ONLY <2>1, <1>4, <1>6 DEF Unreached
  <2>3. o.failsAt = "dial" => Blames(Verdict(place), "given") /\ Blames(Verdict(place), "found")
    BY <1>1, <1>2, <1>3, RedisReport
  <2> QED
    BY ONLY <2>2, <2>3 DEF Unreached
<1> QED
  BY ONLY <1>7, <1>8, <1>9, <1>10, <1>11, <1>12, <1>13 DEF Right, o

\* A report of module s3 is right in every state.
LEMMA S3Verdict ==
  ASSUME OnScale, check = "s3"
  PROVE  Right
<1> DEFINE o == Seen(place)
<1>1. Scale = S3Scale /\ cfg \in S3Config /\ server \in S3Server
  BY DEF OnScale, Scale, Scales, Configs, Servers
<1>2. Sees(S3Scale, o) /\ Meets(server, o) /\ Ends(o)
  BY <1>1, SeenOf DEF Scales
<1>3. Verdict(place) = S3Run(cfg, o)
  BY DEF Verdict, RunCheck
<1>4. /\ Contact[check] = {"t1", "t2"}
      /\ Outage = {}
      /\ Unmeasured(o) <=> (0 \in {o.t1, o.t2, o.object})
  BY DEF Contact, Outage, Unmeasured
<1>5. Sound
  BY <1>1 DEF Sound, S3Config
<1>6. /\ place["t1"] = Len(Scale["t1"]) => o.t1 = 0
      /\ place["t2"] = Len(Scale["t2"]) => o.t2 = 0
  <2>1. place["t1"] = Len(Scale["t1"]) => o.t1 = 0
    <3>1. "t1" \in DOMAIN Scale
      BY <1>1 DEF S3Scale
    <3>2. Scale["t1"] = <<200, 404, 403, 500, 0>>
      BY <1>1 DEF S3Scale
    <3>3. Len(Scale["t1"]) = 5 /\ Scale["t1"][5] = 0
      BY ONLY <3>2
    <3>4. place["t1"] = Len(Scale["t1"]) => o["t1"] = Scale["t1"][Len(Scale["t1"])]
      BY <1>2, <3>1 DEF Ends
    <3> QED
      BY ONLY <3>3, <3>4
  <2>2. place["t2"] = Len(Scale["t2"]) => o.t2 = 0
    <3>1. "t2" \in DOMAIN Scale
      BY <1>1 DEF S3Scale
    <3>2. Scale["t2"] = <<200, 404, 403, 500, 0>>
      BY <1>1 DEF S3Scale
    <3>3. Len(Scale["t2"]) = 5 /\ Scale["t2"][5] = 0
      BY ONLY <3>2
    <3>4. place["t2"] = Len(Scale["t2"]) => o["t2"] = Scale["t2"][Len(Scale["t2"])]
      BY <1>2, <3>1 DEF Ends
    <3> QED
      BY ONLY <3>3, <3>4
  <2> QED
    BY ONLY <2>1, <2>2
<1> HIDE DEF o
<1>7. Typed(Verdict(place))
  BY <1>1, <1>2, <1>3, S3Report
<1>8. ~SharesTargets => Agrees(Verdict(place))
  BY <1>1, <1>2, <1>3, S3Report DEF SharesTargets
<1>9. (\E f \in Contact[check] : place[f] = Len(Scale[f])) => Fails(Verdict(place))
  BY <1>1, <1>2, <1>3, S3Report, <1>4, <1>6
<1>10. Fails(Verdict(place)) => ~Sound \/ Unmeasured(o)
  <2>1. Fails(Verdict(place)) => 0 \in {o.t1, o.t2, o.object}
    BY <1>1, <1>2, <1>3, S3Report
  <2> QED
    BY ONLY <1>4, <1>5, <2>1
<1>11. (\E f \in Outage : place[f] = Len(Scale[f])) => IsRed(Verdict(place))
  BY <1>4
<1>12. Minority => IsRed(Verdict(place))
  BY DEF Minority
<1>13. check \in Discovers => \A t \in Unreached : Blames(Verdict(place), t)
  BY DEF Discovers
<1> QED
  BY ONLY <1>7, <1>8, <1>9, <1>10, <1>11, <1>12, <1>13 DEF Right, o

\* A report of module smtp is right in every state.
LEMMA SmtpVerdict ==
  ASSUME OnScale, check = "smtp"
  PROVE  Right
<1> DEFINE o == Seen(place)
<1>1. Scale = SmtpScale /\ cfg \in SmtpConfig /\ server \in SmtpServer
  BY DEF OnScale, Scale, Scales, Configs, Servers
<1>2. Sees(SmtpScale, o) /\ Meets(server, o) /\ Ends(o)
  BY <1>1, SeenOf DEF Scales
<1>3. Verdict(place) = SmtpRun(cfg, o)
  BY DEF Verdict, RunCheck
<1>4. /\ Contact[check] = {"failsAt"}
      /\ Outage = {"greeting", "ehlo"}
      /\ Unmeasured(o) <=> (o.failsAt # "nothing")
  BY DEF Contact, Outage, Unmeasured
<1>5. Sound => cfg.caReadable
  BY <1>1 DEF Sound, SmtpConfig
<1>6. /\ place["failsAt"] = Len(Scale["failsAt"]) => o.failsAt = "dial"
      /\ place["greeting"] = Len(Scale["greeting"]) => o.greeting = 554
      /\ place["ehlo"] = Len(Scale["ehlo"]) => o.ehlo = 502
  <2>1. place["failsAt"] = Len(Scale["failsAt"]) => o.failsAt = "dial"
    <3>1. "failsAt" \in DOMAIN Scale
      BY <1>1 DEF SmtpScale
    <3>2. Scale["failsAt"] = <<"nothing", "handshake", "ehlo", "greeting", "dial">>
      BY <1>1 DEF SmtpScale
    <3>3. Len(Scale["failsAt"]) = 5 /\ Scale["failsAt"][5] = "dial"
      BY ONLY <3>2
    <3>4. place["failsAt"] = Len(Scale["failsAt"]) => o["failsAt"] = Scale["failsAt"][Len(Scale["failsAt"])]
      BY <1>2, <3>1 DEF Ends
    <3> QED
      BY ONLY <3>3, <3>4
  <2>2. place["greeting"] = Len(Scale["greeting"]) => o.greeting = 554
    <3>1. "greeting" \in DOMAIN Scale
      BY <1>1 DEF SmtpScale
    <3>2. Scale["greeting"] = <<220, 554>>
      BY <1>1 DEF SmtpScale
    <3>3. Len(Scale["greeting"]) = 2 /\ Scale["greeting"][2] = 554
      BY ONLY <3>2
    <3>4. place["greeting"] = Len(Scale["greeting"]) => o["greeting"] = Scale["greeting"][Len(Scale["greeting"])]
      BY <1>2, <3>1 DEF Ends
    <3> QED
      BY ONLY <3>3, <3>4
  <2>3. place["ehlo"] = Len(Scale["ehlo"]) => o.ehlo = 502
    <3>1. "ehlo" \in DOMAIN Scale
      BY <1>1 DEF SmtpScale
    <3>2. Scale["ehlo"] = <<250, 502>>
      BY <1>1 DEF SmtpScale
    <3>3. Len(Scale["ehlo"]) = 2 /\ Scale["ehlo"][2] = 502
      BY ONLY <3>2
    <3>4. place["ehlo"] = Len(Scale["ehlo"]) => o["ehlo"] = Scale["ehlo"][Len(Scale["ehlo"])]
      BY <1>2, <3>1 DEF Ends
    <3> QED
      BY ONLY <3>3, <3>4
  <2> QED
    BY ONLY <2>1, <2>2, <2>3
<1> HIDE DEF o
<1>7. Typed(Verdict(place))
  BY <1>1, <1>2, <1>3, SmtpReport
<1>8. ~SharesTargets => Agrees(Verdict(place))
  BY <1>1, <1>2, <1>3, SmtpReport
<1>9. (\E f \in Contact[check] : place[f] = Len(Scale[f])) => Fails(Verdict(place))
  BY <1>1, <1>2, <1>3, SmtpReport, <1>4, <1>6
<1>10. Fails(Verdict(place)) => ~Sound \/ Unmeasured(o)
  <2>1. Fails(Verdict(place)) => ~cfg.caReadable \/ o.failsAt # "nothing"
    BY <1>1, <1>2, <1>3, SmtpReport
  <2> QED
    BY ONLY <1>4, <1>5, <2>1
<1>11. (\E f \in Outage : place[f] = Len(Scale[f])) => IsRed(Verdict(place))
  BY <1>1, <1>2, <1>3, SmtpReport, <1>4, <1>6
<1>12. Minority => IsRed(Verdict(place))
  BY DEF Minority
<1>13. check \in Discovers => \A t \in Unreached : Blames(Verdict(place), t)
  BY DEF Discovers
<1> QED
  BY ONLY <1>7, <1>8, <1>9, <1>10, <1>11, <1>12, <1>13 DEF Right, o

\* A report of module stream is right in every state.
LEMMA StreamVerdict ==
  ASSUME OnScale, check = "stream"
  PROVE  Right
<1> DEFINE o == Seen(place)
<1>1. Scale = StreamScale /\ cfg \in StreamConfig /\ server \in StreamServer
  BY DEF OnScale, Scale, Scales, Configs, Servers
<1>2. Sees(StreamScale, o) /\ Meets(server, o) /\ Ends(o)
  BY <1>1, SeenOf DEF Scales
<1>3. Verdict(place) = StreamRun(cfg, o)
  BY DEF Verdict, RunCheck
<1>4. /\ Contact[check] = {"reachable"}
      /\ Outage = {"valid"}
      /\ Unmeasured(o) <=> (~o.reachable)
  BY DEF Contact, Outage, Unmeasured, Requests
<1>5. Sound
  BY <1>1 DEF Sound, StreamConfig
<1>6. /\ place["reachable"] = Len(Scale["reachable"]) => ~o.reachable
      /\ place["valid"] = Len(Scale["valid"]) => ~o.valid
  BY <1>1, <1>2, OfBool DEF Ends, StreamScale
<1> HIDE DEF o
<1>7. Typed(Verdict(place))
  BY <1>1, <1>2, <1>3, StreamReport
<1>8. ~SharesTargets => Agrees(Verdict(place))
  BY <1>1, <1>2, <1>3, StreamReport
<1>9. (\E f \in Contact[check] : place[f] = Len(Scale[f])) => Fails(Verdict(place))
  BY <1>1, <1>2, <1>3, StreamReport, <1>4, <1>6
<1>10. Fails(Verdict(place)) => ~Sound \/ Unmeasured(o)
  <2>1. Fails(Verdict(place)) => ~o.reachable
    BY <1>1, <1>2, <1>3, StreamReport
  <2> QED
    BY ONLY <1>4, <1>5, <2>1
<1>11. (\E f \in Outage : place[f] = Len(Scale[f])) => IsRed(Verdict(place))
  BY <1>1, <1>2, <1>3, StreamReport, <1>4, <1>6
<1>12. Minority => IsRed(Verdict(place))
  BY DEF Minority
<1>13. check \in Discovers => \A t \in Unreached : Blames(Verdict(place), t)
  BY DEF Discovers
<1> QED
  BY ONLY <1>7, <1>8, <1>9, <1>10, <1>11, <1>12, <1>13 DEF Right, o

\* A report of module tcp is right in every state.
LEMMA TcpVerdict ==
  ASSUME OnScale, check = "tcp"
  PROVE  Right
<1> DEFINE o == Seen(place)
<1>1. Scale = TcpScale /\ cfg \in TcpConfig /\ server \in TcpServer
  BY DEF OnScale, Scale, Scales, Configs, Servers
<1>2. Sees(TcpScale, o) /\ Meets(server, o) /\ Ends(o)
  BY <1>1, SeenOf DEF Scales
<1>3. Verdict(place) = TcpRun(cfg, o)
  BY DEF Verdict, RunCheck
<1>4. /\ Contact[check] = {"listening"}
      /\ Outage = {}
      /\ Unmeasured(o) <=> (~o.listening \/ ~o.handshake)
  BY DEF Contact, Outage, Unmeasured, Requests
<1>5. Sound => cfg.caReadable
  BY <1>1 DEF Sound, TcpConfig
<1>6. place["listening"] = Len(Scale["listening"]) => ~o.listening
  BY <1>1, <1>2, OfBool DEF Ends, TcpScale
<1> HIDE DEF o
<1>7. Typed(Verdict(place))
  BY <1>1, <1>2, <1>3, TcpReport
<1>8. ~SharesTargets => Agrees(Verdict(place))
  BY <1>1, <1>2, <1>3, TcpReport
<1>9. (\E f \in Contact[check] : place[f] = Len(Scale[f])) => Fails(Verdict(place))
  BY <1>1, <1>2, <1>3, TcpReport, <1>4, <1>6 DEF dial
<1>10. Fails(Verdict(place)) => ~Sound \/ Unmeasured(o)
  <2>1. Fails(Verdict(place)) => ~cfg.caReadable \/ ~o.listening \/ ~o.handshake
    BY <1>1, <1>2, <1>3, TcpReport DEF dial
  <2> QED
    BY ONLY <1>4, <1>5, <2>1
<1>11. (\E f \in Outage : place[f] = Len(Scale[f])) => IsRed(Verdict(place))
  BY <1>4
<1>12. Minority => IsRed(Verdict(place))
  BY DEF Minority
<1>13. check \in Discovers => \A t \in Unreached : Blames(Verdict(place), t)
  BY DEF Discovers
<1> QED
  BY ONLY <1>7, <1>8, <1>9, <1>10, <1>11, <1>12, <1>13 DEF Right, o

\* A report of module tls is right in every state.
LEMMA TlsVerdict ==
  ASSUME OnScale, check = "tls"
  PROVE  Right
<1> DEFINE o == Seen(place)
<1>1. Scale = TlsScale /\ cfg \in TlsConfig /\ server \in TlsServer
  BY DEF OnScale, Scale, Scales, Configs, Servers
<1>2. Sees(TlsScale, o) /\ Meets(server, o) /\ Ends(o)
  BY <1>1, SeenOf DEF Scales
<1>3. Verdict(place) = TlsRun(cfg, o)
  BY DEF Verdict, RunCheck
<1>4. /\ Contact[check] = {"resolved", "connects", "handshake"}
      /\ Outage = {"hours", "trusted"}
      /\ Unmeasured(o) <=> (~o.resolved \/ ~o.connects \/ ~o.handshake)
  BY DEF Contact, Outage, Unmeasured, Requests
<1>5. Sound
  BY <1>1 DEF Sound, TlsConfig
<1>6. /\ place["resolved"] = Len(Scale["resolved"]) => ~o.resolved
      /\ place["connects"] = Len(Scale["connects"]) => ~o.connects
      /\ place["handshake"] = Len(Scale["handshake"]) => ~o.handshake
      /\ place["hours"] = Len(Scale["hours"]) => o.hours = -30
      /\ place["trusted"] = Len(Scale["trusted"]) => ~o.trusted
  BY <1>1, <1>2, OfBool DEF Ends, TlsScale
<1> HIDE DEF o
<1>7. Typed(Verdict(place))
  BY <1>1, <1>2, <1>3, TlsReport
<1>8. ~SharesTargets => Agrees(Verdict(place))
  BY <1>1, <1>2, <1>3, TlsReport
<1>9. (\E f \in Contact[check] : place[f] = Len(Scale[f])) => Fails(Verdict(place))
  BY <1>1, <1>2, <1>3, TlsReport, <1>4, <1>6
<1>10. Fails(Verdict(place)) => ~Sound \/ Unmeasured(o)
  <2>1. Fails(Verdict(place)) => ~o.resolved \/ ~o.connects \/ ~o.handshake
    BY <1>1, <1>2, <1>3, TlsReport
  <2> QED
    BY ONLY <1>4, <1>5, <2>1
<1>11. (\E f \in Outage : place[f] = Len(Scale[f])) => IsRed(Verdict(place))
  BY <1>1, <1>2, <1>3, TlsReport, <1>4, <1>6
<1>12. Minority => IsRed(Verdict(place))
  BY DEF Minority
<1>13. check \in Discovers => \A t \in Unreached : Blames(Verdict(place), t)
  BY <1>1, <1>2, <1>3, TlsReport, <1>4, <1>6 DEF Unreached, TlsScale
<1> QED
  BY ONLY <1>7, <1>8, <1>9, <1>10, <1>11, <1>12, <1>13 DEF Right, o

\* A report of module vault is right in every state.
LEMMA VaultVerdict ==
  ASSUME OnScale, check = "vault"
  PROVE  Right
<1> DEFINE o == Seen(place)
<1>1. Scale = VaultScale /\ cfg \in VaultConfig /\ server \in VaultServer
  BY DEF OnScale, Scale, Scales, Configs, Servers
<1>2. Sees(VaultScale, o) /\ Meets(server, o) /\ Ends(o)
  BY <1>1, SeenOf DEF Scales
<1>3. Verdict(place) = VaultRun(cfg, o)
  BY DEF Verdict, RunCheck
<1>4. /\ Contact[check] = {"t1", "t2"}
      /\ Outage = {"initialized", "unsealed"}
      /\ Unmeasured(o) <=> ("none" \in {o.t1, o.t2})
  BY DEF Contact, Outage, Unmeasured
<1>5. Sound
  BY <1>1 DEF Sound, VaultConfig
<1>6. /\ place["t1"] = Len(Scale["t1"]) => o.t1 = "none"
      /\ place["t2"] = Len(Scale["t2"]) => o.t2 = "none"
      /\ place["initialized"] = Len(Scale["initialized"]) => ~o.initialized
      /\ place["unsealed"] = Len(Scale["unsealed"]) => ~o.unsealed
  BY <1>1, <1>2, OfBool DEF Ends, VaultScale
<1> HIDE DEF o
<1>7. Typed(Verdict(place))
  BY <1>1, <1>2, <1>3, VaultReport
<1>8. ~SharesTargets => Agrees(Verdict(place))
  BY <1>1, <1>2, <1>3, VaultReport
<1>9. (\E f \in Contact[check] : place[f] = Len(Scale[f])) => Fails(Verdict(place))
  BY <1>1, <1>2, <1>3, VaultReport, <1>4, <1>6
<1>10. Fails(Verdict(place)) => ~Sound \/ Unmeasured(o)
  <2>1. Fails(Verdict(place)) => "none" \in {o.t1, o.t2}
    BY <1>1, <1>2, <1>3, VaultReport
  <2> QED
    BY ONLY <1>4, <1>5, <2>1
<1>11. (\E f \in Outage : place[f] = Len(Scale[f])) => IsRed(Verdict(place))
  BY <1>1, <1>2, <1>3, VaultReport, <1>4, <1>6
<1>12. Minority => IsRed(Verdict(place))
  BY DEF Minority
<1>13. check \in Discovers => \A t \in Unreached : Blames(Verdict(place), t)
  BY DEF Discovers
<1> QED
  BY ONLY <1>7, <1>8, <1>9, <1>10, <1>11, <1>12, <1>13 DEF Right, o

-----------------------------------------------------------------------------
(***************************************************************************)
(* The invariants.                                                         *)
(***************************************************************************)

\* Whatever module is looked at, its reports are right.
LEMMA RightAlways ==
  ASSUME OnScale
  PROVE  Right
<1>1. check \in DOMAIN Scales
  BY ChecksAssumption DEF OnScale
<1> QED
  BY ONLY <1>1, OnScale, CassandraVerdict, CertsVerdict, ClickHouseVerdict, ConsulVerdict,
     DnsVerdict, ElasticsearchVerdict, EtcdVerdict, FlowVerdict, GrpcVerdict, HAProxyVerdict,
     HttpVerdict, IngestVerdict, KafkaVerdict, KeycloakVerdict, LdapVerdict, MediaMTXVerdict,
     MemcachedVerdict, MongoDBVerdict, MySQLVerdict, NatsVerdict, NtpVerdict, PatroniVerdict,
     PostgresVerdict, PqVerdict, RabbitMQVerdict, RedisVerdict, S3Verdict, SmtpVerdict,
     StreamVerdict, TcpVerdict, TlsVerdict, VaultVerdict DEF Scales

\* The places on the scales are kept.
LEMMA PlacedAtFirst ==
  ASSUME Init
  PROVE  OnScale
<1>1. check \in Checks /\ cfg \in Configs[check] /\ server \in Servers[check] /\ place = Well
  BY DEF Init
<1>2. Graded(Scale)
  BY <1>1, ChecksAssumption, AllGraded DEF Scale
<1>3. DOMAIN place = DOMAIN Scale /\ \A f \in DOMAIN Scale : place[f] = 1
  BY <1>1 DEF Well
<1>4. \A f \in DOMAIN Scale : 1 \in DOMAIN Scale[f]
  BY <1>2 DEF Graded, IsGrade
<1> QED
  BY <1>1, <1>3, <1>4 DEF OnScale

\* And every step keeps them.
LEMMA PlacedThen ==
  ASSUME OnScale, [Next]_vars
  PROVE  OnScale'
<1>1. Graded(Scale)
  BY ChecksAssumption, AllGraded DEF OnScale, Scale
<1>2. CASE UNCHANGED vars
  BY <1>2 DEF OnScale, vars, Scale
<1>3. ASSUME NEW f \in DOMAIN Scale, Degrade(f) PROVE OnScale'
  <2>1. /\ place[f] < Len(Scale[f]) /\ place' = [place EXCEPT ![f] = @ + 1]
        /\ check' = check /\ cfg' = cfg /\ server' = server
    BY <1>3 DEF Degrade
  <2>2. Scale' = Scale
    BY <2>1 DEF Scale
  <2>3. IsGrade(Scale[f]) /\ place[f] \in DOMAIN Scale[f]
    BY <1>1 DEF Graded, OnScale
  <2>4. place[f] + 1 \in DOMAIN Scale[f]
    BY <2>1, <2>3 DEF IsGrade
  <2>5. DOMAIN place = DOMAIN Scale /\ \A g \in DOMAIN Scale : place[g] \in DOMAIN Scale[g]
    BY DEF OnScale
  <2>6. DOMAIN place' = DOMAIN Scale /\ \A g \in DOMAIN Scale : place'[g] \in DOMAIN Scale[g]
    BY ONLY <2>1, <2>4, <2>5
  <2> QED
    BY <2>1, <2>2, <2>6 DEF OnScale
<1>4. ASSUME Repair PROVE OnScale'
  <2>1. place' = Well /\ check' = check /\ cfg' = cfg /\ server' = server
    BY <1>4 DEF Repair
  <2>2. Scale' = Scale
    BY <2>1 DEF Scale
  <2>3. DOMAIN Well = DOMAIN Scale /\ \A g \in DOMAIN Scale : Well[g] = 1
    BY DEF Well
  <2>4. \A g \in DOMAIN Scale : 1 \in DOMAIN Scale[g]
    BY <1>1 DEF Graded, IsGrade
  <2> QED
    BY <2>1, <2>2, <2>3, <2>4 DEF OnScale
<1> QED
  BY <1>2, <1>3, <1>4 DEF Next

\* A report with a finding that is BAD or an ERROR is red.
LEMMA Reddens ==
  ASSUME NEW fs, Typed(fs), IsRed(fs)
  PROVE  Colour(fs) = 2
<1> DEFINE S == {0} \cup {severity(fs[i].status) : i \in DOMAIN fs}
<1>1. fs \in Seq(ToSet(fs)) /\ \A i \in DOMAIN fs : fs[i].status \in Status
  BY DEF Typed, IsSequence, ToSet
<1>2. S \in SUBSET (0 .. 3)
  BY <1>1, Severities
<1>3. PICK i \in DOMAIN fs : fs[i].status \in {"BAD", "ERROR"}
  BY DEF IsRed, ToSet
<1>4. severity(fs[i].status) \in S /\ severity(fs[i].status) \in {2, 3}
  BY <1>3 DEF severity
<1>5. Colour(fs) = Min({2, Max(S)})
  BY DEF Colour
<1> HIDE DEF S
<1>6. S \in SUBSET Nat /\ S # {} /\ IsFiniteSet(S)
  <2>1. IsFiniteSet(0 .. 3)
    BY ONLY 0 \in Int, 3 \in Int, FS_Interval
  <2>2. IsFiniteSet(S)
    BY ONLY <2>1, <1>2, FS_Subset
  <2> QED
    BY ONLY <2>2, <1>2, <1>4
<1>7. Max(S) \in Nat /\ \A x \in S : x <= Max(S)
  BY <1>6, MaxOfNaturals
<1>8. 2 <= Max(S)
  BY <1>4, <1>7
<1> DEFINE T == {2, Max(S)}
<1>9. T \in SUBSET Nat /\ T # {}
  BY <1>7
<1>10. Min(T) \in T /\ \A x \in T : Min(T) <= x
  <2> HIDE DEF T
  <2> QED
    BY <1>9, MinOfNaturals
<1>11. Min(T) = 2
  BY <1>7, <1>8, <1>10
<1> QED
  BY <1>5, <1>11

\* The finding with an ERROR, by its place and by its value.
LEMMA FailsAsError == \A fs : hasError(fs) <=> Fails(fs)
BY DEF hasError, Fails, ToSet

\* What is asked of a report gives each invariant.
LEMMA TypeOKThen ==
  ASSUME OnScale, Right
  PROVE  TypeOK
<1>1. \A x \in ToSet(Verdict(place)) : x.status \in Status
  BY DEF Right, Typed
<1>2. \A i \in DOMAIN Verdict(place) : Verdict(place)[i].status \in Status
  BY <1>1 DEF ToSet
<1> QED
  BY <1>2 DEF TypeOK, OnScale

\* The second.
LEMMA OneVerdictThen ==
  ASSUME Right
  PROVE  OneVerdictPerKey
<1> SUFFICES ASSUME ~SharesTargets,
                    NEW i \in DOMAIN Verdict(place), NEW j \in DOMAIN Verdict(place),
                    Verdict(place)[i].target = Verdict(place)[j].target,
                    Verdict(place)[i].part = Verdict(place)[j].part
             PROVE  Verdict(place)[i].status = Verdict(place)[j].status
  BY DEF OneVerdictPerKey
<1>1. Agrees(Verdict(place))
  BY DEF Right
<1>2. Verdict(place)[i] \in ToSet(Verdict(place)) /\ Verdict(place)[j] \in ToSet(Verdict(place))
  BY DEF ToSet
<1> QED
  BY <1>1, <1>2 DEF Agrees

\* The third.
LEMMA ErrorIffUnmeasuredThen ==
  ASSUME Right
  PROVE  ErrorIffUnmeasured
<1> DEFINE fs == Verdict(place)
<1>1. /\ (\E f \in Contact[check] : place[f] = Len(Scale[f])) => Fails(fs)
      /\ Fails(fs) => ~Sound \/ Unmeasured(Seen(place))
      /\ check \in Discovers => \A t \in Unreached : Blames(fs, t)
  BY DEF Right
<1> HIDE DEF fs
<1>2. \A t : Blames(fs, t) => \E i \in DOMAIN fs : fs[i].target = t /\ fs[i].status = "ERROR"
  BY DEF Blames, ToSet
<1> QED
  BY <1>1, <1>2, FailsAsError DEF ErrorIffUnmeasured, fs

\* The fourth.
LEMMA OutageThen ==
  ASSUME Right
  PROVE  OutageIsRed
<1>1. Typed(Verdict(place))
  BY DEF Right
<1>2. IsRed(Verdict(place)) => Colour(Verdict(place)) = 2
  BY <1>1, Reddens
<1> QED
  BY <1>2 DEF Right, OutageIsRed, Minority

\* They are on their scales in every state.
LEMMA AlwaysPlaced == Spec => []OnScale
<1>1. Init => OnScale
  BY PlacedAtFirst
<1>2. OnScale /\ [Next]_vars => OnScale'
  BY PlacedThen
<1> QED
  BY <1>1, <1>2, PTL DEF Spec

\* In every state of a behaviour a module, a configuration of it and a server it may
\* meet, each thing about the server on its scale, and a report whose findings each
\* have one of the four statuses: whichever modules are looked at and however far
\* from well the server gets.
THEOREM TypeCorrect == Spec => []TypeOK
<1>1. OnScale => TypeOK
  BY RightAlways, TypeOKThen
<1> QED
  BY <1>1, AlwaysPlaced, PTL

\* No report disagrees with itself under one name, provided that the targets configured
\* are told apart by their names or addresses, and but for the modules and servers of
\* SharesTargets: the baseline, the alerts and the history may keep one status for each.
THEOREM ReportsAgree == Spec => []OneVerdictPerKey
<1>1. OnScale => OneVerdictPerKey
  BY RightAlways, OneVerdictThen
<1> QED
  BY <1>1, AlwaysPlaced, PTL

\* A target that does not answer makes an ERROR, whatever else is wrong; an ERROR says
\* that a question was not answered, or not with anything the module understands; and
\* a host that does not answer is named in one, whatever the other sources of hosts do.
THEOREM ErrorsAreUnmeasured == Spec => []ErrorIffUnmeasured
<1>1. OnScale => ErrorIffUnmeasured
  BY RightAlways, ErrorIffUnmeasuredThen
<1> QED
  BY <1>1, AlwaysPlaced, PTL

\* A service that is out of use makes a red report in every configuration, whatever
\* else is wrong with it, a replica set without a primary included.
THEOREM OutagesAreRed == Spec => []OutageIsRed
<1>1. OnScale => OutageIsRed
  BY RightAlways, OutageThen
<1> QED
  BY <1>1, AlwaysPlaced, PTL
=============================================================================
