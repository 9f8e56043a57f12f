---------------------------- MODULE HistoryProofs ----------------------------
(***************************************************************************)
(* Proofs about the history file, for any number of processes, any of them *)
(* compacting or of a later version, and any retention policy.             *)
(***************************************************************************)
EXTENDS History, Lemmas

Lines == Records \cup {Junk}

LEMMA RecordFields ==
  \A r \in Records : r.t \in Nat /\ r.id \in Nat /\ r.sv \in {"known", "newer"} /\ r # Junk
BY BoundsAssumption DEF Records, Junk

LEMMA SeqIsList ==
  ASSUME NEW S, NEW s \in Seq(S)
  PROVE  IsList(s) /\ LinesIn(s) \subseteq S
BY DEF IsList, LinesIn

LEMMA ListIsSeq ==
  ASSUME NEW S, NEW s, IsList(s), s = [k \in DOMAIN s |-> s[k]], LinesIn(s) \subseteq S
  PROVE  s \in Seq(S)
<1>1. s \in [1 .. Len(s) -> S]
  BY DEF IsList, LinesIn
<1> QED
  BY <1>1 DEF IsList

-----------------------------------------------------------------------------
(***************************************************************************)
(* What a compaction makes of the records it has read.                     *)
(***************************************************************************)
Once(rs) == \A i, j \in DOMAIN rs : rs[i] = rs[j] => i = j

\* Records by the time their runs started, each once.
Ordered(rs) ==
  /\ rs \in Seq(Records) /\ Once(rs)
  /\ \A i, j \in DOMAIN rs : i < j => rs[i].t <= rs[j].t

\* Picking from a list keeps the order.
LEMMA PickIsSeq ==
  ASSUME NEW S, NEW rs \in Seq(S), NEW P \in SUBSET DOMAIN rs
  PROVE  /\ Pick(rs, P) \in Seq(S) /\ LinesIn(Pick(rs, P)) = {rs[i] : i \in P}
         /\ \A k, l \in DOMAIN Pick(rs, P) : k < l =>
              \E i, j \in P : i < j /\ Pick(rs, P)[k] = rs[i] /\ Pick(rs, P)[l] = rs[j]
<1> DEFINE n == Cardinality(P)
<1>1. IsList(rs) /\ LinesIn(rs) \subseteq S
  BY SeqIsList
<1>2. P \in SUBSET Nat /\ IsFiniteSet(P)
  BY <1>1, ListIsFinite
<1>3. Pick(rs, P) = [k \in 1 .. n |-> rs[Nth(P, k)]] /\ ToSet(Pick(rs, P)) = {rs[i] : i \in P}
  BY <1>2, Picked
<1>4. IsList(Pick(rs, P))
  BY <1>1, PickedList
<1>5. LinesIn(Pick(rs, P)) = {rs[i] : i \in P}
  BY <1>3 DEF ToSet, LinesIn
<1>6. {rs[i] : i \in P} \subseteq S
  BY <1>1 DEF LinesIn
<1>7. Pick(rs, P) \in Seq(S)
  <2>1. Pick(rs, P) = [k \in DOMAIN Pick(rs, P) |-> Pick(rs, P)[k]]
    BY <1>3
  <2> QED
    BY <1>4, <1>5, <1>6, <2>1, ListIsSeq
<1>8. /\ \A k \in 1 .. n : Nth(P, k) \in P
      /\ \A k, l \in 1 .. n : k < l => Nth(P, k) < Nth(P, l)
  BY <1>2, NthPosition
<1> HIDE DEF n
<1>9. DOMAIN Pick(rs, P) = 1 .. n /\ \A k \in 1 .. n : Pick(rs, P)[k] = rs[Nth(P, k)]
  BY <1>3
<1> QED
  BY <1>5, <1>7, <1>8, <1>9

LEMMA PickIsOrdered ==
  ASSUME NEW rs, Ordered(rs), NEW P \in SUBSET DOMAIN rs
  PROVE  Ordered(Pick(rs, P)) /\ LinesIn(Pick(rs, P)) = {rs[i] : i \in P}
<1> DEFINE out == Pick(rs, P)
<1>1. rs \in Seq(Records)
  BY DEF Ordered
<1>2. /\ out \in Seq(Records) /\ LinesIn(out) = {rs[i] : i \in P}
      /\ \A k, l \in DOMAIN out : k < l => \E i, j \in P : i < j /\ out[k] = rs[i] /\ out[l] = rs[j]
  BY <1>1, PickIsSeq
<1> HIDE DEF out
<1>3. DOMAIN out \subseteq Nat /\ DOMAIN rs \subseteq Nat
  BY <1>1, <1>2
<1>4. \A k, l \in DOMAIN out : k < l => out[k].t <= out[l].t /\ out[k] # out[l]
  BY <1>2, <1>3 DEF Ordered, Once
<1>5. Once(out)
  BY <1>3, <1>4 DEF Once
<1> QED
  BY <1>2, <1>4, <1>5 DEF Ordered, out

\* The sort of RetentionPolicy.Apply.
LEMMA ByTimeIsOrdered ==
  ASSUME NEW rs \in Seq(Records), Once(rs)
  PROVE  Ordered(ByTime(rs)) /\ LinesIn(ByTime(rs)) = LinesIn(rs)
<1> DEFINE n == Len(rs)
           D == 1 .. n
           ahead(i, j) == rs[i].t < rs[j].t \/ (rs[i].t = rs[j].t /\ i < j)
           R == {p \in D \X D : ahead(p[1], p[2])}
           at(k) == CHOOSE j \in D : 1 + Cardinality({i \in D : ahead(i, j)}) = k
           out == ByTime(rs)
<1>1. n \in Nat /\ DOMAIN rs = D /\ \A i \in D : rs[i] \in Records
  OBVIOUS
<1>2. \A i \in D : i \in Nat /\ rs[i].t \in Nat
  BY <1>1, RecordFields
<1>3. out = [k \in D |-> rs[at(k)]]
  BY <1>1 DEF ByTime
<1>4. \A i, j \in D : <<i, j>> \in R <=> ahead(i, j)
  OBVIOUS
<1>5. \A j \in D : {i \in D : ahead(i, j)} = Under(D, R, j)
  BY DEF Under
<1> HIDE DEF R, n
<1>6. \A k : at(k) = Placed(n, R, k)
  BY <1>5 DEF Placed
<1>7. /\ \A k \in D : at(k) \in D
      /\ \A j \in D : \E k \in D : at(k) = j
      /\ \A k, l \in D : k < l => ahead(at(k), at(l))
  <2>1. /\ \A i \in D : ~ahead(i, i)
        /\ \A i, j, k \in D : ahead(i, j) /\ ahead(j, k) => ahead(i, k)
        /\ \A i, j \in D : i # j => ahead(i, j) \/ ahead(j, i)
    <3> HIDE DEF D
    <3> QED
      BY <1>2
  <2> HIDE DEF ahead, at
  <2>2. /\ \A i \in D : <<i, i>> \notin R
        /\ \A i, j, k \in D : <<i, j>> \in R /\ <<j, k>> \in R => <<i, k>> \in R
        /\ \A i, j \in D : i # j => <<i, j>> \in R \/ <<j, i>> \in R
    BY <1>4, <2>1
  <2>3. /\ \A k \in D : Placed(n, R, k) \in D
        /\ \A j \in D : \E k \in D : Placed(n, R, k) = j
        /\ \A k, l \in D : k < l => <<Placed(n, R, k), Placed(n, R, l)>> \in R
    BY <1>1, <2>2, PlacesAreTaken
  <2> QED
    BY <1>4, <1>6, <2>3
<1> HIDE DEF at, out, D
<1>8. LinesIn(out) = LinesIn(rs)
  BY <1>1, <1>3, <1>7 DEF LinesIn
<1>9. \A k, l \in D : k < l => out[k].t <= out[l].t /\ out[k] # out[l]
  <2> SUFFICES ASSUME NEW k \in D, NEW l \in D, k < l PROVE out[k].t <= out[l].t /\ out[k] # out[l]
    OBVIOUS
  <2>1. at(k) \in D /\ at(l) \in D /\ ahead(at(k), at(l)) /\ out[k] = rs[at(k)] /\ out[l] = rs[at(l)]
    BY <1>3, <1>7
  <2>2. at(k) # at(l)
    BY <1>2, <2>1
  <2> QED
    BY <1>1, <1>2, <2>1, <2>2 DEF Once
<1>10. DOMAIN out = D /\ \A k \in D : k \in Nat
  BY <1>2, <1>3
<1>11. Once(out)
  BY <1>9, <1>10 DEF Once
<1>12. out \in Seq(Records)
  <2>1. out \in [1 .. n -> Records]
    BY <1>1, <1>3, <1>7 DEF D
  <2> QED
    BY <1>1, <2>1
<1> QED
  BY <1>8, <1>9, <1>10, <1>11, <1>12 DEF Ordered, out

\* Of two records of one day, one at least is recent.
DaySpaced(S, cutoff) ==
  \A q, r \in S : q # r /\ day(q) = day(r) => q.t >= cutoff \/ r.t >= cutoff

LEMMA TimesInOrder ==
  ASSUME NEW rs, Ordered(rs)
  PROVE  /\ DOMAIN rs = 1 .. Len(rs) /\ Len(rs) \in Nat
         /\ \A i \in DOMAIN rs : i \in Nat /\ rs[i] \in Records /\ rs[i].t \in Nat
         /\ \A i, j \in DOMAIN rs : i < j => rs[i].t <= rs[j].t /\ rs[i] # rs[j]
<1>1. rs \in Seq(Records)
  BY DEF Ordered
<1>2. DOMAIN rs = 1 .. Len(rs) /\ Len(rs) \in Nat /\ \A i \in DOMAIN rs : i \in Nat /\ rs[i] \in Records
  BY <1>1
<1>3. \A i \in DOMAIN rs : rs[i].t \in Nat
  BY <1>2, RecordFields
<1>4. \A i, j \in DOMAIN rs : i < j => rs[i].t <= rs[j].t /\ rs[i] # rs[j]
  BY <1>2 DEF Ordered, Once
<1> QED
  BY <1>2, <1>3, <1>4

\* Thinning leaves the recent ones and one record of each earlier day.
LEMMA Thinned ==
  ASSUME NEW rs, Ordered(rs), NEW cutoff \in Int
  PROVE  LET out == downsample(rs, cutoff)
         IN  /\ Ordered(out) /\ LinesIn(out) \subseteq LinesIn(rs) /\ DaySpaced(LinesIn(out), cutoff)
             /\ \A r \in LinesIn(rs) \ LinesIn(out) :
                  /\ r.t < cutoff
                  /\ \E q \in LinesIn(rs) \ {r} : q.t >= r.t /\ day(q) = day(r)
<1> DEFINE out == downsample(rs, cutoff)
           D == DOMAIN rs
           P == {i \in D : rs[i].t >= cutoff \/ StandsForDay(rs, i, cutoff)}
<1>1. out = Pick(rs, P)
  BY DEF downsample
<1> HIDE DEF out
<1>2. Ordered(out) /\ LinesIn(out) = {rs[i] : i \in P}
  BY <1>1, PickIsOrdered
<1>3. /\ D = 1 .. Len(rs) /\ Len(rs) \in Nat
      /\ \A i \in D : i \in Nat /\ rs[i] \in Records /\ rs[i].t \in Nat
      /\ \A i, j \in D : i < j => rs[i].t <= rs[j].t /\ rs[i] # rs[j]
  BY TimesInOrder
<1>4. \A i \in D : StandsForDay(rs, i, cutoff) <=>
                     \A j \in D : i < j /\ rs[j].t < cutoff => day(rs[j]) # day(rs[i])
  <2> SUFFICES ASSUME NEW i \in D
               PROVE  StandsForDay(rs, i, cutoff) <=>
                        \A j \in D : i < j /\ rs[j].t < cutoff => day(rs[j]) # day(rs[i])
    OBVIOUS
  <2>1. \A j : j \in i + 1 .. Len(rs) <=> j \in D /\ i < j
    BY <1>3
  <2> QED
    BY <2>1 DEF StandsForDay
<1>5. ASSUME NEW i \in P, NEW j \in P, i < j, day(rs[i]) = day(rs[j])
      PROVE  rs[j].t >= cutoff
  <2>1. CASE rs[i].t >= cutoff
    BY <1>3, <1>5, <2>1
  <2>2. CASE StandsForDay(rs, i, cutoff)
    BY <1>3, <1>4, <1>5, <2>2
  <2> QED
    BY <2>1, <2>2
<1>6. DaySpaced(LinesIn(out), cutoff)
  <2> SUFFICES ASSUME NEW i \in P, NEW j \in P, rs[i] # rs[j], day(rs[i]) = day(rs[j])
               PROVE  rs[i].t >= cutoff \/ rs[j].t >= cutoff
    BY <1>2 DEF DaySpaced
  <2>1. i < j \/ j < i
    BY <1>3
  <2> QED
    BY <1>5, <2>1
<1>7. ASSUME NEW r \in LinesIn(rs) \ LinesIn(out)
      PROVE  r.t < cutoff /\ \E q \in LinesIn(rs) \ {r} : q.t >= r.t /\ day(q) = day(r)
  <2>1. PICK i \in D : r = rs[i]
    BY DEF LinesIn
  <2>2. ~(rs[i].t >= cutoff) /\ ~StandsForDay(rs, i, cutoff)
    BY <1>2, <2>1
  <2>3. PICK j \in D : i < j /\ rs[j].t < cutoff /\ day(rs[j]) = day(rs[i])
    BY <1>4, <2>2
  <2>4. rs[j] # r /\ rs[j].t >= r.t /\ r.t < cutoff
    BY <1>3, <2>1, <2>2, <2>3
  <2>5. rs[j] \in LinesIn(rs)
    BY DEF LinesIn
  <2> QED
    BY <2>1, <2>3, <2>4, <2>5
<1>8. LinesIn(out) \subseteq LinesIn(rs)
  BY <1>2 DEF LinesIn
<1> QED
  BY <1>2, <1>6, <1>7, <1>8 DEF out

LEMMA LinesAreFinite ==
  ASSUME NEW S, NEW rs \in Seq(S)
  PROVE  IsFiniteSet(LinesIn(rs))
<1>1. IsList(rs)
  BY SeqIsList
<1>2. IsFiniteSet(DOMAIN rs)
  BY <1>1, ListIsFinite
<1> DEFINE f == [i \in DOMAIN rs |-> rs[i]]
<1>3. f \in Surjection(DOMAIN rs, LinesIn(rs))
  BY DEF Surjection, LinesIn
<1> QED
  BY <1>2, <1>3, FS_Surjection

\* The limit on the number of runs leaves the latest.
LEMMA Limited ==
  ASSUME NEW rs, Ordered(rs), NEW n \in Nat
  PROVE  LET out == LastRuns(rs, n)
         IN  /\ Ordered(out) /\ LinesIn(out) \subseteq LinesIn(rs) /\ (n > 0 => Len(out) <= n)
             /\ \A r \in LinesIn(rs) \ LinesIn(out) :
                  n > 0 /\ Cardinality({q \in LinesIn(rs) \ {r} : q.t >= r.t}) >= n
<1> DEFINE out == LastRuns(rs, n)
           D == DOMAIN rs
           N == Len(rs)
<1>1. /\ D = 1 .. N /\ N \in Nat
      /\ \A i \in D : i \in Nat /\ rs[i] \in Records /\ rs[i].t \in Nat
      /\ \A i, j \in D : i < j => rs[i].t <= rs[j].t /\ rs[i] # rs[j]
  BY TimesInOrder
<1>2. rs \in Seq(Records)
  BY DEF Ordered
<1>3. CASE n > 0 /\ N > n
  <2>1. out = SubSeq(rs, N - n + 1, N)
    BY <1>3 DEF LastRuns
  <2> HIDE DEF out
  <2>2. N - n + 1 \in 1 .. N + 1
    BY <1>1, <1>3
  <2>3. /\ out \in Seq(Records) /\ Len(out) = n /\ DOMAIN out = 1 .. n
        /\ \A k \in 1 .. n : out[k] = rs[N - n + k]
    BY <1>1, <1>2, <1>3, <2>1, <2>2
  <2>4. \A k \in 1 .. n : N - n + k \in D
    BY <1>1, <1>3
  <2>5. \A k, l \in 1 .. n : k < l => out[k].t <= out[l].t /\ out[k] # out[l]
    <3> SUFFICES ASSUME NEW k \in 1 .. n, NEW l \in 1 .. n, k < l
                 PROVE  out[k].t <= out[l].t /\ out[k] # out[l]
      OBVIOUS
    <3> DEFINE a == N - n + k
               b == N - n + l
    <3>1. a < b /\ a \in D /\ b \in D
      BY <1>1, <2>4
    <3>2. out[k] = rs[a] /\ out[l] = rs[b]
      BY <2>3
    <3> HIDE DEF a, b, D
    <3> QED
      BY <1>1, <3>1, <3>2
  <2>6. Once(out)
    <3>1. \A k, l \in 1 .. n : k < l \/ l < k \/ k = l
      OBVIOUS
    <3> QED
      BY <2>3, <2>5, <3>1 DEF Once
  <2>7. Ordered(out)
    BY <2>3, <2>5, <2>6 DEF Ordered
  <2>8. LinesIn(out) \subseteq LinesIn(rs)
    BY <2>3, <2>4 DEF LinesIn
  <2>9. ASSUME NEW r \in LinesIn(rs) \ LinesIn(out)
        PROVE  Cardinality({q \in LinesIn(rs) \ {r} : q.t >= r.t}) >= n
    <3> DEFINE T == {q \in LinesIn(rs) \ {r} : q.t >= r.t}
               I == N - n + 1 .. N
               f == [i \in I |-> rs[i]]
    <3>1. PICK i \in D : r = rs[i]
      BY DEF LinesIn
    <3>2. i <= N - n
      <4> SUFFICES ASSUME ~(i <= N - n) PROVE FALSE
        OBVIOUS
      <4>1. i - (N - n) \in 1 .. n /\ N - n + (i - (N - n)) = i
        BY <1>1
      <4>2. out[i - (N - n)] = r
        BY <2>3, <3>1, <4>1
      <4> QED
        BY <2>3, <4>1, <4>2 DEF LinesIn
    <3>3. \A j \in I : j \in D /\ i < j
      BY <1>1, <1>3, <3>2
    <3>4. \A j \in I : rs[j] \in T
      BY <1>1, <3>1, <3>3 DEF LinesIn
    <3>5. \A j, l \in I : rs[j] = rs[l] => j = l
      BY <1>1, <3>3
    <3>6. f \in Injection(I, T)
      BY <3>4, <3>5 DEF Injection, IsInjective
    <3>7. IsFiniteSet(T)
      <4>1. IsFiniteSet(LinesIn(rs))
        BY <1>2, LinesAreFinite
      <4> QED
        BY <4>1, FS_Subset
    <3>8. Cardinality(I) = n
      <4>1. N - n + 1 \in Int /\ N \in Int /\ ~(N - n + 1 > N) /\ N - (N - n + 1) + 1 = n
        BY <1>1, <1>3
      <4> QED
        BY <4>1, FS_Interval
    <3>9. Cardinality(I) <= Cardinality(T)
      BY <3>6, <3>7, FS_Injection
    <3>10. Cardinality(T) \in Nat
      BY <3>7, FS_CardinalityType
    <3> HIDE DEF T, I
    <3> QED
      BY <3>8, <3>9, <3>10 DEF T
  <2> QED
    BY <1>3, <2>3, <2>7, <2>8, <2>9 DEF out
<1>4. CASE ~(n > 0 /\ N > n)
  <2>1. out = rs
    BY <1>4 DEF LastRuns
  <2> QED
    BY <1>1, <1>4, <2>1
<1> QED
  BY <1>3, <1>4

\* The limit on the age leaves the younger ones.
LEMMA Recent ==
  ASSUME NEW rs, Ordered(rs), NEW cutoff \in Int
  PROVE  LET out == Pick(rs, {i \in DOMAIN rs : rs[i].t >= cutoff})
         IN  Ordered(out) /\ LinesIn(out) = {r \in LinesIn(rs) : r.t >= cutoff}
<1> DEFINE P == {i \in DOMAIN rs : rs[i].t >= cutoff}
<1>1. Ordered(Pick(rs, P)) /\ LinesIn(Pick(rs, P)) = {rs[i] : i \in P}
  BY PickIsOrdered
<1>2. {rs[i] : i \in P} = {r \in LinesIn(rs) : r.t >= cutoff}
  BY DEF LinesIn
<1> QED
  BY <1>1, <1>2

\* The reason the policy p has, at a time, to drop r from a set of records.
Dropped(p, S, r, time) ==
  \/ p.maxAge > 0 /\ r.t < time - p.maxAge
  \/ p.maxRuns > 0 /\ Cardinality({q \in S \ {r} : q.t >= r.t}) >= p.maxRuns
  \/ p.downsampleAfter > 0 /\ r.t < time - p.downsampleAfter
     /\ \E q \in S \ {r} : q.t >= r.t /\ day(q) = day(r)

LEMMA MoreAfter ==
  ASSUME NEW S, NEW T \in SUBSET S, IsFiniteSet(S), NEW r, NEW n \in Nat,
         Cardinality({q \in T \ {r} : q.t >= r.t}) >= n
  PROVE  Cardinality({q \in S \ {r} : q.t >= r.t}) >= n
<1> DEFINE A == {q \in T \ {r} : q.t >= r.t}
           B == {q \in S \ {r} : q.t >= r.t}
<1>1. A \in SUBSET B /\ B \in SUBSET S
  OBVIOUS
<1> HIDE DEF A, B
<1>2. IsFiniteSet(B) /\ IsFiniteSet(A)
  BY <1>1, FS_Subset
<1>3. Cardinality(A) \in Nat /\ Cardinality(B) \in Nat /\ Cardinality(A) <= Cardinality(B)
  BY <1>1, <1>2, FS_Subset, FS_CardinalityType
<1>4. Cardinality(A) >= n
  BY DEF A
<1> QED
  BY <1>3, <1>4 DEF B

\* RetentionPolicy.Apply obeys the policy, and drops nothing without a reason.
LEMMA Applied ==
  ASSUME NEW rs \in Seq(Records), Once(rs), NEW p \in Policies, now \in Nat
  PROVE  LET out == Apply(p, rs)
         IN  /\ Ordered(out) /\ LinesIn(out) \subseteq LinesIn(rs)
             /\ p.maxRuns > 0 => Len(out) <= p.maxRuns
             /\ p.maxAge > 0 => \A r \in LinesIn(out) : r.t >= now - p.maxAge
             /\ p.downsampleAfter > 0 => DaySpaced(LinesIn(out), now - p.downsampleAfter)
             /\ \A r \in LinesIn(rs) \ LinesIn(out) : Dropped(p, LinesIn(rs), r, now)
<1> DEFINE sorted == ByTime(rs)
           thinned == IF p.downsampleAfter > 0 THEN downsample(sorted, now - p.downsampleAfter) ELSE sorted
           recent == IF p.maxAge > 0
                     THEN Pick(thinned, {i \in DOMAIN thinned : thinned[i].t >= now - p.maxAge}) ELSE thinned
           out == LastRuns(recent, p.maxRuns)
<1>1. Apply(p, rs) = out
  BY DEF Apply
<1>2. p.maxRuns \in Nat /\ p.maxAge \in Nat /\ p.downsampleAfter \in Nat
  BY PolicyAssumption
<1>3. now - p.maxAge \in Int /\ now - p.downsampleAfter \in Int
  BY <1>2
<1>4. Ordered(sorted) /\ LinesIn(sorted) = LinesIn(rs)
  BY ByTimeIsOrdered
<1> HIDE DEF sorted
<1>5. /\ Ordered(thinned) /\ LinesIn(thinned) \subseteq LinesIn(rs)
      /\ p.downsampleAfter > 0 => DaySpaced(LinesIn(thinned), now - p.downsampleAfter)
      /\ \A r \in LinesIn(rs) \ LinesIn(thinned) :
           /\ p.downsampleAfter > 0 /\ r.t < now - p.downsampleAfter
           /\ \E q \in LinesIn(rs) \ {r} : q.t >= r.t /\ day(q) = day(r)
  <2>1. CASE p.downsampleAfter > 0
    BY <1>3, <1>4, <2>1, Thinned
  <2>2. CASE ~(p.downsampleAfter > 0)
    BY <1>4, <2>2
  <2> QED
    BY <2>1, <2>2
<1> HIDE DEF thinned
<1>6. \A r \in Records : r.t \in Nat
  BY RecordFields
<1>7. /\ Ordered(recent) /\ LinesIn(recent) \subseteq LinesIn(thinned)
      /\ p.maxAge > 0 => \A r \in LinesIn(recent) : r.t >= now - p.maxAge
      /\ \A r \in LinesIn(thinned) \ LinesIn(recent) : p.maxAge > 0 /\ r.t < now - p.maxAge
  <2>1. CASE p.maxAge > 0
    <3>1. LinesIn(thinned) \subseteq Records
      BY <1>5, SeqIsList DEF Ordered
    <3>2. Ordered(recent) /\ LinesIn(recent) = {r \in LinesIn(thinned) : r.t >= now - p.maxAge}
      BY <1>3, <1>5, <2>1, Recent
    <3> QED
      BY <1>3, <1>6, <2>1, <3>1, <3>2
  <2>2. CASE ~(p.maxAge > 0)
    BY <1>5, <2>2
  <2> QED
    BY <2>1, <2>2
<1> HIDE DEF recent
<1>8. /\ Ordered(out) /\ LinesIn(out) \subseteq LinesIn(recent) /\ (p.maxRuns > 0 => Len(out) <= p.maxRuns)
      /\ \A r \in LinesIn(recent) \ LinesIn(out) :
           p.maxRuns > 0 /\ Cardinality({q \in LinesIn(recent) \ {r} : q.t >= r.t}) >= p.maxRuns
  BY <1>2, <1>7, Limited
<1> HIDE DEF out
<1>9. IsFiniteSet(LinesIn(rs))
  BY LinesAreFinite
<1>10. \A r \in LinesIn(rs) \ LinesIn(out) : Dropped(p, LinesIn(rs), r, now)
  <2> SUFFICES ASSUME NEW r \in LinesIn(rs), r \notin LinesIn(out) PROVE Dropped(p, LinesIn(rs), r, now)
    OBVIOUS
  <2>1. CASE r \notin LinesIn(thinned)
    BY <1>5, <2>1 DEF Dropped
  <2>2. CASE r \in LinesIn(thinned) /\ r \notin LinesIn(recent)
    BY <1>7, <2>2 DEF Dropped
  <2>3. CASE r \in LinesIn(recent)
    <3>1. p.maxRuns > 0 /\ Cardinality({q \in LinesIn(recent) \ {r} : q.t >= r.t}) >= p.maxRuns
      BY <1>8, <2>3
    <3>2. LinesIn(recent) \in SUBSET LinesIn(rs)
      BY <1>5, <1>7
    <3>3. Cardinality({q \in LinesIn(rs) \ {r} : q.t >= r.t}) >= p.maxRuns
      BY <1>2, <1>9, <3>1, <3>2, MoreAfter
    <3> QED
      BY <3>1, <3>3 DEF Dropped
  <2> QED
    BY <2>1, <2>2, <2>3
<1>11. p.downsampleAfter > 0 => DaySpaced(LinesIn(out), now - p.downsampleAfter)
  BY <1>5, <1>7, <1>8 DEF DaySpaced
<1> QED
  BY <1>1, <1>5, <1>7, <1>8, <1>10, <1>11

-----------------------------------------------------------------------------
(***************************************************************************)
(* The inductive invariant.  The heart of it is that the copy a compaction *)
(* holds would do as the file: every record whose append succeeded is in   *)
(* the copy, exposed, or excused, and stays so while others append.        *)
(***************************************************************************)
Bounded ==
  /\ policy \in Policies /\ now \in 0 .. MaxTime /\ appends \in 0 .. MaxAppends
  /\ file \in Seq(Lines) /\ torn \in BOOLEAN
  /\ torn => file # <<>> /\ file[Len(file)] = Junk
  /\ opened \in [Procs -> BOOLEAN]
  /\ pc \in [Procs -> {"idle", "open", "write", "read", "rename"}]
  /\ run \in [Procs -> Records] /\ kept \in [Procs -> Seq(Records)]
  /\ acked \subseteq Records /\ exposed \subseteq {r.id : r \in acked} /\ mixed \in BOOLEAN

Busy(p) == pc[p] # "idle"
Appending(p) == pc[p] \in {"open", "write"}

\* The lines there are, in the file or in a copy.
Written == LinesIn(file) \cup UNION {LinesIn(kept[p]) : p \in Procs}

\* Each run has an id of its own, and nothing has been written of one that is appending.
NumberedRuns ==
  /\ \A l \in Written : l.id <= appends /\ l.t <= now
  /\ \A p \in Procs : Busy(p) => run[p].id \in 1 .. appends /\ run[p].t <= now
  /\ \A p, q \in Procs : Busy(p) /\ Busy(q) /\ run[p].id = run[q].id => p = q
  /\ \A p \in Procs : Appending(p) => \A l \in Written : l.id # run[p].id

NoneTwice ==
  /\ \A i, j \in DOMAIN file : file[i] = file[j] => i = j \/ file[i] = Junk
  /\ \A p \in Procs : Once(kept[p])

WrittenIsAcked == Written \subseteq acked \cup {Junk}

\* What OnlyThePolicyDrops would say if these lines were the file.
Complete(lines) ==
  \A r \in acked : r \in LinesIn(lines) \/ r.id \in exposed \/ (r.sv = "known" /\ Excused(r))

\* What a compaction is about to write.
CopyObeys(p) ==
  /\ policy.maxRuns > 0 => Len(kept[p]) <= policy.maxRuns
  /\ policy.maxAge > 0 => \A r \in LinesIn(kept[p]) : r.t >= run[p].t - policy.maxAge
  /\ policy.downsampleAfter > 0 => DaySpaced(LinesIn(kept[p]), run[p].t - policy.downsampleAfter)

Copies ==
  \A p \in Procs : pc[p] = "rename" => Complete(kept[p]) /\ Ordered(kept[p]) /\ CopyObeys(p)

\* While no two runs overlapped, one process is busy at most, what it appends is not
\* older than what is there, and the records are in order.
OneByOne ==
  ~mixed =>
    /\ \A p, q \in Procs : Busy(p) /\ Busy(q) => p = q
    /\ \A p \in Procs : Appending(p) => \A l \in LinesIn(file) : l.t <= run[p].t
    /\ \A i, j \in DOMAIN file :
         i < j /\ file[i].sv = "known" /\ file[j].sv = "known" => file[i].t <= file[j].t

IInv == /\ Bounded /\ NumberedRuns /\ NoneTwice /\ WrittenIsAcked
        /\ Complete(file) /\ Copies /\ OneByOne

-----------------------------------------------------------------------------
(***************************************************************************)
(* What can be read of the file, and what time and later runs leave.       *)
(***************************************************************************)
LEMMA ReadableRecords ==
  ASSUME Bounded, NoneTwice
  PROVE  /\ Readable(file) \in Seq(Records) /\ Once(Readable(file))
         /\ LinesIn(Readable(file)) = {l \in LinesIn(file) : l.sv = "known"}
         /\ \A k, l \in DOMAIN Readable(file) : k < l =>
              \E i, j \in DOMAIN file : /\ i < j /\ file[i].sv = "known" /\ file[j].sv = "known"
                                        /\ Readable(file)[k] = file[i] /\ Readable(file)[l] = file[j]
<1> DEFINE P == {i \in DOMAIN file : file[i].sv = "known"}
           out == Readable(file)
<1>1. file \in Seq(Lines) /\ out = Pick(file, P) /\ P \in SUBSET DOMAIN file
  BY DEF Bounded, Readable
<1>2. {file[i] : i \in P} = {l \in LinesIn(file) : l.sv = "known"}
  BY DEF LinesIn
<1>3. \A i \in P : i \in DOMAIN file /\ file[i].sv = "known" /\ file[i] # Junk
  BY DEF Junk
<1> HIDE DEF out, P
<1>4. /\ out \in Seq(Lines) /\ LinesIn(out) = {file[i] : i \in P}
      /\ \A k, l \in DOMAIN out : k < l => \E i, j \in P : i < j /\ out[k] = file[i] /\ out[l] = file[j]
  BY <1>1, PickIsSeq
<1>5. LinesIn(out) = {l \in LinesIn(file) : l.sv = "known"}
  BY <1>4, <1>2
<1>6. LinesIn(out) \subseteq Records
  <2>1. Junk.sv = "junk"
    BY DEF Junk
  <2>2. LinesIn(file) \subseteq Lines
    BY <1>1, SeqIsList
  <2> QED
    BY <1>5, <2>1, <2>2 DEF Lines
<1>7. out \in Seq(Records)
  <2>1. IsList(out) /\ out = [k \in DOMAIN out |-> out[k]]
    BY <1>4, SeqIsList
  <2> QED
    BY <1>6, <2>1, ListIsSeq
<1>8. Once(out)
  <2>1. DOMAIN out \subseteq Nat /\ DOMAIN file \subseteq Nat
    BY <1>1, <1>4
  <2>2. \A k, l \in DOMAIN out : k < l => out[k] # out[l]
    <3> SUFFICES ASSUME NEW k \in DOMAIN out, NEW l \in DOMAIN out, k < l PROVE out[k] # out[l]
      OBVIOUS
    <3>1. PICK i \in P, j \in P : i < j /\ out[k] = file[i] /\ out[l] = file[j]
      BY <1>4
    <3>2. i # j /\ i \in DOMAIN file /\ j \in DOMAIN file /\ file[i] # Junk
      BY <1>3, <2>1, <3>1
    <3> QED
      BY <3>1, <3>2 DEF NoneTwice
  <2> QED
    BY <2>1, <2>2 DEF Once
<1> QED
  BY <1>4, <1>5, <1>7, <1>8, <1>3 DEF out

LEMMA RecordsAreFinite == IsFiniteSet(Records)
<1> DEFINE T == 0 .. MaxTime
           I == 0 .. MaxAppends
           V == {"known", "newer"}
           D == T \X (I \X V)
           f == [d \in D |-> [t |-> d[1], id |-> d[2][1], sv |-> d[2][2]]]
<1>1. IsFiniteSet(T) /\ IsFiniteSet(I)
  <2>1. 0 \in Int /\ MaxTime \in Int /\ MaxAppends \in Int
    BY BoundsAssumption
  <2> QED
    BY <2>1, FS_Interval
<1>2. IsFiniteSet(V)
  <2>1. IsFiniteSet({"known"} \cup {"newer"})
    BY FS_Singleton, FS_AddElement
  <2>2. V = {"known"} \cup {"newer"}
    OBVIOUS
  <2> QED
    BY <2>1, <2>2
<1>3. IsFiniteSet(D)
  <2> HIDE DEF T, I, V
  <2> QED
    BY <1>1, <1>2, FS_Product
<1>4. f \in [D -> Records]
  BY DEF Records
<1>5. \A r \in Records : \E d \in D : f[d] = r
  <2> SUFFICES ASSUME NEW r \in Records PROVE \E d \in D : f[d] = r
    OBVIOUS
  <2>1. r.t \in T /\ r.id \in I /\ r.sv \in V /\ r = [t |-> r.t, id |-> r.id, sv |-> r.sv]
    BY DEF Records
  <2> DEFINE d == <<r.t, <<r.id, r.sv>>>>
  <2>2. d \in D
    BY <2>1
  <2>3. f[d] = [t |-> r.t, id |-> r.id, sv |-> r.sv]
    BY <2>2
  <2> QED
    BY <2>1, <2>2, <2>3
<1>6. f \in Surjection(D, Records)
  BY <1>4, <1>5 DEF Surjection
<1> QED
  BY <1>3, <1>6, FS_Surjection

\* An excuse does not pass: time goes on, and more runs are appended.
LEMMA ExcuseLasts ==
  ASSUME Bounded, Bounded', UNCHANGED policy, now <= now', acked \subseteq acked'
  PROVE  \A r \in Records : Excused(r) => Excused(r)'
<1> SUFFICES ASSUME NEW r \in Records, Excused(r) PROVE Excused(r)'
  OBVIOUS
<1>1. policy.maxAge \in Nat /\ policy.maxRuns \in Nat /\ policy.downsampleAfter \in Nat
  BY PolicyAssumption DEF Bounded
<1>2. now \in Int /\ now' \in Int /\ r.t \in Int
  BY RecordFields, BoundsAssumption DEF Bounded
<1>3. CASE policy.maxAge > 0 /\ r.t < now - policy.maxAge
  <2>1. r.t < now' - policy.maxAge
    BY <1>1, <1>2, <1>3
  <2> QED
    BY <1>3, <2>1 DEF Excused
<1>4. CASE policy.maxRuns > 0 /\ Cardinality({q \in acked \ {r} : q.t >= r.t}) >= policy.maxRuns
  <2>1. IsFiniteSet(acked')
    BY RecordsAreFinite, FS_Subset DEF Bounded
  <2>2. Cardinality({q \in acked' \ {r} : q.t >= r.t}) >= policy.maxRuns
    BY <1>1, <1>4, <2>1, MoreAfter
  <2> QED
    BY <1>4, <2>2 DEF Excused
<1>5. CASE /\ policy.downsampleAfter > 0 /\ r.t < now - policy.downsampleAfter
           /\ \E q \in acked \ {r} : q.t >= r.t /\ day(q) = day(r)
  <2>1. r.t < now' - policy.downsampleAfter
    BY <1>1, <1>2, <1>5
  <2> QED
    BY <1>5, <2>1 DEF Excused
<1> QED
  BY <1>3, <1>4, <1>5 DEF Excused

\* A reason the policy has among the records read is an excuse.
LEMMA DroppedIsExcused ==
  ASSUME Bounded, NEW S \in SUBSET acked, NEW r \in Records, Dropped(policy, S, r, now)
  PROVE  Excused(r)
<1>1. policy.maxRuns \in Nat
  BY PolicyAssumption DEF Bounded
<1>2. IsFiniteSet(acked)
  BY RecordsAreFinite, FS_Subset DEF Bounded
<1>3. CASE policy.maxRuns > 0 /\ Cardinality({q \in S \ {r} : q.t >= r.t}) >= policy.maxRuns
  <2>1. Cardinality({q \in acked \ {r} : q.t >= r.t}) >= policy.maxRuns
    BY <1>1, <1>2, <1>3, MoreAfter
  <2> QED
    BY <1>3, <2>1 DEF Excused
<1> QED
  BY <1>3 DEF Dropped, Excused

-----------------------------------------------------------------------------
(***************************************************************************)
(* The steps.                                                              *)
(***************************************************************************)
LEMMA InitIInv == Init => IInv
<1> SUFFICES ASSUME Init PROVE IInv
  OBVIOUS
<1>1. NoRun \in Records
  BY BoundsAssumption DEF NoRun, Records
<1>2. now \in 0 .. MaxTime /\ appends \in 0 .. MaxAppends
  BY BoundsAssumption DEF Init
<1>3. Bounded
  <2>1. file \in Seq(Lines) /\ <<>> \in Seq(Records)
    BY DEF Init
  <2>2. kept \in [Procs -> Seq(Records)]
    BY <2>1 DEF Init
  <2>3. run \in [Procs -> Records] /\ opened \in [Procs -> BOOLEAN]
    BY <1>1 DEF Init
  <2>4. pc \in [Procs -> {"idle", "open", "write", "read", "rename"}]
    BY DEF Init
  <2>5. policy \in Policies /\ torn = FALSE /\ acked = {} /\ exposed = {} /\ mixed \in BOOLEAN
    BY DEF Init
  <2> QED
    BY <1>2, <2>1, <2>2, <2>3, <2>4, <2>5 DEF Bounded
<1>4. Written = {}
  BY DEF Init, Written, LinesIn
<1>5. NumberedRuns /\ WrittenIsAcked /\ Copies /\ OneByOne
  BY <1>4 DEF Init, NumberedRuns, WrittenIsAcked, Copies, OneByOne, Busy, Appending, LinesIn
<1>6. NoneTwice /\ Complete(file)
  BY DEF Init, NoneTwice, Complete, Once
<1> QED
  BY <1>3, <1>5, <1>6 DEF IInv

LEMMA GoesKeepsTypes ==
  ASSUME Bounded, NEW p \in Procs, NEW here \in {"idle", "read", "rename"}, Goes(p, here)
  PROVE  /\ pc' \in [Procs -> {"idle", "open", "write", "read", "rename"}]
         /\ run' \in [Procs -> Records]
<1>1. NoRun \in Records
  BY BoundsAssumption DEF NoRun, Records
<1> QED
  BY <1>1 DEF Bounded, Goes

\* A step that appends nothing and makes no copy leaves what is said of the lines true.
LEMMA QuietKeeps ==
  ASSUME IInv, Bounded', UNCHANGED <<policy, file, acked, exposed>>, now <= now',
         \A p \in Procs : kept'[p] = kept[p] \/ kept'[p] = <<>>,
         \A p \in Procs : pc'[p] = "rename" =>
           pc[p] = "rename" /\ kept'[p] = kept[p] /\ run'[p] = run[p]
  PROVE  /\ Written' \subseteq Written
         /\ NoneTwice' /\ WrittenIsAcked' /\ Complete(file)' /\ Copies'
<1>1. \A p \in Procs : LinesIn(kept'[p]) \subseteq LinesIn(kept[p]) /\ (Once(kept[p]) => Once(kept'[p]))
  BY DEF LinesIn, Once
<1>2. Written' \subseteq Written
  BY <1>1 DEF Written
<1>3. NoneTwice'
  BY <1>1 DEF IInv, NoneTwice
<1>4. WrittenIsAcked'
  BY <1>2 DEF IInv, WrittenIsAcked
<1>5. \A r \in Records : Excused(r) => Excused(r)'
  BY ExcuseLasts DEF IInv
<1>6. acked \subseteq Records
  BY DEF IInv, Bounded
<1>7. Complete(file)'
  BY <1>5, <1>6 DEF IInv, Complete
<1>8. Copies'
  <2> SUFFICES ASSUME NEW p \in Procs, pc'[p] = "rename"
               PROVE  Complete(kept[p])' /\ Ordered(kept[p])' /\ CopyObeys(p)'
    BY DEF Copies
  <2>1. kept'[p] = kept[p] /\ run'[p] = run[p] /\ Complete(kept[p]) /\ Ordered(kept[p]) /\ CopyObeys(p)
    BY DEF IInv, Copies
  <2>2. Complete(kept[p])'
    BY <1>5, <1>6, <2>1 DEF Complete
  <2>3. Ordered(kept[p])' /\ CopyObeys(p)'
    BY <2>1 DEF Ordered, Once, CopyObeys
  <2> QED
    BY <2>2, <2>3
<1> QED
  BY <1>2, <1>3, <1>4, <1>7, <1>8

LEMMA WrittenFields ==
  ASSUME IInv PROVE \A l \in Written : l.t \in Nat /\ l.id \in Nat
<1>1. \A l \in Lines : l.t \in Nat /\ l.id \in Nat
  BY RecordFields DEF Lines, Junk
<1>2. Written \subseteq Lines
  BY DEF IInv, WrittenIsAcked, Bounded, Lines
<1> QED
  BY <1>1, <1>2

\* A step that starts no run and writes no new line leaves what is said of the runs true.
LEMMA RunsKeep ==
  ASSUME IInv, Bounded', UNCHANGED <<appends, mixed>>, now <= now',
         Written' \subseteq Written,
         \A p \in Procs : Busy(p)' => Busy(p) /\ run'[p] = run[p],
         \A p \in Procs : Appending(p)' => Appending(p)
  PROVE  NumberedRuns'
<1>1. now \in Nat /\ now' \in Nat
  BY BoundsAssumption DEF IInv, Bounded
<1>2. \A l \in Written : l.t \in Nat
  BY WrittenFields
<1>3. \A p \in Procs : run[p].t \in Nat
  BY RecordFields DEF IInv, Bounded
<1>4. \A l \in Written' : l.id <= appends' /\ l.t <= now'
  BY <1>1, <1>2 DEF IInv, NumberedRuns
<1>5. \A p \in Procs : Busy(p)' => run'[p].id \in 1 .. appends' /\ run'[p].t <= now'
  BY <1>1, <1>3 DEF IInv, NumberedRuns
<1>6. \A p \in Procs : Appending(p) => Busy(p)
  BY DEF Appending, Busy
<1>7. \A p, q \in Procs : Busy(p)' /\ Busy(q)' /\ run'[p].id = run'[q].id => p = q
  BY DEF IInv, NumberedRuns
<1>8. \A p \in Procs : Appending(p)' => \A l \in Written' : l.id # run'[p].id
  <2>1. \A p \in Procs : Appending(p)' => run'[p] = run[p]
    <3>1. \A p \in Procs : Appending(p)' => Busy(p)'
      BY DEF Appending, Busy
    <3> QED
      BY <3>1
  <2> QED
    BY <2>1 DEF IInv, NumberedRuns
<1> QED
  BY <1>4, <1>5, <1>7, <1>8 DEF NumberedRuns

\* So does one that leaves the file alone.
LEMMA OrderKeeps ==
  ASSUME IInv, UNCHANGED <<file, mixed>>,
         \A p \in Procs : Busy(p)' => Busy(p) /\ run'[p] = run[p],
         \A p \in Procs : Appending(p)' => Appending(p)
  PROVE  OneByOne'
<1>1. \A p \in Procs : Appending(p)' => Busy(p)'
  BY DEF Appending, Busy
<1> QED
  BY <1>1 DEF IInv, OneByOne

LEMMA PassKeeps == ASSUME IInv, Pass PROVE IInv'
<1>1. now' \in 0 .. MaxTime /\ now <= now'
  BY BoundsAssumption DEF Pass, IInv, Bounded
<1>2. UNCHANGED <<policy, appends, file, torn, pc, run, opened, kept, acked, exposed, mixed>>
  BY DEF Pass, log, procs
<1>3. Bounded'
  BY <1>1, <1>2 DEF IInv, Bounded
<1>4. \A p \in Procs : (Busy(p)' <=> Busy(p)) /\ (Appending(p)' <=> Appending(p))
  BY <1>2 DEF Busy, Appending
<1>5. Written' \subseteq Written /\ NoneTwice' /\ WrittenIsAcked' /\ Complete(file)' /\ Copies'
  BY <1>1, <1>2, <1>3, QuietKeeps
<1>6. NumberedRuns'
  BY <1>1, <1>2, <1>3, <1>4, <1>5, RunsKeep
<1>7. OneByOne'
  BY <1>2, <1>4, OrderKeeps
<1> QED
  BY <1>3, <1>5, <1>6, <1>7 DEF IInv

LEMMA OpenFileKeeps == ASSUME IInv, NEW p \in Procs, OpenFile(p) PROVE IInv'
<1>1. UNCHANGED <<policy, now, appends, file, torn, run, kept, acked, exposed, mixed>>
  BY DEF OpenFile, log
<1>2. now <= now'
  BY <1>1, BoundsAssumption DEF IInv, Bounded
<1>3. Bounded'
  BY <1>1 DEF OpenFile, IInv, Bounded
<1>4. pc[p] = "open" /\ pc'[p] = "write" /\ \A q \in Procs \ {p} : pc'[q] = pc[q]
  BY DEF OpenFile, IInv, Bounded
<1>5. \A q \in Procs : (Busy(q)' <=> Busy(q)) /\ (Appending(q)' <=> Appending(q))
  BY <1>4 DEF Busy, Appending
<1>6. \A q \in Procs : pc'[q] = "rename" => pc[q] = "rename"
  BY <1>4
<1>7. Written' \subseteq Written /\ NoneTwice' /\ WrittenIsAcked' /\ Complete(file)' /\ Copies'
  BY <1>1, <1>2, <1>3, <1>6, QuietKeeps
<1>8. NumberedRuns'
  BY <1>1, <1>2, <1>3, <1>5, <1>7, RunsKeep
<1>9. OneByOne'
  BY <1>1, <1>5, OrderKeeps
<1> QED
  BY <1>3, <1>7, <1>8, <1>9 DEF IInv

\* A step of p that ends its run, or its append, changes no line.
LEMMA AppendFailsKeeps == ASSUME IInv, NEW p \in Procs, AppendFails(p) PROVE IInv'
<1>1. UNCHANGED <<policy, now, appends, file, torn, kept, acked, exposed, mixed>>
  BY DEF AppendFails, log
<1>2. now <= now'
  BY <1>1, BoundsAssumption DEF IInv, Bounded
<1>3. PICK here \in {"read", "idle"} : Goes(p, here)
  BY DEF AppendFails, AfterAppend
<1>4. pc[p] \in {"open", "write"} /\ pc'[p] = here /\ \A q \in Procs \ {p} : pc'[q] = pc[q] /\ run'[q] = run[q]
  BY <1>3 DEF AppendFails, Goes, IInv, Bounded
<1>5. here = "read" => run' = run
  BY <1>3 DEF Goes
<1>6. Bounded'
  BY <1>1, <1>3, GoesKeepsTypes DEF AppendFails, IInv, Bounded
<1>7. \A q \in Procs : (Busy(q)' => Busy(q) /\ run'[q] = run[q]) /\ (Appending(q)' => Appending(q))
  BY <1>4, <1>5 DEF Busy, Appending
<1>8. \A q \in Procs : pc'[q] = "rename" => pc[q] = "rename" /\ run'[q] = run[q]
  BY <1>4
<1>9. Written' \subseteq Written /\ NoneTwice' /\ WrittenIsAcked' /\ Complete(file)' /\ Copies'
  BY <1>1, <1>2, <1>6, <1>8, QuietKeeps
<1>10. NumberedRuns'
  BY <1>1, <1>2, <1>6, <1>7, <1>9, RunsKeep
<1>11. OneByOne'
  BY <1>1, <1>7, OrderKeeps
<1> QED
  BY <1>6, <1>9, <1>10, <1>11 DEF IInv

LEMMA CrashKeeps == ASSUME IInv, NEW p \in Procs, Crash(p) PROVE IInv'
<1>1. UNCHANGED <<policy, now, appends, file, torn, acked, exposed, mixed>>
  BY DEF Crash, log
<1>2. now <= now'
  BY <1>1, BoundsAssumption DEF IInv, Bounded
<1>3. Goes(p, "idle")
  BY DEF Crash
<1>4. pc'[p] = "idle" /\ \A q \in Procs \ {p} : pc'[q] = pc[q] /\ run'[q] = run[q] /\ kept'[q] = kept[q]
  BY <1>3 DEF Crash, Goes, IInv, Bounded
<1>5. kept' \in [Procs -> Seq(Records)] /\ \A q \in Procs : kept'[q] = kept[q] \/ kept'[q] = <<>>
  <2>1. kept' = [kept EXCEPT ![p] = <<>>] /\ <<>> \in Seq(Records)
    BY DEF Crash
  <2> QED
    BY <2>1 DEF IInv, Bounded
<1>6. Bounded'
  BY <1>1, <1>3, <1>5, GoesKeepsTypes DEF Crash, IInv, Bounded
<1>7. \A q \in Procs : (Busy(q)' => Busy(q) /\ run'[q] = run[q]) /\ (Appending(q)' => Appending(q))
  BY <1>4 DEF Busy, Appending
<1>8. \A q \in Procs : pc'[q] = "rename" => pc[q] = "rename" /\ kept'[q] = kept[q] /\ run'[q] = run[q]
  BY <1>4
<1>9. Written' \subseteq Written /\ NoneTwice' /\ WrittenIsAcked' /\ Complete(file)' /\ Copies'
  BY <1>1, <1>2, <1>5, <1>6, <1>8, QuietKeeps
<1>10. NumberedRuns'
  BY <1>1, <1>2, <1>6, <1>7, <1>9, RunsKeep
<1>11. OneByOne'
  BY <1>1, <1>7, OrderKeeps
<1> QED
  BY <1>6, <1>9, <1>10, <1>11 DEF IInv
\* A run that starts has an id that no line has and no other run.
LEMMA StartKeeps == ASSUME IInv, NEW p \in Procs, Start(p) PROVE IInv'
<1> DEFINE r == [t |-> now, id |-> appends + 1, sv |-> IF p \in Upgraded THEN "newer" ELSE "known"]
<1>1. UNCHANGED <<policy, now, file, torn, opened, kept, acked, exposed>>
  BY DEF Start, log
<1>2. now \in 0 .. MaxTime /\ appends \in Nat /\ appends + 1 \in 0 .. MaxAppends /\ appends' = appends + 1
  BY BoundsAssumption DEF Start, IInv, Bounded
<1>3. now <= now' /\ now \in Nat
  BY <1>1, <1>2, BoundsAssumption
<1>4. r \in Records /\ r.t = now /\ r.id = appends + 1
  BY <1>2 DEF Records
<1>5. pc[p] = "idle" /\ pc'[p] = "open" /\ run'[p] = r
  BY DEF Start, IInv, Bounded
<1>6. \A q \in Procs \ {p} : pc'[q] = pc[q] /\ run'[q] = run[q]
  BY DEF Start, IInv, Bounded
<1>7. Bounded'
  <2>1. pc' \in [Procs -> {"idle", "open", "write", "read", "rename"}] /\ run' \in [Procs -> Records]
    BY <1>4 DEF Start, IInv, Bounded
  <2>2. mixed' \in BOOLEAN
    BY DEF Start, IInv, Bounded
  <2> QED
    BY <1>1, <1>2, <2>1, <2>2 DEF IInv, Bounded
<1> HIDE DEF r
<1>8. \A q \in Procs : pc'[q] = "rename" => pc[q] = "rename" /\ run'[q] = run[q]
  BY <1>5, <1>6
<1>9. Written' \subseteq Written /\ NoneTwice' /\ WrittenIsAcked' /\ Complete(file)' /\ Copies'
  BY <1>1, <1>3, <1>7, <1>8, QuietKeeps
<1>10. \A l \in Written : l.t \in Nat /\ l.id \in Nat /\ l.id <= appends /\ l.t <= now
  BY WrittenFields DEF IInv, NumberedRuns
<1>11. \A q \in Procs : run[q].id \in Nat /\ run[q].t \in Nat
  BY RecordFields DEF IInv, Bounded
<1>12. NumberedRuns'
  <2>1. \A l \in Written' : l.id <= appends' /\ l.t <= now'
    BY <1>1, <1>2, <1>9, <1>10
  <2>2. \A q \in Procs \ {p} : (Busy(q)' <=> Busy(q)) /\ (Appending(q)' <=> Appending(q))
    BY <1>6 DEF Busy, Appending
  <2>3. \A q \in Procs \ {p} : Busy(q)' => run'[q].id \in 1 .. appends /\ run'[q].id # r.id /\ run'[q].t <= now
    BY <1>2, <1>4, <1>6, <2>2 DEF IInv, NumberedRuns
  <2>4. \A q \in Procs : Busy(q)' => run'[q].id \in 1 .. appends' /\ run'[q].t <= now'
    <3>1. r.id \in 1 .. appends'
      BY <1>2, <1>4
    <3>2. 1 .. appends \subseteq 1 .. appends'
      BY <1>2
    <3> QED
      BY <1>1, <1>2, <1>4, <1>5, <2>3, <3>1, <3>2
  <2>5. \A q, o \in Procs : Busy(q)' /\ Busy(o)' /\ run'[q].id = run'[o].id => q = o
    BY <1>5, <1>6, <2>2, <2>3 DEF IInv, NumberedRuns
  <2>6. \A q \in Procs : Appending(q)' => \A l \in Written' : l.id # run'[q].id
    <3>1. \A l \in Written' : l.id # r.id
      BY <1>2, <1>4, <1>9, <1>10
    <3> QED
      BY <1>5, <1>6, <1>9, <2>2, <3>1 DEF IInv, NumberedRuns
  <2> QED
    BY <2>1, <2>4, <2>5, <2>6 DEF NumberedRuns
<1>13. OneByOne'
  <2> SUFFICES ASSUME ~mixed'
               PROVE  /\ \A q, o \in Procs : Busy(q)' /\ Busy(o)' => q = o
                      /\ \A q \in Procs : Appending(q)' => \A l \in LinesIn(file) : l.t <= run'[q].t
                      /\ \A i, j \in DOMAIN file :
                           i < j /\ file[i].sv = "known" /\ file[j].sv = "known" => file[i].t <= file[j].t
    BY <1>1 DEF OneByOne, LinesIn
  <2>1. ~mixed /\ \A q \in Procs : pc[q] = "idle"
    BY DEF Start
  <2>2. \A q \in Procs \ {p} : ~Busy(q)' /\ ~Appending(q)'
    BY <1>6, <2>1 DEF Busy, Appending
  <2>3. \A l \in LinesIn(file) : l.t <= run'[p].t
    BY <1>4, <1>5, <1>10 DEF Written
  <2> QED
    BY <2>1, <2>2, <2>3 DEF IInv, OneByOne
<1> QED
  BY <1>7, <1>9, <1>12, <1>13 DEF IInv

\* A compaction that has its copy has read a file without newer records.
LEMMA ReadKeeps == ASSUME IInv, NEW p \in Procs, Read(p) PROVE IInv'
<1> DEFINE records == Readable(file)
           survivors == Apply(policy, records)
           nothing == Refuses(file) \/ Len(survivors) = Len(records)
           copy == IF nothing THEN <<>> ELSE survivors
<1>1. UNCHANGED <<policy, now, appends, file, torn, opened, acked, exposed, mixed>>
  BY DEF Read, log
<1>2. pc[p] = "read" /\ kept' = [kept EXCEPT ![p] = copy] /\ Goes(p, IF nothing THEN "idle" ELSE "rename")
  BY DEF Read
<1>3. now \in Nat /\ policy \in Policies
  BY BoundsAssumption DEF IInv, Bounded
<1>4. /\ records \in Seq(Records) /\ Once(records)
      /\ LinesIn(records) = {l \in LinesIn(file) : l.sv = "known"}
  BY ReadableRecords DEF IInv
<1>5. /\ Ordered(survivors) /\ LinesIn(survivors) \subseteq LinesIn(records)
      /\ policy.maxRuns > 0 => Len(survivors) <= policy.maxRuns
      /\ policy.maxAge > 0 => \A r \in LinesIn(survivors) : r.t >= now - policy.maxAge
      /\ policy.downsampleAfter > 0 => DaySpaced(LinesIn(survivors), now - policy.downsampleAfter)
      /\ \A r \in LinesIn(records) \ LinesIn(survivors) : Dropped(policy, LinesIn(records), r, now)
  <2> HIDE DEF records
  <2> QED
    BY <1>3, <1>4, Applied
<1> HIDE DEF survivors, records, nothing
<1>6. copy \in Seq(Records) /\ Once(copy) /\ LinesIn(copy) \subseteq LinesIn(file)
  <2>1. <<>> \in Seq(Records) /\ Once(<<>>) /\ LinesIn(<<>>) = {}
    BY DEF Once, LinesIn
  <2>2. survivors \in Seq(Records) /\ Once(survivors) /\ LinesIn(survivors) \subseteq LinesIn(file)
    BY <1>4, <1>5 DEF Ordered
  <2> QED
    BY <2>1, <2>2
<1> HIDE DEF copy
<1>7. kept'[p] = copy /\ \A q \in Procs \ {p} : kept'[q] = kept[q] /\ pc'[q] = pc[q] /\ run'[q] = run[q]
  BY <1>2 DEF IInv, Bounded, Goes
<1>8. pc'[p] = (IF nothing THEN "idle" ELSE "rename") /\ (~nothing => run'[p] = run[p])
  BY <1>2 DEF IInv, Bounded, Goes
<1>9. Bounded'
  <2>1. kept' \in [Procs -> Seq(Records)]
    BY <1>2, <1>6 DEF IInv, Bounded
  <2>2. pc' \in [Procs -> {"idle", "open", "write", "read", "rename"}] /\ run' \in [Procs -> Records]
    <3>1. (IF nothing THEN "idle" ELSE "rename") \in {"idle", "read", "rename"}
      OBVIOUS
    <3> QED
      BY <1>2, <3>1, GoesKeepsTypes DEF IInv
  <2> QED
    BY <1>1, <2>1, <2>2 DEF IInv, Bounded
<1>10. Written' \subseteq Written
  BY <1>1, <1>6, <1>7 DEF Written
<1>11. NoneTwice' /\ WrittenIsAcked'
  BY <1>1, <1>6, <1>7, <1>10 DEF IInv, NoneTwice, WrittenIsAcked
<1>12. \A r \in Records : Excused(r)' <=> Excused(r)
  BY <1>1 DEF Excused
<1>13. acked \subseteq Records /\ Complete(file)
  BY DEF IInv, Bounded
<1>14. Complete(file)'
  BY <1>1, <1>12, <1>13 DEF Complete
<1>15. Copies'
  <2> SUFFICES ASSUME NEW q \in Procs, pc'[q] = "rename"
               PROVE  Complete(kept[q])' /\ Ordered(kept[q])' /\ CopyObeys(q)'
    BY DEF Copies
  <2>1. CASE q # p
    <3>1. Complete(kept[q]) /\ Ordered(kept[q]) /\ CopyObeys(q)
      BY <1>7, <2>1 DEF IInv, Copies
    <3>2. Complete(kept[q])'
      BY <1>1, <1>7, <1>12, <1>13, <2>1, <3>1 DEF Complete
    <3> QED
      BY <1>1, <1>7, <2>1, <3>1, <3>2 DEF Ordered, Once, CopyObeys
  <2>2. CASE q = p
    <3>1. ~nothing /\ kept'[p] = survivors /\ run'[p] = run[p]
      BY <1>7, <1>8, <2>2 DEF copy
    <3>2. \A l \in LinesIn(file) : l.sv # "newer"
      BY <3>1 DEF nothing, Refuses, HasNewer, LinesIn
    <3>3. Complete(survivors)
      <4> SUFFICES ASSUME NEW r \in acked, r \notin LinesIn(survivors), r.id \notin exposed
                   PROVE  r.sv = "known" /\ Excused(r)
        BY DEF Complete
      <4>1. CASE r \in LinesIn(file)
        <5>1. r.sv = "known" /\ r \in Records
          BY <1>13, <3>2, <4>1, RecordFields
        <5>2. Dropped(policy, LinesIn(records), r, now)
          BY <1>4, <1>5, <4>1, <5>1
        <5>3. LinesIn(records) \in SUBSET acked
          <6>1. \A l \in LinesIn(records) : l \in acked \cup {Junk} /\ l.sv = "known"
            BY <1>4 DEF IInv, WrittenIsAcked, Written
          <6>2. Junk.sv = "junk"
            BY DEF Junk
          <6> QED
            BY <6>1, <6>2
        <5> QED
          BY <5>1, <5>2, <5>3, DroppedIsExcused DEF IInv
      <4>2. CASE r \notin LinesIn(file)
        BY <1>13, <4>2 DEF Complete
      <4> QED
        BY <4>1, <4>2
    <3>4. Complete(kept[p])'
      BY <1>1, <1>12, <1>13, <3>1, <3>3 DEF Complete
    <3>5. Ordered(kept[p])'
      BY <1>5, <3>1 DEF Ordered, Once
    <3>6. CopyObeys(p)'
      <4>1. run[p].t \in Nat /\ run[p].t <= now
        BY <1>2, RecordFields DEF IInv, Bounded, NumberedRuns, Busy
      <4>2. policy.maxAge \in Nat /\ policy.downsampleAfter \in Nat
        BY <1>3, PolicyAssumption
      <4>3. \A r \in LinesIn(survivors) : r.t \in Nat
        BY <1>5, SeqIsList, RecordFields DEF Ordered
      <4>4. policy.maxAge > 0 => \A r \in LinesIn(survivors) : r.t >= run[p].t - policy.maxAge
        BY <1>3, <1>5, <4>1, <4>2, <4>3
      <4>5. policy.downsampleAfter > 0 => DaySpaced(LinesIn(survivors), run[p].t - policy.downsampleAfter)
        BY <1>3, <1>5, <4>1, <4>2, <4>3 DEF DaySpaced
      <4> QED
        BY <1>1, <1>5, <3>1, <4>4, <4>5 DEF CopyObeys
    <3> QED
      BY <2>2, <3>4, <3>5, <3>6
  <2> QED
    BY <2>1, <2>2
<1>16. \A q \in Procs : (Busy(q)' => Busy(q) /\ run'[q] = run[q]) /\ (Appending(q)' => Appending(q))
  BY <1>2, <1>7, <1>8 DEF Busy, Appending
<1>17. now <= now'
  BY <1>1, <1>3
<1>18. NumberedRuns'
  BY <1>1, <1>9, <1>10, <1>16, <1>17, RunsKeep
<1>19. OneByOne'
  BY <1>1, <1>16, OrderKeeps
<1> QED
  BY <1>9, <1>11, <1>14, <1>15, <1>18, <1>19 DEF IInv
LEMMA AppendedLines ==
  ASSUME NEW s \in Seq(Lines), NEW l \in Lines
  PROVE  /\ Append(s, l) \in Seq(Lines) /\ Append(s, l) # <<>>
         /\ DOMAIN Append(s, l) = 1 .. Len(s) + 1 /\ DOMAIN s = 1 .. Len(s) /\ Len(s) \in Nat
         /\ Append(s, l)[Len(s) + 1] = l /\ \A i \in DOMAIN s : Append(s, l)[i] = s[i]
         /\ LinesIn(Append(s, l)) = LinesIn(s) \cup {l}
<1>1. /\ Append(s, l) \in Seq(Lines) /\ Append(s, l) # <<>>
      /\ DOMAIN Append(s, l) = 1 .. Len(s) + 1 /\ DOMAIN s = 1 .. Len(s) /\ Len(s) \in Nat
      /\ Append(s, l)[Len(s) + 1] = l /\ \A i \in DOMAIN s : Append(s, l)[i] = s[i]
  OBVIOUS
<1>2. 1 .. Len(s) + 1 = (1 .. Len(s)) \cup {Len(s) + 1}
  BY <1>1
<1>3. LinesIn(Append(s, l)) = {Append(s, l)[i] : i \in 1 .. Len(s)} \cup {Append(s, l)[Len(s) + 1]}
  BY <1>1, <1>2 DEF LinesIn
<1>4. {Append(s, l)[i] : i \in 1 .. Len(s)} = LinesIn(s)
  BY <1>1 DEF LinesIn
<1> QED
  BY <1>1, <1>3, <1>4

\* The end of an append: one line at most is added, the record or junk, and a record
\* acknowledged is exposed unless it is in the file and nobody holds a copy.
LEMMA LineKeeps ==
  ASSUME IInv, Bounded', NEW p \in Procs, pc[p] = "write",
         UNCHANGED <<policy, now, appends, kept, mixed>>,
         NEW here \in {"read", "idle"}, Goes(p, here),
         NEW l \in {run[p], Junk}, file' = file \/ file' = Append(file, l),
         acked \subseteq acked', exposed \subseteq exposed',
         l \in LinesIn(file') => l = Junk \/ l \in acked',
         \A r \in acked' \ acked :
           r.id \in exposed' \/ (r \in LinesIn(file') /\ \A q \in Procs : pc[q] # "rename")
  PROVE  IInv'
<1>1. file \in Seq(Lines) /\ run[p] \in Records /\ l \in Lines
  BY DEF IInv, Bounded, Lines
<1>2. /\ LinesIn(file) \subseteq LinesIn(file') /\ LinesIn(file') \subseteq LinesIn(file) \cup {l}
      /\ \A i \in DOMAIN file' : \/ i \in DOMAIN file /\ file'[i] = file[i]
                                 \/ i = Len(file) + 1 /\ file'[i] = l
      /\ DOMAIN file = 1 .. Len(file) /\ Len(file) \in Nat
  <2>1. CASE file' = file
    BY <1>1, <2>1
  <2>2. CASE file' = Append(file, l)
    <3>1. /\ DOMAIN file' = 1 .. Len(file) + 1 /\ DOMAIN file = 1 .. Len(file) /\ Len(file) \in Nat
          /\ file'[Len(file) + 1] = l /\ \A i \in DOMAIN file : file'[i] = file[i]
          /\ LinesIn(file') = LinesIn(file) \cup {l}
      BY <1>1, <2>2, AppendedLines
    <3>2. \A i \in 1 .. Len(file) + 1 : i \in 1 .. Len(file) \/ i = Len(file) + 1
      BY <3>1
    <3> QED
      BY <3>1, <3>2
  <2> QED
    BY <2>1, <2>2
<1>3. pc'[p] = here /\ \A q \in Procs \ {p} : pc'[q] = pc[q] /\ run'[q] = run[q]
  BY DEF Goes, IInv, Bounded
<1>4. here = "read" => run' = run
  BY DEF Goes
<1>5. /\ Appending(p) /\ Busy(p) /\ ~Appending(p)'
      /\ \A q \in Procs : (Busy(q)' => Busy(q) /\ run'[q] = run[q]) /\ (Appending(q)' => Appending(q) /\ q # p)
  BY <1>3, <1>4 DEF Busy, Appending
<1>6. Written' \subseteq Written \cup {l}
  BY <1>2 DEF Written
<1>7. /\ run[p].id \in 1 .. appends /\ run[p].t <= now /\ run[p].t \in Nat
      /\ Junk.id = 0 /\ Junk.t = 0 /\ Junk.sv = "junk" /\ now \in Nat /\ appends \in Nat
      /\ \A r \in Written : r.id # run[p].id
  BY <1>1, <1>5, RecordFields, BoundsAssumption DEF IInv, Bounded, NumberedRuns, Junk
<1>8. NumberedRuns'
  <2>1. l.id <= appends /\ l.t <= now
    BY <1>7
  <2>2. \A r \in Written' : r.id <= appends' /\ r.t <= now'
    BY <1>6, <2>1 DEF IInv, NumberedRuns
  <2>3. \A q \in Procs : Busy(q)' => run'[q].id \in 1 .. appends' /\ run'[q].t <= now'
    BY <1>5 DEF IInv, NumberedRuns
  <2>4. \A q, o \in Procs : Busy(q)' /\ Busy(o)' /\ run'[q].id = run'[o].id => q = o
    BY <1>5 DEF IInv, NumberedRuns
  <2>5. \A q \in Procs : Appending(q)' => \A r \in Written' : r.id # run'[q].id
    <3> SUFFICES ASSUME NEW q \in Procs, Appending(q)', NEW r \in Written' PROVE r.id # run'[q].id
      OBVIOUS
    <3>1. Appending(q) /\ q # p /\ Busy(q) /\ run'[q] = run[q]
      BY <1>5 DEF Appending, Busy
    <3>2. run[q].id \in 1 .. appends /\ run[q].id # run[p].id
      BY <1>5, <3>1 DEF IInv, NumberedRuns
    <3>3. l.id # run[q].id
      BY <1>7, <3>2
    <3> QED
      BY <1>6, <3>1, <3>3 DEF IInv, NumberedRuns
  <2> QED
    BY <2>2, <2>3, <2>4, <2>5 DEF NumberedRuns
<1>9. l = Junk \/ l \notin LinesIn(file)
  BY <1>7 DEF Written
<1>10. NoneTwice'
  <2>1. \A i, j \in DOMAIN file' : file'[i] = file'[j] => i = j \/ file'[i] = Junk
    <3> SUFFICES ASSUME NEW i \in DOMAIN file', NEW j \in DOMAIN file', file'[i] = file'[j], file'[i] # Junk
                 PROVE  i = j
      OBVIOUS
    <3>1. i \in DOMAIN file <=> j \in DOMAIN file
      BY <1>2, <1>9 DEF LinesIn
    <3> QED
      BY <1>2, <3>1 DEF IInv, NoneTwice
  <2> QED
    BY <2>1 DEF IInv, NoneTwice
<1>11. WrittenIsAcked'
  <2>1. Written' \subseteq Written \cup LinesIn(file')
    BY <1>2 DEF Written
  <2> QED
    BY <1>2, <2>1 DEF IInv, WrittenIsAcked, Written
<1>12. \A r \in Records : Excused(r) => Excused(r)'
  <2>1. now <= now'
    BY <1>7
  <2> QED
    BY <2>1, ExcuseLasts DEF IInv
<1>13. acked \subseteq Records /\ acked' \subseteq Records
  BY DEF IInv, Bounded
<1>14. Complete(file)'
  <2> SUFFICES ASSUME NEW r \in acked'
               PROVE  r \in LinesIn(file)' \/ r.id \in exposed' \/ (r.sv = "known" /\ Excused(r)')
    BY DEF Complete
  <2>1. CASE r \in acked
    BY <1>2, <1>12, <1>13, <2>1 DEF IInv, Complete, LinesIn
  <2>2. CASE r \notin acked
    BY <2>2 DEF LinesIn
  <2> QED
    BY <2>1, <2>2
<1>15. Copies'
  <2> SUFFICES ASSUME NEW q \in Procs, pc'[q] = "rename"
               PROVE  Complete(kept[q])' /\ Ordered(kept[q])' /\ CopyObeys(q)'
    BY DEF Copies
  <2>1. pc[q] = "rename" /\ run'[q] = run[q]
    BY <1>3
  <2>2. Complete(kept[q]) /\ Ordered(kept[q]) /\ CopyObeys(q)
    BY <2>1 DEF IInv, Copies
  <2>3. Complete(kept[q])'
    <3> SUFFICES ASSUME NEW r \in acked'
                 PROVE  r \in LinesIn(kept[q]) \/ r.id \in exposed' \/ (r.sv = "known" /\ Excused(r)')
      BY DEF Complete, LinesIn
    <3>1. CASE r \in acked
      BY <1>12, <1>13, <2>2, <3>1 DEF Complete
    <3>2. CASE r \notin acked
      BY <2>1, <3>2
    <3> QED
      BY <3>1, <3>2
  <2> QED
    BY <2>1, <2>2, <2>3 DEF Ordered, Once, CopyObeys
<1>16. OneByOne'
  <2> SUFFICES ASSUME ~mixed
               PROVE  /\ \A q, o \in Procs : Busy(q)' /\ Busy(o)' => q = o
                      /\ \A q \in Procs : Appending(q)' => \A r \in LinesIn(file') : r.t <= run'[q].t
                      /\ \A i, j \in DOMAIN file' :
                           i < j /\ file'[i].sv = "known" /\ file'[j].sv = "known" => file'[i].t <= file'[j].t
    BY DEF OneByOne, LinesIn
  <2>1. \A q \in Procs : Busy(q) => q = p
    BY <1>5 DEF IInv, OneByOne
  <2>2. \A q \in Procs : ~Appending(q)'
    BY <1>5, <2>1 DEF Appending, Busy
  <2>3. \A r \in LinesIn(file) : r.t <= run[p].t
    BY <1>5 DEF IInv, OneByOne
  <2>4. \A i, j \in DOMAIN file' :
          i < j /\ file'[i].sv = "known" /\ file'[j].sv = "known" => file'[i].t <= file'[j].t
    <3> SUFFICES ASSUME NEW i \in DOMAIN file', NEW j \in DOMAIN file',
                        i < j, file'[i].sv = "known", file'[j].sv = "known"
                 PROVE  file'[i].t <= file'[j].t
      OBVIOUS
    <3>1. i \in DOMAIN file /\ file'[i] = file[i]
      BY <1>2
    <3>2. CASE j \in DOMAIN file /\ file'[j] = file[j]
      BY <2>1, <3>1, <3>2 DEF IInv, OneByOne
    <3>3. CASE file'[j] = l
      <4>1. l = run[p]
        BY <1>7, <3>3
      <4> QED
        BY <2>3, <3>1, <3>3, <4>1 DEF LinesIn
    <3> QED
      BY <1>2, <3>2, <3>3
  <2> QED
    BY <1>5, <2>1, <2>2, <2>4
<1> QED
  BY <1>8, <1>10, <1>11, <1>14, <1>15, <1>16 DEF IInv
LEMMA WriteKeeps == ASSUME IInv, NEW p \in Procs, Write(p) PROVE IInv'
<1>1. pc[p] = "write" /\ UNCHANGED <<policy, now, appends, kept, mixed>>
  BY DEF Write
<1>2. PICK here \in {"read", "idle"} : Goes(p, here)
  BY DEF Write, AfterAppend
<1>3. file \in Seq(Lines) /\ run[p] \in Records /\ run[p] \in Lines
  BY DEF IInv, Bounded, Lines
<1>4. \/ file' = file /\ (~opened[p] \/ torn)
      \/ file' = Append(file, run[p]) /\ opened[p] /\ ~torn
  BY DEF Write, Extended
<1>5. acked' = acked \cup {run[p]} /\ exposed \subseteq exposed' /\ exposed' \subseteq exposed \cup {run[p].id}
  BY DEF Write
<1>6. ~opened[p] \/ torn \/ (\E q \in Procs : pc[q] = "rename") => run[p].id \in exposed'
  BY DEF Write
<1>7. torn' <=> torn /\ ~opened[p]
  BY DEF Write
<1>8. opened' \in [Procs -> BOOLEAN]
  BY DEF Write, IInv, Bounded
<1>9. file' \in Seq(Lines)
  BY <1>3, <1>4, AppendedLines
<1>10. torn' => file' # <<>> /\ file'[Len(file')] = Junk
  <2> SUFFICES ASSUME torn' PROVE file' # <<>> /\ file'[Len(file')] = Junk
    OBVIOUS
  <2>1. torn /\ file' = file
    BY <1>4, <1>7
  <2> QED
    BY <2>1 DEF IInv, Bounded
<1>11. torn' \in BOOLEAN
  BY <1>7 DEF Write, IInv, Bounded
<1>12. acked' \subseteq Records /\ exposed' \subseteq {r.id : r \in acked'}
  BY <1>3, <1>5 DEF IInv, Bounded
<1>13. Bounded'
  BY <1>1, <1>2, <1>8, <1>9, <1>10, <1>11, <1>12, GoesKeepsTypes DEF IInv, Bounded
<1>14. ~(~opened[p] \/ torn) => run[p] \in LinesIn(file')
  BY <1>3, <1>4, AppendedLines
<1>15. \A r \in acked' \ acked :
         r.id \in exposed' \/ (r \in LinesIn(file') /\ \A q \in Procs : pc[q] # "rename")
  BY <1>5, <1>6, <1>14
<1>16. file' = file \/ file' = Append(file, run[p])
  BY <1>4
<1>17. run[p] \in acked' /\ acked \subseteq acked'
  BY <1>5
<1>18. run[p] \in {run[p], Junk}
  OBVIOUS
<1> QED
  BY <1>1, <1>2, <1>5, <1>13, <1>15, <1>16, <1>17, <1>18, LineKeeps

LEMMA WriteTornKeeps == ASSUME IInv, NEW p \in Procs, WriteTorn(p) PROVE IInv'
<1>1. pc[p] = "write" /\ UNCHANGED <<policy, now, appends, kept, acked, exposed, mixed>>
  BY DEF WriteTorn
<1>2. PICK here \in {"read", "idle"} : Goes(p, here)
  BY DEF WriteTorn, AfterAppend
<1>3. file \in Seq(Lines) /\ Junk \in Lines
  BY DEF IInv, Bounded, Lines
<1>4. file' = file \/ file' = Append(file, Junk)
  BY DEF WriteTorn, Extended
<1>5. opened' \in [Procs -> BOOLEAN] /\ torn' \in BOOLEAN
  BY DEF WriteTorn, IInv, Bounded
<1>6. file' \in Seq(Lines)
  BY <1>3, <1>4, AppendedLines
<1>7. torn' => file' # <<>> /\ file'[Len(file')] = Junk
  <2> SUFFICES ASSUME torn' PROVE file' # <<>> /\ file'[Len(file')] = Junk
    OBVIOUS
  <2>1. CASE torn
    <3>1. file' = file
      BY <2>1 DEF WriteTorn, Extended
    <3> QED
      BY <2>1, <3>1 DEF IInv, Bounded
  <2>2. CASE ~torn
    <3>1. file' = Append(file, Junk)
      BY <2>2 DEF WriteTorn, Extended
    <3> QED
      BY <1>3, <3>1, AppendedLines
  <2> QED
    BY <2>1, <2>2
<1>8. Bounded'
  BY <1>1, <1>2, <1>5, <1>6, <1>7, GoesKeepsTypes DEF IInv, Bounded
<1>9. acked \subseteq acked' /\ exposed \subseteq exposed' /\ acked' \ acked = {} /\ Junk \in {run[p], Junk}
  BY <1>1
<1> QED
  BY <1>1, <1>2, <1>4, <1>8, <1>9, LineKeeps

\* The copy takes the path: it lacks nothing that the file may not lack.
LEMMA RenameKeeps == ASSUME IInv, NEW p \in Procs, Rename(p) PROVE IInv'
<1>1. UNCHANGED <<policy, now, appends, acked, exposed, mixed>> /\ pc[p] = "rename" /\ torn' = FALSE
  BY DEF Rename
<1>2. file' = kept[p] /\ Goes(p, "idle")
  BY DEF Rename
<1>3. kept' = [kept EXCEPT ![p] = <<>>] /\ <<>> \in Seq(Records)
  BY DEF Rename
<1>4. pc'[p] = "idle" /\ \A q \in Procs \ {p} : pc'[q] = pc[q] /\ run'[q] = run[q] /\ kept'[q] = kept[q]
  BY <1>2, <1>3 DEF Goes, IInv, Bounded
<1>5. kept'[p] = <<>> /\ kept[p] \in Seq(Records) /\ kept' \in [Procs -> Seq(Records)]
  BY <1>3 DEF IInv, Bounded
<1>6. Complete(kept[p]) /\ Ordered(kept[p])
  BY <1>1 DEF IInv, Copies
<1>7. \A i \in DOMAIN kept[p] : kept[p][i] \in Records
  BY <1>5
<1>8. Bounded'
  <2>1. file' \in Seq(Lines)
    <3>1. Records \subseteq Lines
      BY DEF Lines
    <3> QED
      BY <1>2, <1>5, <3>1
  <2>2. opened' \in [Procs -> BOOLEAN]
    BY DEF Rename
  <2> QED
    BY <1>1, <1>2, <1>5, <2>1, <2>2, GoesKeepsTypes DEF IInv, Bounded
<1>9. LinesIn(file') = LinesIn(kept[p]) /\ LinesIn(kept'[p]) = {}
  BY <1>2, <1>5 DEF LinesIn
<1>10. Written' \subseteq Written
  BY <1>4, <1>9 DEF Written
<1>11. NoneTwice'
  <2>1. Once(kept'[p]) /\ \A q \in Procs : Once(kept[q])
    BY <1>5 DEF Once, IInv, NoneTwice
  <2> QED
    BY <1>2, <1>4, <2>1 DEF NoneTwice, Once
<1>12. WrittenIsAcked'
  BY <1>1, <1>10 DEF IInv, WrittenIsAcked
<1>13. \A r \in Records : Excused(r)' <=> Excused(r)
  BY <1>1 DEF Excused
<1>14. acked \subseteq Records
  BY DEF IInv, Bounded
<1>15. Complete(file)'
  BY <1>1, <1>2, <1>6, <1>13, <1>14 DEF Complete
<1>16. Copies'
  <2> SUFFICES ASSUME NEW q \in Procs, pc'[q] = "rename"
               PROVE  Complete(kept[q])' /\ Ordered(kept[q])' /\ CopyObeys(q)'
    BY DEF Copies
  <2>1. q # p
    BY <1>4
  <2>2. Complete(kept[q]) /\ Ordered(kept[q]) /\ CopyObeys(q) /\ kept'[q] = kept[q] /\ run'[q] = run[q]
    BY <1>4, <2>1 DEF IInv, Copies
  <2>3. Complete(kept[q])'
    BY <1>1, <1>13, <1>14, <2>2 DEF Complete
  <2> QED
    BY <1>1, <2>2, <2>3 DEF Ordered, Once, CopyObeys
<1>17. \A q \in Procs : (Busy(q)' => Busy(q) /\ run'[q] = run[q]) /\ (Appending(q)' => Appending(q))
  BY <1>4 DEF Busy, Appending
<1>18. NumberedRuns'
  <2>1. now <= now'
    BY <1>1, BoundsAssumption DEF IInv, Bounded
  <2> QED
    BY <1>1, <1>8, <1>10, <1>17, <2>1, RunsKeep
<1>19. OneByOne'
  <2> SUFFICES ASSUME ~mixed PROVE OneByOne'
    BY <1>1 DEF OneByOne
  <2>1. \A q \in Procs : Busy(q) => q = p
    BY <1>1 DEF IInv, OneByOne, Busy
  <2>2. \A q \in Procs : ~Busy(q)' /\ ~Appending(q)'
    BY <1>4, <2>1 DEF Busy, Appending
  <2>3. \A i, j \in DOMAIN file' : i < j => file'[i].t <= file'[j].t
    BY <1>2, <1>6 DEF Ordered
  <2> QED
    BY <2>2, <2>3 DEF OneByOne
<1> QED
  BY <1>8, <1>11, <1>12, <1>15, <1>16, <1>18, <1>19 DEF IInv

LEMMA NextKeeps == IInv /\ [Next]_vars => IInv'
<1> SUFFICES ASSUME IInv, [Next]_vars PROVE IInv'
  OBVIOUS
<1>1. CASE Pass
  BY <1>1, PassKeeps
<1>2. ASSUME NEW p \in Procs,
             Start(p) \/ OpenFile(p) \/ Write(p) \/ WriteTorn(p)
               \/ AppendFails(p) \/ Read(p) \/ Rename(p) \/ Crash(p)
      PROVE  IInv'
  BY <1>2, StartKeeps, OpenFileKeeps, WriteKeeps, WriteTornKeeps, AppendFailsKeeps, ReadKeeps,
     RenameKeeps, CrashKeeps
<1>3. CASE UNCHANGED vars
  <2>1. UNCHANGED <<policy, now, appends, file, torn, pc, run, opened, kept, acked, exposed, mixed>>
    BY <1>3 DEF vars, log, procs
  <2>2. Bounded'
    BY <2>1 DEF IInv, Bounded
  <2>3. now <= now'
    BY <2>1, BoundsAssumption DEF IInv, Bounded
  <2>4. \A p \in Procs : (Busy(p)' <=> Busy(p)) /\ (Appending(p)' <=> Appending(p))
    BY <2>1 DEF Busy, Appending
  <2>5. Written' \subseteq Written /\ NoneTwice' /\ WrittenIsAcked' /\ Complete(file)' /\ Copies'
    BY <2>1, <2>2, <2>3, QuietKeeps
  <2>6. NumberedRuns'
    BY <2>1, <2>2, <2>3, <2>4, <2>5, RunsKeep
  <2>7. OneByOne'
    BY <2>1, <2>4, OrderKeeps
  <2> QED
    BY <2>2, <2>5, <2>6, <2>7 DEF IInv
<1> QED
  BY <1>1, <1>2, <1>3 DEF Next, Rest

\* The inductive invariant holds of every state of the history file.
THEOREM Invariance == Spec => []IInv
BY InitIInv, NextKeeps, PTL DEF Spec

\* Every variable keeps its type, and no record is in the file twice.
THEOREM TypeCorrect == Spec => []TypeOK
<1>1. IInv => TypeOK
  <2> SUFFICES ASSUME IInv PROVE TypeOK
    OBVIOUS
  <2>1. LinesIn(file) \subseteq Records \cup {Junk}
    BY SeqIsList DEF IInv, Bounded, Lines
  <2>2. \A p \in Procs : LinesIn(kept[p]) \subseteq Records
    BY SeqIsList DEF IInv, Bounded
  <2>3. \A i, j \in DOMAIN file : file[i] = file[j] => i = j \/ file[i] = Junk
    BY DEF IInv, NoneTwice
  <2> QED
    BY <2>1, <2>2, <2>3 DEF IInv, Bounded, TypeOK
<1> QED
  BY <1>1, Invariance, PTL

\* "losing a run to a rotation you forgot is worse than a large file": through any
\* number of appends, kills, torn lines and compactions by any number of processes, a
\* record whose append succeeded is in the file, exposed, or excused by the policy.
THEOREM OnlyPolicyDrops == Spec => []OnlyThePolicyDrops
<1>1. IInv => OnlyThePolicyDrops
  BY DEF IInv, Complete, OnlyThePolicyDrops
<1> QED
  BY <1>1, Invariance, PTL

\* "Recent returns the last n records in chronological order" of a file whose runs
\* never overlapped, although it never sorts.
THEOREM InOrder == Spec => []Chronological
<1>1. IInv => Chronological
  <2> SUFFICES ASSUME IInv, ~mixed, NEW k \in DOMAIN Readable(file), NEW l \in DOMAIN Readable(file), k < l
               PROVE  Readable(file)[k].t <= Readable(file)[l].t
    BY DEF Chronological
  <2>1. PICK i, j \in DOMAIN file : /\ i < j /\ file[i].sv = "known" /\ file[j].sv = "known"
                                    /\ Readable(file)[k] = file[i] /\ Readable(file)[l] = file[j]
    BY ReadableRecords DEF IInv
  <2> QED
    BY <2>1 DEF IInv, OneByOne
<1> QED
  BY <1>1, Invariance, PTL

\* A compaction leaves no more than the policy allows, measured when its run started:
\* no more records, none older, one per day before the recent window, in order.
THEOREM CompactionObeysPolicy == Spec => CompactionObeys
<1> DEFINE Obeys(p) ==
      /\ policy.maxRuns > 0 => Len(file') <= policy.maxRuns
      /\ policy.maxAge > 0 => \A i \in DOMAIN file' : file'[i].t >= run[p].t - policy.maxAge
      /\ \A i, j \in DOMAIN file' : i < j =>
           /\ file'[i].t <= file'[j].t
           /\ policy.downsampleAfter > 0 /\ day(file'[i]) = day(file'[j])
                => file'[j].t >= run[p].t - policy.downsampleAfter
<1>1. ASSUME IInv, [Next]_vars, NEW p \in Procs, file' # file, pc[p] = "rename", pc'[p] = "idle"
      PROVE  Obeys(p)
  <2>1. Rename(p)
    <3>1. PICK q \in Procs : Write(q) \/ WriteTorn(q) \/ Rename(q)
      <4>1. UNCHANGED file => FALSE
        BY <1>1
      <4> QED
        BY <1>1, <4>1 DEF Next, vars, log, Pass, Rest, Start, OpenFile, AppendFails, Read, Crash
    <3>2. \A o \in Procs \ {q} : pc'[o] = pc[o]
      BY <1>1, <3>1 DEF Write, WriteTorn, Rename, Goes, IInv, Bounded
    <3>3. q = p
      BY <1>1, <3>2
    <3> QED
      BY <1>1, <3>1, <3>3 DEF Write, WriteTorn
  <2>2. file' = kept[p] /\ Ordered(kept[p]) /\ CopyObeys(p)
    BY <1>1, <2>1 DEF Rename, IInv, Copies
  <2>3. policy.maxAge > 0 => \A i \in DOMAIN kept[p] : kept[p][i].t >= run[p].t - policy.maxAge
    BY <2>2 DEF CopyObeys, LinesIn
  <2>4. \A i, j \in DOMAIN kept[p] : i < j => kept[p][i].t <= kept[p][j].t /\ kept[p][i] # kept[p][j]
    BY <2>2, TimesInOrder
  <2>5. ASSUME NEW i \in DOMAIN kept[p], NEW j \in DOMAIN kept[p], i < j,
               policy.downsampleAfter > 0, day(kept[p][i]) = day(kept[p][j])
        PROVE  kept[p][j].t >= run[p].t - policy.downsampleAfter
    <3>1. kept[p][i] \in LinesIn(kept[p]) /\ kept[p][j] \in LinesIn(kept[p]) /\ kept[p][i] # kept[p][j]
      BY <2>4, <2>5 DEF LinesIn
    <3>2. kept[p][i].t \in Nat /\ kept[p][j].t \in Nat /\ kept[p][i].t <= kept[p][j].t
      BY <2>2, <2>4, <2>5, TimesInOrder
    <3>3. run[p].t \in Nat /\ policy.downsampleAfter \in Nat
      BY <1>1, RecordFields, PolicyAssumption DEF IInv, Bounded
    <3>4. \/ kept[p][i].t >= run[p].t - policy.downsampleAfter
          \/ kept[p][j].t >= run[p].t - policy.downsampleAfter
      BY <2>2, <2>5, <3>1 DEF CopyObeys, DaySpaced
    <3> QED
      BY <3>2, <3>3, <3>4
  <2>6. policy.maxRuns > 0 => Len(kept[p]) <= policy.maxRuns
    BY <2>2 DEF CopyObeys
  <2> QED
    BY <2>2, <2>3, <2>4, <2>5, <2>6
<1>2. IInv /\ [Next]_vars =>
        [\A p \in Procs : file' # file /\ pc[p] = "rename" /\ pc'[p] = "idle" => Obeys(p)]_vars
  BY <1>1
<1> QED
  BY <1>2, Invariance, PTL DEF Spec, CompactionObeys
=============================================================================
