--------------------------- MODULE PipelineProofs ---------------------------
(***************************************************************************)
(* Proofs about the two commands of module Pipeline: `check`, for any      *)
(* flags and configuration that parse, any findings and any clock, and     *)
(* `report-issues`, for any keys, any findings and any number of           *)
(* invocations under way at one time.                                      *)
(***************************************************************************)
EXTENDS Pipeline, Lemmas

Finding == [check : Nat, target : Nat, status : Status]

-----------------------------------------------------------------------------
(***************************************************************************)
(* The lists of findings on the way from the modules to the gate.          *)
(***************************************************************************)
LEMMA StatusIsFinite == IsFiniteSet(Status)
<1>1. \A a, b : IsFiniteSet({a, b})
  <2> TAKE a, b
  <2>1. IsFiniteSet({a} \cup {b})
    BY FS_Singleton, FS_AddElement
  <2>2. {a, b} = {a} \cup {b}
    OBVIOUS
  <2> QED
    BY <2>1, <2>2
<1>2. IsFiniteSet({"OK", "WARN"}) /\ IsFiniteSet({"BAD", "ERROR"})
  BY <1>1
<1>3. Status = {"OK", "WARN"} \cup {"BAD", "ERROR"}
  BY DEF Status
<1> QED
  BY <1>2, <1>3, FS_Union

\* What a run reports is what was found.
LEMMA RunIsFound ==
  ASSUME NEW found, IsFiniteSet(DOMAIN found), DOMAIN found \subseteq Nat \X Nat,
         \A k \in DOMAIN found : found[k] \subseteq Status
  PROVE  IsList(Run(found)) /\ ToSet(Run(found)) = Found(found) /\ Found(found) \subseteq Finding
<1> DEFINE of(k) == {[check |-> k[1], target |-> k[2], status |-> s] : s \in found[k]}
           lists == {of(k) : k \in DOMAIN found}
           fs == SetToSeq(Found(found))
<1>1. Found(found) = UNION lists
  BY DEF Found
<1>2. Found(found) \subseteq Finding
  BY <1>1 DEF Finding
<1>3. IsFiniteSet(Found(found))
  <2>1. IsFiniteSet(Status)
    BY StatusIsFinite
  <2>2. IsFiniteSet((DOMAIN found) \X Status)
    BY <2>1, FS_Product
  <2> DEFINE F == [p \in (DOMAIN found) \X Status |-> [check |-> p[1][1], target |-> p[1][2], status |-> p[2]]]
             T == {F[p] : p \in (DOMAIN found) \X Status}
  <2>3. F \in Surjection((DOMAIN found) \X Status, T)
    BY DEF Surjection
  <2>4. IsFiniteSet(T)
    <3> HIDE DEF F, T
    <3> QED
      BY <2>2, <2>3, FS_Surjection
  <2>5. Found(found) \subseteq T
    <3> SUFFICES ASSUME NEW k \in DOMAIN found, NEW s \in found[k]
                 PROVE  [check |-> k[1], target |-> k[2], status |-> s] \in T
      <4>1. \A f \in Found(found) : \E k \in DOMAIN found : f \in of(k)
        BY <1>1
      <4>2. \A f \in Found(found) : \E k \in DOMAIN found : \E s \in found[k] :
              f = [check |-> k[1], target |-> k[2], status |-> s]
        BY <4>1
      <4> HIDE DEF T
      <4> QED
        BY <4>2
    <3>1. <<k, s>> \in (DOMAIN found) \X Status
      OBVIOUS
    <3>2. F[<<k, s>>] = [check |-> k[1], target |-> k[2], status |-> s]
      BY <3>1
    <3> QED
      BY <3>1, <3>2
  <2> HIDE DEF T
  <2> QED
    BY <2>4, <2>5, FS_Subset
<1>4. IsList(fs) /\ ToSet(fs) = Found(found)
  BY <1>3, SetAsList
<1>5. AreFindings(fs)
  BY <1>2, <1>4 DEF AreFindings, ToSet, Finding
<1>6. Run(found) = SortFindings(fs)
  BY DEF Run
<1> HIDE DEF fs
<1>7. ToSet(Run(found)) = ToSet(fs) /\ DOMAIN Run(found) = 1 .. Len(fs)
  BY <1>4, <1>5, <1>6, Sorted DEF IsList
<1>8. Run(found) = [k \in 1 .. Len(fs) |-> Run(found)[k]]
  BY <1>6, <1>7 DEF SortFindings
<1>9. IsList(Run(found))
  BY <1>4, <1>8, FunctionIsList DEF IsList
<1> QED
  BY <1>2, <1>4, <1>7, <1>9

\* A window takes a finding away or, of one that fails, makes a warning; what no window
\* is for is left as it is.
LEMMA Maintained ==
  ASSUME NEW fs, IsList(fs), ToSet(fs) \subseteq Finding, NEW windows, NEW clock
  PROVE  LET M == ApplyMaintenance(fs, windows, clock)
         IN  /\ IsList(M)
             /\ \A g \in ToSet(M) : \E f \in ToSet(fs) :
                  \/ g = f /\ (Failing(f) => activeWindow(f, windows, clock) = 0)
                  \/ /\ g = [f EXCEPT !.status = "WARN"] /\ Failing(f)
                     /\ activeWindow(f, windows, clock) # 0
             /\ \A f \in ToSet(fs) : activeWindow(f, windows, clock) = 0 => f \in ToSet(M)
<1> DEFINE window(f) == activeWindow(f, windows, clock)
           warns(f) == window(f) # 0 /\ windows[window(f)].action = "warn"
           P == {i \in DOMAIN fs : window(fs[i]) = 0 \/ warns(fs[i])}
           kept == Pick(fs, P)
           soften(f) == IF warns(f) /\ Failing(f) THEN [f EXCEPT !.status = "WARN"] ELSE f
           M == ApplyMaintenance(fs, windows, clock)
<1>1. M = [i \in DOMAIN kept |-> soften(kept[i])]
  BY DEF ApplyMaintenance
<1>2. IsList(kept) /\ ToSet(kept) = {fs[i] : i \in P}
  BY PickedList
<1> HIDE DEF kept, window, M
<1>3. IsList(M)
  <2>1. M = [i \in 1 .. Len(kept) |-> M[i]]
    BY <1>1, <1>2 DEF IsList
  <2> QED
    BY <1>2, <2>1, FunctionIsList DEF IsList
<1>4. ToSet(M) = {soften(f) : f \in ToSet(kept)}
  BY <1>1 DEF ToSet
<1>5. ToSet(kept) = {f \in ToSet(fs) : window(f) = 0 \/ warns(f)}
  BY <1>2 DEF ToSet
<1>6. \A g \in ToSet(M) : \E f \in ToSet(fs) :
         \/ g = f /\ (Failing(f) => window(f) = 0)
         \/ g = [f EXCEPT !.status = "WARN"] /\ Failing(f) /\ window(f) # 0
  BY <1>4, <1>5
<1>7. \A f \in ToSet(fs) : window(f) = 0 => f \in ToSet(M)
  BY <1>4, <1>5
<1> QED
  BY <1>3, <1>6, <1>7 DEF M, window

\* A dependency makes a warning of a finding that fails and that another one explains.
LEMMA Depended ==
  ASSUME NEW fs, IsList(fs), ToSet(fs) \subseteq Finding, NEW rules
  PROVE  LET D == ApplyDependencies(fs, rules)
             explained(f) == Failing(f) /\ \E p \in ToSet(fs), i \in DOMAIN rules :
                               Failing(p) /\ Explains(p, f, rules[i])
         IN  /\ IsList(D)
             /\ \A g \in ToSet(D) : \E f \in ToSet(fs) :
                  g = f \/ (g = [f EXCEPT !.status = "WARN"] /\ explained(f))
             /\ \A f \in ToSet(fs) : ~explained(f) => f \in ToSet(D)
<1> DEFINE failing == {f \in ToSet(fs) : Failing(f)}
           D == ApplyDependencies(fs, rules)
           soften(f) == IF Failing(f) /\ parentOf(f, rules, failing) # {}
                        THEN [f EXCEPT !.status = "WARN"] ELSE f
<1>1. D = [i \in DOMAIN fs |-> soften(fs[i])]
  BY DEF ApplyDependencies
<1> HIDE DEF D
<1>2. IsList(D)
  <2>1. D = [i \in 1 .. Len(fs) |-> D[i]]
    BY <1>1 DEF IsList
  <2> QED
    BY <2>1, FunctionIsList DEF IsList
<1>3. ToSet(D) = {soften(f) : f \in ToSet(fs)}
  BY <1>1 DEF ToSet
<1> DEFINE explained(f) == Failing(f) /\ \E p \in ToSet(fs), i \in DOMAIN rules :
                             Failing(p) /\ Explains(p, f, rules[i])
<1>4. \A f \in ToSet(fs) : explained(f) <=> Failing(f) /\ parentOf(f, rules, failing) # {}
  BY DEF parentOf
<1> HIDE DEF explained, failing
<1>5. \A g \in ToSet(D) : \E f \in ToSet(fs) : g = f \/ (g = [f EXCEPT !.status = "WARN"] /\ explained(f))
  BY <1>3, <1>4
<1>6. \A f \in ToSet(fs) : ~explained(f) => f \in ToSet(D)
  BY <1>3, <1>4
<1> QED
  BY <1>2, <1>5, <1>6 DEF D, explained

\* What is left of a finding: it keeps its key and gets no worse.
Milder(g, f) == KeyOf(g) = KeyOf(f) /\ severity(g.status) <= severity(f.status)

LEMMA SoftenedIsMilder ==
  ASSUME NEW f \in Finding
  PROVE  /\ Milder(f, f)
         /\ [f EXCEPT !.status = "WARN"] \in Finding
         /\ Failing(f) => Milder([f EXCEPT !.status = "WARN"], f)
<1> DEFINE g == [f EXCEPT !.status = "WARN"]
<1>1. g.check = f.check /\ g.target = f.target /\ g.status = "WARN"
  BY DEF Finding
<1>2. severity("WARN") = 1 /\ severity("BAD") = 2 /\ severity("ERROR") = 3
  BY DEF severity
<1>3. severity(f.status) \in 0 .. 3
  BY Severities DEF Finding
<1>4. Milder(f, f)
  BY <1>3 DEF Milder
<1>5. g \in Finding
  BY DEF Finding, Status
<1>6. Failing(f) => severity(g.status) <= severity(f.status)
  BY <1>1, <1>2 DEF Failing
<1> QED
  BY <1>1, <1>4, <1>5, <1>6 DEF Milder, KeyOf

\* The parent of a finding, as the run has it.
Suppressed(f) ==
  \E p \in Found(raw), i \in DOMAIN setup.rules :
    /\ Failing(p) /\ activeWindow(p, setup.windows, now) = 0
    /\ Explains(p, f, setup.rules[i])

\* What is left of one finding: it is milder only for a window or a parent.
LeftOf(g, f) ==
  Milder(g, f) /\ (activeWindow(f, setup.windows, now) = 0 /\ ~Suppressed(f) => g = f)

IsRun == setup \in Setups /\ raw \in {<<>>} \cup setup.found

LEMMA RawFindings ==
  ASSUME IsRun
  PROVE  /\ IsFiniteSet(DOMAIN raw) /\ DOMAIN raw \subseteq Nat \X Nat
         /\ \A k \in DOMAIN raw : raw[k] \subseteq Status
<1>1. CASE raw \in setup.found
  BY <1>1, SetupsAssumption DEF IsRun
<1>2. CASE raw = <<>>
  BY <1>2, FS_EmptySet
<1> QED
  BY <1>1, <1>2 DEF IsRun

LEMMA PostProcessed ==
  ASSUME IsRun
  PROVE  LET P == PostProcess(Run(raw), setup, now)
         IN  /\ IsList(P) /\ ToSet(P) \subseteq Finding /\ Found(raw) \subseteq Finding
             /\ \A g \in ToSet(P) : \E f \in Found(raw) : LeftOf(g, f)
             /\ \A f \in Found(raw) :
                  activeWindow(f, setup.windows, now) = 0 /\ ~Suppressed(f) => f \in ToSet(P)
<1> DEFINE R == Run(raw)
           M == ApplyMaintenance(R, setup.windows, now)
           P == PostProcess(R, setup, now)
           window(f) == activeWindow(f, setup.windows, now)
           explained(f) == \E p \in ToSet(M), i \in DOMAIN setup.rules :
                             Failing(p) /\ Explains(p, f, setup.rules[i])
<1>1. IsList(R) /\ ToSet(R) = Found(raw) /\ Found(raw) \subseteq Finding
  BY RawFindings, RunIsFound
<1> HIDE DEF R
<1>2. /\ IsList(M)
      /\ \A g \in ToSet(M) : \E f \in ToSet(R) :
           \/ g = f /\ (Failing(f) => window(f) = 0)
           \/ g = [f EXCEPT !.status = "WARN"] /\ Failing(f) /\ window(f) # 0
      /\ \A f \in ToSet(R) : window(f) = 0 => f \in ToSet(M)
  BY <1>1, Maintained
<1> HIDE DEF M, window
<1>3. /\ ToSet(M) \subseteq Finding
      /\ \A g \in ToSet(M) : \E f \in Found(raw) : Milder(g, f) /\ (window(f) = 0 => g = f)
  <2> SUFFICES ASSUME NEW g \in ToSet(M)
               PROVE  g \in Finding /\ \E f \in Found(raw) : Milder(g, f) /\ (window(f) = 0 => g = f)
    OBVIOUS
  <2>1. PICK f \in Found(raw) : \/ g = f
                                \/ g = [f EXCEPT !.status = "WARN"] /\ Failing(f) /\ window(f) # 0
    BY <1>1, <1>2
  <2>2. f \in Finding
    BY <1>1
  <2> QED
    BY <2>1, <2>2, SoftenedIsMilder
<1>4. ASSUME NEW p \in ToSet(M), Failing(p)
      PROVE  p \in Found(raw) /\ window(p) = 0
  <2>1. PICK f \in ToSet(R) : \/ p = f /\ (Failing(f) => window(f) = 0)
                              \/ p = [f EXCEPT !.status = "WARN"]
    BY <1>2
  <2>2. p # [f EXCEPT !.status = "WARN"]
    BY <1>1, <1>4 DEF Failing, Finding
  <2> QED
    BY <1>1, <1>4, <2>1, <2>2
<1>5. P = ApplyDependencies(M, setup.rules)
  BY DEF PostProcess, M
<1> HIDE DEF P
<1>6. /\ IsList(P)
      /\ \A g \in ToSet(P) : \E f \in ToSet(M) :
           g = f \/ (g = [f EXCEPT !.status = "WARN"] /\ Failing(f) /\ explained(f))
      /\ \A f \in ToSet(M) : ~(Failing(f) /\ explained(f)) => f \in ToSet(P)
  BY <1>2, <1>3, <1>5, Depended
<1>7. \A f : Failing(f) /\ explained(f) => Suppressed(f)
  BY <1>4 DEF Suppressed, window
<1> HIDE DEF explained
<1>8. ToSet(P) \subseteq Finding /\ \A g \in ToSet(P) : \E f \in Found(raw) : LeftOf(g, f)
  <2> SUFFICES ASSUME NEW g \in ToSet(P)
               PROVE  g \in Finding /\ \E f \in Found(raw) : LeftOf(g, f)
    OBVIOUS
  <2>1. PICK m \in ToSet(M) : g = m \/ (g = [m EXCEPT !.status = "WARN"] /\ Failing(m) /\ explained(m))
    BY <1>6
  <2>2. m \in Finding
    BY <1>3
  <2>3. g \in Finding
    BY <2>1, <2>2, SoftenedIsMilder
  <2>4. CASE g = m
    BY <1>3, <2>3, <2>4 DEF LeftOf, window
  <2>5. CASE g = [m EXCEPT !.status = "WARN"] /\ Failing(m) /\ explained(m)
    <3>1. m \in Found(raw) /\ Suppressed(m)
      BY <1>4, <1>7, <2>5
    <3>2. Milder(g, m)
      BY <2>2, <2>5, SoftenedIsMilder
    <3> QED
      BY <2>3, <3>1, <3>2 DEF LeftOf
  <2> QED
    BY <2>1, <2>4, <2>5
<1>9. \A f \in Found(raw) : window(f) = 0 /\ ~Suppressed(f) => f \in ToSet(P)
  BY <1>1, <1>2, <1>6, <1>7
<1> QED
  BY <1>1, <1>6, <1>7, <1>8, <1>9 DEF P, R, window

\* What the filters leave is what they do not hide.
LEMMA ShownFindings ==
  ASSUME IsRun
  PROVE  /\ IsList(Shown) /\ ToSet(Shown) \subseteq Finding /\ Found(raw) \subseteq Finding
         /\ \A g \in ToSet(Shown) : \E f \in Found(raw) : LeftOf(g, f)
         /\ \A f \in Found(raw) :
              activeWindow(f, setup.windows, now) = 0 /\ ~Suppressed(f) /\ ~Hidden(f) => f \in ToSet(Shown)
<1> DEFINE P == PostProcess(Run(raw), setup, now)
           passes(f) == /\ globMatch(setup.only, f.check)
                        /\ setup.minSeverity = "" \/ AtLeast(f.status, setup.minSeverity)
                        /\ globMatch(setup.target, f.target)
           kept == {i \in DOMAIN P : passes(P[i])}
<1>1. /\ IsList(P) /\ ToSet(P) \subseteq Finding /\ Found(raw) \subseteq Finding
      /\ \A g \in ToSet(P) : \E f \in Found(raw) : LeftOf(g, f)
      /\ \A f \in Found(raw) :
           activeWindow(f, setup.windows, now) = 0 /\ ~Suppressed(f) => f \in ToSet(P)
  BY PostProcessed
<1>2. Shown = Pick(P, kept)
  BY DEF Shown, Filter
<1> HIDE DEF P, passes
<1>3. IsList(Shown) /\ ToSet(Shown) = {P[i] : i \in kept}
  BY <1>1, <1>2, PickedList
<1>4. ToSet(Shown) = {f \in ToSet(P) : passes(f)}
  BY <1>3 DEF ToSet
<1>5. \A f : ~Hidden(f) => passes(f)
  BY DEF Hidden, passes
<1> QED
  BY <1>1, <1>3, <1>4, <1>5

-----------------------------------------------------------------------------
(***************************************************************************)
(* The verdict.                                                            *)
(***************************************************************************)
\* The worst finding is at least as bad as a threshold when one of them is.
LEMMA WorstIsWorst ==
  ASSUME NEW fs, IsList(fs), ToSet(fs) \subseteq Finding, NEW t \in Status, t # "OK"
  PROVE  AtLeast(Worst(fs), t) <=> \E f \in ToSet(fs) : AtLeast(f.status, t)
<1> DEFINE statuses == {f.status : f \in ToSet(fs)}
           sevs == {severity(s) : s \in statuses}
<1>1. severity(t) \in 1 .. 3 /\ severity("OK") = 0
  BY DEF severity, Status
<1>2. statuses \subseteq Status
  BY DEF Finding
<1>3. CASE fs = <<>>
  <2>1. ToSet(fs) = {} /\ Worst(fs) = "OK"
    BY <1>3 DEF Worst, ToSet
  <2> QED
    BY <1>1, <2>1 DEF AtLeast
<1>4. CASE fs # <<>>
  <2>1. statuses # {}
    <3>1. Len(fs) # 0
      BY <1>4 DEF IsList
    <3>2. fs[1] \in ToSet(fs)
      BY <3>1 DEF IsList, ToSet
    <3> QED
      BY <3>2
  <2> HIDE DEF statuses
  <2>2. \A s \in statuses : severity(s) \in 0 .. 3
    BY <1>2, Severities
  <2>3. sevs \in SUBSET (0 .. 3) /\ sevs # {}
    BY <2>1, <2>2
  <2>4. IsFiniteSet(sevs) /\ sevs \in SUBSET Nat
    <3>1. sevs \in SUBSET Nat /\ \A x \in sevs : x <= 3
      BY <2>3
    <3> HIDE DEF sevs
    <3> QED
      BY <3>1, 3 \in Nat, FS_BoundedSetOfNaturals
  <2> HIDE DEF sevs
  <2>5. Max(sevs) \in sevs /\ \A x \in sevs : x <= Max(sevs)
    BY <2>3, <2>4, MaxOfNaturals
  <2>6. PICK s \in statuses : \A z \in statuses : AtLeast(s, z)
    BY <2>2, <2>5 DEF sevs, AtLeast
  <2>7. Worst(fs) = CHOOSE x \in statuses : \A f \in ToSet(fs) : AtLeast(x, f.status)
    BY <1>4 DEF Worst, statuses
  <2>8. Worst(fs) \in statuses /\ \A z \in statuses : AtLeast(Worst(fs), z)
    <3>1. \A x \in statuses : (\A f \in ToSet(fs) : AtLeast(x, f.status)) <=> \A z \in statuses : AtLeast(x, z)
      BY DEF statuses
    <3> QED
      BY <2>6, <2>7, <3>1
  <2>9. ASSUME NEW z \in statuses, AtLeast(z, t) PROVE AtLeast(Worst(fs), t)
    <3>1. severity(Worst(fs)) \in 0 .. 3 /\ severity(z) \in 0 .. 3
      BY <2>2, <2>8
    <3> QED
      BY <1>1, <2>8, <2>9, <3>1 DEF AtLeast
  <2>10. \A z \in statuses : \E f \in ToSet(fs) : z = f.status
    BY DEF statuses
  <2>11. \A f \in ToSet(fs) : f.status \in statuses
    BY DEF statuses
  <2> QED
    BY <2>8, <2>9, <2>10, <2>11
<1> QED
  BY <1>3, <1>4

\* The status of a key is that of the last finding that has it.
LEMMA StatusOfKey ==
  ASSUME NEW fs, IsList(fs)
  PROVE  /\ DOMAIN StatusMap(fs) = {KeyOf(f) : f \in ToSet(fs)}
         /\ \A k \in DOMAIN StatusMap(fs) : \E i \in DOMAIN fs :
              /\ KeyOf(fs[i]) = k /\ StatusMap(fs)[k] = fs[i].status
              /\ \A j \in DOMAIN fs : KeyOf(fs[j]) = k => j <= i
<1> DEFINE last(k) == SelectLastInSeq(fs, LAMBDA f : KeyOf(f) = k)
           places(k) == {i \in DOMAIN fs : KeyOf(fs[i]) = k}
           keys == {KeyOf(f) : f \in ToSet(fs)}
<1>1. StatusMap(fs) = [k \in keys |-> fs[last(k)].status]
  BY DEF StatusMap
<1>2. ASSUME NEW k \in keys
      PROVE  last(k) \in places(k) /\ \A j \in places(k) : j <= last(k)
  <2>1. places(k) \in SUBSET Nat /\ IsFiniteSet(places(k))
    BY ListIsFinite
  <2>2. places(k) # {}
    BY DEF ToSet
  <2>3. last(k) = IF places(k) # {} THEN Max(places(k)) ELSE 0
    BY DEF SelectLastInSeq, IsList
  <2> HIDE DEF places, last
  <2> QED
    BY <2>1, <2>2, <2>3, MaxOfNaturals
<1> HIDE DEF last
<1> QED
  BY <1>1, <1>2

\* What a baseline leaves to judge is some of what is shown, and a finding that alone has
\* its key and is worse than the baseline says is part of it.
LEMMA WorseIsNew ==
  ASSUME NEW fs, IsList(fs), ToSet(fs) \subseteq Finding, NEW base, Range(base) \subseteq Status
  PROVE  /\ IsList(NewOrWorse(fs, base)) /\ ToSet(NewOrWorse(fs, base)) \subseteq ToSet(fs)
         /\ \A f \in ToSet(fs) :
              /\ \A g \in ToSet(fs) : KeyOf(g) = KeyOf(f) => g = f
              /\ f.status # "OK"
              /\ KeyOf(f) \in DOMAIN base => ~AtLeast(base[KeyOf(f)], f.status)
              => f \in ToSet(NewOrWorse(fs, base))
<1> DEFINE sm == StatusMap(fs)
           change == DiffStatus(base, sm)
           counts(i) == /\ change[KeyOf(fs[i])] \in {"new", "worsened"}
                        /\ \A j \in DOMAIN fs : KeyOf(fs[j]) = KeyOf(fs[i]) => j <= i
           P == {i \in DOMAIN fs : counts(i)}
           was(m, k) == IF k \in DOMAIN m THEN m[k] ELSE "OK"
<1>1. NewOrWorse(fs, base) = Pick(fs, P)
  BY DEF NewOrWorse
<1>2. IsList(NewOrWorse(fs, base)) /\ ToSet(NewOrWorse(fs, base)) = {fs[i] : i \in P}
  BY <1>1, PickedList
<1>3. ToSet(NewOrWorse(fs, base)) \subseteq ToSet(fs)
  BY <1>2 DEF ToSet
<1>4. ASSUME NEW f \in ToSet(fs),
             \A g \in ToSet(fs) : KeyOf(g) = KeyOf(f) => g = f,
             f.status # "OK",
             KeyOf(f) \in DOMAIN base => ~AtLeast(base[KeyOf(f)], f.status)
      PROVE  f \in ToSet(NewOrWorse(fs, base))
  <2> DEFINE k == KeyOf(f)
             old == was(base, k)
  <2>0. /\ DOMAIN sm = {KeyOf(g) : g \in ToSet(fs)}
        /\ \A l \in DOMAIN sm : \E i \in DOMAIN fs :
             /\ KeyOf(fs[i]) = l /\ sm[l] = fs[i].status
             /\ \A j \in DOMAIN fs : KeyOf(fs[j]) = l => j <= i
    BY StatusOfKey
  <2>1. k \in DOMAIN sm
    <3> HIDE DEF sm
    <3> QED
      BY ONLY <1>4, <2>0
  <2>2. PICK i \in DOMAIN fs : /\ KeyOf(fs[i]) = k /\ sm[k] = fs[i].status
                               /\ \A j \in DOMAIN fs : KeyOf(fs[j]) = k => j <= i
    <3> HIDE DEF sm, k
    <3> QED
      BY ONLY <2>0, <2>1
  <2>3. fs[i] = f
    BY <1>4, <2>2 DEF ToSet
  <2>4. f.status \in Status /\ old \in Status
    BY DEF Finding, Status, Range
  <2>5. severity(f.status) > severity(old)
    <3>1. severity("OK") = 0
      BY DEF severity
    <3>2. severity(f.status) \in 0 .. 3 /\ severity(old) \in 0 .. 3
      BY <2>4, Severities
    <3>3. severity(f.status) # 0
      BY <1>4, <2>4, <3>1, Severities DEF Status
    <3> QED
      BY <1>4, <3>1, <3>2, <3>3 DEF AtLeast
  <2>6. change[k] = Kind(old, f.status)
    BY <2>1, <2>2, <2>3 DEF DiffStatus
  <2>7. Kind(old, f.status) \in {"new", "worsened"}
    <3>1. severity(f.status) \in 0 .. 3 /\ severity(old) \in 0 .. 3
      BY <2>4, Severities
    <3>2. ~(severity(f.status) < severity(old))
      BY <2>5, <3>1
    <3>3. Kind(old, f.status) = IF old = "OK" THEN "new" ELSE "worsened"
      BY <2>5, <3>2, Zenon DEF Kind
    <3> QED
      BY <3>3
  <2>8. counts(i)
    BY <2>2, <2>3, <2>6, <2>7
  <2> QED
    BY <1>2, <2>3, <2>8
<1> QED
  BY <1>2, <1>3, <1>4

-----------------------------------------------------------------------------
(***************************************************************************)
(* What the code does about windows is what Planned says of them.          *)
(***************************************************************************)
\* The time since a window opened, within a day.
LEMMA SinceOpened ==
  ASSUME NEW M \in Nat, NEW a \in 0 .. M, NEW b \in 0 .. M
  PROVE  (a - b) % (1 + M) = IF b <= a THEN a - b ELSE a - b + 1 + M
<1> DEFINE n == 1 + M
           x == a - b
<1>1. n \in Nat \ {0} /\ x \in Int /\ -n <= x /\ x < n
  OBVIOUS
<1>2. CASE b <= a
  <2>1. x \in 0 .. n - 1
    BY <1>2
  <2> HIDE DEF n, x
  <2>2. x % n = x
    BY <1>1, <2>1, Remainder
  <2> QED
    BY <1>2, <2>2 DEF n, x
<1>3. CASE ~(b <= a)
  <2>1. x < 0
    BY <1>3
  <2> HIDE DEF n, x
  <2>2. x % n = x + n
    BY <1>1, <2>1, Remainder
  <2> QED
    BY <1>3, <2>2 DEF n, x
<1> QED
  BY <1>2, <1>3

\* A window within a day is open between its times, one past midnight outside of them.
LEMMA DailyWindow ==
  ASSUME NEW M \in Nat, NEW h \in 0 .. M, NEW d1 \in 0 .. M, NEW d2 \in 0 .. M
  PROVE  (h - d1) % (1 + M) <= (d2 - d1) % (1 + M)
           <=> IF d1 <= d2 THEN d1 <= h /\ h <= d2 ELSE d1 <= h \/ h <= d2
<1>1. (h - d1) % (1 + M) = IF d1 <= h THEN h - d1 ELSE h - d1 + 1 + M
  BY SinceOpened
<1>2. (d2 - d1) % (1 + M) = IF d1 <= d2 THEN d2 - d1 ELSE d2 - d1 + 1 + M
  BY SinceOpened
<1> QED
  BY <1>1, <1>2

LEMMA PlannedIsWindow ==
  ASSUME setup \in Setups, now \in Clock, NEW f
  PROVE  Planned(f) <=> activeWindow(f, setup.windows, now) # 0
<1> DEFINE ws == setup.windows
           M == Max(TimesOfDay)
           IsOpen(d) == Len(d) = 2 /\ (now.at - d[1]) % (1 + M) <= (d[2] - d[1]) % (1 + M)
           covering == {i \in 1 .. Len(ws) : Covers(ws[i], f, now)}
<1>1. M \in Nat /\ now.at \in 0 .. M
  <2>1. now.at \in TimesOfDay
    BY DEF TimesOfDay
  <2>2. M \in TimesOfDay /\ \A t \in TimesOfDay : t <= M
    BY ClockAssumption, <2>1, MaxOfNaturals
  <2>3. M \in Nat /\ now.at \in Nat /\ now.at <= M
    BY <2>1, <2>2, ClockAssumption
  <2> QED
    BY ONLY <2>3
<1>2. DOMAIN ws = 1 .. Len(ws) /\ Len(ws) \in Nat
  BY SetupsAssumption
<1>3. ASSUME NEW i \in DOMAIN ws
      PROVE  inDailyWindow(now, ws[i].daily, ws[i].weekdays) <=>
               (ws[i].daily # <<>> =>
                  IsOpen(ws[i].daily) /\ (ws[i].weekdays # {} => now.day \in ws[i].weekdays))
  <2> DEFINE d == ws[i].daily
  <2>1. CASE Len(d) = 2
    <3>1. d[1] \in 0 .. M /\ d[2] \in 0 .. M
      <4>1. \A j \in 1 .. 2 : d[j] \in 0 .. M
        BY <2>1, SetupsAssumption
      <4> HIDE DEF d, M
      <4> QED
        BY <4>1
    <3>2. IsOpen(d) <=> IF d[1] <= d[2] THEN d[1] <= now.at /\ now.at <= d[2]
                                        ELSE d[1] <= now.at \/ now.at <= d[2]
      <4> HIDE DEF d, M
      <4> QED
        BY <1>1, <2>1, <3>1, DailyWindow
    <3>3. d # <<>>
      <4>1. Len(<<>>) = 0
        OBVIOUS
      <4>2. 0 # 2
        OBVIOUS
      <4> HIDE DEF d
      <4> QED
        BY ONLY <2>1, <4>1, <4>2, Zenon
    <3> HIDE DEF d, IsOpen
    <3>4. inDailyWindow(now, d, ws[i].weekdays) <=>
            (d # <<>> => IsOpen(d) /\ (ws[i].weekdays # {} => now.day \in ws[i].weekdays))
      BY <2>1, <3>2, <3>3 DEF inDailyWindow
    <3> QED
      BY <3>4 DEF d
  <2>2. CASE Len(d) # 2
    BY <2>2 DEF inDailyWindow
  <2> QED
    BY <2>1, <2>2
<1> HIDE DEF IsOpen
<1>4. \A i \in DOMAIN ws :
        Covers(ws[i], f, now) <=>
          /\ globMatch(ws[i].check, f.check) /\ globMatch(ws[i].target, f.target)
          /\ \A t \in ToSet(ws[i].from) : t <= now.date
          /\ \A t \in ToSet(ws[i].to) : now.date <= t
          /\ ws[i].daily # <<>> =>
               IsOpen(ws[i].daily) /\ (ws[i].weekdays # {} => now.day \in ws[i].weekdays)
  BY <1>3 DEF Covers, ToSet
<1>5. Planned(f) <=> \E i \in DOMAIN ws : Covers(ws[i], f, now)
  BY <1>4 DEF Planned, IsOpen
<1>6. activeWindow(f, ws, now) = IF covering # {} THEN Min(covering) ELSE 0
  BY DEF activeWindow, SelectInSeq
<1>7. covering \in SUBSET Nat /\ 0 \notin covering
  BY <1>2
<1>8. covering # {} => Min(covering) \in covering
  <2> HIDE DEF covering
  <2> QED
    BY <1>7, MinOfNaturals
<1> QED
  BY <1>2, <1>5, <1>6, <1>7, <1>8

-----------------------------------------------------------------------------
(***************************************************************************)
(* The inductive invariant: where an invocation is says how many sinks it  *)
(* has tried and which may have failed, and an invocation that has reached *)
(* a verdict still has the findings it was reached on.                     *)
(***************************************************************************)
SinksTried ==
  /\ stage = "idle" => raw = <<>> /\ tried = 0 /\ broken = {}
  /\ stage # "idle" => raw \in setup.found
  /\ stage = "emit" => tried < setup.sinks /\ (setup.sinks = 1 => broken = {})
  /\ stage = "baseline" => tried = setup.sinks /\ (setup.sinks = 1 => broken = {})
  /\ stage # "exited" => outcome = "none"

Ended ==
  /\ outcome \in {"green", "tripped", "recorded"} => tried = setup.sinks /\ (setup.sinks = 1 => broken = {})
  /\ outcome = "error" /\ ~setup.baseline => setup.sinks = 1 /\ broken = {1}

Judged ==
  /\ outcome = "tripped" => Trips(Gated)
  /\ outcome = "green" => ~Trips(Gated)

IInv == CheckTypeOK /\ SinksTried /\ Ended /\ Judged

\* A clock shows some time.
LEMMA FirstTime == (CHOOSE t \in Clock : TRUE) \in Clock
BY ClockAssumption

LEMMA SinksAreSome == \A s \in Setups : s.sinks \in Nat /\ s.sinks >= 1
<1> SUFFICES ASSUME NEW s \in Setups PROVE s.sinks \in Nat /\ s.sinks >= 1
  OBVIOUS
<1>1. s.sinks \in Nat \ {0}
  BY SetupsAssumption
<1> QED
  BY ONLY <1>1

LEMMA InitIInv == CheckInit => IInv
<1> SUFFICES ASSUME CheckInit PROVE IInv
  OBVIOUS
<1>1. file.is = "none" /\ file.status = <<>>
  BY DEF CheckInit, Blank
<1>2. Range(file.status) = {}
  BY <1>1 DEF Range
<1>3. tried \in 0 .. setup.sinks
  BY SinksAreSome DEF CheckInit
<1>4. CheckTypeOK
  BY FirstTime, <1>1, <1>2, <1>3 DEF CheckInit, CheckTypeOK
<1> QED
  BY <1>4 DEF CheckInit, IInv, SinksTried, Ended, Judged

LEMMA CollectKeeps == ASSUME IInv, Collect PROVE IInv'
<1>1. now' \in Clock
  BY DEF Collect, IInv, CheckTypeOK
<1>2. tried = 0 /\ broken = {} /\ outcome = "none"
  BY DEF Collect, IInv, SinksTried
<1>3. write' \in BOOLEAN
  BY DEF Collect
<1>4. CheckTypeOK'
  BY <1>1, <1>3 DEF Collect, IInv, CheckTypeOK
<1>5. SinksTried'
  <2>1. 0 < setup.sinks
    BY SinksAreSome DEF IInv, CheckTypeOK
  <2> QED
    BY <1>2, <2>1 DEF Collect, SinksTried
<1> QED
  BY <1>2, <1>4, <1>5 DEF Collect, IInv, Ended, Judged

LEMMA EmitKeeps == ASSUME IInv, NEW ok \in BOOLEAN, Emit(ok) PROVE IInv'
<1>1. /\ stage = "emit" /\ outcome = "none" /\ raw \in setup.found
      /\ tried' = tried + 1 /\ UNCHANGED <<setup, raw, now, write, file>>
  BY DEF Emit, IInv, SinksTried
<1>2. tried \in Nat /\ setup.sinks \in Nat /\ tried < setup.sinks /\ (setup.sinks = 1 => broken = {})
  BY SinksAreSome DEF Emit, IInv, CheckTypeOK, SinksTried
<1>3. tried' \in 0 .. setup.sinks
  BY <1>1, <1>2
<1>4. broken' \subseteq 1 .. tried'
  <2>1. broken \subseteq 1 .. tried /\ 1 .. tried \subseteq 1 .. tried' /\ tried' \in 1 .. tried'
    BY <1>1, <1>2 DEF IInv, CheckTypeOK
  <2>2. broken' = broken \/ broken' = broken \cup {tried'}
    BY DEF Emit
  <2> QED
    BY <2>1, <2>2
<1>5. CASE Aborts(broken')
  <2>1. stage' = "exited" /\ outcome' = "error"
    BY <1>5 DEF Emit, Exit
  <2>2. setup.sinks = 1 /\ broken' # {}
    BY <1>1, <1>5 DEF Aborts
  <2>3. broken' = {1}
    <3>1. tried = 0 /\ tried' = 1
      BY <1>1, <1>2, <2>2
    <3> QED
      BY <1>2, <2>2, <3>1 DEF Emit
  <2> QED
    BY <1>1, <1>3, <1>4, <2>1, <2>2, <2>3 DEF IInv, CheckTypeOK, SinksTried, Ended, Judged
<1>6. CASE ~Aborts(broken')
  <2>1. stage' = (IF tried' = setup.sinks THEN "baseline" ELSE "emit") /\ outcome' = "none"
    BY <1>1, <1>6 DEF Emit
  <2>2. setup.sinks = 1 => broken' = {}
    BY <1>1, <1>6 DEF Aborts
  <2>3. tried' # setup.sinks => tried' < setup.sinks
    BY <1>1, <1>2
  <2>4. SinksTried'
    BY <1>1, <2>1, <2>2, <2>3 DEF SinksTried
  <2> QED
    BY <1>1, <1>3, <1>4, <2>1, <2>4 DEF IInv, CheckTypeOK, Ended, Judged
<1> QED
  BY <1>5, <1>6

\* What is recorded are statuses.
LEMMA RecordedStatuses ==
  ASSUME IsRun
  PROVE  Range(StatusMap(Shown)) \subseteq Status
<1>1. IsList(Shown) /\ ToSet(Shown) \subseteq Finding
  BY ShownFindings
<1>2. \A i \in DOMAIN Shown : Shown[i].status \in Status
  BY <1>1 DEF ToSet, Finding
<1>3. \A k \in DOMAIN StatusMap(Shown) : StatusMap(Shown)[k] \in Status
  BY <1>1, <1>2, StatusOfKey
<1> QED
  BY <1>3 DEF Range

LEMMA EndsKeep ==
  ASSUME IInv, Record \/ RecordFails \/ LoadFails \/ Judge \/ Kill
  PROVE  IInv'
<1>1. stage \in {"emit", "baseline"} /\ stage' = "exited" /\ UNCHANGED <<setup, raw, now, write, tried, broken>>
  BY DEF Record, RecordFails, LoadFails, Judge, Kill, Exit
<1>2. raw \in setup.found
  BY <1>1 DEF IInv, SinksTried
<1>3. IsRun
  BY DEF IInv, CheckTypeOK, IsRun
<1>4. file'.is \in {"none", "torn", "whole"} /\ Range(file'.status) \subseteq Status
  <2>1. CASE file' = file
    BY <2>1 DEF IInv, CheckTypeOK
  <2>2. CASE file' = Blank("torn")
    BY <2>2 DEF Blank, Range
  <2>3. CASE file' = [is |-> "whole", status |-> StatusMap(Shown)]
    BY <1>3, <2>3, RecordedStatuses
  <2> QED
    BY <2>1, <2>2, <2>3 DEF Record, RecordFails, LoadFails, Judge, Kill
<1>5. outcome' \in {"green", "tripped", "recorded", "error", "killed"}
  BY DEF Record, RecordFails, LoadFails, Judge, Kill, Exit
<1>6. CheckTypeOK'
  BY <1>1, <1>4, <1>5 DEF IInv, CheckTypeOK
<1>7. SinksTried'
  BY <1>1, <1>2 DEF SinksTried
<1>8. Ended'
  BY <1>1 DEF IInv, SinksTried, Ended, Record, RecordFails, LoadFails, Judge, Kill, Exit, Records
<1>9. Judged'
  <2>1. CASE Judge
    <3>1. UNCHANGED <<setup, raw, now, file>> /\ outcome' = IF Trips(Gated) THEN "tripped" ELSE "green"
      BY <2>1 DEF Judge, Exit
    <3>2. Trips(Gated)' <=> Trips(Gated)
      BY <3>1 DEF Trips, Gated, Threshold, Shown
    <3> QED
      BY <3>1, <3>2 DEF Judged
  <2>2. CASE ~Judge
    BY <2>2 DEF Record, RecordFails, LoadFails, Kill, Exit, Judged
  <2> QED
    BY <2>1, <2>2
<1> QED
  BY <1>6, <1>7, <1>8, <1>9 DEF IInv

LEMMA AgainKeeps == ASSUME IInv, Again PROVE IInv'
<1>1. CheckTypeOK'
  <2>1. 0 \in 0 .. setup.sinks
    BY SinksAreSome DEF IInv, CheckTypeOK
  <2> QED
    BY FirstTime, <2>1 DEF Again, IInv, CheckTypeOK
<1> QED
  BY <1>1 DEF Again, IInv, SinksTried, Ended, Judged

LEMMA CheckNextKeeps == IInv /\ (CheckNext \/ UNCHANGED checkVars) => IInv'
<1> SUFFICES ASSUME IInv, CheckNext \/ UNCHANGED checkVars PROVE IInv'
  OBVIOUS
<1>1. CASE UNCHANGED checkVars
  <2>1. UNCHANGED <<setup, stage, raw, now, write, tried, broken, file, outcome>>
    BY <1>1 DEF checkVars
  <2>2. Trips(Gated)' <=> Trips(Gated)
    BY <2>1 DEF Trips, Gated, Threshold, Shown
  <2> QED
    BY <2>1, <2>2 DEF IInv, CheckTypeOK, SinksTried, Ended, Judged
<1>2. CASE Emit(TRUE) \/ Emit(FALSE)
  BY <1>2, EmitKeeps
<1> QED
  BY <1>1, <1>2, CollectKeeps, EndsKeep, AgainKeeps DEF CheckNext

-----------------------------------------------------------------------------
(***************************************************************************)
(* The theorems.                                                           *)
(***************************************************************************)
\* Each fact of IInv holds of every behaviour of the two commands.
THEOREM Invariance == Spec => []IInv
<1>1. Init => IInv
  BY InitIInv DEF Init
<1>2. IInv /\ [Next]_vars => IInv'
  BY CheckNextKeeps DEF Next, Sync, vars
<1> QED
  BY <1>1, <1>2, PTL DEF Spec

\* The state of check stays within its bounds; the baseline never holds anything but
\* statuses.
THEOREM CheckTypeCorrect == Spec => []CheckTypeOK
<1>1. IInv => CheckTypeOK
  BY DEF IInv
<1> QED
  BY Invariance, <1>1, PTL

\* The threshold a gated run is judged by is worse than OK.
LEMMA ThresholdIsSome ==
  ASSUME IsRun, Threshold # ""
  PROVE  Threshold \in Status /\ Threshold # "OK"
<1>1. setup.exitOn \in {"", "WARN", "BAD", "ERROR"}
  BY SetupsAssumption DEF IsRun
<1> QED
  BY <1>1 DEF Threshold, withImpliedThreshold, parseGate, Status

\* The findings the gate judges are some of those shown.
LEMMA GatedFindings ==
  ASSUME IsRun, Range(file.status) \subseteq Status
  PROVE  /\ IsList(Gated) /\ ToSet(Gated) \subseteq Finding
         /\ \A g \in ToSet(Gated) : \E f \in Found(raw) : Milder(g, f)
<1>1. /\ IsList(Shown) /\ ToSet(Shown) \subseteq Finding
      /\ \A g \in ToSet(Shown) : \E f \in Found(raw) : Milder(g, f)
  BY ShownFindings DEF LeftOf
<1>2. IsList(NewOrWorse(Shown, file.status)) /\ ToSet(NewOrWorse(Shown, file.status)) \subseteq ToSet(Shown)
  BY <1>1, WorseIsNew
<1> QED
  BY <1>1, <1>2 DEF Gated

\* A key under which no more than one status was found has one finding.
LEMMA AloneIsOne ==
  ASSUME IsRun, NEW f \in Found(raw), NEW p \in Found(raw), KeyOf(p) = KeyOf(f),
         ~(Cardinality(raw[KeyOf(f)]) > 1)
  PROVE  p = f
<1> DEFINE k == KeyOf(f)
<1>1. ASSUME NEW g \in Found(raw)
      PROVE  /\ KeyOf(g) \in DOMAIN raw /\ g.status \in raw[KeyOf(g)]
             /\ g = [check |-> KeyOf(g)[1], target |-> KeyOf(g)[2], status |-> g.status]
  <2>1. PICK l \in DOMAIN raw : g \in {[check |-> l[1], target |-> l[2], status |-> s] : s \in raw[l]}
    BY DEF Found
  <2>2. PICK s \in raw[l] : g = [check |-> l[1], target |-> l[2], status |-> s]
    BY <2>1
  <2>3. l = <<l[1], l[2]>>
    BY RawFindings
  <2> QED
    BY <2>2, <2>3 DEF KeyOf
<1>2. IsFiniteSet(raw[k]) /\ Cardinality(raw[k]) \in Nat /\ Cardinality(raw[k]) <= 1
  <2>1. raw[k] \subseteq Status
    BY <1>1, RawFindings
  <2>2. IsFiniteSet(raw[k])
    BY <2>1, StatusIsFinite, FS_Subset
  <2>3. Cardinality(raw[k]) \in Nat
    BY <2>2, FS_CardinalityType
  <2> QED
    BY <2>2, <2>3
<1>3. Cardinality(raw[k]) = 1
  BY <1>1, <1>2, FS_EmptySet
<1>4. PICK s : raw[k] = {s}
  BY <1>2, <1>3, FS_Singleton
<1> QED
  BY <1>1, <1>4

\* A sink that fails decides nothing but whether there is a verdict (emitAll), and a run
\* that ends red has found something that bad (Gate): for any number of sinks, any
\* windows, rules, filters and baseline.
THEOREM SinksDecideNothing == Spec => []SinksDoNotDecide
<1>1. IInv => SinksDoNotDecide
  <2> SUFFICES ASSUME IInv PROVE SinksDoNotDecide
    OBVIOUS
  <2>1. ASSUME outcome = "tripped" PROVE \E f \in Found(raw) : AtLeast(f.status, Threshold)
    <3>1. IsRun /\ Range(file.status) \subseteq Status
      BY DEF IInv, CheckTypeOK, IsRun
    <3>2. Threshold # "" /\ AtLeast(Worst(Gated), Threshold)
      BY <2>1 DEF IInv, Judged, Trips
    <3>3. Threshold \in Status /\ Threshold # "OK"
      BY <3>1, <3>2, ThresholdIsSome
    <3>4. /\ IsList(Gated) /\ ToSet(Gated) \subseteq Finding
          /\ \A g \in ToSet(Gated) : \E f \in Found(raw) : Milder(g, f)
      BY <3>1, GatedFindings
    <3>5. PICK g \in ToSet(Gated) : AtLeast(g.status, Threshold)
      BY <3>2, <3>3, <3>4, WorstIsWorst
    <3>6. PICK f \in Found(raw) : Milder(g, f)
      BY <3>4
    <3>7. f \in Finding
      BY <3>1, ShownFindings
    <3>8. severity(f.status) \in 0 .. 3 /\ severity(g.status) \in 0 .. 3 /\ severity(Threshold) \in 0 .. 3
      BY <3>3, <3>4, <3>7, Severities DEF Finding
    <3> QED
      BY <3>5, <3>6, <3>8 DEF Milder, AtLeast
  <2> QED
    BY <2>1 DEF IInv, Ended, SinksDoNotDecide
<1> QED
  BY Invariance, <1>1, PTL

\* A gated run that ends green has no finding as bad as the gate says that is not planned
\* work, the consequence of another failure, known from the baseline or filtered out: the
\* windows, rules, filters and the baseline lose none between the modules and the gate.
THEOREM GreenIsExcused == Spec => []GreenMeansExcused
<1>1. IInv => GreenMeansExcused
  <2> SUFFICES ASSUME IInv, outcome = "green", Threshold # "", NEW f \in Found(raw),
                      AtLeast(f.status, Threshold),
                      ~Planned(f), ~Consequence(f), ~Hidden(f), ~Known(f)
               PROVE  FALSE
    BY DEF GreenMeansExcused
  <2>1. IsRun /\ now \in Clock /\ Range(file.status) \subseteq Status
    BY DEF IInv, CheckTypeOK, IsRun
  <2>2. Threshold \in Status /\ Threshold # "OK"
    BY <2>1, ThresholdIsSome
  <2>3. ~AtLeast(Worst(Gated), Threshold)
    BY DEF IInv, Judged, Trips
  <2>4. IsList(Gated) /\ ToSet(Gated) \subseteq Finding
    BY <2>1, GatedFindings
  <2>5. f \notin ToSet(Gated)
    BY <2>2, <2>3, <2>4, WorstIsWorst
  <2>6. \A p : Planned(p) <=> activeWindow(p, setup.windows, now) # 0
    BY <2>1, PlannedIsWindow DEF IsRun
  <2>7. ~Suppressed(f)
    BY <2>6 DEF Consequence, Suppressed
  <2>8. /\ IsList(Shown) /\ ToSet(Shown) \subseteq Finding /\ Found(raw) \subseteq Finding
        /\ \A g \in ToSet(Shown) : \E p \in Found(raw) : LeftOf(g, p)
        /\ f \in ToSet(Shown)
    BY <2>1, <2>6, <2>7, ShownFindings
  <2>9. setup.baseline /\ setup.failOnNew /\ Gated = NewOrWorse(Shown, file.status)
    BY <2>5, <2>8 DEF Gated
  <2>10. f.status # "OK"
    <3>1. severity("OK") = 0 /\ "OK" \in Status
      BY DEF severity, Status
    <3>2. severity(Threshold) \in 0 .. 3 /\ severity(Threshold) # 0
      BY <2>2, <3>1, Severities
    <3>3. severity(f.status) >= severity(Threshold)
      BY DEF AtLeast
    <3>4. severity(f.status) \in 0 .. 3
      BY <2>8, Severities DEF Finding
    <3>5. severity(f.status) # 0
      BY ONLY <3>2, <3>3, <3>4
    <3> QED
      BY <3>1, <3>5
  <2>11. KeyOf(f) \in DOMAIN file.status => ~AtLeast(file.status[KeyOf(f)], f.status)
    BY <2>9 DEF Known
  <2>12. \A g \in ToSet(Shown) : KeyOf(g) = KeyOf(f) => g = f
    <3> SUFFICES ASSUME NEW g \in ToSet(Shown), KeyOf(g) = KeyOf(f) PROVE g = f
      OBVIOUS
    <3>1. PICK p \in Found(raw) : LeftOf(g, p)
      BY <2>8
    <3>2. KeyOf(p) = KeyOf(f)
      BY <3>1 DEF LeftOf, Milder
    <3>3. p = f
      BY <2>1, <2>9, <3>2, AloneIsOne DEF Known
    <3> QED
      BY <2>6, <2>7, <3>1, <3>3 DEF LeftOf
  <2> QED
    BY <2>1, <2>5, <2>8, <2>9, <2>10, <2>11, <2>12, WorseIsNew
<1> QED
  BY Invariance, <1>1, PTL

\* Rules without a problem name no cycle: of findings that fail and whose checks the rules
\* name one by one, some have no parent among them.
LEMMA SomeHasNoParent ==
  ASSUME NEW rules, NEW F, IsFiniteSet(F), F # {},
         ValidateDependencies(rules),
         \A i \in DOMAIN rules : \E n \in rules[i].check : rules[i].check = {n},
         \A i \in DOMAIN rules :
           rules[i].onCheck # {} => \E n \in rules[i].onCheck : rules[i].onCheck = {n}
  PROVE  \E f \in F : \A p \in F, i \in DOMAIN rules : ~Explains(p, f, rules[i])
<1> SUFFICES ASSUME \A f \in F : \E p \in F, i \in DOMAIN rules : Explains(p, f, rules[i])
             PROVE  FALSE
  OBVIOUS
<1> DEFINE named == {i \in DOMAIN rules : rules[i].check # {} /\ rules[i].onCheck # {}}
           nodes == {rules[i].check : i \in named} \cup {rules[i].onCheck : i \in named}
           E == {<<rules[i].check, rules[i].onCheck>> : i \in named}
           name == [f \in F |-> {f.check}]
           S == {name[f] : f \in F}
           Follows(n, C) == \A i \in named : rules[i].check \in C \cup {n} => rules[i].onCheck \in C
<1>1. IsFiniteSet(S)
  <2>1. name \in Surjection(F, S)
    BY DEF Surjection
  <2> HIDE DEF S, name
  <2> QED
    BY <2>1, FS_Surjection
<1>2. S # {}
  <2>1. PICK f \in F : TRUE
    OBVIOUS
  <2>2. name[f] \in S
    BY <2>1
  <2> QED
    BY <2>2
<1>3. \A a \in S : \E b \in S : <<a, b>> \in E
  <2> SUFFICES ASSUME NEW f \in F PROVE \E b \in S : <<name[f], b>> \in E
    <3> HIDE DEF E, name
    <3> QED
      BY Zenon
  <2>1. PICK p \in F, i \in DOMAIN rules : Explains(p, f, rules[i])
    OBVIOUS
  <2>2. rules[i].onCheck # {} /\ p.check \in rules[i].onCheck /\ globMatch(rules[i].check, f.check)
    BY <2>1 DEF Explains
  <2>3. rules[i].check = {f.check}
    BY <2>2 DEF globMatch
  <2>4. rules[i].onCheck = {p.check}
    BY <2>2
  <2>5. i \in named /\ name[f] = rules[i].check /\ name[p] = rules[i].onCheck
    BY <2>2, <2>3, <2>4
  <2>6. <<name[f], name[p]>> \in E /\ name[p] \in S
    BY <2>5
  <2> QED
    BY <2>6
<1> HIDE DEF S
<1>4. PICK n \in S : \A C : (\A a \in C \cup {n}, b \in S : <<a, b>> \in E => b \in C) => n \in C
  <2> HIDE DEF E
  <2> QED
    BY <1>1, <1>2, <1>3, SomeCycle
<1>5. n \in nodes
  <2>1. PICK b \in S : <<n, b>> \in E
    BY <1>3
  <2> QED
    BY <2>1
<1>6. ASSUME NEW C \in SUBSET nodes, Follows(n, C) PROVE n \in C
  <2>1. \A a \in C \cup {n}, b \in S : <<a, b>> \in E => b \in C
    BY <1>6
  <2> QED
    BY <1>4, <2>1
<1>7. n \in cycleProblems(rules)
  BY <1>5, <1>6 DEF cycleProblems
<1> QED
  BY <1>7 DEF ValidateDependencies

\* Dependencies thin out an outage and never silence it (ApplyDependencies): for any rules
\* that validate accepts and that name their checks one by one, a run that is red after
\* the windows has a red finding left, however long the chains of the rules are.
THEOREM AnOutageStaysRed == Spec => []OutageStaysRed
<1>1. IInv => OutageStaysRed
  <2> SUFFICES ASSUME IInv, ValidateDependencies(setup.rules), Red # {},
                      \A i \in DOMAIN setup.rules :
                        \E n \in setup.rules[i].check : setup.rules[i].check = {n}
               PROVE  StillRed
    BY DEF OutageStaysRed
  <2> DEFINE M == ApplyMaintenance(Run(raw), setup.windows, now)
             P == PostProcess(Run(raw), setup, now)
  <2>1. IsRun
    BY DEF IInv, CheckTypeOK, IsRun
  <2>2. IsList(Run(raw)) /\ ToSet(Run(raw)) \subseteq Finding
    BY <2>1, RawFindings, RunIsFound
  <2>3. IsList(M) /\ \A g \in ToSet(M) : g \in Finding
    <3>1. /\ IsList(M)
          /\ \A g \in ToSet(M) : \E f \in ToSet(Run(raw)) : g = f \/ g = [f EXCEPT !.status = "WARN"]
      BY <2>2, Maintained
    <3> QED
      BY <2>2, <3>1, SoftenedIsMilder
  <2>4. IsFiniteSet(ToSet(M))
    <3>0. M = [i \in DOMAIN M |-> M[i]]
      BY DEF ApplyMaintenance
    <3> HIDE DEF M
    <3>1. IsFiniteSet(DOMAIN M)
      BY <2>3, ListIsFinite
    <3>2. M \in Surjection(DOMAIN M, ToSet(M))
      BY <3>0 DEF Surjection, ToSet
    <3> QED
      BY <3>1, <3>2, FS_Surjection
  <2>5. IsFiniteSet(Red) /\ Red = {f \in ToSet(M) : Failing(f)}
    <3>1. Red \subseteq ToSet(M)
      BY DEF Red
    <3> QED
      BY <2>4, <3>1, FS_Subset DEF Red
  <2>6. PICK f \in Red : \A p \in Red, i \in DOMAIN setup.rules : ~Explains(p, f, setup.rules[i])
    <3>1. \A i \in DOMAIN setup.rules :
            setup.rules[i].onCheck # {} =>
              \E n \in setup.rules[i].onCheck : setup.rules[i].onCheck = {n}
      BY <2>1, RulesAssumption DEF IsRun
    <3> QED
      BY <2>5, <3>1, SomeHasNoParent
  <2>7. P = ApplyDependencies(M, setup.rules)
    BY DEF PostProcess
  <2> HIDE DEF M, P
  <2>8. f \in ToSet(P)
    <3>1. ToSet(M) \subseteq Finding
      BY <2>3
    <3>2. ~\E p \in ToSet(M), i \in DOMAIN setup.rules : Failing(p) /\ Explains(p, f, setup.rules[i])
      BY <2>5, <2>6
    <3> QED
      BY <2>3, <2>5, <2>7, <3>1, <3>2, Depended
  <2> QED
    BY <2>5, <2>8 DEF StillRed, P
<1> QED
  BY Invariance, <1>1, PTL

-----------------------------------------------------------------------------
(***************************************************************************)
(* Titles, and what is wanted.                                             *)
(***************************************************************************)
Titles == {title(k, s) : k \in Keys, s \in {"BAD", "ERROR"}}

\* A key is read back from the title made for it.
LEMMA KeyOfTitle ==
  ASSUME NEW k \in Keys, NEW s
  PROVE  Key(title(k, s)) = k /\ KeyFromTitle(title(k, s)) = k /\ title(k, s)[3] = s
<1>1. k = <<k[1], k[2]>>
  BY KeysAssumption
<1> QED
  BY <1>1 DEF title, Key, KeyFromTitle

\* A title has a key, and the code reads the same one.
LEMMA TitlesHaveKeys ==
  \A t \in Titles : Key(t) \in Keys /\ KeyFromTitle(t) = Key(t) /\ isProblem(t[3])
BY KeyOfTitle DEF Titles, isProblem

\* Reconcile wants one title for each problem.
LEMMA WantedTitles ==
  ASSUME NEW found
  PROVE  /\ Wanted(found) \subseteq Titles
         /\ \A t, u \in Wanted(found) : Key(t) = Key(u) => t = u
<1> DEFINE mildest(k, s) == isProblem(s) /\ \A z \in found[k] : isProblem(z) => AtLeast(z, s)
           last(k) == CHOOSE s \in found[k] : mildest(k, s)
<1>1. Wanted(found) = {title(k, last(k)) : k \in Problems(found)}
  BY DEF Wanted
<1>2. ASSUME NEW k \in Problems(found) PROVE last(k) \in {"BAD", "ERROR"}
  <2>1. PICK s \in found[k] : isProblem(s)
    BY <1>2 DEF Problems
  <2>2. \E r \in found[k] : mildest(k, r)
    <3>1. CASE "BAD" \in found[k]
      BY <3>1 DEF isProblem, AtLeast, severity
    <3>2. CASE "BAD" \notin found[k]
      BY <2>1, <3>2 DEF isProblem, AtLeast, severity
    <3> QED
      BY <3>1, <3>2
  <2>3. mildest(k, last(k))
    BY <2>2
  <2> QED
    BY <2>3 DEF isProblem
<1> HIDE DEF last
<1>3. Wanted(found) \subseteq Titles
  BY <1>1, <1>2 DEF Titles, Problems
<1>4. \A k \in Problems(found) : Key(title(k, last(k))) = k
  BY KeyOfTitle DEF Problems
<1> QED
  BY <1>1, <1>3, <1>4

\* Of some keys one comes first.
LEMMA FirstExists ==
  ASSUME NEW S \in SUBSET (Nat \X Nat), S # {}
  PROVE  First(S) \in S
<1> DEFINE checks == {k[1] : k \in S}
           c == Min(checks)
           targets == {k[2] : k \in {l \in S : l[1] = c}}
           t == Min(targets)
<1>1. c \in checks /\ \A x \in checks : c <= x
  <2>1. checks \in SUBSET Nat /\ checks # {}
    OBVIOUS
  <2> HIDE DEF checks
  <2> QED
    BY <2>1, MinOfNaturals
<1>2. t \in targets /\ \A x \in targets : t <= x
  <2>1. targets \in SUBSET Nat /\ targets # {}
    BY <1>1
  <2> HIDE DEF targets
  <2> QED
    BY <2>1, MinOfNaturals
<1>3. PICK k \in S : k[1] = c /\ k[2] = t
  BY <1>2
<1>4. \A m \in S : k[1] < m[1] \/ (k[1] = m[1] /\ k[2] <= m[2])
  <2> SUFFICES ASSUME NEW m \in S, ~(k[1] < m[1]) PROVE k[1] = m[1] /\ k[2] <= m[2]
    OBVIOUS
  <2>1. c <= m[1] /\ m[1] \in Nat /\ k[1] \in Nat
    BY <1>1
  <2>2. k[1] = m[1]
    BY <1>3, <2>1
  <2>3. m[2] \in targets
    BY <1>3, <2>2
  <2> QED
    BY <1>2, <1>3, <2>2, <2>3
<1> QED
  BY <1>4 DEF First

-----------------------------------------------------------------------------
(***************************************************************************)
(* The inductive invariant.  That one invocation at a time opens no second *)
(* issue needs three facts: it has one title for each key, it is alone     *)
(* from its listing to its end, and what it still has to open was not      *)
(* there when it listed, and is not there now.                             *)
(***************************************************************************)
Bounded ==
  /\ fleet \in [Keys -> Conditions] /\ drifts \in 0 .. MaxDrifts
  /\ at \in [Crons -> {"idle", "list", "act"}]
  /\ titles \in [Crons -> SUBSET Titles]
  /\ stale \in [Crons -> SUBSET (Nat \X Titles)]
  /\ issues \subseteq (Nat \ {0}) \X Titles
  /\ overlapped \in BOOLEAN

\* The tracker has given finitely many numbers, each once.
Numbered ==
  /\ \A i, j \in issues : i[1] = j[1] => i = j
  /\ \E n \in Nat : \A i \in issues \cup UNION {stale[c] : c \in Crons} : i[1] <= n

OneTitleEach == \A c \in Crons : \A t, u \in titles[c] : Key(t) = Key(u) => t = u

OnlyWhileActive ==
  \A c \in Crons : /\ at[c] = "idle" => titles[c] = {}
                   /\ at[c] # "act" => stale[c] = {}

OneAtATime == ~overlapped => \A c, d \in Crons : at[c] # "idle" /\ at[d] # "idle" => c = d

StillMissing ==
  ~overlapped => \A c \in Crons : at[c] = "act" =>
                   \A t \in titles[c], i \in issues : Key(i[2]) # Key(t)

IssueIInv == /\ Bounded /\ Numbered /\ OneTitleEach /\ OnlyWhileActive
        /\ OneIssuePerProblem /\ OneAtATime /\ StillMissing

-----------------------------------------------------------------------------
(***************************************************************************)
(* What an invocation acts on next.                                        *)
(***************************************************************************)
\* Of the titles still to open there is one whose key comes first.
LEMMA NextTitleIsOne ==
  ASSUME Bounded, NEW c \in Crons, titles[c] # {}
  PROVE  NextTitle(c) \in titles[c]
<1> DEFINE keys == {Key(u) : u \in titles[c]}
<1>1. titles[c] \subseteq Titles
  BY DEF Bounded
<1>2. keys \in SUBSET (Nat \X Nat) /\ keys # {}
  BY <1>1, TitlesHaveKeys, KeysAssumption
<1>3. First(keys) \in keys
  <2> HIDE DEF keys
  <2> QED
    BY <1>2, FirstExists
<1> QED
  BY <1>3 DEF NextTitle

\* So there is of the issues still to close.
LEMMA NextStaleIsOne ==
  ASSUME Bounded, NEW c \in Crons, stale[c] # {}
  PROVE  NextStale(c) \in stale[c]
<1> DEFINE keys == {KeyFromTitle(j[2]) : j \in stale[c]}
<1>1. \A j \in stale[c] : j[2] \in Titles
  BY DEF Bounded
<1>2. keys \in SUBSET (Nat \X Nat) /\ keys # {}
  BY <1>1, TitlesHaveKeys, KeysAssumption
<1>3. First(keys) \in keys
  <2> HIDE DEF keys
  <2> QED
    BY <1>2, FirstExists
<1> QED
  BY <1>3 DEF NextStale

\* The tracker always has a number it has not given, since it has given finitely many.
LEMMA NewNumberIsNew ==
  ASSUME Bounded, Numbered
  PROVE  NewNumber \in Nat \ {0} /\ \A i \in issues : i[1] # NewNumber
<1> DEFINE known == {i[1] : i \in issues \cup UNION {stale[c] : c \in Crons}}
           m == Cardinality(known)
           free == (1 .. m + 1) \ known
<1>1. known \subseteq Nat
  BY DEF Bounded
<1>2. PICK n \in Nat : \A x \in known : x <= n
  BY DEF Numbered
<1>3. IsFiniteSet(known) /\ m \in Nat
  <2>1. known \subseteq 0 .. n
    BY <1>1, <1>2
  <2>2. IsFiniteSet(0 .. n)
    BY FS_Interval
  <2> HIDE DEF known
  <2> QED
    BY <2>1, <2>2, FS_Subset, FS_CardinalityType
<1>4. free # {}
  <2> SUFFICES ASSUME 1 .. m + 1 \subseteq known PROVE FALSE
    OBVIOUS
  <2> HIDE DEF known
  <2>1. Cardinality(1 .. m + 1) = m + 1
    BY <1>3, FS_Interval
  <2>2. Cardinality(1 .. m + 1) <= m
    BY <1>3, FS_Subset
  <2> QED
    BY <1>3, <2>1, <2>2
<1>5. free \in SUBSET Nat
  BY <1>3
<1>6. Min(free) \in free
  <2> HIDE DEF free
  <2> QED
    BY <1>4, <1>5, MinOfNaturals
<1>7. NewNumber = Min(free)
  BY DEF NewNumber
<1>8. NewNumber \in 1 .. m + 1 /\ NewNumber \notin known
  BY <1>6, <1>7
<1> QED
  BY <1>3, <1>8

-----------------------------------------------------------------------------
(***************************************************************************)
(* Opening and closing one issue.                                          *)
(***************************************************************************)
Opened(c) == issues \cup {<<NewNumber, NextTitle(c)>>}

LEMMA OpenedIsWell ==
  ASSUME IssueIInv, NEW c \in Crons, at[c] = "act", titles[c] # {}
  PROVE  /\ Opened(c) \subseteq (Nat \ {0}) \X Titles
         /\ \A i, j \in Opened(c) : i[1] = j[1] => i = j
         /\ \E n \in Nat : \A i \in Opened(c) \cup UNION {stale[d] : d \in Crons} : i[1] <= n
         /\ ~overlapped => \A i, j \in Opened(c) : Key(i[2]) = Key(j[2]) => i = j
         /\ ~overlapped => \A i \in Opened(c) : \A t \in titles[c] \ {NextTitle(c)} : Key(i[2]) # Key(t)
<1> DEFINE i0 == <<NewNumber, NextTitle(c)>>
           known == issues \cup UNION {stale[d] : d \in Crons}
<1>1. NextTitle(c) \in titles[c] /\ NextTitle(c) \in Titles
  BY NextTitleIsOne DEF IssueIInv, Bounded
<1>2. NewNumber \in Nat \ {0} /\ \A i \in issues : i[1] # NewNumber
  BY NewNumberIsNew DEF IssueIInv
<1>3. i0[1] = NewNumber /\ i0[2] = NextTitle(c)
  OBVIOUS
<1>4. Opened(c) = issues \cup {i0}
  BY DEF Opened
<1>5. Opened(c) \subseteq (Nat \ {0}) \X Titles
  BY <1>1, <1>2, <1>4 DEF IssueIInv, Bounded
<1> HIDE DEF i0
<1>6. \A i, j \in Opened(c) : i[1] = j[1] => i = j
  BY <1>2, <1>3, <1>4 DEF IssueIInv, Numbered
<1>7. \E n \in Nat : \A i \in Opened(c) \cup UNION {stale[d] : d \in Crons} : i[1] <= n
  <2>1. PICK n \in Nat : \A i \in known : i[1] <= n
    BY DEF IssueIInv, Numbered
  <2>2. \A i \in known : i[1] \in Nat
    BY DEF IssueIInv, Bounded
  <2> DEFINE n1 == IF NewNumber <= n THEN n ELSE NewNumber
  <2>3. n1 \in Nat /\ n <= n1 /\ NewNumber <= n1
    BY <1>2
  <2>4. \A i \in known \cup {i0} : i[1] <= n1
    <3> HIDE DEF known, n1
    <3> QED
      BY <1>3, <2>1, <2>2, <2>3
  <2>5. Opened(c) \cup UNION {stale[d] : d \in Crons} = known \cup {i0}
    BY <1>4
  <2> HIDE DEF n1, known
  <2> QED
    BY <2>3, <2>4, <2>5
<1>8. ASSUME ~overlapped
      PROVE  /\ \A i, j \in Opened(c) : Key(i[2]) = Key(j[2]) => i = j
             /\ \A i \in Opened(c) : \A t \in titles[c] \ {NextTitle(c)} : Key(i[2]) # Key(t)
  <2>1. \A i \in issues : \A t \in titles[c] : Key(i[2]) # Key(t)
    BY <1>8 DEF IssueIInv, StillMissing
  <2>2. \A i, j \in issues : Key(i[2]) = Key(j[2]) => i = j
    BY <1>8 DEF IssueIInv, OneIssuePerProblem
  <2>3. \A t, u \in titles[c] : Key(t) = Key(u) => t = u
    BY DEF IssueIInv, OneTitleEach
  <2> QED
    BY <1>1, <1>3, <1>4, <2>1, <2>2, <2>3
<1> QED
  BY <1>5, <1>6, <1>7, <1>8

\* Fewer issues, and fewer left to close, disturb nothing that is said of all of them.
LEMMA FewerIsWell ==
  ASSUME IssueIInv, issues' \subseteq issues, \A c \in Crons : stale'[c] \subseteq stale[c]
  PROVE  Numbered'
<1> DEFINE known == issues \cup UNION {stale[d] : d \in Crons}
<1>1. PICK n \in Nat : \A i \in known : i[1] <= n
  BY DEF IssueIInv, Numbered
<1>2. known' \subseteq known
  OBVIOUS
<1>3. \A i \in known' : i[1] <= n
  BY <1>1, <1>2
<1> QED
  BY <1>3 DEF IssueIInv, Numbered

-----------------------------------------------------------------------------
(***************************************************************************)
(* The steps.                                                              *)
(***************************************************************************)
LEMMA InitIssueIInv == IssueInit => IssueIInv
<1> SUFFICES ASSUME IssueInit PROVE IssueIInv
  OBVIOUS
<1>1. Bounded
  <2>1. drifts \in 0 .. MaxDrifts
    BY MaxDriftsAssumption DEF IssueInit
  <2>2. fleet \in [Keys -> Conditions]
    BY ConditionsAssumption DEF IssueInit
  <2> QED
    BY <2>1, <2>2 DEF IssueInit, Bounded
<1>2. Numbered
  <2>1. issues \cup UNION {stale[c] : c \in Crons} = {}
    BY DEF IssueInit
  <2> QED
    BY <2>1, 0 \in Nat DEF Numbered
<1> QED
  BY <1>1, <1>2
  DEF IssueInit, IssueIInv, OneTitleEach, OnlyWhileActive, OneIssuePerProblem, OneAtATime, StillMissing

LEMMA DriftKeeps ==
  ASSUME IssueIInv, NEW k \in Keys, Drift(k)
  PROVE  IssueIInv'
<1>1. Bounded'
  <2>1. drifts' \in 0 .. MaxDrifts
    BY MaxDriftsAssumption DEF IssueIInv, Bounded, Drift
  <2>2. fleet' \in [Keys -> Conditions]
    BY DEF IssueIInv, Bounded, Drift
  <2> QED
    BY <2>1, <2>2 DEF IssueIInv, Bounded, Drift
<1>2. Numbered'
  BY FewerIsWell DEF Drift
<1> QED
  BY <1>1, <1>2
  DEF Drift, IssueIInv, OneTitleEach, OnlyWhileActive, OneIssuePerProblem, OneAtATime, StillMissing

LEMMA MeasureKeeps ==
  ASSUME IssueIInv, NEW c \in Crons, Measure(c)
  PROVE  IssueIInv'
<1>1. Wanted(fleet) \subseteq Titles /\ \A t, u \in Wanted(fleet) : Key(t) = Key(u) => t = u
  BY WantedTitles
<1>2. \A d \in Crons \ {c} : at'[d] = at[d] /\ titles'[d] = titles[d]
  BY DEF Measure, IssueIInv, Bounded
<1>3. at'[c] = "list" /\ titles'[c] = Wanted(fleet)
  BY DEF Measure, IssueIInv, Bounded
<1>4. Bounded'
  BY <1>1 DEF Measure, IssueIInv, Bounded
<1>5. Numbered'
  BY FewerIsWell DEF Measure
<1>6. OneTitleEach'
  BY <1>1, <1>2, <1>3 DEF IssueIInv, OneTitleEach
<1>7. OnlyWhileActive'
  BY <1>2, <1>3 DEF Measure, IssueIInv, OnlyWhileActive
<1>8. OneIssuePerProblem'
  BY DEF Measure, IssueIInv, OneIssuePerProblem, Bounded
<1>9. ASSUME ~overlapped'
      PROVE  ~overlapped /\ \A d \in Crons : at[d] = "idle"
  BY <1>9 DEF Measure, IssueIInv, Bounded
<1>10. OneAtATime'
  BY <1>2, <1>9 DEF OneAtATime
<1>11. StillMissing'
  BY <1>2, <1>3, <1>9 DEF StillMissing
<1> QED
  BY <1>4, <1>5, <1>6, <1>7, <1>8, <1>10, <1>11 DEF IssueIInv

LEMMA ListKeeps ==
  ASSUME IssueIInv, NEW c \in Crons, List(c)
  PROVE  IssueIInv'
<1> DEFINE open == Open(issues)
           keys == {KeyFromTitle(i[2]) : i \in open}
<1>1. open \subseteq issues /\ issues \subseteq Nat \X Titles
  BY DEF Open, IssueIInv, Bounded
<1>2. \A d \in Crons \ {c} : at'[d] = at[d] /\ titles'[d] = titles[d] /\ stale'[d] = stale[d]
  BY DEF List, IssueIInv, Bounded
<1>3. /\ at[c] = "list" /\ at'[c] = "act"
      /\ titles'[c] = {t \in titles[c] : Key(t) \notin keys}
      /\ stale'[c] \subseteq open
      /\ UNCHANGED <<fleet, drifts, issues, overlapped>>
  BY DEF List, IssueIInv, Bounded
<1>4. Bounded'
  <2>1. at' \in [Crons -> {"idle", "list", "act"}]
    BY DEF List, IssueIInv, Bounded
  <2>2. titles' \in [Crons -> SUBSET Titles]
    BY DEF List, IssueIInv, Bounded
  <2>3. stale' \in [Crons -> SUBSET (Nat \X Titles)]
    BY <1>1 DEF List, IssueIInv, Bounded
  <2> QED
    BY <1>3, <2>1, <2>2, <2>3 DEF IssueIInv, Bounded
<1>5. Numbered'
  <2> DEFINE known == issues \cup UNION {stale[d] : d \in Crons}
  <2>1. PICK n \in Nat : \A i \in known : i[1] <= n
    BY DEF IssueIInv, Numbered
  <2>2. known' \subseteq known
    <3>1. \A d \in Crons : stale'[d] \subseteq known
      BY <1>1, <1>2, <1>3
    <3> QED
      BY <1>3, <3>1
  <2>3. \A i \in known' : i[1] <= n
    BY <2>1, <2>2
  <2> QED
    BY <1>3, <2>3 DEF IssueIInv, Numbered
<1> HIDE DEF keys
<1>6. OneTitleEach'
  BY <1>2, <1>3 DEF IssueIInv, OneTitleEach
<1>7. OnlyWhileActive'
  BY <1>2, <1>3 DEF IssueIInv, OnlyWhileActive
<1>8. OneIssuePerProblem'
  BY <1>3 DEF IssueIInv, OneIssuePerProblem
<1>9. OneAtATime'
  BY <1>2, <1>3 DEF IssueIInv, OneAtATime
<1>10. StillMissing'
  <2> SUFFICES ASSUME ~overlapped', NEW d \in Crons, at'[d] = "act",
                      NEW t \in titles'[d], NEW i \in issues'
               PROVE  Key(i[2]) # Key(t)
    BY DEF StillMissing
  <2>1. CASE d # c
    BY <1>2, <1>3, <2>1 DEF IssueIInv, StillMissing
  <2>2. CASE d = c
    <3>1. \A j \in issues : KeyFromTitle(j[2]) = Key(j[2])
      BY <1>1, TitlesHaveKeys
    <3>2. \A j, l \in issues : KeyFromTitle(j[2]) = KeyFromTitle(l[2]) => j = l
      BY <1>3, <3>1 DEF IssueIInv, OneIssuePerProblem
    <3>3. open = issues
      BY <1>1, <3>2 DEF Open
    <3>4. Key(i[2]) \in keys
      BY <1>3, <3>1, <3>3 DEF keys
    <3> QED
      BY <1>3, <2>2, <3>4
  <2> QED
    BY <2>1, <2>2
<1> QED
  BY <1>4, <1>5, <1>6, <1>7, <1>8, <1>9, <1>10 DEF IssueIInv

LEMMA CreateKeeps ==
  ASSUME IssueIInv, NEW c \in Crons, Create(c)
  PROVE  IssueIInv'
<1>1. /\ at[c] = "act" /\ titles[c] # {}
      /\ issues' = Opened(c)
      /\ UNCHANGED <<fleet, drifts, at, stale, overlapped>>
  BY DEF Create, Opened
<1>2. titles'[c] = titles[c] \ {NextTitle(c)} /\ \A d \in Crons \ {c} : titles'[d] = titles[d]
  BY DEF Create, IssueIInv, Bounded
<1>3. /\ issues' \subseteq (Nat \ {0}) \X Titles
      /\ \A i, j \in issues' : i[1] = j[1] => i = j
      /\ \E n \in Nat : \A i \in issues' \cup UNION {stale[d] : d \in Crons} : i[1] <= n
      /\ ~overlapped => \A i, j \in issues' : Key(i[2]) = Key(j[2]) => i = j
      /\ ~overlapped => \A i \in issues' : \A t \in titles'[c] : Key(i[2]) # Key(t)
  BY <1>1, <1>2, OpenedIsWell
<1>4. Bounded'
  <2>1. titles' \in [Crons -> SUBSET Titles]
    BY DEF Create, IssueIInv, Bounded
  <2> QED
    BY <1>1, <1>3, <2>1 DEF IssueIInv, Bounded
<1>5. Numbered'
  BY <1>1, <1>3 DEF Numbered
<1>6. OneTitleEach' /\ OnlyWhileActive'
  BY <1>1, <1>2 DEF IssueIInv, OneTitleEach, OnlyWhileActive
<1>7. OneIssuePerProblem' /\ OneAtATime'
  BY <1>1, <1>3 DEF IssueIInv, OneIssuePerProblem, OneAtATime
<1>8. StillMissing'
  <2>1. ~overlapped => \A d \in Crons : at[d] = "act" => d = c
    BY <1>1 DEF IssueIInv, OneAtATime
  <2> QED
    BY <1>1, <1>3, <2>1 DEF StillMissing
<1> QED
  BY <1>4, <1>5, <1>6, <1>7, <1>8 DEF IssueIInv

LEMMA CloseKeeps ==
  ASSUME IssueIInv, NEW c \in Crons, Close(c)
  PROVE  IssueIInv'
<1>1. issues' \subseteq issues /\ UNCHANGED <<fleet, drifts, at, titles, overlapped>>
  BY DEF Close
<1>2. \A d \in Crons : stale'[d] \subseteq stale[d]
  BY DEF Close, IssueIInv, Bounded
<1>3. stale' \in [Crons -> SUBSET (Nat \X Titles)]
  BY DEF Close, IssueIInv, Bounded
<1>4. Numbered'
  BY <1>1, <1>2, FewerIsWell
<1>5. Bounded'
  BY <1>1, <1>3 DEF IssueIInv, Bounded
<1>6. OnlyWhileActive'
  BY <1>1, <1>2 DEF IssueIInv, OnlyWhileActive
<1> QED
  BY <1>1, <1>4, <1>5, <1>6 DEF IssueIInv, OneTitleEach, OneIssuePerProblem, OneAtATime, StillMissing

\* However an invocation ends: the issues are what they were, one more or one fewer.
LEMMA OverKeeps ==
  ASSUME IssueIInv, NEW c \in Crons, at[c] # "idle", Over(c), UNCHANGED <<fleet, drifts, overlapped>>,
         issues' \subseteq issues \/ (at[c] = "act" /\ titles[c] # {} /\ issues' = Opened(c))
  PROVE  IssueIInv'
<1>1. \A d \in Crons \ {c} : at'[d] = at[d] /\ titles'[d] = titles[d] /\ stale'[d] = stale[d]
  BY DEF Over, IssueIInv, Bounded
<1>2. at'[c] = "idle" /\ titles'[c] = {} /\ stale'[c] = {}
  BY DEF Over, IssueIInv, Bounded
<1>3. \A d \in Crons : stale'[d] \subseteq stale[d]
  BY <1>1, <1>2
<1>4. Numbered' /\ issues' \subseteq (Nat \ {0}) \X Titles /\ OneIssuePerProblem'
  <2>1. CASE issues' \subseteq issues
    BY <1>3, <2>1, FewerIsWell DEF IssueIInv, OneIssuePerProblem, Bounded
  <2>2. CASE at[c] = "act" /\ titles[c] # {} /\ issues' = Opened(c)
    <3>1. PICK n \in Nat : \A i \in Opened(c) \cup UNION {stale[d] : d \in Crons} : i[1] <= n
      BY <2>2, OpenedIsWell
    <3>2. UNION {stale'[d] : d \in Crons} \subseteq UNION {stale[d] : d \in Crons}
      BY <1>3
    <3>3. \A i \in issues' \cup UNION {stale'[d] : d \in Crons} : i[1] <= n
      BY <2>2, <3>1, <3>2
    <3>4. Numbered'
      BY <2>2, <3>3, OpenedIsWell DEF Numbered
    <3> QED
      BY <2>2, <3>4, OpenedIsWell DEF OneIssuePerProblem
  <2> QED
    BY <2>1, <2>2
<1>5. Bounded'
  BY <1>4 DEF Over, IssueIInv, Bounded
<1>6. OneTitleEach' /\ OnlyWhileActive'
  BY <1>1, <1>2 DEF IssueIInv, OneTitleEach, OnlyWhileActive
<1>7. OneAtATime'
  BY <1>1, <1>2 DEF IssueIInv, OneAtATime
<1>8. StillMissing'
  <2>1. ~overlapped => \A d \in Crons \ {c} : at[d] = "idle"
    BY DEF IssueIInv, OneAtATime
  <2> QED
    BY <1>1, <1>2, <2>1 DEF StillMissing
<1> QED
  BY <1>4, <1>5, <1>6, <1>7, <1>8 DEF IssueIInv

LEMMA IssueNextKeeps == IssueIInv /\ (IssueNext \/ UNCHANGED issueVars) => IssueIInv'
<1> SUFFICES ASSUME IssueIInv, IssueNext \/ UNCHANGED issueVars PROVE IssueIInv'
  OBVIOUS
<1>1. CASE UNCHANGED issueVars
  <2>1. UNCHANGED <<fleet, drifts, issues, at, titles, stale, overlapped>>
    BY <1>1 DEF issueVars
  <2>2. Bounded' /\ Numbered'
    BY <2>1, FewerIsWell DEF IssueIInv, Bounded
  <2> QED
    BY <2>1, <2>2
    DEF IssueIInv, OneTitleEach, OnlyWhileActive, OneIssuePerProblem, OneAtATime, StillMissing
<1>2. ASSUME NEW k \in Keys, Drift(k) PROVE IssueIInv'
  BY <1>2, DriftKeeps
<1>3. ASSUME NEW c \in Crons, Measure(c) PROVE IssueIInv'
  BY <1>3, MeasureKeeps
<1>4. ASSUME NEW c \in Crons, List(c) PROVE IssueIInv'
  BY <1>4, ListKeeps
<1>5. ASSUME NEW c \in Crons, Create(c) PROVE IssueIInv'
  BY <1>5, CreateKeeps
<1>6. ASSUME NEW c \in Crons, Close(c) PROVE IssueIInv'
  BY <1>6, CloseKeeps
<1>7. ASSUME NEW c \in Crons, Finish(c) PROVE IssueIInv'
  BY <1>7, OverKeeps DEF Finish
<1>8. ASSUME NEW c \in Crons, Fail(c) PROVE IssueIInv'
  BY <1>8, OverKeeps DEF Fail, Opened
<1> QED
  BY <1>1, <1>2, <1>3, <1>4, <1>5, <1>6, <1>7, <1>8 DEF IssueNext

-----------------------------------------------------------------------------
(***************************************************************************)
(* The theorems.                                                           *)
(***************************************************************************)
\* Each fact of IssueIInv holds of every behaviour of the two commands.
THEOREM IssueInvariance == Spec => []IssueIInv
<1>1. Init => IssueIInv
  BY InitIssueIInv DEF Init
<1>2. IssueIInv /\ [Next]_vars => IssueIInv'
  BY IssueNextKeeps DEF Next, Sync, vars
<1> QED
  BY <1>1, <1>2, PTL DEF Spec

\* The state of report-issues stays within its bounds: an open issue has a number of
\* its own and is about a problem, and an invocation that is over has left nothing to do.
THEOREM IssueTypeCorrect == Spec => []IssueTypeOK
<1>1. IssueIInv => IssueTypeOK
  <2> SUFFICES ASSUME IssueIInv PROVE IssueTypeOK
    OBVIOUS
  <2>1. \A i \in issues : i[1] \in Nat \ {0} /\ Key(i[2]) \in Keys /\ isProblem(i[2][3])
    BY TitlesHaveKeys DEF IssueIInv, Bounded
  <2> QED
    BY <2>1 DEF IssueIInv, Bounded, Numbered, OnlyWhileActive, IssueTypeOK
<1> QED
  BY IssueInvariance, <1>1, PTL

\* Reconcile opens no second issue for a problem while no two invocations overlap, whichever
\* calls failed and wherever earlier ones were killed.
THEOREM OneIssueEach == Spec => []OneIssuePerProblem
<1>1. IssueIInv => OneIssuePerProblem
  BY DEF IssueIInv
<1> QED
  BY IssueInvariance, <1>1, PTL

\* The state of both commands stays within its bounds.
THEOREM TypeCorrect == Spec => []TypeOK
BY CheckTypeCorrect, IssueTypeCorrect, PTL DEF TypeOK
=============================================================================
