--------------------------- MODULE AlertingProofs ---------------------------
(***************************************************************************)
(* Proofs about the alert command, for any number of keys, any providers,  *)
(* any flags and alert_routes, and any mishaps.                            *)
(***************************************************************************)
EXTENDS Alerting, Lemmas, SequenceTheorems

Triggers == [action : {"trigger"}, key : Keys, severity : {"BAD", "ERROR"}]
Resolves == [action : {"resolve"}, key : Keys]

Bounded ==
  /\ cfg \in Configs
  /\ fleet \in [Keys -> (SUBSET Status) \ {{}}] /\ found \in [Keys -> (SUBSET Status) \ {{}}]
  /\ record \in Seq(Keys) /\ prev \in Seq(Keys)
  /\ memory \in [Keys -> Notified \cup {None}]
  /\ state \in [Keys -> Notified \cup {None}]
  /\ told \in [Keys -> Notified \cup {None}]
  /\ open \in [Providers -> SUBSET Keys]
  /\ pc \in {"idle", "read", "append", "plan", "sending"}
  /\ events \in Seq(Triggers \cup Resolves)
  /\ dry \in BOOLEAN /\ mishaps \subseteq {"fault", "history"}

\* The keys without a problem, and the keys of a list of them.
Quiet == Keys \ Failing
Listed(s) == {s[i] : i \in DOMAIN s}

\* Only an invocation has events: a trigger of what it found, no two of one key, and
\* resolves of what it did not.
Planned ==
  /\ pc # "sending" => events = <<>>
  /\ pc = "idle" => ~dry
  /\ \A i, j \in DOMAIN events :
       i # j /\ events[i].key = events[j].key => events[i].action = "resolve"
  /\ \A i \in DOMAIN events : \/ \E k \in Failing : events[i] = Trigger(k)
                              \/ \E k \in Quiet : events[i] = Resolve(k)

\* What was told and not resolved has an open alert, at a provider that serves the key.
Serves(p, k) ==
  IF routed THEN \E i \in DOMAIN cfg.routes : LET r == cfg.routes[i]
                                              IN  k \in r.keys /\ labelsOK(r) /\ r.provider = p
            ELSE p = cfg.provider

ToldIsOpen ==
  /\ \A k \in Keys : told[k] # None => \E p \in Providers : k \in open[p]
  /\ \A p \in Providers : \A k \in open[p] : Serves(p, k)

\* The memory is true, and while an invocation sends, its copy is; without a memory
\* nothing is known of a key whose event is still to come.
Remembers == routed /\ cfg.state /\ "fault" \notin mishaps
MemoryAgrees ==
  /\ Remembers => IF pc = "sending" /\ ~dry THEN state = told ELSE memory = told
  /\ ~(routed /\ cfg.state) => \A i \in DOMAIN events : state[events[i].key] = None

\* Every problem is paged, still to be triggered, or left out by the routes.
PagedSoFar ==
  pc = "sending" /\ ~dry /\ (~cfg.state \/ "fault" \notin mishaps) =>
    \A k \in Failing : \/ \E p \in Providers : k \in open[p]
                       \/ \E i \in DOMAIN events : events[i] = Trigger(k)
                       \/ Unrouted(Trigger(k))

IInv == Bounded /\ Planned /\ ToldIsOpen /\ MemoryAgrees /\ PagedSoFar

\* The routes send what is found of a key to one service.
OneServiceEach ==
  \A i, j \in DOMAIN cfg.routes :
    LET r == cfg.routes[i]
        s == cfg.routes[j]
    IN  labelsOK(r) /\ labelsOK(s) /\ r.keys \cap s.keys # {} => r.provider = s.provider

\* Nothing but the resolves to come separates the open alerts from the problems found.
OpenIsKnown ==
  OneServiceEach /\ cfg.history /\ mishaps = {} =>
    /\ pc \in {"idle", "read"} \/ dry => \A p \in Stateful : open[p] \subseteq Listed(record)
    /\ pc = "append" => prev = record /\ \A p \in Stateful : open[p] \subseteq Listed(prev)
    /\ pc = "plan" => /\ \A p \in Stateful : open[p] \subseteq Listed(prev)
                      /\ ~dry => record = Entries(found)
    /\ pc = "sending" /\ ~dry =>
         /\ record = Entries(found)
         /\ \A p \in Stateful : \A k \in open[p] \ Failing :
              \E i \in DOMAIN events : events[i] = Resolve(k)

-----------------------------------------------------------------------------
(***************************************************************************)
(* The operators.                                                          *)
(***************************************************************************)
LEMMA RoutesAreTyped ==
  ASSUME Bounded
  PROVE  /\ cfg.routes \in Seq(Routes) /\ cfg.provider \in Providers
         /\ cfg.history \in BOOLEAN /\ cfg.state \in BOOLEAN
         /\ DOMAIN cfg.routes = 1 .. Len(cfg.routes) /\ Len(cfg.routes) \in Nat
         /\ \A i \in DOMAIN cfg.routes : /\ cfg.routes[i] \in Routes /\ cfg.routes[i].after \in Nat
                                         /\ cfg.routes[i].provider \in Providers
<1>1. cfg.routes \in Seq(Routes) /\ cfg.provider \in Providers /\ cfg.history \in BOOLEAN /\ cfg.state \in BOOLEAN
  BY ConfigsAssumption DEF Bounded
<1>2. \A r \in Routes : r.after \in Nat /\ r.provider \in Providers
  BY DEF Routes
<1> QED
  BY <1>1, <1>2

LEMMA HorizonIsNatural == ASSUME Bounded PROVE Horizon \in Nat
<1> DEFINE D == DOMAIN cfg.routes
           f == [i \in D |-> cfg.routes[i].after]
           S == {cfg.routes[i].after : i \in D}
<1>1. D = 1 .. Len(cfg.routes) /\ Len(cfg.routes) \in Nat /\ S \subseteq Nat
  BY RoutesAreTyped
<1>2. IsFiniteSet(D)
  <2>1. 1 \in Int /\ Len(cfg.routes) \in Int
    BY <1>1
  <2> QED
    BY <1>1, <2>1, FS_Interval
<1>3. f \in Surjection(D, S)
  BY DEF Surjection
<1>4. IsFiniteSet(S)
  BY <1>2, <1>3, FS_Surjection
<1> HIDE DEF S
<1>5. {0} \cup S \in SUBSET Nat /\ {0} \cup S # {} /\ IsFiniteSet({0} \cup S)
  <2>1. IsFiniteSet(S \cup {0})
    BY <1>4, FS_AddElement
  <2>2. {0} \cup S = S \cup {0}
    OBVIOUS
  <2>3. IsFiniteSet({0} \cup S)
    BY <2>1, <2>2, Zenon
  <2>4. {0} \cup S \in SUBSET Nat /\ {0} \cup S # {}
    BY <1>1
  <2> QED
    BY <2>3, <2>4, Zenon
<1>6. Max({0} \cup S) \in {0} \cup S
  BY <1>5, MaxOfNaturals
<1> QED
  BY <1>1, <1>6 DEF Horizon, S

LEMMA OlderIsTyped ==
  ASSUME Bounded, NEW f \in [Keys -> Notified \cup {None}]
  PROVE  /\ Older(f) \in [Keys -> Notified \cup {None}]
         /\ \A k \in Keys : Older(f)[k] # None <=> f[k] # None
<1> SUFFICES ASSUME NEW k \in Keys
             PROVE  LET o == IF f[k] = None THEN None ELSE [f[k] EXCEPT !.age = Min({@ + 1, Horizon})]
                    IN  o \in Notified \cup {None} /\ (o # None <=> f[k] # None)
  BY DEF Older
<1>1. CASE f[k] = None
  BY <1>1
<1>2. CASE f[k] # None
  <2>1. f[k] \in Notified /\ f[k].age + 1 \in Nat /\ Horizon \in Nat
    BY <1>2, HorizonIsNatural DEF Notified
  <2>2. Min({f[k].age + 1, Horizon}) \in {f[k].age + 1, Horizon}
    BY <2>1, MinOfNaturals
  <2>3. [f[k] EXCEPT !.age = Min({@ + 1, Horizon})] \in Notified
    BY <2>1, <2>2 DEF Notified
  <2> QED
    BY <1>2, <2>3, NoneAssumption
<1> QED
  BY <1>1, <1>2

LEMMA EventsAreTyped ==
  ASSUME Bounded
  PROVE  /\ \A k \in Keys : Trigger(k) \in Triggers /\ Resolve(k) \in Resolves
         /\ Failing \subseteq Keys /\ Quiet \subseteq Keys /\ Failing \cap Quiet = {}
BY DEF Failing, Quiet, ProblemKeys, Trigger, Resolve, PlannedSeverity, Triggers, Resolves, Bounded

LEMMA Matched ==
  ASSUME Bounded, NEW e
  PROVE  /\ \A r \in Match(e) : \E i \in DOMAIN cfg.routes : r = cfg.routes[i] /\ Covers(cfg.routes[i], e)
         /\ (\E i \in DOMAIN cfg.routes : Covers(cfg.routes[i], e)) => Match(e) # {}
<1> DEFINE C == {i \in DOMAIN cfg.routes : Covers(cfg.routes[i], e)}
<1>1. \A r \in Match(e) : \E i \in DOMAIN cfg.routes : r = cfg.routes[i] /\ Covers(cfg.routes[i], e)
  BY DEF Match
<1>2. ASSUME C # {} PROVE Match(e) # {}
  <2>1. C \in SUBSET Nat /\ DOMAIN cfg.routes = 1 .. Len(cfg.routes) /\ Len(cfg.routes) \in Nat
    BY RoutesAreTyped
  <2>2. Min(C) \in C /\ \A x \in C : Min(C) <= x
    BY <1>2, <2>1, MinOfNaturals
  <2> DEFINE j == Min(C)
  <2>3. \A h \in 1 .. j - 1 : h \in DOMAIN cfg.routes /\ h \notin C
    <3> HIDE DEF C
    <3>1. j \in Nat /\ j \in 1 .. Len(cfg.routes)
      <4>1. C \subseteq DOMAIN cfg.routes
        BY DEF C
      <4> QED
        BY <2>1, <2>2, <4>1
    <3>2. \A h \in 1 .. j - 1 : h \in 1 .. Len(cfg.routes) /\ h \in Nat /\ ~(j <= h)
      BY <2>1, <3>1
    <3> QED
      BY <2>1, <2>2, <3>2
  <2> HIDE DEF j
  <2>4. j \in DOMAIN cfg.routes /\ Covers(cfg.routes[j], e) /\ \A h \in 1 .. j - 1 : ~Covers(cfg.routes[h], e)
    BY <2>2, <2>3 DEF j
  <2> QED
    BY <2>4 DEF Match
<1> QED
  BY <1>1, <1>2

\* An event that goes out goes to a service that serves its key.
LEMMA ServedByProvider ==
  ASSUME Bounded, NEW e, ~Unrouted(e)
  PROVE  ProviderOf(e) \in Providers /\ (e.key \in Keys => Serves(ProviderOf(e), e.key))
<1>1. CASE routed
  <2>1. (CHOOSE r \in Match(e) : TRUE) \in Match(e)
    BY <1>1 DEF Unrouted
  <2>2. PICK i \in DOMAIN cfg.routes : /\ (CHOOSE r \in Match(e) : TRUE) = cfg.routes[i]
                                       /\ Covers(cfg.routes[i], e)
    BY <2>1, Matched
  <2>3. ProviderOf(e) = cfg.routes[i].provider /\ cfg.routes[i].provider \in Providers
    BY <1>1, <2>2, RoutesAreTyped DEF ProviderOf
  <2> QED
    BY <1>1, <2>2, <2>3 DEF Serves, Covers
<1>2. CASE ~routed
  BY <1>2, RoutesAreTyped DEF ProviderOf, Serves
<1> QED
  BY <1>1, <1>2

LEMMA TailOf ==
  ASSUME NEW S, NEW s \in Seq(S), s # <<>>
  PROVE  /\ Tail(s) \in Seq(S) /\ Head(s) = s[1] /\ 1 \in DOMAIN s
         /\ \A i \in DOMAIN Tail(s) : i + 1 \in DOMAIN s /\ i + 1 # 1 /\ Tail(s)[i] = s[i + 1] /\ i \in Nat
         /\ \A i \in DOMAIN s \ {1} : i - 1 \in DOMAIN Tail(s) /\ Tail(s)[i - 1] = s[i]
<1>1. Len(s) \in Nat /\ Len(s) > 0 /\ DOMAIN s = 1 .. Len(s)
  OBVIOUS
<1>2. Tail(s) \in Seq(S) /\ DOMAIN Tail(s) = 1 .. Len(s) - 1 /\ Head(s) = s[1]
  BY <1>1
<1>3. \A i \in 1 .. Len(s) - 1 : Tail(s)[i] = s[i + 1]
  BY <1>1
<1>4. \A i \in 1 .. Len(s) : i # 1 => i - 1 \in 1 .. Len(s) - 1 /\ (i - 1) + 1 = i
  BY <1>1
<1> QED
  BY <1>1, <1>2, <1>3, <1>4

LEMMA Joined ==
  ASSUME NEW S, NEW s \in Seq(S), NEW t \in Seq(S)
  PROVE  LET st == s \o t
         IN  /\ st \in Seq(S) /\ DOMAIN s \subseteq DOMAIN st
             /\ \A i \in DOMAIN s : st[i] = s[i]
             /\ \A i \in DOMAIN t : Len(s) + i \in DOMAIN st /\ st[Len(s) + i] = t[i]
             /\ \A i \in DOMAIN st : i \in DOMAIN s \/ \E k \in DOMAIN t : i = Len(s) + k
<1> DEFINE st == s \o t
<1>1. /\ st \in Seq(S) /\ Len(st) = Len(s) + Len(t)
      /\ \A i \in 1 .. Len(s) + Len(t) : st[i] = IF i <= Len(s) THEN s[i] ELSE t[i - Len(s)]
  BY ConcatProperties
<1>2. Len(s) \in Nat /\ Len(t) \in Nat /\ DOMAIN s = 1 .. Len(s) /\ DOMAIN t = 1 .. Len(t)
  OBVIOUS
<1>3. DOMAIN st = 1 .. Len(s) + Len(t)
  BY <1>1
<1> HIDE DEF st
<1>4. \A i \in DOMAIN s : i \in DOMAIN st /\ st[i] = s[i]
  BY <1>1, <1>2, <1>3
<1>5. ASSUME NEW i \in DOMAIN t PROVE Len(s) + i \in DOMAIN st /\ st[Len(s) + i] = t[i]
  <2>1. /\ Len(s) + i \in 1 .. Len(s) + Len(t) /\ ~(Len(s) + i <= Len(s)) /\ (Len(s) + i) - Len(s) = i
    BY <1>2
  <2> QED
    BY <1>1, <1>3, <2>1
<1>6. ASSUME NEW i \in DOMAIN st, i \notin DOMAIN s PROVE \E k \in DOMAIN t : i = Len(s) + k
  <2>1. i - Len(s) \in 1 .. Len(t) /\ i = Len(s) + (i - Len(s))
    BY <1>2, <1>3, <1>6
  <2> QED
    BY <1>2, <2>1
<1> QED
  BY <1>1, <1>4, <1>5, <1>6 DEF st

LEMMA PickIsTyped ==
  ASSUME NEW S, NEW s \in Seq(S), NEW P \in SUBSET DOMAIN s
  PROVE  Pick(s, P) \in Seq(S) /\ Listed(Pick(s, P)) = {s[i] : i \in P}
<1>1. IsList(s)
  BY DEF IsList
<1>2. P \in SUBSET Nat /\ IsFiniteSet(P)
  BY <1>1, ListIsFinite
<1>3. /\ Pick(s, P) = [k \in 1 .. Cardinality(P) |-> s[Nth(P, k)]]
      /\ Cardinality(P) \in Nat
      /\ ToSet(Pick(s, P)) = {s[i] : i \in P}
  BY <1>2, Picked
<1>4. \A k \in 1 .. Cardinality(P) : Nth(P, k) \in P
  BY <1>2, NthPosition
<1>5. \A k \in 1 .. Cardinality(P) : s[Nth(P, k)] \in S
  BY <1>4
<1>6. Pick(s, P) \in Seq(S)
  BY <1>3, <1>5
<1> QED
  BY <1>3, <1>6 DEF ToSet, Listed

\* The entries of a record are the keys with a problem, and no others.
LEMMA EntriesAreTyped ==
  ASSUME NEW f \in [Keys -> (SUBSET Status) \ {{}}]
  PROVE  Entries(f) \in Seq(Keys) /\ Listed(Entries(f)) = ProblemKeys(f)
<1> DEFINE key == [k \in Keys |-> k]
           worst == {k \in Keys : "ERROR" \in f[k]}
           bad == {k \in Keys : "BAD" \in f[k]}
           s == Pick(key, worst)
           t == Pick(key, bad)
<1>1. key \in Seq(Keys) /\ DOMAIN key = Keys /\ \A k \in Keys : key[k] = k
  BY KeysAssumption DEF Keys
<1>2. worst \in SUBSET Keys /\ bad \in SUBSET Keys
  OBVIOUS
<1>3. Entries(f) = s \o t /\ ProblemKeys(f) = worst \cup bad
  BY DEF Entries, ProblemKeys
<1> HIDE DEF key, worst, bad
<1>4. s \in Seq(Keys) /\ t \in Seq(Keys) /\ Listed(s) = worst /\ Listed(t) = bad
  <2>1. /\ s \in Seq(Keys) /\ Listed(s) = {key[i] : i \in worst}
        /\ t \in Seq(Keys) /\ Listed(t) = {key[i] : i \in bad}
    BY <1>1, <1>2, PickIsTyped
  <2> QED
    BY <1>1, <1>2, <2>1
<1> HIDE DEF s, t
<1>5. /\ s \o t \in Seq(Keys) /\ DOMAIN s \subseteq DOMAIN (s \o t)
      /\ \A i \in DOMAIN s : (s \o t)[i] = s[i]
      /\ \A i \in DOMAIN t : Len(s) + i \in DOMAIN (s \o t) /\ (s \o t)[Len(s) + i] = t[i]
      /\ \A i \in DOMAIN (s \o t) : i \in DOMAIN s \/ \E k \in DOMAIN t : i = Len(s) + k
  BY <1>4, Joined
<1> DEFINE st == s \o t
<1>6. Listed(st) = Listed(s) \cup Listed(t)
  <2> HIDE DEF st
  <2>1. ASSUME NEW i \in DOMAIN st PROVE st[i] \in Listed(s) \cup Listed(t)
    BY <1>5 DEF Listed, st
  <2>2. ASSUME NEW i \in DOMAIN s PROVE s[i] \in Listed(st)
    <3>1. i \in DOMAIN st /\ st[i] = s[i]
      BY <1>5 DEF st
    <3> QED
      BY <3>1 DEF Listed
  <2>3. ASSUME NEW i \in DOMAIN t PROVE t[i] \in Listed(st)
    <3>1. Len(s) + i \in DOMAIN st /\ st[Len(s) + i] = t[i]
      BY <1>5 DEF st
    <3> QED
      BY <3>1 DEF Listed
  <2>4. Listed(st) \subseteq Listed(s) \cup Listed(t)
    BY <2>1, Zenon DEF Listed
  <2>5. Listed(s) \subseteq Listed(st) /\ Listed(t) \subseteq Listed(st)
    BY <2>2, <2>3, Zenon DEF Listed
  <2> QED
    BY <2>4, <2>5
<1> QED
  BY <1>3, <1>4, <1>5, <1>6

\* The plan: a trigger of each failing key, and a resolve of each previous entry whose
\* key is failing no more.
LEMMA PlannedEvents ==
  ASSUME Bounded,
         NEW evs, evs = Pick([k \in Keys |-> Trigger(k)], Failing)
                         \o [i \in DOMAIN Recovered |-> Resolve(Recovered[i])]
  PROVE  /\ evs \in Seq(Triggers \cup Resolves)
         /\ \A i, j \in DOMAIN evs : i # j /\ evs[i].key = evs[j].key => evs[i].action = "resolve"
         /\ \A i \in DOMAIN evs : \/ \E k \in Failing : evs[i] = Trigger(k)
                                  \/ \E k \in Quiet : evs[i] = Resolve(k)
         /\ \A k \in Failing : \E i \in DOMAIN evs : evs[i] = Trigger(k)
         /\ \A k \in Listed(prev) \ Failing : \E i \in DOMAIN evs : evs[i] = Resolve(k)
<1> DEFINE T == Pick([k \in Keys |-> Trigger(k)], Failing)
           R == [i \in DOMAIN Recovered |-> Resolve(Recovered[i])]
           m == Cardinality(Failing)
           n == Len(Recovered)
<1>1. /\ Failing \in SUBSET Nat /\ IsFiniteSet(Failing)
      /\ Failing \subseteq Keys /\ Quiet \subseteq Keys /\ Failing \cap Quiet = {}
  <2>1. 1 \in Int /\ NumKeys \in Int /\ Keys \subseteq Nat
    BY KeysAssumption DEF Keys
  <2>2. IsFiniteSet(Keys)
    BY <2>1, FS_Interval DEF Keys
  <2> QED
    BY <2>1, <2>2, EventsAreTyped, FS_Subset
<1>2. Recovered \in Seq(Keys) /\ Listed(Recovered) = Listed(prev) \ Failing
  <2> DEFINE P == {i \in DOMAIN prev : prev[i] \notin Failing}
  <2>1. Recovered = Pick(prev, P) /\ prev \in Seq(Keys) /\ P \in SUBSET DOMAIN prev
    BY DEF Recovered, Failing, Bounded
  <2>2. {prev[i] : i \in P} = Listed(prev) \ Failing
    BY DEF Listed
  <2> HIDE DEF P
  <2> QED
    BY <2>1, <2>2, PickIsTyped
<1>3. /\ \A k \in 1 .. m : Nth(Failing, k) \in Failing
      /\ \A k, l \in 1 .. m : k < l => Nth(Failing, k) < Nth(Failing, l)
      /\ \A i \in Failing : \E k \in 1 .. m : Nth(Failing, k) = i
  BY <1>1, NthPosition
<1>4. /\ m \in Nat /\ n \in Nat /\ DOMAIN Recovered = 1 .. n
      /\ \A k \in 1 .. n : Recovered[k] \in Quiet
      /\ \A i \in Listed(prev) \ Failing : \E k \in 1 .. n : Recovered[k] = i
  <2>1. m \in Nat
    BY <1>1, FS_CardinalityType
  <2>2. n \in Nat /\ DOMAIN Recovered = 1 .. n /\ \A k \in 1 .. n : Recovered[k] \in Keys
    BY <1>2
  <2>3. \A k \in 1 .. n : Recovered[k] \in Listed(Recovered)
    BY <2>2 DEF Listed
  <2>4. \A k \in 1 .. n : Recovered[k] \notin Failing
    BY <1>2, <2>3
  <2>5. \A i \in Listed(prev) \ Failing : \E k \in 1 .. n : Recovered[k] = i
    BY <1>2, <2>2 DEF Listed
  <2> QED
    BY <2>1, <2>2, <2>4, <2>5 DEF Quiet
<1>5. T = [k \in 1 .. m |-> Trigger(Nth(Failing, k))]
  <2>1. T = [k \in 1 .. m |-> [o \in Keys |-> Trigger(o)][Nth(Failing, k)]]
    BY <1>1, Picked
  <2> QED
    BY <1>1, <1>3, <2>1
<1>6. R = [k \in 1 .. n |-> Resolve(Recovered[k])]
  BY <1>4
<1> HIDE DEF T, R, m, n
<1>7. /\ T \in Seq(Triggers \cup Resolves) /\ DOMAIN T = 1 .. m
      /\ R \in Seq(Triggers \cup Resolves) /\ DOMAIN R = 1 .. n
  <2>1. \A k \in 1 .. m : Trigger(Nth(Failing, k)) \in Triggers
    BY <1>1, <1>3, EventsAreTyped
  <2>2. \A k \in 1 .. n : Resolve(Recovered[k]) \in Resolves
    BY <1>1, <1>4, EventsAreTyped
  <2> QED
    BY <1>4, <1>5, <1>6, <2>1, <2>2
<1>8. evs = T \o R
  BY DEF T, R
<1> DEFINE o(k) == Len(T) + k
<1>9. /\ evs \in Seq(Triggers \cup Resolves)
      /\ \A i \in 1 .. m : i \in DOMAIN evs /\ evs[i] = T[i]
      /\ \A k \in 1 .. n : o(k) \in DOMAIN evs /\ evs[o(k)] = R[k]
      /\ \A i \in DOMAIN evs : i \in 1 .. m \/ \E k \in 1 .. n : i = o(k)
  <2> DEFINE E == Triggers \cup Resolves
  <2>1. T \in Seq(E) /\ R \in Seq(E)
    BY <1>7
  <2> HIDE DEF E
  <2>2. /\ T \o R \in Seq(E) /\ DOMAIN T \subseteq DOMAIN (T \o R)
        /\ \A i \in DOMAIN T : (T \o R)[i] = T[i]
        /\ \A i \in DOMAIN R : Len(T) + i \in DOMAIN (T \o R) /\ (T \o R)[Len(T) + i] = R[i]
        /\ \A i \in DOMAIN (T \o R) : i \in DOMAIN T \/ \E k \in DOMAIN R : i = Len(T) + k
    BY <2>1, Joined
  <2> QED
    BY <1>7, <1>8, <2>2 DEF E
<1> HIDE DEF o
<1>10. \A i \in 1 .. m : i \in DOMAIN evs /\ evs[i] = Trigger(Nth(Failing, i))
  BY <1>5, <1>9
<1>11. \A k \in 1 .. n : o(k) \in DOMAIN evs /\ evs[o(k)] = Resolve(Recovered[k])
  BY <1>6, <1>9
<1>12. \A i \in DOMAIN evs : i \in 1 .. m \/ \E k \in 1 .. n : i = o(k)
  BY <1>9
<1>13. \A i \in DOMAIN evs : \/ i \in 1 .. m /\ evs[i] = Trigger(Nth(Failing, i))
                             \/ \E k \in 1 .. n : i = o(k) /\ evs[i] = Resolve(Recovered[k])
  BY <1>10, <1>11, <1>12
<1>14. \A k : /\ Trigger(k).key = k /\ Resolve(k).key = k
              /\ Trigger(k).action = "trigger" /\ Resolve(k).action = "resolve"
  BY DEF Trigger, Resolve
<1>15. ASSUME NEW i \in DOMAIN evs, NEW j \in DOMAIN evs, i # j, evs[i].key = evs[j].key
       PROVE  evs[i].action = "resolve"
  <2>1. \A k, l \in 1 .. m : Nth(Failing, k) = Nth(Failing, l) => k = l
    <3>1. \A k, l \in 1 .. m : k < l \/ l < k \/ k = l
      BY <1>4
    <3>2. \A k \in 1 .. m : Nth(Failing, k) \in Nat
      BY <1>1, <1>3
    <3> QED
      BY <1>3, <3>1, <3>2
  <2>2. \/ i \in 1 .. m /\ evs[i].key = Nth(Failing, i)
        \/ evs[i].action = "resolve"
    BY <1>13, <1>14
  <2>3. \/ j \in 1 .. m /\ evs[j].key = Nth(Failing, j)
        \/ evs[j].key \in Quiet
    <3>1. CASE j \in 1 .. m /\ evs[j] = Trigger(Nth(Failing, j))
      BY <1>14, <3>1
    <3>2. ASSUME NEW k \in 1 .. n, evs[j] = Resolve(Recovered[k]) PROVE evs[j].key \in Quiet
      BY <1>4, <1>14, <3>2
    <3> QED
      BY <1>13, <3>1, <3>2
  <2> QED
    BY <1>1, <1>3, <1>15, <2>1, <2>2, <2>3
<1>16. \A i \in DOMAIN evs : \/ \E k \in Failing : evs[i] = Trigger(k)
                             \/ \E k \in Quiet : evs[i] = Resolve(k)
  BY <1>3, <1>4, <1>13
<1>17. \A k \in Failing : \E i \in DOMAIN evs : evs[i] = Trigger(k)
  BY <1>3, <1>10
<1>18. \A k \in Listed(prev) \ Failing : \E i \in DOMAIN evs : evs[i] = Resolve(k)
  BY <1>4, <1>11
<1> QED
  BY <1>9, <1>15, <1>16, <1>17, <1>18

-----------------------------------------------------------------------------
(***************************************************************************)
(* The steps.                                                              *)
(***************************************************************************)
LEMMA HealthyIsTyped ==
  /\ Healthy \in [Keys -> (SUBSET Status) \ {{}}]
  /\ Nothing \in [Keys -> Notified \cup {None}] /\ \A k \in Keys : Nothing[k] = None
<1>1. {"OK"} \in (SUBSET Status) \ {{}}
  BY DEF Status
<1> QED
  BY <1>1 DEF Healthy, Nothing

LEMMA InitIInv == Init => IInv
<1> SUFFICES ASSUME Init PROVE IInv
  OBVIOUS
<1>1. Bounded
  <2>1. open \in [Providers -> SUBSET Keys] /\ events \in Seq(Triggers \cup Resolves)
    BY DEF Init
  <2>2. record \in Seq(Keys) /\ prev \in Seq(Keys)
    BY DEF Init
  <2> QED
    BY <2>1, <2>2, HealthyIsTyped DEF Init, Bounded
<1>2. Planned /\ PagedSoFar /\ MemoryAgrees
  BY DEF Init, Planned, PagedSoFar, MemoryAgrees
<1>3. ToldIsOpen
  BY HealthyIsTyped DEF Init, ToldIsOpen
<1> QED
  BY <1>1, <1>2, <1>3 DEF IInv

\* A step that touches no memory, alert or event, of an invocation or not.
LEMMA QuietKeeps ==
  ASSUME IInv, Bounded', UNCHANGED <<cfg, memory, open, told, events, state>>,
         "fault" \in mishaps' <=> "fault" \in mishaps,
         \/ UNCHANGED <<pc, dry, found, prev>>
         \/ pc # "sending" /\ pc' # "sending" /\ (pc' = "idle" => ~dry')
  PROVE  IInv'
<1>1. ToldIsOpen'
  BY DEF IInv, ToldIsOpen, Serves, routed, labelsOK
<1>2. CASE UNCHANGED <<pc, dry, found, prev>>
  <2>1. Failing' = Failing /\ Quiet' = Quiet
    BY <1>2 DEF Failing, Quiet, ProblemKeys
  <2>2. \A k : Trigger(k)' = Trigger(k) /\ Resolve(k)' = Resolve(k)
    BY <1>2 DEF Trigger, Resolve, PlannedSeverity
  <2>3. \A e : Unrouted(e)' <=> Unrouted(e)
    BY DEF Unrouted, Match, Covers, routed, labelsOK
  <2>4. Planned'
    BY <1>2, <2>1, <2>2 DEF IInv, Planned
  <2>5. MemoryAgrees'
    BY <1>2 DEF IInv, MemoryAgrees, Remembers, routed
  <2>6. PagedSoFar'
    BY <1>2, <2>1, <2>2, <2>3 DEF IInv, PagedSoFar
  <2> QED
    BY <1>1, <2>4, <2>5, <2>6 DEF IInv
<1>3. CASE pc # "sending" /\ pc' # "sending" /\ (pc' = "idle" => ~dry')
  <2>1. events = <<>> /\ events' = <<>>
    BY <1>3 DEF IInv, Planned
  <2>2. Planned' /\ PagedSoFar'
    BY <1>3, <2>1 DEF Planned, PagedSoFar
  <2>3. MemoryAgrees'
    BY <1>3, <2>1 DEF IInv, MemoryAgrees, Remembers, routed
  <2> QED
    BY <1>1, <2>2, <2>3 DEF IInv
<1> QED
  BY <1>2, <1>3

LEMMA WorldKeeps ==
  ASSUME IInv, CheckAppends \/ \E k \in Keys : \E statuses \in Findable[k] : Drift(k, statuses)
  PROVE  IInv'
<1>1. UNCHANGED <<cfg, memory, open, told, events, state, pc, dry, found, prev>>
  BY DEF Drift, CheckAppends, files, local
<1>2. /\ record' \in Seq(Keys)
      /\ mishaps' \subseteq {"fault", "history"} /\ ("fault" \in mishaps' <=> "fault" \in mishaps)
  <2>1. record' = record \/ record' = Entries(fleet)
    BY DEF Drift, CheckAppends, files
  <2>2. record' \in Seq(Keys)
    BY <2>1, EntriesAreTyped DEF IInv, Bounded
  <2>3. mishaps' = mishaps \/ mishaps' = mishaps \cup {"history"}
    BY DEF Drift, CheckAppends, Amiss
  <2> QED
    BY <2>2, <2>3 DEF IInv, Bounded
<1>3. fleet' \in [Keys -> (SUBSET Status) \ {{}}]
  <2>1. fleet \in [Keys -> (SUBSET Status) \ {{}}]
    BY DEF IInv, Bounded
  <2>2. CASE CheckAppends
    BY <2>1, <2>2 DEF CheckAppends
  <2>3. ASSUME NEW k \in Keys, NEW statuses \in Findable[k], Drift(k, statuses)
        PROVE  fleet' \in [Keys -> (SUBSET Status) \ {{}}]
    <3>1. statuses \in (SUBSET Status) \ {{}}
      BY FindableAssumption
    <3>2. fleet' = [fleet EXCEPT ![k] = statuses]
      BY <2>3 DEF Drift
    <3> QED
      BY <2>1, <3>1, <3>2
  <2> QED
    BY <2>2, <2>3
<1>4. Bounded'
  BY <1>1, <1>2, <1>3 DEF IInv, Bounded
<1> QED
  BY <1>1, <1>2, <1>4, QuietKeeps

LEMMA RunKeeps ==
  ASSUME IInv, ReadPrevious \/ AppendRecord \/ \E d \in BOOLEAN : RunChecks(d)
  PROVE  IInv'
<1>1. UNCHANGED <<cfg, fleet, memory, open, told, events, state>>
  BY DEF RunChecks, ReadPrevious, AppendRecord, files, local
<1>2. pc # "sending" /\ pc' \in {"read", "append", "plan"}
  BY DEF RunChecks, ReadPrevious, AppendRecord
<1>3. mishaps' \subseteq {"fault", "history"} /\ ("fault" \in mishaps' <=> "fault" \in mishaps)
  <2>1. mishaps' = mishaps \/ mishaps' = mishaps \cup {"history"}
    BY DEF RunChecks, ReadPrevious, AppendRecord, Amiss
  <2> QED
    BY <2>1 DEF IInv, Bounded
<1>4. record' \in Seq(Keys) /\ prev' \in Seq(Keys) /\ dry' \in BOOLEAN /\ found' \in [Keys -> (SUBSET Status) \ {{}}]
  <2>1. /\ record' = record \/ record' = Entries(found)
        /\ prev' = prev \/ prev' = record \/ prev' = <<>>
        /\ dry' = dry \/ dry' \in BOOLEAN
        /\ found' = found \/ found' = fleet
    BY DEF RunChecks, ReadPrevious, AppendRecord, files, local
  <2>2. <<>> \in Seq(Keys)
    OBVIOUS
  <2> QED
    BY <2>1, <2>2, EntriesAreTyped DEF IInv, Bounded
<1>5. Bounded'
  BY <1>1, <1>2, <1>3, <1>4 DEF IInv, Bounded
<1> QED
  BY <1>1, <1>2, <1>3, <1>5, QuietKeeps

LEMMA AgeKeeps == ASSUME IInv, Age PROVE IInv'
<1>1. pc = "idle" /\ UNCHANGED <<cfg, fleet, record, open, pc, dry, found, prev, events, state, mishaps>>
  BY DEF Age, local
<1>2. memory' = Older(memory) /\ told' = Older(told)
  BY DEF Age
<1>3. /\ memory' \in [Keys -> Notified \cup {None}] /\ told' \in [Keys -> Notified \cup {None}]
      /\ \A k \in Keys : told'[k] # None <=> told[k] # None
  BY <1>2, OlderIsTyped DEF IInv, Bounded
<1>4. Bounded'
  BY <1>1, <1>3 DEF IInv, Bounded
<1>5. events' = <<>> /\ pc' = "idle" /\ ~dry'
  BY <1>1 DEF IInv, Planned
<1>6. Planned' /\ PagedSoFar'
  BY <1>5 DEF Planned, PagedSoFar
<1>7. ToldIsOpen'
  BY <1>1, <1>3 DEF IInv, ToldIsOpen, Serves, routed, labelsOK
<1>8. MemoryAgrees'
  <2>1. Remembers' => memory = told
    BY <1>1 DEF IInv, MemoryAgrees, Remembers, routed
  <2> QED
    BY <1>2, <1>5, <2>1 DEF MemoryAgrees
<1> QED
  BY <1>4, <1>6, <1>7, <1>8 DEF IInv

LEMMA PlanKeeps == ASSUME IInv, PlanEvents PROVE IInv'
<1>1. pc = "plan" /\ pc' = "sending" /\ UNCHANGED <<cfg, fleet, record, memory, open, told, dry, found, prev, mishaps>>
  BY DEF PlanEvents, files
<1>2. Failing' = Failing /\ Quiet' = Quiet /\ \A k : Trigger(k)' = Trigger(k) /\ Resolve(k)' = Resolve(k)
  BY <1>1 DEF Failing, Quiet, ProblemKeys, Trigger, Resolve, PlannedSeverity
<1>3. /\ events' \in Seq(Triggers \cup Resolves)
      /\ \A i, j \in DOMAIN events' :
           i # j /\ events'[i].key = events'[j].key => events'[i].action = "resolve"
      /\ \A i \in DOMAIN events' : \/ \E k \in Failing : events'[i] = Trigger(k)
                                   \/ \E k \in Quiet : events'[i] = Resolve(k)
      /\ \A k \in Failing : \E i \in DOMAIN events' : events'[i] = Trigger(k)
  <2> DEFINE evs == Pick([k \in Keys |-> Trigger(k)], Failing)
                     \o [i \in DOMAIN Recovered |-> Resolve(Recovered[i])]
  <2>1. events' = evs
    BY DEF PlanEvents
  <2>2. /\ evs \in Seq(Triggers \cup Resolves)
        /\ \A i, j \in DOMAIN evs : i # j /\ evs[i].key = evs[j].key => evs[i].action = "resolve"
        /\ \A i \in DOMAIN evs : \/ \E k \in Failing : evs[i] = Trigger(k)
                                 \/ \E k \in Quiet : evs[i] = Resolve(k)
        /\ \A k \in Failing : \E i \in DOMAIN evs : evs[i] = Trigger(k)
    BY PlannedEvents, Zenon DEF IInv
  <2> HIDE DEF evs
  <2> QED
    BY <2>1, <2>2, Zenon
<1>4. state' = IF routed /\ cfg.state THEN memory ELSE Nothing
  BY DEF PlanEvents
<1>5. Bounded'
  <2>1. state' \in [Keys -> Notified \cup {None}]
    BY <1>4, HealthyIsTyped DEF IInv, Bounded
  <2> QED
    BY <1>1, <1>3, <2>1 DEF IInv, Bounded
<1>6. Planned'
  BY <1>1, <1>2, <1>3 DEF Planned
<1>7. ToldIsOpen'
  BY <1>1 DEF IInv, ToldIsOpen, Serves, routed, labelsOK
<1>8. MemoryAgrees'
  <2>1. \A i \in DOMAIN events' : events'[i].key \in Keys
    <3>1. \A e \in Triggers \cup Resolves : e.key \in Keys
      BY DEF Triggers, Resolves
    <3> QED
      BY <1>3, <3>1
  <2>2. ~(routed /\ cfg.state) => \A i \in DOMAIN events' : state'[events'[i].key] = None
    BY <1>4, <2>1, HealthyIsTyped
  <2>3. Remembers' => memory' = told' /\ state' = memory'
    BY <1>1, <1>4 DEF IInv, MemoryAgrees, Remembers, routed
  <2> QED
    BY <1>1, <2>2, <2>3 DEF MemoryAgrees, routed
<1>9. PagedSoFar'
  BY <1>2, <1>3 DEF PagedSoFar
<1> QED
  BY <1>5, <1>6, <1>7, <1>8, <1>9 DEF IInv

\* What is sent opens an alert at a service of its key, or closes one of a key that
\* is told no more.
LEMMA DeliveryKeeps ==
  ASSUME IInv, NEW e \in Triggers \cup Resolves, ~Unrouted(e), cfg' = cfg,
         open' = Delivered(e), told' = Told(e)
  PROVE  /\ open' \in [Providers -> SUBSET Keys] /\ told' \in [Keys -> Notified \cup {None}]
         /\ ToldIsOpen'
         /\ \A k \in Keys : (\E p \in Providers : k \in open[p]) =>
              \/ \E p \in Providers : k \in open'[p]
              \/ e.action = "resolve" /\ e.key = k
         /\ e.action = "trigger" => \E p \in Providers : e.key \in open'[p]
<1> DEFINE p == ProviderOf(e)
<1>1. e.key \in Keys /\ e.action \in {"trigger", "resolve"}
  BY DEF Triggers, Resolves
<1>2. p \in Providers /\ Serves(p, e.key)
  BY <1>1, ServedByProvider DEF IInv
<1> HIDE DEF p
<1>3. open \in [Providers -> SUBSET Keys] /\ told \in [Keys -> Notified \cup {None}]
  BY DEF IInv, Bounded
<1>4. \A o, k : Serves(o, k)' <=> Serves(o, k)
  BY DEF Serves, routed, labelsOK
<1>5. CASE e.action = "trigger"
  <2>1. open' = [open EXCEPT ![p] = @ \cup {e.key}]
    BY <1>5 DEF Delivered, p
  <2>2. /\ open' \in [Providers -> SUBSET Keys] /\ open'[p] = open[p] \cup {e.key}
        /\ \A q \in Providers \ {p} : open'[q] = open[q]
    BY <1>1, <1>2, <1>3, <2>1
  <2>3. e.severity \in Status
    BY <1>5 DEF Triggers, Resolves, Status
  <2>4. [age |-> 0, status |-> e.severity] \in Notified
    BY <2>3 DEF Notified
  <2>5. told' = [told EXCEPT ![e.key] = [age |-> 0, status |-> e.severity]]
    BY <1>5 DEF Told
  <2>6. told' \in [Keys -> Notified \cup {None}] /\ \A k \in Keys \ {e.key} : told'[k] = told[k]
    BY <1>1, <1>3, <2>4, <2>5
  <2>7. \A q \in Providers : open[q] \subseteq open'[q]
    BY <2>2
  <2>8. \A k \in Keys : told'[k] # None => \E q \in Providers : k \in open'[q]
    BY <1>2, <2>2, <2>6, <2>7 DEF IInv, ToldIsOpen
  <2>9. \A q \in Providers : \A k \in open'[q] : Serves(q, k)
    BY <1>2, <2>2 DEF IInv, ToldIsOpen
  <2>10. ToldIsOpen'
    BY <1>4, <2>8, <2>9 DEF ToldIsOpen
  <2> QED
    BY <1>2, <2>2, <2>6, <2>7, <2>10
<1>6. CASE e.action = "resolve"
  <2>1. open' = [open EXCEPT ![p] = @ \ {e.key}] \/ open' = open
    BY <1>6 DEF Delivered, p
  <2>2. /\ open' \in [Providers -> SUBSET Keys] /\ \A q \in Providers : open'[q] \subseteq open[q]
        /\ \A q \in Providers : \A k \in open[q] : k # e.key => k \in open'[q]
    BY <1>2, <1>3, <2>1
  <2>3. told' = [told EXCEPT ![e.key] = None]
    BY <1>6 DEF Told
  <2>4. told' \in [Keys -> Notified \cup {None}] /\ told'[e.key] = None /\ \A k \in Keys \ {e.key} : told'[k] = told[k]
    BY <1>1, <1>3, <2>3
  <2>5. \A k \in Keys : told'[k] # None => \E q \in Providers : k \in open'[q]
    BY <2>2, <2>4 DEF IInv, ToldIsOpen
  <2>6. \A q \in Providers : \A k \in open'[q] : Serves(q, k)
    BY <2>2 DEF IInv, ToldIsOpen
  <2>7. ToldIsOpen'
    BY <1>4, <2>5, <2>6 DEF ToldIsOpen
  <2> QED
    BY <1>6, <2>2, <2>4, <2>7
<1> QED
  BY <1>1, <1>5, <1>6

\* A trigger that comes next is of a key that no event after it has.
LEMMA NextEvent ==
  ASSUME IInv, events # <<>>
  PROVE  /\ pc = "sending" /\ Head(events) \in Triggers \cup Resolves /\ Head(events).key \in Keys
         /\ Head(events) = events[1] /\ 1 \in DOMAIN events
         /\ \/ \E k \in Failing : Head(events) = Trigger(k)
            \/ \E k \in Quiet : Head(events) = Resolve(k)
         /\ Tail(events) \in Seq(Triggers \cup Resolves)
         /\ \A i \in DOMAIN Tail(events) : \E j \in DOMAIN events : Tail(events)[i] = events[j]
         /\ \A i \in DOMAIN Tail(events) :
              /\ Tail(events)[i].key \in Keys
              /\ Head(events).action = "trigger" => Tail(events)[i].key # Head(events).key
         /\ \A i, j \in DOMAIN Tail(events) :
              i # j /\ Tail(events)[i].key = Tail(events)[j].key => Tail(events)[i].action = "resolve"
         /\ \A i \in DOMAIN events : events[i] = Head(events)
                                       \/ \E j \in DOMAIN Tail(events) : Tail(events)[j] = events[i]
<1> DEFINE E == Triggers \cup Resolves
<1>1. events \in Seq(E) /\ \A e \in E : e.key \in Keys
  BY DEF IInv, Bounded, Triggers, Resolves
<1> HIDE DEF E
<1>2. /\ Tail(events) \in Seq(E) /\ Head(events) = events[1] /\ 1 \in DOMAIN events
      /\ \A i \in DOMAIN Tail(events) :
           i + 1 \in DOMAIN events /\ i + 1 # 1 /\ Tail(events)[i] = events[i + 1] /\ i \in Nat
      /\ \A i \in DOMAIN events \ {1} : i - 1 \in DOMAIN Tail(events) /\ Tail(events)[i - 1] = events[i]
  BY <1>1, TailOf
<1>3. \A i \in DOMAIN events : events[i] \in E
  BY <1>1
<1>4. pc = "sending"
  BY DEF IInv, Planned
<1>5. \A i, j \in DOMAIN events : i # j /\ events[i].key = events[j].key => events[i].action = "resolve"
  BY DEF IInv, Planned
<1>6. \A i \in DOMAIN Tail(events) :
        /\ Tail(events)[i].key \in Keys
        /\ Head(events).action = "trigger" => Tail(events)[i].key # Head(events).key
  BY <1>1, <1>2, <1>3, <1>5
<1>7. \A i, j \in DOMAIN Tail(events) :
        i # j /\ Tail(events)[i].key = Tail(events)[j].key => Tail(events)[i].action = "resolve"
  <2> SUFFICES ASSUME NEW i \in DOMAIN Tail(events), NEW j \in DOMAIN Tail(events),
                      i # j, Tail(events)[i].key = Tail(events)[j].key
               PROVE  Tail(events)[i].action = "resolve"
    OBVIOUS
  <2>1. i + 1 # j + 1 /\ i + 1 \in DOMAIN events /\ j + 1 \in DOMAIN events
    BY <1>2
  <2>2. Tail(events)[i] = events[i + 1] /\ Tail(events)[j] = events[j + 1]
    BY <1>2
  <2> QED
    BY <1>5, <2>1, <2>2
<1>8. \A i \in DOMAIN events : events[i] = Head(events)
                                 \/ \E j \in DOMAIN Tail(events) : Tail(events)[j] = events[i]
  BY <1>2
<1>9. \/ \E k \in Failing : Head(events) = Trigger(k)
      \/ \E k \in Quiet : Head(events) = Resolve(k)
  BY <1>2 DEF IInv, Planned
<1>10. \A i \in DOMAIN Tail(events) : \E j \in DOMAIN events : Tail(events)[i] = events[j]
  BY <1>2
<1> QED
  BY <1>1, <1>2, <1>3, <1>4, <1>6, <1>7, <1>8, <1>9, <1>10 DEF E

\* What handling an event leaves of the plan.
LEMMA PlanShrinks ==
  ASSUME IInv, events # <<>>, events' = Tail(events),
         UNCHANGED <<cfg, fleet, record, memory, pc, dry, found, prev, mishaps>>
  PROVE  /\ Planned' /\ events' \in Seq(Triggers \cup Resolves)
         /\ Failing' = Failing /\ Quiet' = Quiet
         /\ \A k : Trigger(k)' = Trigger(k) /\ Resolve(k)' = Resolve(k)
         /\ \A e : Unrouted(e)' <=> Unrouted(e)
<1>1. Failing' = Failing /\ Quiet' = Quiet /\ \A k : Trigger(k)' = Trigger(k) /\ Resolve(k)' = Resolve(k)
  BY DEF Failing, Quiet, ProblemKeys, Trigger, Resolve, PlannedSeverity
<1>2. \A e : Unrouted(e)' <=> Unrouted(e)
  BY DEF Unrouted, Match, Covers, routed, labelsOK
<1>3. pc' = "sending" /\ events' \in Seq(Triggers \cup Resolves)
  BY NextEvent
<1>4. \A i, j \in DOMAIN events' :
        i # j /\ events'[i].key = events'[j].key => events'[i].action = "resolve"
  BY NextEvent
<1>5. \A i \in DOMAIN events' : \/ \E k \in Failing : events'[i] = Trigger(k)
                                \/ \E k \in Quiet : events'[i] = Resolve(k)
  BY NextEvent DEF IInv, Planned
<1> QED
  BY <1>1, <1>2, <1>3, <1>4, <1>5 DEF Planned

LEMMA KeysOfEvents == \A k : /\ Trigger(k).key = k /\ Trigger(k).action = "trigger"
                             /\ Resolve(k).key = k /\ Resolve(k).action = "resolve"
BY DEF Trigger, Resolve

LEMMA HeldIsRemembered == \A e : Held(e) => routed /\ e.action = "trigger" /\ state[e.key] # None
BY DEF Held, Decide

\* Passing over an event pages nobody, and nobody who should be paged is missed:
\* what is held is remembered, so it was told, so its alert is open.
LEMMA PassOverKeeps == ASSUME IInv, PassOver PROVE IInv'
<1> DEFINE e == Head(events)
<1>1. /\ pc = "sending" /\ events # <<>> /\ (Held(e) \/ Unrouted(e)) /\ events' = Tail(events)
      /\ UNCHANGED <<cfg, fleet, record, memory, open, told, pc, dry, found, prev, state, mishaps>>
  BY DEF PassOver, files
<1>2. /\ Planned' /\ events' \in Seq(Triggers \cup Resolves) /\ Failing' = Failing
      /\ \A k : Trigger(k)' = Trigger(k) /\ \A o : Unrouted(o)' <=> Unrouted(o)
  BY <1>1, PlanShrinks
<1>3. Bounded'
  BY <1>1, <1>2 DEF IInv, Bounded
<1>4. ToldIsOpen'
  BY <1>1 DEF IInv, ToldIsOpen, Serves, routed, labelsOK
<1>5. MemoryAgrees'
  <2>1. ~(routed /\ cfg.state) => \A i \in DOMAIN events' : state'[events'[i].key] = None
    BY <1>1, NextEvent DEF IInv, MemoryAgrees
  <2>2. Remembers' => IF pc' = "sending" /\ ~dry' THEN state' = told' ELSE memory' = told'
    BY <1>1 DEF IInv, MemoryAgrees, Remembers, routed
  <2> QED
    BY <1>1, <2>1, <2>2 DEF MemoryAgrees, routed
<1>6. PagedSoFar'
  <2> SUFFICES ASSUME ~dry, ~cfg.state \/ "fault" \notin mishaps, NEW k \in Failing
               PROVE  \/ \E p \in Providers : k \in open[p]
                      \/ \E i \in DOMAIN events' : events'[i] = Trigger(k)
                      \/ Unrouted(Trigger(k))
    BY <1>1, <1>2 DEF PagedSoFar
  <2>1. \/ \E p \in Providers : k \in open[p]
        \/ \E i \in DOMAIN events : events[i] = Trigger(k)
        \/ Unrouted(Trigger(k))
    BY <1>1 DEF IInv, PagedSoFar
  <2>2. CASE \E i \in DOMAIN events : events[i] = Trigger(k)
    <3>1. Trigger(k) = e \/ \E j \in DOMAIN Tail(events) : Tail(events)[j] = Trigger(k)
      BY <1>1, <2>2, NextEvent
    <3>2. CASE Trigger(k) = e /\ Held(e)
      <4>1. routed /\ state[k] # None
        BY <3>2, HeldIsRemembered, KeysOfEvents
      <4>2. ~(routed /\ cfg.state) => state[k] = None
        BY <2>2, KeysOfEvents DEF IInv, MemoryAgrees
      <4>3. Remembers
        BY <4>1, <4>2 DEF Remembers
      <4>4. told[k] # None
        BY <1>1, <4>1, <4>3 DEF IInv, MemoryAgrees
      <4>5. k \in Keys
        BY EventsAreTyped DEF IInv
      <4> QED
        BY <4>4, <4>5 DEF IInv, ToldIsOpen
    <3>3. CASE Trigger(k) = e /\ Unrouted(e)
      BY <3>3
    <3> QED
      BY <1>1, <3>1, <3>2, <3>3
  <2> QED
    BY <2>1, <2>2
<1> QED
  BY <1>2, <1>3, <1>4, <1>5, <1>6 DEF IInv

LEMMA ForgottenIsTyped ==
  ASSUME IInv, NEW e \in Triggers \cup Resolves
  PROVE  /\ Forgotten(e) \in [Keys -> Notified \cup {None}]
         /\ \A k \in Keys : k # e.key => Forgotten(e)[k] = state[k]
         /\ e.action = "resolve" => \A k \in Keys : Forgotten(e)[k] \in {state[k], None}
<1>1. e.key \in Keys /\ state \in [Keys -> Notified \cup {None}]
  BY DEF Triggers, Resolves, IInv, Bounded
<1>2. Forgotten(e) = state \/ Forgotten(e) = [state EXCEPT ![e.key] = None]
  BY DEF Forgotten
<1> QED
  BY <1>1, <1>2

LEMMA PrintKeeps == ASSUME IInv, PrintEvent PROVE IInv'
<1> DEFINE e == Head(events)
<1>1. /\ pc = "sending" /\ events # <<>> /\ dry /\ events' = Tail(events) /\ state' = Forgotten(e)
      /\ UNCHANGED <<cfg, fleet, record, memory, open, told, pc, dry, found, prev, mishaps>>
  BY DEF PrintEvent, ToSend, files
<1>2. Planned' /\ events' \in Seq(Triggers \cup Resolves)
  BY <1>1, PlanShrinks
<1>3. e \in Triggers \cup Resolves
  BY <1>1, NextEvent
<1>4. /\ state' \in [Keys -> Notified \cup {None}] /\ \A k \in Keys : k # e.key => state'[k] = state[k]
      /\ e.action = "resolve" => \A k \in Keys : state'[k] \in {state[k], None}
  BY <1>1, <1>3, ForgottenIsTyped
<1>5. Bounded'
  BY <1>1, <1>2, <1>4 DEF IInv, Bounded
<1>6. ToldIsOpen'
  BY <1>1 DEF IInv, ToldIsOpen, Serves, routed, labelsOK
<1>7. MemoryAgrees'
  <2>1. ASSUME ~(routed /\ cfg.state), NEW i \in DOMAIN events' PROVE state'[events'[i].key] = None
    <3>1. /\ events'[i].key \in Keys /\ \E j \in DOMAIN events : events'[i] = events[j]
          /\ e.action = "trigger" => events'[i].key # e.key
      BY <1>1, NextEvent
    <3>2. state[events'[i].key] = None
      BY <2>1, <3>1 DEF IInv, MemoryAgrees
    <3>3. e.action \in {"trigger", "resolve"}
      BY <1>3 DEF Triggers, Resolves
    <3> QED
      BY <1>4, <3>1, <3>2, <3>3
  <2>2. Remembers' => memory' = told'
    BY <1>1 DEF IInv, MemoryAgrees, Remembers, routed
  <2> QED
    BY <1>1, <2>1, <2>2 DEF MemoryAgrees, routed
<1>8. PagedSoFar'
  BY <1>1 DEF PagedSoFar
<1> QED
  BY <1>2, <1>5, <1>6, <1>7, <1>8 DEF IInv

\* What is sent is recorded in the copy exactly as it was told.
LEMMA SendKeeps == ASSUME IInv, NEW key \in Keys, Send(key) PROVE IInv'
<1> DEFINE e == Head(events)
<1>1. /\ pc = "sending" /\ events # <<>> /\ ~dry /\ ~Unrouted(e) /\ events' = Tail(events)
      /\ open' = Delivered(e) /\ told' = Told(e) /\ state' = Recorded(e, Forgotten(e))
      /\ UNCHANGED <<cfg, fleet, record, memory, pc, dry, found, prev, mishaps>>
  BY DEF Send, ToSend, files
<1>2. /\ Planned' /\ events' \in Seq(Triggers \cup Resolves) /\ Failing' = Failing
      /\ \A k : Trigger(k)' = Trigger(k) /\ \A o : Unrouted(o)' <=> Unrouted(o)
  BY <1>1, PlanShrinks
<1>3. /\ e \in Triggers \cup Resolves /\ e.key \in Keys
      /\ (\E k \in Failing : e = Trigger(k)) \/ (\E k \in Quiet : e = Resolve(k))
  BY <1>1, NextEvent
<1>4. /\ open' \in [Providers -> SUBSET Keys] /\ told' \in [Keys -> Notified \cup {None}]
      /\ ToldIsOpen'
      /\ \A k \in Keys : (\E p \in Providers : k \in open[p]) =>
           (\E p \in Providers : k \in open'[p]) \/ (e.action = "resolve" /\ e.key = k)
      /\ e.action = "trigger" => \E p \in Providers : e.key \in open'[p]
  BY <1>1, <1>3, DeliveryKeeps
<1>5. /\ Forgotten(e) \in [Keys -> Notified \cup {None}] /\ \A k \in Keys : k # e.key => Forgotten(e)[k] = state[k]
      /\ e.action = "resolve" => \A k \in Keys : Forgotten(e)[k] \in {state[k], None}
  BY <1>3, ForgottenIsTyped
<1>6. /\ state' \in [Keys -> Notified \cup {None}] /\ \A k \in Keys : k # e.key => state'[k] = state[k]
      /\ e.action = "resolve" => \A k \in Keys : state'[k] \in {state[k], None}
  <2>1. CASE e.action = "trigger" /\ routed
    <3>1. [age |-> 0, status |-> e.severity] \in Notified
      BY <1>3, <2>1 DEF Triggers, Resolves, Notified, Status
    <3>2. state' = [Forgotten(e) EXCEPT ![e.key] = [age |-> 0, status |-> e.severity]]
      BY <1>1, <2>1 DEF Recorded
    <3> QED
      BY <1>3, <1>5, <2>1, <3>1, <3>2
  <2>2. CASE ~(e.action = "trigger" /\ routed)
    BY <1>1, <1>5, <2>2 DEF Recorded
  <2> QED
    BY <2>1, <2>2
<1>7. Bounded'
  BY <1>1, <1>2, <1>4, <1>6 DEF IInv, Bounded
<1>8. MemoryAgrees'
  <2>1. ASSUME ~(routed /\ cfg.state), NEW i \in DOMAIN events' PROVE state'[events'[i].key] = None
    <3>1. events'[i].key \in Keys /\ (e.action = "trigger" => events'[i].key # e.key)
      BY <1>1, NextEvent
    <3>2. \E j \in DOMAIN events : events'[i] = events[j]
      BY <1>1, NextEvent
    <3>3. state[events'[i].key] = None
      BY <2>1, <3>2 DEF IInv, MemoryAgrees
    <3>4. e.action \in {"trigger", "resolve"}
      BY <1>3 DEF Triggers, Resolves
    <3> QED
      BY <1>6, <3>1, <3>3, <3>4
  <2>2. Remembers' => state' = told'
    <3> SUFFICES ASSUME routed, cfg.state, "fault" \notin mishaps PROVE state' = told'
      BY <1>1 DEF Remembers, routed
    <3>1. state = told
      BY <1>1 DEF IInv, MemoryAgrees, Remembers
    <3>2. CASE e.action = "trigger"
      BY <1>1, <3>1, <3>2 DEF Recorded, Forgotten, Told
    <3>3. CASE e.action = "resolve"
      BY <1>1, <3>1, <3>3 DEF Recorded, Forgotten, Told
    <3> QED
      BY <1>3, <3>2, <3>3, KeysOfEvents
  <2> QED
    BY <1>1, <2>1, <2>2 DEF MemoryAgrees, routed
<1>9. PagedSoFar'
  <2> SUFFICES ASSUME ~cfg.state \/ "fault" \notin mishaps, NEW k \in Failing
               PROVE  \/ \E p \in Providers : k \in open'[p]
                      \/ \E i \in DOMAIN events' : events'[i] = Trigger(k)
                      \/ Unrouted(Trigger(k))
    BY <1>1, <1>2 DEF PagedSoFar
  <2>1. \/ \E p \in Providers : k \in open[p]
        \/ \E i \in DOMAIN events : events[i] = Trigger(k)
        \/ Unrouted(Trigger(k))
    BY <1>1 DEF IInv, PagedSoFar
  <2>2. k \in Keys /\ k \notin Quiet
    BY EventsAreTyped DEF IInv
  <2>3. CASE \E p \in Providers : k \in open[p]
    <3>1. ~(e.action = "resolve" /\ e.key = k)
      BY <1>3, <2>2, KeysOfEvents
    <3> QED
      BY <1>4, <2>2, <2>3, <3>1
  <2>4. CASE \E i \in DOMAIN events : events[i] = Trigger(k)
    <3>1. Trigger(k) = e \/ \E j \in DOMAIN Tail(events) : Tail(events)[j] = Trigger(k)
      BY <1>1, <2>4, NextEvent
    <3> QED
      BY <1>1, <1>4, <3>1, KeysOfEvents
  <2> QED
    BY <2>1, <2>3, <2>4
<1> QED
  BY <1>2, <1>4, <1>7, <1>8, <1>9 DEF IInv

\* The end of an invocation, well or not: its plan and its copy are gone.
LEMMA EndsKeeps ==
  ASSUME IInv, Ends, memory' \in [Keys -> Notified \cup {None}],
         told' \in [Keys -> Notified \cup {None}], open' \in [Providers -> SUBSET Keys],
         mishaps' \subseteq {"fault", "history"}, ToldIsOpen', Remembers' => memory' = told'
  PROVE  IInv'
<1>1. /\ pc' = "idle" /\ dry' = FALSE /\ found' = Healthy /\ events' = <<>> /\ prev' = <<>> /\ state' = Nothing
      /\ UNCHANGED <<cfg, fleet, record>>
  BY DEF Ends
<1>2. Bounded'
  <2>1. events' \in Seq(Triggers \cup Resolves) /\ prev' \in Seq(Keys)
    BY <1>1
  <2> QED
    BY <1>1, <2>1, HealthyIsTyped DEF IInv, Bounded
<1>3. Planned' /\ MemoryAgrees' /\ PagedSoFar'
  BY <1>1 DEF Planned, MemoryAgrees, PagedSoFar
<1> QED
  BY <1>2, <1>3 DEF IInv

LEMMA OverKeeps ==
  ASSUME IInv, Save \/ Crash \/ StateFileFails \/ \E fate : SendFails(fate)
  PROVE  IInv'
<1>1. ASSUME UNCHANGED <<open, told, cfg>> PROVE ToldIsOpen'
  BY <1>1 DEF IInv, ToldIsOpen, Serves, routed, labelsOK
<1>2. CASE Save
  <2>1. UNCHANGED <<open, told, mishaps, cfg>> /\ Ends
    BY <1>2 DEF Save, Ends
  <2>2. pc = "sending" /\ memory' = IF routed /\ cfg.state /\ ~dry THEN state ELSE memory
    BY <1>2 DEF Save
  <2>3. Remembers' => memory' = told'
    BY <2>1, <2>2 DEF IInv, MemoryAgrees, Remembers, routed
  <2>4. memory' \in [Keys -> Notified \cup {None}]
    BY <2>2 DEF IInv, Bounded
  <2> QED
    BY <1>1, <2>1, <2>3, <2>4, EndsKeeps DEF IInv, Bounded
<1>3. CASE Crash \/ StateFileFails
  <2>1. UNCHANGED <<memory, open, told, cfg>> /\ Ends /\ "fault" \in mishaps' /\ mishaps' \subseteq {"fault", "history"}
    BY <1>3 DEF Crash, StateFileFails, Ends, IInv, Bounded
  <2> QED
    BY <1>1, <2>1, EndsKeeps DEF IInv, Bounded, Remembers
<1>4. ASSUME NEW fate, SendFails(fate) PROVE IInv'
  <2> DEFINE e == Head(events)
  <2>1. /\ UNCHANGED <<memory, cfg>> /\ Ends /\ "fault" \in mishaps' /\ mishaps' \subseteq {"fault", "history"}
        /\ events # <<>> /\ ~Unrouted(e)
        /\ \/ open' = Delivered(e) /\ told' = Told(e)
           \/ UNCHANGED <<open, told>>
    BY <1>4 DEF SendFails, ToSend, Ends, IInv, Bounded
  <2>2. e \in Triggers \cup Resolves
    BY <2>1, NextEvent
  <2>3. ToldIsOpen' /\ told' \in [Keys -> Notified \cup {None}] /\ open' \in [Providers -> SUBSET Keys]
    BY <1>1, <2>1, <2>2, DeliveryKeeps DEF IInv, Bounded
  <2> QED
    BY <2>1, <2>3, EndsKeeps DEF IInv, Bounded, Remembers
<1> QED
  BY <1>2, <1>3, <1>4

LEMMA NextKeeps == IInv /\ [Next]_vars => IInv'
<1> SUFFICES ASSUME IInv, [Next]_vars PROVE IInv'
  OBVIOUS
<1>1. CASE Next
  BY <1>1, WorldKeeps, AgeKeeps, RunKeeps, PlanKeeps, PassOverKeeps, PrintKeeps, SendKeeps, OverKeeps DEF Next, Work
<1>2. CASE UNCHANGED vars
  <2>1. UNCHANGED <<cfg, fleet, record, memory, open, told, pc, dry, found, prev, events, state, mishaps>>
    BY <1>2 DEF vars, files, local
  <2>2. Bounded'
    BY <2>1 DEF IInv, Bounded
  <2> QED
    BY <2>1, <2>2, QuietKeeps
<1> QED
  BY <1>1, <1>2

\* The inductive invariant holds of every state of the alert command.
THEOREM Invariance == Spec => []IInv
BY InitIInv, NextKeeps, PTL DEF Spec

\* Every variable keeps its type, and in one plan no key is triggered twice, or both
\* triggered and resolved.
THEOREM TypeCorrect == Spec => []TypeOK
<1>1. IInv => TypeOK
  <2> SUFFICES ASSUME IInv PROVE TypeOK
    OBVIOUS
  <2>1. \A f \in {fleet, found} : DOMAIN f = Keys /\ \A k \in Keys : f[k] \in (SUBSET Status) \ {{}}
    BY DEF IInv, Bounded
  <2>2. \A i \in DOMAIN events : events[i].action \in {"trigger", "resolve"} /\ events[i].key \in Keys
    <3>1. \A e \in Triggers \cup Resolves : e.action \in {"trigger", "resolve"} /\ e.key \in Keys
      BY DEF Triggers, Resolves
    <3> QED
      BY <3>1 DEF IInv, Bounded
  <2>3. \A i, j \in DOMAIN events :
          i # j /\ events[i].key = events[j].key => events[i].action = "resolve"
    BY DEF IInv, Planned
  <2>4. \A f \in {memory, state, told} : f \in [Keys -> Notified \cup {None}]
    BY DEF IInv, Bounded
  <2> QED
    BY <2>1, <2>2, <2>3, <2>4 DEF IInv, Bounded, TypeOK
<1> QED
  BY <1>1, Invariance, PTL

\* An invocation that ends well leaves an alert open for every problem it found that
\* some route covers: no held or unmatched event keeps a later one from going out.
THEOREM EveryProblemIsPaged == Spec => []ProblemsArePaged
<1>1. IInv => ProblemsArePaged
  <2> SUFFICES ASSUME IInv, Ending, ~cfg.state \/ "fault" \notin mishaps, NEW k \in ProblemKeys(found)
               PROVE  (\E p \in Providers : k \in open[p]) \/ Unrouted(Trigger(k))
    BY DEF ProblemsArePaged
  <2>1. pc = "sending" /\ ~dry /\ DOMAIN events = {}
    BY DEF Ending
  <2> QED
    BY <2>1 DEF IInv, PagedSoFar, Failing
<1> QED
  BY <1>1, Invariance, PTL

\* While no send and no state file fails and no invocation is killed, the state file
\* says exactly what the providers were last told of each key.
THEOREM TheMemoryIsTrue == Spec => []MemoryIsTrue
<1>1. IInv => MemoryIsTrue
  BY DEF IInv, MemoryAgrees, Remembers, MemoryIsTrue
<1> QED
  BY <1>1, Invariance, PTL

\* An alert is closed only by an invocation that found no problem under its key.
THEOREM ResolvesAreReal == Spec => NoFalseResolve
<1>1. ASSUME IInv, [Next]_vars, NEW p \in Providers, NEW k \in (open[p] \ open'[p]) \cap ProblemKeys(found)
      PROVE  FALSE
  <2>1. open' # open
    BY <1>1
  <2>2. PICK e : events # <<>> /\ e = Head(events) /\ ~Unrouted(e) /\ open' = Delivered(e)
    <3>1. (\E key \in Keys : Send(key)) \/ (\E fate : SendFails(fate))
      BY <1>1, <2>1 DEF Next, Work, vars, Drift, Age, CheckAppends, RunChecks, ReadPrevious, AppendRecord,
         PlanEvents, PassOver, PrintEvent, Save, Crash, StateFileFails
    <3> QED
      BY <2>1, <3>1 DEF Send, SendFails, ToSend
  <2>3. e.key \in Keys /\ ((\E o \in Failing : e = Trigger(o)) \/ (\E o \in Quiet : e = Resolve(o)))
    BY <1>1, <2>2, NextEvent
  <2>4. open \in [Providers -> SUBSET Keys]
    BY <1>1 DEF IInv, Bounded
  <2>5. e.action = "resolve" /\ k = e.key
    <3> DEFINE o == ProviderOf(e)
    <3>1. CASE e.action = "trigger"
      <4>1. open' = [open EXCEPT ![o] = @ \cup {e.key}]
        BY <2>2, <3>1 DEF Delivered
      <4> HIDE DEF o
      <4>2. open[p] \subseteq open'[p]
        BY <2>4, <4>1
      <4> QED
        BY <1>1, <4>2
    <3>2. CASE e.action = "resolve"
      <4>1. open' = [open EXCEPT ![o] = @ \ {e.key}]
        BY <2>1, <2>2, <3>2 DEF Delivered
      <4> HIDE DEF o
      <4>2. open[p] \ open'[p] \subseteq {e.key}
        BY <2>4, <4>1
      <4> QED
        BY <1>1, <3>2, <4>2
    <3> QED
      BY <2>3, <3>1, <3>2, KeysOfEvents
  <2>6. k \in Quiet
    BY <2>3, <2>5, KeysOfEvents
  <2> QED
    BY <1>1, <2>6 DEF Quiet, Failing
<1>2. IInv /\ [Next]_vars => [\A p \in Providers : (open[p] \ open'[p]) \cap ProblemKeys(found) = {}]_vars
  BY <1>1
<1> QED
  BY <1>2, Invariance, PTL DEF Spec, NoFalseResolve

\* "a BAD that lasts three days" is not sent on every run: as long as the memory is kept,
\* a key that was told and not resolved is sent again, with whatever status, only when
\* the route it goes by asks for it: it got worse and that route has
\* renotify_on_worsening, or that route's own renotify_after has passed.
THEOREM NotPagedEarly == Spec => NoEarlyRepage
<1> DEFINE Again(k) == routed /\ cfg.state /\ "fault" \notin mishaps
                       /\ Send(k) /\ Head(events) = Trigger(k) /\ told[k] # None
           Asked(k) == \E r \in Match(Trigger(k)) :
                         \/ r.worsening /\ severity(PlannedSeverity(found, k)) > severity(told[k].status)
                         \/ r.after \in 1 .. told[k].age
<1>1. ASSUME IInv, NEW k \in Keys, Again(k) PROVE Asked(k)
  <2> DEFINE e == Trigger(k)
  <2>1. pc = "sending" /\ ~dry /\ ~Unrouted(e) /\ ~Held(e)
    BY <1>1 DEF Send, ToSend
  <2>2. e.action = "trigger" /\ e.key = k /\ e.severity = PlannedSeverity(found, k)
    BY DEF Trigger
  <2>3. state = told
    BY <1>1, <2>1 DEF IInv, MemoryAgrees, Remembers
  <2> HIDE DEF e
  <2>4. PICK r \in Match(e) : Decide(told[k], e.severity, r)
    BY <1>1, <2>1, <2>2, <2>3 DEF Held, Unrouted
  <2>5. r.after \in Nat
    BY <1>1, Matched, RoutesAreTyped DEF IInv
  <2>6. told[k].age \in Nat
    <3>1. told[k] \in Notified
      BY <1>1 DEF IInv, Bounded
    <3> QED
      BY <3>1 DEF Notified
  <2>7. \/ r.worsening /\ severity(e.severity) > severity(told[k].status)
        \/ r.after > 0 /\ told[k].age >= r.after
    BY <1>1, <2>4 DEF Decide
  <2>8. \/ r.worsening /\ severity(PlannedSeverity(found, k)) > severity(told[k].status)
        \/ r.after \in 1 .. told[k].age
    BY <2>2, <2>5, <2>6, <2>7
  <2> QED
    BY <2>8 DEF e
<1>2. IInv /\ [Next]_vars => [\A k \in Keys : Again(k) => Asked(k)]_vars
  BY <1>1
<1> QED
  BY <1>2, Invariance, PTL DEF Spec, NoEarlyRepage

-----------------------------------------------------------------------------
(***************************************************************************)
(* Recoveries, where the routes send what is found of a key to one service *)
(* (without it they can break RecoveriesResolved on their own).            *)
(***************************************************************************)
\* A resolve is sent to the services that have the alert.
LEMMA ResolvesReachTheService ==
  ASSUME IInv, OneServiceEach, NEW p \in Providers, NEW k \in open[p]
  PROVE  ~Unrouted(Resolve(k)) /\ ProviderOf(Resolve(k)) = p
<1>1. Serves(p, k) /\ Bounded
  BY DEF IInv, ToldIsOpen
<1>2. CASE routed
  <2>1. PICK i \in DOMAIN cfg.routes : /\ k \in cfg.routes[i].keys /\ labelsOK(cfg.routes[i])
                                       /\ cfg.routes[i].provider = p
    BY <1>1, <1>2 DEF Serves
  <2>2. Covers(cfg.routes[i], Resolve(k))
    BY <2>1, KeysOfEvents DEF Covers
  <2>3. Match(Resolve(k)) # {}
    BY <1>1, <2>2, Matched
  <2>4. (CHOOSE r \in Match(Resolve(k)) : TRUE) \in Match(Resolve(k))
    BY <2>3
  <2>5. PICK j \in DOMAIN cfg.routes : /\ (CHOOSE r \in Match(Resolve(k)) : TRUE) = cfg.routes[j]
                                       /\ Covers(cfg.routes[j], Resolve(k))
    BY <1>1, <2>4, Matched
  <2>6. k \in cfg.routes[j].keys /\ labelsOK(cfg.routes[j])
    BY <2>5, KeysOfEvents DEF Covers
  <2>7. cfg.routes[j].provider = p
    BY <2>1, <2>6 DEF OneServiceEach
  <2> QED
    BY <1>2, <2>3, <2>5, <2>7 DEF Unrouted, ProviderOf
<1>3. CASE ~routed
  BY <1>1, <1>3 DEF Serves, Unrouted, ProviderOf
<1> QED
  BY <1>2, <1>3

LEMMA InitOpenIsKnown == Init => OpenIsKnown
<1> SUFFICES ASSUME Init PROVE OpenIsKnown
  OBVIOUS
<1>1. pc = "idle" /\ ~dry
  BY DEF Init
<1>2. \A p \in Stateful : open[p] \subseteq Listed(record)
  BY DEF Init, Stateful
<1> QED
  BY <1>1, <1>2 DEF OpenIsKnown

LEMMA OpenStaysKnown == IInv /\ OpenIsKnown /\ [Next]_vars => OpenIsKnown'
<1> SUFFICES ASSUME IInv, OpenIsKnown, [Next]_vars, OneServiceEach', cfg'.history, mishaps' = {}
             PROVE  /\ pc' \in {"idle", "read"} \/ dry' => \A p \in Stateful : open'[p] \subseteq Listed(record')
                    /\ pc' = "append" => prev' = record' /\ \A p \in Stateful : open'[p] \subseteq Listed(prev')
                    /\ pc' = "plan" => /\ \A p \in Stateful : open'[p] \subseteq Listed(prev')
                                       /\ ~dry' => record' = Entries(found')
                    /\ pc' = "sending" /\ ~dry' =>
                         /\ record' = Entries(found')
                         /\ \A p \in Stateful : \A k \in open'[p] \ Failing' :
                              \E i \in DOMAIN events' : events'[i] = Resolve(k)
  BY KeysOfEvents DEF OpenIsKnown, Resolve, Listed
<1> DEFINE Goal ==
      /\ pc' \in {"idle", "read"} \/ dry' => \A p \in Stateful : open'[p] \subseteq Listed(record')
      /\ pc' = "append" => prev' = record' /\ \A p \in Stateful : open'[p] \subseteq Listed(prev')
      /\ pc' = "plan" => /\ \A p \in Stateful : open'[p] \subseteq Listed(prev')
                         /\ ~dry' => record' = Entries(found')
      /\ pc' = "sending" /\ ~dry' =>
           /\ record' = Entries(found')
           /\ \A p \in Stateful : \A k \in open'[p] \ Failing' :
                \E i \in DOMAIN events' : events'[i] = Resolve(k)
<1>1. cfg' = cfg
  BY DEF Next, Work, vars, Drift, Age, CheckAppends, RunChecks, ReadPrevious, AppendRecord, PlanEvents,
     PassOver, PrintEvent, Save, Crash, StateFileFails, Send, SendFails, Ends
<1>2. OneServiceEach /\ cfg.history
  BY <1>1 DEF OneServiceEach, labelsOK
<1>3. ~Crash /\ ~StateFileFails /\ \A fate : ~SendFails(fate)
  BY DEF Crash, StateFileFails, SendFails
<1>4. mishaps = {}
  BY <1>3 DEF Next, Work, vars, Drift, Age, CheckAppends, RunChecks, ReadPrevious, AppendRecord, PlanEvents,
     PassOver, PrintEvent, Save, Crash, StateFileFails, Send, SendFails, Ends, local, Amiss
<1>5. /\ pc \in {"idle", "read"} \/ dry => \A p \in Stateful : open[p] \subseteq Listed(record)
      /\ pc = "append" => prev = record /\ \A p \in Stateful : open[p] \subseteq Listed(prev)
      /\ pc = "plan" => /\ \A p \in Stateful : open[p] \subseteq Listed(prev)
                        /\ ~dry => record = Entries(found)
      /\ pc = "sending" /\ ~dry =>
           /\ record = Entries(found)
           /\ \A p \in Stateful : \A k \in open[p] \ Failing :
                \E i \in DOMAIN events : events[i] = Resolve(k)
  BY <1>2, <1>4 DEF OpenIsKnown
<1>6. found' = found => Failing' = Failing
  BY DEF Failing, ProblemKeys
<1>7. CASE UNCHANGED vars \/ CheckAppends \/ Age \/ \E k \in Keys : \E statuses \in Findable[k] : Drift(k, statuses)
  <2>1. UNCHANGED <<open, pc, dry, found, prev, events>> /\ record' = record
    BY <1>7 DEF vars, files, local, CheckAppends, Amiss, Age, Drift
  <2> QED
    BY <1>5, <1>6, <2>1
<1>8. ASSUME NEW d \in BOOLEAN, RunChecks(d) PROVE Goal
  <2>1. /\ pc = "idle" /\ pc' = "read" /\ UNCHANGED <<open, record>>
    BY <1>2, <1>8 DEF RunChecks, files
  <2> QED
    BY <1>5, <2>1
<1>9. CASE ReadPrevious
  <2>1. pc = "read" /\ pc' = "append" /\ prev' = record /\ UNCHANGED <<open, record, dry>>
    BY <1>9 DEF ReadPrevious, Amiss, files
  <2> QED
    BY <1>5, <2>1
<1>10. CASE AppendRecord
  <2>1. /\ pc = "append" /\ pc' = "plan" /\ UNCHANGED <<open, prev, found, dry>>
        /\ record' = IF dry THEN record ELSE Entries(found)
    BY <1>10 DEF AppendRecord, Amiss, local
  <2> QED
    BY <1>5, <1>6, <2>1
<1>11. CASE PlanEvents
  <2>1. pc = "plan" /\ pc' = "sending" /\ UNCHANGED <<open, record, found, dry, prev>>
    BY <1>11 DEF PlanEvents, files
  <2> DEFINE evs == Pick([k \in Keys |-> Trigger(k)], Failing)
                     \o [i \in DOMAIN Recovered |-> Resolve(Recovered[i])]
  <2>2. events' = evs
    BY <1>11 DEF PlanEvents
  <2>3. \A k \in Listed(prev) \ Failing : \E i \in DOMAIN evs : evs[i] = Resolve(k)
    BY PlannedEvents, Zenon DEF IInv
  <2> HIDE DEF evs
  <2> QED
    BY <1>5, <1>6, <2>1, <2>2, <2>3
<1>12. CASE PassOver
  <2>1. /\ events # <<>> /\ (Held(Head(events)) \/ Unrouted(Head(events))) /\ events' = Tail(events)
        /\ UNCHANGED <<open, record, found, dry, prev, pc>>
    BY <1>12 DEF PassOver, files
  <2>2. ASSUME NEW p \in Stateful, NEW k \in open[p], NEW i \in DOMAIN events, events[i] = Resolve(k)
        PROVE  \E j \in DOMAIN events' : events'[j] = Resolve(k)
    <3>1. Head(events) = Resolve(k) \/ \E j \in DOMAIN Tail(events) : Tail(events)[j] = Resolve(k)
      BY <2>1, <2>2, NextEvent
    <3>2. Head(events) # Resolve(k)
      <4>1. p \in Providers
        BY DEF Stateful
      <4>2. ~Unrouted(Resolve(k)) /\ ~Held(Resolve(k))
        BY <1>2, <4>1, ResolvesReachTheService, KeysOfEvents DEF Held
      <4> QED
        BY <2>1, <4>2
    <3> QED
      BY <2>1, <3>1, <3>2
  <2> QED
    BY <1>5, <1>6, <2>1, <2>2
<1>13. CASE PrintEvent
  <2>1. dry /\ pc = "sending" /\ UNCHANGED <<open, record, dry, pc>>
    BY <1>13 DEF PrintEvent, ToSend, files
  <2> QED
    BY <1>5, <2>1
<1>14. ASSUME NEW key \in Keys, Send(key) PROVE Goal
  <2> DEFINE e == Head(events)
  <2>1. /\ pc = "sending" /\ ~dry /\ events # <<>> /\ events' = Tail(events) /\ open' = Delivered(e)
        /\ ~Unrouted(e) /\ UNCHANGED <<record, found, dry, prev, pc>>
    BY <1>14 DEF Send, ToSend, files
  <2>2. /\ e \in Triggers \cup Resolves
        /\ (\E k \in Failing : e = Trigger(k)) \/ (\E k \in Quiet : e = Resolve(k))
    BY <2>1, NextEvent
  <2>3. open \in [Providers -> SUBSET Keys] /\ ProviderOf(e) \in Providers
    BY <2>1, ServedByProvider DEF IInv, Bounded
  <2>4. ASSUME NEW p \in Stateful, NEW k \in open'[p] \ Failing
        PROVE  \E j \in DOMAIN events' : events'[j] = Resolve(k)
    <3>1. p \in Providers /\ p # "sns"
      BY DEF Stateful
    <3>2. k \in open[p] /\ e # Resolve(k)
      <4>1. CASE \E o \in Failing : e = Trigger(o)
        <5>1. PICK o \in Failing : e = Trigger(o)
          BY <4>1
        <5>2. open' = [open EXCEPT ![ProviderOf(e)] = @ \cup {o}] /\ e.action = "trigger"
          BY <2>1, <5>1, KeysOfEvents DEF Delivered
        <5>3. open'[p] \subseteq open[p] \cup {o}
          BY <2>3, <3>1, <5>2
        <5> QED
          BY <2>4, <5>1, <5>2, <5>3, KeysOfEvents
      <4>2. CASE \E o \in Quiet : e = Resolve(o)
        <5>1. PICK o \in Quiet : e = Resolve(o)
          BY <4>2
        <5>2. /\ e.action # "trigger" /\ e.key = o
              /\ open' = IF ProviderOf(e) \in Stateful THEN [open EXCEPT ![ProviderOf(e)] = @ \ {o}] ELSE open
          BY <2>1, <5>1, KeysOfEvents DEF Delivered
        <5>3. open'[p] \subseteq open[p]
          BY <2>3, <3>1, <5>2
        <5>4. k \in open[p]
          BY <2>4, <5>3
        <5>5. ASSUME e = Resolve(k) PROVE FALSE
          <6>1. ProviderOf(e) = p /\ k = o
            BY <1>2, <3>1, <5>2, <5>4, <5>5, ResolvesReachTheService, KeysOfEvents
          <6>2. open' = [open EXCEPT ![p] = @ \ {k}]
            BY <2>4, <5>2, <6>1
          <6>3. k \notin open'[p]
            BY <2>3, <3>1, <6>2
          <6> QED
            BY <2>4, <6>3
        <5> QED
          BY <5>4, <5>5
      <4> QED
        BY <2>2, <4>1, <4>2
    <3>3. \E i \in DOMAIN events : events[i] = Resolve(k)
      BY <1>5, <2>1, <2>4, <3>2
    <3> QED
      BY <2>1, <3>2, <3>3, NextEvent
  <2> QED
    BY <1>5, <1>6, <2>1, <2>4
<1>15. CASE Save
  <2>1. pc = "sending" /\ events = <<>> /\ pc' = "idle" /\ ~dry' /\ UNCHANGED <<open, record>>
    BY <1>15 DEF Save, Ends
  <2>2. DOMAIN events = {}
    BY <2>1
  <2>3. Listed(Entries(found)) = Failing
    BY EntriesAreTyped DEF IInv, Bounded, Failing
  <2>4. dry \/ (record = Entries(found) /\ \A p \in Stateful : open[p] \subseteq Failing)
    BY <1>5, <2>1, <2>2
  <2>5. \A p \in Stateful : open[p] \subseteq Listed(record)
    BY <1>5, <2>3, <2>4
  <2> QED
    BY <2>1, <2>5
<1> QED
  BY <1>3, <1>7, <1>8, <1>9, <1>10, <1>11, <1>12, <1>13, <1>14, <1>15 DEF Next, Work

\* With --history, an invocation that ends well leaves no alert open for a key that
\* recovered, if the routes send each key to one service, nothing failed or was killed
\* before, and every invocation read what the one before it had found: the errors of a
\* read or an append, which the command ignores, are excluded.
THEOREM RecoveriesAreResolved == Spec => [](OneServiceEach => RecoveriesResolved)
<1>1. OpenIsKnown => (OneServiceEach => RecoveriesResolved)
  <2> SUFFICES ASSUME OpenIsKnown, OneServiceEach, Ending, cfg.history, mishaps = {} PROVE RecoveriesClosed
    BY DEF RecoveriesResolved
  <2>1. pc = "sending" /\ ~dry /\ DOMAIN events = {}
    BY DEF Ending
  <2> QED
    BY <2>1 DEF OpenIsKnown, RecoveriesClosed, Failing
<1> QED
  BY <1>1, InitOpenIsKnown, OpenStaysKnown, Invariance, PTL DEF Spec
=============================================================================
