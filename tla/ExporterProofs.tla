--------------------------- MODULE ExporterProofs ---------------------------
(***************************************************************************)
(* Proofs about module Exporter, for any number of modules, any cadences,  *)
(* any --interval and any bounds on the length of a run and the latency of *)
(* a wake-up.                                                              *)
(***************************************************************************)
EXTENDS Exporter, Lemmas

-----------------------------------------------------------------------------
\* A cadence is a duration, and what a module is due by is a positive one.
LEMMA Cadences ==
  \A m \in Modules : every(m) \in Nat /\ Cadence(m) \in Nat \ {0} /\ every(m) <= Cadence(m)
BY EveryAssumption, BaseAssumption DEF every, Cadence

\* schedule.Tick: at least a second, and no more than any cadence of a second
\* or longer.
LEMMA TickBounds ==
  /\ Tick \in Nat /\ Tick >= Second /\ Tick >= 1
  /\ \A n \in Modules : every(n) >= Second => Tick <= every(n)
<1> DEFINE positive == {n \in Modules : every(n) > 0}
           S == {Base} \cup {every(m) : m \in positive}
<1>1. S \in SUBSET Nat /\ S # {}
  BY BaseAssumption, Cadences
<1>2. Min(S) \in Nat /\ \A x \in S : Min(S) <= x
  BY <1>1, MinOfNaturals
<1>3. Tick = IF Min(S) >= Second THEN Min(S) ELSE Second
  <2>1. Tick = Max({Min(S), Second})
    BY DEF Tick
  <2> HIDE DEF S
  <2> QED
    BY <1>2, <2>1, SecondAssumption, MaxOfTwo
<1>4. ASSUME NEW n \in Modules, every(n) >= Second PROVE Min(S) <= every(n)
  <2>1. every(n) \in S
    BY <1>4, Cadences, SecondAssumption
  <2> QED
    BY <1>2, <2>1
<1> HIDE DEF S
<1> QED
  BY <1>2, <1>3, <1>4, SecondAssumption, Cadences

-----------------------------------------------------------------------------
(***************************************************************************)
(* The inductive invariant.                                                *)
(***************************************************************************)
\* A sample has findings, and they are no older than it says.
SamplesAreHonest ==
  \A m \in Modules : /\ age[m] = None <=> fresh[m] = None
                     /\ age[m] # None => fresh[m] <= age[m]

\* A job settled after the run that started it read the clock.
ProbesAreRecent ==
  \A m \in Modules : probed[m] # None =>
    m \in due /\ loop \in {"running", "merging"} /\ (loop = "running" => probed[m] <= spent)

\* A module has a sample, or the run that will give it one is under way.
UnsampledIsDue ==
  \A m \in Modules : age[m] = None => loop = "start" \/ (loop = "running" /\ m \in due)

\* Nothing is served, and the clock has not been read, before the first run.
NothingAtStart == loop = "start" => ~ready /\ \A m \in Modules : age[m] = None

\* No sample, and nothing that is shown, is older than this.
Limit(m) == Cadence(m) + Tick + 2 * MaxRun + MaxLatency

\* What is served stands for the samples, but for those of the run just stored.
LatestKeepsUp ==
  /\ loop # "merging" => latest = age
  /\ \A m \in Modules : latest[m] # None => /\ age[m] # None /\ latest[m] < Limit(m)
                                            /\ age[m] > MaxRun => latest[m] = age[m]
  /\ \A m \in Modules : latest[m] # None => age[m] # None /\ age[m] <= latest[m]
  /\ ready => \A m \in Modules : latest[m] # None

\* The samples there were when the clock was read are older than the run.
RunIsYounger == loop = "running" => \A m \in Modules : age[m] # None => spent <= age[m]

\* A page shows what was served within the bound, and a module whose sample has moved
\* on since has that of a run just stored.
PageIsOld ==
  /\ page.shown # None =>
       \A m \in Modules : /\ page.shown[m] # None /\ age[m] # None
                          /\ page.shown[m] < Limit(m)
                          /\ age[m] > MaxRun => page.shown[m] = age[m]
  /\ page.ages # None =>
       \A m \in Modules : /\ page.shown # None /\ page.ages[m] # None
                          /\ page.ages[m] > MaxRun => page.shown[m] = page.ages[m]

\* serve's ticker runs from the first merge on, watch's sleep while it sleeps; a run
\* that no tick has overtaken leaves the rest of the tick to come.
TicksAreArmed ==
  /\ mode = "serve" => IF ready THEN tickIn >= 1 ELSE tickIn = 0 /\ ~pending
  /\ mode = "watch" => IF loop = "asleep" THEN pending <=> tickIn = 0 ELSE tickIn = 0 /\ ~pending
  /\ loop = "asleep" => ready \/ Modules = {}
  /\ mode = "serve" /\ ready /\ loop \in {"running", "merging"} /\ ~pending => spent + tickIn <= Tick

\* How old the sample of m may be in each place of the loop.
AgesAreBounded ==
  \A m \in Modules : age[m] # None =>
    /\ loop = "asleep" /\ ~pending => age[m] + tickIn < Cadence(m) + MaxRun + Tick
    /\ loop = "asleep" /\ pending => age[m] < Cadence(m) + MaxRun + Tick + late
    /\ loop = "running" /\ m \notin due => age[m] < Cadence(m) + spent
    /\ loop = "running" /\ m \in due => age[m] < Cadence(m) + Tick + MaxRun + MaxLatency + spent
    /\ loop = "merging" => age[m] < Cadence(m) + spent

IInv ==
  /\ TypeOK
  /\ SamplesAreHonest /\ ProbesAreRecent /\ UnsampledIsDue /\ NothingAtStart
  /\ LatestKeepsUp /\ RunIsYounger /\ PageIsOld
  /\ TicksAreArmed /\ AgesAreBounded

\* The sample of a module is within its limit, wherever the loop is.
LEMMA WithinLimit ==
  ASSUME IInv, NEW m \in Modules, age[m] # None
  PROVE  age[m] \in Nat /\ age[m] < Limit(m)
<1>1. /\ tickIn \in 0 .. Tick /\ late \in 0 .. MaxLatency /\ spent \in 0 .. MaxRun /\ age[m] \in Nat
      /\ loop \in {"start", "asleep", "running", "merging"} /\ pending \in BOOLEAN
  BY DEF IInv, TypeOK, Ages
<1>2. loop # "start"
  BY DEF IInv, NothingAtStart
<1> QED
  BY <1>1, <1>2, TickBounds, Cadences, MaxRunAssumption, MaxLatencyAssumption DEF IInv, AgesAreBounded, Limit

\* The invariant holds before anything has run.
LEMMA InitIInv == Init => IInv
<1> SUFFICES ASSUME Init PROVE IInv
  OBVIOUS
<1> USE DEF Init, Nothing, NoPage
<1>1. TypeOK
  <2>1. [m \in Modules |-> None] \in [Modules -> Ages]
    BY DEF Ages
  <2>2. 0 \in 0 .. Tick /\ 0 \in 0 .. MaxLatency /\ 0 \in 0 .. MaxRun
    BY TickBounds, MaxRunAssumption, MaxLatencyAssumption
  <2> QED
    BY <2>1, <2>2 DEF TypeOK
<1>2. SamplesAreHonest /\ ProbesAreRecent /\ UnsampledIsDue /\ NothingAtStart
  BY DEF SamplesAreHonest, ProbesAreRecent, UnsampledIsDue, NothingAtStart
<1>3. LatestKeepsUp /\ RunIsYounger /\ PageIsOld
  BY DEF LatestKeepsUp, RunIsYounger, PageIsOld
<1>4. TicksAreArmed /\ AgesAreBounded
  BY DEF TicksAreArmed, AgesAreBounded
<1> QED
  BY <1>1, <1>2, <1>3, <1>4 DEF IInv

\* runOnce from the start, or at a wake-up, keeps it.
LEMMA BeginKeeps == ASSUME IInv, First \/ Wake PROVE IInv'
<1> USE DEF IInv, First, Wake, Begin
<1>a. /\ due' = Due(age) /\ spent' = 0 /\ probed' = Nothing
      /\ loop' = IF due' = {} /\ mode = "serve" THEN "asleep" ELSE "running"
      /\ pending' = FALSE /\ late' = 0
      /\ UNCHANGED <<mode, tickIn, dataVars, page>>
  OBVIOUS
<1>b. \A m \in Modules : m \in due' <=> age[m] = None \/ age[m] >= every(m)
  BY <1>a DEF Due
<1>1. TypeOK'
  <2>1. probed' \in [Modules -> Ages]
    BY <1>a DEF Nothing, Ages
  <2>2. 0 \in 0 .. MaxLatency /\ 0 \in 0 .. MaxRun /\ due' \subseteq Modules
    BY <1>a, MaxRunAssumption, MaxLatencyAssumption DEF Due
  <2> QED
    BY <1>a, <2>1, <2>2 DEF TypeOK, dataVars
<1>2. SamplesAreHonest' /\ ProbesAreRecent' /\ UnsampledIsDue' /\ NothingAtStart'
  BY <1>a, <1>b DEF SamplesAreHonest, ProbesAreRecent, UnsampledIsDue, NothingAtStart, dataVars, Nothing
<1>3. LatestKeepsUp' /\ RunIsYounger' /\ PageIsOld'
  BY <1>a DEF LatestKeepsUp, RunIsYounger, PageIsOld, dataVars, TypeOK, Ages
<1>4. TicksAreArmed'
  <2>1. loop' = "asleep" => ready \/ Modules = {}
    BY <1>a, <1>b DEF TicksAreArmed, NothingAtStart
  <2>2. tickIn \in 0 .. Tick /\ spent' = 0
    BY <1>a DEF TypeOK
  <2> QED
    BY <1>a, <2>1, <2>2, TickBounds DEF TicksAreArmed, dataVars, TypeOK
<1>5. AgesAreBounded'
  <2> SUFFICES ASSUME NEW m \in Modules, age[m] # None
               PROVE  /\ loop' = "asleep" => age[m] + tickIn < Cadence(m) + MaxRun + Tick
                      /\ loop' = "running" /\ m \notin due' => age[m] < Cadence(m)
                      /\ loop' = "running" /\ m \in due' =>
                           age[m] < Cadence(m) + Tick + MaxRun + MaxLatency
    BY <1>a, Cadences, TickBounds, MaxRunAssumption, MaxLatencyAssumption
    DEF AgesAreBounded, dataVars, TypeOK, Ages
  <2>1. age[m] \in Nat /\ tickIn \in 0 .. Tick /\ late \in 0 .. MaxLatency
    BY DEF TypeOK, Ages
  <2>2. m \notin due' => age[m] < Cadence(m)
    BY <1>b, <2>1, Cadences
  <2>3. age[m] < Cadence(m) + MaxRun + Tick + MaxLatency
    <3>1. loop = "asleep" /\ pending
      BY DEF NothingAtStart
    <3> QED
      BY <2>1, <3>1, Cadences, TickBounds, MaxRunAssumption, MaxLatencyAssumption DEF AgesAreBounded
  <2>4. loop' = "asleep" => m \notin due'
    BY <1>a
  <2> QED
    BY <2>1, <2>2, <2>3, <2>4, Cadences, TickBounds, MaxRunAssumption, MaxLatencyAssumption
<1> QED
  BY <1>1, <1>2, <1>3, <1>4, <1>5 DEF IInv

\* A job that settles keeps it.
LEMMA ProbeKeeps == ASSUME IInv, NEW n \in Modules, Probe(n) PROVE IInv'
<1> USE DEF IInv, Probe, dataVars
<1>1. TypeOK'
  <2>1. probed' \in [Modules -> Ages]
    BY DEF TypeOK, Ages
  <2> QED
    BY <2>1 DEF TypeOK
<1>2. SamplesAreHonest' /\ UnsampledIsDue' /\ NothingAtStart'
  BY DEF SamplesAreHonest, UnsampledIsDue, NothingAtStart
<1>3. ProbesAreRecent'
  BY DEF ProbesAreRecent, TypeOK
<1>4. LatestKeepsUp' /\ RunIsYounger' /\ PageIsOld'
  BY DEF LatestKeepsUp, RunIsYounger, PageIsOld
<1>5. TicksAreArmed' /\ AgesAreBounded'
  BY DEF TicksAreArmed, AgesAreBounded
<1> QED
  BY <1>1, <1>2, <1>3, <1>4, <1>5 DEF IInv

\* The samples a run leaves keep it.
LEMMA StoreKeeps == ASSUME IInv, Store PROVE IInv'
<1> USE DEF IInv, Store
<1>a. \A m \in Modules : /\ age'[m] = IF m \in due THEN spent ELSE age[m]
                         /\ fresh'[m] = IF m \in due THEN probed[m] ELSE fresh[m]
                         /\ m \in due => probed[m] # None
  BY DEF Stamp, Waited, TypeOK
<1>b. /\ \A m \in Modules : age[m] \in Nat \cup {None} /\ latest[m] \in Nat \cup {None}
      /\ spent \in Nat /\ spent <= MaxRun
  BY MaxRunAssumption DEF TypeOK, Ages
<1>c. spent # None
  BY <1>b, NoneAssumption
<1>1. TypeOK'
  <2>1. age' \in [Modules -> Ages] /\ fresh' \in [Modules -> Ages]
    BY MaxRunAssumption DEF TypeOK, Ages, Stamp
  <2> QED
    BY <2>1 DEF TypeOK
<1>2. SamplesAreHonest' /\ UnsampledIsDue' /\ NothingAtStart'
  BY <1>a, <1>c DEF SamplesAreHonest, ProbesAreRecent, UnsampledIsDue, NothingAtStart
<1>3. ProbesAreRecent'
  BY DEF ProbesAreRecent
<1>4. LatestKeepsUp' /\ RunIsYounger'
  <2>1. latest = age /\ \A m \in Modules : age'[m] > MaxRun => age'[m] = age[m]
    BY <1>a, <1>b, MaxRunAssumption DEF LatestKeepsUp
  <2> QED
    BY <1>a, <1>b, <1>c, <2>1 DEF LatestKeepsUp, RunIsYounger
<1>5. PageIsOld'
  <2> SUFFICES ASSUME page.shown # None, NEW m \in Modules
               PROVE  /\ age'[m] # None /\ page.shown[m] # None /\ page.shown[m] < Limit(m)
                      /\ age'[m] > MaxRun => page.shown[m] = age'[m]
    BY DEF PageIsOld
  <2>1. /\ age[m] # None /\ page.shown[m] # None /\ page.shown[m] < Limit(m)
        /\ age[m] > MaxRun => page.shown[m] = age[m]
    BY DEF PageIsOld
  <2> QED
    BY <1>a, <1>b, <1>c, <2>1, MaxRunAssumption
<1>6. TicksAreArmed'
  BY DEF TicksAreArmed
<1>7. AgesAreBounded'
  BY <1>a, <1>b, Cadences DEF AgesAreBounded
<1> QED
  BY <1>1, <1>2, <1>3, <1>4, <1>5, <1>6, <1>7 DEF IInv

\* Merging what is stored, and going to sleep, keeps it.
LEMMA MergeKeeps == ASSUME IInv, Merge PROVE IInv'
<1> USE DEF IInv, Merge
<1>a. latest' = age /\ \A m \in Modules : age[m] # None /\ age[m] \in Nat
  BY DEF Merged, UnsampledIsDue, TypeOK, Ages
<1>1. TypeOK'
  <2>1. [m \in Modules |-> None] \in [Modules -> Ages]
    BY DEF Ages
  <2>2. tickIn' \in 0 .. Tick /\ 0 \in 0 .. MaxRun
    BY TickBounds, MaxRunAssumption DEF TypeOK
  <2> QED
    BY <1>a, <2>1, <2>2 DEF TypeOK, Nothing
<1>2. SamplesAreHonest' /\ ProbesAreRecent' /\ UnsampledIsDue' /\ NothingAtStart'
  BY <1>a DEF SamplesAreHonest, ProbesAreRecent, UnsampledIsDue, NothingAtStart, Nothing
<1>3. LatestKeepsUp' /\ RunIsYounger' /\ PageIsOld'
  <2>1. \A m \in Modules : age[m] < Limit(m)
    BY <1>a, WithinLimit
  <2> QED
    BY <1>a, <2>1 DEF LatestKeepsUp, RunIsYounger, PageIsOld
<1>4. TicksAreArmed'
  BY TickBounds DEF TicksAreArmed, TypeOK
<1>5. AgesAreBounded'
  <2> SUFFICES ASSUME NEW m \in Modules
               PROVE  /\ ~pending => age[m] + tickIn' < Cadence(m) + MaxRun + Tick
                      /\ pending => age[m] < Cadence(m) + MaxRun + Tick + late
    BY DEF AgesAreBounded
  <2>1. /\ age[m] < Cadence(m) + spent
        /\ age[m] \in Nat /\ spent \in 0 .. MaxRun /\ late \in 0 .. MaxLatency /\ tickIn \in 0 .. Tick
    BY <1>a DEF AgesAreBounded, TypeOK
  <2>2. ~pending => tickIn' = Tick \/ spent + tickIn' <= Tick
    BY DEF TicksAreArmed, TypeOK
  <2>3. tickIn' \in 0 .. Tick
    BY TickBounds DEF TypeOK
  <2> QED
    BY <2>1, <2>2, <2>3, Cadences, TickBounds, MaxRunAssumption, MaxLatencyAssumption
<1> QED
  BY <1>1, <1>2, <1>3, <1>4, <1>5 DEF IInv

\* A request, between its two reads of what the loop shares, keeps it.
LEMMA PageKeeps == ASSUME IInv, ScrapeLatest \/ ScrapeAges \/ Respond PROVE IInv'
<1> USE DEF IInv, loopVars, dataVars
<1>a. UNCHANGED <<mode, loop, tickIn, pending, late, spent, due, probed, age, fresh, latest, ready>>
  BY DEF ScrapeLatest, ScrapeAges, Respond
<1>1. TypeOK'
  <2>1. page' \in [shown : [Modules -> Ages] \cup {None}, ages : [Modules -> Ages] \cup {None}]
    BY DEF TypeOK, ScrapeLatest, ScrapeAges, Respond, NoPage
  <2> QED
    BY <1>a, <2>1 DEF TypeOK
<1>2. SamplesAreHonest' /\ ProbesAreRecent' /\ UnsampledIsDue' /\ NothingAtStart'
  BY <1>a DEF SamplesAreHonest, ProbesAreRecent, UnsampledIsDue, NothingAtStart
<1>3. LatestKeepsUp' /\ RunIsYounger'
  BY <1>a DEF LatestKeepsUp, RunIsYounger
<1>4. PageIsOld'
  <2>1. CASE ScrapeLatest
    <3>1. page'.shown = latest /\ page'.ages = None
      BY <2>1 DEF ScrapeLatest, NoPage
    <3>2. \A m \in Modules : latest[m] # None
      BY <2>1 DEF ScrapeLatest, Listening, LatestKeepsUp
    <3> QED
      BY <1>a, <3>1, <3>2 DEF PageIsOld, LatestKeepsUp
  <2>2. CASE ScrapeAges
    <3>1. page'.shown = page.shown /\ page'.ages = age /\ page.shown # None
      BY <2>2 DEF ScrapeAges, TypeOK
    <3> QED
      BY <1>a, <3>1 DEF PageIsOld
  <2>3. CASE Respond
    BY <2>3 DEF Respond, NoPage, PageIsOld
  <2> QED
    BY <2>1, <2>2, <2>3
<1>5. TicksAreArmed' /\ AgesAreBounded'
  BY <1>a DEF TicksAreArmed, AgesAreBounded
<1> QED
  BY <1>1, <1>2, <1>3, <1>4, <1>5 DEF IInv

\* A unit of time keeps it.
LEMMA ElapseKeeps == ASSUME IInv, Elapse PROVE IInv'
<1> USE DEF IInv, Elapse
<1>a. /\ tickIn \in 0 .. Tick /\ late \in 0 .. MaxLatency /\ spent \in 0 .. MaxRun
      /\ \A m \in Modules : /\ age[m] \in Nat \cup {None} /\ fresh[m] \in Nat \cup {None}
                            /\ latest[m] \in Nat \cup {None} /\ probed[m] \in Nat \cup {None}
  BY DEF TypeOK, Ages
<1>b. \A m \in Modules :
        /\ age'[m] = IF age[m] = None THEN None ELSE age[m] + 1
        /\ fresh'[m] = IF fresh[m] = None THEN None ELSE fresh[m] + 1
        /\ latest'[m] = IF latest[m] = None THEN None ELSE latest[m] + 1
        /\ probed'[m] = IF probed[m] = None THEN None ELSE probed[m] + 1
  BY DEF Older
<1>c. \A i \in Nat : i + 1 # None
  BY NoneAssumption
<1>d. page.shown = None /\ page.ages = None
  BY DEF NoPage
<1>e. /\ tickIn' = IF tickIn = 1 THEN Rearmed ELSE IF tickIn = 0 THEN 0 ELSE tickIn - 1
      /\ pending' <=> pending \/ tickIn = 1
      /\ late' = IF loop = "asleep" /\ pending THEN late + 1 ELSE 0
      /\ spent' = IF loop = "running" THEN spent + 1 ELSE 0
      /\ loop \in {"asleep", "running"} /\ UNCHANGED <<mode, loop, due, ready>>
  OBVIOUS
<1>f. pending \in BOOLEAN /\ ready \in BOOLEAN /\ mode \in {"serve", "watch"}
  BY DEF TypeOK
<1>1. TypeOK'
  <2>1. age' \in [Modules -> Ages] /\ fresh' \in [Modules -> Ages]
    BY DEF TypeOK, Older, Ages
  <2>2. latest' \in [Modules -> Ages] /\ probed' \in [Modules -> Ages]
    BY DEF TypeOK, Older, Ages
  <2>3. tickIn' \in 0 .. Tick
    BY <1>a, TickBounds DEF Rearmed
  <2>4. late' \in 0 .. MaxLatency /\ spent' \in 0 .. MaxRun
    BY <1>a, MaxRunAssumption, MaxLatencyAssumption
  <2>5. pending' \in BOOLEAN
    BY DEF TypeOK
  <2> QED
    BY <2>1, <2>2, <2>3, <2>4, <2>5 DEF TypeOK
<1>2. SamplesAreHonest'
  BY <1>a, <1>b, <1>c DEF SamplesAreHonest
<1>3. ProbesAreRecent'
  BY <1>a, <1>b, <1>c DEF ProbesAreRecent
<1>4. UnsampledIsDue' /\ NothingAtStart'
  BY <1>a, <1>b, <1>c DEF UnsampledIsDue, NothingAtStart
<1>5. LatestKeepsUp'
  <2>1. latest = age /\ loop' # "merging"
    BY DEF LatestKeepsUp
  <2>2. ASSUME NEW m \in Modules, age[m] # None PROVE age[m] + 1 < Limit(m)
    <3>1. age[m] \in Nat
      BY <1>a, <2>2
    <3>2. /\ Cadence(m) \in Nat /\ Tick \in Nat /\ MaxRun \in Nat /\ MaxLatency \in Nat
          /\ Limit(m) = Cadence(m) + Tick + 2 * MaxRun + MaxLatency
      BY Cadences, TickBounds, MaxRunAssumption, MaxLatencyAssumption DEF Limit
    <3>3. /\ loop = "asleep" /\ ~pending => age[m] + tickIn < Cadence(m) + MaxRun + Tick /\ tickIn >= 1
          /\ loop = "asleep" /\ pending => age[m] < Cadence(m) + MaxRun + Tick + late /\ late < MaxLatency
          /\ loop = "running" => spent < MaxRun
          /\ loop = "running" /\ m \notin due => age[m] < Cadence(m) + spent
          /\ loop = "running" /\ m \in due => age[m] < Cadence(m) + Tick + MaxRun + MaxLatency + spent
      BY <1>a, <1>f, <2>2 DEF AgesAreBounded, TicksAreArmed
    <3> HIDE DEF IInv, Elapse
    <3> QED
      BY <1>a, <1>e, <1>f, <3>1, <3>2, <3>3
  <2> QED
    BY <1>a, <1>b, <1>c, <2>1, <2>2 DEF LatestKeepsUp
<1>6. RunIsYounger'
  BY <1>a, <1>b, <1>c DEF RunIsYounger
<1>7. PageIsOld'
  BY <1>d DEF PageIsOld
<1>8. TicksAreArmed'
  <2>1. TicksAreArmed
    OBVIOUS
  <2> QED
    BY ONLY <1>a, <1>e, <1>f, <2>1, TickBounds DEF TicksAreArmed, Rearmed
<1>9. AgesAreBounded'
  <2> SUFFICES ASSUME NEW m \in Modules, age'[m] # None
               PROVE  /\ loop = "asleep" /\ ~pending' => age'[m] + tickIn' < Cadence(m) + MaxRun + Tick
                      /\ loop = "asleep" /\ pending' => age'[m] < Cadence(m) + MaxRun + Tick + late'
                      /\ loop = "running" /\ m \notin due => age'[m] < Cadence(m) + spent'
                      /\ loop = "running" /\ m \in due =>
                           age'[m] < Cadence(m) + Tick + MaxRun + MaxLatency + spent'
    BY DEF AgesAreBounded
  <2>1. age[m] \in Nat /\ age'[m] = age[m] + 1
    BY <1>a, <1>b
  <2>2. Cadence(m) \in Nat /\ Tick \in Nat /\ MaxRun \in Nat /\ MaxLatency \in Nat
    BY Cadences, TickBounds, MaxRunAssumption, MaxLatencyAssumption
  <2>3. /\ loop = "asleep" /\ ~pending => age[m] + tickIn < Cadence(m) + MaxRun + Tick
        /\ loop = "asleep" /\ pending => age[m] < Cadence(m) + MaxRun + Tick + late
        /\ loop = "running" /\ m \notin due => age[m] < Cadence(m) + spent
        /\ loop = "running" /\ m \in due => age[m] < Cadence(m) + Tick + MaxRun + MaxLatency + spent
    BY <2>1, NoneAssumption DEF AgesAreBounded
  <2>4. loop = "asleep" /\ ~pending => tickIn >= 1
    BY <1>a, <1>f DEF TicksAreArmed
  <2> HIDE DEF IInv, Elapse
  <2>5. CASE loop = "running"
    BY <1>a, <1>e, <2>1, <2>2, <2>3, <2>5
  <2>6. CASE loop = "asleep" /\ pending
    BY <1>a, <1>e, <2>1, <2>2, <2>3, <2>6
  <2>7. CASE loop = "asleep" /\ ~pending
    BY <1>a, <1>e, <1>f, <2>1, <2>2, <2>3, <2>4, <2>7
  <2> QED
    BY <1>e, <2>5, <2>6, <2>7
<1> QED
  BY <1>1, <1>2, <1>3, <1>4, <1>5, <1>6, <1>7, <1>8, <1>9 DEF IInv

\* Every step keeps the invariant.
LEMMA NextKeeps == IInv /\ [Next]_vars => IInv'
<1> SUFFICES ASSUME IInv, [Next]_vars PROVE IInv'
  OBVIOUS
<1>1. CASE First \/ Wake
  BY <1>1, BeginKeeps
<1>2. CASE \E m \in Modules : Probe(m)
  BY <1>2, ProbeKeeps
<1>3. CASE Store
  BY <1>3, StoreKeeps
<1>4. CASE Merge
  BY <1>4, MergeKeeps
<1>5. CASE ScrapeLatest \/ ScrapeAges \/ Respond
  BY <1>5, PageKeeps
<1>6. CASE Elapse
  BY <1>6, ElapseKeeps
<1>7. CASE UNCHANGED vars
  BY <1>7 DEF vars, loopVars, dataVars, IInv, TypeOK, SamplesAreHonest, ProbesAreRecent, UnsampledIsDue,
     NothingAtStart, LatestKeepsUp, RunIsYounger, PageIsOld, TicksAreArmed, AgesAreBounded
<1> QED
  BY <1>1, <1>2, <1>3, <1>4, <1>5, <1>6, <1>7 DEF Next, LoopStep

-----------------------------------------------------------------------------
\* The invariant holds of every reachable state of serve and watch.
THEOREM Invariance == Spec => []IInv
<1>1. Init => IInv
  BY InitIInv
<1>2. IInv /\ [Next]_vars => IInv'
  BY NextKeeps
<1> QED
  BY <1>1, <1>2, PTL DEF Spec

\* The loop, the samples and the served page keep their types.
THEOREM TypeCorrect == Spec => []TypeOK
<1>1. IInv => TypeOK
  BY DEF IInv
<1> QED
  BY <1>1, Invariance, PTL

\* Whatever runs, sleeps and requests interleave, a sample's age is never smaller than
\* the real age of its findings.
THEOREM AgesAreHonest == Spec => []AgeIsHonest
<1>1. IInv => AgeIsHonest
  BY DEF IInv, SamplesAreHonest, AgeIsHonest
<1> QED
  BY <1>1, Invariance, PTL

\* Whenever the loop sleeps, what is served is the newest sample of every module.
THEOREM NothingDropsOut == Spec => []LatestIsComplete
<1>1. IInv => LatestIsComplete
  BY DEF IInv, UnsampledIsDue, LatestKeepsUp, LatestIsComplete
<1> QED
  BY <1>1, Invariance, PTL

\* The limit is what StalenessBound says, whichever cadence it is read with.
LEMMA LimitIsStalest ==
  ASSUME NEW m \in Modules, NEW n \in Modules, every(n) >= Second, NEW a \in Nat, a < Limit(m)
  PROVE  a < Stalest(m, n)
BY TickBounds, Cadences, MaxRunAssumption, MaxLatencyAssumption DEF Limit, Stalest

\* A page read under two locks covers every module, shows findings within the staleness
\* bound, and understates the age of no module but by that of a run just stored.
THEOREM PagesAreComplete == Spec => []PageIsComplete
<1>1. IInv => PageIsComplete
  <2> SUFFICES ASSUME IInv, page.ages # None, NEW m \in Modules
               PROVE  /\ page.shown[m] # None /\ page.ages[m] # None
                      /\ \A n \in Modules : every(n) >= Second => page.shown[m] < Stalest(m, n)
                      /\ page.ages[m] > MaxRun => page.shown[m] = page.ages[m]
    BY DEF PageIsComplete
  <2>1. /\ page.shown # None /\ page.shown[m] # None /\ page.ages[m] # None /\ page.shown[m] < Limit(m)
        /\ page.ages[m] > MaxRun => page.shown[m] = page.ages[m]
    BY DEF IInv, PageIsOld
  <2>2. page.shown[m] \in Nat
    BY <2>1 DEF IInv, TypeOK, Ages
  <2> QED
    BY <2>1, <2>2, LimitIsStalest
<1> QED
  BY <1>1, Invariance, PTL

\* No sample outlives its cadence by more than a tick, two runs and a wake-up.
THEOREM Staleness == Spec => []StalenessBound
<1>1. IInv => StalenessBound
  <2> SUFFICES ASSUME IInv, NEW m \in Modules, NEW n \in Modules, age[m] # None, every(n) >= Second
               PROVE  age[m] < Stalest(m, n)
    BY DEF StalenessBound
  <2> QED
    BY WithinLimit, LimitIsStalest
<1> QED
  BY <1>1, Invariance, PTL
=============================================================================
