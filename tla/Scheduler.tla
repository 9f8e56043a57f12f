----------------------------- MODULE Scheduler -----------------------------
(***************************************************************************)
(* Package schedule: which modules are due, and how often to wake up.      *)
(*                                                                         *)
(* Time is relative: instead of the instant At of a sample the state keeps *)
(* its age, now - At, so that a behaviour needs no horizon.  age[m] = None *)
(* is a module with no sample yet (!seen in the code).                     *)
(***************************************************************************)
EXTENDS Integers, FiniteSetsExt

CONSTANTS Modules,  \* the configured modules
          Every,    \* Every[m]: the module's own cadence, 0 when it sets none
          Base,     \* --interval, the fallback cadence
          Second,   \* one second, the floor of a tick
          None

ASSUME ModulesAssumption == IsFiniteSet(Modules)
ASSUME EveryAssumption   == Every \in [Modules -> Nat]
ASSUME BaseAssumption    == Base \in Nat
ASSUME SecondAssumption  == Second \in Nat \ {0}
ASSUME NoneAssumption    == None \notin Int

every(m) == IF Every[m] > 0 THEN Every[m] ELSE Base

\* The modules whose cadence has elapsed, and those that have never run.
Due(age) == {m \in Modules : age[m] = None \/ age[m] >= every(m)}

\* Mutant of Tick: the loop wakes on --interval.
TickOnInterval == Max({Base, Second})

\* The shortest cadence in play, but at least a second.
Tick ==
  LET shortest == Min({Base} \cup {every(m) : m \in {n \in Modules : every(n) > 0}})
  IN  Max({shortest, Second})
=============================================================================
