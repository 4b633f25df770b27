-------------------------- MODULE PluginManagerProofs --------------------------
(***************************************************************************)
(* Proofs, for every finite set of plugins and every installation.  First, *)
(* what loadPlugin() guarantees by itself: it checks the state of the      *)
(* required plugins at every rung, so this part does not depend on the     *)
(* order of the load queue, and LoadQueue is not expanded.  Then what      *)
(* loadQueue() computes, however the dependencies run in circles; what the *)
(* loops over its queues achieve; and that the manager implements          *)
(* PluginContract.                                                         *)
(***************************************************************************)
EXTENDS PluginManager, SequenceLemmas

(* The part of the type invariant the proofs need. *)
StateType == /\ installation \in Installations
             /\ state \in [Plugins -> Invalid..Deleted]
             /\ hasError \subseteq Plugins
             /\ disabledIndirectly \subseteq Plugins
             /\ phase \in Phases

(* Until the command line is parsed no library is loaded. *)
NothingLoadedEarly ==
    phase \in {"constructed", "resolved"} =>
        \A p \in Plugins : state[p] <= Resolved

(* A plugin that is disabled, directly or not, is not loaded. *)
DisabledStays ==
    \A p \in Plugins :
        ~Enabled(p) \/ p \in disabledIndirectly => state[p] <= Resolved

(* The inductive invariant. *)
IInv == /\ StateType
        /\ NothingLoadedEarly
        /\ DisabledStays
        /\ RequiredDependenciesFirst

(* The specs a plugin requires are plugins. *)
LEMMA RequiredArePlugins ==
    ASSUME installation \in Installations, NEW p \in Plugins
    PROVE  RequiredSpecs(p) \subseteq Plugins
<1>1. installation.dependencies[p] \in Seq(Dependency)
  BY InstallationsAssumption DEF Installation
<1>2. \A i \in DOMAIN installation.dependencies[p] :
        installation.dependencies[p][i] \in Dependency
  BY <1>1
<1> QED
  BY <1>2 DEF RequiredSpecs, Dependencies, Range, Dependency

(* A step in which no plugin gets beyond Resolved, and no plugin falls     *)
(* back, keeps the order.                                                  *)
LEMMA ResolvingKeepsOrder ==
    ASSUME StateType, RequiredDependenciesFirst,
           state' \in [Plugins -> Invalid..Deleted],
           UNCHANGED installation,
           \A p \in Plugins : \/ state'[p] = state[p]
                              \/ state[p] <= Resolved /\ state'[p] <= Resolved
    PROVE  RequiredDependenciesFirst'
<1> SUFFICES ASSUME NEW p \in Plugins, NEW d \in RequiredSpecs(p)'
             PROVE  /\ state'[p] \in {Loaded, Initialized} => state'[d] >= state'[p]
                    /\ state'[p] = Running => state'[d] >= Initialized
                    /\ state'[p] >= Stopped => state'[d] >= Stopped
  BY DEF RequiredDependenciesFirst
<1>1. d \in RequiredSpecs(p)
  BY DEF RequiredSpecs, Dependencies
<1>2. d \in Plugins
  BY <1>1, RequiredArePlugins DEF StateType
<1>3. /\ state[p] \in {Loaded, Initialized} => state[d] >= state[p]
      /\ state[p] = Running => state[d] >= Initialized
      /\ state[p] >= Stopped => state[d] >= Stopped
  BY <1>1 DEF RequiredDependenciesFirst
<1> QED
  BY <1>2, <1>3 DEF StateType, Invalid, Resolved, Loaded, Initialized,
                    Running, Stopped, Deleted

(* One plugin climbs one rung; on the rungs that are entered root-to-leaf  *)
(* its required plugins are already there.                                 *)
LEMMA ClimbingKeepsOrder ==
    ASSUME StateType, RequiredDependenciesFirst, UNCHANGED installation,
           NEW p \in Plugins, NEW s \in Loaded..Deleted,
           state[p] = s - 1,
           s \in {Loaded, Initialized, Stopped} => RequiredReached(p, s),
           state' = [state EXCEPT ![p] = s]
    PROVE  RequiredDependenciesFirst'
<1> SUFFICES ASSUME NEW q \in Plugins, NEW d \in RequiredSpecs(q)'
             PROVE  /\ state'[q] \in {Loaded, Initialized} => state'[d] >= state'[q]
                    /\ state'[q] = Running => state'[d] >= Initialized
                    /\ state'[q] >= Stopped => state'[d] >= Stopped
  BY DEF RequiredDependenciesFirst
<1>1. d \in RequiredSpecs(q)
  BY DEF RequiredSpecs, Dependencies
<1>2. d \in Plugins
  BY <1>1, RequiredArePlugins DEF StateType
<1>3. /\ state[q] \in {Loaded, Initialized} => state[d] >= state[q]
      /\ state[q] = Running => state[d] >= Initialized
      /\ state[q] >= Stopped => state[d] >= Stopped
  BY <1>1 DEF RequiredDependenciesFirst
<1>4. state'[d] >= state[d]
  BY <1>2 DEF StateType, Invalid, Loaded, Deleted
<1>5. CASE q = p
  <2>1. s \in {Loaded, Initialized, Stopped} => state[d] = s
    BY <1>1, <1>5 DEF RequiredReached
  <2> QED
    BY <1>2, <1>3, <1>4, <1>5, <2>1
    DEF StateType, Invalid, Loaded, Initialized, Running, Stopped, Deleted
<1>6. CASE q # p
  BY <1>2, <1>3, <1>4, <1>6
  DEF StateType, Invalid, Loaded, Initialized, Running, Stopped, Deleted
<1> QED
  BY <1>5, <1>6

(* Such a step keeps the whole invariant, provided that a plugin entering  *)
(* Loaded is not a disabled one.                                           *)
LEMMA AdvanceKeepsIInv ==
    ASSUME IInv, NEW p \in Plugins, NEW s \in Loaded..Deleted,
           ~Skipped(p, s), Advance(p, s),
           s \in {Loaded, Initialized, Stopped} => RequiredReached(p, s),
           UNCHANGED <<installation, disabledIndirectly, phase>>,
           phase \notin {"constructed", "resolved"}
    PROVE  IInv'
<1>1. /\ state[p] = s - 1
      /\ state' = [state EXCEPT ![p] = s]
      /\ UNCHANGED hasError
  BY DEF Skipped, Advance
<1>2. StateType'
  BY <1>1 DEF IInv, StateType, Invalid, Loaded, Deleted
<1>3. NothingLoadedEarly'
  BY DEF NothingLoadedEarly
<1>4. DisabledStays'
  <2> SUFFICES ASSUME NEW q \in Plugins,
                      (~Enabled(q) \/ q \in disabledIndirectly)'
               PROVE  state'[q] <= Resolved
    BY DEF DisabledStays
  <2>1. ~Enabled(q) \/ q \in disabledIndirectly
    BY DEF Enabled
  <2>2. state[q] <= Resolved
    BY <2>1 DEF IInv, DisabledStays
  <2>3. q # p
    BY <1>1, <2>1, <2>2 DEF Skipped, Loaded, Resolved, Deleted
  <2> QED
    BY <1>1, <2>2, <2>3 DEF IInv, StateType
<1>5. RequiredDependenciesFirst'
  BY <1>1, ClimbingKeepsOrder DEF IInv
<1> QED
  BY <1>2, <1>3, <1>4, <1>5 DEF IInv

(* A step that changes neither a state nor who is disabled, and goes to a  *)
(* phase in which libraries may be loaded or stays where it is.            *)
LEMMA QuietStepKeepsIInv ==
    ASSUME IInv, UNCHANGED <<installation, state, disabledIndirectly>>,
           hasError' \subseteq Plugins, phase' \in Phases,
           phase' = phase \/ phase' \notin {"constructed", "resolved"}
    PROVE  IInv'
<1>1. StateType'
  BY DEF IInv, StateType
<1>2. NothingLoadedEarly'
  BY DEF IInv, NothingLoadedEarly
<1>3. DisabledStays'
  BY DEF IInv, DisabledStays, Enabled
<1>4. RequiredDependenciesFirst'
  BY DEF IInv, RequiredDependenciesFirst, RequiredSpecs, Dependencies
<1> QED
  BY <1>1, <1>2, <1>3, <1>4 DEF IInv

(* resolveDependencies() leaves every spec at Resolved or below. *)
LEMMA ResolveDependenciesKeepsIInv ==
    ASSUME IInv, NEW specs, NEW states \in [Plugins -> Invalid..Resolved],
           NEW errors, NEW disabled,
           phase \in {"constructed", "resolved"}, phase' \in Phases,
           UNCHANGED installation,
           ResolveDependencies(specs, states, errors, disabled)
    PROVE  IInv'
<1>1. state' = ResolvedState(errors, states)
  BY DEF ResolveDependencies
<1>2. state' \in [Plugins -> Invalid..Resolved]
  BY <1>1 DEF ResolvedState, Invalid, Read, Resolved
<1>3. hasError' \subseteq Plugins /\ disabledIndirectly' \subseteq Plugins
  BY DEF ResolveDependencies
<1>4. StateType'
  BY <1>2, <1>3 DEF IInv, StateType, Invalid, Resolved, Deleted
<1>5. \A p \in Plugins : state'[p] <= Resolved
  BY <1>2 DEF Invalid, Resolved
<1>6. \A p \in Plugins : state[p] <= Resolved
  BY DEF IInv, NothingLoadedEarly
<1>7. RequiredDependenciesFirst'
  BY <1>4, <1>5, <1>6, ResolvingKeepsOrder DEF IInv, StateType
<1> QED
  BY <1>4, <1>5, <1>7 DEF IInv, NothingLoadedEarly, DisabledStays
-----------------------------------------------------------------------------
(* One climb in the loading or initializing loop. *)
LEMMA ClimbKeepsIInv ==
    ASSUME IInv, NEW p \in Plugins, NEW s \in {Loaded, Initialized},
           Climb(p, s),
           UNCHANGED <<installation, disabledIndirectly, phase>>,
           phase \notin {"constructed", "resolved"}
    PROVE  IInv'
<1>1. CASE Skipped(p, s) /\ UNCHANGED <<state, hasError, failures>>
  BY <1>1, QuietStepKeepsIInv DEF IInv, StateType
<1>2. CASE Flag(p)
  BY <1>2, QuietStepKeepsIInv DEF Flag, IInv, StateType
<1>3. CASE ~Skipped(p, s) /\ RequiredReached(p, s) /\ Advance(p, s)
  <2>1. s \in Loaded..Deleted
    BY DEF Loaded, Initialized, Deleted
  <2> QED
    BY <1>3, <2>1, AdvanceKeepsIInv
<1> QED
  BY <1>1, <1>2, <1>3 DEF Climb, PluginFails

LEMMA Initially == Init => IInv
  BY CoreAssumption
  DEF Init, IInv, StateType, NothingLoadedEarly, DisabledStays,
      RequiredDependenciesFirst, Phases,
      Invalid, Resolved, Loaded, Initialized, Running, Stopped, Deleted

LEMMA Inductive == IInv /\ [Next]_vars => IInv'
<1> SUFFICES ASSUME IInv, [Next]_vars PROVE IInv'
  OBVIOUS
<1> USE DEF IInv, StateType
<1>1. CASE SetPluginPaths
  <2> DEFINE states == [p \in Plugins |-> IF p \in installation.unreadable
                                          THEN Invalid ELSE Read]
  <2>1. states \in [Plugins -> Invalid..Resolved]
    BY DEF Invalid, Read, Resolved
  <2>2. ResolveDependencies(installation.directoryOrder, states,
            installation.unreadable \union installation.unresolvable, {})
    BY <1>1 DEF SetPluginPaths
  <2> HIDE DEF states
  <2> QED
    BY <1>1, <2>1, <2>2, ResolveDependenciesKeepsIInv
    DEF SetPluginPaths, Phases
<1>2. ASSUME NEW S \in SUBSET Plugins, ParseOptions(S) PROVE IInv'
  <2>1. CASE S = {}
    BY <1>2, <2>1, QuietStepKeepsIInv DEF ParseOptions, Phases
  <2>2. CASE S # {}
    <3>1. state \in [Plugins -> Invalid..Resolved]
      BY <1>2 DEF ParseOptions, NothingLoadedEarly, Invalid, Resolved, Deleted
    <3>2. ResolveDependencies(installation.nameOrder, state, hasError,
                              disabledIndirectly \union S)
      BY <1>2, <2>2 DEF ParseOptions
    <3> QED
      BY <1>2, <3>1, <3>2, ResolveDependenciesKeepsIInv DEF ParseOptions, Phases
  <2> QED
    BY <2>1, <2>2
<1>3. CASE Abort
  BY <1>3, QuietStepKeepsIInv DEF Abort, Phases
<1>4. CASE StartLoading
  BY <1>4, QuietStepKeepsIInv DEF StartLoading, EnterLoop, FlagErrors, Phases
<1>5. ASSUME NEW p \in Plugins, LoadLibrary(p) PROVE IInv'
  BY <1>5, ClimbKeepsIInv DEF LoadLibrary, Iteration
<1>6. CASE StartInitializing
  BY <1>6, QuietStepKeepsIInv DEF StartInitializing, EnterLoop, Phases
<1>7. ASSUME NEW p \in Plugins, Initialize(p) PROVE IInv'
  BY <1>7, ClimbKeepsIInv DEF Initialize, Iteration
<1>8. CASE StartExtensions
  BY <1>8, QuietStepKeepsIInv DEF StartExtensions, EnterLoop, Phases
<1>9. ASSUME NEW p \in Plugins, ExtensionsInitialized(p) PROVE IInv'
  <2>1. CASE Skipped(p, Running)
    BY <1>9, <2>1, QuietStepKeepsIInv DEF ExtensionsInitialized, Iteration
  <2>2. CASE ~Skipped(p, Running)
    <3>1. /\ Running \in Loaded..Deleted
          /\ Running \notin {Loaded, Initialized, Stopped}
      BY DEF Loaded, Initialized, Running, Stopped, Deleted
    <3> QED
      BY <1>9, <2>2, <3>1, AdvanceKeepsIInv DEF ExtensionsInitialized, Iteration
  <2> QED
    BY <2>1, <2>2
<1>10. CASE Execute
  BY <1>10, QuietStepKeepsIInv DEF Execute, Phases
<1>11. ASSUME NEW n \in 0..Len(delayedInitializeQueue), NextDelayedInitialize(n)
       PROVE  IInv'
  BY <1>11, QuietStepKeepsIInv DEF NextDelayedInitialize
<1>12. CASE Shutdown
  BY <1>12, QuietStepKeepsIInv DEF Shutdown, EnterLoop, FlagErrors, Phases
<1>13. ASSUME NEW p \in Plugins, NEW a \in BOOLEAN, AboutToShutdown(p, a)
       PROVE  IInv'
  <2>1. CASE UNCHANGED <<state, hasError>>
    BY <1>13, <2>1, QuietStepKeepsIInv DEF AboutToShutdown, Iteration
  <2>2. CASE Flag(p)
    BY <1>13, <2>2, QuietStepKeepsIInv DEF AboutToShutdown, Iteration, Flag
  <2>3. CASE ~Skipped(p, Stopped) /\ RequiredReached(p, Stopped) /\ Advance(p, Stopped)
    <3>1. Stopped \in Loaded..Deleted
      BY DEF Loaded, Stopped, Deleted
    <3> QED
      BY <1>13, <2>3, <3>1, AdvanceKeepsIInv DEF AboutToShutdown, Iteration
  <2> QED
    BY <1>13, <2>1, <2>2, <2>3 DEF AboutToShutdown
<1>14. CASE EndOfStopAll
  BY <1>14, QuietStepKeepsIInv
  DEF EndOfStopAll, EnterDeleteAll, EnterLoop, FlagErrors, Phases
<1>15. ASSUME NEW p \in Plugins, AsyncShutdownFinished(p) PROVE IInv'
  BY <1>15, QuietStepKeepsIInv
  DEF AsyncShutdownFinished, EnterDeleteAll, EnterLoop, FlagErrors, Phases
<1>16. ASSUME NEW p \in Plugins, Kill(p) PROVE IInv'
  <2>1. CASE Skipped(p, Deleted)
    BY <1>16, <2>1, QuietStepKeepsIInv DEF Kill, Iteration
  <2>2. CASE ~Skipped(p, Deleted)
    <3>1. /\ Deleted \in Loaded..Deleted
          /\ Deleted \notin {Loaded, Initialized, Stopped}
      BY DEF Loaded, Initialized, Stopped, Deleted
    <3> QED
      BY <1>16, <2>2, <3>1, AdvanceKeepsIInv DEF Kill, Iteration
  <2> QED
    BY <2>1, <2>2
<1>17. CASE EndOfDeleteAll
  BY <1>17, QuietStepKeepsIInv DEF EndOfDeleteAll, Phases
<1>18. CASE UNCHANGED vars
  BY <1>18, QuietStepKeepsIInv DEF vars
<1> QED
  BY <1>1, <1>2, <1>3, <1>4, <1>5, <1>6, <1>7, <1>8, <1>9, <1>10, <1>11,
     <1>12, <1>13, <1>14, <1>15, <1>16, <1>17, <1>18
  DEF Next, Startup, Timer, Teardown, Terminated

(* A plugin never outruns the plugins it requires (loadPlugin(),           *)
(* pluginmanager.cpp), for any dependency graph and any load queue.        *)
THEOREM RequiredFirst == Spec => []RequiredDependenciesFirst
<1>1. IInv => RequiredDependenciesFirst
  BY DEF IInv
<1> QED
  BY <1>1, Initially, Inductive, PTL DEF Spec

(* A disabled plugin, and a plugin that requires a disabled one, is never  *)
(* loaded (the early return and the dependency check of loadPlugin()).     *)
THEOREM DisabledOut == Spec => []DisabledNeverLoaded
<1>1. IInv => DisabledNeverLoaded
  <2> SUFFICES ASSUME IInv, NEW p \in Plugins,
                      \/ ~Enabled(p) \/ p \in disabledIndirectly
                      \/ \E d \in RequiredSpecs(p) :
                            ~Enabled(d) \/ d \in disabledIndirectly
               PROVE  state[p] <= Resolved
    BY DEF DisabledNeverLoaded
  <2>1. CASE ~Enabled(p) \/ p \in disabledIndirectly
    BY <2>1 DEF IInv, DisabledStays
  <2>2. ASSUME NEW d \in RequiredSpecs(p),
               ~Enabled(d) \/ d \in disabledIndirectly
        PROVE  state[p] <= Resolved
    <3>1. d \in Plugins
      BY RequiredArePlugins DEF IInv, StateType
    <3>2. state[d] <= Resolved
      BY <2>2, <3>1 DEF IInv, DisabledStays
    <3> QED
      BY <3>1, <3>2
      DEF IInv, StateType, RequiredDependenciesFirst, Invalid, Resolved,
          Loaded, Initialized, Running, Stopped, Deleted
  <2> QED
    BY <2>1, <2>2
<1> QED
  BY <1>1, Initially, Inductive, PTL DEF Spec
-----------------------------------------------------------------------------
(* The load queue.                                                         *)

(* The values of a walk along a list: f[i] is that after i calls.         *)
Course(f, call, list, walk) ==
    /\ f[0] = walk
    /\ \A i \in 1..Len(list) : f[i] = call[list[i]][f[i - 1]]

(* The recursive function of Along exists: it is made step by step.        *)
LEMMA AlongSteps ==
    ASSUME NEW call, NEW list, NEW walk, Len(list) \in Nat
    PROVE  \E f : /\ Along(call, list, walk) = f[Len(list)]
                  /\ Course(f, call, list, walk)
<1> DEFINE n == Len(list)
           Item(f, i) == IF i = 0 THEN walk ELSE call[list[i]][f[i - 1]]
           All(f) == [i \in 0..n |-> Item(f, i)]
<1>0. n \in Nat
  OBVIOUS
<1>1. \E f : f = All(f)
  <2> DEFINE Begins(k) == \E f : \A i \in 0..k : f[i] = Item(f, i)
             T == {k \in Nat : Begins(k)}
  <2>1. 0 \in T
    <3> DEFINE f == [i \in {0} |-> walk]
    <3>1. \A i \in 0..0 : f[i] = Item(f, i)
      OBVIOUS
    <3> HIDE DEF f
    <3> QED BY <3>1
  <2>2. \A k \in T : k + 1 \in T
    <3> TAKE k \in T
    <3>1. PICK f : \A i \in 0..k : f[i] = Item(f, i)
      OBVIOUS
    <3> DEFINE g == [i \in 0..(k + 1) |->
                          IF i <= k THEN f[i] ELSE Item(f, i)]
    <3>2. \A i \in 0..(k + 1) : g[i] = Item(g, i)
      <4> TAKE i \in 0..(k + 1)
      <4>1. CASE i <= k
        <5> /\ i \in 0..k
            /\ i # 0 => i - 1 \in 0..k /\ i - 1 <= k /\ i - 1 \in 0..(k + 1)
          BY <4>1
        <5>1. g[i] = f[i] /\ (i # 0 => g[i - 1] = f[i - 1])
          BY <4>1
        <5> HIDE DEF g
        <5> QED BY <3>1, <5>1
      <4>2. CASE i = k + 1
        <5> /\ ~(i <= k)
            /\ i # 0 => i - 1 \in 0..k /\ i - 1 <= k /\ i - 1 \in 0..(k + 1)
          BY <4>2
        <5>1. g[i] = Item(f, i) /\ (i # 0 => g[i - 1] = f[i - 1])
          BY <4>2
        <5> HIDE DEF g
        <5> QED BY <5>1
      <4> QED BY <4>1, <4>2
    <3> HIDE DEF g
    <3> QED BY <3>2
  <2>3. T = Nat
    <3> T \in SUBSET Nat OBVIOUS
    <3> HIDE DEF T
    <3> QED BY <2>1, <2>2, NatSets
  <2>4. PICK f : \A i \in 0..n : f[i] = Item(f, i)
    <3> n \in T BY <1>0, <2>3
    <3> QED OBVIOUS
  <2> DEFINE g == [i \in 0..n |-> f[i]]
  <2>5. g = All(g)
    <3> SUFFICES ASSUME NEW i \in 0..n
                 PROVE  f[i] = Item(g, i)
      OBVIOUS
    <3> i # 0 => i - 1 \in 0..n
      OBVIOUS
    <3> QED BY <2>4
  <2> HIDE DEF g
  <2> QED BY <2>5
<1> DEFINE F == CHOOSE f : f = All(f)
<1>2. F = All(F)
  <2> HIDE DEF All
  <2> QED BY <1>1
<1>3. Along(call, list, walk) = F[n]
  BY Zenon DEF Along
<1>4. F[0] = walk
  <2> 0 \in 0..n BY <1>0
  <2> HIDE DEF F
  <2> QED BY <1>2
<1>5. ASSUME NEW i \in 1..n
      PROVE  F[i] = call[list[i]][F[i - 1]]
  <2>1. i \in 0..n /\ i # 0
    BY <1>0
  <2> HIDE DEF F
  <2> QED BY <1>2, <2>1
<1> HIDE DEF F
<1> QED BY <1>3, <1>4, <1>5 DEF Course

(* What holds before the first call, and of the walk after each call if it *)
(* held before, holds in the end; T[i] is what holds after i calls.        *)
LEMMA AlongKeeps ==
    ASSUME NEW call, NEW E, NEW list \in Seq(E), NEW walk, NEW T,
           walk \in T[0],
           \A i \in 1..Len(list) : \A w \in T[i - 1] :
              call[list[i]][w] \in T[i]
    PROVE  Along(call, list, walk) \in T[Len(list)]
<1>0. Len(list) \in Nat
  OBVIOUS
<1> DEFINE n == Len(list)
<1>1. PICK f : Along(call, list, walk) = f[n] /\ Course(f, call, list, walk)
  BY <1>0, AlongSteps
<1>2. n \in Nat
  OBVIOUS
<1> HIDE DEF n
<1> DEFINE K == {i \in Nat : i <= n => f[i] \in T[i]}
<1>3. 0 \in K
  BY <1>1 DEF Course
<1>4. \A k \in K : k + 1 \in K
  <2> SUFFICES ASSUME NEW k \in K, k + 1 <= n
               PROVE  f[k + 1] \in T[k + 1]
    OBVIOUS
  <2> DEFINE i == k + 1
  <2>1. i \in 1..n /\ i - 1 = k /\ k <= n
    BY <1>2
  <2>2. f[k] \in T[k]
    BY <2>1
  <2> HIDE DEF i
  <2>3. f[i - 1] \in T[i - 1]
    BY <2>1, <2>2
  <2>4. f[i] \in T[i]
    BY <1>1, <2>1, <2>3 DEF n, Course
  <2> QED BY <2>4 DEF i
<1>5. n \in K
  <2> K \in SUBSET Nat OBVIOUS
  <2> HIDE DEF K
  <2> QED BY <1>2, <1>3, <1>4, NatSets
<1> QED
  BY <1>1, <1>2, <1>5 DEF n

(* A queue has no spec twice, and a spec that is resolved behind all its   *)
(* dependencies D[p].                                                      *)
Sorted(D, unresolved, q) ==
    /\ \A i, j \in DOMAIN q : q[i] = q[j] => i = j
    /\ \A i \in DOMAIN q : q[i] \notin unresolved =>
          \A k \in DOMAIN D[q[i]] :
             \E j \in DOMAIN q : j < i /\ q[j] = D[q[i]][k].spec

(* A walk goes from v to w: nothing is taken back, and what is queued is   *)
(* not in the circle that was being checked.                               *)
Continues(D, unresolved, v, w) ==
    /\ v \in Walk /\ w \in Walk
    /\ DOMAIN v.queue \subseteq DOMAIN w.queue
    /\ \A i \in DOMAIN v.queue : w.queue[i] = v.queue[i]
    /\ v.circularity \subseteq w.circularity /\ v.errors \subseteq w.errors
    /\ Sorted(D, unresolved, v.queue) => Sorted(D, unresolved, w.queue)
    /\ Range(w.queue) \cap v.circularity \subseteq Range(v.queue)

(* What a call for p makes of v.                                           *)
Visited(D, unresolved, p, v, w) ==
    /\ Continues(D, unresolved, v, w)
    /\ IF w.ok THEN p \in Range(w.queue)
       ELSE p \in w.errors \union Range(w.queue)

GoodCalls(D, unresolved) ==
    {call \in [Plugins -> [Walk -> Walk]] :
        \A p \in Plugins : \A v \in Walk :
           Visited(D, unresolved, p, v, call[p][v])}

LEMMA RangeIs ==
    ASSUME NEW f, NEW x
    PROVE  x \in Range(f) <=> \E i \in DOMAIN f : f[i] = x
  BY DEF Range

LEMMA WalkType ==
    ASSUME NEW w \in Walk
    PROVE  /\ w.queue \in Seq(Plugins) /\ w.circularity \in SUBSET Plugins
           /\ w.errors \in SUBSET Plugins /\ w.ok \in BOOLEAN
           /\ DOMAIN w.queue = 1..Len(w.queue) /\ Len(w.queue) \in Nat
           /\ Range(w.queue) \subseteq Plugins
<1>1. w.queue \in Seq(Plugins)
  BY DEF Walk
<1> QED
  BY <1>1 DEF Walk, Range

LEMMA StaysContinues ==
    ASSUME NEW D, NEW unresolved, NEW v \in Walk, NEW w \in Walk,
           w.queue = v.queue, v.circularity \subseteq w.circularity,
           v.errors \subseteq w.errors
    PROVE  Continues(D, unresolved, v, w)
  BY DEF Continues

LEMMA ContinuesOn ==
    ASSUME NEW D, NEW unresolved, NEW u, NEW v, NEW w,
           Continues(D, unresolved, u, v), Continues(D, unresolved, v, w)
    PROVE  Continues(D, unresolved, u, w)
<1>1. /\ DOMAIN u.queue \subseteq DOMAIN w.queue
      /\ \A i \in DOMAIN u.queue : w.queue[i] = u.queue[i]
  BY DEF Continues
<1>2. Range(w.queue) \cap u.circularity \subseteq Range(u.queue)
  BY DEF Continues
<1> QED
  BY <1>1, <1>2 DEF Continues

LEMMA StaysQueued ==
    ASSUME NEW D, NEW unresolved, NEW v, NEW w,
           Continues(D, unresolved, v, w)
    PROVE  Range(v.queue) \subseteq Range(w.queue)
  BY RangeIs DEF Continues

(* A spec is queued at the end, if its dependencies are there already.     *)
LEMMA QueuedContinues ==
    ASSUME NEW D, NEW unresolved, NEW v \in Walk, NEW w \in Walk,
           NEW p \in Plugins, p \notin Range(v.queue), p \notin v.circularity,
           w.queue = Append(v.queue, p),
           v.circularity \subseteq w.circularity, v.errors \subseteq w.errors,
           p \notin unresolved =>
              \A k \in DOMAIN D[p] : D[p][k].spec \in Range(v.queue)
    PROVE  Continues(D, unresolved, v, w) /\ p \in Range(w.queue)
<1> DEFINE n == Len(v.queue)
<1>1. /\ n \in Nat /\ DOMAIN v.queue = 1..n /\ DOMAIN w.queue = 1..(n + 1)
      /\ \A i \in 1..n : w.queue[i] = v.queue[i]
      /\ w.queue[n + 1] = p
  BY WalkType
<1> HIDE DEF n
<1>2. DOMAIN v.queue \subseteq DOMAIN w.queue
  BY <1>1
<1>3. \A i \in DOMAIN v.queue : v.queue[i] # p
  BY RangeIs
<1>4. ASSUME Sorted(D, unresolved, v.queue)
      PROVE  Sorted(D, unresolved, w.queue)
  <2>1. ASSUME NEW i \in DOMAIN w.queue, NEW j \in DOMAIN w.queue,
               w.queue[i] = w.queue[j]
        PROVE  i = j
    <3>1. (i \in 1..n \/ i = n + 1) /\ (j \in 1..n \/ j = n + 1)
      BY <1>1
    <3>2. CASE i \in 1..n /\ j \in 1..n
      BY <1>1, <1>4, <2>1, <3>2 DEF Sorted
    <3> QED BY <1>1, <1>3, <2>1, <3>1, <3>2
  <2>2. ASSUME NEW i \in DOMAIN w.queue, w.queue[i] \notin unresolved,
               NEW k \in DOMAIN D[w.queue[i]]
        PROVE  \E j \in DOMAIN w.queue :
                  j < i /\ w.queue[j] = D[w.queue[i]][k].spec
    <3>1. CASE i \in 1..n
      <4>1. \E j \in 1..n : j < i /\ v.queue[j] = D[v.queue[i]][k].spec
        BY <1>1, <1>4, <2>2, <3>1 DEF Sorted
      <4> QED BY <1>1, <1>2, <3>1, <4>1
    <3>2. CASE i = n + 1
      <4>1. D[p][k].spec \in Range(v.queue)
        BY <1>1, <2>2, <3>2
      <4>2. PICK j \in 1..n : v.queue[j] = D[p][k].spec
        BY <1>1, <4>1, RangeIs
      <4>3. j < i
        BY <1>1, <3>2
      <4> QED BY <1>1, <1>2, <3>2, <4>2, <4>3
    <3> QED BY <1>1, <3>1, <3>2
  <2> QED BY <2>1, <2>2 DEF Sorted
<1>5. Range(w.queue) \cap v.circularity \subseteq Range(v.queue)
  <2> SUFFICES ASSUME NEW x \in Range(w.queue), x \in v.circularity
               PROVE  x \in Range(v.queue)
    OBVIOUS
  <2>1. PICK i \in DOMAIN w.queue : w.queue[i] = x
    BY RangeIs
  <2>2. x # p
    OBVIOUS
  <2>3. i \in DOMAIN v.queue /\ v.queue[i] = x
    BY <1>1, <2>1, <2>2
  <2> QED BY <2>3, RangeIs
<1>6. p \in Range(w.queue)
  <2>1. n + 1 \in DOMAIN w.queue
    BY <1>1
  <2> QED BY <1>1, <2>1, RangeIs
<1> QED
  BY <1>1, <1>2, <1>4, <1>5, <1>6 DEF Continues

LEMMA CircularGood ==
    ASSUME NEW D, NEW unresolved
    PROVE  Circular \in GoodCalls(D, unresolved)
<1>1. ASSUME NEW p \in Plugins, NEW v \in Walk
      PROVE  /\ Circular[p][v] \in Walk
             /\ Visited(D, unresolved, p, v, Circular[p][v])
  <2> DEFINE w == [v EXCEPT !.ok = FALSE, !.errors = @ \union {p}]
  <2>1. Circular[p][v] = w
    BY DEF Circular
  <2>2. /\ w \in Walk /\ w.queue = v.queue /\ w.circularity = v.circularity
        /\ w.errors = v.errors \union {p} /\ w.ok = FALSE
    BY DEF Walk
  <2> HIDE DEF w
  <2>3. Continues(D, unresolved, v, w)
    BY <2>2, StaysContinues
  <2>4. Visited(D, unresolved, p, v, w)
    BY <2>2, <2>3 DEF Visited
  <2> QED BY <2>1, <2>2, <2>4
<1>2. Circular \in [Plugins -> [Walk -> Walk]]
  <2>1. Circular = [p \in Plugins |-> [v \in Walk |->
                      [v EXCEPT !.ok = FALSE, !.errors = @ \union {p}]]]
    BY DEF Circular
  <2>2. \A p \in Plugins : \A v \in Walk :
           [v EXCEPT !.ok = FALSE, !.errors = @ \union {p}] \in Walk
    BY DEF Walk
  <2> QED BY <2>1, <2>2
<1> QED
  BY <1>1, <1>2 DEF GoodCalls

(* The walk along the dependencies of a spec: if no call failed, they are  *)
(* in the queue.                                                           *)
LEMMA DependenciesQueued ==
    ASSUME NEW D, NEW unresolved, NEW call \in GoodCalls(D, unresolved),
           NEW list \in Seq(Dependency), NEW v \in Walk, v.ok,
           NEW w, w = Along(UntilOneFails(call), list, v)
    PROVE  /\ Continues(D, unresolved, v, w)
           /\ w.ok => \A k \in DOMAIN list : list[k].spec \in Range(w.queue)
<1> DEFINE Queued(i, u) == \A k \in 1..i : list[k].spec \in Range(u.queue)
           T == [i \in 0..Len(list) |->
                   {u \in Walk : /\ Continues(D, unresolved, v, u)
                                 /\ u.ok => Queued(i, u)}]
<1>1. Len(list) \in Nat /\ DOMAIN list = 1..Len(list)
  OBVIOUS
<1>2. v \in T[0]
  <2>1. Continues(D, unresolved, v, v)
    BY StaysContinues
  <2>2. Queued(0, v)
    OBVIOUS
  <2> QED BY <1>1, <2>1, <2>2
<1>3. ASSUME NEW i \in 1..Len(list), NEW u \in T[i - 1]
      PROVE  UntilOneFails(call)[list[i]][u] \in T[i]
  <2> DEFINE x == UntilOneFails(call)[list[i]][u]
             d == list[i].spec
  <2>1. i - 1 \in 0..Len(list) /\ i \in 0..Len(list)
    BY <1>1
  <2>2. /\ u \in Walk /\ Continues(D, unresolved, v, u)
        /\ u.ok => Queued(i - 1, u)
    BY <2>1
  <2>3. list[i] \in Dependency /\ d \in Plugins
    <3>1. list[i] \in Dependency
      OBVIOUS
    <3> QED BY <3>1 DEF Dependency
  <2>4. x = IF u.ok THEN call[d][u] ELSE u
    BY <2>2, <2>3 DEF UntilOneFails
  <2> HIDE DEF x, T
  <2>5. ASSUME ~u.ok PROVE x \in T[i]
    BY <2>1, <2>2, <2>4, <2>5 DEF T
  <2>6. ASSUME u.ok PROVE x \in T[i]
    <3>1. x \in Walk /\ Visited(D, unresolved, d, u, x)
      BY <2>2, <2>3, <2>4, <2>6 DEF GoodCalls
    <3>2. Continues(D, unresolved, u, x)
      BY <3>1 DEF Visited
    <3>3. Continues(D, unresolved, v, x)
      BY <2>2, <3>2, ContinuesOn
    <3>4. ASSUME x.ok PROVE Queued(i, x)
      <4>1. d \in Range(x.queue)
        BY <3>1, <3>4 DEF Visited
      <4>2. Range(u.queue) \subseteq Range(x.queue)
        BY <3>2, StaysQueued
      <4>3. \A k \in 1..i : k \in 1..(i - 1) \/ k = i
        BY <1>1
      <4> QED BY <2>2, <2>6, <4>1, <4>2, <4>3
    <3> HIDE DEF Queued
    <3> QED BY <2>1, <3>1, <3>3, <3>4 DEF T
  <2> QED BY <2>5, <2>6 DEF x
<1>4. w \in T[Len(list)]
  <2> HIDE DEF T
  <2> QED BY <1>2, <1>3, AlongKeeps
<1> QED
  BY <1>1, <1>4

LEMMA CallsGood ==
    ASSUME NEW D \in [Plugins -> Seq(Dependency)], NEW unresolved,
           NEW call \in GoodCalls(D, unresolved)
    PROVE  Calls(D, unresolved, call) \in GoodCalls(D, unresolved)
<1> DEFINE Entered(p, v) ==
              [v EXCEPT !.circularity = @ \union {p}, !.ok = TRUE]
           Left(p, v) == Along(UntilOneFails(call), D[p], Entered(p, v))
           Result(p, v) ==
              IF p \in Range(v.queue) THEN [v EXCEPT !.ok = TRUE]
              ELSE IF p \in v.circularity THEN Circular[p][v]
              ELSE IF p \in unresolved
              THEN [Entered(p, v) EXCEPT !.ok = FALSE, !.queue = Append(@, p)]
              ELSE IF Left(p, v).ok
              THEN [Left(p, v) EXCEPT !.queue = Append(@, p)]
              ELSE [Left(p, v) EXCEPT !.errors = @ \union {p}]
<1>1. ASSUME NEW p \in Plugins, NEW v \in Walk
      PROVE  Visited(D, unresolved, p, v, Result(p, v))
  <2> DEFINE e == Entered(p, v)
             l == Left(p, v)
             r == Result(p, v)
  <2>1. CASE p \in Range(v.queue)
    <3>1. r = [v EXCEPT !.ok = TRUE]
      BY <2>1
    <3>2. r \in Walk /\ r.queue = v.queue /\ r.circularity = v.circularity
          /\ r.errors = v.errors /\ r.ok
      BY <3>1 DEF Walk
    <3> HIDE DEF r
    <3>3. Continues(D, unresolved, v, r)
      BY <3>2, StaysContinues
    <3> QED BY <2>1, <3>2, <3>3 DEF Visited, r
  <2>2. CASE p \notin Range(v.queue) /\ p \in v.circularity
    <3>1. r = Circular[p][v]
      BY <2>2
    <3> HIDE DEF r
    <3>2. Visited(D, unresolved, p, v, r)
      BY <3>1, CircularGood DEF GoodCalls
    <3> QED BY <3>2 DEF r
  <2>3. ASSUME p \notin Range(v.queue), p \notin v.circularity
        PROVE  Visited(D, unresolved, p, v, r)
    <3>1. /\ e \in Walk /\ e.queue = v.queue /\ e.errors = v.errors /\ e.ok
          /\ e.circularity = v.circularity \union {p}
      BY DEF Walk
    <3>2. CASE p \in unresolved
      <4>1. r = [e EXCEPT !.ok = FALSE, !.queue = Append(@, p)]
        BY <2>3, <3>2
      <4> HIDE DEF e, r
      <4>2. /\ r \in Walk /\ r.queue = Append(v.queue, p)
            /\ r.circularity = e.circularity /\ r.errors = v.errors
            /\ r.ok = FALSE
        <5>1. Append(e.queue, p) \in Seq(Plugins)
          BY <3>1, WalkType
        <5> QED BY <3>1, <4>1, <5>1 DEF Walk
      <4>3. Continues(D, unresolved, v, r) /\ p \in Range(r.queue)
        BY <2>3, <3>1, <3>2, <4>2, QueuedContinues
      <4> QED BY <4>2, <4>3 DEF Visited
    <3>3. ASSUME p \notin unresolved
          PROVE  Visited(D, unresolved, p, v, r)
      <4>1. D[p] \in Seq(Dependency) /\ l = Along(UntilOneFails(call), D[p], e)
        OBVIOUS
      <4>2. r = IF l.ok THEN [l EXCEPT !.queue = Append(@, p)]
                ELSE [l EXCEPT !.errors = @ \union {p}]
        BY <2>3, <3>3
      <4> HIDE DEF e, l, r
      <4>3. /\ Continues(D, unresolved, e, l) /\ l \in Walk
            /\ l.ok => \A k \in DOMAIN D[p] : D[p][k].spec \in Range(l.queue)
        <5>1. /\ Continues(D, unresolved, e, l)
              /\ l.ok => \A k \in DOMAIN D[p] : D[p][k].spec \in Range(l.queue)
          BY <3>1, <4>1, DependenciesQueued
        <5> QED BY <5>1 DEF Continues
      <4>4. Continues(D, unresolved, v, e)
        BY <3>1, StaysContinues
      <4>5. Continues(D, unresolved, v, l)
        BY <4>3, <4>4, ContinuesOn
      <4>6. p \notin Range(l.queue) /\ v.circularity \subseteq l.circularity
        BY <2>3, <3>1, <4>3, <4>5 DEF Continues
      <4>7. CASE l.ok
        <5>1. /\ r \in Walk /\ r.queue = Append(l.queue, p) /\ r.ok
              /\ r.circularity = l.circularity /\ r.errors = l.errors
          <6>1. Append(l.queue, p) \in Seq(Plugins)
            BY <4>3, WalkType
          <6> QED BY <4>2, <4>3, <4>7, <6>1 DEF Walk
        <5> DEFINE m == [l EXCEPT !.circularity = v.circularity]
        <5>3. /\ m \in Walk /\ m.queue = l.queue
              /\ m.circularity = v.circularity /\ m.errors = l.errors
          BY <4>3 DEF Walk
        <5> HIDE DEF m
        <5>4. Continues(D, unresolved, v, m)
          BY <4>5, <5>3 DEF Continues
        <5>5. Continues(D, unresolved, m, r) /\ p \in Range(r.queue)
          BY <2>3, <4>3, <4>6, <4>7, <5>1, <5>3, QueuedContinues
        <5>6. Continues(D, unresolved, v, r)
          BY <5>4, <5>5, ContinuesOn
        <5> QED BY <5>1, <5>5, <5>6 DEF Visited
      <4>8. CASE ~l.ok
        <5>1. /\ r \in Walk /\ r.queue = l.queue /\ r.ok = l.ok
              /\ r.circularity = l.circularity
              /\ r.errors = l.errors \union {p}
          BY <4>2, <4>3, <4>8 DEF Walk
        <5>2. Continues(D, unresolved, l, r)
          BY <4>3, <5>1, StaysContinues
        <5>3. Continues(D, unresolved, v, r)
          BY <4>5, <5>2, ContinuesOn
        <5> QED BY <4>8, <5>1, <5>3 DEF Visited
      <4> QED BY <4>7, <4>8
    <3> QED BY <3>2, <3>3
  <2> HIDE DEF Result
  <2> QED BY <2>1, <2>2, <2>3
<1>2. Calls(D, unresolved, call)
         = [p \in Plugins |-> [v \in Walk |-> Result(p, v)]]
  BY Zenon DEF Calls
<1> HIDE DEF Result
<1>3. \A p \in Plugins : \A v \in Walk : Result(p, v) \in Walk
  BY <1>1 DEF Visited, Continues
<1> QED
  BY <1>1, <1>2, <1>3 DEF GoodCalls

(* The calls at each depth of nesting.                                     *)
Nested(f, D, unresolved, n) ==
    f = [i \in 0..n |-> IF i = 0 THEN Circular
                        ELSE Calls(D, unresolved, f[i - 1])]

(* The recursive function of NestedCalls exists: it is a course along n    *)
(* equal elements.                                                         *)
LEMMA NestedSteps ==
    ASSUME NEW D \in [Plugins -> Seq(Dependency)], NEW unresolved,
           NEW n \in Nat
    PROVE  \E f : Nested(f, D, unresolved, n)
<1> DEFINE G == GoodCalls(D, unresolved)
           step == [x \in {0} |-> [call \in G |-> Calls(D, unresolved, call)]]
           list == [i \in 1..n |-> 0]
<1>1. Len(list) = n /\ Len(list) \in Nat /\ \A i \in 1..n : list[i] = 0
  <2>1. list \in [1..n -> {0}]
    OBVIOUS
  <2>2. Len(list) = n
    <3> HIDE DEF list
    <3> QED BY <2>1, SeqType
  <2> QED BY <2>2
<1>2. \A call \in G : step[0][call] = Calls(D, unresolved, call)
  OBVIOUS
<1>3. Circular \in G /\ \A call \in G : Calls(D, unresolved, call) \in G
  BY CircularGood, CallsGood
<1> HIDE DEF G, step, list
<1>4. PICK f : Course(f, step, list, Circular)
  BY <1>1, AlongSteps
<1>5. f[0] = Circular /\ \A i \in 1..n : f[i] = step[0][f[i - 1]]
  BY <1>1, <1>4 DEF Course
<1> DEFINE K == {i \in Nat : i <= n => f[i] \in G}
<1>6. K = Nat
  <2>1. 0 \in K
    BY <1>3, <1>5
  <2>2. ASSUME NEW k \in K PROVE k + 1 \in K
    <3> SUFFICES ASSUME k + 1 <= n PROVE f[k + 1] \in G
      OBVIOUS
    <3> DEFINE i == k + 1
    <3>1. i \in 1..n /\ i - 1 = k /\ f[k] \in G
      OBVIOUS
    <3> HIDE DEF i
    <3>2. f[i] = step[0][f[k]]
      BY <1>5, <3>1
    <3>3. f[i] \in G
      BY <1>2, <1>3, <3>1, <3>2
    <3> QED BY <3>3 DEF i
  <2> K \in SUBSET Nat OBVIOUS
  <2> HIDE DEF K
  <2> QED BY <2>1, <2>2, NatSets
<1>7. \A i \in 1..n : f[i] = Calls(D, unresolved, f[i - 1])
  <2> TAKE i \in 1..n
  <2>1. i - 1 \in K /\ i - 1 <= n
    BY <1>6
  <2>2. f[i - 1] \in G
    BY <2>1
  <2> QED BY <1>2, <1>5, <2>2
<1> DEFINE g == [i \in 0..n |-> f[i]]
           Item(h, i) == IF i = 0 THEN Circular
                         ELSE Calls(D, unresolved, h[i - 1])
<1>8. \A i \in 0..n : g[i] = Item(g, i)
  <2> TAKE i \in 0..n
  <2>1. CASE i = 0
    BY <1>5, <2>1
  <2>2. CASE i # 0
    <3>1. i \in 1..n /\ i - 1 \in 0..n
      BY <2>2
    <3>2. g[i] = f[i] /\ g[i - 1] = f[i - 1]
      BY <3>1
    <3> HIDE DEF g
    <3> QED BY <1>7, <2>2, <3>1, <3>2
  <2> QED BY <2>1, <2>2
<1>9. DOMAIN g = 0..n /\ g = [i \in 0..n |-> g[i]]
  OBVIOUS
<1> HIDE DEF g
<1>10. g = [i \in 0..n |-> Item(g, i)]
  BY <1>8, <1>9
<1> QED
  BY <1>10 DEF Nested

LEMMA NestedGood ==
    ASSUME NEW D \in [Plugins -> Seq(Dependency)], NEW unresolved
    PROVE  NestedCalls(D, unresolved) \in GoodCalls(D, unresolved)
<1> DEFINE G == GoodCalls(D, unresolved)
           n == Cardinality(Plugins) + 1
           nested == CHOOSE f : Nested(f, D, unresolved, n)
<1>1. n \in Nat
  BY PluginsAssumption, FS_CardinalityType
<1>2. NestedCalls(D, unresolved) = nested[n]
  BY Zenon DEF NestedCalls, Nested
<1>3. Nested(nested, D, unresolved, n)
  <2>1. \E f : Nested(f, D, unresolved, n)
    BY <1>1, NestedSteps
  <2> QED BY <2>1
<1> HIDE DEF nested, n
<1>4. /\ nested[0] = Circular
      /\ \A i \in 1..n : nested[i] = Calls(D, unresolved, nested[i - 1])
  <2>1. \A i \in 0..n : nested[i] = IF i = 0 THEN Circular
                                    ELSE Calls(D, unresolved, nested[i - 1])
    BY <1>3 DEF Nested
  <2>2. 0 \in 0..n /\ \A i \in 1..n : i \in 0..n /\ i # 0
    BY <1>1
  <2> QED BY <2>1, <2>2
<1> DEFINE K == {i \in Nat : i <= n => nested[i] \in G}
<1>5. K = Nat
  <2>1. 0 \in K
    BY <1>4, CircularGood
  <2>2. ASSUME NEW k \in K PROVE k + 1 \in K
    <3> SUFFICES ASSUME k + 1 <= n PROVE nested[k + 1] \in G
      OBVIOUS
    <3> DEFINE i == k + 1
    <3>1. i \in 1..n /\ i - 1 = k /\ nested[k] \in G
      BY <1>1
    <3> HIDE DEF i
    <3>2. nested[i] = Calls(D, unresolved, nested[k])
      BY <1>4, <3>1
    <3>3. nested[i] \in G
      BY <3>1, <3>2, CallsGood
    <3> QED BY <3>3 DEF i
  <2> K \in SUBSET Nat OBVIOUS
  <2> HIDE DEF K
  <2> QED BY <2>1, <2>2, NatSets
<1> QED
  BY <1>1, <1>2, <1>5

(* The load queue of a list of specs is sorted, and each of them is queued *)
(* or flagged.                                                             *)
LEMMA LoadQueueGood ==
    ASSUME NEW D \in [Plugins -> Seq(Dependency)], NEW unresolved,
           NEW specs \in Seq(Plugins),
           NEW w, w = LoadQueueOf(D, specs, unresolved)
    PROVE  /\ w \in Walk /\ Sorted(D, unresolved, w.queue)
           /\ Range(specs) \subseteq w.errors \union Range(w.queue)
<1> DEFINE call == NestedCalls(D, unresolved)
           Reset(v) == [v EXCEPT !.circularity = {}]
           roots == [p \in Plugins |-> [v \in Walk |-> call[p][Reset(v)]]]
           new == [queue |-> <<>>, circularity |-> {}, errors |-> {},
                   ok |-> TRUE]
           Reached(i, v) ==
              \A k \in 1..i : specs[k] \in v.errors \union Range(v.queue)
           T == [i \in 0..Len(specs) |->
                   {v \in Walk : Sorted(D, unresolved, v.queue)
                                   /\ Reached(i, v)}]
<1>1. /\ Len(specs) \in Nat /\ DOMAIN specs = 1..Len(specs)
      /\ \A i \in 1..Len(specs) : specs[i] \in Plugins
  OBVIOUS
<1>2. w = Along(roots, specs, new)
  BY Zenon DEF LoadQueueOf
<1>3. new \in T[0]
  <2>1. new \in Walk /\ new.queue = <<>>
    BY DEF Walk
  <2>2. Sorted(D, unresolved, <<>>) /\ Reached(0, new)
    BY DEF Sorted
  <2> HIDE DEF new, Reached
  <2> QED BY <1>1, <2>1, <2>2
<1> HIDE DEF call, new
<1>4. ASSUME NEW i \in 1..Len(specs), NEW v \in T[i - 1]
      PROVE  roots[specs[i]][v] \in T[i]
  <2> DEFINE p == specs[i]
             u == Reset(v)
             x == roots[p][v]
  <2>1. i - 1 \in 0..Len(specs) /\ i \in 0..Len(specs) /\ p \in Plugins
    BY <1>1
  <2>2. v \in Walk /\ Sorted(D, unresolved, v.queue) /\ Reached(i - 1, v)
    BY <2>1
  <2>3. u \in Walk /\ u.queue = v.queue /\ u.errors = v.errors
    BY <2>2 DEF Walk
  <2>4. x = call[p][u]
    BY <2>1, <2>2
  <2> HIDE DEF x, u, T, roots, p
  <2>5. Visited(D, unresolved, p, u, x)
    BY <2>1, <2>3, <2>4, NestedGood DEF GoodCalls, call
  <2>6. Continues(D, unresolved, u, x)
    BY <2>5 DEF Visited
  <2>7. x \in Walk /\ Sorted(D, unresolved, x.queue) /\ u.errors \subseteq x.errors
    BY <2>2, <2>3, <2>6 DEF Continues
  <2>8. Range(u.queue) \subseteq Range(x.queue)
    BY <2>6, StaysQueued
  <2>9. p \in x.errors \union Range(x.queue)
    BY <2>5 DEF Visited
  <2>10. Reached(i, x)
    <3>1. \A k \in 1..i : k \in 1..(i - 1) \/ k = i
      BY <1>1
    <3> QED BY <2>2, <2>3, <2>7, <2>8, <2>9, <3>1 DEF p
  <2>11. x \in T[i]
    <3> HIDE DEF Reached
    <3> QED BY <2>1, <2>7, <2>10 DEF T
  <2> QED BY <2>11 DEF x, p
<1>5. w \in T[Len(specs)]
  <2> HIDE DEF T, roots
  <2>1. \A i \in 1..Len(specs) : \A v \in T[i - 1] :
           roots[specs[i]][v] \in T[i]
    BY <1>4
  <2>2. Along(roots, specs, new) \in T[Len(specs)]
    BY <1>3, <2>1, AlongKeeps
  <2> QED BY <1>2, <2>2
<1>6. \A p \in Range(specs) : \E k \in 1..Len(specs) : specs[k] = p
  BY <1>1, RangeIs
<1>7. w \in Walk /\ Sorted(D, unresolved, w.queue) /\ Reached(Len(specs), w)
  BY <1>1, <1>5
<1> QED
  BY <1>6, <1>7
-----------------------------------------------------------------------------
(* The loops.  Each raises the plugins that can go on from one rung to the *)
(* next, along a queue that is always made from the same walk, because who *)
(* is unresolved is settled before the first loop.                         *)
IsUnresolved(p) == state[p] \in {Invalid, Read}

(* A plugin that is to be run. *)
Sound(p) == p \notin hasError /\ Enabled(p) /\ p \notin disabledIndirectly

Early == {"constructed", "resolved", "parsed"}

LoopPhases == {"loading", "initializing", "extensions", "stopping", "deleting"}

Backwards == {"extensions", "running", "deleting", "finished"}

(* How far all sound plugins are, and how far some may be. *)
Floor == [loading |-> Resolved, initializing |-> Loaded,
          extensions |-> Initialized, running |-> Running,
          stopping |-> Running, waiting |-> Stopped,
          deleting |-> Stopped, finished |-> Deleted]

Goal == [loading |-> Loaded, initializing |-> Initialized,
         extensions |-> Running, running |-> Running,
         stopping |-> Stopped, waiting |-> Stopped,
         deleting |-> Deleted, finished |-> Deleted]

(* The plugins the running loop has been at. *)
Passed == {queue[i] : i \in 1..(next - 1)}

UnresolvedAreBroken ==
    phase # "constructed" =>
        \A p \in Plugins : IsUnresolved(p) => p \in hasError

(* A plugin that was initialized never gets an error. *)
InitializedAreSound ==
    \A p \in Plugins : state[p] >= Initialized => p \notin hasError

NothingLoaded == phase \in Early => \A p \in Plugins : state[p] <= Resolved

QueueIsCurrent ==
    /\ next \in 1..(Len(queue) + 1)
    /\ queue = IF phase \in Backwards THEN Reverse(CurrentWalk.queue)
               ELSE CurrentWalk.queue
    /\ CurrentWalk.errors \subseteq hasError

BetweenRungs ==
    \A p \in Plugins : /\ state[p] <= Goal[phase]
                       /\ Sound(p) => state[p] >= Floor[phase]

GoalIsPassed ==
    phase \in LoopPhases =>
        \A p \in Plugins :
            /\ p \in Passed /\ Sound(p) => state[p] = Goal[phase]
            /\ state[p] = Goal[phase] => p \in Passed

Climbing ==
    phase \notin Early \union {"aborted"} =>
        /\ QueueIsCurrent
        /\ BetweenRungs
        /\ GoalIsPassed
        /\ phase = "deleting" => asynchronousPlugins = {}

LoopInv == /\ IInv
           /\ UnresolvedAreBroken
           /\ InitializedAreSound
           /\ NothingLoaded
           /\ Climbing

LEMMA InstallationType ==
    ASSUME installation \in Installations
    PROVE  /\ installation.dependencies \in [Plugins -> Seq(Dependency)]
           /\ installation.nameOrder \in Seq(Plugins)
           /\ Range(installation.nameOrder) = Plugins
           /\ installation.directoryOrder \in Seq(Plugins)
           /\ \A p \in Plugins : /\ RequiredSpecs(p) \subseteq DependencySpecs(p)
                                 /\ DependencySpecs(p) \subseteq Plugins
<1>1. /\ installation.dependencies \in [Plugins -> Seq(Dependency)]
      /\ installation.nameOrder \in Seq(Plugins)
      /\ Range(installation.nameOrder) = Plugins
      /\ installation.directoryOrder \in Seq(Plugins)
  BY InstallationsAssumption DEF Installation, Orders
<1>2. ASSUME NEW p \in Plugins
      PROVE  /\ RequiredSpecs(p) \subseteq DependencySpecs(p)
             /\ DependencySpecs(p) \subseteq Plugins
  <2>1. installation.dependencies[p] \in Seq(Dependency)
    BY <1>1
  <2>2. \A i \in DOMAIN installation.dependencies[p] :
           installation.dependencies[p][i] \in Dependency
    BY <2>1
  <2> QED
    BY <2>2 DEF RequiredSpecs, DependencySpecs, Dependencies, Range, Dependency
<1> QED
  BY <1>1, <1>2

LEMMA CurrentWalkGood ==
    ASSUME installation \in Installations
    PROVE  LET D == installation.dependencies
               w == CurrentWalk
               unresolved == {p \in Plugins : IsUnresolved(p)}
           IN  /\ w \in Walk /\ Sorted(D, unresolved, w.queue)
               /\ Plugins \subseteq w.errors \union Range(w.queue)
<1> DEFINE D == installation.dependencies
           unresolved == {p \in Plugins : IsUnresolved(p)}
           order == installation.nameOrder
<1>1. /\ D \in [Plugins -> Seq(Dependency)] /\ order \in Seq(Plugins)
      /\ Range(order) = Plugins
  BY InstallationType
<1>2. CurrentWalk = LoadQueueOf(D, order, unresolved)
  BY DEF CurrentWalk, LoadQueue, IsUnresolved
<1> HIDE DEF D, unresolved, order
<1>3. /\ CurrentWalk \in Walk /\ Sorted(D, unresolved, CurrentWalk.queue)
      /\ Plugins \subseteq CurrentWalk.errors \union Range(CurrentWalk.queue)
  BY <1>1, <1>2, LoadQueueGood
<1> QED
  BY <1>3 DEF D, unresolved

LEMMA SameWalk ==
    ASSUME UNCHANGED installation,
           \A p \in Plugins : IsUnresolved(p)' <=> IsUnresolved(p)
    PROVE  CurrentWalk' = CurrentWalk
<1> DEFINE U == {p \in Plugins : IsUnresolved(p)}
<1>1. U' = U
  OBVIOUS
<1>2. CurrentWalk = LoadQueueOf(installation.dependencies,
                                installation.nameOrder, U)
  BY DEF CurrentWalk, LoadQueue, IsUnresolved
<1>3. CurrentWalk' = LoadQueueOf(installation'.dependencies,
                                 installation'.nameOrder, U')
  BY DEF CurrentWalk, LoadQueue, IsUnresolved
<1> HIDE DEF U
<1> QED
  BY <1>1, <1>2, <1>3

(* What the running loop knows of its queue: each plugin is there once,    *)
(* one without error is there, and one that is resolved behind its         *)
(* dependencies, or in front of them when the queue is reversed.           *)
QueueOrder(q) ==
    /\ q \in Seq(Plugins)
    /\ \A i, j \in 1..Len(q) : q[i] = q[j] => i = j
    /\ \A p \in Plugins \ hasError : \E i \in 1..Len(q) : q[i] = p
    /\ \A i \in 1..Len(q) : ~IsUnresolved(q[i]) =>
          \A d \in DependencySpecs(q[i]) :
             \E j \in 1..Len(q) :
                q[j] = d /\ IF phase \in Backwards THEN i < j ELSE j < i

LEMMA ClimbingOrder ==
    ASSUME LoopInv, phase \notin Early \union {"aborted"}
    PROVE  QueueOrder(queue)
<1> DEFINE w == CurrentWalk
           q == w.queue
           n == Len(q)
           D == installation.dependencies
           U == {p \in Plugins : IsUnresolved(p)}
<1>1. /\ installation \in Installations /\ QueueIsCurrent
      /\ w.errors \subseteq hasError
  BY DEF LoopInv, IInv, StateType, Climbing, QueueIsCurrent
<1>2. /\ w \in Walk /\ Sorted(D, U, q)
      /\ Plugins \subseteq w.errors \union Range(q)
  BY <1>1, CurrentWalkGood
<1>3. D \in [Plugins -> Seq(Dependency)]
  BY <1>1, InstallationType
<1>4. q \in Seq(Plugins) /\ n \in Nat /\ DOMAIN q = 1..n
  BY <1>2, WalkType
<1>5. \A i, j \in 1..n : q[i] = q[j] => i = j
  BY <1>2, <1>4 DEF Sorted
<1>6. \A p \in Plugins \ hasError : \E i \in 1..n : q[i] = p
  BY <1>1, <1>2, <1>4, RangeIs
<1>7. ASSUME NEW i \in 1..n, ~IsUnresolved(q[i]), NEW d \in DependencySpecs(q[i])
      PROVE  \E j \in 1..n : q[j] = d /\ j < i
  <2>1. q[i] \in Plugins /\ q[i] \notin U
    BY <1>4, <1>7
  <2>2. D[q[i]] \in Seq(Dependency)
    BY <1>3, <2>1
  <2>3. PICK k \in DOMAIN D[q[i]] : D[q[i]][k].spec = d
    BY <1>7, RangeIs DEF DependencySpecs, Dependencies
  <2> HIDE DEF D, U, q
  <2>4. PICK j \in DOMAIN q : j < i /\ q[j] = D[q[i]][k].spec
    BY <1>2, <1>4, <2>1 DEF Sorted
  <2> QED BY <1>4, <2>3, <2>4
<1>8. CASE phase \notin Backwards
  <2>1. queue = q
    BY <1>1, <1>8 DEF QueueIsCurrent
  <2> HIDE DEF q
  <2> QED BY <1>4, <1>5, <1>6, <1>7, <1>8, <2>1 DEF QueueOrder
<1>9. CASE phase \in Backwards
  <2>1. queue = Reverse(q)
    BY <1>1, <1>9 DEF QueueIsCurrent
  <2> HIDE DEF q
  <2>2. /\ queue \in Seq(Plugins) /\ Len(queue) = n
        /\ \A i \in 1..n : n - i + 1 \in 1..n /\ queue[i] = q[n - i + 1]
    <3>1. queue = [i \in 1..n |-> q[n - i + 1]]
      BY <2>1 DEF Reverse
    <3>2. \A i \in 1..n : n - i + 1 \in 1..n
      BY <1>4
    <3>3. queue \in [1..n -> Plugins]
      BY <1>4, <3>1, <3>2
    <3>4. queue \in Seq(Plugins) /\ Len(queue) = n
      <4> HIDE DEF n
      <4> QED BY <1>4, <3>3, SeqType
    <3> QED BY <3>1, <3>2, <3>4
  <2> HIDE DEF n
  <2>3. \A i \in 1..n : queue[n - i + 1] = q[i] /\ n - i + 1 \in 1..n
    <3> TAKE i \in 1..n
    <3>1. n - i + 1 \in 1..n /\ n - (n - i + 1) + 1 = i
      BY <1>4
    <3> QED BY <2>2, <3>1
  <2>4. \A i, j \in 1..n : queue[i] = queue[j] => i = j
    <3> SUFFICES ASSUME NEW i \in 1..n, NEW j \in 1..n, queue[i] = queue[j]
                 PROVE  i = j
      OBVIOUS
    <3> DEFINE a == n - i + 1
               b == n - j + 1
    <3>1. a \in 1..n /\ b \in 1..n /\ q[a] = q[b]
      BY <2>2
    <3>2. a = b => i = j
      BY <1>4
    <3> HIDE DEF a, b
    <3>3. a = b
      BY <1>5, <3>1
    <3> QED BY <3>2, <3>3
  <2>5. \A p \in Plugins \ hasError : \E i \in 1..n : queue[i] = p
    BY <1>6, <2>3
  <2>6. ASSUME NEW i \in 1..n, ~IsUnresolved(queue[i]),
               NEW d \in DependencySpecs(queue[i])
        PROVE  \E j \in 1..n : queue[j] = d /\ i < j
    <3> DEFINE k == n - i + 1
    <3>1. k \in 1..n /\ queue[i] = q[k]
      BY <2>2
    <3> HIDE DEF k
    <3>2. PICK m \in 1..n : q[m] = d /\ m < k
      BY <1>7, <2>6, <3>1
    <3>3. queue[n - m + 1] = d /\ n - m + 1 \in 1..n
      BY <2>3, <3>2
    <3>4. i < n - m + 1
      BY <1>4, <3>2 DEF k
    <3> QED BY <3>3, <3>4
  <2> QED BY <1>9, <2>2, <2>4, <2>5, <2>6 DEF QueueOrder
<1> QED
  BY <1>8, <1>9

(* The plugin the loop is at: its dependencies are behind the loop, and    *)
(* those that depend on it are not, or the other way round.                *)
LEMMA AtPlugin ==
    ASSUME LoopInv, phase \notin Early \union {"aborted"}, NEW p,
           next <= Len(queue), queue[next] = p
    PROVE  /\ p \in Plugins /\ p \notin Passed
           /\ phase \notin Backwards =>
                /\ ~IsUnresolved(p) => DependencySpecs(p) \subseteq Passed
                /\ \A x \in Passed : ~IsUnresolved(x) =>
                                        p \notin DependencySpecs(x)
           /\ phase \in Backwards =>
                \A x \in Plugins \ hasError :
                   ~IsUnresolved(x) /\ p \in DependencySpecs(x)
                      => x \in Passed
<1>1. QueueOrder(queue)
  BY ClimbingOrder
<1>2. next \in 1..Len(queue) /\ Len(queue) \in Nat /\ queue \in Seq(Plugins)
  BY <1>1 DEF QueueOrder, LoopInv, Climbing, QueueIsCurrent
<1>3. p \in Plugins
  BY <1>2
<1>4. p \notin Passed
  BY <1>1, <1>2 DEF QueueOrder, Passed
<1>5. ASSUME phase \notin Backwards, ~IsUnresolved(p), NEW d \in DependencySpecs(p)
      PROVE  d \in Passed
  <2>1. PICK j \in 1..Len(queue) : queue[j] = d /\ j < next
    BY <1>1, <1>2, <1>5 DEF QueueOrder
  <2>2. j \in 1..(next - 1)
    BY <1>2, <2>1
  <2> QED BY <2>1, <2>2 DEF Passed
<1>6. ASSUME phase \notin Backwards, NEW x \in Passed, ~IsUnresolved(x),
             p \in DependencySpecs(x)
      PROVE  FALSE
  <2>1. PICK i \in 1..(next - 1) : queue[i] = x
    BY DEF Passed
  <2>2. i \in 1..Len(queue) /\ i < next
    BY <1>2
  <2>3. PICK j \in 1..Len(queue) : queue[j] = p /\ j < i
    BY <1>1, <1>6, <2>1, <2>2 DEF QueueOrder
  <2>4. j = next
    BY <1>1, <1>2, <2>3 DEF QueueOrder
  <2> QED BY <1>2, <2>2, <2>3, <2>4
<1>7. ASSUME phase \in Backwards, NEW x \in Plugins \ hasError,
             ~IsUnresolved(x), p \in DependencySpecs(x)
      PROVE  x \in Passed
  <2>1. PICK i \in 1..Len(queue) : queue[i] = x
    BY <1>1 DEF QueueOrder
  <2>2. PICK j \in 1..Len(queue) : queue[j] = p /\ i < j
    BY <1>1, <1>7, <2>1 DEF QueueOrder
  <2>3. j = next
    BY <1>1, <1>2, <2>2 DEF QueueOrder
  <2>4. i \in 1..(next - 1)
    BY <1>2, <2>2, <2>3
  <2> QED BY <2>1, <2>4 DEF Passed
<1> QED
  BY <1>3, <1>4, <1>5, <1>6, <1>7

(* When the loop is through, it has been at all plugins without an error.  *)
LEMMA AllPassed ==
    ASSUME LoopInv, phase \notin Early \union {"aborted"}, next > Len(queue)
    PROVE  Plugins \ hasError \subseteq Passed
<1>1. QueueOrder(queue)
  BY ClimbingOrder
<1>2. next = Len(queue) + 1 /\ Len(queue) \in Nat
  BY <1>1 DEF QueueOrder, LoopInv, Climbing, QueueIsCurrent
<1> QED
  BY <1>1, <1>2 DEF QueueOrder, Passed
-----------------------------------------------------------------------------
LEMMA RungTypes ==
    /\ \A ph \in DOMAIN Goal : Goal[ph] \in Loaded..Deleted
    /\ \A ph \in LoopPhases : Floor[ph] = Goal[ph] - 1
    /\ DOMAIN Goal = Phases \ (Early \union {"aborted"})
    /\ DOMAIN Floor = DOMAIN Goal
    /\ LoopPhases \subseteq DOMAIN Goal
  BY DEF Goal, Floor, LoopPhases, Phases, Early, Resolved, Loaded,
         Initialized, Running, Stopped, Deleted

(* One iteration: the plugin reaches the goal of the loop, or is flagged,  *)
(* or is passed over.                                                      *)
LEMMA IterationKeepsLoopInv ==
    ASSUME LoopInv, IInv', phase \in LoopPhases, NEW p,
           next <= Len(queue), queue[next] = p, next' = next + 1,
           UNCHANGED <<installation, disabledIndirectly, phase, queue>>,
           phase = "deleting" => asynchronousPlugins' = {},
           \/ /\ ~Skipped(p, Goal[phase])
              /\ state' = [state EXCEPT ![p] = Goal[phase]]
              /\ UNCHANGED hasError
           \/ /\ hasError' = hasError \union {p}
              /\ state[p] < Initialized
              /\ UNCHANGED state
           \/ Skipped(p, Goal[phase]) /\ UNCHANGED <<state, hasError>>
    PROVE  LoopInv'
<1> DEFINE g == Goal[phase]
<1>1. /\ g \in Loaded..Deleted /\ Floor[phase] = g - 1 /\ Goal'[phase'] = g
      /\ Floor'[phase'] = g - 1
  BY RungTypes DEF Goal, Floor
<1>2. phase \notin Early \union {"aborted"}
  BY DEF LoopPhases, Early
<1>3. p \in Plugins /\ p \notin Passed
  BY <1>2, AtPlugin
<1>4. /\ state \in [Plugins -> Invalid..Deleted] /\ UnresolvedAreBroken
      /\ InitializedAreSound /\ QueueIsCurrent /\ BetweenRungs /\ GoalIsPassed
  BY <1>2 DEF LoopInv, IInv, StateType, Climbing
<1>5. next \in Nat \ {0} /\ Len(queue) \in Nat
  <2>1. Len(queue) \in Nat
    BY <1>2, ClimbingOrder DEF QueueOrder
  <2> QED BY <1>4, <2>1 DEF QueueIsCurrent
<1>6. Passed' = Passed \union {p}
  <2>1. 1..(next' - 1) = 1..(next - 1) \union {next}
    BY <1>5
  <2>2. queue' = queue /\ queue[next] = p
    OBVIOUS
  <2>3. Passed' = {queue[i] : i \in 1..(next' - 1)}
    BY <2>2 DEF Passed
  <2> QED BY <2>1, <2>2, <2>3 DEF Passed
<1>7. /\ state' \in [Plugins -> Invalid..Deleted]
      /\ \A x \in Plugins : x # p => state'[x] = state[x]
      /\ \/ state'[p] = g /\ state[p] = g - 1 /\ p \notin hasError
            /\ hasError' = hasError
         \/ state'[p] = state[p] /\ hasError' = hasError \union {p}
            /\ state[p] < Initialized
         \/ state' = state /\ hasError' = hasError /\ (Sound(p) => state[p] # g - 1)
  BY <1>1, <1>3, <1>4
  DEF Skipped, Sound, Enabled, Invalid, Loaded, Deleted
<1> HIDE DEF g
<1>8. \A x \in Plugins : IsUnresolved(x)' <=> IsUnresolved(x)
  BY <1>1, <1>3, <1>4, <1>7 DEF IsUnresolved, Invalid, Read, Loaded, Deleted
<1>9. \A x \in Plugins : Sound(x)' => Sound(x)
  BY <1>7 DEF Sound, Enabled
<1>10. UnresolvedAreBroken'
  BY <1>2, <1>4, <1>7, <1>8 DEF UnresolvedAreBroken, Early
<1>11. InitializedAreSound'
  BY <1>1, <1>3, <1>4, <1>7
  DEF InitializedAreSound, Loaded, Initialized, Deleted, Invalid
<1>12. QueueIsCurrent'
  <2>1. CurrentWalk' = CurrentWalk
    BY <1>8, SameWalk
  <2>2. CurrentWalk'.errors = CurrentWalk.errors
        /\ CurrentWalk'.queue = CurrentWalk.queue
    BY <2>1
  <2>3. hasError \subseteq hasError'
    BY <1>7
  <2>4. next' \in 1..(Len(queue') + 1)
    BY <1>5
  <2>5. (phase \in Backwards)' <=> phase \in Backwards
    BY DEF Backwards
  <2> QED BY <1>4, <2>2, <2>3, <2>4, <2>5 DEF QueueIsCurrent
<1>13. BetweenRungs'
  <2> SUFFICES ASSUME NEW x \in Plugins
               PROVE  /\ state'[x] <= g
                      /\ Sound(x)' => state'[x] >= g - 1
    BY <1>1 DEF BetweenRungs
  <2>1. state[x] <= g /\ (Sound(x) => state[x] >= g - 1)
    BY <1>1, <1>4 DEF BetweenRungs, g
  <2> QED
    BY <1>1, <1>3, <1>4, <1>7, <1>9, <2>1 DEF Invalid, Loaded, Deleted
<1>14. GoalIsPassed'
  <2> SUFFICES ASSUME NEW x \in Plugins
               PROVE  /\ x \in Passed' /\ Sound(x)' => state'[x] = g
                      /\ state'[x] = g => x \in Passed'
    BY <1>1 DEF GoalIsPassed
  <2>1. /\ x \in Passed /\ Sound(x) => state[x] = g
        /\ state[x] = g => x \in Passed
        /\ state[x] <= g /\ (Sound(x) => state[x] >= g - 1)
    BY <1>1, <1>4 DEF GoalIsPassed, BetweenRungs, g
  <2>2. CASE x # p
    BY <1>6, <1>7, <1>9, <2>1, <2>2
  <2>3. CASE x = p
    <3>1. Sound(x)' => x \notin hasError'
      BY DEF Sound
    <3> QED
      BY <1>1, <1>3, <1>4, <1>6, <1>7, <1>9, <2>1, <2>3, <3>1
      DEF Invalid, Loaded, Deleted
  <2> QED BY <2>2, <2>3
<1>15. NothingLoaded'
  BY <1>2 DEF NothingLoaded, Early
<1>16. Climbing'
  BY <1>12, <1>13, <1>14 DEF Climbing
<1> QED
  BY <1>10, <1>11, <1>15, <1>16 DEF LoopInv

(* The step from a loop to what follows it. *)
LEMMA NextRungKeepsLoopInv ==
    ASSUME LoopInv, IInv', phase \notin Early \union {"aborted"},
           UNCHANGED <<installation, state, disabledIndirectly>>,
           hasError' = hasError,
           phase' \in DOMAIN Goal,
           phase' = "deleting" => asynchronousPlugins' = {},
           next' \in 1..(Len(queue') + 1),
           queue' = IF phase' \in Backwards THEN Reverse(CurrentWalk.queue)
                    ELSE CurrentWalk.queue,
           Goal[phase] <= Goal[phase'],
           \A p \in Plugins : Sound(p) => state[p] >= Floor[phase'],
           phase' \in LoopPhases => Goal[phase] < Goal[phase'] /\ next' = 1
    PROVE  LoopInv'
<1>1. /\ installation' = installation /\ state' = state
      /\ disabledIndirectly' = disabledIndirectly
  OBVIOUS
<1>2. /\ Goal[phase'] \in Loaded..Deleted /\ Goal[phase] \in Loaded..Deleted
      /\ phase' \notin Early \union {"aborted"}
  BY RungTypes DEF LoopInv, IInv, StateType
<1>3. /\ state \in [Plugins -> Invalid..Deleted] /\ UnresolvedAreBroken
      /\ InitializedAreSound /\ QueueIsCurrent /\ BetweenRungs
  BY DEF LoopInv, IInv, StateType, Climbing
<1>4. \A x \in Plugins : IsUnresolved(x)' <=> IsUnresolved(x)
  BY <1>1 DEF IsUnresolved
<1>5. \A x \in Plugins : Sound(x)' <=> Sound(x)
  BY <1>1 DEF Sound, Enabled
<1>6. UnresolvedAreBroken' /\ InitializedAreSound'
  BY <1>1, <1>3, <1>4
  DEF UnresolvedAreBroken, InitializedAreSound, Early
<1>7. QueueIsCurrent'
  <2>1. CurrentWalk' = CurrentWalk
    BY <1>1, <1>4, SameWalk
  <2>2. CurrentWalk'.errors = CurrentWalk.errors
        /\ CurrentWalk'.queue = CurrentWalk.queue
    BY <2>1
  <2> QED BY <1>3, <2>2 DEF QueueIsCurrent, Backwards
<1>8. \A x \in Plugins : state[x] <= Goal[phase']
  BY <1>2, <1>3 DEF BetweenRungs, Invalid, Loaded, Deleted
<1>9. BetweenRungs'
  BY <1>1, <1>5, <1>8 DEF BetweenRungs, Goal, Floor
<1>10. GoalIsPassed'
  <2>1. SUFFICES ASSUME phase' \in LoopPhases, NEW x \in Plugins
                 PROVE  x \notin Passed' /\ state'[x] # Goal[phase']
    BY DEF GoalIsPassed, LoopPhases, Goal
  <2>2. Passed' = {}
    <3>1. 1..(1 - 1) = {}
      OBVIOUS
    <3> QED BY <2>1, <3>1 DEF Passed
  <2>3. state[x] <= Goal[phase]
    BY <1>3 DEF BetweenRungs
  <2> QED BY <1>1, <1>2, <1>3, <2>1, <2>2, <2>3 DEF Invalid, Loaded, Deleted
<1>11. NothingLoaded'
  BY <1>2 DEF NothingLoaded, Early
<1>12. Climbing'
  BY <1>7, <1>9, <1>10 DEF Climbing
<1> QED
  BY <1>6, <1>11, <1>12 DEF LoopInv

(* At the end of a loop all sound plugins are at its goal. *)
LEMMA SoundAreAtGoal ==
    ASSUME LoopInv, phase \in LoopPhases, next > Len(queue)
    PROVE  \A p \in Plugins : Sound(p) => state[p] = Goal[phase]
<1>1. phase \notin Early \union {"aborted"}
  BY DEF LoopPhases, Early
<1>2. Plugins \ hasError \subseteq Passed
  BY <1>1, AllPassed
<1> QED
  BY <1>1, <1>2 DEF LoopInv, Climbing, GoalIsPassed, Sound

LEMMA InitiallyLoop == Init => LoopInv
  BY Initially
  DEF Init, LoopInv, UnresolvedAreBroken, InitializedAreSound, NothingLoaded,
      Climbing, Early, Invalid, Read, Resolved, Initialized

(* Resolving settles who is unresolved. *)
LEMMA ResolvingKeepsLoopInv ==
    ASSUME LoopInv, IInv', phase' \in {"resolved", "parsed"},
           \A p \in Plugins : state'[p] <= Resolved,
           \A p \in Plugins : IsUnresolved(p)' => p \in hasError'
    PROVE  LoopInv'
<1>1. UnresolvedAreBroken'
  BY DEF UnresolvedAreBroken
<1>2. InitializedAreSound'
  BY DEF InitializedAreSound, IInv, StateType, Invalid, Deleted, Resolved,
         Initialized
<1>3. NothingLoaded'
  BY DEF NothingLoaded
<1>4. Climbing'
  BY DEF Climbing, Early
<1> QED
  BY <1>1, <1>2, <1>3, <1>4 DEF LoopInv

(* The step before the first loop. *)
LEMMA StartLoadingKeepsLoopInv ==
    ASSUME LoopInv, IInv', StartLoading
    PROVE  LoopInv'
<1>1. /\ phase = "parsed" /\ phase' = "loading" /\ next' = 1
      /\ queue' = CurrentWalk.queue
      /\ hasError' = {p \in Plugins : p \in hasError \union CurrentWalk.errors}
      /\ installation' = installation /\ state' = state
      /\ disabledIndirectly' = disabledIndirectly
  BY DEF StartLoading, EnterLoop, FlagErrors
<1>2. /\ state \in [Plugins -> Invalid..Deleted] /\ UnresolvedAreBroken
      /\ \A p \in Plugins : state[p] <= Resolved
      /\ hasError \subseteq Plugins /\ installation \in Installations
  BY <1>1 DEF LoopInv, IInv, StateType, NothingLoaded, Early
<1>3. \A x \in Plugins : IsUnresolved(x)' <=> IsUnresolved(x)
  BY <1>1 DEF IsUnresolved
<1>4. CurrentWalk' = CurrentWalk
  BY <1>1, <1>3, SameWalk
<1>5. /\ CurrentWalk.queue \in Seq(Plugins) /\ CurrentWalk.errors \subseteq Plugins
  <2>1. CurrentWalk \in Walk
    BY <1>2, CurrentWalkGood
  <2> QED BY <2>1, WalkType
<1>6. UnresolvedAreBroken'
  BY <1>1, <1>2, <1>3 DEF UnresolvedAreBroken
<1>7. InitializedAreSound'
  BY <1>1, <1>2 DEF InitializedAreSound, Invalid, Deleted, Resolved, Initialized
<1>8. NothingLoaded'
  BY <1>1 DEF NothingLoaded, Early
<1>9. QueueIsCurrent'
  <2>1. CurrentWalk'.errors = CurrentWalk.errors
        /\ CurrentWalk'.queue = CurrentWalk.queue
    BY <1>4
  <2>2. next' \in 1..(Len(queue') + 1)
    BY <1>1, <1>5
  <2> QED BY <1>1, <1>5, <2>1, <2>2 DEF QueueIsCurrent, Backwards
<1>10. BetweenRungs'
  <2> SUFFICES ASSUME NEW x \in Plugins
               PROVE  /\ state[x] <= Loaded
                      /\ Sound(x)' => state[x] >= Resolved
    BY <1>1 DEF BetweenRungs, Goal, Floor
  <2>1. Sound(x)' => ~IsUnresolved(x)
    BY <1>1, <1>2 DEF Sound, UnresolvedAreBroken
  <2>2. ~IsUnresolved(x) => state[x] >= Resolved
    BY <1>2 DEF IsUnresolved, Invalid, Read, Resolved, Deleted
  <2>3. state[x] <= Loaded
    BY <1>2 DEF Resolved, Loaded, Invalid, Deleted
  <2> QED BY <2>1, <2>2, <2>3
<1>11. GoalIsPassed'
  <2> SUFFICES ASSUME NEW x \in Plugins
               PROVE  x \notin Passed' /\ state[x] # Loaded
    BY <1>1 DEF GoalIsPassed, Goal
  <2>1. x \notin Passed'
    <3>1. 1..(1 - 1) = {}
      OBVIOUS
    <3> QED BY <1>1, <3>1 DEF Passed
  <2> QED BY <1>2, <2>1 DEF Resolved, Loaded, Invalid, Deleted
<1>12. Climbing'
  BY <1>1, <1>9, <1>10, <1>11 DEF Climbing
<1> QED
  BY <1>6, <1>7, <1>8, <1>12 DEF LoopInv

LEMMA ResolvedStateSettles ==
    ASSUME NEW specs, NEW states \in [Plugins -> Invalid..Resolved],
           NEW errors, NEW disabled,
           \A p \in Plugins : states[p] = Invalid => p \in errors,
           ResolveDependencies(specs, states, errors, disabled)
    PROVE  /\ \A p \in Plugins : state'[p] <= Resolved
           /\ \A p \in Plugins : IsUnresolved(p)' => p \in hasError'
<1>1. /\ state' = [p \in Plugins |-> IF p \notin errors /\ states[p] = Read
                                     THEN Resolved ELSE states[p]]
      /\ \A p \in Plugins : p \in errors => p \in hasError'
  BY DEF ResolveDependencies, ResolvedState
<1> QED
  BY <1>1 DEF IsUnresolved, Invalid, Read, Resolved

(* FlagErrors finds nothing new once the first loop has been entered. *)
LEMMA NothingNewToFlag ==
    ASSUME LoopInv, phase \notin Early \union {"aborted"}, FlagErrors
    PROVE  hasError' = hasError
  BY DEF LoopInv, IInv, StateType, Climbing, QueueIsCurrent, FlagErrors

(* In stopAll() a plugin always finds its required plugins stopped.        *)
LEMMA RequiredAreStopped ==
    ASSUME LoopInv, phase = "stopping", NEW p,
           next <= Len(queue), queue[next] = p, ~Skipped(p, Stopped)
    PROVE  RequiredReached(p, Stopped)
<1>1. phase \notin Early \union {"aborted"} /\ phase \notin Backwards
  BY DEF Early, Backwards
<1>2. p \in Plugins /\ state[p] = Running
  BY <1>1, AtPlugin DEF Skipped, Stopped, Running
<1>3. DependencySpecs(p) \subseteq Passed
  BY <1>1, <1>2, AtPlugin DEF IsUnresolved, Invalid, Read, Running
<1>4. ASSUME NEW d \in RequiredSpecs(p)
      PROVE  state[d] = Stopped
  <2>1. d \in Plugins /\ d \in Passed
    BY <1>2, <1>3, InstallationType DEF LoopInv, IInv, StateType
  <2>2. state[d] >= Initialized
    BY <1>2, <1>4 DEF LoopInv, IInv, RequiredDependenciesFirst
  <2>3. Sound(d)
    BY <2>1, <2>2
    DEF LoopInv, IInv, StateType, InitializedAreSound, DisabledStays, Sound,
        Invalid, Resolved, Initialized, Deleted
  <2> QED
    BY <1>1, <2>1, <2>3
    DEF LoopInv, Climbing, GoalIsPassed, LoopPhases, Goal
<1> QED
  BY <1>4 DEF RequiredReached

(* A climb to s, where s is the goal of the loop. *)
LEMMA ClimbKeepsLoopInv ==
    ASSUME LoopInv, IInv', phase \in {"loading", "initializing"}, NEW p,
           Iteration(phase, p), Climb(p, Goal[phase]),
           UNCHANGED <<installation, disabledIndirectly, phase, queue>>
    PROVE  LoopInv'
<1>1. /\ next <= Len(queue) /\ queue[next] = p /\ next' = next + 1
      /\ phase \in LoopPhases /\ phase # "deleting"
      /\ phase \notin Early \union {"aborted"}
  BY DEF Iteration, LoopPhases, Early
<1>2. p \in Plugins
  BY <1>1, AtPlugin
<1>3. ~Skipped(p, Goal[phase]) => state[p] < Initialized
  BY <1>2 DEF Skipped, Goal, LoopInv, IInv, StateType, Loaded, Initialized
<1>4. \/ /\ ~Skipped(p, Goal[phase])
         /\ state' = [state EXCEPT ![p] = Goal[phase]]
         /\ UNCHANGED hasError
      \/ /\ hasError' = hasError \union {p}
         /\ state[p] < Initialized
         /\ UNCHANGED state
      \/ Skipped(p, Goal[phase]) /\ UNCHANGED <<state, hasError>>
  BY <1>3 DEF Climb, PluginFails, Flag, Advance
<1> QED
  BY <1>1, <1>4, IterationKeepsLoopInv

(* What starting deleteAll() means, with every sound plugin stopped. *)
LEMMA EnterDeleteAllKeepsLoopInv ==
    ASSUME LoopInv, IInv', phase \in {"stopping", "waiting"},
           \A p \in Plugins : Sound(p) => state[p] = Stopped,
           UNCHANGED <<installation, state, disabledIndirectly>>,
           EnterDeleteAll, asynchronousPlugins' = {}
    PROVE  LoopInv'
<1>1. phase \notin Early \union {"aborted"}
  BY DEF Early
<1>2. /\ phase' = "deleting" /\ next' = 1 /\ queue' = Reverse(CurrentWalk.queue)
      /\ hasError' = hasError
  BY <1>1, NothingNewToFlag DEF EnterDeleteAll, EnterLoop
<1>3. next' \in 1..(Len(queue') + 1)
  <2>1. CurrentWalk.queue \in Seq(Plugins)
    BY CurrentWalkGood, WalkType DEF LoopInv, IInv, StateType
  <2>2. Len(queue') \in Nat
    <3> HIDE DEF CurrentWalk
    <3>1. Len(Reverse(CurrentWalk.queue)) = Len(CurrentWalk.queue)
      BY <2>1 DEF Reverse
    <3> QED BY <1>2, <2>1, <3>1
  <2> QED BY <1>2, <2>2
<1>4. /\ phase' \in DOMAIN Goal /\ phase' \in Backwards
      /\ Goal[phase] < Goal[phase'] /\ Goal[phase] <= Goal[phase']
      /\ Floor[phase'] = Stopped
  BY <1>2 DEF Goal, Floor, Backwards, Stopped, Deleted
<1>5. \A p \in Plugins : Sound(p) => state[p] >= Floor[phase']
  BY <1>4 DEF Stopped
<1> QED
  BY <1>1, <1>2, <1>3, <1>4, <1>5, NextRungKeepsLoopInv

LEMMA LoopInductive == LoopInv /\ [Next]_vars => LoopInv'
<1> SUFFICES ASSUME LoopInv, [Next]_vars PROVE LoopInv'
  OBVIOUS
<1>0. IInv /\ IInv'
  BY Inductive DEF LoopInv
<1>1. CASE SetPluginPaths
  <2> DEFINE states == [p \in Plugins |-> IF p \in installation.unreadable
                                          THEN Invalid ELSE Read]
             errors == installation.unreadable \union installation.unresolvable
  <2>1. /\ states \in [Plugins -> Invalid..Resolved]
        /\ \A p \in Plugins : states[p] = Invalid => p \in errors
    BY DEF Invalid, Read, Resolved
  <2>2. ResolveDependencies(installation.directoryOrder, states, errors, {})
    BY <1>1 DEF SetPluginPaths
  <2>3. phase' \in {"resolved", "parsed"}
    BY <1>1 DEF SetPluginPaths
  <2> HIDE DEF states, errors
  <2>4. /\ \A p \in Plugins : state'[p] <= Resolved
        /\ \A p \in Plugins : IsUnresolved(p)' => p \in hasError'
    BY <2>1, <2>2, ResolvedStateSettles
  <2> QED BY <1>0, <2>3, <2>4, ResolvingKeepsLoopInv
<1>2. ASSUME NEW S \in SUBSET Plugins, ParseOptions(S) PROVE LoopInv'
  <2>1. /\ phase = "resolved" /\ phase' \in {"resolved", "parsed"}
        /\ installation' = installation
    BY <1>2 DEF ParseOptions
  <2>2. /\ \A p \in Plugins : state[p] <= Resolved
        /\ \A p \in Plugins : IsUnresolved(p) => p \in hasError
    BY <2>1 DEF LoopInv, NothingLoaded, UnresolvedAreBroken, Early
  <2>3. CASE S = {}
    <3>1. state' = state /\ hasError' = hasError
      BY <1>2, <2>3 DEF ParseOptions
    <3> QED
      BY <1>0, <2>1, <2>2, <3>1, ResolvingKeepsLoopInv DEF IsUnresolved
  <2>4. CASE S # {}
    <3>1. /\ state \in [Plugins -> Invalid..Resolved]
          /\ \A p \in Plugins : state[p] = Invalid => p \in hasError
      BY <1>0, <2>2 DEF IInv, StateType, IsUnresolved, Invalid, Resolved, Deleted
    <3>2. ResolveDependencies(installation.nameOrder, state, hasError,
                              disabledIndirectly \union S)
      BY <1>2, <2>4 DEF ParseOptions
    <3>3. /\ \A p \in Plugins : state'[p] <= Resolved
          /\ \A p \in Plugins : IsUnresolved(p)' => p \in hasError'
      BY <3>1, <3>2, ResolvedStateSettles
    <3> QED BY <1>0, <2>1, <3>3, ResolvingKeepsLoopInv
  <2> QED BY <2>3, <2>4
<1>3. CASE Abort
  BY <1>0, <1>3
  DEF Abort, EndOfLoop, LoopInv, UnresolvedAreBroken, InitializedAreSound,
      NothingLoaded, Climbing, Early, IsUnresolved
<1>4. CASE StartLoading
  BY <1>0, <1>4, StartLoadingKeepsLoopInv
<1>5. ASSUME NEW p \in Plugins, LoadLibrary(p) PROVE LoopInv'
  <2>1. phase = "loading" /\ Goal[phase] = Loaded
    BY <1>5 DEF LoadLibrary, Iteration, Goal
  <2> QED
    BY <1>0, <1>5, <2>1, ClimbKeepsLoopInv DEF LoadLibrary
<1>6. CASE StartInitializing
  <2>1. /\ phase = "loading" /\ phase' = "initializing" /\ next > Len(queue)
        /\ phase \in LoopPhases /\ phase \notin Early \union {"aborted"}
        /\ queue' = queue /\ next' = 1 /\ hasError' = hasError
        /\ UNCHANGED <<installation, state, disabledIndirectly>>
    BY <1>6 DEF StartInitializing, EndOfLoop, EnterLoop, LoopPhases, Early
  <2>2. /\ phase' \in DOMAIN Goal /\ phase' \notin Backwards
        /\ phase \notin Backwards /\ Goal[phase] < Goal[phase']
        /\ Goal[phase] <= Goal[phase'] /\ Floor[phase'] = Goal[phase]
        /\ Goal[phase] >= Floor[phase']
    BY <2>1 DEF Goal, Floor, Backwards, Loaded, Initialized
  <2>3. \A p \in Plugins : Sound(p) => state[p] >= Floor[phase']
    BY <2>1, <2>2, SoundAreAtGoal
  <2>4. QueueIsCurrent /\ Len(queue) \in Nat
    BY <2>1, ClimbingOrder DEF LoopInv, Climbing, QueueOrder
  <2>5. next' \in 1..(Len(queue') + 1) /\ queue' = CurrentWalk.queue
    BY <2>1, <2>2, <2>4 DEF QueueIsCurrent
  <2> QED
    BY <1>0, <2>1, <2>2, <2>3, <2>5, NextRungKeepsLoopInv
<1>7. ASSUME NEW p \in Plugins, Initialize(p) PROVE LoopInv'
  <2>1. phase = "initializing" /\ Goal[phase] = Initialized
    BY <1>7 DEF Initialize, Iteration, Goal
  <2> QED
    BY <1>0, <1>7, <2>1, ClimbKeepsLoopInv DEF Initialize
<1>8. CASE StartExtensions
  <2>1. /\ phase = "initializing" /\ phase' = "extensions" /\ next > Len(queue)
        /\ phase \in LoopPhases /\ phase \notin Early \union {"aborted"}
        /\ queue' = Reverse(queue) /\ next' = 1 /\ hasError' = hasError
        /\ UNCHANGED <<installation, state, disabledIndirectly>>
    BY <1>8 DEF StartExtensions, EndOfLoop, EnterLoop, LoopPhases, Early
  <2>2. /\ phase' \in DOMAIN Goal /\ phase' \in Backwards
        /\ phase \notin Backwards /\ Goal[phase] < Goal[phase']
        /\ Goal[phase] <= Goal[phase'] /\ Floor[phase'] = Goal[phase]
        /\ Goal[phase] >= Floor[phase']
    BY <2>1 DEF Goal, Floor, Backwards, Initialized, Running
  <2>3. \A p \in Plugins : Sound(p) => state[p] >= Floor[phase']
    BY <2>1, <2>2, SoundAreAtGoal
  <2>4. QueueIsCurrent /\ Len(queue) \in Nat /\ queue \in Seq(Plugins)
    BY <2>1, ClimbingOrder DEF LoopInv, Climbing, QueueOrder
  <2>5. Len(Reverse(queue)) = Len(queue)
    BY <2>4 DEF Reverse
  <2>6. /\ next' \in 1..(Len(queue') + 1)
        /\ queue' = Reverse(CurrentWalk.queue)
    BY <2>1, <2>2, <2>4, <2>5 DEF QueueIsCurrent
  <2> QED
    BY <1>0, <2>1, <2>2, <2>3, <2>6, NextRungKeepsLoopInv
<1>9. ASSUME NEW p \in Plugins, ExtensionsInitialized(p) PROVE LoopInv'
  <2>1. /\ phase = "extensions" /\ Goal[phase] = Running
        /\ phase \in LoopPhases /\ phase # "deleting"
        /\ next <= Len(queue) /\ queue[next] = p /\ next' = next + 1
        /\ UNCHANGED <<installation, disabledIndirectly, phase, queue>>
    BY <1>9 DEF ExtensionsInitialized, Iteration, Goal, LoopPhases
  <2>2. \/ /\ ~Skipped(p, Running)
           /\ state' = [state EXCEPT ![p] = Running]
           /\ UNCHANGED hasError
        \/ Skipped(p, Running) /\ UNCHANGED <<state, hasError>>
    BY <1>9 DEF ExtensionsInitialized, Advance
  <2> QED
    BY <1>0, <2>1, <2>2, IterationKeepsLoopInv
<1>10. CASE Execute
  <2>1. /\ phase = "extensions" /\ phase' = "running" /\ next > Len(queue)
        /\ phase \in LoopPhases /\ phase \notin Early \union {"aborted"}
        /\ queue' = queue /\ next' = next /\ hasError' = hasError
        /\ UNCHANGED <<installation, state, disabledIndirectly>>
        /\ phase' \notin LoopPhases
    BY <1>10 DEF Execute, EndOfLoop, LoopPhases, Early
  <2>2. /\ phase' \in DOMAIN Goal /\ phase' \in Backwards
        /\ phase \in Backwards /\ Goal[phase] <= Goal[phase']
        /\ Floor[phase'] = Goal[phase] /\ Goal[phase] >= Floor[phase']
    BY <2>1 DEF Goal, Floor, Backwards, Running
  <2>3. \A p \in Plugins : Sound(p) => state[p] >= Floor[phase']
    BY <2>1, <2>2, SoundAreAtGoal
  <2>4. QueueIsCurrent
    BY <2>1 DEF LoopInv, Climbing
  <2>5. /\ next' \in 1..(Len(queue') + 1)
        /\ queue' = Reverse(CurrentWalk.queue)
    BY <2>1, <2>2, <2>4 DEF QueueIsCurrent
  <2> QED
    BY <1>0, <2>1, <2>2, <2>3, <2>5, NextRungKeepsLoopInv
<1>11. ASSUME UNCHANGED <<installation, state, hasError, disabledIndirectly,
                          phase, queue, next>>,
              phase = "deleting" => asynchronousPlugins' = {}
       PROVE  LoopInv'
  <2>1. \A x \in Plugins : /\ IsUnresolved(x)' <=> IsUnresolved(x)
                           /\ Sound(x)' <=> Sound(x)
    BY <1>11 DEF IsUnresolved, Sound, Enabled
  <2>2. /\ UnresolvedAreBroken' /\ InitializedAreSound' /\ NothingLoaded'
    BY <1>11, <2>1
    DEF LoopInv, UnresolvedAreBroken, InitializedAreSound, NothingLoaded
  <2>3. CurrentWalk' = CurrentWalk
    BY <1>11, <2>1, SameWalk
  <2>4. CurrentWalk'.errors = CurrentWalk.errors
        /\ CurrentWalk'.queue = CurrentWalk.queue
    BY <2>3
  <2>5. QueueIsCurrent => QueueIsCurrent'
    BY <1>11, <2>4 DEF QueueIsCurrent, Backwards
  <2>6. BetweenRungs => BetweenRungs'
    BY <1>11, <2>1 DEF BetweenRungs, Goal, Floor
  <2>7. Passed' = Passed
    BY <1>11 DEF Passed
  <2>8. GoalIsPassed => GoalIsPassed'
    BY <1>11, <2>1, <2>7 DEF GoalIsPassed, LoopPhases, Goal
  <2> QED
    BY <1>0, <1>11, <2>2, <2>5, <2>6, <2>8 DEF LoopInv, Climbing, Early
<1>12. ASSUME NEW n \in 0..Len(delayedInitializeQueue), NextDelayedInitialize(n)
       PROVE  LoopInv'
  BY <1>11, <1>12 DEF NextDelayedInitialize
<1>13. CASE Shutdown
  <2>1. /\ phase = "running" /\ phase' = "stopping"
        /\ phase \notin Early \union {"aborted"}
        /\ queue' = CurrentWalk.queue /\ next' = 1
        /\ UNCHANGED <<installation, state, disabledIndirectly>>
        /\ FlagErrors
    BY <1>13 DEF Shutdown, EnterLoop, Early
  <2>2. hasError' = hasError
    BY <2>1, NothingNewToFlag
  <2>3. /\ phase' \in DOMAIN Goal /\ phase' \notin Backwards
        /\ Goal[phase] < Goal[phase'] /\ Goal[phase] <= Goal[phase']
        /\ Floor[phase'] = Floor[phase] /\ phase' # "deleting"
    BY <2>1 DEF Goal, Floor, Backwards, Running, Stopped
  <2>4. \A p \in Plugins : Sound(p) => state[p] >= Floor[phase']
    BY <2>1, <2>3 DEF LoopInv, Climbing, BetweenRungs
  <2>5. CurrentWalk.queue \in Seq(Plugins)
    BY <1>0, CurrentWalkGood, WalkType DEF IInv, StateType
  <2>6. next' \in 1..(Len(queue') + 1)
    <3>1. Len(queue') \in Nat
      BY <2>1, <2>5
    <3> QED BY <2>1, <3>1
  <2> QED
    BY <1>0, <2>1, <2>2, <2>3, <2>4, <2>6, NextRungKeepsLoopInv
<1>14. ASSUME NEW p \in Plugins, NEW a \in BOOLEAN, AboutToShutdown(p, a)
       PROVE  LoopInv'
  <2>1. /\ phase = "stopping" /\ Goal[phase] = Stopped
        /\ phase \in LoopPhases /\ phase # "deleting"
        /\ next <= Len(queue) /\ queue[next] = p /\ next' = next + 1
        /\ UNCHANGED <<installation, disabledIndirectly, phase, queue>>
    BY <1>14 DEF AboutToShutdown, Iteration, Goal, LoopPhases
  <2>2. ~Skipped(p, Stopped) => RequiredReached(p, Stopped)
    BY <2>1, RequiredAreStopped
  <2>3. \/ /\ ~Skipped(p, Stopped)
           /\ state' = [state EXCEPT ![p] = Stopped]
           /\ UNCHANGED hasError
        \/ Skipped(p, Stopped) /\ UNCHANGED <<state, hasError>>
    BY <1>14, <2>2 DEF AboutToShutdown, Advance
  <2> QED
    BY <1>0, <2>1, <2>3, IterationKeepsLoopInv
<1>15. CASE EndOfStopAll
  <2>1. /\ phase = "stopping" /\ next > Len(queue) /\ phase \in LoopPhases
        /\ phase \notin Early \union {"aborted"} /\ Goal[phase] = Stopped
        /\ UNCHANGED <<installation, state, disabledIndirectly,
                       asynchronousPlugins>>
    BY <1>15 DEF EndOfStopAll, EndOfLoop, LoopPhases, Early, Goal
  <2>2. \A p \in Plugins : Sound(p) => state[p] = Stopped
    BY <2>1, SoundAreAtGoal
  <2>3. CASE asynchronousPlugins # {}
    <3>1. /\ phase' = "waiting" /\ hasError' = hasError
          /\ queue' = queue /\ next' = next
      BY <1>15, <2>3 DEF EndOfStopAll
    <3>2. /\ phase' \in DOMAIN Goal /\ phase' \notin Backwards
          /\ phase \notin Backwards /\ Goal[phase] <= Goal[phase']
          /\ Floor[phase'] = Stopped /\ phase' \notin LoopPhases
          /\ phase' # "deleting"
      BY <2>1, <3>1 DEF Goal, Floor, Backwards, LoopPhases, Stopped
    <3>3. \A p \in Plugins : Sound(p) => state[p] >= Floor[phase']
      BY <2>2, <3>2 DEF Stopped
    <3>4. QueueIsCurrent
      BY <2>1 DEF LoopInv, Climbing
    <3>5. next' \in 1..(Len(queue') + 1) /\ queue' = CurrentWalk.queue
      BY <3>1, <3>2, <3>4 DEF QueueIsCurrent
    <3> QED
      BY <1>0, <2>1, <3>1, <3>2, <3>3, <3>5, NextRungKeepsLoopInv
  <2>4. CASE asynchronousPlugins = {}
    <3>1. EnterDeleteAll
      BY <1>15, <2>4 DEF EndOfStopAll
    <3> QED
      BY <1>0, <2>1, <2>2, <2>4, <3>1, EnterDeleteAllKeepsLoopInv
  <2> QED BY <2>3, <2>4
<1>16. ASSUME NEW p \in Plugins, AsyncShutdownFinished(p) PROVE LoopInv'
  <2>1. /\ phase = "waiting" /\ phase \notin Early \union {"aborted"}
        /\ UNCHANGED <<installation, state, disabledIndirectly>>
    BY <1>16 DEF AsyncShutdownFinished, Early
  <2>2. CASE asynchronousPlugins' = {}
    <3>1. EnterDeleteAll
      BY <1>16, <2>2 DEF AsyncShutdownFinished
    <3>2. \A p_1 \in Plugins : Sound(p_1) => state[p_1] = Stopped
      <4> SUFFICES ASSUME NEW x \in Plugins, Sound(x) PROVE state[x] = Stopped
        OBVIOUS
      <4>1. state[x] <= Stopped /\ state[x] >= Stopped
        BY <2>1 DEF LoopInv, Climbing, BetweenRungs, Goal, Floor
      <4> QED
        BY <1>0, <4>1 DEF IInv, StateType, Invalid, Stopped, Deleted
    <3> QED
      BY <1>0, <2>1, <2>2, <3>1, <3>2, EnterDeleteAllKeepsLoopInv
  <2>3. CASE asynchronousPlugins' # {}
    BY <1>11, <1>16, <2>1, <2>3 DEF AsyncShutdownFinished
  <2> QED BY <2>2, <2>3
<1>17. ASSUME NEW p \in Plugins, Kill(p) PROVE LoopInv'
  <2>1. /\ phase = "deleting" /\ Goal[phase] = Deleted
        /\ phase \in LoopPhases /\ phase \notin Early \union {"aborted"}
        /\ next <= Len(queue) /\ queue[next] = p /\ next' = next + 1
        /\ UNCHANGED <<installation, disabledIndirectly, phase, queue,
                       asynchronousPlugins>>
    BY <1>17 DEF Kill, Iteration, Goal, LoopPhases, Early
  <2>2. asynchronousPlugins' = {}
    BY <2>1 DEF LoopInv, Climbing
  <2>3. \/ /\ ~Skipped(p, Deleted)
           /\ state' = [state EXCEPT ![p] = Deleted]
           /\ UNCHANGED hasError
        \/ Skipped(p, Deleted) /\ UNCHANGED <<state, hasError>>
    BY <1>17 DEF Kill, Advance
  <2> QED
    BY <1>0, <2>1, <2>2, <2>3, IterationKeepsLoopInv
<1>18. CASE EndOfDeleteAll
  <2>1. /\ phase = "deleting" /\ phase' = "finished" /\ next > Len(queue)
        /\ phase \in LoopPhases /\ phase \notin Early \union {"aborted"}
        /\ queue' = queue /\ next' = next /\ hasError' = hasError
        /\ UNCHANGED <<installation, state, disabledIndirectly>>
        /\ phase' \notin LoopPhases
    BY <1>18 DEF EndOfDeleteAll, EndOfLoop, LoopPhases, Early
  <2>2. /\ phase' \in DOMAIN Goal /\ phase' \in Backwards
        /\ phase \in Backwards /\ Goal[phase] <= Goal[phase']
        /\ Floor[phase'] = Goal[phase] /\ Goal[phase] >= Floor[phase']
        /\ phase' # "deleting"
    BY <2>1 DEF Goal, Floor, Backwards, Deleted
  <2>3. \A p \in Plugins : Sound(p) => state[p] >= Floor[phase']
    BY <2>1, <2>2, SoundAreAtGoal
  <2>4. QueueIsCurrent
    BY <2>1 DEF LoopInv, Climbing
  <2>5. /\ next' \in 1..(Len(queue') + 1)
        /\ queue' = Reverse(CurrentWalk.queue)
    BY <2>1, <2>2, <2>4 DEF QueueIsCurrent
  <2> QED
    BY <1>0, <2>1, <2>2, <2>3, <2>5, NextRungKeepsLoopInv
<1>19. CASE UNCHANGED vars
  <2>1. phase = "deleting" => asynchronousPlugins' = {}
    BY <1>19 DEF vars, LoopInv, Climbing, Early
  <2>2. UNCHANGED <<installation, state, hasError, disabledIndirectly,
                    phase, queue, next>>
    BY <1>19 DEF vars
  <2> QED BY <1>11, <2>1, <2>2
<1> QED
  BY <1>1, <1>2, <1>3, <1>4, <1>5, <1>6, <1>7, <1>8, <1>9, <1>10, <1>12,
     <1>13, <1>14, <1>15, <1>16, <1>17, <1>18, <1>19
  DEF Next, Startup, Timer, Teardown, Terminated

(* The invariant of the loops holds for every graph of plugins, whichever  *)
(* way they fail: who is unresolved is settled when the command line is    *)
(* parsed, so all load queues agree, and each loop leaves the plugins that *)
(* are sound at its goal.                                                  *)
THEOREM LoopInvariance == Spec => []LoopInv
  BY InitiallyLoop, LoopInductive, PTL DEF Spec

(* loadQueue() sorts: no spec twice, every resolved one behind all its     *)
(* dependencies, none left out that is not flagged (pluginmanager.cpp).    *)
THEOREM QueueSorted == Spec => []QueueIsTopological
<1>1. ASSUME LoopInv, phase = "loading"
      PROVE  /\ IsInjective(queue)
             /\ \A i \in DOMAIN queue :
                  state[queue[i]] >= Resolved =>
                     DependencySpecs(queue[i])
                        \subseteq Range(SubSeq(queue, 1, i - 1))
             /\ Plugins \ Range(queue) \subseteq hasError
  <2>1. QueueOrder(queue) /\ phase \notin Backwards
    BY <1>1, ClimbingOrder DEF Early, Backwards
  <2>2. /\ queue \in Seq(Plugins) /\ DOMAIN queue = 1..Len(queue)
        /\ Len(queue) \in Nat
    BY <2>1 DEF QueueOrder
  <2>3. IsInjective(queue)
    BY <2>1, <2>2 DEF QueueOrder, IsInjective
  <2>4. ASSUME NEW i \in 1..Len(queue), state[queue[i]] >= Resolved,
               NEW d \in DependencySpecs(queue[i])
        PROVE  d \in Range(SubSeq(queue, 1, i - 1))
    <3>1. ~IsUnresolved(queue[i])
      BY <2>4 DEF IsUnresolved, Invalid, Read, Resolved
    <3>2. PICK j \in 1..Len(queue) : queue[j] = d /\ j < i
      BY <2>1, <3>1 DEF QueueOrder
    <3>3. /\ j \in 1..(i - 1)
          /\ SubSeq(queue, 1, i - 1) = [k \in 1..(i - 1) |-> queue[k]]
      BY <2>2, <3>2
    <3> QED BY <3>2, <3>3 DEF Range
  <2>5. Plugins \ Range(queue) \subseteq hasError
    BY <2>1, <2>2 DEF QueueOrder, Range
  <2> QED BY <2>2, <2>3, <2>4, <2>5
<1>2. LoopInv => QueueIsTopological
  BY <1>1 DEF QueueIsTopological
<1> QED
  BY <1>2, LoopInvariance, PTL

(* A plugin whose state is beyond Resolved is not a disabled one. *)
LEMMA LoadedAreSound ==
    ASSUME IInv, NEW p \in Plugins \ hasError, state[p] > Resolved
    PROVE  Sound(p)
  BY DEF IInv, StateType, DisabledStays, Sound, Invalid, Resolved, Deleted

(* A failure reaches all plugins that need the one that failed, and no     *)
(* sound plugin is left half-way (iplugin.cpp:83).                         *)
THEOREM FailuresPropagate == Spec => []FailurePropagates
<1>1. ASSUME LoopInv,
             phase \in {"running", "stopping", "waiting", "deleting", "finished"},
             NEW p \in Plugins
      PROVE  /\ state[p] >= Running =>
                   /\ p \notin hasError
                   /\ \A d \in RequiredSpecs(p) : state[d] >= Running
             /\ (Enabled(p) /\ p \notin disabledIndirectly /\ state[p] < Running)
                   => p \in hasError
  <2>1. /\ Floor[phase] >= Running /\ Floor[phase] \in Nat
        /\ phase \notin Early \union {"aborted"}
    BY <1>1 DEF Floor, Early, Running, Stopped, Deleted
  <2>2. /\ state \in [Plugins -> Invalid..Deleted] /\ InitializedAreSound
        /\ BetweenRungs /\ IInv
    BY <1>1, <2>1 DEF LoopInv, IInv, StateType, Climbing
  <2>3. \A x \in Plugins : Sound(x) => state[x] >= Running
    BY <2>1, <2>2 DEF BetweenRungs, Invalid, Deleted, Running
  <2>4. ASSUME state[p] >= Running
        PROVE  p \notin hasError
    BY <2>2, <2>4
    DEF InitializedAreSound, Invalid, Deleted, Running, Initialized
  <2>5. ASSUME state[p] >= Running, NEW d \in RequiredSpecs(p)
        PROVE  state[d] >= Running
    <3>1. d \in Plugins
      BY <2>2, <2>5, RequiredArePlugins DEF IInv, StateType
    <3>2. state[d] >= Initialized
      BY <2>2, <2>5, <3>1
      DEF IInv, RequiredDependenciesFirst, Invalid, Deleted, Initialized,
          Running, Stopped
    <3>3. d \notin hasError
      BY <2>2, <3>1, <3>2 DEF InitializedAreSound
    <3>4. state[d] > Resolved
      BY <2>2, <3>1, <3>2 DEF Invalid, Deleted, Initialized, Resolved
    <3> QED BY <2>2, <2>3, <3>1, <3>3, <3>4, LoadedAreSound
  <2>6. Sound(p) => ~(state[p] < Running)
    BY <2>2, <2>3 DEF Invalid, Deleted, Running
  <2> QED BY <2>4, <2>5, <2>6 DEF Sound
<1>2. LoopInv => FailurePropagates
  BY <1>1 DEF FailurePropagates
<1> QED
  BY <1>2, LoopInvariance, PTL
-----------------------------------------------------------------------------
(* Before the search paths are set, nothing has happened to a plugin. *)
Fresh == phase = "constructed" =>
            hasError = {} /\ \A p \in Plugins : state[p] = Invalid

LEMMA FreshInitially == Init => Fresh
  BY DEF Init, Fresh

LEMMA FreshInductive == Fresh /\ [Next]_vars => Fresh'
<1> SUFFICES ASSUME Fresh, Next \/ UNCHANGED vars, phase' = "constructed"
             PROVE  UNCHANGED vars
  BY DEF Fresh, vars
<1>1. ~Startup
  BY DEF Startup, SetPluginPaths, StartLoading, StartInitializing,
         StartExtensions, Execute, Abort, ParseOptions, LoadLibrary,
         Initialize, ExtensionsInitialized, Iteration, EnterLoop
<1>2. ~Timer /\ ~Shutdown
  BY DEF Timer, NextDelayedInitialize, Shutdown, EnterLoop
<1>3. ~Teardown
  BY DEF Teardown, EndOfStopAll, EndOfDeleteAll, AsyncShutdownFinished,
         Kill, AboutToShutdown, Iteration, EndOfLoop, EnterDeleteAll, EnterLoop
<1> QED
  BY <1>1, <1>2, <1>3 DEF Next, Terminated

DependencyMap == [p \in Plugins |-> DependencySpecs(p)]
RequiredMap == [p \in Plugins |-> RequiredSpecs(p)]

LEMMA MapsStay ==
    ASSUME UNCHANGED installation
    PROVE  UNCHANGED <<DependencyMap, RequiredMap>>
  BY DEF DependencyMap, RequiredMap, DependencySpecs, RequiredSpecs, Dependencies

(* A step that no plugin notices. *)
LEMMA StutterIfUnnoticed ==
    ASSUME UNCHANGED <<installation, state, hasError, asynchronousPlugins>>
    PROVE  UNCHANGED Contract!vars
  BY MapsStay DEF Contract!vars, DependencyMap, RequiredMap

(* The plugins that are not broken are between the floor and the goal.     *)
LEMMA OthersAreBetween ==
    ASSUME LoopInv, phase \in LoopPhases, NEW q \in Plugins \ hasError,
           state[q] > Resolved
    PROVE  state[q] \in Floor[phase]..Goal[phase]
<1>1. /\ Sound(q) /\ state \in [Plugins -> Invalid..Deleted]
  BY LoadedAreSound DEF LoopInv, IInv, StateType
<1>2. BetweenRungs
  BY DEF LoopInv, Climbing, LoopPhases, Early
<1>3. Floor[phase] \in Nat /\ Goal[phase] \in Nat
  BY DEF LoopPhases, Floor, Goal, Resolved, Loaded, Initialized, Running,
         Stopped, Deleted
<1> QED
  BY <1>1, <1>2, <1>3 DEF BetweenRungs, Invalid, Deleted

(* A climb of the contract, whatever it asks of the other plugins.         *)
LEMMA CallOfContract ==
    ASSUME LoopInv, phase \in LoopPhases, NEW p, NEW low,
           next <= Len(queue), queue[next] = p, ~Skipped(p, Goal[phase]),
           \/ low = Floor[phase]
           \/ phase = "loading" /\ low = Loaded,
           state' = [state EXCEPT ![p] = Goal[phase]],
           UNCHANGED <<installation, hasError>>
    PROVE  Contract!Call(p, Goal[phase], low, Goal[phase])
<1>1. p \in Plugins /\ state[p] = Goal[phase] - 1 /\ p \notin hasError
  BY AtPlugin DEF Skipped, LoopPhases, Early
<1>2. ASSUME NEW q \in Plugins \ hasError, state[q] > Contract!Resolved
      PROVE  state[q] \in low..Goal[phase]
  <2>1. state[q] > Resolved
    BY <1>2 DEF Contract!Resolved, Resolved
  <2>2. state[q] \in Floor[phase]..Goal[phase]
    BY <2>1, OthersAreBetween
  <2>3. CASE low = Floor[phase]
    BY <2>2, <2>3
  <2>4. CASE phase = "loading" /\ low = Loaded
    BY <2>1, <2>2, <2>4 DEF Floor, Goal, Resolved, Loaded
  <2> QED BY <2>3, <2>4
<1> QED
  BY <1>1, <1>2, MapsStay DEF Contract!Call, DependencyMap, RequiredMap

(* Forwards, no plugin that depends on the one the loop is at is there.    *)
LEMMA ForwardIsRootToLeaf ==
    ASSUME LoopInv, phase \in LoopPhases \ Backwards, NEW p,
           next <= Len(queue), queue[next] = p,
           RequiredReached(p, Goal[phase])
    PROVE  Contract!RootToLeaf(p, Goal[phase])
<1>1. phase \notin Early \union {"aborted"}
  BY DEF LoopPhases, Early
<1>2. /\ state \in [Plugins -> Invalid..Deleted] /\ BetweenRungs
      /\ GoalIsPassed /\ Goal[phase] \in Loaded..Deleted
  BY <1>1, RungTypes DEF LoopInv, IInv, StateType, Climbing
<1>3. p \in Plugins
  BY <1>1, AtPlugin
<1>4. ASSUME NEW q \in Plugins, p \in DependencySpecs(q)
      PROVE  state[q] < Goal[phase]
  <2>1. SUFFICES ASSUME state[q] = Goal[phase] PROVE FALSE
    BY <1>2 DEF BetweenRungs, Invalid, Deleted, Loaded
  <2>2. q \in Passed /\ ~IsUnresolved(q)
    BY <1>2, <2>1 DEF GoalIsPassed, IsUnresolved, Invalid, Read, Loaded, Deleted
  <2> QED BY <1>1, <1>4, <2>2, AtPlugin
<1> QED
  BY <1>3, <1>4
  DEF Contract!RootToLeaf, Contract!Dependents, RequiredReached

(* Backwards, all sound plugins that depend on it are. *)
LEMMA BackwardIsLeafToRoot ==
    ASSUME LoopInv, phase \in LoopPhases \intersect Backwards, NEW p,
           next <= Len(queue), queue[next] = p
    PROVE  Contract!LeafToRoot(p, Goal[phase])
<1>1. phase \notin Early \union {"aborted"}
  BY DEF LoopPhases, Early
<1>2. /\ state \in [Plugins -> Invalid..Deleted] /\ IInv
      /\ GoalIsPassed /\ Goal[phase] \in Loaded..Deleted
  BY <1>1, RungTypes DEF LoopInv, IInv, StateType, Climbing
<1>3. p \in Plugins
  BY <1>1, AtPlugin
<1>4. ASSUME NEW q \in Plugins \ hasError, p \in DependencySpecs(q),
             state[q] > Resolved
      PROVE  state[q] >= Goal[phase]
  <2>1. Sound(q) /\ ~IsUnresolved(q)
    BY <1>2, <1>4, LoadedAreSound
    DEF IsUnresolved, Invalid, Read, Resolved, Deleted
  <2>2. q \in Passed
    BY <1>1, <1>4, <2>1, AtPlugin
  <2> QED BY <1>2, <2>1, <2>2 DEF GoalIsPassed, Loaded, Deleted
<1> QED
  BY <1>3, <1>4
  DEF Contract!LeafToRoot, Contract!Dependents, Contract!Resolved, Resolved

(* A plugin that is flagged while the loops climb to Initialized. *)
LEMMA FlaggingIsFailure ==
    ASSUME LoopInv, phase \in {"loading", "initializing"}, NEW p,
           next <= Len(queue), queue[next] = p, ~Skipped(p, Goal[phase]),
           Flag(p), UNCHANGED <<installation, asynchronousPlugins>>
    PROVE  p \in Plugins /\ Contract!Fail(p)
<1>1. phase \notin Early \union {"aborted"}
  BY DEF Early
<1>2. p \in Plugins /\ state[p] \in {Resolved, Loaded}
  BY <1>1, AtPlugin DEF Skipped, Goal, Resolved, Loaded, Initialized
<1>3. \A q \in Plugins : state[q] <= Initialized
  BY <1>1 DEF LoopInv, IInv, StateType, Climbing, BetweenRungs, Goal,
              Loaded, Initialized, Invalid, Deleted
<1> QED
  BY <1>2, <1>3, MapsStay
  DEF Contract!Fail, Flag, DependencyMap, RequiredMap, Contract!Resolved,
      Contract!Loaded, Contract!Initialized, Resolved, Loaded, Initialized

LEMMA ContractInitially == Init => Contract!Init
<1> SUFFICES ASSUME Init PROVE Contract!Init
  OBVIOUS
<1>1. installation \in Installations
  BY DEF Init
<1>2. \A p \in Plugins : RequiredSpecs(p) \subseteq DependencySpecs(p)
  BY <1>1, InstallationType
<1> QED
  BY <1>2 DEF Init, Contract!Init, Invalid

(* Each step of the manager is a call the contract allows, or nothing the  *)
(* plugins notice.                                                         *)
LEMMA StepsOfContract ==
    ASSUME LoopInv, Fresh, IInv', [Next]_vars
    PROVE  [Contract!Next]_(Contract!vars)
<1> USE DEF Contract!Next
<1>0. /\ IInv /\ installation' = installation
      /\ state \in [Plugins -> Invalid..Deleted] /\ hasError \subseteq Plugins
      /\ hasError' \subseteq Plugins
  <2>1. IInv /\ IInv'
    BY DEF LoopInv
  <2>2. installation' = installation
    BY DEF Next, vars, Startup, Timer, Teardown, Terminated, SetPluginPaths,
           StartLoading, StartInitializing, StartExtensions, Execute, Abort,
           ParseOptions, LoadLibrary, Initialize, ExtensionsInitialized,
           NextDelayedInitialize, Shutdown, EndOfStopAll, EndOfDeleteAll,
           AsyncShutdownFinished, Kill, AboutToShutdown
  <2> QED BY <2>1, <2>2 DEF IInv, StateType
<1>1. ASSUME UNCHANGED asynchronousPlugins,
             state' \in [Plugins -> 0..Resolved],
             \A p \in Plugins : state[p] <= Resolved /\ state'[p] >= state[p],
             hasError \subseteq hasError'
      PROVE  Contract!Resolve
  BY <1>0, <1>1, MapsStay
  DEF Contract!Resolve, DependencyMap, RequiredMap, Contract!Resolved, Resolved
<1>2. CASE SetPluginPaths
  <2>1. /\ phase = "constructed" /\ UNCHANGED asynchronousPlugins
        /\ hasError = {} /\ \A p \in Plugins : state[p] = Invalid
    BY <1>2 DEF SetPluginPaths, Fresh
  <2>2. state' \in [Plugins -> 0..Resolved]
    BY <1>2 DEF SetPluginPaths, ResolveDependencies, ResolvedState, Invalid,
                Read, Resolved
  <2> QED BY <1>1, <2>1, <2>2 DEF Invalid, Resolved
<1>3. ASSUME NEW S \in SUBSET Plugins, ParseOptions(S)
      PROVE  [Contract!Next]_(Contract!vars)
  <2>1. /\ UNCHANGED asynchronousPlugins
        /\ \A p \in Plugins : state[p] <= Resolved
    BY <1>3 DEF ParseOptions, LoopInv, NothingLoaded, Early
  <2>2. CASE S = {}
    BY <1>0, <1>3, <2>1, <2>2, StutterIfUnnoticed DEF ParseOptions
  <2>3. CASE S # {}
    <3>1. /\ state' = ResolvedState(hasError, state)
          /\ hasError \subseteq hasError'
      BY <1>0, <1>3, <2>3 DEF ParseOptions, ResolveDependencies
    <3>2. \A p \in Plugins : state[p] \in 0..Resolved
      BY <1>0, <2>1 DEF Invalid, Resolved, Deleted
    <3>3. /\ state' \in [Plugins -> 0..Resolved]
          /\ \A p \in Plugins : state'[p] >= state[p]
      BY <3>1, <3>2 DEF ResolvedState, Read, Resolved
    <3> QED BY <1>1, <2>1, <3>1, <3>3
  <2> QED BY <2>2, <2>3
<1>4. CASE StartLoading
  <2>1. /\ UNCHANGED <<state, asynchronousPlugins>> /\ hasError \subseteq hasError'
        /\ \A p \in Plugins : state[p] <= Resolved
    BY <1>0, <1>4 DEF StartLoading, FlagErrors, LoopInv, NothingLoaded, Early
  <2>2. \A p \in Plugins : state'[p] \in 0..Resolved /\ state'[p] >= state[p]
    BY <1>0, <2>1 DEF Invalid, Resolved, Deleted
  <2>3. state' \in [Plugins -> 0..Resolved]
    BY <1>0, <2>1, <2>2
  <2> QED BY <1>1, <2>1, <2>2, <2>3
<1>5. ASSUME NEW p \in Plugins, LoadLibrary(p)
      PROVE  [Contract!Next]_(Contract!vars)
  <2>1. /\ phase = "loading" /\ phase \in LoopPhases \ Backwards
        /\ Goal[phase] = Loaded /\ Goal[phase] = Contract!Loaded
        /\ next <= Len(queue) /\ queue[next] = p
        /\ UNCHANGED <<installation, asynchronousPlugins>>
    BY <1>5 DEF LoadLibrary, Iteration, LoopPhases, Backwards, Goal, Loaded,
                Contract!Loaded
  <2>2. CASE Skipped(p, Loaded) /\ UNCHANGED <<state, hasError, failures>>
    BY <2>1, <2>2, StutterIfUnnoticed
  <2>3. CASE ~Skipped(p, Loaded) /\ Flag(p)
    BY <2>1, <2>3, FlaggingIsFailure
  <2>4. CASE ~Skipped(p, Loaded) /\ RequiredReached(p, Loaded) /\ Advance(p, Loaded)
    <3>1. Contract!RootToLeaf(p, Goal[phase])
      BY <2>1, <2>4, ForwardIsRootToLeaf
    <3>2. Contract!Call(p, Goal[phase], Loaded, Goal[phase])
      BY <2>1, <2>4, CallOfContract DEF Advance
    <3> QED BY <2>1, <3>1, <3>2 DEF Contract!Load
  <2> QED BY <1>5, <2>2, <2>3, <2>4 DEF LoadLibrary, Climb, PluginFails
<1>6. ASSUME NEW p \in Plugins, Initialize(p)
      PROVE  [Contract!Next]_(Contract!vars)
  <2>1. /\ phase = "initializing" /\ phase \in LoopPhases \ Backwards
        /\ Goal[phase] = Initialized /\ Goal[phase] = Contract!Initialized
        /\ Floor[phase] = Contract!Loaded
        /\ next <= Len(queue) /\ queue[next] = p
        /\ UNCHANGED <<installation, asynchronousPlugins>>
    BY <1>6 DEF Initialize, Iteration, LoopPhases, Backwards, Goal, Floor,
                Loaded, Initialized, Contract!Loaded, Contract!Initialized
  <2>2. CASE Skipped(p, Initialized) /\ UNCHANGED <<state, hasError, failures>>
    BY <2>1, <2>2, StutterIfUnnoticed
  <2>3. CASE ~Skipped(p, Initialized) /\ Flag(p)
    BY <2>1, <2>3, FlaggingIsFailure
  <2>4. CASE /\ ~Skipped(p, Initialized) /\ RequiredReached(p, Initialized)
             /\ Advance(p, Initialized)
    <3>1. Contract!RootToLeaf(p, Goal[phase])
      BY <2>1, <2>4, ForwardIsRootToLeaf
    <3>2. Contract!Call(p, Goal[phase], Floor[phase], Goal[phase])
      BY <2>1, <2>4, CallOfContract DEF Advance
    <3> QED BY <2>1, <3>1, <3>2 DEF Contract!Initialize
  <2> QED BY <1>6, <2>2, <2>3, <2>4 DEF Initialize, Climb, PluginFails
<1>7. ASSUME NEW p \in Plugins, ExtensionsInitialized(p)
      PROVE  [Contract!Next]_(Contract!vars)
  <2>1. /\ phase = "extensions" /\ phase \in LoopPhases \intersect Backwards
        /\ Goal[phase] = Running /\ Goal[phase] = Contract!Running
        /\ Floor[phase] = Contract!Initialized
        /\ next <= Len(queue) /\ queue[next] = p
        /\ UNCHANGED <<installation, asynchronousPlugins>>
    BY <1>7 DEF ExtensionsInitialized, Iteration, LoopPhases, Backwards, Goal,
                Floor, Initialized, Running, Contract!Initialized, Contract!Running
  <2>2. CASE Skipped(p, Running)
    BY <1>7, <2>1, <2>2, StutterIfUnnoticed DEF ExtensionsInitialized
  <2>3. CASE ~Skipped(p, Running)
    <3>1. Advance(p, Running)
      BY <1>7, <2>3 DEF ExtensionsInitialized
    <3>2. Contract!LeafToRoot(p, Goal[phase])
      BY <2>1, BackwardIsLeafToRoot
    <3>3. Contract!Call(p, Goal[phase], Floor[phase], Goal[phase])
      BY <2>1, <2>3, <3>1, CallOfContract DEF Advance
    <3> QED BY <2>1, <3>2, <3>3 DEF Contract!ExtensionsInitialized
  <2> QED BY <2>2, <2>3
<1>8. ASSUME NEW p \in Plugins, NEW a \in BOOLEAN, AboutToShutdown(p, a)
      PROVE  [Contract!Next]_(Contract!vars)
  <2>1. /\ phase = "stopping" /\ phase \in LoopPhases \ Backwards
        /\ Goal[phase] = Stopped /\ Goal[phase] = Contract!Stopped
        /\ Floor[phase] = Contract!Running
        /\ next <= Len(queue) /\ queue[next] = p
        /\ UNCHANGED installation
    BY <1>8 DEF AboutToShutdown, Iteration, LoopPhases, Backwards, Goal,
                Floor, Running, Stopped, Contract!Running, Contract!Stopped
  <2>2. CASE Skipped(p, Stopped)
    BY <1>8, <2>1, <2>2, StutterIfUnnoticed DEF AboutToShutdown
  <2>3. CASE ~Skipped(p, Stopped)
    <3>1. RequiredReached(p, Stopped)
      BY <2>1, <2>3, RequiredAreStopped
    <3>2. /\ Advance(p, Stopped)
          /\ asynchronousPlugins' \in {asynchronousPlugins,
                                       asynchronousPlugins \union {p}}
      BY <1>8, <2>3, <3>1 DEF AboutToShutdown
    <3>3. Contract!RootToLeaf(p, Goal[phase])
      BY <2>1, <3>1, ForwardIsRootToLeaf
    <3>4. Contract!Call(p, Goal[phase], Floor[phase], Goal[phase])
      BY <2>1, <2>3, <3>2, CallOfContract DEF Advance
    <3> QED BY <2>1, <3>2, <3>3, <3>4 DEF Contract!AboutToShutdown
  <2> QED BY <2>2, <2>3
<1>9. ASSUME NEW p \in Plugins, AsyncShutdownFinished(p)
      PROVE  [Contract!Next]_(Contract!vars)
  <2>1. /\ phase = "waiting" /\ p \in asynchronousPlugins
        /\ asynchronousPlugins' = asynchronousPlugins \ {p}
        /\ state' = state
    BY <1>9 DEF AsyncShutdownFinished
  <2>2. phase \notin Early \union {"aborted"}
    BY <2>1 DEF Early
  <2>3. hasError' = hasError
    BY <1>9, <2>2, NothingNewToFlag DEF AsyncShutdownFinished, EnterDeleteAll
  <2> QED
    BY <1>0, <2>1, <2>3, MapsStay
    DEF Contract!AsynchronousShutdownFinished, DependencyMap, RequiredMap
<1>10. ASSUME NEW p \in Plugins, Kill(p)
       PROVE  [Contract!Next]_(Contract!vars)
  <2>1. /\ phase = "deleting" /\ phase \in LoopPhases \intersect Backwards
        /\ phase \notin Early \union {"aborted"}
        /\ Goal[phase] = Deleted /\ Goal[phase] = Contract!Deleted
        /\ Floor[phase] = Contract!Stopped
        /\ next <= Len(queue) /\ queue[next] = p
        /\ UNCHANGED <<installation, asynchronousPlugins>>
    BY <1>10 DEF Kill, Iteration, LoopPhases, Backwards, Early, Goal,
                 Floor, Stopped, Deleted, Contract!Stopped, Contract!Deleted
  <2>2. CASE Skipped(p, Deleted)
    BY <1>10, <2>1, <2>2, StutterIfUnnoticed DEF Kill
  <2>3. CASE ~Skipped(p, Deleted)
    <3>1. Advance(p, Deleted)
      BY <1>10, <2>3 DEF Kill
    <3>2. Contract!LeafToRoot(p, Goal[phase])
      BY <2>1, BackwardIsLeafToRoot
    <3>3. Contract!Call(p, Goal[phase], Floor[phase], Goal[phase])
      BY <2>1, <2>3, <3>1, CallOfContract DEF Advance
    <3>4. asynchronousPlugins = {}
      BY <2>1 DEF LoopInv, Climbing
    <3> QED BY <2>1, <3>2, <3>3, <3>4 DEF Contract!Delete
  <2> QED BY <2>2, <2>3
<1>11. CASE Shutdown
  <2>1. phase \notin Early \union {"aborted"}
    BY <1>11 DEF Shutdown, Early
  <2>2. UNCHANGED <<installation, state, hasError, asynchronousPlugins>>
    BY <1>11, <2>1, NothingNewToFlag DEF Shutdown
  <2> QED BY <2>2, StutterIfUnnoticed
<1>12. CASE EndOfStopAll
  <2>1. phase \notin Early \union {"aborted"}
    BY <1>12 DEF EndOfStopAll, EndOfLoop, Early
  <2>2. UNCHANGED <<installation, state, hasError, asynchronousPlugins>>
    BY <1>12, <2>1, NothingNewToFlag DEF EndOfStopAll, EnterDeleteAll
  <2> QED BY <2>2, StutterIfUnnoticed
<1>13. ASSUME UNCHANGED <<installation, state, hasError, asynchronousPlugins>>
       PROVE  [Contract!Next]_(Contract!vars)
  BY <1>13, StutterIfUnnoticed
<1>14. CASE Abort \/ StartInitializing \/ StartExtensions \/ Execute
  BY <1>13, <1>14 DEF Abort, StartInitializing, StartExtensions, Execute
<1>15. CASE Timer
  BY <1>13, <1>15 DEF Timer, NextDelayedInitialize
<1>16. CASE EndOfDeleteAll
  BY <1>13, <1>16 DEF EndOfDeleteAll
<1>17. CASE UNCHANGED vars
  BY <1>13, <1>17 DEF vars
<1> QED
  BY <1>2, <1>3, <1>4, <1>5, <1>6, <1>7, <1>8, <1>9, <1>10, <1>11, <1>12,
     <1>14, <1>15, <1>16, <1>17
  DEF Next, Startup, Teardown, Terminated

(* The manager, with its loops and its load queue, calls the plugins as    *)
(* iplugin.cpp promises: initialize() and aboutToShutdown() root-to-leaf,  *)
(* extensionsInitialized() and deletion leaf-to-root, all plugins on one   *)
(* rung before any goes to the next one.                                   *)
THEOREM PluginRefinement == Spec => ContractSpec
<1>1. LoopInv /\ Fresh /\ LoopInv' /\ [Next]_vars
        => [Contract!Next]_(Contract!vars)
  BY StepsOfContract DEF LoopInv
<1>2. Spec => []LoopInv
  BY LoopInvariance
<1>3. Spec => []Fresh
  BY FreshInitially, FreshInductive, PTL DEF Spec
<1> QED
  BY <1>1, <1>2, <1>3, ContractInitially, PTL
  DEF Spec, ContractSpec, Contract!Spec
=============================================================================
