---------------------------- MODULE PluginManager ----------------------------
(***************************************************************************)
(* The plugin life cycle of Qt Creator: ExtensionSystem::PluginManager and *)
(* PluginSpec, driven by main() in src/src/app/main.cpp.                   *)
(*                                                                         *)
(* Every plugin climbs Invalid < Read < Resolved < Loaded < Initialized <  *)
(* Running < Stopped < Deleted.  The manager moves all plugins one rung at *)
(* a time, in (or against) the order of a load queue that it recomputes    *)
(* from the dependency graph before each climb.  A step of this            *)
(* specification is one loadPlugin() call, because that is where plugin    *)
(* code runs and may fail.                                                 *)
(***************************************************************************)
EXTENDS Integers, Sequences, SequencesExt, FiniteSets

CONSTANTS
    Plugins,        \* the plugin specs found in the search paths
    Core,           \* the plugin main() refuses to run without ("Core")
    Installations,  \* the installations the program may be started in
    MaxFailures     \* bound: failing loadLibrary()/initialize() calls

(* PluginSpec::State, in the order of the enumeration. *)
Invalid     == 0
Read        == 1
Resolved    == 2
Loaded      == 3
Initialized == 4
Running     == 5
Stopped     == 6
Deleted     == 7

(* One entry of PluginSpecPrivate::dependencySpecs. *)
Dependency == [spec : Plugins, type : {"required", "optional"}]

(***************************************************************************)
(* What is on disk and in the settings when the program starts:            *)
(*   dependencies[p]  the dependencies of p that some spec provides, in    *)
(*                    the iteration order of the QHash that holds them;    *)
(*   unreadable       specs whose XML cannot be read;                      *)
(*   unresolvable     specs with a required dependency nobody provides;    *)
(*   enabled          specs neither the defaults nor the settings disable; *)
(*   directoryOrder   the order in which the directory scan meets them;    *)
(*   nameOrder        the order of their names.                            *)
(***************************************************************************)
Orders == {order \in Seq(Plugins) : IsInjective(order) /\ Range(order) = Plugins}

Installation ==
    [dependencies   : [Plugins -> Seq(Dependency)],
     unreadable     : SUBSET Plugins,
     unresolvable   : SUBSET Plugins,
     enabled        : SUBSET Plugins,
     directoryOrder : Orders,
     nameOrder      : Orders]

ASSUME PluginsAssumption == IsFiniteSet(Plugins)
ASSUME CoreAssumption == Core \in Plugins
ASSUME InstallationsAssumption == Installations \subseteq Installation
ASSUME MaxFailuresAssumption == MaxFailures \in Nat

VARIABLES
    installation,           \* the installation of this run; never changes
    state,                  \* PluginSpecPrivate::state
    hasError,               \* PluginSpecPrivate::hasError, as a set
    disabledIndirectly,     \* PluginSpecPrivate::disabledIndirectly, as a set
    phase,                  \* which loop of which manager function is running
    queue,                  \* the load queue that loop iterates over
    next,                   \* index in queue of its next iteration
    delayedInitializeQueue, \* plugins still to be initialized late
    delayedInitializeTimer, \* "none", or "active" until it fires
    asynchronousPlugins,    \* plugins whose asynchronous shutdown is pending
    failures                \* failing plugin calls so far (bounded)

vars == <<installation, state, hasError, disabledIndirectly, phase, queue,
          next, delayedInitializeQueue, delayedInitializeTimer,
          asynchronousPlugins, failures>>

Phases == {"constructed", "resolved", "parsed", "loading", "initializing",
           "extensions", "running", "stopping", "waiting", "deleting", "finished", "aborted"}

Dependencies(p) == Range(installation.dependencies[p])

RequiredSpecs(p) ==
    {d.spec : d \in {e \in Dependencies(p) : e.type = "required"}}

DependencySpecs(p) == {d.spec : d \in Dependencies(p)}

Enabled(p) == p \in installation.enabled
-----------------------------------------------------------------------------
(***************************************************************************)
(* loadQueue().  A walk carries the queue built so far, the                *)
(* circularityCheckQueue of the current root (never popped, so only its    *)
(* content matters), the specs it has flagged, and the result of the last  *)
(* call.  A spec is queued after all its dependencies, the optional ones   *)
(* included; a spec below Resolved is queued but reported as a failure.    *)
(***************************************************************************)
Walk == [queue : Seq(Plugins), circularity : SUBSET Plugins,
         errors : SUBSET Plugins, ok : BOOLEAN]

(* One call for each element of a list, given the call. *)
Along(call, list, walk) ==
    LET after[i \in 0..Len(list)] ==
            IF i = 0 THEN walk ELSE call[list[i]][after[i - 1]]
    IN  after[Len(list)]

(* The call for a spec that is reached in a circle. *)
Circular ==
    [p \in Plugins |-> [w \in Walk |->
        [w EXCEPT !.ok = FALSE, !.errors = @ \union {p}]]]

(* The calls for the dependencies of a spec, until one of them fails. *)
UntilOneFails(call) ==
    [d \in Dependency |-> [w \in Walk |->
        IF w.ok THEN call[d.spec][w] ELSE w]]

(* The call for a spec, given the calls for its dependencies. *)
Calls(dependencies, unresolved, call) ==
    [p \in Plugins |-> [w \in Walk |->
        LET entered == [w EXCEPT !.circularity = @ \union {p}, !.ok = TRUE]
            left == Along(UntilOneFails(call), dependencies[p], entered)
        IN  IF p \in Range(w.queue) THEN [w EXCEPT !.ok = TRUE]
            ELSE IF p \in w.circularity THEN Circular[p][w]
            ELSE IF p \in unresolved
            THEN [entered EXCEPT !.ok = FALSE, !.queue = Append(@, p)]
            ELSE IF left.ok THEN [left EXCEPT !.queue = Append(@, p)]
            ELSE [left EXCEPT !.errors = @ \union {p}]]]

(* Calls are nested no deeper than there are specs, since each adds its    *)
(* own to circularity.                                                     *)
NestedCalls(dependencies, unresolved) ==
    LET nested[n \in 0..(Cardinality(Plugins) + 1)] ==
            IF n = 0 THEN Circular
            ELSE Calls(dependencies, unresolved, nested[n - 1])
    IN  nested[Cardinality(Plugins) + 1]

LoadQueueOf(dependencies, specs, unresolved) ==
    LET call == NestedCalls(dependencies, unresolved)
        roots == [p \in Plugins |-> [w \in Walk |->
                     call[p][[w EXCEPT !.circularity = {}]]]]
    IN  Along(roots, specs, [queue |-> <<>>, circularity |-> {},
                             errors |-> {}, ok |-> TRUE])

LoadQueue(specs, states) ==
    LoadQueueOf(installation.dependencies, specs,
                {p \in Plugins : states[p] \in {Invalid, Read}})

(***************************************************************************)
(* resolveDependencies(): every spec without an error is (re)resolved,     *)
(* then disableIndirectlyIfDependencyDisabled() runs along the load queue  *)
(* of the specs in the order they have at that moment.  A spec that was    *)
(* never resolved has no dependencySpecs.                                  *)
(***************************************************************************)
ResolvedState(errors, states) ==
    [p \in Plugins |-> IF p \notin errors /\ states[p] = Read
                       THEN Resolved ELSE states[p]]

DisabledAlong(q, states, disabled) ==
    FoldLeft(LAMBDA dis, p :
                IF /\ Enabled(p) /\ states[p] \notin {Invalid, Read}
                   /\ \E d \in RequiredSpecs(p) : d \in dis \/ ~Enabled(d)
                THEN dis \union {p} ELSE dis,
             disabled, q)

ResolveDependencies(specs, states, errors, disabled) ==
    LET resolved == ResolvedState(errors, states)
        walk     == LoadQueue(specs, resolved)
    IN  /\ state' = resolved
        /\ hasError' = {p \in Plugins : p \in errors \union walk.errors}
        /\ disabledIndirectly' =
             {p \in Plugins : p \in DisabledAlong(walk.queue, resolved, disabled)}

(***************************************************************************)
(* The loops of loadPlugins(), stopAll() and deleteAll().                  *)
(***************************************************************************)
EnterLoop(ph, q) == /\ phase' = ph
                    /\ queue' = q
                    /\ next' = 1

Iteration(ph, p) == /\ phase = ph
                    /\ next <= Len(queue)
                    /\ queue[next] = p
                    /\ next' = next + 1

EndOfLoop(ph) == /\ phase = ph
                 /\ next > Len(queue)

(* Mutant: plugins are loaded in the order of their names. *)
CurrentWalk_ByName == [queue |-> installation.nameOrder, errors |-> {}]

(* The load queue from the sorted specs; building it may flag more specs. *)
CurrentWalk == LoadQueue(installation.nameOrder, state)

FlagErrors == hasError' = {p \in Plugins : p \in hasError \union CurrentWalk.errors}

(* Mutant: only the user's own switch keeps a plugin from being loaded. *)
Skipped_EnabledOnly(p, destState) ==
    \/ p \in hasError
    \/ state[p] # destState - 1
    \/ destState = Loaded /\ ~Enabled(p)

(* Mutant: a plugin in error is loaded all the same. *)
Skipped_IgnoresErrors(p, destState) ==
    \/ state[p] # destState - 1
    \/ destState = Loaded /\ (p \in disabledIndirectly \/ ~Enabled(p))

(* The early returns of loadPlugin(). *)
Skipped(p, destState) ==
    \/ p \in hasError
    \/ state[p] # destState - 1
    \/ destState = Loaded /\ (p \in disabledIndirectly \/ ~Enabled(p))

(* Mutant: loadPlugin() does not check the dependencies. *)
RequiredReached_Unchecked(p, destState) == TRUE

RequiredReached(p, destState) ==
    \A d \in RequiredSpecs(p) : state[d] = destState

Advance(p, destState) ==
    /\ state' = [state EXCEPT ![p] = destState]
    /\ UNCHANGED <<hasError, failures>>

Flag(p) ==
    /\ hasError' = hasError \union {p}
    /\ UNCHANGED state

(* loadLibrary() or initialize() reports an error; MaxFailures bounds it. *)
PluginFails(p) ==
    /\ failures < MaxFailures
    /\ failures' = failures + 1
    /\ Flag(p)

(* loadPlugin(p, destState) for the two rungs a plugin may refuse. *)
Climb(p, destState) ==
    \/ Skipped(p, destState) /\ UNCHANGED <<state, hasError, failures>>
    \/ /\ ~Skipped(p, destState)
       /\ \/ ~RequiredReached(p, destState) /\ Flag(p) /\ UNCHANGED failures
          \/ RequiredReached(p, destState) /\ Advance(p, destState)
          \/ RequiredReached(p, destState) /\ PluginFails(p)
-----------------------------------------------------------------------------
Init ==
    /\ installation \in Installations
    /\ state = [p \in Plugins |-> Invalid]
    /\ hasError = {}
    /\ disabledIndirectly = {}
    /\ phase = "constructed"
    /\ queue = <<>>
    /\ next = 1
    /\ delayedInitializeQueue = <<>>
    /\ delayedInitializeTimer = "none"
    /\ asynchronousPlugins = {}
    /\ failures = 0

(* setPluginPaths(): the load queue that flags errors here is built in the *)
(* order of the directory scan; the specs are sorted by name only later.   *)
SetPluginPaths ==
    /\ phase = "constructed"
    /\ phase' = "resolved"
    /\ ResolveDependencies(
            installation.directoryOrder,
            [p \in Plugins |-> IF p \in installation.unreadable
                               THEN Invalid ELSE Read],
            installation.unreadable \union installation.unresolvable,
            {})
    /\ UNCHANGED <<installation, queue, next, delayedInitializeQueue,
                   delayedInitializeTimer, asynchronousPlugins, failures>>

(* parseOptions() with "-noload" for each plugin of S. *)
ParseOptions(S) ==
    /\ phase = "resolved"
    /\ phase' = "parsed"
    /\ IF S = {}
       THEN UNCHANGED <<state, hasError, disabledIndirectly>>
       ELSE ResolveDependencies(installation.nameOrder, state, hasError,
                                disabledIndirectly \union S)
    /\ UNCHANGED <<installation, queue, next, delayedInitializeQueue,
                   delayedInitializeTimer, asynchronousPlugins, failures>>

(* main() gives up on a broken Core plugin before and after loadPlugins(). *)
Abort ==
    /\ phase = "parsed" \/ EndOfLoop("extensions")
    /\ Core \in hasError
    /\ phase' = "aborted"
    /\ UNCHANGED <<installation, state, hasError, disabledIndirectly, queue,
                   next, delayedInitializeQueue, delayedInitializeTimer,
                   asynchronousPlugins, failures>>

StartLoading ==
    /\ phase = "parsed"
    /\ Core \notin hasError
    /\ EnterLoop("loading", CurrentWalk.queue)
    /\ FlagErrors
    /\ UNCHANGED <<installation, state, disabledIndirectly,
                   delayedInitializeQueue, delayedInitializeTimer,
                   asynchronousPlugins, failures>>

LoadLibrary(p) ==
    /\ Iteration("loading", p)
    /\ Climb(p, Loaded)
    /\ UNCHANGED <<installation, disabledIndirectly, phase, queue,
                   delayedInitializeQueue, delayedInitializeTimer,
                   asynchronousPlugins>>

StartInitializing ==
    /\ EndOfLoop("loading")
    /\ EnterLoop("initializing", queue)
    /\ UNCHANGED <<installation, state, hasError, disabledIndirectly,
                   delayedInitializeQueue, delayedInitializeTimer,
                   asynchronousPlugins, failures>>

Initialize(p) ==
    /\ Iteration("initializing", p)
    /\ Climb(p, Initialized)
    /\ UNCHANGED <<installation, disabledIndirectly, phase, queue,
                   delayedInitializeQueue, delayedInitializeTimer,
                   asynchronousPlugins>>

StartExtensions ==
    /\ EndOfLoop("initializing")
    /\ EnterLoop("extensions", Reverse(queue))
    /\ UNCHANGED <<installation, state, hasError, disabledIndirectly,
                   delayedInitializeQueue, delayedInitializeTimer,
                   asynchronousPlugins, failures>>

ExtensionsInitialized(p) ==
    /\ Iteration("extensions", p)
    /\ IF Skipped(p, Running)
       THEN UNCHANGED <<state, hasError, failures>>
       ELSE Advance(p, Running)
    /\ delayedInitializeQueue' = IF state'[p] = Running
                                 THEN Append(delayedInitializeQueue, p)
                                 ELSE delayedInitializeQueue
    /\ UNCHANGED <<installation, disabledIndirectly, phase, queue,
                   delayedInitializeTimer, asynchronousPlugins>>

(* loadPlugins() ends by starting the timer; main() then enters exec(). *)
Execute ==
    /\ EndOfLoop("extensions")
    /\ Core \notin hasError
    /\ phase' = "running"
    /\ delayedInitializeTimer' = "active"
    /\ UNCHANGED <<installation, state, hasError, disabledIndirectly, queue,
                   next, delayedInitializeQueue, asynchronousPlugins,
                   failures>>

(* nextDelayedInitialize(): the first n plugins of the queue are           *)
(* initialized, the n-th being the first that asks for a delay, or the     *)
(* last of the queue.                                                      *)
NextDelayedInitialize(n) ==
    /\ phase = "running"
    /\ delayedInitializeTimer = "active"
    /\ n \in 0..Len(delayedInitializeQueue)
    /\ n = 0 <=> delayedInitializeQueue = <<>>
    /\ delayedInitializeQueue' =
            SubSeq(delayedInitializeQueue, n + 1, Len(delayedInitializeQueue))
    /\ delayedInitializeTimer' = IF delayedInitializeQueue' = <<>>
                                 THEN "none" ELSE "active"
    /\ UNCHANGED <<installation, state, hasError, disabledIndirectly, phase,
                   queue, next, asynchronousPlugins, failures>>

(* QCoreApplication::aboutToQuit() calls shutdown(), which calls stopAll(). *)
Shutdown ==
    /\ phase = "running"
    /\ EnterLoop("stopping", CurrentWalk.queue)
    /\ FlagErrors
    /\ delayedInitializeTimer' = "none"
    /\ UNCHANGED <<installation, state, disabledIndirectly,
                   delayedInitializeQueue, asynchronousPlugins, failures>>

(* loadPlugin(p, Stopped); the plugin answers whether it needs more time. *)
AboutToShutdown(p, asynchronous) ==
    /\ Iteration("stopping", p)
    /\ \/ /\ Skipped(p, Stopped)
          /\ ~asynchronous
          /\ UNCHANGED <<state, hasError, asynchronousPlugins, failures>>
       \/ /\ ~Skipped(p, Stopped)
          /\ ~RequiredReached(p, Stopped)
          /\ ~asynchronous
          /\ Flag(p)
          /\ UNCHANGED <<asynchronousPlugins, failures>>
       \/ /\ ~Skipped(p, Stopped)
          /\ RequiredReached(p, Stopped)
          /\ Advance(p, Stopped)
          /\ asynchronousPlugins' = IF asynchronous
                                    THEN asynchronousPlugins \union {p}
                                    ELSE asynchronousPlugins
    /\ UNCHANGED <<installation, disabledIndirectly, phase, queue,
                   delayedInitializeQueue, delayedInitializeTimer>>

(* Mutant: plugins are deleted in the order they were stopped. *)
EnterDeleteAll_Forward ==
    /\ EnterLoop("deleting", CurrentWalk.queue)
    /\ FlagErrors

(* deleteAll() recomputes the load queue and walks it backwards. *)
EnterDeleteAll ==
    /\ EnterLoop("deleting", Reverse(CurrentWalk.queue))
    /\ FlagErrors

(* shutdown() after stopAll(): it runs an event loop only if it has to. *)
EndOfStopAll ==
    /\ EndOfLoop("stopping")
    /\ IF asynchronousPlugins # {}
       THEN phase' = "waiting" /\ UNCHANGED <<hasError, queue, next>>
       ELSE EnterDeleteAll
    /\ UNCHANGED <<installation, state, disabledIndirectly,
                   delayedInitializeQueue, delayedInitializeTimer,
                   asynchronousPlugins, failures>>

(* Mutant: the plugin is not removed from asynchronousPlugins. *)
AsyncShutdownFinished_NotRemoved(p) ==
    /\ phase = "waiting"
    /\ p \in asynchronousPlugins
    /\ UNCHANGED vars

(* asyncShutdownFinished(); the last plugin ends the event loop. *)
AsyncShutdownFinished(p) ==
    /\ phase = "waiting"
    /\ p \in asynchronousPlugins
    /\ asynchronousPlugins' = asynchronousPlugins \ {p}
    /\ IF asynchronousPlugins' = {}
       THEN EnterDeleteAll
       ELSE UNCHANGED <<hasError, phase, queue, next>>
    /\ UNCHANGED <<installation, state, disabledIndirectly,
                   delayedInitializeQueue, delayedInitializeTimer, failures>>

Kill(p) ==
    /\ Iteration("deleting", p)
    /\ IF Skipped(p, Deleted)
       THEN UNCHANGED <<state, hasError, failures>>
       ELSE Advance(p, Deleted)
    /\ UNCHANGED <<installation, disabledIndirectly, phase, queue,
                   delayedInitializeQueue, delayedInitializeTimer,
                   asynchronousPlugins>>

EndOfDeleteAll ==
    /\ EndOfLoop("deleting")
    /\ phase' = "finished"
    /\ UNCHANGED <<installation, state, hasError, disabledIndirectly, queue,
                   next, delayedInitializeQueue, delayedInitializeTimer,
                   asynchronousPlugins, failures>>

(* main() has returned. *)
Terminated ==
    /\ phase \in {"finished", "aborted"}
    /\ UNCHANGED vars
-----------------------------------------------------------------------------
(* Each group of steps, by what drives it. *)
Startup == \/ SetPluginPaths \/ StartLoading \/ StartInitializing
           \/ StartExtensions \/ Execute \/ Abort
           \/ \E S \in SUBSET Plugins : ParseOptions(S)
           \/ \E p \in Plugins : \/ LoadLibrary(p) \/ Initialize(p)
                                 \/ ExtensionsInitialized(p)

Timer == \E n \in 0..Len(delayedInitializeQueue) : NextDelayedInitialize(n)

Teardown == \/ EndOfStopAll \/ EndOfDeleteAll
            \/ \E p \in Plugins : \/ AsyncShutdownFinished(p)
                                  \/ Kill(p)
                                  \/ \E a \in BOOLEAN : AboutToShutdown(p, a)

Next == Startup \/ Timer \/ Shutdown \/ Teardown \/ Terminated

(* The loops run to their end; the timer fires; a plugin that asked for an *)
(* asynchronous shutdown signals its end (its contract with IPlugin).  The *)
(* user need not ever quit.                                                *)
Fairness == WF_vars(Startup) /\ WF_vars(Timer) /\ WF_vars(Teardown)

Spec == Init /\ [][Next]_vars /\ Fairness
-----------------------------------------------------------------------------
(* A plugin never outruns the plugins it requires: it is loaded,           *)
(* initialized and stopped only on top of dependencies that got there      *)
(* before it, however the load queue ordered them (loadPlugin() checks).   *)
RequiredDependenciesFirst ==
    \A p \in Plugins : \A d \in RequiredSpecs(p) :
        /\ state[p] \in {Loaded, Initialized} => state[d] >= state[p]
        /\ state[p] = Running => state[d] >= Initialized
        /\ state[p] >= Stopped => state[d] >= Stopped

(* The queue loadPlugins() iterates over has no spec twice, puts every     *)
(* spec behind all its dependencies, the optional ones included, and       *)
(* leaves out only specs that have been flagged.                           *)
QueueIsTopological ==
    phase = "loading" =>
        /\ IsInjective(queue)
        /\ \A i \in DOMAIN queue :
             state[queue[i]] >= Resolved =>
                DependencySpecs(queue[i]) \subseteq Range(SubSeq(queue, 1, i - 1))
        /\ Plugins \ Range(queue) \subseteq hasError

(* Once loadPlugins() is through, a plugin that is up stands only on       *)
(* required plugins that are up and without error ("If library loading or  *)
(* initialization of a plugin fails, all plugins that depend on that       *)
(* plugin also fail", iplugin.cpp:83), and none is left half-way without   *)
(* an error that says why.                                                 *)
FailurePropagates ==
    phase \in {"running", "stopping", "waiting", "deleting", "finished"} =>
        \A p \in Plugins :
            /\ state[p] >= Running =>
                 /\ p \notin hasError
                 /\ \A d \in RequiredSpecs(p) : state[d] >= Running
            /\ (Enabled(p) /\ p \notin disabledIndirectly /\ state[p] < Running)
                    => p \in hasError

(* A plugin that was disabled, or needs one that was ("-noload" or         *)
(* settings), is never loaded.                                             *)
DisabledNeverLoaded ==
    \A p \in Plugins :
        (\/ ~Enabled(p) \/ p \in disabledIndirectly
         \/ \E d \in RequiredSpecs(p) : ~Enabled(d) \/ d \in disabledIndirectly)
            => state[p] <= Resolved

(* Shutdown completes, and then every plugin object of a plugin that was   *)
(* running is gone.                                                        *)
ShutdownCompletes ==
    [](phase = "stopping" =>
        <>(phase = "finished" /\ \A p \in Plugins : state[p] \notin {Running, Stopped}))

-----------------------------------------------------------------------------
(* What the plugins are promised, without queues and loops. *)
Contract == INSTANCE PluginContract WITH
                dependencies <- [p \in Plugins |-> DependencySpecs(p)],
                required <- [p \in Plugins |-> RequiredSpecs(p)],
                broken <- hasError,
                asynchronous <- asynchronousPlugins

ContractSpec == Contract!Spec
=============================================================================
