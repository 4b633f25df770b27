---------------------------- MODULE PluginContract ----------------------------
(***************************************************************************)
(* What ExtensionSystem promises the plugins, as documented in iplugin.cpp *)
(* and pluginspec.cpp: which plugin may be called next, given only the     *)
(* dependencies between plugins and how far each of them is.  There is no  *)
(* manager, no queue and no loop here; PluginManager implements it.        *)
(***************************************************************************)
EXTENDS Integers

CONSTANT Plugins

VARIABLES
    dependencies,   \* dependencies[p]: every plugin p depends on
    required,       \* required[p]: those of them p cannot do without
    state,          \* how far p is, as in PluginSpec::State
    broken,         \* plugins reported as being in error
    asynchronous    \* plugins that still shut down, until they say so

vars == <<dependencies, required, state, broken, asynchronous>>

Resolved    == 2
Loaded      == 3
Initialized == 4
Running     == 5
Stopped     == 6
Deleted     == 7

Dependents(p) == {q \in Plugins : p \in dependencies[q]}

Init ==
    /\ \A p \in Plugins : required[p] \subseteq dependencies[p]
    /\ state \in [Plugins -> {0}]
    /\ broken = {}
    /\ asynchronous = {}

(* p climbs one rung; all other plugins are between low and high. *)
Call(p, rung, low, high) ==
    /\ state[p] = rung - 1
    /\ p \notin broken
    /\ \A q \in Plugins \ broken :
            state[q] > Resolved => state[q] \in low..high
    /\ state' = [state EXCEPT ![p] = rung]
    /\ UNCHANGED <<dependencies, required, broken>>

(* Root-to-leaf: the required plugins are there, and no plugin that        *)
(* depends on p, not even optionally, has been called before it.           *)
RootToLeaf(p, rung) ==
    /\ \A r \in required[p] : state[r] = rung
    /\ \A q \in Dependents(p) : state[q] < rung

(* Leaf-to-root: every sound plugin that depends on p was called before p. *)
LeafToRoot(p, rung) ==
    \A q \in Dependents(p) \ broken : state[q] > Resolved => state[q] >= rung

(* Reading and resolving the specs; some are found to be broken. *)
Resolve ==
    /\ \A p \in Plugins : state[p] <= Resolved
    /\ state' \in [Plugins -> 0..Resolved]
    /\ \A p \in Plugins : state'[p] >= state[p]
    /\ broken \subseteq broken'
    /\ broken' \subseteq Plugins
    /\ UNCHANGED <<dependencies, required, asynchronous>>

Load(p) ==
    /\ RootToLeaf(p, Loaded)
    /\ Call(p, Loaded, Loaded, Loaded)
    /\ UNCHANGED asynchronous

Initialize(p) ==
    /\ RootToLeaf(p, Initialized)
    /\ Call(p, Initialized, Loaded, Initialized)
    /\ UNCHANGED asynchronous

(* Loading or initializing fails; so do the plugins that depend on p. *)
Fail(p) ==
    /\ state[p] \in {Resolved, Loaded}
    /\ \A q \in Plugins : state[q] <= Initialized
    /\ broken' = broken \union {p}
    /\ UNCHANGED <<dependencies, required, state, asynchronous>>

ExtensionsInitialized(p) ==
    /\ LeafToRoot(p, Running)
    /\ Call(p, Running, Initialized, Running)
    /\ UNCHANGED asynchronous

(* aboutToShutdown() may answer that the plugin needs more time. *)
AboutToShutdown(p) ==
    /\ RootToLeaf(p, Stopped)
    /\ Call(p, Stopped, Running, Stopped)
    /\ asynchronous' \in {asynchronous, asynchronous \union {p}}

AsynchronousShutdownFinished(p) ==
    /\ p \in asynchronous
    /\ asynchronous' = asynchronous \ {p}
    /\ UNCHANGED <<dependencies, required, state, broken>>

(* No plugin object is deleted while any plugin still shuts down. *)
Delete(p) ==
    /\ asynchronous = {}
    /\ LeafToRoot(p, Deleted)
    /\ Call(p, Deleted, Stopped, Deleted)
    /\ UNCHANGED asynchronous

Next ==
    \/ Resolve
    \/ \E p \in Plugins :
        \/ Load(p) \/ Initialize(p) \/ Fail(p) \/ ExtensionsInitialized(p)
        \/ AboutToShutdown(p) \/ AsynchronousShutdownFinished(p) \/ Delete(p)

Spec == Init /\ [][Next]_vars
=============================================================================
