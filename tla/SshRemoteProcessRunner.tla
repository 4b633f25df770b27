------------------------ MODULE SshRemoteProcessRunner ------------------------
(***************************************************************************)
(* Utils::SshRemoteProcessRunner: several runners, each of which runs one  *)
(* remote process at a time over a connection that SshConnectionManager    *)
(* lets them share.                                                        *)
(*                                                                         *)
(* A posted signal of a connection calls the slots of all its runners, one *)
(* after the other; a slot may end with a signal to the user, who may      *)
(* start and cancel runs from there before the next runner is called.      *)
(***************************************************************************)
EXTENDS SshConnectionManager, Naturals

CONSTANTS
    Runners,
    NoConnection,       \* a null pointer
    MaxEvents,          \* bound: posted signals
    MaxForces           \* bound: calls of forceNewConnection()

ASSUME RunnersAssumption ==
    /\ NoConnection \notin Connections
    /\ Runners \intersect Connections = {}
    /\ IsFiniteSet(Runners)
    /\ {MaxEvents, MaxForces} \subseteq Nat

VARIABLES
    state,              \* m_state
    connection,         \* m_connection
    awaited,            \* runners whose handleConnected() is connected
    process,            \* m_process: "none", "starting", "running", "over"
    report,             \* the last signal to the user since run()
    telling,            \* the signal being emitted, and who still hears it
    crashed,            \* m_process was null when it was to be started
    forces              \* counts forceNewConnection()

runnerVars == <<state, connection, awaited, process, report>>
vars == <<link, events, managerVars, runnerVars, telling, crashed, forces>>

Nothing == [signal |-> "none", sender |-> NoConnection, to |-> {}, inSlot |-> FALSE]

Init ==
    /\ ManagerInit
    /\ state = [r \in Runners |-> "Inactive"]
    /\ connection = [r \in Runners |-> NoConnection]
    /\ awaited = {}
    /\ process = [r \in Runners |-> "none"]
    /\ report = [r \in Runners |-> "none"]
    /\ telling = Nothing
    /\ crashed = FALSE
    /\ forces = 0

InEventLoop == telling = Nothing /\ ~crashed
InUserCode == (InEventLoop \/ telling.inSlot) /\ ~crashed

Without(t, r) ==
    IF t.to \subseteq {r} THEN Nothing ELSE [t EXCEPT !.to = t.to \ {r}]
-----------------------------------------------------------------------------
(* createRemoteProcess() and start(). *)
StartProcess(r) ==
    /\ state' = [state EXCEPT ![r] = "Connected"]
    /\ process' = [process EXCEPT ![r] = "starting"]

(* setState(Inactive): the runner lets go of its process and connection,   *)
(* and hears no more of what they have posted.                             *)
SetInactive(r, signal, posted) ==
    /\ state' = [state EXCEPT ![r] = "Inactive"]
    /\ connection' = [connection EXCEPT ![r] = NoConnection]
    /\ awaited' = awaited \ {r}
    /\ process' = [process EXCEPT ![r] = "none"]
    /\ report' = [report EXCEPT ![r] = signal]
    /\ ReleaseConnection(connection[r])
    /\ DeleteUnused(Only(posted, {e \in Range(posted) : e[2] # r}))

(* Mutant: a connection that was lost is not connected again. *)
ConnectToHost_OnlyNew(c) ==
    \/ link[c] = "none" /\ link' = [link EXCEPT ![c] = "Connecting"] /\ UNCHANGED events
    \/ link[c] # "none" /\ UNCHANGED <<link, events>>

(* connectToHost() of an unconnected connection; it fails at once when it  *)
(* cannot read the private key.                                            *)
ConnectToHost(c) ==
    \/ /\ link' = [link EXCEPT ![c] = "Connecting"]
       /\ UNCHANGED events
    \/ /\ link' = [link EXCEPT ![c] = "Unconnected"]
       /\ events' = Append(events, <<"error", c>>)

Run(r) ==
    /\ InUserCode
    /\ Len(events) < MaxEvents
    /\ state[r] = "Inactive"
    /\ \E c \in Connections :
        /\ AcquireConnection(c)
        /\ connection' = [connection EXCEPT ![r] = c]
        /\ \/ /\ link[c] = "Connected"
              /\ StartProcess(r)
              /\ UNCHANGED <<awaited, link, events>>
           \/ /\ link[c] # "Connected"
              /\ state' = [state EXCEPT ![r] = "Connecting"]
              /\ awaited' = awaited \union {r}
              /\ IF link[c] = "Connecting"
                 THEN UNCHANGED <<link, events>>
                 ELSE ConnectToHost(c)
              /\ UNCHANGED process
    /\ report' = [report EXCEPT ![r] = "none"]
    /\ UNCHANGED <<telling, crashed, forces>>

Cancel(r) ==
    /\ InUserCode
    /\ state[r] # "Inactive"
    /\ SetInactive(r, "canceled", events)
    /\ telling' = Without(telling, r)
    /\ UNCHANGED <<crashed, forces>>

CallForceNewConnection ==
    /\ InUserCode
    /\ forces < MaxForces
    /\ forces' = forces + 1
    /\ ForceNewConnection
    /\ UNCHANGED <<runnerVars, telling, crashed>>
-----------------------------------------------------------------------------
(* The event loop delivers a signal of connection c to its runners.        *)
Emit(c) ==
    /\ InEventLoop
    /\ events # <<>>
    /\ Head(events)[2] = c
    /\ LET signal == Head(events)[1]
           to == {r \in Runners : /\ connection[r] = c
                                  /\ signal = "connected" => r \in awaited}
       IN  /\ telling' = IF to = {} THEN Nothing
                         ELSE [signal |-> signal, sender |-> c, to |-> to,
                               inSlot |-> FALSE]
           /\ IF signal = "disconnected" THEN Cleanup(c) ELSE UNCHANGED managerVars
    /\ DeleteUnused(Tail(events))
    /\ UNCHANGED <<runnerVars, crashed, forces>>

(* A slot ends with a signal to the user, or without one. *)
Heard(r, inSlot) ==
    telling' = [Without(telling, r) EXCEPT
                    !.inSlot = inSlot /\ telling.to # {r}]

HandleConnected(r) ==
    /\ r \in telling.to
    /\ telling.signal = "connected"
    /\ Heard(r, FALSE)
    /\ \/ /\ state[r] # "Connecting"
          /\ UNCHANGED <<state, process, crashed>>
       \/ /\ state[r] = "Connecting"
          /\ link[telling.sender] = "Connected"
          /\ StartProcess(r)
          /\ UNCHANGED crashed
       \/ /\ state[r] = "Connecting"
          /\ link[telling.sender] # "Connected"
          /\ state' = [state EXCEPT ![r] = "Connected"]
          /\ crashed' = TRUE
          /\ UNCHANGED process
    /\ UNCHANGED <<link, events, managerVars, connection, awaited, report, forces>>

HandleConnectionError(r) ==
    /\ r \in telling.to
    /\ telling.signal = "error"
    /\ SetInactive(r, "connectionError", events)
    /\ Heard(r, TRUE)
    /\ UNCHANGED <<crashed, forces>>

HandleDisconnected(r) ==
    /\ r \in telling.to
    /\ telling.signal = "disconnected"
    /\ SetInactive(r, "nothing", events)
    /\ Heard(r, FALSE)
    /\ UNCHANGED <<crashed, forces>>

(* The event loop delivers a signal of the process of runner r.            *)
ProcessSignal(r, signal) ==
    /\ InEventLoop
    /\ events # <<>>
    /\ Head(events) = <<signal, r>>
    /\ UNCHANGED <<telling, crashed, forces>>

HandleProcessStarted(r) ==
    /\ ProcessSignal(r, "started")
    /\ state[r] = "Connected"
    /\ state' = [state EXCEPT ![r] = "ProcessRunning"]
    /\ report' = [report EXCEPT ![r] = "processStarted"]
    /\ events' = Tail(events)
    /\ UNCHANGED <<link, managerVars, connection, awaited, process>>

HandleProcessFinished(r) ==
    /\ \/ ProcessSignal(r, "failedToStart") /\ state[r] = "Connected"
       \/ ProcessSignal(r, "closed") /\ state[r] = "ProcessRunning"
    /\ SetInactive(r, "processClosed", Tail(events))
-----------------------------------------------------------------------------
(* The network and the server. *)
Network == InEventLoop /\ Len(events) < MaxEvents

AttemptEnds(c) ==
    /\ Network
    /\ Established(c) \/ AttemptFails(c)
    /\ UNCHANGED <<managerVars, runnerVars, telling, crashed, forces>>

(* All processes of a lost connection are closed, and do not say so. *)
ConnectionIsLost(c) ==
    /\ Network
    /\ Lost(c)
    /\ process' = [r \in Runners |-> IF connection[r] = c THEN "over" ELSE process[r]]
    /\ UNCHANGED <<managerVars, state, connection, awaited, report, telling,
                   crashed, forces>>

Process(r, from, to, signal) ==
    /\ Network
    /\ process[r] = from
    /\ process' = [process EXCEPT ![r] = to]
    /\ events' = Append(events, <<signal, r>>)
    /\ UNCHANGED <<link, managerVars, state, connection, awaited, report,
                   telling, crashed, forces>>

ProcessStartEnds(r) ==
    \/ Process(r, "starting", "running", "started")
    \/ Process(r, "starting", "over", "failedToStart")

ProcessEnds(r) == Process(r, "running", "over", "closed")
-----------------------------------------------------------------------------
EventLoop ==
    \/ \E c \in Connections : Emit(c)
    \/ \E r \in Runners :
        \/ HandleConnected(r) \/ HandleConnectionError(r) \/ HandleDisconnected(r)
        \/ HandleProcessStarted(r) \/ HandleProcessFinished(r)

User == CallForceNewConnection \/ \E r \in Runners : Run(r) \/ Cancel(r)

Environment ==
    \/ \E c \in Connections : AttemptEnds(c) \/ ConnectionIsLost(c)
    \/ \E r \in Runners : ProcessStartEnds(r) \/ ProcessEnds(r)

Next == EventLoop \/ User \/ Environment

(* The event loop goes on; an attempt to connect ends (its timer), and so  *)
(* does an attempt to start a process (its reply timer), however busy the  *)
(* event loop is in between.  No process needs to end.                     *)
Fairness ==
    /\ WF_vars(EventLoop)
    /\ \A c \in Connections : SF_vars(AttemptEnds(c))
    /\ \A r \in Runners : SF_vars(ProcessStartEnds(r))

Spec == Init /\ [][Next]_vars /\ Fairness
-----------------------------------------------------------------------------
(* The manager's account of its connections is that of its users: a        *)
(* connection is acquired as often as runners hold it, whatever ended      *)
(* their runs; one that is cached is in nobody's hands; and of the open    *)
(* connections that nobody uses only one is kept ("Make sure to only keep  *)
(* one connection open", sshconnectionmanager.cpp:121), deprecated ones    *)
(* apart.                                                                  *)
PoolsAgree ==
    /\ \A c \in Connections :
        LET users == {r \in Runners : connection[r] = c} IN
        /\ Cardinality(users) = Cardinality({i \in DOMAIN acquired : acquired[i] = c})
        /\ users # {} => link[c] # "none" /\ c \notin Range(unacquired)
    /\ Cardinality({c \in Connections \ (Range(acquired) \union deprecated) :
                        link[c] = "Connected"}) <= 1

(* Each run() gets as far as a running process, or ends, also when the     *)
(* connection that it shares was lost, or is lost meanwhile.               *)
RunStarts ==
    \A r \in Runners :
        state[r] \in {"Connecting", "Connected"}
            ~> (state[r] \notin {"Connecting", "Connected"} \/ crashed)

(* createRemoteProcess() asserts that the connection is connected; if it   *)
(* is not there is no process to start.                                    *)
ProcessIsCreated == ~crashed

Seen(s) == CASE s = "Inactive" -> "idle"
             [] s = "ProcessRunning" -> "running"
             [] OTHER -> "starting"

RunState == [r \in Runners |-> Seen(state[r])]

Contract == INSTANCE RunnerContract WITH run <- RunState

(* The refinement: one end per run, and no silent one after the process    *)
(* was started.                                                            *)
ContractSpec == Contract!Spec
===============================================================================
