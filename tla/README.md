# Verification of Qt Creator's event-driven core

This directory models the parts of Qt Creator whose correctness depends on the
order of events: plugins climbing through their life cycle, builds that are
cancelled while they run, SSH connections with the processes and file transfers
that run over them, and debugging sessions. Every definition is translated from the sources under `src/`
(`PROJECT.json`, "map", names the lines); TLC checks the modules on small
instances, and TLAPS proves the most important invariants for all of them.

Paths in this file are relative to `src/src`.

## 1. Inventory

Qt Creator is a shell (`app`) around plugins (`plugins`) that share libraries
(`libs`). Nearly all of it runs in one GUI thread. What makes it hard is that
nearly everything is a callback: slots run in nested event loops, signals are
queued behind other events, results of a worker thread arrive after the state
they were for is gone, and objects are reused for the next attempt with what the
last one left in them.

| Component | State | Operations | Used by, uses | Hard | Module |
|---|---|---|---|---|---|
| Plugin manager `libs/extensionsystem`, `app/main.cpp` | per plugin: rung of `PluginSpec::State`, error flag, disabled flags; load queue; delayed-initialization queue and timer; plugins that shut down asynchronously | `setPluginPaths`, `parseOptions` (`-noload`), `loadPlugins`, `nextDelayedInitialize`, `shutdown`, `asyncShutdownFinished` | called by `main()`, calls every plugin | failures in the middle of a climb, cycles, optional dependencies, direction of six loops, quitting early | `PluginManager` |
| Build manager `plugins/projectexplorer/buildmanager.cpp` | queue, current step, running / canceling flags, nested event loop, two counters, output connections, progress watcher | `buildProject(s)`, `appendStep`, `nextStep`, `nextBuildQueue`, `cancel`, `clearBuildQueue`, `aboutToRemoveProject` | called by `ProjectExplorerPlugin`; runs steps in a worker thread or in the GUI thread | `cancel()` re-entered from its own event loop, steps that finish while they are cancelled, posted events that survive their build | `BuildManager` |
| Remote deployment `plugins/remotelinux` | state of the deploy service, stop request, error flag of the step | `start`, `stop`, `handleConnected`, `handleConnectionFailure`, `handleDeploymentDone` | a step of the build manager on top of an SSH connection | finishing within `run()` or `cancel()`, losing the connection while stopping | `RemoteDeployment` |
| SSH connection `libs/utils/ssh/sshconnection.cpp` | `m_state`, `m_keyExchangeState`, socket, two timers, keys of both directions, last keep-alive packet, error | `connectToHost`, `disconnectFromHost`, packet handlers, `handleTimeout`, `sendKeepAlivePacket`, `closeConnection` | sockets and timers below; channels above | key exchanges in the middle of a session, timeouts that race answers, one object for many connections | `SshConnection`, `SshSession` |
| SSH channel and remote process `sshchannel.cpp`, `sshremoteprocess.cpp`, `sshchannelmanager.cpp` | session and process state, both windows, send buffer, reply timer, registration with the manager | `start`, `write`, `sendSignal`, `close`, packet handlers, timeout, removal | users such as the deploy services; one connection below | closing while a request is unanswered, both sides closing, flow control, lifetime of objects | `SshRemoteProcess`, `SshProcessSession` |
| Connection manager `sshconnectionmanager.cpp` | lists of acquired, cached and deprecated connections | `acquireConnection`, `releaseConnection`, `forceNewConnection`, `cleanup` | runners, deploy services; connections below | one connection with several users, posted signals that are stale when they are delivered | `SshConnectionManager` |
| Process runner `sshremoteprocessrunner.cpp` | state of the run, its connection, its process | `run`, `cancel`, slots for every signal of connection and process | deploy services, device support | users who run and cancel from the slots of a connection that others share | `SshRemoteProcessRunner` |
| SFTP channel `sftpchannel.cpp`, `sftpoperation.cpp` | jobs by request id, state of each operation with its handle and requests in flight, uploaded directories | `statFile`, `listDirectory`, `createDirectory`, `removeFile`, `uploadFile`, `downloadFile`, `uploadDir`, ..., packet handlers, closing | deploy services and the remote file system model; a channel below | answers in any order, a failing part of a transfer, operations made of operations | `SftpChannel` |
| Debugger engine `plugins/debugger/debuggerengine.cpp`, `debuggerrunner.cpp` | the 25 states of a session, target state, requests posted to the event loop, what the run control heard | notifications of the back end, `quitDebugger`, the `do...()` slots | run controls; a back end below | requests that change the state at once and act later, dying in any state | `DebuggerEngine` |
| Gdb engine `plugins/debugger/gdb` | commands without an answer, commands that wait for a stop, the callback after the last answer | `postCommand`, `handleResultRecord`, `handleStopResponse`, `shutdownInferior`, `shutdownEngine`, `abortDebugger` | the engine above, the gdb process below | stops and commands that cross, temporary stops, gdb crashing | `GdbEngine` |
| Mixed engine `qml/qmlcppengine.cpp`, `qml/qmlengine.cpp` | the active engine, the connection of the QML engine | every method of the master, `slaveEngineStateChanged` | run controls; two slave engines | notifications nested in those of the slaves | `QmlCppEngine` |

What makes each of them correct:

* **plugins** – no plugin is called before the plugins it requires (or after
  them, where the direction is reversed); failures and disabled plugins take
  along whatever stands on them; shutdown waits, and ends;
* **builds** – one step at a time; what finishes late is not taken for the
  current step; the hand-kept counters agree with the queue; `cancel()` returns, and
  every build ends, unless it was cancelled too late (section 5); the end is
  announced, as a success only if it was one;
* **SSH connection** – exactly one timer watches an open connection; both sides
  change keys at the same packet; nothing secret goes out in clear; a conforming
  server is not accused; users see connected / error / disconnected in order;
* **SSH process** – `started` and `closed` in order; both sides agree on both
  windows; a reply timer runs exactly while a reply is missing; no side is
  accused of a protocol error without reason;
* **runner and manager** – the manager's lists agree with those who use the
  connections; every run ends once, is told so, and does not hang before its
  process runs;
* **SFTP** – every chunk of a transfer ends up in its place; every handle is
  closed; every operation is reported once, and does not hang; the cases in which
  the code fails in the last three are named in the properties (section 5);
* **debugger** – what needs a stopped program meets one; what waits for a stop
  gets one; a program stopped for commands only is resumed; the claimed state is
  the real one; the run control hears of the end once, when gdb is gone; the two
  engines of a mixed session agree with their master.

The remaining parts (code models, editors, views, version control, analyzers,
project readers, vendored code) are listed in `PROJECT.json` with the reason why
they are left out: they process data, talk to the user, or wrap other programs.

## 2. Modules

Each base module has one action per operation, handler or event; a handler with
everything it calls is one action. The plugin manager's and build manager's
long-running functions are split only where foreign code runs in between.

### `PluginManager` (with `PluginContract`)

One step is one `PluginManagerPrivate::loadPlugin()` call, because that is where
plugin code runs and may fail. `phase` tells which loop of `loadPlugins()`,
`stopAll()` or `deleteAll()` is running; `queue` and `next` are its iterator.
`LoadQueue` is the recursive `loadQueue()` with its circularity check and the
errors it raises on the way. A call is a function from walks to walks; the calls
for the dependencies of a spec are the functions one level of nesting below
(`NestedCalls`), and calls are nested no deeper than there are specs, because each
adds its own to the circularity check.
`SetPluginPaths` and `ParseOptions` resolve dependencies over two different
orders of the specs, as the code does. `NextDelayedInitialize(n)` runs `n`
plugins, up to the first that asks for a delay.

The installation (dependency graph, broken and disabled specs, the two orders) is
a value chosen in `Init`.

`PluginContract` is what `iplugin.cpp` and `pluginspec.cpp` promise plugins,
without queues and loops: root-to-leaf loading, initialization and
`aboutToShutdown()`, leaf-to-root `extensionsInitialized()` and deletion, and no
deletion while a plugin still shuts down asynchronously. `ContractSpec` is the
refinement.

### `BuildManager` (with `RemoteDeployment`, `BuildContract`)

`call` is the function the GUI thread has to execute before it returns to an
event loop (`nextStep`, `nextBuildQueue`, the wait for the worker thread in
`cancel()`, the rest of `cancel()` after it); only the worker thread moves in
between. `cancels` is the stack of `cancel()` calls that sit in their nested
event loops; `eventLoop` is the member `m_eventLoop`, which is one for all of
them. `watched`, `watcherFinished` and `progressCanceled` are the future
watchers with what they have posted. `RemoteDeployment` has no variables: its
operators yield the possible outcomes of a call to a deploy step, each with a flag that
says whether `finished()` was emitted before the call returned. `failed` and
`cancelRequested` are history variables.

`BuildContract`: steps are taken in order, each finished before the next, or
dropped with all that wait; the end is announced once, as a success only if no
step failed and none was dropped.

### `SshConnection` (with `SshConnectionContract`, `SshSession`)

`SshConnection` alone is a client against a server that may send anything the
packet table knows at any time: the proofs (section 4) are about it and hold for
every server.
`Receive` models `handlePackets()` and `handleCurrentPacket()` with the table of
`setupPacketHandlers()`; `CloseConnection` is `closeConnection()` with the order
in which it emits signals. Keys are names; a new exchange takes the next name,
so that "readable with the receiver's keys" is an equation. Packets are
numbered only where the code looks at the number, for the keep-alive packet
and its answer; numbers and key names are counted modulo a constant. The
identification may arrive in pieces, in which case the code takes it for packet
data (`garbled`).

`SshSession` adds the network and a server that keeps to the protocol: it sends
its identification and KEXINIT at once, may guess algorithms wrongly, starts
further exchanges, refuses the user, leaves or falls silent. The server is no
part of the sources; in the map it is external.

`SshConnectionContract` is what users may rely on: the three public states and the
signals of one attempt, and that no attempt lasts for ever.

### `SshRemoteProcess` (with `SshProcessSession`)

One process channel on an established connection: `SshRemoteProcess`,
`AbstractSshChannel` and the part of `SshChannelManager` that knows it.
Amounts of data count in units. `registered` is the manager's reference and
`dropped` the end of the user's, so that `Destroyed` says whether the object
still exists. `SshProcessSession` adds the user and a conforming server with its
own two windows. `hastyUse` records uses of the interface that the code does
not guard against (section 5).

### `SshConnectionManager`, `SshRemoteProcessRunner` (with `RunnerContract`)

Connections are seen through their public state and the signals they post:
`events` is the queue of posted signals, `link` the state a connection has
meanwhile. The manager's three lists are sequences and sets of connections; an
object that nobody refers to any more is deleted and its name used again
(`DeleteUnused`), so that the number of runs is unbounded. The runner's slots
are delivered to the runners of a connection one after the other (`telling`), and
each may end in a signal to the user, who runs or cancels again from there.
A process start is answered at some time, a process may run for ever.
`RunnerContract`: of each run at most one start and one end is reported, and a
started process never ends in silence.

### `SftpChannel` (with `SftpContract`)

A handler is an operator on the record of what a handler may change (`Now`,
`Becomes`): operators for the helper functions (`FinishTransferRequest`,
`SendTransferCloseHandle`, ...) are composed as the code composes the functions.
`jobs` maps request ids to operations as `m_jobs` does, `ops` are the operation
objects, which outlive it, `uploadDirs` the composite ones. The server answers
the requests in any order, and may refuse every one of them: operations of the
user, parts of an uploaded directory, the size of a file to append to, the
closing of a handle. Files are counted in chunks of `MaxDataSize`; an answer has
a whole chunk or says EOF. `handles` is what the server holds open. A local file
has a size when its upload is started and yields some number of chunks
(`readable`) before its end or an error (`unreadable`); the files of a directory
may turn out not to open. `removeDirectory()` is left out: it uses an
uninitialized id.

Where the code fails, the properties name the case, and the run contains it:
`SizeRefused` and `CutShort` in `HandlesAreClosed`, `MayHang` in `JobsEnd`,
`DirectoryFailed` and `OfFailedDirectory` in the mapping of `ContractSpec`.

`SftpContract`: operations are started while the channel is open, each is
reported at most once, under the id that the user was given. What the code
reports under the id of a part of a failed directory is left out of the mapping,
and an accused server counts as the end of the channel there.

### `DebuggerEngine`, `GdbEngine`, `QmlCppEngine` (with `DebuggerContract`)

Methods of the engines call each other through virtual methods, and a master and
its slaves call each other in the middle of a state change. `calls` is the stack
of statements that the running handler has still to execute; an action executes
the first, or puts the body of the method it calls in its place (`Unfold`). The
event loop, the user and everything outside act when the stack is empty
(`Idle`). Assertions print and go on in this code base (`QTC_ASSERT` with a
message), so that they are no guards. `posted` holds the slots that the queue
functions of `DebuggerEnginePrivate` have left to a timer.

`GdbEngine` adds the gdb process and the program. gdb reads its `commands` in order,
none while the program runs, and its `output` is handled in order; the program
stops at breakpoints and exits whenever it runs. `waiting` is
`m_commandsToRunOnTemporaryBreak`, `whenDone` is `m_commandsDoneCallback`. Of the
commands only those are kept that change a state or insert a breakpoint. The
user acts where the plugin enables the action, and so resumes whenever the engine
is in `InferiorStopOk`, in a temporary stop as well: `used["early"]` counts that.
`ResumedTwice` names the state in which the code then fails (section 5): the end of
the temporary stop has resumed the program once more, and one of the two commands
is unanswered.

`QmlCppEngine` instantiates three engines, with the master's overrides in place
of the virtual methods and `slaveEngineStateChanged()` called from the slave's
`setState()`.

`DebuggerContract`: the run control hears of the end once, when gdb is gone.

## 3. Runs

| Run | Question | Bounds |
|---|---|---|
| `plugin` | Is the load queue topological, do failures, cycles, disabled plugins, `-noload` and asynchronous shutdown keep the contract, and does everything end? | Core and three plugins: every graph with at most one dependency each, scanned with sound specs and with a broken one, and six larger shapes with disabled plugins; two failing calls, any asynchronous plugins, quitting at any moment |
| `build` | Do late, cancelled, failing and nested events keep queue, counters and announcements right, and does everything end? | two projects, one depending on the other, four steps (worker, GUI, disabled), four queued builds, three cancellations or removals, in nested event loops as well |
| `ssh_session` | What holds with a conforming server, in any number of attempts? | one exchange started by the server per connection, two sequence numbers, two key names, two packets on the way before a side volunteers another |
| `ssh_traffic` | finding: traffic during a key exchange | as `ssh_session` |
| `ssh_process` | What holds for a process, its user and a conforming server? | packets of one unit, server window one, client packets of two, two units written, three units read, one signal |
| `ssh_runner` | Do pools and runs agree, and does every run end once? | two runners, four connections, three posted signals, one `forceNewConnection()`; any number of runs |
| `ssh_stale` | finding: a connection that is lost before its `connected()` is delivered | one runner, two connections |
| `sftp` | Are transfers complete, handles closed and operations reported once and in the end? | two operations beside each other, or one directory of two levels and two files; files of 0, 1 and 3 chunks, two requests in flight; local files of which nothing or one chunk can be read, or that do not open |
| `sftp_directory` | finding: the end of an uploaded directory with a refused file | one directory with one file |
| `gdb` | Do commands, stops, temporary stops, crashes and ends keep state and program in step, and does the session end? | one resume, one hit; two interrupts or new breakpoints, two of quitting, aborting and gdb crashing, three of both kinds together |
| `mixed` | Do master and slaves agree, and does the run control hear of the end last? | two resumes, two hits, two of quitting, aborting and gdb crashing; any number of attempts to connect to QML |
| `mixed_interrupt` | finding: the C++ engine asked to stop while the program is stopped in QML | one resume, one new breakpoint, two hits |

Why the bounds are enough. *Plugins*: the code looks at one plugin and its
direct dependencies at a time; three plugins have every cycle, and the larger
shapes have a chain above Core, a diamond and two paths into a broken spec.
*Builds*: the state that survives a build is what `m_canceling`, the two
watchers and the counters hold, so a second build, begun while events of the
first are posted, shows what can leak, and the others leave room to queue during
a build and while it is cancelled. Three cancellations nest two `cancel()` calls
within a third, with which each way of overwriting `m_eventLoop` occurs
(section 5). *SSH*: connection attempts are unbounded
in `ssh_session` and runs are in `ssh_runner`, so what one leaves to the next is
covered; two key names tell old keys from new ones; two sequence numbers tell
the right answer to a keep-alive packet from another. Two exchanges (the first
and one more) are all the code tells apart. *Process*: a window of one unit and
packets of one make every boundary happen (full window, partial send, rest in
the buffer), and two writes leave a rest behind the first. The amounts are
bounded by `MaxWrites`, `MaxData` and `MaxSignals`; `MaxQueue` holds back only
packets nobody asked for, never answers. *Runner*: two runners are one that
shares and one that is shared with; with four connections a deprecated, a cached
and a failing one exist beside the one in use. *SFTP*: two requests in flight
and three chunks are the least with a request that follows an answer while
another is under way; a size of 0 is the special case of
`calculateInFlightCount()`. A local file of three chunks that yields none, one, or
one and an error ends before the first requests, between them and after them
(`MCSftp`). Nothing runs beside an uploaded directory but its own
parts, which share the channel as any two operations do. *Debugger*: each
bounded action happens often enough to come before, during and after each
other's effects, and before and after the resume that ends a temporary stop,
which the user's bound does not count; quitting, aborting and crashes share one
bound, of two, because only a second abort kills gdb; interrupts and new
breakpoints share another, of two, because a breakpoint that is written to a
running program is the second one (section 5). The two kinds together are
bounded by three: two aborts and an interrupt, or two breakpoints and an end.

Deadlock is checked in the plugin and SSH connection runs. `CHECK_DEADLOCK
FALSE` is used where the bounds or the system end: builds when the user queues
nothing more, processes, channels and sessions when they are closed, and the
runner when a null process was used (`ssh_stale` is about that).

### Fairness

* plugins: the loops of `main()` run on; the single-shot timer fires; a plugin
  that asked for an asynchronous shutdown signals its end, as
  `IPlugin::asynchronousShutdownFinished()` demands. The user need not quit.
* builds: posted events are delivered; `run()` of a step returns, by itself or
  because it is asked to (the contract of `BuildStep::run()`); a deployment
  comes to its end. No fairness for the user. Posted events come before the
  next input, as Qt delivers them (`Input`).
* SSH: single-shot timers that are not stopped fire; data that has arrived is
  read; a server that is not silent answers. Sockets, users, channel timers
  and everything a server does by itself have no fairness.
* runner: posted signals are delivered; an attempt to connect comes to its end,
  as does the start of a process, however often others interrupt (strong
  fairness: both have timers, see `AlwaysWatched` and `ReplyIsTimed`). No process
  need end.
* SFTP: the server answers what it was asked (weak fairness of `ServerAnswers`,
  written out over `Answerable`), and confirms the closing of the channel.
* debugger: statements of a running handler are executed, timers fire, gdb's
  output is read; gdb answers what it reads and a pending SIGINT stops the
  program. Users, breakpoints and the end of the program have none.

## 4. Proofs

`PluginManagerProofs` proves, for every finite set of plugins, all dependency graphs,
circles included, and all failures:

* `RequiredFirst`: `RequiredDependenciesFirst`. Nothing is assumed of the load
  queue, which shows that the check in `loadPlugin()` alone gives the order.
* `DisabledOut`: `DisabledNeverLoaded`. By `DisabledStays` a disabled plugin,
  directly or not, is never above `Resolved`; by `RequiredDependenciesFirst` a
  plugin that requires it is then not loaded either.
* `QueueSorted`: `QueueIsTopological`, that is, `loadQueue()` sorts.
* `FailuresPropagate`: `FailurePropagates`.
* `PluginRefinement`: the manager implements `PluginContract`.

For the first two the inductive invariant `IInv` joins these facts with the types of
the variables and `NothingLoadedEarly`: nothing is loaded in the first two phases,
where `state` is replaced as a whole.

The others need to know what `loadQueue()` computes (`LoadQueueGood`). A nested call
gets a walk whose queue is sorted (`Sorted`) and gives back one that continues it
(`Continues`), with the spec itself either in the queue or flagged, and with no spec
queued that was in the circularity check before the call, unless it was in the queue:
that is what makes the spec, appended last, the only one of its name (`GoodCalls`).
The recursion has a depth of at most the number of plugins, so this is shown by
counting levels (`NestedSteps`, `NestedGood`), and for the dependencies of one spec by
counting those the loop has been through (`AlongKeeps`).

`LoopInv` adds what the loops achieve. Who is unresolved is settled when the first queue
is made, and all of them are in error (`UnresolvedAreBroken`), so every later
`loadQueue()` makes the same queue and flags nobody new (`QueueIsCurrent`, `SameWalk`).
`BetweenRungs` says that every plugin is at most at the goal of the running loop and a
sound one, neither in error nor disabled, at least one rung below it; `GoalIsPassed`
that the plugins at the goal are those the loop has passed. A plugin that was
initialized never gets an error (`InitializedAreSound`): in `stopAll()` the check of
the required plugins cannot fail, because they stand in front of the plugin in the queue
(`RequiredAreStopped`). The refinement then follows from where the loop is in its queue
(`AtPlugin`).

The first part of `SshSessionProofs` is about `SshConnection` alone. It proves, for any
numbers of sequence numbers and at least two key names, and against a server that may
send anything:

* `Typing`, `GuessDropped`, `OneProbe`, `Watched`, `Closable`, `Encrypted`: the
  invariants of `SshConnection`. The run `ssh_session` checks `AlwaysWatched`; the
  others hold against any server and are left to the proofs;
* `Refinement`: every step is a step of `SshConnectionContract` or leaves public
  state and signals alone.

None of these is inductive by itself. `AlwaysWatched` needs to know that the
keep-alive timer runs only in an established connection
(`KeepAliveEstablished`), `NothingInClear` that keys are there before the state
that needs them (`KeysBeforeService`, which says that outside of the first
exchange there are keys, and that within it they are set before NEWKEYS is
sent), and the refinement that the emitted signals tell the public state
(`SignalsTellState`) and that a connecting socket has no session yet
(`ConnectingSocket`). Their conjunction is `IInv`; a lemma per handler shows
that it keeps `IInv` and is a contract step, `CloseGood` does so once for all
ways a connection may end.

`BuildManagerProofs` proves, for any steps, projects, deployments and bounds, that
`IInv` is invariant (`Typing`) and with it

* `NeverTwoSteps`, `FinishIsFresh`, `CancelsAreRequested` and `Counters`:
  `OneStepAtATime`, `NoStaleFinish`, `OnlyRequestedCancels` and `CountersMatch`;
* `Refinement`: `BuildManager` implements `BuildContract`.

`IInv` is the types, the counters and `Shape`, what the parts of the state say of
each other: which step is current in which phase (`Phases`), that at most one
execution is in progress and its watcher's event belongs to it (`Executions`), that
a nested event loop belongs to a cancel that is still waited for (`NestedLoops`,
`Requests`), and what an unsuccessful step leaves behind (`Failures`). The counters
are equal to a number of positions of a queue; that a queue with one more or one
less element has one more or one less such position is a lemma of
`SequenceLemmas`, which holds the facts about sequences that several modules
need. The steps queued for a deployment are the concatenation of a sequence of
sequences (`FlattenSeq`); its type is proved by induction over a set of numbers.

`SshProcessProofs` proves for `SshProcessSession`, which joins the client's channel
to a server that behaves:

* `SignalOrder`, `RepliesAreTimed` and `WindowsStayInStep`: `SignalsInOrder`,
  `ReplyIsTimed` and `WindowsAgree`, for any sizes of packets and windows;
* `NoAccusation`: `NobodyIsAccused`, the server's messages are never called a protocol
  error unless the user was hasty (section 5).

Its `IInv` (`Invariance`) needs, next to the three, what is true before the channel is
confirmed (`Beginning`), that nothing is left of a closed one (`NoSession`), which
messages may be on their way in which states of the two sides (`Queues`), and that
the server is ready for every message on its way (`Polite`).

The second part of `SshSessionProofs` proves for `SshSession`, the connection joined to a
server:

* `SameKeys`: `KeysAgree`; `KeepsOut`: `KeepAliveKeepsOut`; `Understanding`:
  `ServerIsUnderstood`;
* `SessionRefinement`: each step is one of `SshConnectionContract`, with a server that
  behaves as with any other.

`SessionInv` (`SessionInvariance`) is `IInv` of the first part, of which every step
of the session is a step, and `Peers`: the keys of the two sides and of the NEWKEYS
messages between them form chains (`KeysInv`), a wrong guess is dropped by both or by
none (`GuessInv`), there is at most one probe and its answer (`ProbeInv`), nothing
is on its way when there is no connection (`Quiet`), and what is on its way is what
the other side expects (`Understood`, by phase: `Exchange`, `Greeting`, `Login`,
`Session`, `Probes`).

`SftpChannelProofs` proves for any number of operations, requests in flight, answers
and any sizes of files and directories:

* `HandlesAreNotLost`: `HandlesAreClosed`; `SuccessMeansComplete`: `TransfersAreComplete`;
* `Refinement`: `SftpChannel` implements `SftpContract`;
* `RespectiveJobs`: what is reported has an id that the user was given, or that of a
  part of a directory of which a part was refused, which is the finding of
  `sftp_directory`.

Of the server nothing is assumed but that it answers in the protocol: it may refuse
everything, parts of a directory and the size of a file to append to included, and the
properties name what the code then does wrong. Of the local files it is assumed that
they are whole (`FilesAreWhole`): they open and yield as many chunks as their size says.
The code does not ensure that; what becomes of other files is checked by the run
`sftp`, not proved. As in the runs, nothing runs beside an uploaded directory but its
own parts.

`IInv` (`Invariance`) says that the channel is in one of four phases: nothing was
started yet (`Beginning`), it is in use (`Working`), a directory that it uploads is spoilt
(`Spoilt`), or its requests are forgotten (`Over`). While it is in use the state is `Good`:

* `Wired`: ids are given out in order, and there is one request on the way for each
  key of `m_jobs`. This is what makes a counter per operation unnecessary:
* `OpInv`, for each operation, relates its record, the ids of its requests in flight,
  these requests and what was reported of it. An operation with requests in flight is
  in one of six stages (`Stage`); only `Moving`, where the chunks are, has several, and
  there `inFlightCount` is their number, which is what `finishTransferRequest()` relies on.
  `Data` says that every chunk up to the offset is in place or on its way, so that the answer
  that ends the transfer ends it complete;
* `DirInv`: a directory that is uploaded is refused (at its top, which is an operation of
  the user), or at the level `AtLevel`
  whose sub-directories are being created, or all its directories exist and the files that
  are missing are those still in the list of uploads;
* `Holding`: an operation that holds a handle has a request in flight, or is an upload whose
  size was refused (`Unsized`).

Once a part of a directory is refused, little of this is left: of the parts that go on, some
send CLOSE and WRITE under the same id. `Spoilt` says what does remain, that nothing is
reported as a success any more (`Broken`) and that each handle has its CLOSE under way, or
belongs to a part that is writing and counts the requests it has sent, or to one all of whose
requests are CLOSE (`Hold`).

An answer takes one request out of the state and changes the record of one operation. The
lemmas go along this line: what a handler does to the operation it concerns, stage by
stage; that the values of all other operations, which `OpInv` speaks of, stay the same
(`Moves`); and that `Good` follows (`Answered`). `spawnReadRequests()` and
`spawnWriteRequests()` send one request after the other and are proved by induction on how
many were sent, `handleMkdirStatus()` by induction on the files of the level.

`SshRunnerProofs` proves for `SshRemoteProcessRunner` with its connection manager, for
any finite number of runners and any connections:

* `Pools`: `PoolsAgree`, a connection is acquired as often as runners hold it, and a
  connection in use is not deleted;
* `RunnerRefinement`: each runner implements `RunnerContract`.

`IInv` says that a connection is in at most one place of the cache and of the list
of deprecated ones (`OneCached`), that what a runner holds is acquired and exists
(`HeldIsAcquired`, `AliveExist`), that the connections a runner listens to are those
its state says (`Listeners`), and, for the refinement, that a `disconnected()` that is
posted together with an `error()` stands directly behind it (`InOnePiece`), so that
who hears it has heard the error before (`ErrorIsHeard`). Acquisitions are counted by
the cardinality of the set of their places in the list.

`GdbEngineProofs` proves for a `GdbEngine` that stands alone (`Alone`: it is the only
engine and its own master, as in every session but a mixed one), for any numbers of
breakpoints, interrupts and resumptions, whatever the user, the program and gdb do:

* `GdbIsGone`: `FinishedMeansGdbGone`;
* `SessionRefinement`: it implements `DebuggerContract`;
* `StopsAreReal`: `StopIsReal`, also when the user resumes during a temporary stop.

What a handler does next depends on the statements that are still on the stack and in
the timers, so `IInv` (`Phases`) is about the words that may occur there, among the waiting
commands and as the state (`Speaks`). It follows a session through its stages: nothing
has happened (`Ready`), gdb is not launched yet (`BeforeLaunch`, where the stack is known
exactly), its setup fails (`SetUpFails`) or succeeds (`Launched`), it is in use
(`InSession`: nothing that launches gdb, fails its setup or ends the session is left or
can be pushed), it is gone (`GdbGone`), and the run control has heard of it (`Over`,
`Failed`). In a failed session `doSetupEngine()` may still launch gdb, as the contract
says; until it has run, nothing else is left of the session (`Stale`).
That a handler that starts with the words of a stage leaves only such words is a
lemma per group of handlers.

`StopIsReal` compares two streams, what gdb has said and what the engine still has to
do, with the program. gdb says that a program runs when it sets it off, so while it runs,
an unread report of an earlier stop has a report of the running behind it (`InOrder`). `StopInv` therefore
speaks of the moments at which the program runs and that report was read (`Told`): no
statement on the stack speaks of a stop (`SaysNoStop`, the words of the stage `CalmWords`),
but for the `InferiorStopOk` that `notifyInferiorIll()` passes through on its way to the
shutdown (`Passing`); and an engine that is in `InferiorStopOk` has the statement on top of
the stack that leaves it (`StopIsLeft`). When the stack is empty, there is no such
statement, hence no such state. TLC has checked `IInv` and `StopInv` on the instance of `debugger` with
one resumption, interrupt, breakpoint and hit. The proof also showed that the arms of two
`CASE`s of the model overlapped, where TLA+ does not say which is taken and TLC takes the
first, as the code does; the alternatives are exclusive now, also in `QmlCppEngine`.

Assumptions: `PluginsAssumption` (finitely many), `CoreAssumption`, `InstallationsAssumption`
(the orders list every spec once, as the directory scan and the sort do) and
`MaxFailuresAssumption` (plugins); `StepsAssumption`, `ProjectsAssumption`, `BoundsAssumption` (builds);
`SeqNrsAssumption` (positive) and `KeyNamesAssumption` (at least two, so that new
keys differ from the old ones), `SessionAssumption`; `SizesAssumption` and the
`BoundsAssumption` of `SshProcessSession`; `InFlightAssumption` (positive),
`FileSizesAssumption`, `LocalFilesAssumption`, `DirectoriesAssumption` and
`OperationsAssumption` (sizes are natural numbers and operations those of `SftpChannel`),
with `FilesAreWhole` as a hypothesis of each theorem about it; `RunnersAssumption` (finitely many
runners).

Only model-checked: everything under fairness and `ENABLED`, with the liveness
halves of the contracts; what becomes of local files that are cut short while they are
uploaded; `BreakpointsNeedStop`, which depends on where a command that
waits meets a user who does not, and so on the exact contents of the
stack; and the mixed engine, whose master and slaves push
statements of each other: for it `FinishedMeansGdbGone` and `ActiveEngineIsStopped` are
checked, not proved.

## 5. What the checks found

Disagreements between the code and what its comments, documentation or
assertions say, each the counterexample of a run:

1. `ssh_traffic`: only the keep-alive packet is held back during a key exchange;
   channel data, signals and answers are sent between KEXINIT and NEWKEYS.
2. `ssh_stale`: a connection may be lost after it has posted `connected()`; the
   runner then asks for a process that `createRemoteProcess()` does not create.
3. `sftp_directory`: when a file of an uploaded directory is refused, `finished()`
   is emitted with an id the user was never given, and never with the one that
   `uploadDir()` returned.
4. `mixed_interrupt`: `case InferiorStopRequested` falls through when QML is
   active: C++ becomes the active engine, and the master says `InferiorStopOk`,
   while gdb has only been asked to stop the program. With `MaxStops = 1`
   the same fall-through violates `ActiveEngineIsStopped`; the run `mixed` has no
   interrupts and no new breakpoints for that reason.

Further observations. Most were seen as counterexamples of stronger properties
or larger bounds while modelling; those marked (r) come from reading the code
the models stand for.

* *Plugins.* An optional dependency that is broken puts the dependent in error,
  or not, depending on the order of the scan, although `pluginspec.cpp` calls it
  "not necessarily needed". With `-noload Core`, `main()` goes on and uses a null
  Core plugin. `asyncShutdownFinished()` needs an event loop that exists only after
  `stopAll()`.
* *Builds.* The first end of a step that is queued twice disconnects the output
  of the second. `cancel()` within the event loop of another `cancel()` overwrites
  `m_eventLoop` (`buildmanager.cpp:222`): the end of the step exits the last loop
  only, and the outer call does not return, although the build ends
  (`CancelReturns` is about the last loop for that reason). If the second call comes
  when the first loop has been told to exit and has not returned, its own loop is
  exited by nobody: neither call returns, and the build does not end
  (`CanceledTooLate`). When all steps are skipped,
  the queue ends before the run is delayed, and the next successful build starts
  the run (`projectexplorer.cpp:2116`). With a shared step, `init()` runs in the
  GUI thread while `run()` executes in the worker thread.
  `progressTextChanged()` lacks the null check of `progressChanged()` (r).
* *SSH connection.* A server that falls silent during a re-exchange is never
  noticed, since the keep-alive timer is only restarted (`SilenceIsNoticed`
  excludes it). An identification that arrives in pieces ends the attempt by
  timeout only. `closeConnection()` in `SocketConnecting` leaves the socket alone,
  and `connectToHost()` while the socket still closes is ended by the old
  socket's `disconnected()`. A reply timer of a channel may outlive its
  connection and end the next one.
* *SSH process.* `close()` before the session is confirmed sends EOF and CLOSE
  without a channel number, and the confirmation is then a protocol error; data
  in the send buffer may follow CLOSE; `write()` and `sendSignal()` after `close()`
  still send. These are `hastyUse` in `NobodyIsAccused`. A process killed by a signal
  that `signalMap` does not name counts as a protocol error of the server. A
  refused process that nobody holds violates the assertion of its destructor.
  `flushSendBuffer()` sends one packet per call, so a rest waits for the next
  write or adjustment. The check for a window overflow adds two 32-bit numbers
  and never fires (r). `closed()` is not emitted when the connection is lost.
* *Runner and manager.* A deprecated connection that is cached is handed out
  again (`sshconnectionmanager.h:54` says it is not; nobody calls
  `forceNewConnection()`), and one that leaves the cache by `cleanup()` is never
  forgotten. An error of an earlier attempt, or a `disconnected()` that was posted
  before, ends or cleans up a later use of the same connection. `runInTerminal()`
  lacks the assertion of `run()` (r).
* *SFTP.* When a file of an uploaded directory is opened after another part was
  refused, `handlePutHandle()` closes the handle and writes all the same (a missing
  return, `sftpchannel.cpp:431`): CLOSE and WRITE have one id, and the server, which
  answers both, is accused of answering a request that was not made
  (`DirectoryFailed`). The upload of the directory itself is never reported
  (`MayHang`). When the size of a file to append to is refused, `inFlightCount` drops
  below 0 and the handle is never closed (`SizeRefused`). When a local file yields
  less than its size said, the last request is not known as such: the job hangs,
  its handle is leaked, or what could be read is reported as a success (`CutShort`).
  A refused FSTAT and an answer without a size violate the assertions on
  `inFlightCount` (`sftpchannel.cpp:612` and `:670`), as does a special file of size 0
  (r): the models go on as a release build
  does. `removeDirectory()` initializes its id with itself (r), and a short read
  leaves a hole (r). Closing the channel forgets its jobs without `finished()`.
* *Debugger.* The plugin lets the user resume during a temporary stop
  (`debuggerplugin.cpp:2262`), and the end of the temporary stop resumes the program
  again. gdb reads the second `-exec-continue` at the next stop: the program is set
  off while the engine takes it for stopped, and a breakpoint is written to a
  running program (`gdbengine.h:318`: "The command needs a stopped inferior."). As
  long as the program does not stop by itself, the engine waits for the answer in
  `InferiorRunRequested`, and new breakpoints wait with it. `ResumedTwice` is this
  case in `BreakpointsNeedStop` and `WaitingCommandsStopProgram`; the run `gdb` has it
  with two breakpoints and violates both properties when it is left out.
  A breakpoint that is hit just before the temporary stop
  is taken for it and not shown; a user's interrupt can be swallowed the same
  way. The temporary stop may resume a program that is being shut down; the
  second abort then kills gdb, and `notifyEngineIll()` asks the program to stop and
  waits, as it does whenever gdb dies while the program runs, so the session
  does not end ("If that fails, we are on the shutdown path [...] anyways",
  `debuggerengine.cpp:1168`): `AbortEnds` leaves these out. A quit or abort
  before `doSetupEngine()` runs ends the session, and gdb is started afterwards
  (`DebuggerContract` allows it). A quit while `-exec-run` is unanswered, and a
  program that exits while commands wait for a temporary stop or before QML has
  connected, leave `kill` or `-gdb-exit` in the queue until the user aborts. A slave
  whose `notifyEngineIll()` comes during its setup does nothing.
  Transitions that `isAllowedTransition()` does not list do occur, among them
  `InferiorStopRequested` → `InferiorExitOk`, `InferiorRunRequested` →
  `InferiorExitOk`, `EngineShutdownRequested` → `InferiorShutdownRequested` and
  `DebuggerFinished` → `EngineShutdownOk`.

## 6. Not modelled

* The contents of data, texts, settings and packet layouts; cryptography beyond
  the identity of keys; several channels on one connection at a time (they share
  nothing but the connection, whose end is an input of the modules above it).
* Plugin arguments, the XML reader and the object pool; the task window and the
  texts of the build output; the transfer protocols of deploy services.
* `SftpChannel::removeDirectory()`, connections that change their thread, runs in
  a terminal, and the data that flows to and from a running process.
* Remote setup, core files, attaching, other adapters and back ends of the
  debugger, changing and removing breakpoints, stepping other than stepping out,
  and all its views; the QML debugging protocol. The master's override of
  `notifyInferiorIll()` has no caller in this process.
* Everything listed as `not_modelled` in `PROJECT.json`. Most of the repository
  processes text, paints, parses or wraps other programs: its state has no order
  of events that a model checker could vary.

## 7. Plan

All modules, runs and proofs named above are written. What is left, in this order:

1. `SftpChannel`: local files that are cut short. `Data` must then tell the requests that were
   sent from those that the file had no data for.
2. `GdbEngine`: `BreakpointsNeedStop`. `StopInv` must then tell for each command on the
   stack whether the program was stopped when it was pushed, and relate `ResumedTwice`
   to the resuming commands on the way.
3. `QmlCppEngine`: the stages of `GdbEngineProofs` for three engines, then
   `ActiveEngineIsStopped`.
