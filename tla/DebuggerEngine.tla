---------------------------- MODULE DebuggerEngine ----------------------------
(***************************************************************************)
(* DebuggerEngine: the states of a debugging session, the notifications    *)
(* that move an engine through them and the requests that it queues for    *)
(* the event loop.  An engine stands alone or is a slave of a master.      *)
(*                                                                         *)
(* A method that calls others is unfolded on `calls', the stack of the     *)
(* statements that the running handler has still to execute: an action     *)
(* takes the first statement and puts the body of the method it calls in   *)
(* its place.  The event loop acts when the stack is empty.  The virtual   *)
(* methods are left to the modules that extend this one.  An assertion of  *)
(* the code prints and goes on, hence it is no guard here.                 *)
(***************************************************************************)
EXTENDS Integers, Sequences

CONSTANTS Engines, Master

ASSUME MasterIsAnEngine == Master \in Engines

VARIABLES state,       \* DebuggerState of every engine
          dying,       \* the engines with m_targetState = DebuggerFinished
          calls,       \* the statements of the running handler, innermost first
          posted,      \* slots waiting in single-shot timers
          runControl   \* what the run control knows of the session

engineVars == <<state, dying, calls, posted, runControl>>

----------------------------------------------------------------------------
(* Statements.                                                             *)
Call(e, method)   == <<e, method, "">>
Set(e, to)        == <<e, "setState", to>>
ForceState(e, to) == <<e, "forceState", to>>
Post(e, slot)     == <<e, "post", slot>>

When(condition, stmts) == IF condition THEN stmts ELSE <<>>
IfMaster(e, stmts) == When(e = Master, stmts)
Idle == calls = <<>>
Next1 == Head(calls)

Enter(e, method) == ~Idle /\ Next1 = Call(e, method)
Unfold(body) == calls' = body \o Tail(calls)

Method(e, method, body) ==
    /\ Enter(e, method)
    /\ Unfold(body)
    /\ UNCHANGED <<state, dying, posted, runControl>>

(* A method that begins with m_targetState = DebuggerFinished.             *)
DyingMethod(e, method, body) ==
    /\ Enter(e, method)
    /\ Unfold(body)
    /\ dying' = dying \union {e}
    /\ UNCHANGED <<state, posted, runControl>>

(* The event loop calls a method.                                          *)
Event(stmts) == Idle /\ calls' = stmts

(* setState(), forced or not; the master hears of its slaves' states       *)
(* before the caller goes on.                                              *)
SetState(e) ==
    /\ ~Idle /\ Next1 \in {Set(e, Next1[3]), ForceState(e, Next1[3])}
    /\ state' = [state EXCEPT ![e] = Next1[3]]
    /\ Unfold(IF e = Master THEN <<>>
              ELSE <<<<Master, "slaveEngineStateChanged", e, Next1[3]>>>>)
    /\ UNCHANGED <<dying, posted, runControl>>

PostSlot(e) ==
    /\ ~Idle /\ Next1 = Post(e, Next1[3])
    /\ posted' = Append(posted, Call(e, Next1[3]))
    /\ calls' = Tail(calls)
    /\ UNCHANGED <<state, dying, runControl>>

(* A single-shot timer of no delay fires.                                  *)
RunPosted ==
    /\ posted # <<>>
    /\ Event(<<Head(posted)>>)
    /\ posted' = Tail(posted)
    /\ UNCHANGED <<state, dying, runControl>>

(* The queueing slots: the new state first, then the timer.                *)
Queue(e) ==
    \/ Method(e, "queueSetupEngine", <<Set(e, "EngineSetupRequested"),
                                       Post(e, "doSetupEngine")>>)
    \/ Method(e, "queueSetupInferior", <<Set(e, "InferiorSetupRequested"),
                                         Post(e, "doSetupInferior")>>)
    \/ Method(e, "queueRunEngine", <<Set(e, "EngineRunRequested"),
                                     Post(e, "doRunEngine")>>)
    \/ Method(e, "queueShutdownEngine", <<Set(e, "EngineShutdownRequested"),
                                          Post(e, "doShutdownEngine")>>)
    \/ Method(e, "queueShutdownInferior",
              <<Set(e, "InferiorShutdownRequested"),
                Post(e, "doShutdownInferior")>>)
    \/ Method(e, "queueFinishDebugger", <<Set(e, "DebuggerFinished")>>
                 \o IfMaster(e, <<Post(e, "doFinishDebugger")>>))

----------------------------------------------------------------------------
(* Setting up.                                                             *)
StartDebugger ==
    /\ runControl = "ready" /\ Event(<<Call(Master, "queueSetupEngine")>>)
    /\ runControl' = "running"
    /\ UNCHANGED <<state, dying, posted>>

DoSetupEngine(e) ==
    Method(e, "doSetupEngine", <<Call(e, "setupEngine")>>)

NotifyEngineSetupFailed(e) ==
    Method(e, "notifyEngineSetupFailed",
           <<Set(e, "EngineSetupFailed")>>
             \o IfMaster(e, <<Call(e, "startFailed")>>)
             \o <<Set(e, "DebuggerFinished")>>)

(* DebuggerRunControl::startFailed() and ::debuggingFinished(); afterwards *)
(* the engine has no run control.                                          *)
StartFailed ==
    /\ Enter(Master, "startFailed") /\ Unfold(<<>>)
    /\ runControl' = IF runControl = "running" THEN "failed" ELSE runControl
    /\ UNCHANGED <<state, dying, posted>>

DoFinishDebugger ==
    /\ Enter(Master, "doFinishDebugger") /\ Unfold(<<>>)
    /\ runControl' = IF runControl = "running" THEN "finished" ELSE runControl
    /\ UNCHANGED <<state, dying, posted>>

NotifyEngineSetupOk(e) ==
    Method(e, "notifyEngineSetupOk", <<Set(e, "EngineSetupOk")>>
              \o IfMaster(e, <<Call(e, "queueSetupInferior")>>))

DoSetupInferior(e) ==
    Method(e, "doSetupInferior", <<Call(e, "setupInferior")>>)

NotifyInferiorSetupFailed(e) ==
    Method(e, "notifyInferiorSetupFailed", <<Set(e, "InferiorSetupFailed")>>
              \o IfMaster(e, <<Call(e, "queueShutdownEngine")>>))

NotifyInferiorSetupOk(e) ==
    Method(e, "notifyInferiorSetupOk", <<Set(e, "InferiorSetupOk")>>
              \o IfMaster(e, <<Call(e, "queueRunEngine")>>))

DoRunEngine(e) == Method(e, "doRunEngine", <<Call(e, "runEngine")>>)

NotifyEngineRunFailed(e) ==
    Method(e, "notifyEngineRunFailed", <<Set(e, "EngineRunFailed")>>
              \o IfMaster(e, <<Call(e, "queueShutdownEngine")>>))

SetUp(e) ==
    \/ DoSetupEngine(e) \/ NotifyEngineSetupFailed(e) \/ NotifyEngineSetupOk(e)
    \/ DoSetupInferior(e) \/ NotifyInferiorSetupFailed(e)
    \/ NotifyInferiorSetupOk(e) \/ DoRunEngine(e) \/ NotifyEngineRunFailed(e)

----------------------------------------------------------------------------
(* Running and stopping.                                                   *)
NotifyEngineRunAndInferiorRunOk(e) ==
    Method(e, "notifyEngineRunAndInferiorRunOk", <<Set(e, "InferiorRunOk")>>)

NotifyInferiorRunRequested(e) ==
    Method(e, "notifyInferiorRunRequested", <<Set(e, "InferiorRunRequested")>>)

NotifyInferiorRunOk(e) ==
    Method(e, "notifyInferiorRunOk", <<Set(e, "InferiorRunOk")>>)

NotifyInferiorRunFailed(e) ==
    Method(e, "notifyInferiorRunFailed",
           <<Set(e, "InferiorRunFailed"), Set(e, "InferiorStopOk"),
             Call(e, "shutdownInferiorIfDying")>>)

ShutdownInferiorIfDying(e) ==
    Method(e, "shutdownInferiorIfDying",
           When(e \in dying, <<Call(e, "queueShutdownInferior")>>))

NotifyInferiorStopOk(e) ==
    LET forwards == state[e] \in {"InferiorStopRequested",
                                  "InferiorRunRequested", "InferiorRunOk"}
    IN  Method(e, "notifyInferiorStopOk",
               IF e \notin dying THEN <<Set(e, "InferiorStopOk")>>
               ELSE When(forwards, <<Set(e, "InferiorStopOk")>>)
                      \o <<Call(e, "shutdownInferiorIfStopped")>>)

ShutdownInferiorIfStopped(e) ==
    Method(e, "shutdownInferiorIfStopped",
           When(state[e] \in {"InferiorStopOk", "InferiorStopFailed"},
                <<Call(e, "queueShutdownInferior")>>))

NotifyInferiorSpontaneousStop(e) ==
    Method(e, "notifyInferiorSpontaneousStop", <<Set(e, "InferiorStopOk")>>)

NotifyInferiorStopFailed(e) ==
    Method(e, "notifyInferiorStopFailed", <<Set(e, "InferiorStopFailed")>>
              \o IfMaster(e, <<Call(e, "queueShutdownEngine")>>))

(* requestInterruptInferior() is the same call.                            *)
DoInterruptInferior(e) ==
    Method(e, "doInterruptInferior", <<Set(e, "InferiorStopRequested"),
                                       Call(e, "interruptInferior")>>)

NotifyInferiorExited(e) ==
    Method(e, "notifyInferiorExited",
           <<Set(e, "InferiorExitOk"), Set(e, "InferiorShutdownOk")>>
             \o IfMaster(e, <<Call(e, "queueShutdownEngine")>>))

RunAndStop(e) ==
    \/ NotifyEngineRunAndInferiorRunOk(e) \/ NotifyInferiorRunRequested(e)
    \/ NotifyInferiorRunOk(e) \/ NotifyInferiorRunFailed(e)
    \/ ShutdownInferiorIfDying(e) \/ NotifyInferiorStopOk(e)
    \/ ShutdownInferiorIfStopped(e)
    \/ NotifyInferiorSpontaneousStop(e) \/ NotifyInferiorStopFailed(e)
    \/ DoInterruptInferior(e) \/ NotifyInferiorExited(e)

----------------------------------------------------------------------------
(* Shutting down.                                                          *)
DoShutdownInferior(e) ==
    DyingMethod(e, "doShutdownInferior", <<Call(e, "shutdownInferior")>>)

NotifyInferiorShutdownOk(e) ==
    Method(e, "notifyInferiorShutdownOk", <<Set(e, "InferiorShutdownOk")>>
              \o IfMaster(e, <<Call(e, "queueShutdownEngine")>>))

NotifyInferiorShutdownFailed(e) ==
    Method(e, "notifyInferiorShutdownFailed",
           <<Set(e, "InferiorShutdownFailed")>>
             \o IfMaster(e, <<Call(e, "queueShutdownEngine")>>))

NotifyInferiorIll(e) ==
    DyingMethod(e, "notifyInferiorIll",
        When(state[e] = "InferiorRunRequested",
             <<Set(e, "InferiorRunFailed"), Set(e, "InferiorStopOk")>>) \o <<Call(e, "queueShutdownInferior")>>)

(* Only a master gets past the assertion.                                  *)
DoShutdownEngine ==
    DyingMethod(Master, "doShutdownEngine", <<Call(Master, "shutdownEngine")>>)

ShutdownSlaveEngine(e) ==
    Method(e, "shutdownSlaveEngine", <<Set(e, "EngineShutdownRequested"),
                                       Call(e, "shutdownEngine")>>)

NotifyEngineShutdownOk(e) ==
    Method(e, "notifyEngineShutdownOk", <<Set(e, "EngineShutdownOk"),
                                          Call(e, "queueFinishDebugger")>>)

NotifyEngineIll(e) ==
    DyingMethod(e, "notifyEngineIll",
        CASE state[e] \in {"InferiorRunRequested", "InferiorRunOk"} ->
                 <<ForceState(e, "InferiorStopRequested"),
                   Call(e, "interruptInferior")>>
          [] state[e] \in {"InferiorStopRequested", "InferiorStopOk"} ->
                 <<ForceState(e, "InferiorShutdownFailed")>>
                   \o IfMaster(e, <<Call(e, "queueShutdownEngine")>>)
          [] OTHER -> IfMaster(e, <<Call(e, "queueShutdownEngine")>>))

NotifyEngineSpontaneousShutdown(e) ==
    Method(e, "notifyEngineSpontaneousShutdown",
           <<ForceState(e, "EngineShutdownOk")>>
             \o IfMaster(e, <<Call(e, "queueFinishDebugger")>>))

QuitDebugger(e) ==
    DyingMethod(e, "quitDebugger",
        CASE state[e] \in {"InferiorStopOk", "InferiorStopFailed"} ->
                 <<Call(e, "queueShutdownInferior")>>
          [] state[e] = "InferiorRunOk" -> <<Call(e, "doInterruptInferior")>>
          [] state[e] = "EngineSetupRequested" ->
                 <<Call(e, "notifyEngineSetupFailed")>>
          [] state[e] = "EngineSetupOk" ->
                 <<Set(e, "InferiorSetupRequested"),
                   Call(e, "notifyInferiorSetupFailed")>>
          [] state[e] = "InferiorSetupRequested" ->
                 <<Call(e, "notifyInferiorSetupFailed")>>
          [] state[e] = "EngineRunRequested" ->
                 <<Call(e, "notifyEngineRunFailed")>>
          [] state[e] \in {"EngineShutdownRequested", "EngineRunFailed",
                           "DebuggerFinished"} -> <<>>
          [] OTHER -> <<Call(e, "notifyInferiorIll")>>)

ShutDown(e) ==
    \/ DoShutdownInferior(e) \/ NotifyInferiorShutdownOk(e)
    \/ NotifyInferiorShutdownFailed(e) \/ ShutdownSlaveEngine(e)
    \/ NotifyEngineShutdownOk(e) \/ NotifyEngineIll(e)
    \/ NotifyEngineSpontaneousShutdown(e)

----------------------------------------------------------------------------
InitEngines ==
    /\ state = [e \in Engines |-> "DebuggerNotReady"]
    /\ dying = {} /\ calls = <<>> /\ posted = <<>>
    /\ runControl = "ready"

(* What runs inside a handler; quitDebugger() and notifyInferiorIll() are  *)
(* virtual and taken by the engines that do not override them.             *)
InsideHandler(e) ==
    SetState(e) \/ PostSlot(e) \/ Queue(e) \/ SetUp(e) \/ RunAndStop(e)
        \/ ShutDown(e)
=============================================================================
