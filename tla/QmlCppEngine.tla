----------------------------- MODULE QmlCppEngine -----------------------------
(***************************************************************************)
(* QmlCppEngine: the master of two slaves, a GdbEngine for the C++ side    *)
(* and a QmlEngine for the QML side of one program.  The master follows    *)
(* the state of the C++ engine, except while the program is stopped in     *)
(* QML; it hears of every state of a slave inside the slave's setState().  *)
(***************************************************************************)
EXTENDS GdbEngine

CONSTANT Qml

ASSUME ThreeEngines ==
    Engines = {Master, Gdb, Qml} /\ Master # Gdb /\ Master # Qml /\ Gdb # Qml

VARIABLES active,     \* m_activeEngine
          connection  \* of the QmlEngine to the program

qmlVars == <<active, connection>>
mixedVars == <<vars, qmlVars>>

Cpp == Gdb
QuitQml == Call(Qml, "quitDebugger")
Masters(method) == Call(Master, method)

MixedMethod(e, method, body) ==
    Method(e, method, body) /\ UNCHANGED <<gdbVars, qmlVars>>

----------------------------------------------------------------------------
(* The master's virtual methods.                                           *)
MasterSetupEngine ==
    /\ Method(Master, "setupEngine", <<Call(Qml, "queueSetupEngine"),
                                       Call(Cpp, "queueSetupEngine")>>)
    /\ active' = Cpp
    /\ UNCHANGED <<gdbVars, connection>>

MasterSetupInferior ==
    MixedMethod(Master, "setupInferior", <<Call(Qml, "queueSetupInferior"),
                                           Call(Cpp, "queueSetupInferior")>>)

MasterRunEngine ==
    MixedMethod(Master, "runEngine", <<Call(Qml, "queueRunEngine"),
                                       Call(Cpp, "queueRunEngine")>>)

MasterContinueInferior ==
    MixedMethod(Master, "continueInferior",
        <<Masters("notifyInferiorRunRequested"),
          IF state[Cpp] = "InferiorStopOk" THEN Call(Cpp, "continueInferior")
          ELSE IF state[Qml] = "InferiorStopOk"
          THEN Call(Qml, "continueInferior")
          ELSE Masters("notifyEngineIll")>>)

MasterInterruptInferior ==
    MixedMethod(Master, "interruptInferior",
                <<Call(Cpp, "doInterruptInferior")>>)

MasterShutdownInferior ==
    MixedMethod(Master, "shutdownInferior",
                <<Call(Cpp, "quitDebugger"), QuitQml>>)

MasterShutdownEngine ==
    MixedMethod(Master, "shutdownEngine", <<Call(Qml, "shutdownSlaveEngine"),
                                            Call(Cpp, "shutdownSlaveEngine")>>)

MasterQuitDebugger ==
    /\ DyingMethod(Master, "quitDebugger",
                   When(Master \notin dying,
                        <<QuitQml, Call(Cpp, "quitDebugger")>>))
    /\ UNCHANGED <<gdbVars, qmlVars>>

MasterAbortDebugger ==
    /\ DyingMethod(Master, "abortDebugger",
                   <<Call(Qml, "abortDebugger"), Call(Cpp, "abortDebugger")>>)
    /\ UNCHANGED <<gdbVars, qmlVars>>

MasterMethods ==
    \/ MasterSetupEngine \/ MasterSetupInferior \/ MasterRunEngine
    \/ MasterContinueInferior \/ MasterInterruptInferior
    \/ MasterShutdownInferior \/ MasterShutdownEngine \/ MasterQuitDebugger
    \/ MasterAbortDebugger

----------------------------------------------------------------------------
(* slaveEngineStateChanged()                                               *)

(* A stop that the C++ engine asks for while QML is the active side.       *)
StopsWhileInQml ==
    CASE state[Master] = "InferiorRunOk" ->
             <<Set(Master, "InferiorStopRequested")>>
      [] state[Master] = "InferiorStopOk" ->
             <<Masters("notifyInferiorRunRequested"),
               Masters("notifyInferiorRunOk"),
               Set(Master, "InferiorStopRequested")>>
      [] state[Master] = "InferiorRunRequested" ->
             <<Masters("notifyInferiorRunOk"),
               Set(Master, "InferiorStopRequested")>>
      [] OTHER -> <<>>

(* The master's reaction to a new state of the C++ engine; the case of the *)
(* requested stop falls through into that of the stop unless C++ is active.*)
FollowCpp(new) ==
    LET is(s) == state[Master] = s
    IN  CASE new = "EngineSetupFailed" ->
                 <<QuitQml, Masters("notifyEngineSetupFailed")>>
          [] new = "EngineSetupOk" -> <<Masters("notifyEngineSetupOk")>>
          [] new = "InferiorSetupFailed" ->
                 <<QuitQml, Masters("notifyInferiorSetupFailed")>>
          [] new = "InferiorSetupOk" -> <<Masters("notifyInferiorSetupOk")>>
          [] new = "EngineRunFailed" ->
                 <<QuitQml, Masters("notifyEngineRunFailed")>>
          [] new = "InferiorRunRequested" ->
                 When(~is("InferiorRunRequested"),
                      <<Masters("notifyInferiorRunRequested")>>)
          [] new = "InferiorRunOk" ->
                 When(is("EngineRunRequested"),
                      <<Masters("notifyEngineRunAndInferiorRunOk")>>)
                   \o When(is("InferiorRunRequested"),
                           <<Masters("notifyInferiorRunOk")>>)
          [] new = "InferiorRunFailed" ->
                 <<QuitQml, Masters("notifyInferiorRunFailed")>>
          [] new = "InferiorStopRequested" ->
                 IF active = Cpp
                 THEN When(is("InferiorRunOk"),
                           <<Set(Master, "InferiorStopRequested")>>)
                 ELSE StopsWhileInQml \o <<Masters("cppStopped")>>
          [] new = "InferiorStopOk" -> <<Masters("cppStopped")>>
          [] new = "InferiorStopFailed" ->
                 <<Masters("notifyInferiorStopFailed")>>
          [] new = "InferiorExitOk" ->
                 <<QuitQml, Masters("notifyInferiorExited")>>
          [] new = "InferiorShutdownRequested" ->
                 When(is("InferiorStopOk"),
                      <<Set(Master, "InferiorShutdownRequested")>>)
          [] new = "InferiorShutdownFailed" ->
                 <<Masters("notifyInferiorShutdownFailed")>>
          [] new = "InferiorShutdownOk" ->
                 When(is("InferiorShutdownRequested"),
                      <<Masters("notifyInferiorShutdownOk")>>)
          [] new = "EngineShutdownOk" ->
                 <<QuitQml, Masters("notifyEngineShutdownOk")>>
          [] OTHER -> <<>>

(* The case InferiorStopOk.                                                *)
CppStopped ==
    /\ Method(Master, "cppStopped",
         IF Master \in dying
         THEN When(state[Master] = "InferiorStopRequested",
                   <<Set(Master, "InferiorStopOk")>>)
         ELSE CASE state[Master] = "InferiorStopRequested" ->
                       <<Masters("notifyInferiorStopOk")>>
                [] state[Master] = "EngineRunRequested" ->
                       <<Set(Master, "InferiorStopOk")>>
                [] state[Master] = "InferiorRunOk" ->
                       <<Masters("notifyInferiorSpontaneousStop")>>
                [] state[Master] = "InferiorRunRequested" ->
                       <<Masters("notifyInferiorRunFailed")>>
                [] OTHER -> <<>>)
    /\ active' = Cpp
    /\ UNCHANGED <<gdbVars, connection>>

(* Mutant: the master follows the QML engine to its end.                   *)
FollowQml_Finishes(new) ==
    When(new = "EngineShutdownOk", <<Masters("notifyEngineShutdownOk")>>)

FollowQml(new) ==
    CASE new = "InferiorStopOk" ->
             IF Master \notin dying /\ state[Master] = "InferiorRunOk"
             THEN <<Masters("notifyInferiorSpontaneousStop")>>
             ELSE When(Master \notin dying
                         \/ state[Master] = "InferiorStopRequested",
                       <<Masters("notifyInferiorStopOk")>>)
      [] new = "InferiorRunOk" ->
             When(active = Qml, <<Masters("notifyInferiorRunOk")>>)
      [] new = "EngineRunFailed" -> <<Call(Cpp, "quitDebugger")>>
      [] OTHER -> <<>>

(* Mutant: a stop in QML leaves the C++ engine the active one.             *)
Activated_Never(slave, new) == active

Activated(slave, new) ==
    IF slave = Qml /\ new = "InferiorStopOk"
    THEN IF Master \in dying THEN Cpp ELSE Qml
    ELSE active

SlaveEngineStateChanged ==
    /\ ~Idle /\ Next1[1] = Master /\ Next1[2] = "slaveEngineStateChanged"
    /\ LET slave == Next1[3]
           new == Next1[4]
       IN  /\ Unfold(IF slave = Cpp THEN FollowCpp(new) ELSE FollowQml(new))
           /\ active' = Activated(slave, new)
    /\ UNCHANGED <<engineRest, gdbVars, connection>>

----------------------------------------------------------------------------
(* The QmlEngine as a slave.                                               *)
QmlMethod(method, body) == MixedMethod(Qml, method, body)

QmlMethods ==
    \/ QmlMethod("setupEngine", <<Call(Qml, "notifyEngineSetupOk")>>)
    \/ QmlMethod("setupInferior", <<Call(Qml, "notifyInferiorSetupOk")>>)
    \/ QmlMethod("runEngine", <<>>)
    \/ QmlMethod("continueInferior", <<Call(Qml, "notifyInferiorRunRequested"),
                                       Call(Qml, "notifyInferiorRunOk")>>)
    \/ QmlMethod("interruptInferior", <<Call(Qml, "notifyInferiorStopOk")>>)
    \/ QmlMethod("shutdownInferior", <<Call(Qml, "notifyInferiorShutdownOk")>>)
    \/ QmlMethod("abortDebugger", <<QuitQml>>)

QmlShutdownEngine ==
    /\ Method(Qml, "shutdownEngine", <<Call(Qml, "notifyEngineShutdownOk")>>)
    /\ connection' = "closed"
    /\ UNCHANGED <<gdbVars, active>>

QmlEvent(stmts) ==
    /\ Event(stmts)
    /\ UNCHANGED <<engineRest, gdbVars, active>>

(* beginConnection(), when the program writes that it waits for it.        *)
BeginConnection ==
    /\ connection = "none" /\ program = "running" /\ QmlEvent(<<>>)
    /\ connection' = "trying"

ConnectionEstablished ==
    /\ connection = "trying"
    /\ QmlEvent(When(state[Qml] = "EngineRunRequested",
                     <<Call(Qml, "notifyEngineRunAndInferiorRunOk")>>))
    /\ connection' = "established"

(* connectionStartupFailed(): tries longer while C++ is debugged.          *)
ConnectionStartupFailed ==
    /\ connection = "trying" /\ state[Master] = "InferiorRunOk"
    /\ QmlEvent(<<>>)
    /\ connection' = "asking"

ErrorMessageBoxFinished ==
    /\ connection = "asking"
    /\ \/ QmlEvent(<<>>) /\ connection' = "trying"
       \/ /\ QmlEvent(IF state[Qml] = "InferiorRunOk"
                      THEN <<Call(Qml, "notifyInferiorSpontaneousStop"),
                             Call(Qml, "notifyInferiorIll")>>
                      ELSE <<Call(Qml, "notifyEngineRunFailed")>>)
          /\ connection' = "failed"

(* The program stops in QML code, or there is nothing to be stopped.       *)
InferiorSpontaneousStop ==
    /\ connection = "established" /\ program = "running" /\ Idle
    /\ state[Qml] = "InferiorRunOk"
    /\ used["hit"] < MaxHits /\ used' = [used EXCEPT !["hit"] = @ + 1]
    /\ calls' = <<Call(Qml, "notifyInferiorSpontaneousStop")>>
    /\ UNCHANGED <<engineRest, pipes, waiting, whenDone, toInsert, processes,
                   qmlVars>>

QmlProgram ==
    \/ BeginConnection \/ ConnectionEstablished \/ ConnectionStartupFailed
    \/ ErrorMessageBoxFinished \/ InferiorSpontaneousStop

----------------------------------------------------------------------------
MixedInit == Init /\ active = Cpp /\ connection = "none"

MixedHandlers ==
    \/ GdbHandlers /\ UNCHANGED qmlVars
    \/ (\E e \in Engines : InsideHandler(e)) /\ UNCHANGED <<gdbVars, qmlVars>>
    \/ (\E e \in {Cpp, Qml} : QuitDebugger(e) \/ NotifyInferiorIll(e))
           /\ UNCHANGED <<gdbVars, qmlVars>>
    \/ (StartFailed \/ DoFinishDebugger \/ DoShutdownEngine)
           /\ UNCHANGED <<gdbVars, qmlVars>>
    \/ MasterMethods \/ SlaveEngineStateChanged \/ CppStopped \/ QmlMethods
    \/ QmlShutdownEngine

MixedUser ==
    /\ UserContinues \/ UserInterrupts \/ UserQuits \/ UserAborts
           \/ UserAddsBreakpoint
    /\ UNCHANGED qmlVars

MixedNext ==
    \/ MixedHandlers \/ MixedUser \/ QmlProgram
    \/ (EventLoop \/ GdbProcess \/ Program \/ GdbDies) /\ UNCHANGED qmlVars

MixedFairness ==
    /\ WF_mixedVars(MixedHandlers)
    /\ WF_mixedVars(EventLoop /\ UNCHANGED qmlVars)
    /\ WF_mixedVars(GdbProcess /\ UNCHANGED qmlVars)

MixedSpec == MixedInit /\ [][MixedNext]_mixedVars /\ MixedFairness

----------------------------------------------------------------------------
(* Properties.                                                             *)

(* When the master says that the program is stopped, the active engine,    *)
(* which the views and the stepping commands go to, has stopped.  This     *)
(* holds in sessions in which nobody asks a running program to stop, by an *)
(* interrupt or a new breakpoint: a C++ engine that is asked while QML is  *)
(* active becomes active too early (CppActiveWhenStopped), and the master  *)
(* says that the program is stopped.                                       *)
ActiveEngineIsStopped ==
    Idle /\ Master \notin dying /\ state[Master] = "InferiorStopOk"
        => state[active] = "InferiorStopOk"

(* "The cpp engine becomes the active one again as soon as it itself       *)
(* enters the InferiorStopOk state", and no sooner.                        *)
CppActiveWhenStopped ==
    [][active = Qml /\ active' = Cpp
           => state[Cpp] = "InferiorStopOk" \/ Master \in dying]_mixedVars

=============================================================================
