------------------------------ MODULE GdbEngine ------------------------------
(***************************************************************************)
(* GdbEngine with the adapter of a local program: the commands written to  *)
(* gdb, those kept until the program stops, gdb's answers in the order of  *)
(* its output, and the user's actions.  gdb and the program it runs are    *)
(* external: gdb answers its commands in order, reads none while the       *)
(* program runs, and reports its stops and its end in between.             *)
(*                                                                         *)
(* Commands that only fill views are left out.                             *)
(***************************************************************************)
EXTENDS DebuggerEngine

CONSTANTS Gdb,              \* the engine that talks to gdb
          MaxResumes,       \* bound: the user continues or steps out
          MaxStops,         \* bound: the user interrupts or adds breakpoints
          MaxEnds,          \* bound: run control stopped, user aborts, gdb dies
          MaxDisturbances,  \* bound: all of the last two together
          MaxHits           \* bound: the program stops at a breakpoint

ASSUME GdbIsAnEngine == Gdb \in Engines

VARIABLES commands,    \* written to gdb, not read by it yet
          output,      \* gdb's output, not handled yet
          waiting,     \* m_commandsToRunOnTemporaryBreak
          whenDone,    \* m_commandsDoneCallback, "" for none
          toInsert,    \* breakpoints whose insertion is requested
          gdb,         \* the process: "NotRunning", "Running", "Ended"
          program,     \* the inferior: "none", "running", "stopped"
          sigint,      \* the program has a SIGINT pending
          used         \* how often each bounded action was taken, and
                       \* "early": how often the user resumed the program
                       \* while it was stopped for commands only

gdbVars == <<commands, output, waiting, whenDone, toInsert, gdb, program,
             sigint, used>>
vars == <<engineVars, gdbVars>>

(* What most methods leave alone.                                          *)
engineRest == <<state, dying, posted, runControl>>
pipes      == <<commands, output>>
processes  == <<gdb, program, sigint>>

NeedsStop == {"kill", "break"}
LosesChild == {"kill"}

Says(kind, what) == <<kind, what>>
Result(cmd, class) == <<"result", cmd, class>>

(* Commands without an answer, apart from what is still in `out'.          *)
Unanswered(out) ==
    {commands[i] : i \in DOMAIN commands}
      \union {out[i][2] : i \in {j \in DOMAIN out : out[j][1] = "result"}}

(* m_cookieForToken                                                        *)
Pending == Unanswered(output)

StateAcceptsGdbCommands ==
    state[Gdb] \notin {"DebuggerNotReady", "InferiorStopFailed",
        "InferiorSetupOk", "EngineRunFailed", "InferiorExitOk",
        "InferiorRunFailed", "EngineShutdownOk", "EngineShutdownFailed",
        "DebuggerFinished"}

----------------------------------------------------------------------------
(* Commands.                                                               *)
PostCommand(cmd) == <<Gdb, "postCommand", cmd>>
FlushCommand(cmd) == <<Gdb, "flushCommand", cmd>>

(* flushCommand(): a command for a gdb that is gone is dropped.            *)
Flush ==
    /\ ~Idle /\ Next1 = FlushCommand(Next1[3]) /\ Unfold(<<>>)
    /\ commands' = IF StateAcceptsGdbCommands /\ gdb # "NotRunning"
                   THEN Append(commands, Next1[3]) ELSE commands
    /\ UNCHANGED <<engineRest, output, waiting, whenDone, toInsert,
                   processes, used>>

SendableStates == {"InferiorStopOk", "InferiorUnrunnable",
                   "InferiorSetupRequested", "EngineSetupOk",
                   "InferiorShutdownRequested"}

(* Mutant: a running program is not in the way of a command.               *)
MustWait_Never(cmd) == FALSE

MustWait(cmd) ==
    /\ cmd \in NeedsStop \/ waiting # <<>>
    /\ state[Gdb] \notin SendableStates

(* postCommandHelper(): sends the command, or keeps it until the program   *)
(* has stopped and, if nobody has yet, asks it to.                         *)
PostCommandHelper ==
    /\ ~Idle /\ Next1 = PostCommand(Next1[3])
    /\ LET cmd == Next1[3]
           waits == MustWait(cmd)
       IN  IF ~StateAcceptsGdbCommands
           THEN Unfold(<<>>) /\ UNCHANGED waiting
           ELSE IF ~waits
           THEN Unfold(<<FlushCommand(cmd)>>) /\ UNCHANGED waiting
           ELSE /\ waiting' = Append(waiting, cmd)
                /\ Unfold(CASE state[Gdb] = "InferiorRunOk" ->
                                 <<Call(Gdb, "interruptInferiorTemporarily")>>
                            [] state[Gdb] = "InferiorStopRequested"
                                 /\ cmd \in LosesChild ->
                                 <<Call(Gdb, "notifyInferiorIll")>>
                            [] OTHER -> <<>>)
    /\ UNCHANGED <<engineRest, pipes, whenDone, toInsert, processes, used>>

(* A method of the engine that leaves gdb's variables alone.               *)
GdbMethod(method, body) == Method(Gdb, method, body) /\ UNCHANGED gdbVars

InterruptInferiorTemporarily ==
    GdbMethod("interruptInferiorTemporarily",
        IF \E i \in DOMAIN waiting : waiting[i] \in LosesChild
        THEN <<Call(Gdb, "notifyInferiorIll")>>
        ELSE <<Call(Gdb, "doInterruptInferior")>>)

FlushQueuedCommands ==
    /\ Enter(Gdb, "flushQueuedCommands")
    /\ Unfold([i \in DOMAIN waiting |-> FlushCommand(waiting[i])])
    /\ waiting' = <<>>
    /\ UNCHANGED <<engineRest, pipes, whenDone, toInsert, processes, used>>

StateAcceptsBreakpointChanges ==
    state[Gdb] \in {"InferiorSetupRequested", "InferiorRunRequested",
        "InferiorRunOk", "InferiorStopRequested", "InferiorStopOk"}

AttemptBreakpointSynchronization ==
    /\ Enter(Gdb, "attemptBreakpointSynchronization")
    /\ IF StateAcceptsBreakpointChanges
       THEN /\ Unfold([i \in 1..toInsert |-> PostCommand("break")])
            /\ toInsert' = 0
       ELSE Unfold(<<>>) /\ UNCHANGED toInsert
    /\ UNCHANGED <<engineRest, pipes, waiting, whenDone, processes, used>>

----------------------------------------------------------------------------
(* The virtual methods of the engine and its adapter.                      *)

(* setupEngine(), startAdapter() and startGdb(): waits for the process.    *)
SetupEngine ==
    /\ Enter(Gdb, "setupEngine")
    /\ \/ Unfold(<<Call(Gdb, "notifyEngineSetupFailed")>>) /\ UNCHANGED gdb
       \/ Unfold(<<Call(Gdb, "notifyEngineSetupOk")>>) /\ gdb' = "Running"
    /\ UNCHANGED <<engineRest, pipes, waiting, whenDone, toInsert,
                   program, sigint, used>>

SetupInferior == GdbMethod("setupInferior", <<PostCommand("file")>>)
RunEngine == GdbMethod("runEngine", <<PostCommand("run")>>)

(* Mutant: the program counts as stopped once the signal is sent.          *)
InterruptInferior_Optimistic ==
    /\ Enter(Gdb, "interruptInferior")
    /\ Unfold(<<Call(Gdb, "notifyInferiorStopOk")>>) /\ sigint' = TRUE
    /\ UNCHANGED <<engineRest, pipes, waiting, whenDone, toInsert, gdb,
                   program, used>>

(* interruptInferior() and interruptLocalInferior(): a SIGINT, which fails *)
(* when the process is no more.  gdb has told the process id by then, with *)
(* the start of the program, so that it is never missing here.             *)
InterruptInferior ==
    /\ Enter(Gdb, "interruptInferior")
    /\ IF state[Gdb] # "InferiorStopRequested"
       THEN Unfold(<<>>) /\ UNCHANGED sigint
       ELSE IF program = "none"
       THEN Unfold(<<Call(Gdb, "notifyInferiorStopFailed")>>) /\ UNCHANGED sigint
       ELSE Unfold(<<>>) /\ sigint' = TRUE
    /\ UNCHANGED <<engineRest, pipes, waiting, whenDone, toInsert, gdb,
                   program, used>>

ShutdownInferior ==
    /\ Enter(Gdb, "shutdownInferior") /\ Unfold(<<PostCommand("kill")>>)
    /\ waiting' = <<>>
    /\ UNCHANGED <<engineRest, pipes, whenDone, toInsert, processes, used>>

(* Mutant: the engine is shut down without waiting for gdb to exit.        *)
ShutdownEngine_NoWait ==
    /\ Enter(Gdb, "shutdownEngine") /\ whenDone' = ""
    /\ Unfold(<<PostCommand("exit"), Call(Gdb, "notifyEngineShutdownOk")>>)
    /\ UNCHANGED <<engineRest, pipes, waiting, toInsert, processes, used>>

(* shutdownEngine() and notifyAdapterShutdownOk().                         *)
ShutdownEngine ==
    /\ Enter(Gdb, "shutdownEngine") /\ whenDone' = ""
    /\ Unfold(IF gdb = "NotRunning"
              THEN <<Call(Gdb, "notifyEngineShutdownOk")>>
              ELSE <<PostCommand("exit")>>)
    /\ UNCHANGED <<engineRest, pipes, waiting, toInsert, processes, used>>

(* kill() of the process: what it wrote is still read, then its end.       *)
Die == gdb' = "Ended" /\ output' = Append(output, Says("finished", ""))

(* Mutant: aborting again is as friendly as the first time.                *)
AbortDebugger_Friendly ==
    /\ Enter(Gdb, "abortDebugger") /\ Unfold(<<Call(Gdb, "quitDebugger")>>)
    /\ UNCHANGED <<engineRest, gdbVars>>

AbortDebugger ==
    /\ Enter(Gdb, "abortDebugger")
    /\ IF Gdb \notin dying
       THEN Unfold(<<Call(Gdb, "quitDebugger")>>) /\ UNCHANGED <<gdb, output>>
       ELSE /\ Unfold(<<>>)
            /\ IF gdb = "Running" THEN Die ELSE UNCHANGED <<gdb, output>>
    /\ UNCHANGED <<engineRest, commands, waiting, whenDone, toInsert,
                   program, sigint, used>>

(* continueInferior() and autoContinueInferior()                           *)
ContinueInferior ==
    \E method \in {"continueInferior", "autoContinueInferior"} :
        GdbMethod(method, <<Call(Gdb, "notifyInferiorRunRequested"),
                            PostCommand("continue")>>)

----------------------------------------------------------------------------
(* What gdb says.  The branches for bounds of a function and for memory    *)
(* that cannot be accessed are about single steps, which are left out.     *)
HandleExecuteContinue(class) ==
    CASE class = "running" -> <<Call(Gdb, "notifyInferiorRunOk")>>
      [] class = "notMeaningful" -> <<Call(Gdb, "notifyInferiorRunFailed")>>
      [] OTHER -> <<Call(Gdb, "notifyInferiorIll")>>

(* The callback of a command, and what it calls.  gdb never refuses to     *)
(* exit, so that handleGdbExit() has nothing to do.                        *)
Callback(cmd, class) ==
    CASE cmd = "file" /\ class = "done" ->
             <<Call(Gdb, "handleInferiorPrepared")>>
      [] cmd = "file" /\ class # "done" ->
             <<Call(Gdb, "notifyInferiorSetupFailed")>>
      [] cmd = "msymbols" -> <<Call(Gdb, "notifyInferiorSetupOk")>>
      [] cmd = "run" /\ class = "running" ->
             <<Call(Gdb, "notifyEngineRunAndInferiorRunOk")>>
      [] cmd = "run" /\ class # "running" ->
             <<Call(Gdb, "notifyEngineRunFailed")>>
      [] cmd \in {"continue", "finish"} -> HandleExecuteContinue(class)
      [] cmd = "kill" /\ class = "done" ->
             <<Call(Gdb, "notifyInferiorShutdownOk")>>
      [] cmd = "kill" /\ class # "done" ->
             <<Call(Gdb, "notifyInferiorShutdownFailed")>>
      [] cmd = "detach" -> <<Call(Gdb, "notifyInferiorExited")>>
      [] OTHER -> <<>>

Reads(kind) ==
    /\ Idle /\ output # <<>> /\ Head(output)[1] = kind
    /\ output' = Tail(output)

(* handleResultRecord(): the callback; the model of the breakpoints is     *)
(* rebuilt with the last of them; the program is stopped for commands that *)
(* came while it was asked to run; and what waits for all answers.         *)
HandleResultRecord ==
    /\ Reads("result")
    /\ LET cmd == Head(output)[2]
           lastBreakpoint ==
               /\ cmd = "break" /\ cmd \notin Unanswered(Tail(output))
               /\ \A i \in DOMAIN waiting : waiting[i] # "break"
       IN  calls' = Callback(cmd, Head(output)[3])
                 \o When(lastBreakpoint,
                         <<Call(Gdb, "attemptBreakpointSynchronization")>>)
                 \o <<Call(Gdb, "interruptForQueued"),
                      Call(Gdb, "commandsDone")>>
    /\ UNCHANGED <<engineRest, commands, waiting, whenDone, toInsert,
                   processes, used>>

(* Mutant: commands that came while the program was starting keep waiting. *)
InterruptForQueued_Never == GdbMethod("interruptForQueued", <<>>)

InterruptForQueued ==
    GdbMethod("interruptForQueued",
        IF state[Gdb] = "InferiorRunOk" /\ waiting # <<>>
        THEN <<Call(Gdb, "interruptInferiorTemporarily")>> ELSE <<>>)

(* Mutant: runs the callback while answers are missing, not when all came. *)
CommandsDone_TooEarly ==
    /\ Enter(Gdb, "commandsDone")
    /\ IF whenDone # "" /\ Pending # {}
       THEN Unfold(<<Call(Gdb, whenDone)>>) /\ whenDone' = ""
       ELSE Unfold(<<>>) /\ UNCHANGED whenDone
    /\ UNCHANGED <<engineRest, pipes, waiting, toInsert, processes, used>>

CommandsDone ==
    /\ Enter(Gdb, "commandsDone")
    /\ IF whenDone # "" /\ Pending = {}
       THEN Unfold(<<Call(Gdb, whenDone)>>) /\ whenDone' = ""
       ELSE Unfold(<<>>) /\ UNCHANGED whenDone
    /\ UNCHANGED <<engineRest, pipes, waiting, toInsert, processes, used>>

HandleInferiorPrepared ==
    GdbMethod("handleInferiorPrepared",
        <<Call(Gdb, "attemptBreakpointSynchronization"),
          Call(Gdb, "finishWhenDone")>>)

FinishWhenDone ==
    /\ Enter(Gdb, "finishWhenDone")
    /\ IF Pending = {}
       THEN Unfold(<<Call(Gdb, "finishInferiorSetup")>>) /\ UNCHANGED whenDone
       ELSE Unfold(<<>>) /\ whenDone' = "finishInferiorSetup"
    /\ UNCHANGED <<engineRest, pipes, waiting, toInsert, processes, used>>

FinishInferiorSetup ==
    GdbMethod("finishInferiorSetup", <<PostCommand("msymbols")>>)

(* handleStopResponse()                                                    *)
HandleStopResponse ==
    /\ Reads("stopped")
    /\ calls' =
         IF state[Gdb] = "InferiorSetupRequested" THEN <<>>
         ELSE IF Gdb \in dying THEN <<Call(Gdb, "notifyInferiorStopOk")>>
         ELSE IF Head(output)[2] = "exited"
         THEN <<Call(Gdb, "notifyInferiorExited")>>
         ELSE IF waiting # <<>>
         THEN <<Call(Gdb, "notifyInferiorStopOk"),
                Call(Gdb, "flushQueuedCommands"), Call(Gdb, "continueWhenDone")>>
         ELSE IF state[Gdb] = "InferiorRunOk"
         THEN <<Call(Gdb, "notifyInferiorSpontaneousStop")>>
         ELSE IF state[Gdb] = "InferiorRunRequested"
         THEN <<Call(Gdb, "notifyInferiorRunOk"),
                Call(Gdb, "notifyInferiorSpontaneousStop")>>
         ELSE <<Call(Gdb, "notifyInferiorStopOk")>>
    /\ UNCHANGED <<engineRest, commands, waiting, whenDone, toInsert,
                   processes, used>>

ContinueWhenDone ==
    /\ Enter(Gdb, "continueWhenDone") /\ Unfold(<<>>)
    /\ whenDone' = IF state[Gdb] = "InferiorStopOk"
                   THEN "autoContinueInferior" ELSE whenDone
    /\ UNCHANGED <<engineRest, pipes, waiting, toInsert, processes, used>>

HandleGdbFinished ==
    /\ Reads("finished") /\ gdb' = "NotRunning"
    /\ calls' = CASE state[Gdb] = "EngineShutdownRequested" ->
                         <<Call(Gdb, "notifyEngineShutdownOk")>>
                  [] state[Gdb] = "InferiorRunOk" ->
                         <<Call(Gdb, "notifyEngineSpontaneousShutdown")>>
                  [] OTHER -> <<Call(Gdb, "notifyEngineIll")>>
    /\ UNCHANGED <<engineRest, commands, waiting, whenDone, toInsert, program,
                   sigint, used>>

----------------------------------------------------------------------------
(* The user, where the plugin enables the action.                          *)
(* Counts an action, and apart from that a resume in a temporary stop.     *)
Count(what) ==
    LET early == IF what = "resume" /\ whenDone # "" THEN 1 ELSE 0
    IN  used' = [used EXCEPT ![what] = @ + 1, !["early"] = @ + early]

May(what, bound) ==
    /\ Idle /\ runControl = "running"
    /\ used[what] < bound /\ Count(what)

StopsUsed == used["interrupt"] + used["breakpoint"]
EndsUsed == used["quit"] + used["abort"] + used["crash"]
MayStop == StopsUsed < MaxStops /\ StopsUsed + EndsUsed < MaxDisturbances
MayEnd == EndsUsed < MaxEnds /\ StopsUsed + EndsUsed < MaxDisturbances

UserActs(what, bound, stmts) ==
    /\ May(what, bound) /\ calls' = stmts
    /\ UNCHANGED <<engineRest, pipes, waiting, whenDone, toInsert, processes>>

(* updateState(): a temporary stop is as good as any other.                *)
CanResume == state[Master] = "InferiorStopOk"

UserContinues ==
    /\ CanResume
    /\ UserActs("resume", MaxResumes, <<Call(Master, "continueInferior")>>)

ExecuteStepOut ==
    /\ CanResume
    /\ UserActs("resume", MaxResumes,
                <<Call(Gdb, "notifyInferiorRunRequested"), PostCommand("finish")>>)

UserInterrupts ==
    /\ state[Master] = "InferiorRunOk" /\ MayStop
    /\ UserActs("interrupt", MaxStops,
                <<Call(Master, "doInterruptInferior")>>)

DetachDebugger ==
    /\ CanResume
    /\ UserActs("resume", MaxResumes, <<PostCommand("detach")>>)

UserQuits ==
    /\ MayEnd
    /\ UserActs("quit", MaxEnds, <<Call(Master, "quitDebugger")>>)

UserAborts ==
    /\ state[Master] \notin {"DebuggerNotReady", "DebuggerFinished"}
    /\ MayEnd
    /\ UserActs("abort", MaxEnds, <<Call(Master, "abortDebugger")>>)

(* A breakpoint is added, and the timer of the breakpoint handler fires.   *)
UserAddsBreakpoint ==
    /\ MayStop /\ May("breakpoint", MaxStops)
    /\ toInsert' = toInsert + 1
    /\ calls' = <<Call(Gdb, "attemptBreakpointSynchronization")>>
    /\ UNCHANGED <<engineRest, pipes, waiting, whenDone, processes>>

User ==
    \/ UserContinues \/ ExecuteStepOut \/ UserInterrupts \/ DetachDebugger
    \/ UserQuits \/ UserAborts \/ UserAddsBreakpoint

----------------------------------------------------------------------------
(* gdb and the program.                                                    *)
Answers(cmd, class, becomes) ==
    /\ gdb = "Running" /\ program # "running"
    /\ commands # <<>> /\ Head(commands) = cmd
    /\ commands' = Tail(commands)
    /\ program' = becomes
    /\ output' = Append(output, Result(cmd, class))
                   \o (IF cmd = "exit" THEN <<Says("finished", "")>> ELSE <<>>)
    /\ gdb' = IF cmd = "exit" THEN "Ended" ELSE gdb
    /\ UNCHANGED <<engineVars, waiting, whenDone, toInsert, sigint, used>>

GdbAnswers ==
    \/ \E class \in {"done", "error"} : Answers("file", class, program)
    \/ Answers("msymbols", "done", program)
    \/ Answers("break", "done", program)
    \/ Answers("run", "running", "running") \/ Answers("run", "error", program)
    \/ program = "stopped" /\ \/ Answers("continue", "running", "running")
                              \/ Answers("finish", "running", "running")
                              \/ Answers("finish", "notMeaningful", program)
    \/ program = "none" /\ \E cmd \in {"continue", "finish", "kill"} :
                              Answers(cmd, "error", program)
    \/ program = "stopped" /\ Answers("kill", "done", "none")
    \/ Answers("detach", "done", "none")
    \/ Answers("exit", "exit", "none")

Stops(why, becomes) ==
    /\ gdb = "Running" /\ program = "running"
    /\ program' = becomes
    /\ output' = Append(output, Says("stopped", why))
    /\ UNCHANGED <<engineVars, commands, waiting, whenDone, toInsert, gdb>>

ProgramHitsBreakpoint ==
    /\ used["hit"] < MaxHits /\ used' = [used EXCEPT !["hit"] = @ + 1]
    /\ Stops("breakpoint-hit", "stopped") /\ UNCHANGED sigint

ProgramIsInterrupted ==
    /\ sigint /\ Stops("signal-received", "stopped")
    /\ sigint' = FALSE /\ UNCHANGED used

ProgramExits == Stops("exited", "none") /\ sigint' = FALSE /\ UNCHANGED used

(* gdb crashes, or the user has it killed when a command takes too long;   *)
(* the program may survive it.                                             *)
GdbDies ==
    /\ MayEnd /\ used' = [used EXCEPT !["crash"] = @ + 1]
    /\ gdb = "Running" /\ Die
    /\ program' \in {program, "none"}
    /\ UNCHANGED <<engineVars, commands, waiting, whenDone, toInsert, sigint>>

GdbProcess == GdbAnswers \/ ProgramIsInterrupted
Program == ProgramHitsBreakpoint \/ ProgramExits

----------------------------------------------------------------------------
InitGdb ==
    /\ commands = <<>> /\ output = <<>> /\ waiting = <<>> /\ whenDone = ""
    /\ toInsert = 0 /\ gdb = "NotRunning" /\ program = "none"
    /\ sigint = FALSE
    /\ used = [w \in {"resume", "interrupt", "quit", "abort", "breakpoint",
                      "hit", "crash", "early"} |-> 0]

Init == InitEngines /\ InitGdb

(* The statements of the engine and of gdb's methods.                      *)
GdbHandlers ==
    \/ Flush \/ PostCommandHelper \/ InterruptInferiorTemporarily
    \/ FlushQueuedCommands \/ AttemptBreakpointSynchronization \/ SetupEngine
    \/ SetupInferior \/ RunEngine \/ InterruptInferior \/ ShutdownInferior
    \/ ShutdownEngine \/ AbortDebugger \/ ContinueInferior
    \/ InterruptForQueued \/ CommandsDone \/ HandleInferiorPrepared
    \/ FinishWhenDone \/ FinishInferiorSetup \/ ContinueWhenDone

GdbOutput == HandleResultRecord \/ HandleStopResponse \/ HandleGdbFinished

Handlers ==
    \/ GdbHandlers
    \/ (\E e \in Engines : InsideHandler(e) \/ QuitDebugger(e)
            \/ NotifyInferiorIll(e)) /\ UNCHANGED gdbVars
    \/ (StartFailed \/ DoFinishDebugger \/ DoShutdownEngine)
            /\ UNCHANGED gdbVars

EventLoop ==
    \/ (StartDebugger \/ RunPosted) /\ UNCHANGED gdbVars
    \/ GdbOutput

Next == Handlers \/ EventLoop \/ User \/ GdbProcess \/ Program \/ GdbDies

(* The event loop serves its timers and gdb's output; gdb answers, and a   *)
(* pending SIGINT stops the program.  Users and programs owe nothing.      *)
Fairness ==
    /\ WF_vars(Handlers) /\ WF_vars(EventLoop) /\ WF_vars(GdbProcess)

Spec == Init /\ [][Next]_vars /\ Fairness

----------------------------------------------------------------------------
(* Properties.                                                             *)

Contract ==
    INSTANCE DebuggerContract
        WITH session <- runControl,
             debugger <- IF gdb = "Running" THEN "on" ELSE "off"

(* The refinement: the run control hears of the end once, when gdb is      *)
(* gone, and gdb is started for a running session only.                    *)
ContractSpec == Contract!Spec

(* debuggingFinished() is called when gdb is gone, however the session was *)
(* quit, aborted or interrupted.                                           *)
FinishedMeansGdbGone == runControl = "finished" => gdb # "Running"

(* "InferiorStopOk: Debuggee stopped": between two handlers, with nothing  *)
(* of gdb's unread, an engine that says so has a program that is stopped.  *)
StopIsReal ==
    Idle /\ state[Gdb] = "InferiorStopOk" /\ gdb = "Running" /\ output = <<>>
        => program # "running"

(* The user resumed the program during a temporary stop, whose end then    *)
(* resumed it again, and one of the two resuming commands is unanswered:   *)
(* gdb reads it when the program stops next, and sets the program off      *)
(* although the engine takes the stop for one that lasts.                  *)
ResumedTwice ==
    /\ used["early"] > 0 /\ whenDone = ""
    /\ {"continue", "finish"} \intersect Pending # {}

(* A breakpoint is never inserted into a running program: postCommand()    *)
(* with NeedsStop keeps it until the program has stopped.  Only a program  *)
(* that was resumed twice may run while the engine believes it stopped.    *)
BreakpointsNeedStop ==
    [][commands' = Append(commands, "break") /\ gdb = "Running"
           => program # "running" \/ ResumedTwice]_vars

(* A program that was stopped for commands only is resumed once gdb has    *)
(* answered them all.  When the user has resumed it before, the answers    *)
(* may have to wait, for gdb reads nothing while the program runs, or be   *)
(* overtaken by the end of the session.                                    *)
TemporaryStopEnds ==
    whenDone = "autoContinueInferior"
        ~> \/ whenDone # "autoContinueInferior"
           \/ used["early"] > 0 /\ (program # "stopped" \/ Gdb \in dying)

(* Commands that wait for a stop do not wait while the program runs on     *)
(* under gdb: they are sent, or the program stops or ends, or gdb does.    *)
(* Not so when the program was resumed twice: the engine does not stop a   *)
(* program that it is asking to run, and gdb does not read while it runs.  *)
WaitingCommandsStopProgram ==
    waiting # <<>> ~> \/ waiting = <<>>
                      \/ program # "running"
                      \/ gdb # "Running"
                      \/ ResumedTwice

(* A session that the user aborts twice ends, in whatever state the two    *)
(* find it, since the second abort kills gdb.  Not so when gdb has died by *)
(* itself or when a breakpoint had the program stopped for a while: the    *)
(* temporary stop may resume a program that is being shut down, and        *)
(* notifyEngineIll() then waits for gdb to stop it.                        *)
AbortEnds ==
    used["abort"] > 1 /\ used["crash"] = 0 /\ used["breakpoint"] = 0
        ~> \/ runControl \in {"failed", "finished"}
           \/ used["breakpoint"] > 0

=============================================================================
