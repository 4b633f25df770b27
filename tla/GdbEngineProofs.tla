--------------------------- MODULE GdbEngineProofs ---------------------------
(***************************************************************************)
(* Proofs about a GdbEngine that stands alone, as in a session that debugs *)
(* C++ only: the run control hears of the end when gdb is gone, and the    *)
(* engine implements DebuggerContract.                                     *)
(*                                                                         *)
(* The argument is about the words that occur on the stack, in the timers, *)
(* among the waiting commands and as the state.  A session passes through  *)
(* stages: once gdb was launched, nothing that launches it again is left   *)
(* or will be pushed; once its setup is done, nothing of a failing setup;  *)
(* and what ends the session is pushed only after gdb's end was handled.   *)
(*                                                                         *)
(* That a reported stop is real is about the order of two streams: once    *)
(* the engine has read that the program runs, all it still has to say is   *)
(* "calm", that is, speaks of no stop but the one notifyInferiorIll()      *)
(* passes through, and it is on its way out of the state of a stop.        *)
(***************************************************************************)
EXTENDS GdbEngine, SequenceLemmas

Alone == Engines = {Gdb} /\ Master = Gdb

(* The words that launch gdb, that fail its setup, that end a session, and *)
(* that say that the program has stopped.                                  *)
Launching == {"queueSetupEngine", "doSetupEngine", "setupEngine"}
Failing == {"notifyEngineSetupFailed", "startFailed", "EngineSetupRequested"}
Ending == {"notifyEngineShutdownOk", "notifyEngineSpontaneousShutdown",
           "queueFinishDebugger", "doFinishDebugger"}
Stopping == {"notifyInferiorStopOk", "notifyInferiorSpontaneousStop",
             "notifyInferiorRunFailed", "InferiorStopOk"}

(* All others.                                                             *)
Keywords ==
    {"setState", "forceState", "post", "postCommand", "flushCommand", ""}

EngineWords ==
    {"queueSetupInferior", "queueRunEngine", "queueShutdownEngine",
     "queueShutdownInferior", "doSetupInferior", "doRunEngine",
     "doShutdownEngine", "doShutdownInferior", "doInterruptInferior",
     "setupInferior", "runEngine", "interruptInferior", "shutdownInferior",
     "shutdownEngine", "quitDebugger", "abortDebugger",
     "shutdownInferiorIfDying", "shutdownInferiorIfStopped",
     "notifyEngineSetupOk", "notifyInferiorSetupFailed",
     "notifyInferiorSetupOk", "notifyEngineRunFailed",
     "notifyEngineRunAndInferiorRunOk", "notifyInferiorRunRequested",
     "notifyInferiorRunOk", "notifyInferiorStopFailed",
     "notifyInferiorExited", "notifyInferiorShutdownOk",
     "notifyInferiorShutdownFailed", "notifyInferiorIll", "notifyEngineIll"}

GdbWords ==
    {"continueInferior", "autoContinueInferior",
     "interruptInferiorTemporarily", "flushQueuedCommands",
     "attemptBreakpointSynchronization", "interruptForQueued",
     "commandsDone", "handleInferiorPrepared", "finishWhenDone",
     "finishInferiorSetup", "continueWhenDone"}

CommandWords ==
    {"file", "msymbols", "break", "run", "continue", "finish", "kill",
     "detach", "exit"}

StateWords ==
    {"EngineSetupFailed", "EngineSetupOk", "InferiorSetupRequested",
     "InferiorSetupFailed", "InferiorSetupOk", "EngineRunRequested",
     "EngineRunFailed", "InferiorRunRequested", "InferiorRunOk",
     "InferiorRunFailed", "InferiorStopRequested", "InferiorStopFailed",
     "InferiorExitOk", "InferiorShutdownRequested", "InferiorShutdownOk",
     "InferiorShutdownFailed", "EngineShutdownRequested",
     "EngineShutdownOk", "DebuggerFinished"}

CommonWords ==
    Keywords \union EngineWords \union GdbWords \union CommandWords
      \union StateWords

(* The words of a session in progress, of one whose gdb is gone, of every  *)
(* session once gdb was launched, and those that do not speak of a stop.   *)
Harmless == CommonWords \union Stopping
GoneWords == Harmless \union Ending
LateWords == GoneWords \union Failing
CalmWords == CommonWords \union Ending \union Failing
Stages == {Harmless, GoneWords, LateWords, CalmWords}

(* The slots that are posted once gdb was launched.                        *)
Slots == {"doSetupInferior", "doRunEngine", "doShutdownEngine",
          "doShutdownInferior", "doFinishDebugger"}

Fits(s) ==
    /\ s[2] = "post" => s[3] \in Slots
    /\ s[2] \in {"postCommand", "flushCommand"} => s[3] \in CommandWords

Statements(W) == {s \in {Gdb} \X W \X W : Fits(s)}
SlotCalls(W) == {Call(Gdb, slot) : slot \in Slots \intersect W}

Speaks(W) ==
    /\ calls \in Seq(Statements(W))
    /\ posted \in Seq(SlotCalls(W))
    /\ waiting \in Seq(CommandWords)
    /\ state \in [Engines -> W \union Stopping]

Types ==
    /\ whenDone \in {"", "autoContinueInferior", "finishInferiorSetup"}
    /\ toInsert \in Nat
    /\ gdb \in {"NotRunning", "Running", "Ended"}

----------------------------------------------------------------------------
(* Words and statements.                                                   *)

AllOrNone(ws, W) == (\A w \in ws : w \in W) \/ (\A w \in ws : w \notin W)

LEMMA Apart ==
    /\ \A w \in Launching : w \notin CommonWords \union Failing \union Ending
                                       \union Stopping
    /\ \A w \in Failing : w \notin CommonWords \union Ending \union Stopping
    /\ \A w \in Ending : w \notin CommonWords \union Failing \union Stopping
    /\ \A w \in Stopping : w \notin CommonWords \union Failing \union Ending
<1>1. ASSUME NEW w \in Launching \union Failing \union Ending \union Stopping
      PROVE  w \notin CommonWords
  <2>1. w \notin Keywords
    BY DEF Keywords, Launching, Failing, Ending, Stopping
  <2>2. w \notin EngineWords
    BY DEF EngineWords, Launching, Failing, Ending, Stopping
  <2>3. w \notin GdbWords
    BY DEF GdbWords, Launching, Failing, Ending, Stopping
  <2>4. w \notin CommandWords
    BY DEF CommandWords, Launching, Failing, Ending, Stopping
  <2>5. w \notin StateWords
    BY DEF StateWords, Launching, Failing, Ending, Stopping
  <2> QED
    BY <2>1, <2>2, <2>3, <2>4, <2>5 DEF CommonWords
<1>2. \A w \in Launching : w \notin Failing \union Ending \union Stopping
  BY DEF Launching, Failing, Ending, Stopping
<1>3. \A w \in Failing : w \notin Ending \union Stopping
  BY DEF Failing, Ending, Stopping
<1>4. \A w \in Ending : w \notin Failing \union Stopping
  BY DEF Failing, Ending, Stopping
<1>5. \A w \in Stopping : w \notin Failing \union Ending
  BY DEF Failing, Ending, Stopping
<1> QED
  BY <1>1, <1>2, <1>3, <1>4, <1>5

LEMMA Stage ==
    ASSUME NEW W \in Stages
    PROVE  /\ CommonWords \subseteq W
           /\ \A w \in Launching : w \notin W
           /\ AllOrNone(Ending, W)
           /\ AllOrNone(Failing, W)
           /\ AllOrNone(Stopping, W)
<1>1. CASE W = Harmless
  BY <1>1, Apart DEF Harmless, AllOrNone
<1>2. CASE W = GoneWords
  BY <1>2, Apart DEF Harmless, GoneWords, AllOrNone
<1>3. CASE W = LateWords
  BY <1>3, Apart DEF Harmless, GoneWords, LateWords, AllOrNone
<1>4. CASE W = CalmWords
  BY <1>4, Apart DEF CalmWords, AllOrNone
<1> QED
  BY <1>1, <1>2, <1>3, <1>4 DEF Stages

LEMMA StatementsOf ==
    ASSUME NEW W, NEW S, S = Statements(W)
    PROVE  /\ \A m, t \in W : Fits(<<Gdb, m, t>>) => <<Gdb, m, t>> \in S
           /\ \A s \in S : /\ s = <<Gdb, s[2], s[3]>> /\ s[2] \in W /\ s[3] \in W
                           /\ Fits(s)
<1>1. ASSUME NEW m \in W, NEW t \in W, Fits(<<Gdb, m, t>>)
      PROVE  <<Gdb, m, t>> \in S
  BY <1>1 DEF Statements
<1>2. ASSUME NEW s \in S
      PROVE  s = <<Gdb, s[2], s[3]>> /\ s[2] \in W /\ s[3] \in W /\ Fits(s)
  BY DEF Statements
<1> QED
  BY <1>1, <1>2

LEMMA Lists ==
    ASSUME NEW S
    PROVE  /\ <<>> \in Seq(S)
           /\ \A a \in S : <<a>> \in Seq(S)
           /\ \A a, b \in S : <<a, b>> \in Seq(S)
           /\ \A a, b, c \in S : <<a, b, c>> \in Seq(S)
           /\ \A s, t \in Seq(S) : s \o t \in Seq(S)
  OBVIOUS

LEMMA Heads ==
    ASSUME NEW S, NEW s \in Seq(S), s # <<>>
    PROVE  Head(s) \in S /\ Tail(s) \in Seq(S)
  OBVIOUS

LEMMA Unfolded ==
    ASSUME NEW S, calls \in Seq(S), calls # <<>>, NEW body \in Seq(S),
           Unfold(body)
    PROVE  calls' \in Seq(S)
  BY DEF Unfold

----------------------------------------------------------------------------
(* Methods whose bodies speak the words of a stage.                        *)

LEMMA Entered ==
    ASSUME NEW W, Speaks(W), NEW e, NEW m, Enter(e, m)
    PROVE  e = Gdb /\ m \in W /\ calls # <<>>
<1>1. calls \in Seq(Statements(W))
  BY DEF Speaks
<1>2. Head(calls) = <<e, m, "">> /\ calls # <<>>
  BY DEF Enter, Idle, Next1, Call
<1>3. <<e, m, "">> \in Statements(W)
  BY <1>1, <1>2, Heads, Zenon
<1> QED
  BY <1>2, <1>3 DEF Statements

LEMMA MethodSpeaks ==
    ASSUME NEW W, Speaks(W), UNCHANGED waiting,
           NEW e, NEW m, NEW body, Method(e, m, body),
           e = Gdb /\ m \in W => body \in Seq(Statements(W))
    PROVE  Speaks(W)'
<1>1. e = Gdb /\ m \in W /\ calls # <<>>
  BY Entered DEF Method
<1>2. calls' \in Seq(Statements(W))
  BY <1>1, Unfolded DEF Speaks, Method
<1> QED
  BY <1>2 DEF Speaks, Method

LEMMA DyingMethodSpeaks ==
    ASSUME NEW W, Speaks(W), UNCHANGED waiting,
           NEW e, NEW m, NEW body, DyingMethod(e, m, body),
           e = Gdb /\ m \in W => body \in Seq(Statements(W))
    PROVE  Speaks(W)'
<1>1. e = Gdb /\ m \in W /\ calls # <<>>
  BY Entered DEF DyingMethod
<1>2. calls' \in Seq(Statements(W))
  BY <1>1, Unfolded DEF Speaks, DyingMethod
<1> QED
  BY <1>2 DEF Speaks, DyingMethod

(* What every stage may say. *)
LEMMA Vocabulary ==
    ASSUME NEW W \in Stages, NEW S, S = Statements(W)
    PROVE  /\ \A m \in EngineWords \union GdbWords : Call(Gdb, m) \in S
           /\ \A m \in Ending \union Failing \union Stopping :
                  m \in W => Call(Gdb, m) \in S
           /\ \A slot \in Slots : slot \in W => /\ Post(Gdb, slot) \in S
                                              /\ Call(Gdb, slot) \in S
           /\ {"doSetupInferior", "doRunEngine", "doShutdownEngine",
               "doShutdownInferior"} \subseteq W
           /\ \A to \in W : Set(Gdb, to) \in S /\ ForceState(Gdb, to) \in S
           /\ \A to \in StateWords : /\ Set(Gdb, to) \in S
                                     /\ ForceState(Gdb, to) \in S
           /\ \A cmd \in CommandWords : /\ PostCommand(cmd) \in S
                                        /\ FlushCommand(cmd) \in S
           /\ StateWords \subseteq W
<1>1. CommonWords \subseteq W
  BY Stage
<1>2. {"", "setState", "forceState", "post", "postCommand", "flushCommand"} \subseteq W
  BY <1>1 DEF CommonWords, Keywords
<1>3. \A m, t \in W : Fits(<<Gdb, m, t>>) => <<Gdb, m, t>> \in S
  BY StatementsOf
<1>4. EngineWords \subseteq W /\ GdbWords \subseteq W /\ CommandWords \subseteq W
      /\ StateWords \subseteq W
  BY <1>1 DEF CommonWords
<1>5. ASSUME NEW m \in W, m \notin {"post", "postCommand", "flushCommand"}
      PROVE  Call(Gdb, m) \in S
  <2>1. Fits(<<Gdb, m, "">>)
    BY <1>5 DEF Fits
  <2> QED BY <1>2, <1>3, <2>1 DEF Call
<1>6. \A m \in EngineWords \union GdbWords :
         m \notin {"post", "postCommand", "flushCommand"}
  BY DEF EngineWords, GdbWords
<1>7. \A m \in Ending \union Failing \union Stopping \union Slots :
         m \notin {"post", "postCommand", "flushCommand"}
  BY DEF Ending, Failing, Stopping, Slots
<1>8. ASSUME NEW slot \in Slots, slot \in W
      PROVE  Post(Gdb, slot) \in S
  <2>1. Fits(<<Gdb, "post", slot>>)
    BY DEF Fits
  <2> QED BY <1>2, <1>3, <1>8, <2>1 DEF Post
<1>9. ASSUME NEW to \in W
      PROVE  Set(Gdb, to) \in S /\ ForceState(Gdb, to) \in S
  <2>1. Fits(<<Gdb, "setState", to>>) /\ Fits(<<Gdb, "forceState", to>>)
    BY DEF Fits
  <2> QED BY <1>2, <1>3, <2>1 DEF Set, ForceState
<1>10. ASSUME NEW cmd \in CommandWords
       PROVE  PostCommand(cmd) \in S /\ FlushCommand(cmd) \in S
  <2>1. Fits(<<Gdb, "postCommand", cmd>>) /\ Fits(<<Gdb, "flushCommand", cmd>>)
    BY DEF Fits
  <2> QED BY <1>2, <1>3, <1>4, <2>1 DEF PostCommand, FlushCommand
<1>11. {"doSetupInferior", "doRunEngine", "doShutdownEngine",
        "doShutdownInferior"} \subseteq W
  BY <1>4 DEF EngineWords
<1>12. \A m \in EngineWords \union GdbWords : Call(Gdb, m) \in S
  BY <1>4, <1>5, <1>6
<1>13. \A m \in Ending \union Failing \union Stopping \union Slots :
          m \in W => Call(Gdb, m) \in S
  BY <1>5, <1>7
<1>14. \A to \in StateWords : Set(Gdb, to) \in S /\ ForceState(Gdb, to) \in S
  BY <1>4, <1>9
<1> QED
  BY <1>4, <1>8, <1>9, <1>10, <1>11, <1>12, <1>13, <1>14

LEMMA Alike ==
    ASSUME Alone, NEW e \in Engines
    PROVE  e = Gdb /\ \A s : IfMaster(e, s) = s
  BY DEF Alone, IfMaster, When

LEMMA SetUpSpeaks ==
    ASSUME Alone, NEW W \in Stages, Speaks(W), NEW e \in Engines, SetUp(e),
           UNCHANGED waiting
    PROVE  Speaks(W)'
<1> DEFINE S == Statements(W)
<1>1. e = Gdb /\ \A s : IfMaster(e, s) = s
  BY Alike
<1>2. /\ \A m \in EngineWords \union GdbWords : Call(Gdb, m) \in S
      /\ \A to \in StateWords : /\ Set(Gdb, to) \in S
                                /\ ForceState(Gdb, to) \in S
      /\ \A m \in Ending \union Failing \union Stopping :
            m \in W => Call(Gdb, m) \in S
  BY Vocabulary
<1> HIDE DEF S
<1>3. (\A w \in Launching : w \notin W) /\ AllOrNone(Failing, W)
  BY Stage
<1>4. CASE DoSetupEngine(e)
  <2>1. "doSetupEngine" \in W => <<Call(e, "setupEngine")>> \in Seq(S)
    BY <1>1, <1>2, Lists, <1>3 DEF Launching
  <2> QED BY <1>4, <2>1, MethodSpeaks DEF DoSetupEngine, S
<1>5. CASE NotifyEngineSetupFailed(e)
  <2>1. "notifyEngineSetupFailed" \in W =>
       <<Set(e, "EngineSetupFailed")>> \o IfMaster(e, <<Call(e, "startFailed")>>) \o <<Set(e, "DebuggerFinished")>> \in Seq(S)
    BY <1>1, <1>2, Lists, <1>3 DEF Failing, StateWords, AllOrNone
  <2> QED BY <1>5, <2>1, MethodSpeaks DEF NotifyEngineSetupFailed, S
<1>6. CASE NotifyEngineSetupOk(e)
  <2>1. <<Set(e, "EngineSetupOk")>>
       \o IfMaster(e, <<Call(e, "queueSetupInferior")>>) \in Seq(S)
    BY <1>1, <1>2, Lists DEF EngineWords, StateWords
  <2> QED BY <1>6, <2>1, MethodSpeaks DEF NotifyEngineSetupOk, S
<1>7. CASE DoSetupInferior(e)
  <2>1. <<Call(e, "setupInferior")>> \in Seq(S)
    BY <1>1, <1>2, Lists DEF EngineWords, StateWords
  <2> QED BY <1>7, <2>1, MethodSpeaks DEF DoSetupInferior, S
<1>8. CASE NotifyInferiorSetupFailed(e)
  <2>1. <<Set(e, "InferiorSetupFailed")>>
       \o IfMaster(e, <<Call(e, "queueShutdownEngine")>>) \in Seq(S)
    BY <1>1, <1>2, Lists DEF EngineWords, StateWords
  <2> QED BY <1>8, <2>1, MethodSpeaks DEF NotifyInferiorSetupFailed, S
<1>9. CASE NotifyInferiorSetupOk(e)
  <2>1. <<Set(e, "InferiorSetupOk")>>
       \o IfMaster(e, <<Call(e, "queueRunEngine")>>) \in Seq(S)
    BY <1>1, <1>2, Lists DEF EngineWords, StateWords
  <2> QED BY <1>9, <2>1, MethodSpeaks DEF NotifyInferiorSetupOk, S
<1>10. CASE DoRunEngine(e)
  <2>1. <<Call(e, "runEngine")>> \in Seq(S)
    BY <1>1, <1>2, Lists DEF EngineWords, StateWords
  <2> QED BY <1>10, <2>1, MethodSpeaks DEF DoRunEngine, S
<1>11. CASE NotifyEngineRunFailed(e)
  <2>1. <<Set(e, "EngineRunFailed")>>
       \o IfMaster(e, <<Call(e, "queueShutdownEngine")>>) \in Seq(S)
    BY <1>1, <1>2, Lists DEF EngineWords, StateWords
  <2> QED BY <1>11, <2>1, MethodSpeaks DEF NotifyEngineRunFailed, S
<1> QED
  BY <1>4, <1>5, <1>6, <1>7, <1>8, <1>9, <1>10, <1>11 DEF SetUp

LEMMA RunAndStopSpeaks ==
    ASSUME Alone, NEW W \in Stages, Speaks(W), NEW e \in Engines, RunAndStop(e),
           UNCHANGED waiting
    PROVE  Speaks(W)'
<1> DEFINE S == Statements(W)
<1>1. e = Gdb /\ \A s : IfMaster(e, s) = s
  BY Alike
<1>2. /\ \A m \in EngineWords \union GdbWords : Call(Gdb, m) \in S
      /\ \A to \in StateWords : /\ Set(Gdb, to) \in S
                                /\ ForceState(Gdb, to) \in S
      /\ \A m \in Ending \union Failing \union Stopping :
            m \in W => Call(Gdb, m) \in S
  BY Vocabulary
<1>0. AllOrNone(Stopping, W) /\ \A to \in W : Set(Gdb, to) \in S
  BY Stage, Vocabulary
<1> HIDE DEF S
<1>3. CASE NotifyEngineRunAndInferiorRunOk(e)
  <2>1. <<Set(e, "InferiorRunOk")>> \in Seq(S)
    BY <1>1, <1>2, Lists DEF EngineWords, StateWords
  <2> QED BY <1>3, <2>1, MethodSpeaks DEF NotifyEngineRunAndInferiorRunOk, S
<1>4. CASE NotifyInferiorRunRequested(e)
  <2>1. <<Set(e, "InferiorRunRequested")>> \in Seq(S)
    BY <1>1, <1>2, Lists DEF EngineWords, StateWords
  <2> QED BY <1>4, <2>1, MethodSpeaks DEF NotifyInferiorRunRequested, S
<1>5. CASE NotifyInferiorRunOk(e)
  <2>1. <<Set(e, "InferiorRunOk")>> \in Seq(S)
    BY <1>1, <1>2, Lists DEF EngineWords, StateWords
  <2> QED BY <1>5, <2>1, MethodSpeaks DEF NotifyInferiorRunOk, S
<1>6. CASE NotifyInferiorRunFailed(e)
  <2>1. "notifyInferiorRunFailed" \in W =>
          <<Set(e, "InferiorRunFailed"), Set(e, "InferiorStopOk"),
            Call(e, "shutdownInferiorIfDying")>> \in Seq(S)
    BY <1>0, <1>1, <1>2, Lists DEF EngineWords, StateWords, Stopping, AllOrNone
  <2> QED BY <1>6, <2>1, MethodSpeaks DEF NotifyInferiorRunFailed, S
<1>7. CASE ShutdownInferiorIfDying(e)
  <2>1. When(e \in dying, <<Call(e, "queueShutdownInferior")>>) \in Seq(S)
    BY <1>1, <1>2, Lists DEF EngineWords, StateWords, When
  <2> QED BY <1>7, <2>1, MethodSpeaks DEF ShutdownInferiorIfDying, S
<1>8. CASE NotifyInferiorStopOk(e)
  <2>1. "notifyInferiorStopOk" \in W =>
        (IF e \notin dying THEN <<Set(e, "InferiorStopOk")>>
         ELSE When(state[e] \in {"InferiorStopRequested", "InferiorRunRequested",
                                 "InferiorRunOk"}, <<Set(e, "InferiorStopOk")>>)
                \o <<Call(e, "shutdownInferiorIfStopped")>>) \in Seq(S)
    BY <1>0, <1>1, <1>2, Lists DEF EngineWords, Stopping, AllOrNone, When
  <2> QED BY <1>8, <2>1, MethodSpeaks DEF NotifyInferiorStopOk, S
<1>9. CASE ShutdownInferiorIfStopped(e)
  <2>1. When(state[e] \in {"InferiorStopOk", "InferiorStopFailed"},
             <<Call(e, "queueShutdownInferior")>>) \in Seq(S)
    BY <1>1, <1>2, Lists DEF EngineWords, StateWords, When
  <2> QED BY <1>9, <2>1, MethodSpeaks DEF ShutdownInferiorIfStopped, S
<1>10. CASE NotifyInferiorSpontaneousStop(e)
  <2>1. "notifyInferiorSpontaneousStop" \in W =>
          <<Set(e, "InferiorStopOk")>> \in Seq(S)
    BY <1>0, <1>1, Lists DEF Stopping, AllOrNone
  <2> QED BY <1>10, <2>1, MethodSpeaks DEF NotifyInferiorSpontaneousStop, S
<1>11. CASE NotifyInferiorStopFailed(e)
  <2>1. <<Set(e, "InferiorStopFailed")>>
       \o IfMaster(e, <<Call(e, "queueShutdownEngine")>>) \in Seq(S)
    BY <1>1, <1>2, Lists DEF EngineWords, StateWords
  <2> QED BY <1>11, <2>1, MethodSpeaks DEF NotifyInferiorStopFailed, S
<1>12. CASE DoInterruptInferior(e)
  <2>1. <<Set(e, "InferiorStopRequested"), Call(e, "interruptInferior")>>
       \in Seq(S)
    BY <1>1, <1>2, Lists DEF EngineWords, StateWords
  <2> QED BY <1>12, <2>1, MethodSpeaks DEF DoInterruptInferior, S
<1>13. CASE NotifyInferiorExited(e)
  <2>1. <<Set(e, "InferiorExitOk"), Set(e, "InferiorShutdownOk")>>
       \o IfMaster(e, <<Call(e, "queueShutdownEngine")>>) \in Seq(S)
    BY <1>1, <1>2, Lists DEF EngineWords, StateWords
  <2> QED BY <1>13, <2>1, MethodSpeaks DEF NotifyInferiorExited, S
<1> QED
  BY <1>3, <1>4, <1>5, <1>6, <1>7, <1>8, <1>9, <1>10, <1>11, <1>12,
       <1>13 DEF RunAndStop

LEMMA ShutDownSpeaks ==
    ASSUME Alone, NEW W \in Stages, Speaks(W), NEW e \in Engines, ShutDown(e),
           UNCHANGED waiting
    PROVE  Speaks(W)'
<1> DEFINE S == Statements(W)
<1>1. e = Gdb /\ \A s : IfMaster(e, s) = s
  BY Alike
<1>2. /\ \A m \in EngineWords \union GdbWords : Call(Gdb, m) \in S
      /\ \A to \in StateWords : /\ Set(Gdb, to) \in S
                                /\ ForceState(Gdb, to) \in S
      /\ \A m \in Ending \union Failing \union Stopping :
            m \in W => Call(Gdb, m) \in S
  BY Vocabulary
<1> HIDE DEF S
<1>3. AllOrNone(Ending, W)
  BY Stage
<1>4. CASE DoShutdownInferior(e)
  <2>1. <<Call(e, "shutdownInferior")>> \in Seq(S)
    BY <1>1, <1>2, Lists DEF EngineWords, StateWords
  <2> QED BY <1>4, <2>1, DyingMethodSpeaks DEF DoShutdownInferior, S
<1>5. CASE NotifyInferiorShutdownOk(e)
  <2>1. <<Set(e, "InferiorShutdownOk")>>
       \o IfMaster(e, <<Call(e, "queueShutdownEngine")>>) \in Seq(S)
    BY <1>1, <1>2, Lists DEF EngineWords, StateWords
  <2> QED BY <1>5, <2>1, MethodSpeaks DEF NotifyInferiorShutdownOk, S
<1>6. CASE NotifyInferiorShutdownFailed(e)
  <2>1. <<Set(e, "InferiorShutdownFailed")>>
       \o IfMaster(e, <<Call(e, "queueShutdownEngine")>>) \in Seq(S)
    BY <1>1, <1>2, Lists DEF EngineWords, StateWords
  <2> QED BY <1>6, <2>1, MethodSpeaks DEF NotifyInferiorShutdownFailed, S
<1>7. CASE ShutdownSlaveEngine(e)
  <2>1. <<Set(e, "EngineShutdownRequested"), Call(e, "shutdownEngine")>>
       \in Seq(S)
    BY <1>1, <1>2, Lists DEF EngineWords, StateWords
  <2> QED BY <1>7, <2>1, MethodSpeaks DEF ShutdownSlaveEngine, S
<1>8. CASE NotifyEngineShutdownOk(e)
  <2>1. "notifyEngineShutdownOk" \in W =>
       <<Set(e, "EngineShutdownOk"), Call(e, "queueFinishDebugger")>> \in Seq(S)
    BY <1>1, <1>2, Lists, <1>3 DEF EngineWords, StateWords, Ending, AllOrNone
  <2> QED BY <1>8, <2>1, MethodSpeaks DEF NotifyEngineShutdownOk, S
<1>9. CASE NotifyEngineIll(e)
  <2> DEFINE a == <<ForceState(e, "InferiorStopRequested"), Call(e, "interruptInferior")>>
             b == <<ForceState(e, "InferiorShutdownFailed")>>
                    \o IfMaster(e, <<Call(e, "queueShutdownEngine")>>)
             c == IfMaster(e, <<Call(e, "queueShutdownEngine")>>)
             body ==
               CASE state[e] \in {"InferiorRunRequested", "InferiorRunOk"} -> a
                 [] state[e] \in {"InferiorStopRequested", "InferiorStopOk"} -> b
                 [] OTHER -> c
  <2>a. a \in Seq(S)
    BY <1>1, <1>2, Lists DEF EngineWords, StateWords
  <2>b. b \in Seq(S)
    BY <1>1, <1>2, Lists DEF EngineWords, StateWords
  <2>c. c \in Seq(S)
    <3>1. c = <<Call(Gdb, "queueShutdownEngine")>>
      BY <1>1, Zenon
    <3> QED BY <1>2, <3>1, Lists DEF EngineWords
  <2> HIDE DEF a, b, c
  <2>1. a \in Seq(S) /\ b \in Seq(S) /\ c \in Seq(S)
    BY <2>a, <2>b, <2>c
  <2>2. DyingMethod(e, "notifyEngineIll", body)
    BY <1>9, Zenon DEF NotifyEngineIll, a, b, c
  <2>3. body \in Seq(S)
    BY <2>1
  <2> HIDE DEF body
  <2> QED BY <2>2, <2>3, DyingMethodSpeaks DEF S
<1>10. CASE NotifyEngineSpontaneousShutdown(e)
  <2>1. "notifyEngineSpontaneousShutdown" \in W =>
       <<ForceState(e, "EngineShutdownOk")>> \o IfMaster(e, <<Call(e, "queueFinishDebugger")>>) \in Seq(S)
    BY <1>1, <1>2, Lists, <1>3 DEF EngineWords, StateWords, Ending, AllOrNone
  <2> QED BY <1>10, <2>1, MethodSpeaks DEF NotifyEngineSpontaneousShutdown, S
<1> QED
  BY <1>4, <1>5, <1>6, <1>7, <1>8, <1>9, <1>10 DEF ShutDown

LEMMA QueueSpeaks ==
    ASSUME Alone, NEW W \in Stages, Speaks(W), NEW e \in Engines, Queue(e),
           UNCHANGED waiting
    PROVE  Speaks(W)'
<1> DEFINE S == Statements(W)
           Body(to, slot) == <<Set(e, to), Post(e, slot)>>
           Finish == <<Set(e, "DebuggerFinished")>>
                       \o IfMaster(e, <<Post(e, "doFinishDebugger")>>)
<1>1. e = Gdb /\ \A s : IfMaster(e, s) = s
  BY Alike
<1>2. /\ \A slot \in Slots : slot \in W => Post(Gdb, slot) \in S
      /\ \A to \in StateWords : Set(Gdb, to) \in S
      /\ {"doSetupInferior", "doRunEngine", "doShutdownEngine",
          "doShutdownInferior"} \subseteq W
  BY Vocabulary
<1>3. (\A w \in Launching : w \notin W) /\ AllOrNone(Ending, W)
  BY Stage
<1>4. /\ "queueSetupEngine" \notin W
      /\ "queueFinishDebugger" \in W => "doFinishDebugger" \in W
  BY <1>3 DEF Launching, Ending, AllOrNone
<1>5. "doFinishDebugger" \in W => Post(e, "doFinishDebugger") \in S
  BY <1>1, <1>2 DEF Slots
<1> HIDE DEF S
<1>6. /\ Body("InferiorSetupRequested", "doSetupInferior") \in Seq(S)
      /\ Body("EngineRunRequested", "doRunEngine") \in Seq(S)
      /\ Body("EngineShutdownRequested", "doShutdownEngine") \in Seq(S)
      /\ Body("InferiorShutdownRequested", "doShutdownInferior") \in Seq(S)
  BY <1>1, <1>2, Lists DEF Slots, StateWords
<1>7. "queueFinishDebugger" \in W => Finish \in Seq(S)
  BY <1>1, <1>2, <1>4, <1>5, Lists DEF StateWords
<1> HIDE DEF Body, Finish
<1>8. CASE Method(e, "queueSetupEngine",
     Body("EngineSetupRequested", "doSetupEngine"))
  BY <1>4, <1>8, MethodSpeaks
<1>9. CASE Method(e, "queueSetupInferior",
     Body("InferiorSetupRequested", "doSetupInferior"))
  BY <1>6, <1>9, MethodSpeaks DEF S
<1>10. CASE Method(e, "queueRunEngine",
     Body("EngineRunRequested", "doRunEngine"))
  BY <1>6, <1>10, MethodSpeaks DEF S
<1>11. CASE Method(e, "queueShutdownEngine",
     Body("EngineShutdownRequested", "doShutdownEngine"))
  BY <1>6, <1>11, MethodSpeaks DEF S
<1>12. CASE Method(e, "queueShutdownInferior",
     Body("InferiorShutdownRequested", "doShutdownInferior"))
  BY <1>6, <1>12, MethodSpeaks DEF S
<1>13. CASE Method(e, "queueFinishDebugger", Finish)
  BY <1>7, <1>13, MethodSpeaks DEF S
<1> QED
  BY <1>8, <1>9, <1>10, <1>11, <1>12, <1>13 DEF Queue, Body, Finish

(* The statement on top of the stack. *)
LEMMA OnTop ==
    ASSUME NEW W, Speaks(W), ~Idle
    PROVE  /\ Next1 = <<Gdb, Next1[2], Next1[3]>>
           /\ Next1[2] \in W /\ Next1[3] \in W /\ Fits(Next1)
           /\ calls # <<>> /\ Tail(calls) \in Seq(Statements(W))
<1>1. calls \in Seq(Statements(W)) /\ calls # <<>>
  BY DEF Speaks, Idle
<1>2. Next1 \in Statements(W) /\ Tail(calls) \in Seq(Statements(W))
  BY <1>1, Heads, Zenon DEF Next1
<1> QED
  BY <1>1, <1>2, StatementsOf, Zenon

LEMMA StateAndSlotSpeak ==
    ASSUME Alone, NEW W \in Stages, Speaks(W), NEW e \in Engines,
           SetState(e) \/ PostSlot(e), UNCHANGED waiting
    PROVE  Speaks(W)'
<1>1. Next1[3] \in W /\ calls # <<>> /\ Tail(calls) \in Seq(Statements(W))
  BY OnTop DEF SetState, PostSlot
<1>2. e = Gdb
  BY Alike
<1>3. CASE SetState(e)
  <2>1. state' \in [Engines -> W \union Stopping]
    BY <1>1, <1>3 DEF SetState, Speaks
  <2>2. calls' \in Seq(Statements(W))
    <3>1. <<>> \in Seq(Statements(W))
      OBVIOUS
    <3>2. e = Master
      BY <1>2 DEF Alone
    <3> QED BY <1>1, <1>3, <3>1, <3>2, Unfolded DEF SetState, Speaks
  <2> QED BY <1>3, <2>1, <2>2 DEF SetState, Speaks
<1>4. CASE PostSlot(e)
  <2>1. Next1[2] = "post" /\ Fits(Next1)
    BY <1>4, OnTop DEF PostSlot, Post
  <2>2. Next1[3] \in Slots \intersect W
    BY <1>1, <2>1 DEF Fits
  <2>3. Call(e, Next1[3]) \in SlotCalls(W)
    BY <1>2, <2>2 DEF SlotCalls
  <2>4. posted' \in Seq(SlotCalls(W))
    BY <1>4, <2>3 DEF PostSlot, Speaks
  <2> QED BY <1>1, <1>4, <2>4 DEF PostSlot, Speaks
<1> QED
  BY <1>3, <1>4

(* The steps that begin to speak of a stop.                                *)
SaysStop ==
    \/ NotifyInferiorIll(Gdb) /\ state[Gdb] = "InferiorRunRequested"
    \/ HandleStopResponse
    \/ HandleResultRecord /\ Head(output)[3] = "notMeaningful"

LEMMA NotCalm ==
    ASSUME NEW W \in Stages, W # CalmWords
    PROVE  Stopping \subseteq W
  BY DEF Stages, Harmless, GoneWords, LateWords

LEMMA QuittingSpeaks ==
    ASSUME Alone, NEW W \in Stages, Speaks(W), NEW e \in Engines,
           QuitDebugger(e) \/ NotifyInferiorIll(e) \/ DoShutdownEngine,
           SaysStop => W # CalmWords, UNCHANGED waiting
    PROVE  Speaks(W)'
<1> DEFINE S == Statements(W)
<1>1. e = Gdb /\ Master = Gdb
  BY DEF Alone
<1>2. /\ \A m \in EngineWords \union GdbWords : Call(Gdb, m) \in S
      /\ \A to \in StateWords : Set(Gdb, to) \in S
      /\ \A to \in W : Set(Gdb, to) \in S
      /\ \A m \in Ending \union Failing \union Stopping :
            m \in W => Call(Gdb, m) \in S
  BY Vocabulary
<1>3. AllOrNone(Failing, W)
  BY Stage
<1>4. state[e] \in W \union Stopping
  BY <1>1, GdbIsAnEngine DEF Speaks
<1> HIDE DEF S
<1>5. CASE QuitDebugger(e)
  <2> DEFINE a == <<Call(e, "queueShutdownInferior")>>
             b == <<Call(e, "doInterruptInferior")>>
             c == <<Call(e, "notifyEngineSetupFailed")>>
             d == <<Set(e, "InferiorSetupRequested"), Call(e, "notifyInferiorSetupFailed")>>
             f == <<Call(e, "notifyInferiorSetupFailed")>>
             g == <<Call(e, "notifyEngineRunFailed")>>
             h == <<Call(e, "notifyInferiorIll")>>
  <2>1. /\ a \in Seq(S) /\ b \in Seq(S) /\ d \in Seq(S) /\ f \in Seq(S)
        /\ g \in Seq(S) /\ h \in Seq(S) /\ <<>> \in Seq(S)
    BY <1>1, <1>2, Lists DEF EngineWords, StateWords
  <2>2. state[e] = "EngineSetupRequested" => c \in Seq(S)
    BY <1>1, <1>2, <1>3, <1>4, Lists DEF Failing, Stopping, AllOrNone
  <2> DEFINE body ==
        CASE state[e] \in {"InferiorStopOk", "InferiorStopFailed"} -> a
          [] state[e] = "InferiorRunOk" -> b
          [] state[e] = "EngineSetupRequested" -> c
          [] state[e] = "EngineSetupOk" -> d
          [] state[e] = "InferiorSetupRequested" -> f
          [] state[e] = "EngineRunRequested" -> g
          [] state[e] \in {"EngineShutdownRequested", "EngineRunFailed",
                           "DebuggerFinished"} -> <<>>
          [] OTHER -> h
  <2>3. DyingMethod(e, "quitDebugger", body)
    BY <1>5, Zenon DEF QuitDebugger
  <2> HIDE DEF a, b, c, d, f, g, h
  <2>4. body \in Seq(S)
    BY <2>1, <2>2
  <2> HIDE DEF body
  <2> QED BY <2>3, <2>4, DyingMethodSpeaks DEF S
<1>6. CASE NotifyInferiorIll(e)
  <2>1. state[e] = "InferiorRunRequested" => "InferiorStopOk" \in W
    BY <1>1, <1>6, NotCalm DEF SaysStop, Stopping
  <2>2. When(state[e] = "InferiorRunRequested",
             <<Set(e, "InferiorRunFailed"), Set(e, "InferiorStopOk")>>)
          \o <<Call(e, "queueShutdownInferior")>> \in Seq(S)
    BY <1>1, <1>2, <2>1, Lists DEF EngineWords, StateWords, When
  <2> QED BY <1>6, <2>2, DyingMethodSpeaks DEF NotifyInferiorIll, S
<1>7. CASE DoShutdownEngine
  <2>1. <<Call(Master, "shutdownEngine")>> \in Seq(S)
    BY <1>1, <1>2, Lists DEF EngineWords
  <2> QED BY <1>7, <2>1, DyingMethodSpeaks DEF DoShutdownEngine, S
<1> QED
  BY <1>5, <1>6, <1>7

LEMMA EndsSpeak ==
    ASSUME NEW W, Speaks(W), StartFailed \/ DoFinishDebugger,
           UNCHANGED waiting
    PROVE  Speaks(W)'
<1>1. ~Idle /\ Unfold(<<>>) /\ UNCHANGED <<state, posted>>
  BY DEF StartFailed, DoFinishDebugger, Enter
<1>2. calls \in Seq(Statements(W)) /\ calls # <<>> /\ <<>> \in Seq(Statements(W))
  BY <1>1 DEF Speaks, Idle
<1>3. calls' \in Seq(Statements(W))
  BY <1>1, <1>2, Unfolded
<1> QED
  BY <1>1, <1>3 DEF Speaks

----------------------------------------------------------------------------
(* The handlers of gdb, its output and the user.                           *)

LEMMA UnfoldSpeaks ==
    ASSUME NEW W, Speaks(W), ~Idle, NEW body \in Seq(Statements(W)),
           Unfold(body), waiting' \in Seq(CommandWords),
           UNCHANGED <<state, posted>>
    PROVE  Speaks(W)'
<1>1. calls \in Seq(Statements(W)) /\ calls # <<>>
  BY DEF Speaks, Idle
<1>2. calls' \in Seq(Statements(W))
  BY <1>1, Unfolded
<1> QED
  BY <1>2 DEF Speaks

LEMMA EventSpeaks ==
    ASSUME NEW W, Speaks(W), calls' \in Seq(Statements(W)),
           UNCHANGED <<state, posted, waiting>>
    PROVE  Speaks(W)'
  BY DEF Speaks

LEMMA CommandsSpeak ==
    ASSUME Alone, NEW W \in Stages, Speaks(W), Types,
           Flush \/ PostCommandHelper \/ FlushQueuedCommands
             \/ AttemptBreakpointSynchronization
    PROVE  Speaks(W)'
<1> DEFINE S == Statements(W)
<1>1. /\ \A m \in EngineWords \union GdbWords : Call(Gdb, m) \in S
      /\ \A cmd \in CommandWords : /\ PostCommand(cmd) \in S
                                   /\ FlushCommand(cmd) \in S
  BY Vocabulary
<1>2. ~Idle
  BY DEF Flush, PostCommandHelper, FlushQueuedCommands,
         AttemptBreakpointSynchronization, Enter
<1>3. /\ waiting \in Seq(CommandWords)
      /\ Flush \/ PostCommandHelper => Next1[3] \in CommandWords
  <2>1. Fits(Next1)
    BY <1>2, OnTop
  <2> QED BY <2>1 DEF Speaks, Flush, PostCommandHelper, FlushCommand, PostCommand, Fits
<1>4. UNCHANGED <<state, posted>>
  BY DEF Flush, PostCommandHelper, FlushQueuedCommands,
         AttemptBreakpointSynchronization, engineRest
<1> HIDE DEF S
<1>5. CASE Flush
  <2>1. <<>> \in Seq(S) /\ Unfold(<<>>) /\ waiting' = waiting
    BY <1>5, Lists DEF Flush
  <2> QED BY <1>2, <1>3, <1>4, <2>1, UnfoldSpeaks DEF S
<1>6. CASE PostCommandHelper
  <2> DEFINE cmd == Next1[3]
             temporarily == <<Call(Gdb, "interruptInferiorTemporarily")>>
             ill == <<Call(Gdb, "notifyInferiorIll")>>
             flush == <<FlushCommand(cmd)>>
  <2>1. /\ temporarily \in Seq(S) /\ ill \in Seq(S) /\ <<>> \in Seq(S)
        /\ flush \in Seq(S)
    BY <1>1, <1>3, <1>6, Lists DEF EngineWords, GdbWords
  <2>2. waiting' = waiting \/ waiting' = Append(waiting, cmd)
    BY <1>6 DEF PostCommandHelper
  <2>3. waiting' \in Seq(CommandWords)
    <3> HIDE DEF cmd
    <3>1. cmd \in CommandWords
      BY <1>3, <1>6 DEF cmd
    <3> QED BY <1>3, <2>2, <3>1
  <2>4. \/ Unfold(temporarily) \/ Unfold(ill) \/ Unfold(<<>>) \/ Unfold(flush)
    <3> HIDE DEF temporarily, ill, flush
    <3>1. \/ Unfold(<<>>) \/ Unfold(flush)
          \/ Unfold(CASE state[Gdb] = "InferiorRunOk" -> temporarily
                      [] state[Gdb] = "InferiorStopRequested" /\ cmd \in LosesChild -> ill
                      [] OTHER -> <<>>)
      BY <1>6, Zenon DEF PostCommandHelper, temporarily, ill, flush
    <3> QED BY <3>1
  <2> QED BY <1>2, <1>4, <2>1, <2>3, <2>4, UnfoldSpeaks, Zenon DEF S
<1>7. CASE FlushQueuedCommands
  <2> DEFINE body == [i \in DOMAIN waiting |-> FlushCommand(waiting[i])]
  <2>1. Unfold(body) /\ waiting' = <<>>
    BY <1>7 DEF FlushQueuedCommands
  <2>2. DOMAIN waiting = 1..Len(waiting) /\ Len(waiting) \in Nat
        /\ \A i \in DOMAIN waiting : waiting[i] \in CommandWords
    BY <1>3
  <2>3. body \in [1..Len(waiting) -> S]
    BY <1>1, <2>2
  <2>4. body \in Seq(S)
    <3> HIDE DEF body
    <3> QED BY <2>2, <2>3, SeqType
  <2>5. waiting' \in Seq(CommandWords)
    BY <2>1
  <2> QED BY <1>2, <1>4, <2>1, <2>4, <2>5, UnfoldSpeaks DEF S
<1>8. CASE AttemptBreakpointSynchronization
  <2> DEFINE body == [i \in 1..toInsert |-> PostCommand("break")]
  <2>1. Unfold(body) \/ Unfold(<<>>)
    BY <1>8 DEF AttemptBreakpointSynchronization
  <2>2. toInsert \in Nat
    BY DEF Types
  <2>3. PostCommand("break") \in S
    BY <1>1 DEF CommandWords
  <2>4. body \in [1..toInsert -> S]
    BY <2>3
  <2>5. body \in Seq(S) /\ <<>> \in Seq(S)
    <3> HIDE DEF body
    <3> QED BY <2>2, <2>4, SeqType, Lists
  <2>6. waiting' = waiting
    BY <1>8 DEF AttemptBreakpointSynchronization
  <2> HIDE DEF body
  <2> QED BY <1>2, <1>3, <1>4, <2>1, <2>5, <2>6, UnfoldSpeaks DEF S
<1> QED
  BY <1>5, <1>6, <1>7, <1>8

LEMMA GdbMethodSpeaks ==
    ASSUME NEW W, Speaks(W), NEW m, NEW body, GdbMethod(m, body),
           body \in Seq(Statements(W))
    PROVE  Speaks(W)'
<1>1. Method(Gdb, m, body) /\ UNCHANGED waiting
  BY DEF GdbMethod, gdbVars
<1> QED
  BY <1>1, MethodSpeaks

LEMMA GdbMethodsSpeak ==
    ASSUME Alone, NEW W \in Stages, Speaks(W),
           \/ InterruptInferiorTemporarily \/ SetupInferior \/ RunEngine
           \/ ContinueInferior \/ InterruptForQueued \/ HandleInferiorPrepared
           \/ FinishInferiorSetup
    PROVE  Speaks(W)'
<1> DEFINE S == Statements(W)
<1>1. /\ \A m \in EngineWords \union GdbWords : Call(Gdb, m) \in S
      /\ \A cmd \in CommandWords : PostCommand(cmd) \in S
  BY Vocabulary
<1> HIDE DEF S
<1>2. CASE InterruptInferiorTemporarily
  <2>1. <<Call(Gdb, "notifyInferiorIll")>>
       \in Seq(S) /\ <<Call(Gdb, "doInterruptInferior")>> \in Seq(S)
    BY <1>1, Lists DEF EngineWords
  <2>2. \/ GdbMethod("interruptInferiorTemporarily", <<Call(Gdb, "notifyInferiorIll")>>)
        \/ GdbMethod("interruptInferiorTemporarily", <<Call(Gdb, "doInterruptInferior")>>)
    BY <1>2, Zenon DEF InterruptInferiorTemporarily
  <2> QED BY <2>1, <2>2, GdbMethodSpeaks, Zenon DEF S
<1>3. CASE SetupInferior
  <2>1. <<PostCommand("file")>> \in Seq(S)
    BY <1>1, Lists DEF CommandWords
  <2> QED BY <1>3, <2>1, GdbMethodSpeaks DEF SetupInferior, S
<1>4. CASE RunEngine
  <2>1. <<PostCommand("run")>> \in Seq(S)
    BY <1>1, Lists DEF CommandWords
  <2> QED BY <1>4, <2>1, GdbMethodSpeaks DEF RunEngine, S
<1>5. CASE ContinueInferior
  <2>1. <<Call(Gdb, "notifyInferiorRunRequested"), PostCommand("continue")>>
       \in Seq(S)
    BY <1>1, Lists DEF CommandWords, EngineWords
  <2>2. PICK method : GdbMethod(method, <<Call(Gdb, "notifyInferiorRunRequested"),
                                         PostCommand("continue")>>)
    BY <1>5 DEF ContinueInferior
  <2> QED BY <2>1, <2>2, GdbMethodSpeaks DEF S
<1>6. CASE InterruptForQueued
  <2>1. <<Call(Gdb, "interruptInferiorTemporarily")>>
       \in Seq(S) /\ <<>> \in Seq(S)
    BY <1>1, Lists DEF GdbWords
  <2>2. \/ GdbMethod("interruptForQueued", <<Call(Gdb, "interruptInferiorTemporarily")>>)
        \/ GdbMethod("interruptForQueued", <<>>)
    BY <1>6, Zenon DEF InterruptForQueued
  <2> QED BY <2>1, <2>2, GdbMethodSpeaks, Zenon DEF S
<1>7. CASE HandleInferiorPrepared
  <2>1. <<Call(Gdb, "attemptBreakpointSynchronization"), Call(Gdb, "finishWhenDone")>>
       \in Seq(S)
    BY <1>1, Lists DEF GdbWords
  <2> QED BY <1>7, <2>1, GdbMethodSpeaks DEF HandleInferiorPrepared, S
<1>8. CASE FinishInferiorSetup
  <2>1. <<PostCommand("msymbols")>> \in Seq(S)
    BY <1>1, Lists DEF CommandWords
  <2> QED BY <1>8, <2>1, GdbMethodSpeaks DEF FinishInferiorSetup, S
<1> QED
  BY <1>2, <1>3, <1>4, <1>5, <1>6, <1>7, <1>8

LEMMA GdbRequestsSpeak ==
    ASSUME Alone, NEW W \in Stages, Speaks(W), Types,
           gdb = "NotRunning" => W # Harmless,
           \/ SetupEngine \/ InterruptInferior \/ ShutdownInferior
           \/ ShutdownEngine \/ AbortDebugger \/ CommandsDone
           \/ FinishWhenDone \/ ContinueWhenDone
    PROVE  Speaks(W)'
<1> DEFINE S == Statements(W)
<1>1. /\ \A m \in EngineWords \union GdbWords : Call(Gdb, m) \in S
      /\ \A cmd \in CommandWords : PostCommand(cmd) \in S
      /\ \A m \in Ending : m \in W => Call(Gdb, m) \in S
  BY Vocabulary
<1>2. ~Idle
  BY DEF SetupEngine, InterruptInferior, ShutdownInferior, ShutdownEngine,
         AbortDebugger, CommandsDone, FinishWhenDone, ContinueWhenDone, Enter
<1>3. UNCHANGED <<state, posted>>
  BY DEF SetupEngine, InterruptInferior, ShutdownInferior, ShutdownEngine,
         AbortDebugger, CommandsDone, FinishWhenDone, ContinueWhenDone,
         engineRest
<1>4. ~SetupEngine
  <2>1. "setupEngine" \notin W
    BY Stage DEF Launching
  <2> QED BY <2>1, Entered DEF SetupEngine
<1>5. waiting' \in Seq(CommandWords)
  <2>1. waiting' = waiting \/ waiting' = <<>>
    BY <1>4 DEF InterruptInferior, ShutdownInferior, ShutdownEngine,
         AbortDebugger, CommandsDone, FinishWhenDone, ContinueWhenDone
  <2>2. waiting \in Seq(CommandWords) /\ <<>> \in Seq(CommandWords)
    BY Lists DEF Speaks
  <2> QED BY <2>1, <2>2, Zenon
<1> HIDE DEF S
<1>6. <<>> \in Seq(S)
  BY Lists
<1>7. CASE InterruptInferior
  <2>1. <<Call(Gdb, "notifyInferiorStopFailed")>> \in Seq(S)
    BY <1>1, Lists DEF EngineWords
  <2>2. Unfold(<<>>) \/ Unfold(<<Call(Gdb, "notifyInferiorStopFailed")>>)
    BY <1>7, Zenon DEF InterruptInferior
  <2> QED BY <1>2, <1>3, <1>5, <1>6, <2>1, <2>2, UnfoldSpeaks, Zenon DEF S
<1>8. CASE ShutdownInferior
  <2>1. <<PostCommand("kill")>> \in Seq(S)
    BY <1>1, Lists DEF CommandWords
  <2>2. Unfold(<<PostCommand("kill")>>)
    BY <1>8 DEF ShutdownInferior
  <2> QED BY <1>2, <1>3, <1>5, <2>1, <2>2, UnfoldSpeaks, Zenon DEF S
<1>9. CASE ShutdownEngine
  <2>1. CASE gdb = "NotRunning"
    <3>1. "notifyEngineShutdownOk" \in W
      BY <2>1 DEF Stages, GoneWords, LateWords, CalmWords, Ending
    <3>2. <<Call(Gdb, "notifyEngineShutdownOk")>> \in Seq(S)
      BY <1>1, <3>1, Lists DEF Ending
    <3>3. Unfold(<<Call(Gdb, "notifyEngineShutdownOk")>>)
      BY <1>9, <2>1, Zenon DEF ShutdownEngine
    <3> QED BY <1>2, <1>3, <1>5, <3>2, <3>3, UnfoldSpeaks, Zenon DEF S
  <2>2. CASE gdb # "NotRunning"
    <3>1. <<PostCommand("exit")>> \in Seq(S)
      BY <1>1, Lists DEF CommandWords
    <3>2. Unfold(<<PostCommand("exit")>>)
      BY <1>9, <2>2, Zenon DEF ShutdownEngine
    <3> QED BY <1>2, <1>3, <1>5, <3>1, <3>2, UnfoldSpeaks, Zenon DEF S
  <2> QED BY <2>1, <2>2
<1>10. CASE AbortDebugger
  <2>1. <<Call(Gdb, "quitDebugger")>> \in Seq(S)
    BY <1>1, Lists DEF EngineWords
  <2>2. Unfold(<<>>) \/ Unfold(<<Call(Gdb, "quitDebugger")>>)
    BY <1>10, Zenon DEF AbortDebugger
  <2> QED BY <1>2, <1>3, <1>5, <1>6, <2>1, <2>2, UnfoldSpeaks, Zenon DEF S
<1>11. CASE CommandsDone
  <2>1. Unfold(<<>>) \/ (whenDone # "" /\ Unfold(<<Call(Gdb, whenDone)>>))
    BY <1>11, Zenon DEF CommandsDone
  <2>2. whenDone # "" => <<Call(Gdb, whenDone)>> \in Seq(S)
    BY <1>1, Lists DEF Types, GdbWords
  <2> QED BY <1>2, <1>3, <1>5, <1>6, <2>1, <2>2, UnfoldSpeaks, Zenon DEF S
<1>12. CASE FinishWhenDone
  <2>1. <<Call(Gdb, "finishInferiorSetup")>> \in Seq(S)
    BY <1>1, Lists DEF GdbWords
  <2>2. Unfold(<<>>) \/ Unfold(<<Call(Gdb, "finishInferiorSetup")>>)
    BY <1>12, Zenon DEF FinishWhenDone
  <2> QED BY <1>2, <1>3, <1>5, <1>6, <2>1, <2>2, UnfoldSpeaks, Zenon DEF S
<1>13. CASE ContinueWhenDone
  <2>1. Unfold(<<>>)
    BY <1>13 DEF ContinueWhenDone
  <2> QED BY <1>2, <1>3, <1>5, <1>6, <2>1, UnfoldSpeaks, Zenon DEF S
<1> QED
  BY <1>4, <1>7, <1>8, <1>9, <1>10, <1>11, <1>12, <1>13

LEMMA CallbackSpeaks ==
    ASSUME NEW S, \A m \in EngineWords \union GdbWords : Call(Gdb, m) \in S,
           NEW cmd, NEW class,
           class = "notMeaningful" => Call(Gdb, "notifyInferiorRunFailed") \in S
    PROVE  Callback(cmd, class) \in Seq(S)
<1>1. <<>>
     \in Seq(S) /\ \A m \in EngineWords \union GdbWords : <<Call(Gdb, m)>> \in Seq(S)
  BY Lists
<1> DEFINE a == <<Call(Gdb, "handleInferiorPrepared")>>
           b == <<Call(Gdb, "notifyInferiorSetupFailed")>>
           c == <<Call(Gdb, "notifyInferiorSetupOk")>>
           d == <<Call(Gdb, "notifyEngineRunAndInferiorRunOk")>>
           f == <<Call(Gdb, "notifyEngineRunFailed")>>
           g == <<Call(Gdb, "notifyInferiorShutdownOk")>>
           h == <<Call(Gdb, "notifyInferiorShutdownFailed")>>
           k == <<Call(Gdb, "notifyInferiorExited")>>
           l == <<Call(Gdb, "notifyInferiorRunOk")>>
           m == <<Call(Gdb, "notifyInferiorRunFailed")>>
           n == <<Call(Gdb, "notifyInferiorIll")>>
<1>2. /\ a \in Seq(S) /\ b \in Seq(S) /\ c \in Seq(S) /\ d \in Seq(S)
      /\ f \in Seq(S) /\ g \in Seq(S) /\ h \in Seq(S) /\ k \in Seq(S)
  BY <1>1 DEF EngineWords, GdbWords
<1>3. l \in Seq(S) /\ n \in Seq(S)
  BY <1>1 DEF EngineWords
<1>8. class = "notMeaningful" => m \in Seq(S)
  BY Lists
<1>4. HandleExecuteContinue(class) = CASE class = "running" -> l
                                       [] class = "notMeaningful" -> m
                                       [] OTHER -> n
  BY Zenon DEF HandleExecuteContinue
<1>5. HandleExecuteContinue(class) \in Seq(S)
  <2> HIDE DEF l, m, n
  <2> QED BY <1>3, <1>4, <1>8
<1>6. Callback(cmd, class) =
        CASE cmd = "file" /\ class = "done" -> a
          [] cmd = "file" /\ class # "done" -> b
          [] cmd = "msymbols" -> c
          [] cmd = "run" /\ class = "running" -> d
          [] cmd = "run" /\ class # "running" -> f
          [] cmd \in {"continue", "finish"} -> HandleExecuteContinue(class)
          [] cmd = "kill" /\ class = "done" -> g
          [] cmd = "kill" /\ class # "done" -> h
          [] cmd = "detach" -> k
          [] OTHER -> <<>>
  BY Zenon DEF Callback
<1>7. <<>> \in Seq(S)
  BY <1>1
<1> HIDE DEF a, b, c, d, f, g, h, k
<1> QED
  BY <1>2, <1>5, <1>6, <1>7

LEMMA OutputSpeaks ==
    ASSUME Alone, NEW W \in Stages, Speaks(W), GdbOutput,
           HandleGdbFinished => W # Harmless, SaysStop => W # CalmWords
    PROVE  Speaks(W)'
<1> DEFINE S == Statements(W)
<1>1. /\ \A m \in EngineWords \union GdbWords : Call(Gdb, m) \in S
      /\ \A m \in Ending \union Stopping : m \in W => Call(Gdb, m) \in S
  BY Vocabulary
<1> HIDE DEF S
<1>2. UNCHANGED <<state, posted, waiting>>
  BY DEF GdbOutput, HandleResultRecord, HandleStopResponse,
         HandleGdbFinished, engineRest
<1>3. /\ <<>> \in Seq(S)
      /\ \A m \in EngineWords \union GdbWords : <<Call(Gdb, m)>> \in Seq(S)
  BY <1>1, Lists
<1>4. CASE HandleResultRecord
  <2> DEFINE callback == Callback(Head(output)[2], Head(output)[3])
             resync == <<Call(Gdb, "attemptBreakpointSynchronization")>>
             end == <<Call(Gdb, "interruptForQueued"), Call(Gdb, "commandsDone")>>
  <2>1. callback \in Seq(S)
    <3>1. Head(output)[3] = "notMeaningful" =>
            Call(Gdb, "notifyInferiorRunFailed") \in S
      BY <1>1, <1>4, NotCalm DEF SaysStop, Stopping
    <3> QED BY <1>1, <3>1, CallbackSpeaks
  <2>2. end \in Seq(S) /\ resync \in Seq(S)
    BY <1>1, Lists DEF GdbWords
  <2>3. \E b : calls' = callback \o When(b, resync) \o end
    BY <1>4 DEF HandleResultRecord
  <2> HIDE DEF callback, resync, end
  <2>4. calls' = (callback \o resync) \o end \/ calls' = (callback \o <<>>) \o end
    BY <2>3, Zenon DEF When
  <2>5. /\ (callback \o resync) \o end \in Seq(S)
        /\ (callback \o <<>>) \o end \in Seq(S)
    BY <1>3, <2>1, <2>2, Lists
  <2>6. calls' \in Seq(S)
    BY <2>4, <2>5, Zenon
  <2> QED BY <1>2, <2>6, EventSpeaks DEF S
<1>5. CASE HandleStopResponse
  <2> DEFINE a == <<Call(Gdb, "notifyInferiorStopOk")>>
             b == <<Call(Gdb, "notifyInferiorExited")>>
             c == <<Call(Gdb, "notifyInferiorStopOk"), Call(Gdb, "flushQueuedCommands"),
                    Call(Gdb, "continueWhenDone")>>
             d == <<Call(Gdb, "notifyInferiorSpontaneousStop")>>
             f == <<Call(Gdb, "notifyInferiorRunOk"),
                    Call(Gdb, "notifyInferiorSpontaneousStop")>>
  <2>0. /\ Call(Gdb, "notifyInferiorStopOk") \in S
        /\ Call(Gdb, "notifyInferiorSpontaneousStop") \in S
    BY <1>1, <1>5, NotCalm DEF SaysStop, Stopping
  <2>1. /\ a \in Seq(S) /\ b \in Seq(S) /\ c \in Seq(S) /\ d \in Seq(S)
        /\ f \in Seq(S)
    BY <1>1, <2>0, Lists DEF EngineWords, GdbWords
  <2>2. calls' =
         IF state[Gdb] = "InferiorSetupRequested" THEN <<>>
         ELSE IF Gdb \in dying THEN a
         ELSE IF Head(output)[2] = "exited" THEN b
         ELSE IF waiting # <<>> THEN c
         ELSE IF state[Gdb] = "InferiorRunOk" THEN d
         ELSE IF state[Gdb] = "InferiorRunRequested" THEN f
         ELSE a
    BY <1>5, Zenon DEF HandleStopResponse
  <2> HIDE DEF a, b, c, d, f
  <2>3. calls' \in Seq(S)
    BY <1>3, <2>1, <2>2
  <2> QED BY <1>2, <2>3, EventSpeaks DEF S
<1>6. CASE HandleGdbFinished
  <2> DEFINE a == <<Call(Gdb, "notifyEngineShutdownOk")>>
             b == <<Call(Gdb, "notifyEngineSpontaneousShutdown")>>
             c == <<Call(Gdb, "notifyEngineIll")>>
  <2>1. "notifyEngineShutdownOk" \in W /\ "notifyEngineSpontaneousShutdown" \in W
    BY <1>6 DEF Stages, GoneWords, LateWords, CalmWords, Ending
  <2>2. a \in Seq(S) /\ b \in Seq(S) /\ c \in Seq(S)
    BY <1>1, <2>1, Lists DEF EngineWords, Ending
  <2>3. calls' = CASE state[Gdb] = "EngineShutdownRequested" -> a
                   [] state[Gdb] = "InferiorRunOk" -> b
                   [] OTHER -> c
    BY <1>6, Zenon DEF HandleGdbFinished
  <2> HIDE DEF a, b, c
  <2>4. calls' \in Seq(S)
    BY <2>2, <2>3
  <2> QED BY <1>2, <2>4, EventSpeaks DEF S
<1> QED
  BY <1>4, <1>5, <1>6 DEF GdbOutput

LEMMA UserSpeaks ==
    ASSUME Alone, NEW W \in Stages, Speaks(W), User
    PROVE  Speaks(W)'
<1> DEFINE S == Statements(W)
<1>1. /\ \A m \in EngineWords \union GdbWords : Call(Gdb, m) \in S
      /\ \A cmd \in CommandWords : PostCommand(cmd) \in S
  BY Vocabulary
<1>2. Master = Gdb
  BY DEF Alone
<1> HIDE DEF S
<1>3. /\ <<Call(Gdb, "continueInferior")>> \in Seq(S)
      /\ <<Call(Gdb, "doInterruptInferior")>> \in Seq(S)
      /\ <<Call(Gdb, "quitDebugger")>> \in Seq(S)
      /\ <<Call(Gdb, "abortDebugger")>> \in Seq(S)
      /\ <<Call(Gdb, "attemptBreakpointSynchronization")>> \in Seq(S)
  BY <1>1, Lists DEF EngineWords, GdbWords
<1>4. /\ <<Call(Gdb, "notifyInferiorRunRequested"), PostCommand("finish")>>
     \in Seq(S)
      /\ <<PostCommand("detach")>> \in Seq(S)
  BY <1>1, Lists DEF EngineWords, CommandWords
<1>5. UNCHANGED <<state, posted, waiting>>
  BY DEF User, UserContinues, ExecuteStepOut, UserInterrupts, DetachDebugger,
         UserQuits, UserAborts, UserAddsBreakpoint, UserActs, engineRest
<1>6. calls' \in Seq(S)
  <2>1. \/ calls' = <<Call(Gdb, "continueInferior")>>
        \/ calls' = <<Call(Gdb, "doInterruptInferior")>>
        \/ calls' = <<Call(Gdb, "quitDebugger")>>
        \/ calls' = <<Call(Gdb, "abortDebugger")>>
        \/ calls' = <<Call(Gdb, "attemptBreakpointSynchronization")>>
        \/ calls' = <<Call(Gdb, "notifyInferiorRunRequested"), PostCommand("finish")>>
        \/ calls' = <<PostCommand("detach")>>
    BY <1>2, Zenon DEF User, UserContinues, ExecuteStepOut, UserInterrupts,
         DetachDebugger, UserQuits, UserAborts, UserAddsBreakpoint, UserActs
  <2> QED BY <1>3, <1>4, <2>1, Zenon
<1> QED
  BY <1>5, <1>6, EventSpeaks DEF S

LEMMA PostedSpeaks ==
    ASSUME NEW W \in Stages, Speaks(W), RunPosted, UNCHANGED waiting
    PROVE  Speaks(W)'
<1> DEFINE S == Statements(W)
           P == SlotCalls(W)
<1>1. \A s \in P : s \in S
  BY Vocabulary DEF SlotCalls
<1> HIDE DEF S, P
<1>2. posted \in Seq(P) /\ posted # <<>>
  BY DEF Speaks, RunPosted, P
<1>3. Head(posted) \in P /\ Tail(posted) \in Seq(P)
  BY <1>2, Heads
<1>4. calls' = <<Head(posted)>> /\ posted' = Tail(posted)
  BY DEF RunPosted, Event
<1>5. calls' \in Seq(S) /\ posted' \in Seq(P)
  BY <1>1, <1>3, <1>4, Lists
<1> QED
  BY <1>5 DEF Speaks, RunPosted, S, P

----------------------------------------------------------------------------
(* Steps.                                                                  *)

(* What gdb and its program do by themselves.                              *)
Outside == GdbProcess \/ Program \/ GdbDies

LEMMA OutsideStep ==
    ASSUME Outside
    PROVE  /\ UNCHANGED <<state, dying, calls, posted, runControl, waiting,
                          whenDone, toInsert>>
           /\ gdb = "Running" /\ gdb' \in {"Running", "Ended"}
<1>1. CASE GdbAnswers
  <2>1. PICK cmd, class, becomes : Answers(cmd, class, becomes)
    BY <1>1 DEF GdbAnswers
  <2> QED BY <2>1 DEF Answers, engineVars
<1>2. CASE ProgramIsInterrupted \/ Program
  <2>1. PICK why, becomes : Stops(why, becomes)
    BY <1>2 DEF ProgramIsInterrupted, Program, ProgramHitsBreakpoint,
         ProgramExits
  <2> QED BY <2>1 DEF Stops, engineVars
<1>3. CASE GdbDies
  BY <1>3 DEF GdbDies, Die, engineVars
<1> QED
  BY <1>1, <1>2, <1>3 DEF Outside, GdbProcess

(* A step without a running handler is one of the event loop, of the user  *)
(* or from outside, only two handlers speak to the run control, and only   *)
(* setState() changes the state.                                           *)
Steady == ~Idle /\ UNCHANGED <<state, runControl>>

LEMMA Inside ==
    ASSUME Handlers
    PROVE  /\ ~Idle
           /\ UNCHANGED runControl \/ StartFailed \/ DoFinishDebugger
           /\ UNCHANGED state \/ \E e \in Engines : SetState(e)
<1>1. ASSUME NEW e, NEW m, NEW body, Method(e, m, body) \/ DyingMethod(e, m, body)
      PROVE  Steady
  BY <1>1 DEF Method, DyingMethod, Enter, Steady
<1>2. ASSUME NEW m, NEW body, GdbMethod(m, body)
      PROVE  Steady
  BY <1>1, <1>2 DEF GdbMethod
<1>3. ASSUME NEW e, InsideHandler(e)
      PROVE  Steady \/ SetState(e)
  <2>1. PostSlot(e) => Steady
    BY DEF PostSlot, Steady
  <2>2. Queue(e) => Steady
    BY <1>1 DEF Queue
  <2>3. SetUp(e) => Steady
    BY <1>1 DEF SetUp, DoSetupEngine, NotifyEngineSetupFailed,
         NotifyEngineSetupOk,
         DoSetupInferior, NotifyInferiorSetupFailed, NotifyInferiorSetupOk,
         DoRunEngine, NotifyEngineRunFailed
  <2>4. RunAndStop(e) => Steady
    BY <1>1 DEF RunAndStop, NotifyEngineRunAndInferiorRunOk,
         NotifyInferiorRunRequested,
         NotifyInferiorRunOk, NotifyInferiorRunFailed, ShutdownInferiorIfDying,
         NotifyInferiorStopOk, ShutdownInferiorIfStopped,
         NotifyInferiorSpontaneousStop,
         NotifyInferiorStopFailed, DoInterruptInferior, NotifyInferiorExited
  <2>5. ShutDown(e) => Steady
    BY <1>1 DEF ShutDown, DoShutdownInferior, NotifyInferiorShutdownOk,
         NotifyInferiorShutdownFailed, ShutdownSlaveEngine,
         NotifyEngineShutdownOk,
         NotifyEngineIll, NotifyEngineSpontaneousShutdown
  <2> QED BY <1>3, <2>1, <2>2, <2>3, <2>4, <2>5 DEF InsideHandler
<1>4. ASSUME NEW e, QuitDebugger(e) \/ NotifyInferiorIll(e)
      PROVE  Steady
  BY <1>1, <1>4 DEF QuitDebugger, NotifyInferiorIll
<1>5. /\ DoShutdownEngine => Steady
      /\ StartFailed \/ DoFinishDebugger => ~Idle /\ UNCHANGED state
  BY <1>1 DEF StartFailed, DoFinishDebugger, DoShutdownEngine, Enter
<1>7. ASSUME NEW e, SetState(e)
      PROVE  ~Idle /\ UNCHANGED runControl
  BY <1>7 DEF SetState
<1>6. GdbHandlers => Steady
  <2>1. ASSUME \/ InterruptInferiorTemporarily \/ SetupInferior \/ RunEngine
               \/ ContinueInferior \/ InterruptForQueued \/ HandleInferiorPrepared
               \/ FinishInferiorSetup
        PROVE  Steady
    BY <1>2, <2>1 DEF InterruptInferiorTemporarily, SetupInferior, RunEngine,
         ContinueInferior, InterruptForQueued, HandleInferiorPrepared,
         FinishInferiorSetup
  <2>2. ASSUME \/ Flush \/ PostCommandHelper \/ FlushQueuedCommands
               \/ AttemptBreakpointSynchronization \/ SetupEngine \/ InterruptInferior
               \/ ShutdownInferior \/ ShutdownEngine \/ AbortDebugger \/ CommandsDone
               \/ FinishWhenDone \/ ContinueWhenDone
        PROVE  Steady
    BY <2>2 DEF Flush, PostCommandHelper, FlushQueuedCommands,
         AttemptBreakpointSynchronization, SetupEngine, InterruptInferior,
         ShutdownInferior, ShutdownEngine, AbortDebugger, CommandsDone,
         FinishWhenDone, ContinueWhenDone, Enter, engineRest, Steady
  <2> QED BY <2>1, <2>2 DEF GdbHandlers
<1> QED
  BY <1>3, <1>4, <1>5, <1>6, <1>7 DEF Handlers, Steady

LEMMA Outer ==
    ASSUME EventLoop \/ User
    PROVE  Idle
  BY DEF EventLoop, StartDebugger, RunPosted, Event, GdbOutput,
         HandleResultRecord, HandleStopResponse, HandleGdbFinished, Reads,
         User, UserContinues, ExecuteStepOut, UserInterrupts, DetachDebugger,
         UserQuits, UserAborts, UserAddsBreakpoint, UserActs, May

(* A session whose setup is done keeps to the words of its stage.          *)
LEMMA StepSpeaks ==
    ASSUME Alone, NEW W \in Stages, Speaks(W), Types, Next,
           runControl # "ready",
           gdb = "NotRunning" \/ HandleGdbFinished => W # Harmless,
           SaysStop => W # CalmWords
    PROVE  Speaks(W)'
<1>1. CASE Handlers
  <2>1. CASE GdbHandlers
    BY <2>1, CommandsSpeak, GdbMethodsSpeak, GdbRequestsSpeak DEF GdbHandlers
  <2>2. ASSUME NEW e \in Engines,
               InsideHandler(e) \/ QuitDebugger(e) \/ NotifyInferiorIll(e),
               UNCHANGED waiting
        PROVE  Speaks(W)'
    BY <2>2, StateAndSlotSpeak, QueueSpeaks, SetUpSpeaks, RunAndStopSpeaks,
       ShutDownSpeaks, QuittingSpeaks DEF InsideHandler
  <2>3. CASE (StartFailed \/ DoFinishDebugger \/ DoShutdownEngine) /\ UNCHANGED waiting
    BY <2>3, EndsSpeak, QuittingSpeaks, GdbIsAnEngine
  <2> QED BY <1>1, <2>1, <2>2, <2>3 DEF Handlers, gdbVars
<1>2. CASE EventLoop
  <2>1. CASE RunPosted /\ UNCHANGED waiting
    BY <2>1, PostedSpeaks
  <2>2. CASE GdbOutput
    BY <2>2, OutputSpeaks
  <2> QED BY <1>2, <2>1, <2>2 DEF EventLoop, StartDebugger, gdbVars
<1>3. CASE User
  BY <1>3, UserSpeaks
<1>4. CASE Outside
  BY <1>4, OutsideStep DEF Speaks
<1> QED
  BY <1>1, <1>2, <1>3, <1>4 DEF Next, Outside

LEMMA Steps ==
    ASSUME Next
    PROVE  \/ UNCHANGED runControl
           \/ StartDebugger \/ StartFailed \/ DoFinishDebugger
<1>1. User => UNCHANGED runControl
  BY DEF User, UserContinues, ExecuteStepOut, UserInterrupts, DetachDebugger,
         UserQuits, UserAborts, UserAddsBreakpoint, UserActs, engineRest
<1>2. GdbOutput => UNCHANGED runControl
  BY DEF GdbOutput, HandleResultRecord, HandleStopResponse, HandleGdbFinished,
         engineRest
<1>3. RunPosted => UNCHANGED runControl
  BY DEF RunPosted
<1>4. Outside => UNCHANGED runControl
  BY OutsideStep
<1> QED
  BY <1>1, <1>2, <1>3, <1>4, Inside DEF Next, EventLoop, Outside

(* Types, and when gdb comes and goes.                                     *)
LEMMA TypesStep ==
    ASSUME Types, Next
    PROVE  /\ Types'
           /\ gdb' = gdb \/ gdb' = "NotRunning" \/ SetupEngine
              \/ (gdb = "Running" /\ gdb' = "Ended")
<1> DEFINE Rest == /\ whenDone' \in {whenDone, "", "autoContinueInferior",
                                     "finishInferiorSetup"}
                   /\ toInsert' \in {toInsert, 0, toInsert + 1}
           Process == \/ gdb' = gdb \/ gdb' = "NotRunning"
                      \/ gdb' = "Running" /\ SetupEngine
                      \/ gdb = "Running" /\ gdb' = "Ended"
<1>6. Rest /\ Process
  <2>1. UNCHANGED gdbVars => Rest /\ Process
    BY DEF gdbVars
  <2>2. CASE GdbHandlers
    <3>1. CASE \/ InterruptInferiorTemporarily \/ SetupInferior \/ RunEngine
               \/ ContinueInferior \/ InterruptForQueued \/ HandleInferiorPrepared
               \/ FinishInferiorSetup
      BY <2>1, <3>1 DEF InterruptInferiorTemporarily, SetupInferior, RunEngine,
           ContinueInferior, InterruptForQueued, HandleInferiorPrepared,
           FinishInferiorSetup, GdbMethod
    <3>2. CASE \/ Flush \/ PostCommandHelper \/ FlushQueuedCommands
               \/ AttemptBreakpointSynchronization
      BY <3>2 DEF Flush, PostCommandHelper, FlushQueuedCommands,
           AttemptBreakpointSynchronization, processes
    <3>3. CASE \/ InterruptInferior \/ ShutdownInferior \/ ShutdownEngine
               \/ CommandsDone \/ FinishWhenDone \/ ContinueWhenDone
      BY <3>3 DEF InterruptInferior, ShutdownInferior, ShutdownEngine,
           CommandsDone, FinishWhenDone, ContinueWhenDone, processes
    <3>4. CASE AbortDebugger \/ SetupEngine
      BY <3>4 DEF AbortDebugger, SetupEngine, Die
    <3> QED BY <2>2, <3>1, <3>2, <3>3, <3>4 DEF GdbHandlers
  <2>3. CASE GdbOutput
    BY <2>3 DEF GdbOutput, HandleResultRecord, HandleStopResponse,
         HandleGdbFinished, processes
  <2>4. CASE User
    BY <2>4 DEF User, UserContinues, ExecuteStepOut, UserInterrupts,
         DetachDebugger, UserQuits, UserAborts, UserAddsBreakpoint, UserActs,
         processes
  <2>5. CASE Outside
    <3>1. /\ whenDone' = whenDone /\ toInsert' = toInsert
          /\ gdb = "Running" /\ gdb' \in {"Running", "Ended"}
      BY <2>5, OutsideStep
    <3>2. Rest
      BY <3>1
    <3>3. Process
      BY <3>1
    <3> QED BY <3>2, <3>3
  <2> HIDE DEF Rest, Process
  <2>6. Handlers => GdbHandlers \/ UNCHANGED gdbVars
    BY DEF Handlers
  <2>7. EventLoop => GdbOutput \/ UNCHANGED gdbVars
    BY DEF EventLoop
  <2> QED BY <2>1, <2>2, <2>3, <2>4, <2>5, <2>6, <2>7 DEF Next, Outside
<1>7. whenDone' \in {"", "autoContinueInferior", "finishInferiorSetup"}
  BY <1>6 DEF Types
<1>8. toInsert' \in Nat
  <2>1. toInsert \in Nat
    BY DEF Types
  <2>2. \A n \in Nat : n + 1 \in Nat
    OBVIOUS
  <2>3. toInsert' = toInsert \/ toInsert' = 0 \/ toInsert' = toInsert + 1
    BY <1>6, Zenon
  <2> QED BY <2>1, <2>2, <2>3
<1>9. gdb' \in {"NotRunning", "Running", "Ended"}
  BY <1>6 DEF Types
<1> QED
  BY <1>6, <1>7, <1>8, <1>9 DEF Types

LEMMA PastLaunch ==
    ASSUME NEW W \in Stages, Speaks(W)
    PROVE  /\ ~SetupEngine
           /\ W \in {Harmless, GoneWords} => ~StartFailed
<1>1. "setupEngine" \notin W
  BY Stage DEF Launching
<1>2. W \in {Harmless, GoneWords} => "startFailed" \notin W
  <2>1. "startFailed" \in Failing
    BY DEF Failing
  <2> QED BY <2>1, Apart DEF Harmless, GoneWords
<1> QED
  BY <1>1, <1>2, Entered DEF SetupEngine, StartFailed

----------------------------------------------------------------------------
(* Before the setup is done, few statements are possible: which handler    *)
(* executes them.                                                          *)

LEMMA Named ==
    ASSUME NEW e, NEW m, NEW body
    PROVE  /\ Method(e, m, body) => Next1[2] = m
           /\ DyingMethod(e, m, body) => Next1[2] = m
           /\ GdbMethod(m, body) => Next1[2] = m
<1>1. ASSUME NEW f, Enter(f, m)
      PROVE  Next1[2] = m
  BY <1>1 DEF Enter, Call
<1> QED
  BY <1>1 DEF Method, DyingMethod, GdbMethod

LEMMA SetUpNames ==
    ASSUME NEW e, SetUp(e)
    PROVE  /\ Next1[2] \in {"doSetupEngine", "notifyEngineSetupFailed",
                            "notifyEngineSetupOk", "doSetupInferior",
                            "notifyInferiorSetupFailed",
                            "notifyInferiorSetupOk", "doRunEngine",
                            "notifyEngineRunFailed"}
           /\ Next1[2] = "doSetupEngine" => DoSetupEngine(e)
           /\ Next1[2] = "notifyEngineSetupFailed" => NotifyEngineSetupFailed(e)
           /\ Next1[2] = "notifyEngineSetupOk" => NotifyEngineSetupOk(e)
<1>1. /\ DoSetupEngine(e) => Next1[2] = "doSetupEngine"
      /\ NotifyEngineSetupFailed(e) => Next1[2] = "notifyEngineSetupFailed"
      /\ NotifyEngineSetupOk(e) => Next1[2] = "notifyEngineSetupOk"
      /\ DoSetupInferior(e) => Next1[2] = "doSetupInferior"
      /\ NotifyInferiorSetupFailed(e) => Next1[2] = "notifyInferiorSetupFailed"
      /\ NotifyInferiorSetupOk(e) => Next1[2] = "notifyInferiorSetupOk"
      /\ DoRunEngine(e) => Next1[2] = "doRunEngine"
      /\ NotifyEngineRunFailed(e) => Next1[2] = "notifyEngineRunFailed"
  BY Named DEF DoSetupEngine, NotifyEngineSetupFailed, NotifyEngineSetupOk,
         DoSetupInferior, NotifyInferiorSetupFailed, NotifyInferiorSetupOk,
         DoRunEngine, NotifyEngineRunFailed
<1> QED
  BY <1>1 DEF SetUp

LEMMA QueueNames ==
    ASSUME NEW e, Queue(e)
    PROVE  /\ Next1[2] \in {"queueSetupEngine", "queueSetupInferior",
                            "queueRunEngine", "queueShutdownEngine",
                            "queueShutdownInferior", "queueFinishDebugger"}
           /\ Next1[2] = "queueSetupEngine" =>
                Method(e, "queueSetupEngine", <<Set(e, "EngineSetupRequested"),
                                                Post(e, "doSetupEngine")>>)
           /\ Next1[2] = "queueShutdownInferior" =>
                Method(e, "queueShutdownInferior",
                       <<Set(e, "InferiorShutdownRequested"),
                         Post(e, "doShutdownInferior")>>)
  BY Named DEF Queue

LEMMA RunAndStopNames ==
    ASSUME NEW e, RunAndStop(e)
    PROVE  /\ Next1[2] \in {"notifyEngineRunAndInferiorRunOk",
                "notifyInferiorRunRequested", "notifyInferiorRunOk",
                "notifyInferiorRunFailed", "shutdownInferiorIfDying",
                "notifyInferiorStopOk", "shutdownInferiorIfStopped",
                "notifyInferiorSpontaneousStop", "notifyInferiorStopFailed",
                "doInterruptInferior", "notifyInferiorExited"}
           /\ Next1[2] = "notifyEngineRunAndInferiorRunOk" =>
                NotifyEngineRunAndInferiorRunOk(e)
           /\ Next1[2] = "notifyInferiorRunOk" => NotifyInferiorRunOk(e)
<1>1. /\ NotifyEngineRunAndInferiorRunOk(e) =>
            Next1[2] = "notifyEngineRunAndInferiorRunOk"
      /\ NotifyInferiorRunRequested(e) => Next1[2] = "notifyInferiorRunRequested"
      /\ NotifyInferiorRunOk(e) => Next1[2] = "notifyInferiorRunOk"
      /\ NotifyInferiorRunFailed(e) => Next1[2] = "notifyInferiorRunFailed"
      /\ ShutdownInferiorIfDying(e) => Next1[2] = "shutdownInferiorIfDying"
      /\ NotifyInferiorStopOk(e) => Next1[2] = "notifyInferiorStopOk"
      /\ ShutdownInferiorIfStopped(e) => Next1[2] = "shutdownInferiorIfStopped"
      /\ NotifyInferiorSpontaneousStop(e) =>
            Next1[2] = "notifyInferiorSpontaneousStop"
      /\ NotifyInferiorStopFailed(e) => Next1[2] = "notifyInferiorStopFailed"
      /\ DoInterruptInferior(e) => Next1[2] = "doInterruptInferior"
      /\ NotifyInferiorExited(e) => Next1[2] = "notifyInferiorExited"
  BY Named DEF NotifyEngineRunAndInferiorRunOk, NotifyInferiorRunRequested,
       NotifyInferiorRunOk, NotifyInferiorRunFailed, ShutdownInferiorIfDying,
       NotifyInferiorStopOk, ShutdownInferiorIfStopped,
       NotifyInferiorSpontaneousStop, NotifyInferiorStopFailed,
       DoInterruptInferior, NotifyInferiorExited
<1> QED
  BY <1>1 DEF RunAndStop

LEMMA ShutDownNames ==
    ASSUME NEW e, ShutDown(e)
    PROVE  Next1[2] \in {"doShutdownInferior", "notifyInferiorShutdownOk",
                "notifyInferiorShutdownFailed", "shutdownSlaveEngine",
                "notifyEngineShutdownOk", "notifyEngineIll",
                "notifyEngineSpontaneousShutdown"}
  BY Named DEF ShutDown, DoShutdownInferior, NotifyInferiorShutdownOk,
         NotifyInferiorShutdownFailed, ShutdownSlaveEngine,
         NotifyEngineShutdownOk,
         NotifyEngineIll, NotifyEngineSpontaneousShutdown

LEMMA OtherNames ==
    ASSUME NEW e
    PROVE  /\ SetState(e) => Next1[2] \in {"setState", "forceState"}
           /\ PostSlot(e) => Next1[2] = "post"
           /\ QuitDebugger(e) => Next1[2] = "quitDebugger"
           /\ NotifyInferiorIll(e) => Next1[2] = "notifyInferiorIll"
           /\ StartFailed => Next1[2] = "startFailed"
           /\ DoFinishDebugger => Next1[2] = "doFinishDebugger"
           /\ DoShutdownEngine => Next1[2] = "doShutdownEngine"
<1>1. SetState(e) => Next1[2] \in {"setState", "forceState"}
  BY DEF SetState, Set, ForceState
<1>2. PostSlot(e) => Next1[2] = "post"
  BY DEF PostSlot, Post
<1>3. /\ QuitDebugger(e) => Next1[2] = "quitDebugger"
      /\ NotifyInferiorIll(e) => Next1[2] = "notifyInferiorIll"
      /\ DoShutdownEngine => Next1[2] = "doShutdownEngine"
  BY Named DEF QuitDebugger, NotifyInferiorIll, DoShutdownEngine
<1>4. /\ StartFailed => Next1[2] = "startFailed"
      /\ DoFinishDebugger => Next1[2] = "doFinishDebugger"
  <2>1. ASSUME NEW f, NEW m, Enter(f, m)
        PROVE  Next1[2] = m
    BY <2>1 DEF Enter, Call
  <2> QED BY <2>1 DEF StartFailed, DoFinishDebugger
<1> QED
  BY <1>1, <1>2, <1>3, <1>4

LEMMA GdbNames ==
    ASSUME GdbHandlers
    PROVE  /\ Next1[2] \in GdbWords \union
                {"postCommand", "flushCommand", "setupEngine", "setupInferior", "runEngine",
                 "interruptInferior", "shutdownInferior", "shutdownEngine",
                 "abortDebugger"}
           /\ Next1[2] = "setupEngine" => SetupEngine
           /\ Next1[2] = "abortDebugger" => AbortDebugger
           /\ Next1[2] = "attemptBreakpointSynchronization" =>
                 AttemptBreakpointSynchronization
<1>1. /\ InterruptInferiorTemporarily => Next1[2] = "interruptInferiorTemporarily"
      /\ SetupInferior => Next1[2] = "setupInferior"
      /\ RunEngine => Next1[2] = "runEngine"
      /\ ContinueInferior => Next1[2] \in {"continueInferior", "autoContinueInferior"}
      /\ InterruptForQueued => Next1[2] = "interruptForQueued"
      /\ HandleInferiorPrepared => Next1[2] = "handleInferiorPrepared"
      /\ FinishInferiorSetup => Next1[2] = "finishInferiorSetup"
  BY Named DEF InterruptInferiorTemporarily, SetupInferior, RunEngine,
         ContinueInferior, InterruptForQueued, HandleInferiorPrepared,
         FinishInferiorSetup
<1>2. ASSUME NEW m, Enter(Gdb, m)
      PROVE  Next1[2] = m
  BY <1>2 DEF Enter, Call
<1>3. /\ FlushQueuedCommands => Next1[2] = "flushQueuedCommands"
      /\ AttemptBreakpointSynchronization =>
             Next1[2] = "attemptBreakpointSynchronization"
      /\ SetupEngine => Next1[2] = "setupEngine"
      /\ InterruptInferior => Next1[2] = "interruptInferior"
      /\ ShutdownInferior => Next1[2] = "shutdownInferior"
      /\ ShutdownEngine => Next1[2] = "shutdownEngine"
      /\ AbortDebugger => Next1[2] = "abortDebugger"
      /\ CommandsDone => Next1[2] = "commandsDone"
      /\ FinishWhenDone => Next1[2] = "finishWhenDone"
      /\ ContinueWhenDone => Next1[2] = "continueWhenDone"
  BY <1>2 DEF FlushQueuedCommands, AttemptBreakpointSynchronization,
       SetupEngine,
         InterruptInferior, ShutdownInferior, ShutdownEngine, AbortDebugger,
         CommandsDone, FinishWhenDone, ContinueWhenDone
<1>4. /\ Flush => Next1[2] = "flushCommand"
      /\ PostCommandHelper => Next1[2] = "postCommand"
  BY DEF Flush, PostCommandHelper, FlushCommand, PostCommand
<1> QED
  BY <1>1, <1>3, <1>4 DEF GdbHandlers, GdbWords

LEMMA Dispatch ==
    ASSUME Alone, Handlers, NEW w, Next1[2] = w
    PROVE  /\ w = "queueSetupEngine" =>
                Method(Gdb, "queueSetupEngine", <<Set(Gdb, "EngineSetupRequested"),
                                                  Post(Gdb, "doSetupEngine")>>)
           /\ w = "queueShutdownInferior" =>
                Method(Gdb, "queueShutdownInferior",
                       <<Set(Gdb, "InferiorShutdownRequested"),
                         Post(Gdb, "doShutdownInferior")>>)
           /\ w = "notifyEngineRunAndInferiorRunOk" =>
                NotifyEngineRunAndInferiorRunOk(Gdb)
           /\ w = "notifyInferiorRunOk" => NotifyInferiorRunOk(Gdb)
           /\ w = "setState" => SetState(Gdb)
           /\ w = "post" => PostSlot(Gdb)
           /\ w = "doSetupEngine" => DoSetupEngine(Gdb)
           /\ w = "setupEngine" => SetupEngine
           /\ w = "notifyEngineSetupFailed" => NotifyEngineSetupFailed(Gdb)
           /\ w = "notifyEngineSetupOk" => NotifyEngineSetupOk(Gdb)
           /\ w = "startFailed" => StartFailed
           /\ w = "quitDebugger" => QuitDebugger(Gdb)
           /\ w = "abortDebugger" => AbortDebugger
           /\ w = "attemptBreakpointSynchronization" =>
                AttemptBreakpointSynchronization
           /\ w \notin {"setupEngine", "abortDebugger",
                        "attemptBreakpointSynchronization"}
                 /\ w \notin GdbWords \union
                      {"postCommand", "flushCommand", "setupInferior",
                       "runEngine", "interruptInferior", "shutdownInferior",
                       "shutdownEngine"}
                => UNCHANGED gdbVars
<1>1. CASE GdbHandlers
  BY <1>1, GdbNames DEF GdbWords
<1>2. CASE (StartFailed \/ DoFinishDebugger \/ DoShutdownEngine) /\ UNCHANGED gdbVars
  BY <1>2, OtherNames
<1>3. CASE (InsideHandler(Gdb) \/ QuitDebugger(Gdb) \/ NotifyInferiorIll(Gdb))
             /\ UNCHANGED gdbVars
  BY <1>3, OtherNames, SetUpNames, QueueNames, RunAndStopNames, ShutDownNames
     DEF InsideHandler
<1> QED
  BY <1>1, <1>2, <1>3 DEF Handlers, Alone

----------------------------------------------------------------------------
(* The invariant: the phases of a session.                                 *)

InState(s) == state = [e \in Engines |-> s]

Ready ==
    /\ runControl = "ready" /\ InState("DebuggerNotReady")
    /\ gdb = "NotRunning" /\ program = "none"
    /\ calls = <<>> /\ posted = <<>> /\ output = <<>> /\ waiting = <<>>

(* gdb is not launched, because queueSetupEngine() is under way, ...       *)
Starting ==
    /\ posted = <<>>
    /\ \/ /\ InState("DebuggerNotReady")
          /\ \/ calls = <<Call(Gdb, "queueSetupEngine")>>
             \/ calls = <<Set(Gdb, "EngineSetupRequested"),
                          Post(Gdb, "doSetupEngine")>>
       \/ /\ InState("EngineSetupRequested")
          /\ \/ calls = <<Post(Gdb, "doSetupEngine")>>
             \/ calls = <<Call(Gdb, "doSetupEngine")>>
             \/ calls = <<Call(Gdb, "setupEngine")>>

(* ... or doSetupEngine() waits for its timer; the user may act before it. *)
Delayed ==
    /\ posted = <<Call(Gdb, "doSetupEngine")>>
    /\ InState("EngineSetupRequested")
    /\ \/ calls = <<>>
       \/ calls = <<Call(Gdb, "quitDebugger")>>
       \/ calls = <<Call(Gdb, "abortDebugger")>>
       \/ calls = <<Call(Gdb, "attemptBreakpointSynchronization")>>

BeforeLaunch ==
    /\ runControl = "running" /\ gdb = "NotRunning" /\ program = "none"
    /\ output = <<>> /\ waiting = <<>>
    /\ Starting \/ Delayed

(* The user was first, or gdb could not be started.                        *)
SetUpFails ==
    /\ runControl = "running" /\ gdb = "NotRunning" /\ program = "none"
    /\ output = <<>> /\ waiting = <<>>
    /\ posted = <<>> \/ posted = <<Call(Gdb, "doSetupEngine")>>
    /\ \/ /\ InState("EngineSetupRequested")
          /\ \/ calls = <<Call(Gdb, "notifyEngineSetupFailed")>>
             \/ calls = <<Set(Gdb, "EngineSetupFailed"), Call(Gdb, "startFailed"),
                          Set(Gdb, "DebuggerFinished")>>
       \/ /\ InState("EngineSetupFailed")
          /\ calls = <<Call(Gdb, "startFailed"), Set(Gdb, "DebuggerFinished")>>

Launched ==
    /\ runControl = "running" /\ posted = <<>> /\ waiting = <<>>
    /\ InState("EngineSetupRequested")
    /\ \/ calls = <<Call(Gdb, "notifyEngineSetupOk")>>
       \/ calls = <<Set(Gdb, "EngineSetupOk"), Call(Gdb, "queueSetupInferior")>>

InSession == runControl = "running" /\ Speaks(Harmless)

GdbGone == runControl = "running" /\ gdb = "NotRunning" /\ Speaks(GoneWords)

Over == runControl = "finished" /\ gdb # "Running" /\ Speaks(GoneWords)

(* The user was first and the session was given up, but doSetupEngine()    *)
(* waits for its timer, which fires nevertheless.                          *)
Stale ==
    /\ gdb = "NotRunning" /\ program = "none"
    /\ output = <<>> /\ waiting = <<>>
    /\ state \in [Engines -> StateWords]
    /\ \/ /\ posted = <<Call(Gdb, "doSetupEngine")>>
          /\ calls = <<Set(Gdb, "DebuggerFinished")>> \/ calls = <<>>
       \/ /\ posted = <<>>
          /\ \/ calls = <<Call(Gdb, "doSetupEngine")>>
             \/ calls = <<Call(Gdb, "setupEngine")>>

Failed == runControl = "failed" /\ (Stale \/ Speaks(LateWords))

IInv ==
    /\ Types
    /\ \/ Ready \/ BeforeLaunch \/ SetUpFails \/ Launched \/ InSession
       \/ GdbGone \/ Over \/ Failed

(* A step of the session as the run control sees it.                       *)
SessionStep ==
    \/ runControl = "ready" /\ runControl' = "running" /\ gdb' = gdb
    \/ runControl \in {"running", "failed"} /\ runControl' = runControl
    \/ runControl' = runControl /\ gdb' # "Running"
    \/ /\ runControl = "running" /\ runControl' \in {"failed", "finished"}
       /\ gdb # "Running" /\ gdb' = gdb

LEMMA SessionContract ==
    ASSUME SessionStep
    PROVE  [Contract!Next]_(Contract!contractVars)
  BY DEF SessionStep, Contract!Next, Contract!contractVars, Contract!Start,
         Contract!Launch, Contract!Exit, Contract!Report

(* A larger vocabulary.                                                    *)
LEMMA Widen ==
    ASSUME NEW W, NEW V, W \subseteq V, Speaks(W)
    PROVE  Speaks(V)
<1>1. Statements(W) \subseteq Statements(V)
  BY DEF Statements
<1>2. SlotCalls(W) \subseteq SlotCalls(V)
  BY DEF SlotCalls
<1>3. \A S, T : S \subseteq T => Seq(S) \subseteq Seq(T)
  OBVIOUS
<1>4. \A s \in Seq(Statements(W)) : s \in Seq(Statements(V))
  BY <1>1, <1>3
<1>5. \A s \in Seq(SlotCalls(W)) : s \in Seq(SlotCalls(V))
  BY <1>2, <1>3
<1>6. state \in [Engines -> V \union Stopping]
  BY DEF Speaks
<1> QED
  BY <1>4, <1>5, <1>6 DEF Speaks

LEMMA StagesAreLate ==
    /\ Harmless \in Stages /\ GoneWords \in Stages
    /\ LateWords \in Stages /\ CalmWords \in Stages
    /\ Harmless \subseteq GoneWords /\ GoneWords \subseteq LateWords
    /\ CalmWords \subseteq LateWords /\ LateWords = CalmWords \union Stopping
    /\ "doFinishDebugger" \notin Harmless /\ GoneWords # Harmless
    /\ LateWords # Harmless /\ CalmWords # Harmless
    /\ Harmless # CalmWords /\ GoneWords # CalmWords /\ LateWords # CalmWords
<1>1. /\ Harmless \in Stages /\ GoneWords \in Stages
      /\ LateWords \in Stages /\ CalmWords \in Stages
  BY DEF Stages
<1>2. /\ Harmless \subseteq GoneWords /\ GoneWords \subseteq LateWords
      /\ CalmWords \subseteq LateWords /\ LateWords = CalmWords \union Stopping
  BY DEF Harmless, GoneWords, LateWords, CalmWords
<1>3. "doFinishDebugger" \in Ending /\ "InferiorStopOk" \in Stopping
  BY DEF Ending, Stopping
<1>4. "doFinishDebugger" \notin Harmless
  BY <1>3, Apart DEF Harmless
<1>5. "doFinishDebugger" \in CalmWords /\ "doFinishDebugger" \in GoneWords
  BY <1>3 DEF GoneWords, CalmWords
<1>6. "InferiorStopOk" \notin CalmWords
  BY <1>3, Apart DEF CalmWords
<1>7. "InferiorStopOk" \in Harmless
  BY <1>3 DEF Harmless
<1> QED
  BY <1>1, <1>2, <1>4, <1>5, <1>6, <1>7

(* The stages in which only HandleGdbFinished or a step that finds gdb     *)
(* gone may say how a session ends.                                        *)
LEMMA SpeakingStep ==
    ASSUME Alone, IInv, InSession \/ GdbGone \/ Over, Next
    PROVE  (InSession \/ GdbGone \/ Over)' /\ SessionStep
<1>0. Harmless \in Stages /\ GoneWords \in Stages /\ Types
  BY StagesAreLate DEF IInv
<1>1. "doFinishDebugger" \notin Harmless
  BY StagesAreLate
<1>2. GoneWords # Harmless /\ GoneWords # CalmWords /\ Harmless # CalmWords
  BY StagesAreLate
<1>3. Speaks(GoneWords) /\ runControl \in {"running", "finished"}
  BY Widen, StagesAreLate DEF InSession, GdbGone, Over
<1>4. ~SetupEngine /\ ~StartFailed
  BY <1>0, <1>3, PastLaunch
<1>5. gdb' = gdb \/ gdb' = "NotRunning" \/ (gdb = "Running" /\ gdb' = "Ended")
  BY <1>0, <1>4, TypesStep
<1>6. UNCHANGED runControl \/ DoFinishDebugger
  BY <1>3, <1>4, Steps DEF StartDebugger
<1>7. Speaks(GoneWords)'
  BY <1>0, <1>2, <1>3, StepSpeaks
<1>8. CASE InSession /\ gdb # "NotRunning" /\ ~HandleGdbFinished
  <2>1. Speaks(Harmless)'
    BY <1>0, <1>2, <1>8, StepSpeaks DEF InSession
  <2>2. ~DoFinishDebugger
    BY <1>1, <1>8, Entered DEF InSession, DoFinishDebugger
  <2> QED BY <1>6, <1>8, <2>1, <2>2 DEF InSession, SessionStep
<1>9. CASE InSession /\ HandleGdbFinished
  <2>1. gdb' = "NotRunning" /\ runControl' = runControl
    BY <1>9 DEF HandleGdbFinished, engineRest
  <2> QED BY <1>7, <1>9, <2>1 DEF InSession, GdbGone, SessionStep
<1>10. CASE (InSession \/ GdbGone) /\ gdb = "NotRunning"
  <2>1. gdb' = "NotRunning" /\ runControl = "running"
    BY <1>5, <1>10 DEF InSession, GdbGone
  <2>2. CASE UNCHANGED runControl
    BY <1>7, <2>1, <2>2 DEF GdbGone, SessionStep
  <2>3. CASE DoFinishDebugger
    BY <1>7, <1>10, <2>1, <2>3 DEF DoFinishDebugger, Over, SessionStep
  <2> QED BY <1>6, <2>2, <2>3
<1>11. CASE Over
  <2>1. gdb' # "Running"
    BY <1>5, <1>11 DEF Over
  <2>2. runControl' = runControl
    BY <1>6, <1>11 DEF Over, DoFinishDebugger
  <2> QED BY <1>7, <1>11, <2>1, <2>2 DEF Over, SessionStep
<1> QED
  BY <1>8, <1>9, <1>10, <1>11 DEF GdbGone

LEMMA Joined ==
    ASSUME NEW a, NEW b, NEW c
    PROVE  /\ <<a>> \o <<b>> = <<a, b>>
           /\ (<<a>> \o <<b>>) \o <<c>> = <<a, b, c>>
<1> DEFINE S == {a, b, c}
<1>1. \A x, y \in S : <<x>> \o <<y>> = <<x, y>>
  <2> TAKE x, y \in S
  <2>1. <<x, y>> \in Seq(S) /\ <<x, y>> # <<>>
    BY Lists
  <2>2. Head(<<x, y>>) = x /\ Tail(<<x, y>>) = <<y>>
    OBVIOUS
  <2> QED BY <2>1, <2>2, HeadAndTail, Zenon
<1>2. (<<a>> \o <<b>>) \o <<c>> = <<a, b, c>>
  <2>1. <<a>> \in Seq(S) /\ <<b>> \in Seq(S) /\ <<c>> \in Seq(S)
        /\ <<a, b, c>> \in Seq(S)
    BY Lists
  <2>2. <<a, b, c>> = <<a>> \o <<b, c>>
    <3>1. Head(<<a, b, c>>) = a /\ Tail(<<a, b, c>>) = <<b, c>>
          /\ <<a, b, c>> # <<>>
      OBVIOUS
    <3> QED BY <2>1, <3>1, HeadAndTail, Zenon
  <2>3. (<<a>> \o <<b>>) \o <<c>> = <<a>> \o (<<b>> \o <<c>>)
    <3> HIDE DEF S
    <3>1. \A s, t, u \in Seq(S) : (s \o t) \o u = s \o (t \o u)
      BY ConcatAssociative
    <3> QED BY <2>1, <3>1, Zenon
  <2>4. <<b>> \o <<c>> = <<b, c>>
    BY <1>1, Zenon
  <2> QED BY <2>2, <2>3, <2>4, Zenon
<1> QED
  BY <1>1, <1>2, Zenon

LEMMA Short ==
    ASSUME NEW a, NEW b, NEW c
    PROVE  /\ <<a>> # <<>> /\ <<a, b>> # <<>> /\ <<a, b, c>> # <<>>
           /\ Head(<<a>>) = a /\ Head(<<a, b>>) = a /\ Head(<<a, b, c>>) = a
           /\ Tail(<<a>>) = <<>> /\ Tail(<<a, b>>) = <<b>>
           /\ Tail(<<a, b, c>>) = <<b, c>>
           /\ <<>> \o <<>> = <<>> /\ <<a>> \o <<>> = <<a>>
           /\ <<a, b>> \o <<>> = <<a, b>> /\ <<a, b, c>> \o <<>> = <<a, b, c>>
           /\ <<>> \o <<a>> = <<a>> /\ <<>> \o <<a, b>> = <<a, b>>
           /\ Append(<<>>, a) = <<a>>
<1>1. <<a>> # <<>> /\ <<a, b>> # <<>> /\ <<a, b, c>> # <<>>
  OBVIOUS
<1>2. Head(<<a>>) = a /\ Head(<<a, b>>) = a /\ Head(<<a, b, c>>) = a
  OBVIOUS
<1>3. Tail(<<a>>) = <<>>
  OBVIOUS
<1>4. Tail(<<a, b>>) = <<b>>
  OBVIOUS
<1>5. Tail(<<a, b, c>>) = <<b, c>>
  OBVIOUS
<1>6. <<>> \o <<>> = <<>>
  OBVIOUS
<1>7. <<a>> \o <<>> = <<a>>
  OBVIOUS
<1>8. <<a, b>> \o <<>> = <<a, b>>
  OBVIOUS
<1>9. <<a, b, c>> \o <<>> = <<a, b, c>>
  OBVIOUS
<1>10. <<>> \o <<a>> = <<a>>
  OBVIOUS
<1>11. <<>> \o <<a, b>> = <<a, b>>
  OBVIOUS
<1>12. Append(<<>>, a) = <<a>>
  OBVIOUS
<1> QED
  BY <1>1, <1>2, <1>3, <1>4, <1>5, <1>6, <1>7, <1>8, <1>9, <1>10, <1>11, <1>12,
     Zenon

(* A handler is running: it goes on, or gdb does something.                *)
LEMMA Busy ==
    ASSUME Next, calls # <<>>
    PROVE  Handlers \/ Outside
  BY Outer DEF Next, Outside, Idle

(* The statements of a handler that runs alone, one after the other.       *)
LEMMA OnlyStatement ==
    ASSUME NEW s, calls = <<s>>
    PROVE  /\ calls # <<>> /\ Next1 = s
           /\ Unfold(<<>>) => calls' = <<>>
           /\ \A a : Unfold(<<a>>) => calls' = <<a>>
           /\ \A a, b : Unfold(<<a, b>>) => calls' = <<a, b>>
           /\ \A a, b, c : Unfold(<<a, b, c>>) => calls' = <<a, b, c>>
<1>1. calls # <<>> /\ Head(calls) = s /\ Tail(calls) = <<>>
  BY Short
<1> QED
  BY <1>1, Short DEF Unfold, Next1

LEMMA FirstOfTwo ==
    ASSUME NEW s, NEW t, calls = <<s, t>>
    PROVE  /\ calls # <<>> /\ Next1 = s
           /\ Unfold(<<>>) => calls' = <<t>>
<1>1. calls # <<>> /\ Head(calls) = s /\ Tail(calls) = <<t>>
  BY Short
<1> QED
  BY <1>1, Short DEF Unfold, Next1

LEMMA FirstOfThree ==
    ASSUME NEW s, NEW t, NEW u, calls = <<s, t, u>>
    PROVE  /\ calls # <<>> /\ Next1 = s
           /\ Unfold(<<>>) => calls' = <<t, u>>
<1>1. calls # <<>> /\ Head(calls) = s /\ Tail(calls) = <<t, u>>
  BY Short
<1> QED
  BY <1>1, Short DEF Unfold, Next1

LEMMA NotLaunched ==
    ASSUME gdb = "NotRunning"
    PROVE  ~Outside
  BY OutsideStep

LEMMA ReadyStep ==
    ASSUME Alone, IInv, Ready, Next
    PROVE  BeforeLaunch' /\ SessionStep
<1>1. ~Handlers /\ ~Outside
  BY Inside, NotLaunched DEF Ready, Idle
<1>2. ~RunPosted /\ ~GdbOutput
  BY DEF Ready, RunPosted, GdbOutput, HandleResultRecord, HandleStopResponse,
         HandleGdbFinished, Reads
<1>3. ~User
  BY DEF Ready, User, UserContinues, ExecuteStepOut, UserInterrupts,
         DetachDebugger, UserQuits, UserAborts, UserAddsBreakpoint, UserActs,
         May
<1>4. StartDebugger /\ UNCHANGED gdbVars
  BY <1>1, <1>2, <1>3 DEF Next, EventLoop, Outside
<1>5. calls' = <<Call(Gdb, "queueSetupEngine")>>
  BY <1>4 DEF StartDebugger, Event, Alone
<1>6. /\ runControl' = "running" /\ UNCHANGED <<state, posted>>
      /\ UNCHANGED <<gdb, program, output, waiting>>
  BY <1>4 DEF StartDebugger, gdbVars
<1> QED
  BY <1>5, <1>6 DEF Ready, BeforeLaunch, Starting, InState, SessionStep

(* A method that is alone on the stack is replaced by its body.            *)
LEMMA AloneMethod ==
    ASSUME NEW s, calls = <<s>>, NEW e, NEW m, NEW body,
           Method(e, m, body) \/ DyingMethod(e, m, body)
    PROVE  /\ Unfold(body)
           /\ UNCHANGED <<state, posted, runControl>>
  BY DEF Method, DyingMethod

LEMMA StateSet ==
    ASSUME Alone, NEW to, Next1 = Set(Gdb, to), SetState(Gdb)
    PROVE  /\ Unfold(<<>>)
           /\ state' = [state EXCEPT ![Gdb] = to]
           /\ UNCHANGED <<dying, posted, runControl>>
<1>1. Next1[3] = to
  BY DEF Set
<1> QED
  BY <1>1 DEF SetState, Alone

LEMMA StartingStep ==
    ASSUME Alone, BeforeLaunch, Starting, Next
    PROVE  (BeforeLaunch \/ SetUpFails \/ Launched)' /\ SessionStep
<1>1. calls # <<>>
  BY Short DEF Starting
<1>2. Handlers
  BY <1>1, Busy, NotLaunched DEF BeforeLaunch
<1>3. CASE calls = <<Call(Gdb, "queueSetupEngine")>>
  <2>1. Next1 = Call(Gdb, "queueSetupEngine")
    BY <1>3, OnlyStatement
  <2>2. Next1[2] = "queueSetupEngine"
    BY <2>1 DEF Call
  <2>3. /\ Method(Gdb, "queueSetupEngine", <<Set(Gdb, "EngineSetupRequested"),
                                             Post(Gdb, "doSetupEngine")>>)
        /\ UNCHANGED gdbVars
    BY <1>2, <2>2, Dispatch DEF GdbWords
  <2>4. calls' = <<Set(Gdb, "EngineSetupRequested"), Post(Gdb, "doSetupEngine")>>
        /\ UNCHANGED <<state, posted, runControl>>
    BY <1>3, <2>3, AloneMethod, OnlyStatement
  <2>5. InState("DebuggerNotReady")
    <3>1. <<Call(Gdb, "queueSetupEngine")>> # <<Post(Gdb, "doSetupEngine")>>
          /\ <<Call(Gdb, "queueSetupEngine")>> # <<Call(Gdb, "doSetupEngine")>>
          /\ <<Call(Gdb, "queueSetupEngine")>> # <<Call(Gdb, "setupEngine")>>
      BY DEF Call, Post
    <3> QED BY <1>3, <3>1 DEF Starting
  <2>6. BeforeLaunch'
    BY <2>3, <2>4, <2>5 DEF BeforeLaunch, Starting, InState, gdbVars
  <2> QED BY <2>4, <2>6 DEF SessionStep, BeforeLaunch
<1>4. CASE calls = <<Set(Gdb, "EngineSetupRequested"), Post(Gdb, "doSetupEngine")>>
  <2>1. Next1 = Set(Gdb, "EngineSetupRequested")
    BY <1>4, FirstOfTwo
  <2>2. Next1[2] = "setState"
    BY <2>1 DEF Set
  <2>3. SetState(Gdb) /\ UNCHANGED gdbVars
    BY <1>2, <2>2, Dispatch DEF GdbWords
  <2>4. calls' = <<Post(Gdb, "doSetupEngine")>> /\ UNCHANGED <<posted, runControl>>
        /\ state' = [state EXCEPT ![Gdb] = "EngineSetupRequested"]
    BY <1>4, <2>1, <2>3, StateSet, FirstOfTwo
  <2>5. InState("EngineSetupRequested")'
    BY <2>4 DEF Starting, InState, Alone
  <2>6. BeforeLaunch'
    BY <2>3, <2>4, <2>5 DEF BeforeLaunch, Starting, gdbVars
  <2> QED BY <2>4, <2>6 DEF SessionStep, BeforeLaunch
<1>5. CASE calls = <<Post(Gdb, "doSetupEngine")>> /\ InState("EngineSetupRequested")
  <2>1. Next1 = Post(Gdb, "doSetupEngine")
    BY <1>5, OnlyStatement
  <2>2. Next1[2] = "post" /\ Next1[3] = "doSetupEngine"
    BY <2>1 DEF Post
  <2>3. PostSlot(Gdb) /\ UNCHANGED gdbVars
    BY <1>2, <2>2, Dispatch DEF GdbWords
  <2>4. /\ posted' = <<Call(Gdb, "doSetupEngine")>> /\ calls' = <<>>
        /\ UNCHANGED <<state, runControl>>
    <3>1. posted = <<>> /\ Tail(calls) = <<>>
      BY <1>5, Short DEF Starting
    <3> QED BY <2>2, <2>3, <3>1, Short DEF PostSlot
  <2>5. BeforeLaunch'
    BY <1>5, <2>3, <2>4 DEF BeforeLaunch, Delayed, InState, gdbVars
  <2> QED BY <2>4, <2>5 DEF SessionStep, BeforeLaunch
<1>6. CASE calls = <<Call(Gdb, "doSetupEngine")>> /\ InState("EngineSetupRequested")
  <2>1. Next1 = Call(Gdb, "doSetupEngine")
    BY <1>6, OnlyStatement
  <2>2. Next1[2] = "doSetupEngine"
    BY <2>1 DEF Call
  <2>3. DoSetupEngine(Gdb) /\ UNCHANGED gdbVars
    BY <1>2, <2>2, Dispatch DEF GdbWords
  <2>4. calls' = <<Call(Gdb, "setupEngine")>> /\ UNCHANGED <<state, posted, runControl>>
    BY <1>6, <2>3, AloneMethod, OnlyStatement DEF DoSetupEngine
  <2>5. BeforeLaunch'
    BY <1>6, <2>3, <2>4 DEF BeforeLaunch, Starting, InState, gdbVars
  <2> QED BY <2>4, <2>5 DEF SessionStep, BeforeLaunch
<1>7. CASE calls = <<Call(Gdb, "setupEngine")>> /\ InState("EngineSetupRequested")
  <2>1. Next1 = Call(Gdb, "setupEngine")
    BY <1>7, OnlyStatement
  <2>2. Next1[2] = "setupEngine"
    BY <2>1 DEF Call
  <2>3. SetupEngine
    BY <1>2, <2>2, Dispatch DEF GdbWords
  <2>4. UNCHANGED <<state, posted, runControl, waiting, output, program>>
    BY <2>3 DEF SetupEngine, engineRest, pipes
  <2>5. CASE Unfold(<<Call(Gdb, "notifyEngineSetupFailed")>>) /\ UNCHANGED gdb
    <3>1. calls' = <<Call(Gdb, "notifyEngineSetupFailed")>>
      BY <1>7, <2>5, OnlyStatement
    <3>2. SetUpFails'
      BY <1>7, <2>4, <2>5, <3>1 DEF SetUpFails, BeforeLaunch, Starting, InState
    <3> QED BY <2>4, <3>2 DEF SessionStep, BeforeLaunch
  <2>6. CASE Unfold(<<Call(Gdb, "notifyEngineSetupOk")>>)
    <3>1. calls' = <<Call(Gdb, "notifyEngineSetupOk")>>
      BY <1>7, <2>6, OnlyStatement
    <3>2. Launched'
      BY <1>7, <2>4, <3>1 DEF Launched, BeforeLaunch, Starting, InState
    <3> QED BY <2>4, <3>2 DEF SessionStep, BeforeLaunch
  <2> QED BY <2>3, <2>5, <2>6 DEF SetupEngine
<1> QED
  BY <1>3, <1>4, <1>5, <1>6, <1>7 DEF Starting

LEMMA DelayedStep ==
    ASSUME Alone, BeforeLaunch, Delayed, Next
    PROVE  (BeforeLaunch \/ SetUpFails)' /\ SessionStep
<1>1. gdb = "NotRunning" /\ ~Outside /\ runControl = "running"
  BY NotLaunched DEF BeforeLaunch
<1>2. state[Gdb] = "EngineSetupRequested" /\ state[Master] = "EngineSetupRequested"
  BY DEF Delayed, InState, Alone
<1>3. CASE calls = <<>>
  <2>1. ~Handlers
    BY <1>3, Inside DEF Idle
  <2>2. ~StartDebugger /\ ~GdbOutput
    BY <1>1 DEF BeforeLaunch, StartDebugger, GdbOutput, HandleResultRecord,
         HandleStopResponse, HandleGdbFinished, Reads
  <2>3. CASE RunPosted /\ UNCHANGED gdbVars
    <3>1. Head(posted) = Call(Gdb, "doSetupEngine") /\ Tail(posted) = <<>>
      BY Short DEF Delayed
    <3>2. /\ calls' = <<Call(Gdb, "doSetupEngine")>> /\ posted' = <<>>
          /\ UNCHANGED <<state, runControl>>
      BY <2>3, <3>1 DEF RunPosted, Event
    <3>3. BeforeLaunch'
      BY <2>3, <3>2 DEF BeforeLaunch, Delayed, Starting, InState, gdbVars
    <3> QED BY <1>1, <3>2, <3>3 DEF SessionStep
  <2>4. CASE User
    <3>1. ~UserContinues /\ ~ExecuteStepOut /\ ~UserInterrupts /\ ~DetachDebugger
      BY <1>2 DEF UserContinues, ExecuteStepOut, UserInterrupts, DetachDebugger,
           CanResume
    <3>2. UserQuits \/ UserAborts \/ UserAddsBreakpoint
      BY <2>4, <3>1 DEF User
    <3>3. UNCHANGED <<state, posted, runControl, output, waiting, gdb, program>>
      BY <3>2 DEF UserQuits, UserAborts, UserAddsBreakpoint, UserActs,
           engineRest, pipes, processes
    <3>4. \/ calls' = <<Call(Gdb, "quitDebugger")>>
          \/ calls' = <<Call(Gdb, "abortDebugger")>>
          \/ calls' = <<Call(Gdb, "attemptBreakpointSynchronization")>>
      BY <3>2 DEF UserQuits, UserAborts, UserAddsBreakpoint, UserActs, Alone
    <3>5. BeforeLaunch'
      BY <3>3, <3>4 DEF BeforeLaunch, Delayed, InState
    <3> QED BY <1>1, <3>3, <3>5 DEF SessionStep
  <2> QED BY <1>1, <2>1, <2>2, <2>3, <2>4 DEF Next, EventLoop, Outside
<1>4. CASE calls = <<Call(Gdb, "quitDebugger")>>
  <2>1. Next1 = Call(Gdb, "quitDebugger") /\ calls # <<>>
    BY <1>4, OnlyStatement
  <2>2. Next1[2] = "quitDebugger"
    BY <2>1 DEF Call
  <2>3. QuitDebugger(Gdb) /\ UNCHANGED gdbVars
    BY <1>1, <2>1, <2>2, Busy, Dispatch DEF GdbWords
  <2>4. DyingMethod(Gdb, "quitDebugger", <<Call(Gdb, "notifyEngineSetupFailed")>>)
    BY <1>2, <2>3 DEF QuitDebugger
  <2>5. /\ calls' = <<Call(Gdb, "notifyEngineSetupFailed")>>
        /\ UNCHANGED <<state, posted, runControl>>
    BY <1>4, <2>4, AloneMethod, OnlyStatement
  <2>6. SetUpFails'
    BY <1>1, <2>3, <2>5 DEF SetUpFails, BeforeLaunch, Delayed, InState, gdbVars
  <2> QED BY <1>1, <2>5, <2>6 DEF SessionStep
<1>5. CASE calls = <<Call(Gdb, "abortDebugger")>>
  <2>1. Next1 = Call(Gdb, "abortDebugger") /\ calls # <<>>
    BY <1>5, OnlyStatement
  <2>2. Next1[2] = "abortDebugger"
    BY <2>1 DEF Call
  <2>3. AbortDebugger
    BY <1>1, <2>1, <2>2, Busy, Dispatch DEF GdbWords
  <2>4. UNCHANGED <<state, posted, runControl, gdb, program, output, waiting>>
    BY <1>1, <2>3 DEF AbortDebugger, engineRest
  <2>5. Unfold(<<>>) \/ Unfold(<<Call(Gdb, "quitDebugger")>>)
    BY <2>3, Zenon DEF AbortDebugger
  <2>6. calls' = <<>> \/ calls' = <<Call(Gdb, "quitDebugger")>>
    BY <1>5, <2>5, OnlyStatement
  <2>7. BeforeLaunch'
    BY <2>4, <2>6 DEF BeforeLaunch, Delayed, InState
  <2> QED BY <1>1, <2>4, <2>7 DEF SessionStep
<1>6. CASE calls = <<Call(Gdb, "attemptBreakpointSynchronization")>>
  <2>1. Next1 = Call(Gdb, "attemptBreakpointSynchronization") /\ calls # <<>>
    BY <1>6, OnlyStatement
  <2>2. Next1[2] = "attemptBreakpointSynchronization"
    BY <2>1 DEF Call
  <2>3. AttemptBreakpointSynchronization
    BY <1>1, <2>1, <2>2, Busy, Dispatch
  <2>4. UNCHANGED <<state, posted, runControl, gdb, program, output, waiting>>
    BY <2>3 DEF AttemptBreakpointSynchronization, engineRest, pipes, processes
  <2>5. ~StateAcceptsBreakpointChanges
    BY <1>2 DEF StateAcceptsBreakpointChanges
  <2>6. Unfold(<<>>)
    BY <2>3, <2>5 DEF AttemptBreakpointSynchronization
  <2>7. calls' = <<>>
    BY <1>6, <2>6, OnlyStatement
  <2>8. BeforeLaunch'
    BY <2>4, <2>7 DEF BeforeLaunch, Delayed, InState
  <2> QED BY <1>1, <2>4, <2>8 DEF SessionStep
<1> QED
  BY <1>3, <1>4, <1>5, <1>6 DEF Delayed

LEMMA FailingStep ==
    ASSUME Alone, SetUpFails, Next
    PROVE  (SetUpFails \/ Failed)' /\ SessionStep
<1> DEFINE set1 == Set(Gdb, "EngineSetupFailed")
           set2 == Set(Gdb, "DebuggerFinished")
           failed == Call(Gdb, "startFailed")
<1>1. gdb = "NotRunning" /\ ~Outside /\ runControl = "running"
  BY NotLaunched DEF SetUpFails
<1>2. calls # <<>>
  BY Short DEF SetUpFails
<1>3. Handlers
  BY <1>1, <1>2, Busy
<1>4. CASE calls = <<Call(Gdb, "notifyEngineSetupFailed")>>
  <2>1. Next1 = Call(Gdb, "notifyEngineSetupFailed")
    BY <1>4, OnlyStatement
  <2>2. Next1[2] = "notifyEngineSetupFailed"
    BY <2>1 DEF Call
  <2>3. NotifyEngineSetupFailed(Gdb) /\ UNCHANGED gdbVars
    BY <1>3, <2>2, Dispatch DEF GdbWords
  <2>4. <<set1>>
       \o IfMaster(Gdb, <<failed>>) \o <<set2>> = <<set1, failed, set2>>
    <3>1. IfMaster(Gdb, <<failed>>) = <<failed>>
      BY DEF Alone, IfMaster, When
    <3> HIDE DEF set1, set2, failed
    <3>2. (<<set1>> \o <<failed>>) \o <<set2>> = <<set1, failed, set2>>
      BY Joined, Zenon
    <3> QED BY <3>1, <3>2, Zenon
  <2>5. /\ Unfold(<<set1, failed, set2>>)
        /\ UNCHANGED <<state, posted, runControl>>
    BY <1>4, <2>3, <2>4, Zenon DEF NotifyEngineSetupFailed, Method
  <2>6. calls' = <<set1, failed, set2>>
    BY <1>4, <2>5, OnlyStatement
  <2>7. SetUpFails'
    <3>1. InState("EngineSetupRequested")
      BY <1>4, Short DEF SetUpFails, Call, Set
    <3> QED BY <1>1, <2>3, <2>5, <2>6, <3>1 DEF SetUpFails, InState, gdbVars
  <2> QED BY <1>1, <2>5, <2>7 DEF SessionStep
<1>5. CASE calls = <<set1, failed, set2>>
  <2>1. Next1 = set1
    BY <1>5, FirstOfThree
  <2>2. Next1[2] = "setState"
    BY <2>1 DEF Set
  <2>3. SetState(Gdb) /\ UNCHANGED gdbVars
    BY <1>3, <2>2, Dispatch DEF GdbWords
  <2>4. calls' = <<failed, set2>> /\ UNCHANGED <<posted, runControl>>
        /\ state' = [state EXCEPT ![Gdb] = "EngineSetupFailed"]
    BY <1>5, <2>1, <2>3, StateSet, FirstOfThree
  <2>5. InState("EngineSetupFailed")'
    BY <2>4 DEF SetUpFails, InState, Alone
  <2>6. SetUpFails'
    BY <1>1, <2>3, <2>4, <2>5 DEF SetUpFails, gdbVars
  <2> QED BY <1>1, <2>4, <2>6 DEF SessionStep
<1>6. CASE calls = <<failed, set2>>
  <2>1. Next1 = failed
    BY <1>6, FirstOfTwo
  <2>2. Next1[2] = "startFailed"
    BY <2>1 DEF Call
  <2>3. StartFailed /\ UNCHANGED gdbVars
    BY <1>3, <2>2, Dispatch DEF GdbWords
  <2>4. runControl' = "failed" /\ UNCHANGED <<state, posted>> /\ UNCHANGED gdbVars
    BY <1>1, <2>3 DEF StartFailed
  <2>5. calls' = <<set2>>
    BY <1>6, <2>3, FirstOfTwo DEF StartFailed
  <2>6. state' \in [Engines -> StateWords]
    <3>1. InState("EngineSetupFailed")
      BY <1>6, Short DEF SetUpFails, Call, Set
    <3> QED BY <2>4, <3>1 DEF InState, StateWords
  <2>7. CASE posted = <<>>
    <3>1. set2 \in Statements(LateWords) /\ StateWords \subseteq LateWords
      BY StagesAreLate, Vocabulary DEF StateWords
    <3>2. calls' \in Seq(Statements(LateWords))
      <4> HIDE DEF set2
      <4> QED BY <2>5, <3>1, Lists
    <3>3. posted' = <<>> /\ waiting' = <<>>
      BY <2>4, <2>7 DEF SetUpFails, gdbVars
    <3>4. state' \in [Engines -> LateWords \union Stopping]
      BY <2>6, <3>1
    <3>5. Speaks(LateWords)'
      BY <3>2, <3>3, <3>4, Lists DEF Speaks
    <3> QED BY <1>1, <2>4, <3>5 DEF Failed, SessionStep, gdbVars
  <2>8. CASE posted = <<Call(Gdb, "doSetupEngine")>>
    <3>1. Stale'
      BY <1>1, <2>4, <2>5, <2>6, <2>8 DEF SetUpFails, Stale, gdbVars
    <3> QED BY <1>1, <2>4, <3>1 DEF Failed, SessionStep, gdbVars
  <2> QED BY <2>7, <2>8 DEF SetUpFails
<1> QED
  BY <1>4, <1>5, <1>6 DEF SetUpFails

LEMMA StaleStep ==
    ASSUME Alone, runControl = "failed", Stale, Next
    PROVE  (Stale \/ Speaks(LateWords))'
<1>1. gdb = "NotRunning" /\ ~Outside
  BY NotLaunched DEF Stale
<1>2. CASE calls = <<Set(Gdb, "DebuggerFinished")>>
  <2>1. Next1 = Set(Gdb, "DebuggerFinished") /\ calls # <<>>
    BY <1>2, OnlyStatement
  <2>2. Next1[2] = "setState"
    BY <2>1 DEF Set
  <2>3. SetState(Gdb) /\ UNCHANGED gdbVars
    BY <1>1, <2>1, <2>2, Busy, Dispatch DEF GdbWords
  <2>4. calls' = <<>> /\ UNCHANGED posted
        /\ state' = [state EXCEPT ![Gdb] = "DebuggerFinished"]
    BY <1>2, <2>1, <2>3, StateSet, OnlyStatement
  <2>5. state' \in [Engines -> StateWords]
    BY <2>4 DEF Stale, StateWords
  <2>6. posted = <<Call(Gdb, "doSetupEngine")>>
    BY <1>2, Short DEF Stale, Set, Call
  <2> QED BY <2>3, <2>4, <2>5, <2>6 DEF Stale, gdbVars
<1>3. CASE calls = <<>>
  <2>1. ~Handlers
    BY <1>3, Inside DEF Idle
  <2>2. ~StartDebugger /\ ~GdbOutput /\ ~User
    BY DEF Stale, StartDebugger, GdbOutput, HandleResultRecord,
         HandleStopResponse, HandleGdbFinished, Reads, User, UserContinues,
         ExecuteStepOut, UserInterrupts, DetachDebugger, UserQuits,
         UserAborts, UserAddsBreakpoint, UserActs, May
  <2>3. RunPosted /\ UNCHANGED gdbVars
    BY <1>1, <2>1, <2>2 DEF Next, EventLoop, Outside
  <2>4. posted = <<Call(Gdb, "doSetupEngine")>>
    BY <1>3, Short DEF Stale
  <2>5. Head(posted) = Call(Gdb, "doSetupEngine") /\ Tail(posted) = <<>>
    BY <2>4, Short
  <2>6. /\ calls' = <<Call(Gdb, "doSetupEngine")>> /\ posted' = <<>>
        /\ UNCHANGED state
    BY <2>3, <2>5 DEF RunPosted, Event
  <2> QED BY <2>3, <2>6 DEF Stale, gdbVars
<1>4. CASE calls = <<Call(Gdb, "doSetupEngine")>> /\ posted = <<>>
  <2>1. Next1 = Call(Gdb, "doSetupEngine") /\ calls # <<>>
    BY <1>4, OnlyStatement
  <2>2. Next1[2] = "doSetupEngine"
    BY <2>1 DEF Call
  <2>3. DoSetupEngine(Gdb) /\ UNCHANGED gdbVars
    BY <1>1, <2>1, <2>2, Busy, Dispatch DEF GdbWords
  <2>4. calls' = <<Call(Gdb, "setupEngine")>> /\ UNCHANGED <<state, posted>>
    BY <1>4, <2>3, AloneMethod, OnlyStatement DEF DoSetupEngine
  <2> QED BY <1>4, <2>3, <2>4 DEF Stale, gdbVars
<1>5. CASE calls = <<Call(Gdb, "setupEngine")>> /\ posted = <<>>
  <2> DEFINE ok == Call(Gdb, "notifyEngineSetupOk")
             failed == Call(Gdb, "notifyEngineSetupFailed")
  <2>1. Next1 = Call(Gdb, "setupEngine") /\ calls # <<>>
    BY <1>5, OnlyStatement
  <2>2. Next1[2] = "setupEngine"
    BY <2>1 DEF Call
  <2>3. SetupEngine
    BY <1>1, <2>1, <2>2, Busy, Dispatch DEF GdbWords
  <2>4. calls' = <<failed>> \/ calls' = <<ok>>
    BY <1>5, <2>3, OnlyStatement DEF SetupEngine
  <2>5. /\ ok \in Statements(LateWords) /\ failed \in Statements(LateWords)
        /\ StateWords \subseteq LateWords
    <3>1. "notifyEngineSetupFailed" \in LateWords
      BY DEF LateWords, Failing
    <3> QED BY <3>1, StagesAreLate, Vocabulary DEF EngineWords, Failing
  <2> HIDE DEF ok, failed
  <2>6. calls' \in Seq(Statements(LateWords))
    BY <2>4, <2>5, Lists
  <2>7. posted' = <<>> /\ waiting' = <<>> /\ state' = state
    BY <1>5, <2>3 DEF Stale, SetupEngine, engineRest
  <2>8. state' \in [Engines -> LateWords \union Stopping]
    BY <2>5, <2>7 DEF Stale
  <2>9. Speaks(LateWords)'
    BY <2>6, <2>7, <2>8, Lists DEF Speaks
  <2> QED BY <2>9
<1> QED
  BY <1>2, <1>3, <1>4, <1>5 DEF Stale

LEMMA FailedStep ==
    ASSUME Alone, IInv, Failed, Next
    PROVE  Failed' /\ SessionStep
<1>1. runControl' = runControl
  BY Steps DEF Failed, StartDebugger, StartFailed, DoFinishDebugger
<1>2. CASE Stale
  BY <1>1, <1>2, StaleStep DEF Failed, SessionStep
<1>3. CASE Speaks(LateWords)
  <2>1. Speaks(LateWords)'
    BY <1>3, StepSpeaks, StagesAreLate DEF IInv, Failed
  <2> QED BY <1>1, <2>1 DEF Failed, SessionStep
<1> QED
  BY <1>2, <1>3 DEF Failed

LEMMA LaunchedStep ==
    ASSUME Alone, Launched, Next
    PROVE  (Launched \/ InSession)' /\ SessionStep
<1> DEFINE set == Set(Gdb, "EngineSetupOk")
           queue == Call(Gdb, "queueSetupInferior")
<1>1. calls # <<>>
  BY Short DEF Launched
<1>2. CASE Outside
  <2>1. UNCHANGED <<state, calls, posted, runControl, waiting>>
    BY <1>2, OutsideStep
  <2>2. Launched'
    BY <2>1 DEF Launched, InState
  <2> QED BY <2>1, <2>2 DEF Launched, SessionStep
<1>3. CASE Handlers /\ calls = <<Call(Gdb, "notifyEngineSetupOk")>>
  <2>1. Next1 = Call(Gdb, "notifyEngineSetupOk")
    BY <1>3, OnlyStatement
  <2>2. Next1[2] = "notifyEngineSetupOk"
    BY <2>1 DEF Call
  <2>3. NotifyEngineSetupOk(Gdb) /\ UNCHANGED gdbVars
    BY <1>3, <2>2, Dispatch DEF GdbWords
  <2>4. <<set>> \o IfMaster(Gdb, <<queue>>) = <<set, queue>>
    <3>1. IfMaster(Gdb, <<queue>>) = <<queue>>
      BY DEF Alone, IfMaster, When
    <3> HIDE DEF set, queue
    <3>2. \A a, b : <<a>> \o <<b>> = <<a, b>>
      BY Joined, Zenon
    <3> QED BY <3>1, <3>2, Zenon
  <2>5. Unfold(<<set, queue>>) /\ UNCHANGED <<state, posted, runControl>>
    BY <1>3, <2>3, <2>4, Zenon DEF NotifyEngineSetupOk, Method
  <2>6. calls' = <<set, queue>>
    BY <1>3, <2>5, OnlyStatement
  <2>7. Launched'
    BY <2>3, <2>5, <2>6 DEF Launched, InState, gdbVars
  <2> QED BY <2>5, <2>7 DEF Launched, SessionStep
<1>4. CASE Handlers /\ calls = <<set, queue>>
  <2>1. Next1 = set
    BY <1>4, FirstOfTwo
  <2>2. Next1[2] = "setState"
    BY <2>1 DEF Set
  <2>3. SetState(Gdb) /\ UNCHANGED gdbVars
    BY <1>4, <2>2, Dispatch DEF GdbWords
  <2>4. /\ calls' = <<queue>> /\ UNCHANGED <<posted, runControl>>
        /\ state' = [state EXCEPT ![Gdb] = "EngineSetupOk"]
    BY <1>4, <2>1, <2>3, StateSet, FirstOfTwo
  <2>5. queue \in Statements(Harmless) /\ "EngineSetupOk" \in Harmless
    <3>1. Harmless \in Stages
      BY StagesAreLate
    <3>2. queue \in Statements(Harmless) /\ StateWords \subseteq Harmless
      BY <3>1, Vocabulary DEF EngineWords
    <3> QED BY <3>2 DEF StateWords
  <2>6. /\ calls' \in Seq(Statements(Harmless))
        /\ posted' \in Seq(SlotCalls(Harmless))
        /\ waiting' \in Seq(CommandWords)
    <3>1. posted' = <<>> /\ waiting' = <<>>
      BY <2>3, <2>4 DEF Launched, gdbVars
    <3> HIDE DEF queue
    <3> QED BY <2>4, <2>5, <3>1, Lists, Zenon
  <2>7. state' \in [Engines -> Harmless \union Stopping]
    BY <2>4, <2>5 DEF Launched, InState, Alone
  <2>8. InSession'
    BY <2>4, <2>6, <2>7 DEF Launched, InSession, Speaks
  <2> QED BY <2>4, <2>8 DEF Launched, SessionStep
<1> QED
  BY <1>1, <1>2, <1>3, <1>4, Busy DEF Launched

----------------------------------------------------------------------------
(* The results.                                                            *)

LEMMA InvInit ==
    ASSUME Init
    PROVE  IInv /\ Contract!Init
<1>1. Types
  BY DEF Init, InitGdb, Types
<1>2. Ready
  BY DEF Init, InitEngines, InitGdb, Ready, InState
<1>3. Contract!Init
  BY DEF Init, InitEngines, InitGdb, Contract!Init
<1> QED
  BY <1>1, <1>2, <1>3 DEF IInv

LEMMA InvNext ==
    ASSUME Alone, IInv, [Next]_vars
    PROVE  IInv' /\ [Contract!Next]_(Contract!contractVars)
<1>1. CASE Next
  <2>1. Types'
    BY <1>1, TypesStep DEF IInv
  <2>2. /\ SessionStep
        /\ \/ Ready' \/ BeforeLaunch' \/ SetUpFails' \/ Launched'
           \/ InSession' \/ GdbGone' \/ Over' \/ Failed'
    <3>1. CASE Ready
      BY <1>1, <3>1, ReadyStep
    <3>2. CASE BeforeLaunch
      BY <1>1, <3>2, StartingStep, DelayedStep DEF BeforeLaunch
    <3>3. CASE SetUpFails
      BY <1>1, <3>3, FailingStep
    <3>4. CASE Launched
      BY <1>1, <3>4, LaunchedStep
    <3>5. CASE InSession \/ GdbGone \/ Over
      BY <1>1, <3>5, SpeakingStep
    <3>6. CASE Failed
      BY <1>1, <3>6, FailedStep
    <3> QED BY <3>1, <3>2, <3>3, <3>4, <3>5, <3>6 DEF IInv
  <2> QED BY <2>1, <2>2, SessionContract DEF IInv
<1>2. CASE UNCHANGED vars
  <2>1. UNCHANGED <<state, calls, posted, runControl, output, waiting, whenDone,
                    toInsert, gdb, program>>
    BY <1>2 DEF vars, engineVars, gdbVars
  <2>2. IInv'
    BY <2>1 DEF IInv, Types, Ready, BeforeLaunch, Starting, Delayed, SetUpFails,
         Launched, InSession, GdbGone, Over, Failed, Stale, Speaks, InState
  <2>3. UNCHANGED Contract!contractVars
    BY <2>1 DEF Contract!contractVars
  <2> QED BY <2>2, <2>3
<1> QED
  BY <1>1, <1>2

(* The phases of a session of an engine that stands alone.                 *)
THEOREM Phases == ASSUME Alone PROVE Spec => []IInv
<1>1. Init => IInv
  BY InvInit
<1>2. IInv /\ [Next]_vars => IInv'
  BY InvNext
<1> QED
  BY <1>1, <1>2, PTL DEF Spec

(* debuggingFinished() is called when gdb is gone, however the session was *)
(* quit, aborted or interrupted.                                           *)
THEOREM GdbIsGone == ASSUME Alone PROVE Spec => []FinishedMeansGdbGone
<1>1. IInv => FinishedMeansGdbGone
  BY DEF IInv, FinishedMeansGdbGone, Ready, BeforeLaunch, SetUpFails,
       Launched, InSession, GdbGone, Over, Failed
<1> QED
  BY <1>1, Phases, PTL

(* The run control hears of the end once, when gdb is gone, and gdb is     *)
(* launched only for a session that runs or was given up before.           *)
THEOREM SessionRefinement == ASSUME Alone PROVE Spec => ContractSpec
<1>1. Init => Contract!Init
  BY InvInit
<1>2. IInv /\ [Next]_vars => [Contract!Next]_(Contract!contractVars)
  BY InvNext
<1> QED
  BY <1>1, <1>2, Phases, PTL DEF Spec, ContractSpec, Contract!Spec

----------------------------------------------------------------------------
(* A stop that the engine reports is real.  A program that gdb says is     *)
(* running is taken for stopped only as long as the news of that is        *)
(* unread: with it read, no statement on the stack speaks of a stop, and   *)
(* the engine is about to leave the state of a stopped program.            *)

(* What gdb's output tells of the program.                                 *)
Runs(r) == \E cmd \in {"run", "continue", "finish"} : r = Result(cmd, "running")
TellsOfStop(r) == r[1] = "stopped" \/ (r[1] = "result" /\ r[3] = "notMeaningful")

Reasons == {"", "breakpoint-hit", "signal-received", "exited"}
Classes == {"done", "error", "running", "notMeaningful", "exit"}
Reports ==
    ({"stopped", "finished"} \X Reasons)
      \union ({"result"} \X CommandWords \X Classes)

IsRunning == gdb = "Running" /\ program = "running"

(* Behind every stop that gdb has reported of a program that runs now is   *)
(* a report that it runs.                                                  *)
InOrder ==
    IsRunning =>
        \A i \in DOMAIN output :
            TellsOfStop(output[i]) =>
                \E j \in DOMAIN output : i < j /\ Runs(output[j])

(* The program runs, and no news of that is unread.                        *)
Told == IsRunning /\ \A i \in DOMAIN output : ~Runs(output[i])

(* notifyInferiorIll() passes through InferiorStopOk.                      *)
Passing(stmts) ==
    /\ stmts # <<>> /\ Head(stmts) = Set(Gdb, "InferiorStopOk")
    /\ Tail(stmts) \in Seq(Statements(CalmWords)) /\ Tail(stmts) # <<>>
    /\ Head(Tail(stmts)) = Call(Gdb, "queueShutdownInferior")

SaysNoStop ==
    \/ calls \in Seq(Statements(CalmWords))
    \/ Passing(calls)
    \/ /\ calls # <<>> /\ Head(calls) = Set(Gdb, "InferiorRunFailed")
       /\ Passing(Tail(calls))

(* The statements that leave InferiorStopOk.                               *)
Leaving == {Call(Gdb, "notifyInferiorRunOk"),
            Call(Gdb, "notifyEngineRunAndInferiorRunOk"),
            Set(Gdb, "InferiorRunOk"),
            Call(Gdb, "queueShutdownInferior"),
            Set(Gdb, "InferiorShutdownRequested")}

StopIsLeft ==
    state[Gdb] = "InferiorStopOk" => calls # <<>> /\ Head(calls) \in Leaving

StopInv ==
    /\ output \in Seq(Reports)
    /\ InOrder
    /\ Told => SaysNoStop /\ StopIsLeft

(* Once gdb runs, the session is late.                                     *)
LEMMA LateWhenRunning ==
    ASSUME Alone, IInv, gdb = "Running"
    PROVE  Speaks(LateWords) /\ runControl # "ready"
<1>1. CASE Launched
  <2> DEFINE a == Call(Gdb, "notifyEngineSetupOk")
             b == Set(Gdb, "EngineSetupOk")
             c == Call(Gdb, "queueSetupInferior")
             S == Statements(LateWords)
  <2>1. a \in S /\ b \in S /\ c \in S
    BY StagesAreLate, Vocabulary DEF EngineWords, StateWords
  <2>2. calls = <<a>> \/ calls = <<b, c>>
    BY <1>1 DEF Launched
  <2>3. posted = <<>> /\ waiting = <<>> /\ runControl = "running"
    BY <1>1 DEF Launched
  <2>4. state \in [Engines -> LateWords \union Stopping]
    BY <1>1 DEF Launched, InState, LateWords, Failing
  <2> HIDE DEF a, b, c, S
  <2>5. calls \in Seq(S)
    BY <2>1, <2>2, Lists
  <2>6. Speaks(LateWords)
    BY <2>3, <2>4, <2>5, Lists DEF Speaks, S
  <2> QED BY <2>3, <2>6
<1>2. CASE InSession \/ GdbGone \/ Over
  <2>1. Speaks(Harmless) \/ Speaks(GoneWords)
    BY <1>2 DEF InSession, GdbGone, Over
  <2>2. Harmless \subseteq LateWords /\ GoneWords \subseteq LateWords
    BY StagesAreLate
  <2> QED BY <1>2, <2>1, <2>2, Widen DEF InSession, GdbGone, Over
<1>3. CASE Failed
  BY <1>3 DEF Failed, Stale
<1> QED
  BY <1>1, <1>2, <1>3 DEF IInv, Ready, BeforeLaunch, SetUpFails

(* gdb is launched with no program.                                        *)
LEMMA LaunchIsFirst ==
    ASSUME Alone, IInv, SetupEngine
    PROVE  program = "none"
<1>1. Enter(Gdb, "setupEngine")
  BY DEF SetupEngine
<1>2. CASE Ready
  BY <1>1, <1>2 DEF Ready, Enter, Idle
<1>3. CASE Launched
  <2>1. \/ Next1 = Call(Gdb, "notifyEngineSetupOk")
        \/ Next1 = Set(Gdb, "EngineSetupOk")
    BY <1>3, OnlyStatement, FirstOfTwo DEF Launched
  <2> QED BY <1>1, <2>1 DEF Enter, Call, Set
<1>4. CASE Speaks(Harmless) \/ Speaks(GoneWords) \/ Speaks(LateWords)
  BY <1>4, PastLaunch, StagesAreLate
<1> QED
  BY <1>2, <1>3, <1>4 DEF IInv, BeforeLaunch, SetUpFails, InSession, GdbGone,
     Over, Failed, Stale

(* Which steps write to gdb's output and move the program.                 *)
LEMMA PipesStep ==
    ASSUME Next, ~Outside
    PROVE  /\ program' = program
           /\ \/ output' = output
              \/ gdb' = "Ended" /\ output' = Append(output, Says("finished", ""))
              \/ GdbOutput /\ output # <<>> /\ output' = Tail(output)
<1> DEFINE Kept == program' = program /\ output' = output
<1>1. UNCHANGED gdbVars => Kept
  BY DEF gdbVars
<1>2. CASE GdbHandlers
  <2>1. CASE \/ InterruptInferiorTemporarily \/ SetupInferior \/ RunEngine
             \/ ContinueInferior \/ InterruptForQueued \/ HandleInferiorPrepared
             \/ FinishInferiorSetup
    BY <1>1, <2>1 DEF InterruptInferiorTemporarily, SetupInferior, RunEngine,
         ContinueInferior, InterruptForQueued, HandleInferiorPrepared,
         FinishInferiorSetup, GdbMethod
  <2>2. CASE \/ Flush \/ PostCommandHelper \/ FlushQueuedCommands
             \/ AttemptBreakpointSynchronization
    BY <2>2 DEF Flush, PostCommandHelper, FlushQueuedCommands,
         AttemptBreakpointSynchronization, processes, pipes
  <2>3. CASE \/ InterruptInferior \/ ShutdownInferior \/ ShutdownEngine
             \/ CommandsDone \/ FinishWhenDone \/ ContinueWhenDone
             \/ SetupEngine
    BY <2>3 DEF InterruptInferior, ShutdownInferior, ShutdownEngine,
         CommandsDone, FinishWhenDone, ContinueWhenDone, SetupEngine,
         processes, pipes
  <2>4. CASE AbortDebugger
    BY <2>4 DEF AbortDebugger, Die
  <2> QED BY <1>2, <2>1, <2>2, <2>3, <2>4 DEF GdbHandlers
<1>3. CASE GdbOutput
  BY <1>3 DEF GdbOutput, HandleResultRecord, HandleStopResponse,
       HandleGdbFinished, Reads, processes
<1>4. CASE User
  BY <1>4 DEF User, UserContinues, ExecuteStepOut, UserInterrupts,
       DetachDebugger, UserQuits, UserAborts, UserAddsBreakpoint, UserActs,
       processes, pipes
<1> HIDE DEF Kept
<1>5. Handlers => GdbHandlers \/ UNCHANGED gdbVars
  BY DEF Handlers
<1>6. EventLoop => GdbOutput \/ UNCHANGED gdbVars
  BY DEF EventLoop
<1> QED
  BY <1>1, <1>2, <1>3, <1>4, <1>5, <1>6 DEF Next, Outside, Kept

(* The program runs on gdb's word only, which is then the last of its      *)
(* output.                                                                 *)
LEMMA OutsideReports ==
    ASSUME Outside, output \in Seq(Reports)
    PROVE  /\ output' \in Seq(Reports)
           /\ IsRunning' => \E r \in Reports : Runs(r) /\ output' = Append(output, r)
<1>1. /\ \A cmd \in CommandWords, class \in Classes : Result(cmd, class) \in Reports
      /\ \A why \in Reasons : Says("stopped", why) \in Reports
      /\ Says("finished", "") \in Reports
  BY DEF Reports, Reasons, Result, Says
<1>2. CASE GdbAnswers
  <2>1. PICK cmd \in CommandWords, class \in Classes,
             becomes \in {program, "running", "none"} :
           /\ Answers(cmd, class, becomes)
           /\ becomes = "running" =>
                \/ becomes = program
                \/ cmd \in {"run", "continue", "finish"} /\ class = "running"
    BY <1>2 DEF GdbAnswers, CommandWords, Classes
  <2> DEFINE r == Result(cmd, class)
  <2>2. r \in Reports
    BY <1>1
  <2>3. becomes = "running" => Runs(r) /\ cmd # "exit"
    BY <2>1 DEF Answers, Runs
  <2> HIDE DEF r
  <2>4. /\ program' = becomes
        /\ cmd = "exit" => output' = Append(output, r) \o <<Says("finished", "")>>
        /\ cmd # "exit" => output' = Append(output, r) \o <<>>
    BY <2>1 DEF Answers, r
  <2>5. Append(output, r) \in Seq(Reports)
    BY <2>2
  <2>6. <<Says("finished", "")>> \in Seq(Reports) /\ <<>> \in Seq(Reports)
    BY <1>1, Lists
  <2>7. Append(output, r) \o <<>> = Append(output, r)
    BY <2>5
  <2>8. output' \in Seq(Reports)
    BY <2>4, <2>5, <2>6, Lists, Zenon
  <2>9. ASSUME program' = "running"
        PROVE  Runs(r) /\ output' = Append(output, r)
    BY <2>3, <2>4, <2>7, <2>9
  <2> QED BY <2>2, <2>8, <2>9 DEF IsRunning
<1>3. CASE ProgramIsInterrupted \/ Program
  <2>1. PICK why \in Reasons, becomes \in {"stopped", "none"} : Stops(why, becomes)
    BY <1>3 DEF ProgramIsInterrupted, Program, ProgramHitsBreakpoint,
         ProgramExits, Reasons
  <2>2. Says("stopped", why) \in Reports
    BY <1>1
  <2> DEFINE r == Says("stopped", why)
  <2>3. output' = Append(output, r) /\ program' # "running"
    BY <2>1 DEF Stops
  <2> HIDE DEF r
  <2>4. Append(output, r) \in Seq(Reports)
    BY <2>2 DEF r
  <2> QED BY <2>3, <2>4 DEF IsRunning
<1>4. CASE GdbDies
  <2> DEFINE r == Says("finished", "")
  <2>1. output' = Append(output, r) /\ gdb' = "Ended" /\ r \in Reports
    BY <1>1, <1>4 DEF GdbDies, Die
  <2> HIDE DEF r
  <2>2. Append(output, r) \in Seq(Reports)
    BY <2>1
  <2> QED BY <2>1, <2>2 DEF IsRunning
<1> QED
  BY <1>2, <1>3, <1>4 DEF Outside, GdbProcess

(* gdb's output stays one of reports.                                      *)
LEMMA OutputType ==
    ASSUME Next, output \in Seq(Reports)
    PROVE  output' \in Seq(Reports)
<1>1. CASE Outside
  BY <1>1, OutsideReports
<1>2. CASE ~Outside
  <2> DEFINE r == Says("finished", "")
  <2>1. r \in Reports
    BY DEF Reports, Reasons, Says
  <2>2. \/ output' = output \/ output' = Append(output, r)
        \/ output # <<>> /\ output' = Tail(output)
    BY <1>2, PipesStep
  <2> HIDE DEF r
  <2>3. Append(output, r) \in Seq(Reports)
    BY <2>1
  <2>4. output # <<>> => Tail(output) \in Seq(Reports)
    BY Heads
  <2> QED BY <2>2, <2>3, <2>4
<1> QED
  BY <1>1, <1>2

(* A program that runs after a step that is not its own ran before it, and *)
(* gdb was launched long ago.                                              *)
LEMMA RunsOn ==
    ASSUME Alone, IInv, Next, ~Outside, IsRunning'
    PROVE  /\ IsRunning /\ ~SetupEngine /\ ~HandleGdbFinished
           /\ Speaks(LateWords) /\ runControl # "ready"
           /\ output' = output \/ (GdbOutput /\ output # <<>> /\ output' = Tail(output))
<1>1. program = "running" /\ gdb' = "Running"
  BY PipesStep DEF IsRunning
<1>2. ~SetupEngine
  BY <1>1, LaunchIsFirst
<1>3. gdb = "Running"
  BY <1>1, <1>2, TypesStep DEF IInv
<1>4. ~HandleGdbFinished
  BY <1>1 DEF HandleGdbFinished
<1> QED
  BY <1>1, <1>2, <1>3, <1>4, PipesStep, LateWhenRunning DEF IsRunning

(* The reports that are left when the first is read.                       *)
LEMMA FirstRead ==
    ASSUME output \in Seq(Reports), output # <<>>, output' = Tail(output)
    PROVE  /\ Head(output) = output[1] /\ 1 \in DOMAIN output
           /\ \A i \in DOMAIN output : /\ i \in Nat
                                       /\ i # 1 => i - 1 \in DOMAIN output'
                                                   /\ output'[i - 1] = output[i]
           /\ \A i \in DOMAIN output' : /\ i \in Nat /\ i + 1 \in DOMAIN output
                                        /\ output'[i] = output[i + 1]
<1>1. /\ Len(output) \in Nat \ {0} /\ DOMAIN output = 1..Len(output)
      /\ Tail(output) \in Seq(Reports) /\ Len(Tail(output)) = Len(output) - 1
      /\ DOMAIN Tail(output) = 1..(Len(output) - 1)
      /\ \A i \in 1..(Len(output) - 1) : Tail(output)[i] = output[i+1]
      /\ Head(output) = output[1]
  OBVIOUS
<1>2. ASSUME NEW i \in DOMAIN output
      PROVE  /\ i \in Nat
             /\ i # 1 => i - 1 \in DOMAIN output' /\ output'[i - 1] = output[i]
  BY <1>1
<1>3. ASSUME NEW i \in DOMAIN output'
      PROVE  i \in Nat /\ i + 1 \in DOMAIN output /\ output'[i] = output[i + 1]
  BY <1>1
<1> QED
  BY <1>1, <1>2, <1>3

(* What is read first, and what is appended, keeps the order.              *)
LEMMA OrderStep ==
    ASSUME Alone, IInv, output \in Seq(Reports), InOrder, Next
    PROVE  InOrder'
<1> SUFFICES ASSUME IsRunning',
                    NEW i \in DOMAIN output', TellsOfStop(output'[i])
             PROVE  \E j \in DOMAIN output' : i < j /\ Runs(output'[j])
  BY DEF InOrder, TellsOfStop, Runs, Result
<1>1. CASE Outside
  <2>1. PICK r \in Reports : Runs(r) /\ output' = Append(output, r)
    BY <1>1, OutsideReports
  <2>2. ~TellsOfStop(r)
    BY <2>1 DEF Runs, TellsOfStop, Result
  <2> DEFINE n == Len(output) + 1
  <2>3. /\ n \in DOMAIN output' /\ output'[n] = r
        /\ i # n => i < n
    BY <2>1
  <2> HIDE DEF n
  <2> QED BY <2>1, <2>2, <2>3
<1>2. CASE ~Outside /\ output' = output
  BY <1>2, RunsOn DEF InOrder
<1>3. CASE ~Outside /\ output # <<>> /\ output' = Tail(output)
  <2>1. IsRunning
    BY <1>3, RunsOn
  <2>2. i \in Nat /\ i + 1 \in DOMAIN output /\ TellsOfStop(output[i + 1])
    BY <1>3, FirstRead
  <2>3. PICK j \in DOMAIN output : i + 1 < j /\ Runs(output[j])
    BY <2>1, <2>2 DEF InOrder
  <2>4. j \in Nat /\ j # 1 /\ i < j - 1
    BY <1>3, <2>2, <2>3, FirstRead
  <2>5. j - 1 \in DOMAIN output' /\ Runs(output'[j - 1])
    BY <1>3, <2>3, <2>4, FirstRead
  <2> QED BY <2>4, <2>5
<1> QED
  BY <1>1, <1>2, <1>3, RunsOn

(* What is taken from a stack with a body on it.                           *)
LEMMA Stacked ==
    ASSUME NEW S, NEW a \in S, NEW b \in S, NEW t \in Seq(S)
    PROVE  /\ <<a>> \o t # <<>> /\ Head(<<a>> \o t) = a
           /\ <<a, b>> \o t # <<>> /\ Head(<<a, b>> \o t) = a
<1>1. <<a>> \o t # <<>> /\ Head(<<a>> \o t) = a
  OBVIOUS
<1>2. <<a, b>> \o t # <<>> /\ Head(<<a, b>> \o t) = a
  OBVIOUS
<1> QED
  BY <1>1, <1>2

(* The same of its first two statements.                                   *)
LEMMA StackedTwice ==
    ASSUME NEW S, NEW a \in S, NEW b \in S, NEW c \in S, NEW t \in Seq(S),
           NEW s, s = (<<a, b>> \o <<c>>) \o t
    PROVE  /\ s # <<>> /\ Head(s) = a
           /\ Tail(s) # <<>> /\ Head(Tail(s)) = b
           /\ Tail(Tail(s)) = <<c>> \o t
<1> DEFINE u == <<c>> \o t
<1>3. u \in Seq(S)
  OBVIOUS
<1>4. (<<a, b>> \o <<c>>) \o t = <<a, b>> \o u
  <2>1. <<a, b>> \in Seq(S) /\ <<c>> \in Seq(S)
    BY Lists
  <2> QED BY <2>1, ConcatAssociative DEF u
<1>1. s = <<a, b>> \o u
  BY <1>4
<1> HIDE DEF u
<1>5. /\ s \in Seq(S) /\ s # <<>> /\ Head(s) = a /\ Len(s) = Len(u) + 2
      /\ Len(u) \in Nat
  BY <1>1, <1>3
<1>6. Tail(s) = <<b>> \o u
  <2>1. <<a, b>> = <<a>> \o <<b>>
    BY Joined, Zenon
  <2>2. <<a>> \in Seq(S) /\ <<b>> \in Seq(S)
    BY Lists
  <2>3. s = <<a>> \o (<<b>> \o u)
    <3>1. (<<a>> \o <<b>>) \o u = <<a>> \o (<<b>> \o u)
      BY <1>3, <2>2, ConcatAssociative
    <3> QED BY <1>1, <2>1, <3>1, Zenon
  <2>4. <<b>> \o u \in Seq(S)
    BY <1>3
  <2> DEFINE v == <<b>> \o u
  <2>5. v \in Seq(S) => Tail(<<a>> \o v) = v
    <3> HIDE DEF v
    <3> QED OBVIOUS
  <2> QED BY <2>3, <2>4, <2>5
<1>7. Tail(s) # <<>> /\ Head(Tail(s)) = b
  BY <1>3, <1>6
<1>8. Tail(Tail(s)) = u
  <2>1. Tail(<<b>> \o u) = u
    BY <1>3
  <2> QED BY <1>6, <2>1, Zenon
<1> QED
  BY <1>5, <1>7, <1>8 DEF u

(* A calm handler speaks of a stop only where notifyInferiorIll() passes   *)
(* through it.                                                             *)
LEMMA IllPasses ==
    ASSUME Alone, Speaks(CalmWords), NotifyInferiorIll(Gdb),
           state[Gdb] = "InferiorRunRequested"
    PROVE  (SaysNoStop /\ StopIsLeft)'
<1> DEFINE S == Statements(CalmWords)
           T == Statements(LateWords)
           a == Set(Gdb, "InferiorRunFailed")
           b == Set(Gdb, "InferiorStopOk")
           c == Call(Gdb, "queueShutdownInferior")
           t == Tail(calls)
<1>1. a \in T /\ b \in T /\ c \in T /\ c \in S
  <2>1. "InferiorStopOk" \in LateWords
    BY StagesAreLate DEF Stopping
  <2> QED BY <2>1, StagesAreLate, Vocabulary DEF EngineWords, StateWords
<1>2. t \in Seq(S) /\ t \in Seq(T)
  <2>1. calls \in Seq(S) /\ calls # <<>>
    BY DEF Speaks, NotifyInferiorIll, DyingMethod, Enter, Idle
  <2>2. calls \in Seq(T)
    BY StagesAreLate, Widen DEF Speaks
  <2> HIDE DEF S, T
  <2> QED BY <2>1, <2>2, Heads
<1>3. calls' = (<<a, b>> \o <<c>>) \o t /\ state' = state
  BY DEF NotifyInferiorIll, DyingMethod, When, Unfold
<1>4. <<c>> \o t \in Seq(S)
  <2> HIDE DEF S, c, t
  <2> QED BY <1>1, <1>2
<1> HIDE DEF S, T, a, b, c, t
<1>5. /\ calls' # <<>> /\ Head(calls') = a
      /\ Tail(calls') # <<>> /\ Head(Tail(calls')) = b
      /\ Tail(Tail(calls')) = <<c>> \o t
      /\ <<c>> \o t # <<>> /\ Head(<<c>> \o t) = c
  BY <1>1, <1>2, <1>3, Stacked, StackedTwice
<1>6. Passing(Tail(calls'))
  BY <1>4, <1>5 DEF Passing, S, b, c
<1>7. SaysNoStop'
  BY <1>5, <1>6 DEF SaysNoStop, Passing, a
<1>8. StopIsLeft'
  BY <1>3 DEF StopIsLeft
<1> QED
  BY <1>7, <1>8

(* A statement that is about to leave the state of a stop goes on to.      *)
LEMMA LeavingStep ==
    ASSUME Alone, Speaks(LateWords), Handlers, calls # <<>>,
           Head(calls) \in Leaving, UNCHANGED state
    PROVE  StopIsLeft'
<1> DEFINE S == Statements(LateWords)
           t == Tail(calls)
           runs == Set(Gdb, "InferiorRunOk")
           ends == Set(Gdb, "InferiorShutdownRequested")
           slot == Post(Gdb, "doShutdownInferior")
<1>1. runs \in S /\ ends \in S /\ slot \in S
  BY StagesAreLate, Vocabulary DEF Slots, StateWords
<1>2. t \in Seq(S) /\ Next1 = Head(calls)
  <2>1. calls \in Seq(S)
    BY DEF Speaks
  <2> HIDE DEF S
  <2> QED BY <2>1, Heads DEF Next1
<1>3. CASE Next1 \in {Set(Gdb, "InferiorRunOk"), Set(Gdb, "InferiorShutdownRequested")}
  <2>1. Next1[2] = "setState" /\ Next1[3] # "InferiorStopOk"
    BY <1>3 DEF Set
  <2>2. SetState(Gdb)
    BY <2>1, Dispatch
  <2>3. state' = [state EXCEPT ![Gdb] = Next1[3]]
    BY <2>2 DEF SetState
  <2>4. Gdb \in DOMAIN state
    BY GdbIsAnEngine DEF Speaks
  <2>5. state'[Gdb] # "InferiorStopOk"
    BY <2>1, <2>3, <2>4
  <2> QED BY <2>5 DEF StopIsLeft
<1>4. CASE Next1 \in {Call(Gdb, "notifyInferiorRunOk"),
                     Call(Gdb, "notifyEngineRunAndInferiorRunOk")}
  <2>1. Next1[2] = "notifyInferiorRunOk" \/ Next1[2] = "notifyEngineRunAndInferiorRunOk"
    <3>1. \A m : Call(Gdb, m)[2] = m
      BY DEF Call
    <3> QED BY <1>4, <3>1
  <2>2. NotifyInferiorRunOk(Gdb) \/ NotifyEngineRunAndInferiorRunOk(Gdb)
    BY <2>1, Dispatch
  <2>3. calls' = <<runs>> \o t
    BY <2>2 DEF NotifyInferiorRunOk, NotifyEngineRunAndInferiorRunOk, Method,
       Unfold
  <2> HIDE DEF S, t, runs, ends, slot
  <2>4. calls' # <<>> /\ Head(calls') = runs
    BY <1>1, <1>2, <2>3, Stacked
  <2> QED BY <2>4 DEF StopIsLeft, Leaving, runs
<1>5. CASE Next1 = Call(Gdb, "queueShutdownInferior")
  <2>1. Next1[2] = "queueShutdownInferior"
    BY <1>5 DEF Call
  <2>2. Method(Gdb, "queueShutdownInferior", <<ends, slot>>)
    BY <2>1, Dispatch
  <2>3. calls' = <<ends, slot>> \o t
    BY <2>2 DEF Method, Unfold
  <2> HIDE DEF S, t, runs, ends, slot
  <2>4. calls' # <<>> /\ Head(calls') = ends
    BY <1>1, <1>2, <2>3, Stacked
  <2> QED BY <2>4 DEF StopIsLeft, Leaving, ends
<1> QED
  BY <1>2, <1>3, <1>4, <1>5 DEF Leaving

(* setState() while a calm handler runs, or while notifyInferiorIll()      *)
(* passes through the stop.                                                *)
LEMMA CalmHandlerStep ==
    ASSUME Alone, Speaks(CalmWords), Types, Handlers, Next,
           runControl # "ready", gdb = "Running",
           StopIsLeft, ~HandleGdbFinished
    PROVE  (SaysNoStop /\ StopIsLeft)'
<1>1. ~HandleStopResponse /\ ~HandleResultRecord
  BY Inside DEF HandleStopResponse, HandleResultRecord, Reads
<1>2. CASE NotifyInferiorIll(Gdb) /\ state[Gdb] = "InferiorRunRequested"
  BY <1>2, IllPasses
<1>3. CASE ~(NotifyInferiorIll(Gdb) /\ state[Gdb] = "InferiorRunRequested")
  <2>1. ~SaysStop
    BY <1>1, <1>3 DEF SaysStop
  <2>2. Speaks(CalmWords)'
    BY <2>1, StepSpeaks, StagesAreLate
  <2>3. SaysNoStop'
    BY <2>2 DEF Speaks, SaysNoStop
  <2>4. CASE UNCHANGED state
    <3>1. CASE state[Gdb] = "InferiorStopOk"
      <4>1. Speaks(LateWords)
        BY StagesAreLate, Widen
      <4> QED BY <2>3, <2>4, <3>1, <4>1, LeavingStep DEF StopIsLeft
    <3>2. CASE state[Gdb] # "InferiorStopOk"
      BY <2>3, <2>4, <3>2 DEF StopIsLeft
    <3> QED BY <3>1, <3>2
  <2>5. CASE SetState(Gdb)
    <3>1. Next1[3] \in CalmWords
      BY <2>5, OnTop DEF SetState
    <3>2. Next1[3] # "InferiorStopOk"
      <4>1. "InferiorStopOk" \in Stopping
        BY DEF Stopping
      <4> QED BY <3>1, <4>1, Apart DEF CalmWords
    <3>3. state' = [state EXCEPT ![Gdb] = Next1[3]] /\ Gdb \in DOMAIN state
      BY <2>5, GdbIsAnEngine DEF SetState, Speaks
    <3>4. state'[Gdb] # "InferiorStopOk"
      BY <3>2, <3>3
    <3> QED BY <2>3, <3>4 DEF StopIsLeft
  <2> QED BY <2>4, <2>5, Inside DEF Alone
<1> QED
  BY <1>2, <1>3

(* The second half of notifyInferiorIll(), one statement at a time.        *)
LEMMA PassingStep ==
    ASSUME Alone, Speaks(LateWords), Handlers,
           \/ Passing(calls)
           \/ /\ calls # <<>> /\ Head(calls) = Set(Gdb, "InferiorRunFailed")
              /\ Passing(Tail(calls))
    PROVE  (SaysNoStop /\ StopIsLeft)'
<1>1. /\ calls # <<>> /\ Next1 = Head(calls)
      /\ Next1 \in {Set(Gdb, "InferiorStopOk"), Set(Gdb, "InferiorRunFailed")}
  BY DEF Passing, Next1
<1>2. Next1[2] = "setState" /\ Next1 = Set(Gdb, Next1[3])
  BY <1>1 DEF Set
<1>3. SetState(Gdb)
  BY <1>2, Dispatch
<1>4. Unfold(<<>>) /\ state' = [state EXCEPT ![Gdb] = Next1[3]]
  BY <1>2, <1>3, StateSet
<1>5. calls' = Tail(calls)
  <2>1. Tail(calls) \in Seq(Statements(LateWords))
    BY <1>1, OnTop DEF Idle
  <2> QED BY <1>4, <2>1 DEF Unfold
<1>6. state'[Gdb] = Next1[3]
  BY <1>4, GdbIsAnEngine DEF Speaks
<1>7. CASE Passing(calls)
  <2>1. Next1[3] = "InferiorStopOk"
    BY <1>1, <1>7 DEF Passing, Set
  <2>2. /\ calls' \in Seq(Statements(CalmWords)) /\ calls' # <<>>
        /\ Head(calls') = Call(Gdb, "queueShutdownInferior")
    BY <1>5, <1>7 DEF Passing
  <2> QED BY <2>2 DEF SaysNoStop, StopIsLeft, Leaving
<1>8. CASE Head(calls) = Set(Gdb, "InferiorRunFailed") /\ Passing(Tail(calls))
  <2>1. Next1[3] = "InferiorRunFailed"
    BY <1>1, <1>8 DEF Set
  <2>2. state'[Gdb] # "InferiorStopOk"
    BY <1>6, <2>1
  <2>3. Passing(calls')
    BY <1>5, <1>8
  <2> QED BY <2>2, <2>3 DEF SaysNoStop, StopIsLeft, Passing
<1> QED
  BY <1>7, <1>8

(* A late engine with only calm statements on its stack is calm.           *)
LEMMA CalmDown ==
    ASSUME Speaks(LateWords), calls \in Seq(Statements(CalmWords))
    PROVE  Speaks(CalmWords)
<1>1. Slots \subseteq CalmWords /\ Slots \subseteq LateWords
  <2>1. Slots \subseteq EngineWords \union Ending
    BY DEF Slots, EngineWords, Ending
  <2>2. EngineWords \union Ending \subseteq CalmWords
    BY DEF CalmWords, CommonWords
  <2> QED BY <2>1, <2>2, StagesAreLate
<1>2. SlotCalls(LateWords) = SlotCalls(CalmWords)
  BY <1>1 DEF SlotCalls
<1>3. LateWords \union Stopping = CalmWords \union Stopping
  BY StagesAreLate
<1> QED
  BY <1>2, <1>3 DEF Speaks

(* A step of the event loop, of the user or of a handler's caller finds    *)
(* the stack empty and leaves the state alone.                             *)
LEMMA IdleStep ==
    ASSUME Next, ~Outside, ~Handlers, runControl # "ready"
    PROVE  /\ calls = <<>> /\ UNCHANGED state
           /\ (RunPosted /\ UNCHANGED gdbVars) \/ GdbOutput \/ User
<1>1. EventLoop \/ User
  BY DEF Next, Outside
<1>2. calls = <<>>
  BY <1>1, Outer DEF Idle
<1>3. (RunPosted /\ UNCHANGED gdbVars) \/ GdbOutput \/ User
  BY <1>1 DEF EventLoop, StartDebugger
<1>4. RunPosted => UNCHANGED state
  BY DEF RunPosted
<1>5. GdbOutput => UNCHANGED state
  BY DEF GdbOutput, HandleResultRecord, HandleStopResponse, HandleGdbFinished,
     engineRest
<1>6. User => UNCHANGED state
  BY DEF User, UserContinues, ExecuteStepOut, UserInterrupts, DetachDebugger,
         UserQuits, UserAborts, UserAddsBreakpoint, UserActs, engineRest
<1> QED
  BY <1>2, <1>3, <1>4, <1>5, <1>6

(* The callback of "-exec-run" when gdb answered that the program runs.     *)
LEMMA RunIsAnswered ==
    ASSUME NEW cmd, NEW class, cmd = "run", class = "running"
    PROVE  Callback(cmd, class) = <<Call(Gdb, "notifyEngineRunAndInferiorRunOk")>>
<1> DEFINE a == <<Call(Gdb, "handleInferiorPrepared")>>
           b == <<Call(Gdb, "notifyInferiorSetupFailed")>>
           c == <<Call(Gdb, "notifyInferiorSetupOk")>>
           d == <<Call(Gdb, "notifyEngineRunAndInferiorRunOk")>>
           f == <<Call(Gdb, "notifyEngineRunFailed")>>
           g == <<Call(Gdb, "notifyInferiorShutdownOk")>>
           h == <<Call(Gdb, "notifyInferiorShutdownFailed")>>
           k == <<Call(Gdb, "notifyInferiorExited")>>
           e == HandleExecuteContinue(class)
<1>1. Callback(cmd, class) =
        CASE cmd = "file" /\ class = "done" -> a
          [] cmd = "file" /\ class # "done" -> b
          [] cmd = "msymbols" -> c
          [] cmd = "run" /\ class = "running" -> d
          [] cmd = "run" /\ class # "running" -> f
          [] cmd \in {"continue", "finish"} -> e
          [] cmd = "kill" /\ class = "done" -> g
          [] cmd = "kill" /\ class # "done" -> h
          [] cmd = "detach" -> k
          [] OTHER -> <<>>
  BY Zenon DEF Callback
<1> HIDE DEF a, b, c, d, e, f, g, h, k
<1>2. Callback(cmd, class) = d
  BY <1>1
<1> QED
  BY <1>2 DEF d

(* What the engine calls when it reads that the program runs.              *)
LEMMA RunIsRead ==
    ASSUME Alone, HandleResultRecord, Runs(Head(output))
    PROVE  calls' # <<>> /\ Head(calls') \in Leaving
<1> DEFINE S == Statements(LateWords)
           resync == <<Call(Gdb, "attemptBreakpointSynchronization")>>
           end == <<Call(Gdb, "interruptForQueued"), Call(Gdb, "commandsDone")>>
<1>1. PICK cmd \in {"run", "continue", "finish"} : Head(output) = Result(cmd, "running")
  BY DEF Runs
<1>2. Head(output)[2] = cmd /\ Head(output)[3] = "running"
  BY <1>1 DEF Result
<1>3. PICK a \in S : a \in Leaving /\ Callback(cmd, "running") = <<a>>
  <2>1. /\ Call(Gdb, "notifyInferiorRunOk") \in S
        /\ Call(Gdb, "notifyEngineRunAndInferiorRunOk") \in S
    BY StagesAreLate, Vocabulary DEF EngineWords
  <2>2. CASE cmd = "run"
    <3>1. Callback(cmd, "running") = <<Call(Gdb, "notifyEngineRunAndInferiorRunOk")>>
      BY <2>2, RunIsAnswered
    <3> HIDE DEF S
    <3> QED BY <2>1, <3>1 DEF Leaving
  <2>3. CASE cmd \in {"continue", "finish"}
    <3>1. HandleExecuteContinue("running") = <<Call(Gdb, "notifyInferiorRunOk")>>
      BY DEF HandleExecuteContinue
    <3>2. Callback(cmd, "running") = HandleExecuteContinue("running")
      BY <2>3 DEF Callback
    <3> HIDE DEF S
    <3> QED BY <2>1, <3>1, <3>2 DEF Leaving
  <2> QED BY <2>2, <2>3
<1>4. \E b : calls' = Callback(cmd, "running") \o When(b, resync) \o end
  BY <1>2 DEF HandleResultRecord
<1>5. resync \in Seq(S) /\ <<>> \in Seq(S) /\ end \in Seq(S)
  BY StagesAreLate, Vocabulary, Lists DEF GdbWords
<1> HIDE DEF S, resync, end
<1>6. PICK r \in Seq(S) : calls' = (<<a>> \o r) \o end
  BY <1>3, <1>4, <1>5 DEF When
<1>7. calls' = <<a>> \o (r \o end) /\ r \o end \in Seq(S)
  <2>1. <<a>> \in Seq(S)
    BY <1>3, Lists
  <2>2. (<<a>> \o r) \o end = <<a>> \o (r \o end)
    BY <1>5, <2>1, ConcatAssociative
  <2> QED BY <1>5, <1>6, <2>2, Lists
<1> QED
  BY <1>3, <1>7, Stacked

(* Once the news is read, the stop is left, and stays left.                *)
LEMMA ToldStep ==
    ASSUME Alone, IInv, StopInv, Next, Told'
    PROVE  (SaysNoStop /\ StopIsLeft)'
<1>1. output \in Seq(Reports) /\ Types /\ IsRunning'
  BY DEF StopInv, IInv, Told
<1>2. ~Outside
  <2> SUFFICES ASSUME Outside PROVE FALSE
    OBVIOUS
  <2>1. PICK r \in Reports : Runs(r) /\ output' = Append(output, r)
    BY <1>1, OutsideReports
  <2> DEFINE n == Len(output) + 1
  <2>2. n \in DOMAIN output' /\ output'[n] = r
    BY <1>1, <2>1
  <2> HIDE DEF n
  <2> QED BY <2>1, <2>2 DEF Told, Runs, Result
<1>3. /\ IsRunning /\ ~SetupEngine /\ ~HandleGdbFinished
      /\ Speaks(LateWords) /\ runControl # "ready"
      /\ output' = output \/ (GdbOutput /\ output # <<>> /\ output' = Tail(output))
  BY <1>1, <1>2, RunsOn
<1>4. output' = output => Told
  BY <1>3 DEF Told, Runs, Result
<1>5. CASE Handlers
  <2>1. ~GdbOutput
    BY <1>5, Inside DEF GdbOutput, HandleResultRecord, HandleStopResponse,
       HandleGdbFinished, Reads
  <2>2. SaysNoStop /\ StopIsLeft
    BY <1>3, <1>4, <2>1 DEF StopInv
  <2>3. CASE calls \in Seq(Statements(CalmWords))
    BY <1>1, <1>3, <1>5, <2>2, <2>3, CalmDown, CalmHandlerStep DEF IsRunning
  <2>4. CASE calls \notin Seq(Statements(CalmWords))
    BY <1>3, <1>5, <2>2, <2>4, PassingStep DEF SaysNoStop
  <2> QED BY <2>3, <2>4
<1>6. CASE ~Handlers
  <2>1. /\ calls = <<>> /\ UNCHANGED state
        /\ (RunPosted /\ UNCHANGED gdbVars) \/ GdbOutput \/ User
    BY <1>2, <1>3, <1>6, IdleStep
  <2>2. Speaks(CalmWords)
    BY <1>3, <2>1, CalmDown, Lists
  <2>3. ~NotifyInferiorIll(Gdb)
    BY <2>1 DEF NotifyInferiorIll, DyingMethod, Enter, Idle
  <2>4. ASSUME ~SaysStop
        PROVE  SaysNoStop'
    <3>1. Speaks(CalmWords)'
      BY <1>1, <1>3, <2>2, <2>4, StepSpeaks, StagesAreLate DEF IsRunning
    <3> QED BY <3>1 DEF Speaks, SaysNoStop
  <2>5. ASSUME Told
        PROVE  StopIsLeft'
    BY <2>1, <2>5 DEF StopInv, StopIsLeft
  <2>6. CASE output' = output
    <3>1. ~GdbOutput
      <4>1. output # Tail(output) \/ output = <<>>
        <5>1. output # <<>> => Len(Tail(output)) = Len(output) - 1 /\ Len(output) \in Nat
          BY <1>1
        <5> QED BY <5>1
      <4> QED BY <2>6, <4>1 DEF GdbOutput, HandleResultRecord,
           HandleStopResponse, HandleGdbFinished, Reads
    <3>2. ~SaysStop
      BY <2>3, <3>1 DEF SaysStop, GdbOutput
    <3> QED BY <1>4, <2>4, <2>5, <2>6, <3>2
  <2>7. CASE GdbOutput /\ output # <<>> /\ output' = Tail(output)
    <3>1. ~TellsOfStop(Head(output))
      <4> SUFFICES ASSUME TellsOfStop(Head(output)) PROVE FALSE
        OBVIOUS
      <4>1. Head(output) = output[1] /\ 1 \in DOMAIN output
        BY <1>1, <2>7, FirstRead
      <4>2. PICK j \in DOMAIN output : 1 < j /\ Runs(output[j])
        BY <1>3, <4>1 DEF StopInv, InOrder
      <4>3. j - 1 \in DOMAIN output' /\ output'[j - 1] = output[j]
        BY <1>1, <2>7, <4>2, FirstRead
      <4> QED BY <4>2, <4>3 DEF Told, Runs, Result
    <3>2. ~SaysStop
      BY <2>3, <3>1 DEF SaysStop, TellsOfStop, HandleStopResponse,
         HandleResultRecord, Reads
    <3>3. CASE Runs(Head(output))
      <4>1. HandleResultRecord
        BY <2>7, <3>3 DEF Runs, Result, GdbOutput, HandleStopResponse,
           HandleGdbFinished, Reads
      <4> QED BY <2>4, <3>2, <3>3, <4>1, RunIsRead DEF StopIsLeft
    <3>4. CASE ~Runs(Head(output))
      <4>1. ASSUME NEW i \in DOMAIN output
            PROVE  ~Runs(output[i])
        <5>1. CASE i = 1
          BY <1>1, <2>7, <3>4, <5>1, FirstRead
        <5>2. CASE i # 1
          <6>1. i - 1 \in DOMAIN output' /\ output'[i - 1] = output[i]
            BY <1>1, <2>7, <5>2, FirstRead
          <6> QED BY <6>1 DEF Told, Runs, Result
        <5> QED BY <5>1, <5>2
      <4>2. Told
        BY <1>3, <4>1 DEF Told
      <4> QED BY <2>4, <2>5, <3>2, <4>2
    <3> QED BY <3>3, <3>4
  <2> QED BY <1>3, <2>6, <2>7
<1> QED
  BY <1>5, <1>6

(* Every step keeps the invariant.                                         *)
LEMMA StopInvNext ==
    ASSUME Alone, IInv, StopInv, [Next]_vars
    PROVE  StopInv'
<1>1. CASE Next
  <2>1. output' \in Seq(Reports)
    BY <1>1, OutputType DEF StopInv
  <2>2. InOrder'
    BY <1>1, OrderStep DEF StopInv
  <2>3. Told' => (SaysNoStop /\ StopIsLeft)'
    BY <1>1, ToldStep
  <2> QED BY <2>1, <2>2, <2>3 DEF StopInv
<1>2. CASE UNCHANGED vars
  <2>1. UNCHANGED <<state, calls, output, gdb, program>>
    BY <1>2 DEF vars, engineVars, gdbVars
  <2> QED BY <2>1 DEF StopInv, InOrder, Told, IsRunning, TellsOfStop, Runs,
       Result, SaysNoStop, Passing, StopIsLeft
<1> QED
  BY <1>1, <1>2

(* "InferiorStopOk: Debuggee stopped": between two handlers, with nothing  *)
(* of gdb's unread, an engine that says so has a program that is stopped.  *)
THEOREM StopsAreReal == ASSUME Alone PROVE Spec => []StopIsReal
<1>1. Init => StopInv
  <2> SUFFICES ASSUME Init PROVE StopInv
    OBVIOUS
  <2>1. output = <<>> /\ gdb = "NotRunning"
    BY DEF Init, InitGdb
  <2>2. output \in Seq(Reports)
    BY <2>1, Lists
  <2> QED BY <2>1, <2>2 DEF StopInv, InOrder, Told, IsRunning
<1>2. IInv /\ StopInv /\ [Next]_vars => StopInv'
  BY StopInvNext
<1>3. StopInv => StopIsReal
  <2> SUFFICES ASSUME StopInv, Idle, state[Gdb] = "InferiorStopOk",
                      gdb = "Running", output = <<>>, program = "running"
               PROVE  FALSE
    BY DEF StopIsReal
  <2>1. Told
    BY DEF Told, IsRunning
  <2> QED BY <2>1 DEF StopInv, StopIsLeft, Idle
<1> QED
  BY <1>1, <1>2, <1>3, Phases, PTL DEF Spec

=============================================================================
