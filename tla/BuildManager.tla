----------------------------- MODULE BuildManager -----------------------------
(***************************************************************************)
(* ProjectExplorer::BuildManager: the queue of build and deploy steps, the *)
(* thread most steps run in, the steps that run in the GUI thread instead  *)
(* (RemoteDeployment), and cancel(), which waits for the former and runs a *)
(* nested event loop for the latter.                                       *)
(*                                                                         *)
(* The GUI thread is in one of its event loops when call = "none"; any     *)
(* other value is the function it has still to execute before it returns   *)
(* there.  Only the worker thread moves in between.                        *)
(***************************************************************************)
EXTENDS Integers, FiniteSets, Sequences, SequencesExt, RemoteDeployment

CONSTANTS
    Steps,              \* all build and deploy steps of all projects
    Projects,           \* the projects of the session
    NoStep, NoProject,  \* null pointers
    BuildSteps,         \* BuildSteps[p]: the build step list of project p
    DeploySteps,        \* DeploySteps[p]: its deploy step list
    ProjectOrder,       \* ProjectOrder[p]: what p depends on, then p
    GuiSteps,           \* steps with runInGuiThread()
    DisabledSteps,      \* steps that are not enabled()
    RemovableProjects,  \* projects the user may remove
    MaxBuilds,          \* bound: step lists the user queues
    MaxCancels          \* bound: cancel requests and project removals

ASSUME StepsAssumption ==
    /\ NoStep \notin Steps
    /\ GuiSteps \subseteq Steps
    /\ DisabledSteps \subseteq Steps
ASSUME ProjectsAssumption ==
    /\ NoProject \notin Projects
    /\ RemovableProjects \subseteq Projects
    /\ BuildSteps \in [Projects -> Seq(Steps)]
    /\ DeploySteps \in [Projects -> Seq(Steps)]
    /\ ProjectOrder \in [Projects -> Seq(Projects)]
    /\ \A p, q \in Projects :
          p # q => Range(BuildSteps[p] \o DeploySteps[p])
                   \intersect Range(BuildSteps[q] \o DeploySteps[q]) = {}
ASSUME BoundsAssumption == {MaxBuilds, MaxCancels} \subseteq Nat

VARIABLES
    buildQueue,         \* m_buildQueue and m_enabledState
    currentBuildStep,   \* m_currentBuildStep
    running,            \* m_running; then m_progressFutureInterface exists
    skipDisabled,       \* m_skipDisabled
    activeBuildSteps,   \* m_activeBuildSteps, per project
    progress,           \* m_progress
    maxProgress,        \* m_maxProgress
    connected,          \* steps whose output goes to the output window
    executing,          \* steps whose run() is executing in the worker thread
    watched,            \* the step whose future m_watcher watches
    watcherFinished,    \* finished() of m_watcher is posted
    result,             \* the result in that future
    deployments,        \* the deployment of each step of GuiSteps
    canceling,          \* m_canceling
    doNotEnterEventLoop,\* m_doNotEnterEventLoop
    eventLoop,          \* m_eventLoop: 0, or the cancel() whose loop it is
    cancels,            \* the cancel() calls in a nested event loop
    canceler,           \* the project whose removal called cancel()
    progressCanceled,   \* canceled() of m_progressWatcher is posted
    call,               \* what the GUI thread has to execute next
    inRunConfiguration, \* runRunConfiguration() is on the stack
    delayedRunConfiguration, \* m_delayedRunConfiguration is set
    removed,            \* the projects removed from the session
    announced,          \* last buildQueueFinished(): "success" or "failure"
    failed,             \* history: a step failed since startBuildQueue()
    cancelRequested,    \* history: the user asked to end this build
    builds, cancelCalls \* counters of the bounds

queueVars    == <<buildQueue, currentBuildStep, skipDisabled>>
accountVars  == <<activeBuildSteps, progress, maxProgress, connected>>
stepVars     == <<executing, watched, watcherFinished, result, deployments>>
cancelVars   == <<canceling, doNotEnterEventLoop, eventLoop, cancels, canceler>>
runVars      == <<inRunConfiguration, delayedRunConfiguration>>
historyVars  == <<failed, cancelRequested>>
boundVars    == <<builds, cancelCalls>>

vars == <<queueVars, running, accountVars, stepVars, cancelVars,
          progressCanceled, call, runVars, removed, announced, historyVars,
          boundVars>>

Calls == {"none", "nextStep", "nextBuildQueue", "waitForFinished",
          "finishCancel"}

(* The project whose step lists hold s. *)
ProjectOf(s) ==
    CHOOSE p \in Projects : s \in Range(BuildSteps[p] \o DeploySteps[p])

Init ==
    /\ buildQueue = <<>>
    /\ currentBuildStep = NoStep
    /\ running = FALSE
    /\ skipDisabled = FALSE
    /\ activeBuildSteps = [p \in Projects |-> 0]
    /\ progress = 0
    /\ maxProgress = 0
    /\ connected = {}
    /\ executing = {}
    /\ watched = NoStep
    /\ watcherFinished = FALSE
    /\ result = FALSE
    /\ deployments = [s \in GuiSteps |-> NewDeployment]
    /\ canceling = FALSE
    /\ doNotEnterEventLoop = FALSE
    /\ eventLoop = 0
    /\ cancels = <<>>
    /\ canceler = NoProject
    /\ progressCanceled = FALSE
    /\ call = "none"
    /\ inRunConfiguration = FALSE
    /\ delayedRunConfiguration = FALSE
    /\ removed = {}
    /\ announced = "none"
    /\ failed = FALSE
    /\ cancelRequested = FALSE
    /\ builds = 0
    /\ cancelCalls = 0
-----------------------------------------------------------------------------
(* The GUI thread is in an event loop and handles the next event. *)
InEventLoop == call = "none" /\ ~inRunConfiguration

(* Events that are already posted are delivered before the next input:     *)
(* when cancel() has waited for the worker thread, finished() is delivered *)
(* before the user can do anything about it.                               *)
Input == InEventLoop /\ ~(watcherFinished /\ canceling)

IsBuilding == buildQueue # <<>> \/ running

IsBuildingProject(p) == activeBuildSteps[p] > 0

Occurrences(steps, p) == Cardinality({i \in DOMAIN steps : ProjectOf(steps[i]) = p})

(* decrementActiveBuildSteps() for each of the steps. *)
Decremented(steps) ==
    [p \in Projects |-> activeBuildSteps[p] - Occurrences(steps, p)]

QueuedSteps == [i \in DOMAIN buildQueue |-> buildQueue[i].step]

(* emit buildQueueFinished(): runs or forgets the delayed configuration. *)
Announce(success) ==
    /\ announced' = IF success THEN "success" ELSE "failure"
    /\ delayedRunConfiguration' = FALSE

(* At the end of a build, m_progressWatcher is given the future of no      *)
(* build, which counts as canceled and finished, as QFuture<void>() does.  *)
ForgetProgress == progressCanceled' = TRUE

(* Mutant: the dropped steps are not counted off. *)
ClearBuildQueue_Undecremented(done) ==
    /\ activeBuildSteps' = Decremented(done)
    /\ connected' = connected \ Range(done \o QueuedSteps)
    /\ buildQueue' = <<>>
    /\ running' = FALSE
    /\ currentBuildStep' = NoStep
    /\ maxProgress' = 0
    /\ ForgetProgress
    /\ Announce(FALSE)

(* clearBuildQueue(), and disconnectOutput() and                           *)
(* decrementActiveBuildSteps() of the steps in done, which preceded it.    *)
ClearBuildQueue(done) ==
    /\ activeBuildSteps' = Decremented(done \o QueuedSteps)
    /\ connected' = connected \ Range(done \o QueuedSteps)
    /\ buildQueue' = <<>>
    /\ running' = FALSE
    /\ currentBuildStep' = NoStep
    /\ maxProgress' = 0
    /\ ForgetProgress
    /\ Announce(FALSE)
-----------------------------------------------------------------------------
(* queue(): the step lists of the projects that are still in the session,  *)
(* one kind of list after the other.                                       *)
ListsOf(p, lists) ==
    LET order == ProjectOrder[p]
        Lists(l) == [i \in DOMAIN order |->
                        IF order[i] \in removed THEN <<>> ELSE l[order[i]]]
    IN  FlattenSeq(FlattenSeq([i \in DOMAIN lists |-> Lists(lists[i])]))

(* buildQueueAppend() when init() of the n-th step fails. *)
AppendFails(steps, n) ==
    /\ steps[n] \notin DisabledSteps
    /\ connected' = connected \ Range(SubSeq(steps, 1, n))
    /\ UNCHANGED <<queueVars, running, activeBuildSteps, progress,
                   maxProgress, canceling, progressCanceled, call, announced,
                   historyVars>>

(* Mutant: m_progressWatcher keeps its posted events. *)
StartBuildQueue_KeepsCanceled ==
    IF running
    THEN UNCHANGED <<running, progress, canceling, progressCanceled, call,
                     announced, historyVars>>
    ELSE /\ running' = TRUE
         /\ progress' = 0
         /\ canceling' = FALSE
         /\ UNCHANGED progressCanceled
         /\ call' = "nextStep"
         /\ announced' = "none"
         /\ failed' = FALSE
         /\ cancelRequested' = FALSE

(* startBuildQueue() with something in the queue. *)
StartBuildQueue ==
    IF running
    THEN UNCHANGED <<running, progress, canceling, progressCanceled, call,
                     announced, historyVars>>
    ELSE /\ running' = TRUE
         /\ progress' = 0
         /\ canceling' = FALSE
         /\ progressCanceled' = FALSE
         /\ call' = "nextStep"
         /\ announced' = "none"
         /\ failed' = FALSE
         /\ cancelRequested' = FALSE

(* buildQueueAppend() when all steps initialize, and startBuildQueue(). *)
AppendSucceeds(steps) ==
    /\ connected' = connected \union Range(steps)
    /\ buildQueue' = buildQueue \o
            [i \in DOMAIN steps |-> [step    |-> steps[i],
                                     enabled |-> steps[i] \notin DisabledSteps]]
    /\ maxProgress' = maxProgress + Len(steps)
    /\ activeBuildSteps' = [p \in Projects |->
            activeBuildSteps[p] + Occurrences(steps, p)]
    /\ StartBuildQueue
    /\ UNCHANGED <<currentBuildStep, skipDisabled>>

(* The user builds p with all it depends on; the action is disabled while  *)
(* p itself is being built.                                                *)
BuildProject(p) ==
    /\ Input
    /\ builds < MaxBuilds
    /\ builds' = builds + 1
    /\ p \notin removed
    /\ ~IsBuildingProject(p)
    /\ LET steps == ListsOf(p, <<BuildSteps>>)
       IN  /\ steps # <<>>
           /\ \/ \E n \in DOMAIN steps : AppendFails(steps, n)
              \/ AppendSucceeds(steps)
    /\ UNCHANGED <<stepVars, doNotEnterEventLoop, eventLoop, cancels, canceler,
                   runVars, removed, cancelCalls>>

(* The user runs p, which is possible only when nothing is being built;    *)
(* p and all it depends on are built and deployed before.                  *)
RunRunConfiguration(p) ==
    /\ Input
    /\ builds < MaxBuilds
    /\ builds' = builds + 1
    /\ p \notin removed
    /\ ~IsBuilding
    /\ LET steps == ListsOf(p, <<BuildSteps, DeploySteps>>)
       IN  /\ steps # <<>>
           /\ \/ /\ \E n \in DOMAIN steps : AppendFails(steps, n)
                 /\ UNCHANGED inRunConfiguration
              \/ /\ AppendSucceeds(steps)
                 /\ inRunConfiguration' = TRUE
    /\ UNCHANGED <<stepVars, doNotEnterEventLoop, eventLoop, cancels, canceler,
                   delayedRunConfiguration, removed, cancelCalls>>

(* queue() has returned: the rest of runRunConfiguration(). *)
DelayRunConfiguration ==
    /\ inRunConfiguration
    /\ call = "none"
    /\ inRunConfiguration' = FALSE
    /\ delayedRunConfiguration' = TRUE
    /\ UNCHANGED <<queueVars, running, accountVars, stepVars, cancelVars,
                   progressCanceled, call, removed, announced, historyVars,
                   boundVars>>
-----------------------------------------------------------------------------
(* nextStep() takes the front of the queue. *)
TakeStep(s, enabled) ==
    /\ call = "nextStep"
    /\ buildQueue # <<>>
    /\ Head(buildQueue) = [step |-> s, enabled |-> enabled]
    /\ buildQueue' = Tail(buildQueue)
    /\ currentBuildStep' = s
    /\ skipDisabled' = ~enabled
    /\ UNCHANGED <<running, accountVars, cancelVars, progressCanceled,
                   runVars, removed, announced, cancelRequested, boundVars>>

(* Mutant: nothing follows a disabled step. *)
SkipDisabledStep_Stops(s) ==
    /\ TakeStep(s, FALSE)
    /\ call' = "none"
    /\ UNCHANGED <<stepVars, failed>>

SkipDisabledStep(s) ==
    /\ TakeStep(s, FALSE)
    /\ call' = "nextBuildQueue"
    /\ UNCHANGED <<stepVars, failed>>

(* m_watcher.setFuture(); drops what the last future has posted. *)
Watch(s) == watched' = s /\ watcherFinished' = FALSE

RunInWorkerThread(s) ==
    /\ s \notin GuiSteps
    /\ TakeStep(s, TRUE)
    /\ Watch(s)
    /\ executing' = executing \union {s}
    /\ call' = "none"
    /\ UNCHANGED <<result, deployments, failed>>

(* run() of a GUI step; finished() may be emitted before it returns. *)
RunInGuiThread(s) ==
    /\ s \in GuiSteps
    /\ TakeStep(s, TRUE)
    /\ Watch(s)
    /\ \E o \in Run(deployments[s]) :
        /\ deployments' = [deployments EXCEPT ![s] = o.deployment]
        /\ IF o.finished
           THEN /\ result' = ~o.deployment.hasError
                /\ failed' = (failed \/ o.deployment.hasError)
                /\ call' = "nextBuildQueue"
           ELSE call' = "none" /\ UNCHANGED <<result, failed>>
    /\ UNCHANGED executing

(* nextStep() with an empty queue. *)
EndOfQueue ==
    /\ call = "nextStep"
    /\ buildQueue = <<>>
    /\ running' = FALSE
    /\ currentBuildStep' = NoStep
    /\ maxProgress' = 0
    /\ ForgetProgress
    /\ Announce(TRUE)
    /\ call' = "none"
    /\ UNCHANGED <<buildQueue, skipDisabled, activeBuildSteps, progress,
                   connected, stepVars, cancelVars, inRunConfiguration,
                   removed, historyVars, boundVars>>

(* Mutant: the result of the step is not asked for. *)
NextBuildQueue_IgnoresResult ==
    /\ call = "nextBuildQueue"
    /\ progress' = progress + 1
    /\ IF TRUE
       THEN /\ connected' = connected \ {currentBuildStep}
            /\ activeBuildSteps' = Decremented(<<currentBuildStep>>)
            /\ call' = "nextStep"
            /\ UNCHANGED <<queueVars, running, maxProgress, progressCanceled,
                           announced, delayedRunConfiguration>>
       ELSE /\ ClearBuildQueue(<<currentBuildStep>>)
            /\ call' = "none"
            /\ UNCHANGED skipDisabled
    /\ UNCHANGED <<stepVars, cancelVars, inRunConfiguration, removed,
                   historyVars, boundVars>>

(* nextBuildQueue() when not canceling. *)
NextBuildQueue ==
    /\ call = "nextBuildQueue"
    /\ progress' = progress + 1
    /\ IF skipDisabled \/ result
       THEN /\ connected' = connected \ {currentBuildStep}
            /\ activeBuildSteps' = Decremented(<<currentBuildStep>>)
            /\ call' = "nextStep"
            /\ UNCHANGED <<queueVars, running, maxProgress, progressCanceled,
                           announced, delayedRunConfiguration>>
       ELSE /\ ClearBuildQueue(<<currentBuildStep>>)
            /\ call' = "none"
            /\ UNCHANGED skipDisabled
    /\ UNCHANGED <<stepVars, cancelVars, inRunConfiguration, removed,
                   historyVars, boundVars>>
-----------------------------------------------------------------------------
(* run() of s returns in the worker thread; m_watcher is told, if it still *)
(* watches this future.                                                    *)
WorkerFinishes(s) ==
    /\ s \in executing
    /\ executing' = executing \ {s}
    /\ \E ok \in BOOLEAN :
        /\ failed' = (failed \/ ~ok)
        /\ result' = IF watched = s THEN ok ELSE result
    /\ watcherFinished' = (watcherFinished \/ watched = s)
    /\ UNCHANGED <<queueVars, running, accountVars, watched, deployments,
                   cancelVars, progressCanceled, call, runVars, removed,
                   announced, cancelRequested, boundVars>>

(* finished() of m_watcher is delivered to nextBuildQueue(). *)
WatcherFinished ==
    /\ InEventLoop
    /\ watcherFinished
    /\ watcherFinished' = FALSE
    /\ call' = IF canceling THEN call ELSE "nextBuildQueue"
    /\ UNCHANGED <<queueVars, running, accountVars, executing, watched,
                   result, deployments, cancelVars, progressCanceled,
                   runVars, removed, announced, historyVars, boundVars>>

(* Mutant: the nested event loop is not told to exit. *)
BuildStepFinishedAsync_NoExit ==
    IF ~canceling
    THEN /\ call' = "nextBuildQueue"
         /\ UNCHANGED <<doNotEnterEventLoop, cancels>>
    ELSE /\ UNCHANGED call
         /\ doNotEnterEventLoop' = TRUE
         /\ UNCHANGED cancels

(* buildStepFinishedAsync(), called by finished() of a GUI step. *)
BuildStepFinishedAsync ==
    IF ~canceling
    THEN /\ call' = "nextBuildQueue"
         /\ UNCHANGED <<doNotEnterEventLoop, cancels>>
    ELSE /\ UNCHANGED call
         /\ IF eventLoop # 0
            THEN /\ cancels' = [cancels EXCEPT ![eventLoop].exited = TRUE]
                 /\ UNCHANGED doNotEnterEventLoop
            ELSE /\ doNotEnterEventLoop' = TRUE
                 /\ UNCHANGED cancels

(* Something happens to the deployment of a GUI step. *)
DeploymentEvent(s, o) ==
    /\ InEventLoop
    /\ deployments[s].state # "Inactive"
    /\ o \in Event(deployments[s])
    /\ deployments' = [deployments EXCEPT ![s] = o.deployment]
    /\ IF o.finished
       THEN /\ result' = ~o.deployment.hasError
            /\ failed' = (failed \/ o.deployment.hasError)
            /\ BuildStepFinishedAsync
       ELSE UNCHANGED <<result, failed, call, doNotEnterEventLoop, cancels>>
    /\ UNCHANGED <<queueVars, running, accountVars, executing, watched,
                   watcherFinished, canceling, eventLoop, canceler,
                   progressCanceled, runVars, removed, announced,
                   cancelRequested, boundVars>>
-----------------------------------------------------------------------------
(* cancel() up to the point where it waits; p is the project that is about *)
(* to be removed, if that is why.  A step that finishes within its own     *)
(* cancel() sets doNotEnterEventLoop, and cancel() resets it.              *)
CancelCurrentStep(p) ==
    /\ running
    /\ canceling' = TRUE
    /\ IF currentBuildStep \in GuiSteps
       THEN \E o \in Cancel(deployments[currentBuildStep]) :
            /\ deployments' = [deployments EXCEPT ![currentBuildStep] = o.deployment]
            /\ IF o.finished /\ eventLoop = 0
               THEN /\ call' = "finishCancel"
                    /\ canceler' = p
                    /\ UNCHANGED <<eventLoop, cancels>>
               ELSE /\ cancels' = Append(
                        IF o.finished THEN [cancels EXCEPT ![eventLoop].exited = TRUE]
                                      ELSE cancels,
                        [exited |-> FALSE, canceler |-> p])
                    /\ eventLoop' = Len(cancels')
                    /\ UNCHANGED <<call, canceler>>
       ELSE /\ call' = "waitForFinished"
            /\ canceler' = p
            /\ UNCHANGED <<deployments, eventLoop, cancels>>
    /\ UNCHANGED <<queueVars, running, accountVars, executing, watched,
                   watcherFinished, result, doNotEnterEventLoop, runVars,
                   announced, failed, builds>>

CancelBuild ==
    /\ Input
    /\ IsBuilding
    /\ cancelCalls < MaxCancels
    /\ cancelCalls' = cancelCalls + 1
    /\ cancelRequested' = TRUE
    /\ CancelCurrentStep(NoProject)
    /\ UNCHANGED <<progressCanceled, removed>>

(* The user clicks the "x" of the progress bar. *)
CancelProgress ==
    /\ Input
    /\ running
    /\ cancelCalls < MaxCancels
    /\ cancelCalls' = cancelCalls + 1
    /\ cancelRequested' = TRUE
    /\ progressCanceled' = TRUE
    /\ UNCHANGED <<queueVars, running, accountVars, stepVars, cancelVars,
                   call, runVars, removed, announced, failed, builds>>

(* canceled() of m_progressWatcher is delivered to cancel(). *)
ProgressCanceled ==
    /\ InEventLoop
    /\ progressCanceled
    /\ progressCanceled' = FALSE
    /\ \/ CancelCurrentStep(NoProject)
       \/ /\ ~running
          /\ UNCHANGED <<queueVars, running, accountVars, stepVars,
                         cancelVars, call, runVars, announced, failed, builds>>
    /\ UNCHANGED <<removed, cancelRequested, cancelCalls>>

(* aboutToRemoveProject(), after which the project and its steps are gone. *)
RemoveProject(p) ==
    /\ Input
    /\ p \in RemovableProjects \ removed
    /\ cancelCalls < MaxCancels
    /\ cancelCalls' = cancelCalls + 1
    /\ \/ /\ IsBuildingProject(p)
          /\ cancelRequested' = TRUE
          /\ CancelCurrentStep(p)
          /\ UNCHANGED removed
       \/ /\ ~IsBuildingProject(p)
          /\ removed' = removed \union {p}
          /\ UNCHANGED <<queueVars, running, accountVars, stepVars,
                         cancelVars, call, runVars, announced, historyVars,
                         builds>>
    /\ UNCHANGED progressCanceled

(* waitForFinished() returns when the worker thread is through. *)
WaitForFinished ==
    /\ call = "waitForFinished"
    /\ watched \notin executing
    /\ call' = "finishCancel"
    /\ UNCHANGED <<queueVars, running, accountVars, stepVars, cancelVars,
                   progressCanceled, runVars, removed, announced,
                   historyVars, boundVars>>

(* The innermost nested event loop returns, if it was told to exit. *)
LeaveEventLoop ==
    /\ InEventLoop
    /\ cancels # <<>>
    /\ Last(cancels).exited
    /\ cancels' = Front(cancels)
    /\ canceler' = Last(cancels).canceler
    /\ eventLoop' = 0
    /\ call' = "finishCancel"
    /\ UNCHANGED <<queueVars, running, accountVars, stepVars, canceling,
                   doNotEnterEventLoop, progressCanceled, runVars, removed,
                   announced, historyVars, boundVars>>

(* Mutant: m_canceling is reset when cancel() returns. *)
FinishCancel_NotCanceling ==
    /\ call = "finishCancel"
    /\ ClearBuildQueue(<<currentBuildStep>>)
    /\ call' = "none"
    /\ removed' = removed \union ({canceler} \ {NoProject})
    /\ canceler' = NoProject
    /\ canceling' = FALSE
    /\ UNCHANGED <<skipDisabled, progress, stepVars,
                   doNotEnterEventLoop, eventLoop, cancels,
                   inRunConfiguration, historyVars, boundVars>>

(* The rest of cancel(); whoever removes a project goes on after it. *)
FinishCancel ==
    /\ call = "finishCancel"
    /\ ClearBuildQueue(<<currentBuildStep>>)
    /\ call' = "none"
    /\ removed' = removed \union ({canceler} \ {NoProject})
    /\ canceler' = NoProject
    /\ UNCHANGED <<skipDisabled, progress, stepVars, canceling,
                   doNotEnterEventLoop, eventLoop, cancels,
                   inRunConfiguration, historyVars, boundVars>>
-----------------------------------------------------------------------------
User == \/ CancelBuild \/ CancelProgress
        \/ \E p \in Projects : \/ BuildProject(p) \/ RunRunConfiguration(p)
                               \/ RemoveProject(p)

(* What the GUI thread does without further input. *)
Gui == \/ DelayRunConfiguration \/ EndOfQueue \/ NextBuildQueue
       \/ WatcherFinished \/ ProgressCanceled
       \/ WaitForFinished \/ LeaveEventLoop \/ FinishCancel
       \/ \E s \in Steps : \/ SkipDisabledStep(s) \/ RunInWorkerThread(s)
                           \/ RunInGuiThread(s)

Worker == \E s \in Steps : WorkerFinishes(s)

Device == \E s \in GuiSteps : \E o \in Event(deployments[s]) : DeploymentEvent(s, o)

(* A deployment comes to its end. *)
DeploymentEnds ==
    \E s \in GuiSteps : \E o \in Event(deployments[s]) :
        o.finished /\ DeploymentEvent(s, o)

Next == User \/ Gui \/ Worker \/ Device

(* Events are delivered; tools and deployments end, by themselves or       *)
(* because they are told to (the contract of BuildStep::run()).            *)
Fairness == WF_vars(Gui) /\ WF_vars(Worker) /\ WF_vars(DeploymentEnds)

Spec == Init /\ [][Next]_vars /\ Fairness
-----------------------------------------------------------------------------
(* The step that is neither finished nor dropped, if there is one. *)
Pending == IF running /\ call # "nextStep" /\ currentBuildStep # NoStep
           THEN <<currentBuildStep>> \o QueuedSteps
           ELSE QueuedSteps

(* The counters kept by hand in half a dozen functions agree with the      *)
(* queue.  m_activeBuildSteps, which enables the build actions and         *)
(* protects projects from being removed, counts for each project exactly   *)
(* the steps that are queued or being executed; finished steps and these   *)
(* add up to m_maxProgress, also when steps are queued during a build.     *)
CountersMatch ==
    /\ \A p \in Projects : activeBuildSteps[p] = Occurrences(Pending, p)
    /\ maxProgress = (IF running THEN progress ELSE 0) + Len(Pending)

(* A finished() that is going to be taken for the end of the current step  *)
(* comes from the current step, never from one that was canceled.          *)
NoStaleFinish ==
    watcherFinished /\ ~canceling =>
        /\ running
        /\ watched = currentBuildStep
        /\ currentBuildStep \notin GuiSteps \union executing

(* At no time do two steps execute, in whatever thread. *)
OneStepAtATime ==
    LET active == executing \union {s \in GuiSteps : deployments[s].state # "Inactive"}
    IN  active # {} => active = {currentBuildStep}

(* A build is canceled only if the user asked for it since its start: the  *)
(* canceled() that the end of every build posts never hits the next one.   *)
OnlyRequestedCancels == running /\ canceling => cancelRequested

(* cancel() was called between the end of the step it cancels and the      *)
(* return of the earlier cancel() that waits for it.  It has created an    *)
(* event loop of its own, which no step is left to exit; neither call      *)
(* returns.                                                                *)
CanceledTooLate ==
    \E i, j \in DOMAIN cancels : i < j /\ cancels[i].exited /\ ~cancels[j].exited

(* The cancel() in whose event loop the GUI thread waits returns, whether  *)
(* the current step finishes within its own cancel(), or only later, when  *)
(* the nested event loop is running; unless it was called too late.  That  *)
(* is the last of several cancel() calls: m_eventLoop is overwritten by a  *)
(* second call, and nobody exits the loop of the first one any more.       *)
CancelReturns == [](eventLoop # 0 => <>(eventLoop = 0 \/ CanceledTooLate))

(* Every build ends, unless it was canceled too late.                      *)
BuildEnds == [](running => <>(~running \/ CanceledTooLate))
-----------------------------------------------------------------------------
(* What is promised to those who queue steps. *)
Contract == INSTANCE BuildContract WITH
                building <- running,
                pending <- Pending

ContractSpec == Contract!Spec
===============================================================================
