-------------------------- MODULE BuildManagerProofs --------------------------
(***************************************************************************)
(* Proofs, for every session, whatever its projects and steps, however     *)
(* many builds and cancellations there are and however deep the nested     *)
(* event loops of cancel(), of what a build run checks on one session.     *)
(***************************************************************************)
EXTENDS BuildManager, SequenceLemmas

QueuedStep == [step : Steps, enabled : BOOLEAN]

CancelCall == [exited : BOOLEAN, canceler : Projects \union {NoProject}]

(* The type invariant. *)
Flags ==
    /\ running \in BOOLEAN
    /\ skipDisabled \in BOOLEAN
    /\ watcherFinished \in BOOLEAN
    /\ result \in BOOLEAN
    /\ canceling \in BOOLEAN
    /\ progressCanceled \in BOOLEAN
    /\ failed \in BOOLEAN
    /\ cancelRequested \in BOOLEAN

TypeInv ==
    /\ Flags
    /\ buildQueue \in Seq(QueuedStep)
    /\ currentBuildStep \in Steps \union {NoStep}
    /\ activeBuildSteps \in [Projects -> Int]
    /\ progress \in Nat
    /\ maxProgress \in Nat
    /\ executing \subseteq Steps
    /\ deployments \in [GuiSteps -> Deployment]
    /\ eventLoop \in 0..Len(cancels)
    /\ cancels \in Seq(CancelCall)
    /\ canceler \in Projects \union {NoProject}
    /\ call \in Calls

(* The steps that execute, in the worker thread or in the GUI thread. *)
Active == executing
          \union {s \in GuiSteps : deployments[s].state # "Inactive"}

(* The cancel() calls whose event loop was told to exit. *)
Exited == {i \in DOMAIN cancels : cancels[i].exited}

(* Which functions can be under way: m_currentBuildStep is a step whenever *)
(* a build runs and nextStep() is not about to choose one, and nothing     *)
(* follows a step once its build is being canceled.                        *)
Phases ==
    /\ ~running => currentBuildStep = NoStep /\ call = "none"
    /\ running /\ call # "nextStep" => currentBuildStep # NoStep
    /\ running /\ canceling => call \notin {"nextStep", "nextBuildQueue"}
    /\ call = "waitForFinished" => currentBuildStep \notin GuiSteps
    /\ call \in {"waitForFinished", "finishCancel"} => canceling

(* Only the current step executes, and only while the GUI thread waits for *)
(* it; it is the one that is watched, and its end is not yet posted.       *)
Executions ==
    /\ Active # {} => /\ running
                      /\ ~skipDisabled
                      /\ Active = {currentBuildStep}
                      /\ call \in {"none", "waitForFinished"}
    /\ executing \subseteq {watched} \ GuiSteps
    /\ watcherFinished => call \notin {"nextStep", "nextBuildQueue"}
    /\ NoStaleFinish

(* A cancel() is told to go on only when its step has come to its end, and *)
(* no more than one is.                                                    *)
NestedLoops ==
    Exited # {} => /\ running
                   /\ canceling
                   /\ currentBuildStep \in GuiSteps
                   /\ Active = {}
                   /\ call = "none"
                   /\ \A i, j \in Exited : i = j

(* A cancel() that is under way or posted was asked for. *)
Requests == running /\ (canceling \/ progressCanceled) => cancelRequested

(* A build that goes on after a step has failed has not yet looked at the  *)
(* result of that step, which is the current one.                          *)
Failures ==
    running /\ failed /\ ~canceling => /\ ~result
                                       /\ ~skipDisabled
                                       /\ Active = {}
                                       /\ call \in {"none", "nextBuildQueue"}

(* The inductive invariant, but for the counters. *)
Shape == TypeInv /\ Phases /\ Executions /\ NestedLoops /\ Requests /\ Failures

USE DEF Calls
-----------------------------------------------------------------------------
(* The outcomes of a deployment's operations: a step that is started,      *)
(* stopped or ends has emitted finished() exactly when its service has     *)
(* become inactive.                                                        *)
LEMMA Outcomes ==
    ASSUME NEW d \in Deployment
    PROVE  /\ Failed(d) \in Deployment /\ Failed(d).state = d.state
           /\ Ends(d) \in Outcome
           /\ Ends(d).finished
           /\ Ends(d).deployment.state = "Inactive"
           /\ Goes(d) \in Outcome
           /\ ~Goes(d).finished
           /\ Goes(d).deployment = d
  BY DEF Deployment, Outcome, Ends, Failed, Goes

(* Starting a deployment. *)
LEMMA RunOutcomes ==
    ASSUME NEW d \in Deployment, NEW o \in Run(d)
    PROVE  /\ o \in Outcome
           /\ d.state = "Inactive" =>
                (o.finished <=> o.deployment.state = "Inactive")
<1> DEFINE fresh == [d EXCEPT !.hasError = FALSE]
           connecting == [fresh EXCEPT !.state = "Connecting"]
           deploying == [fresh EXCEPT !.state = "Deploying"]
<1>1. /\ {fresh, connecting, deploying} \subseteq Deployment
      /\ connecting.state = "Connecting"
      /\ deploying.state = "Deploying"
  BY DEF Deployment
<1>2. \/ d.state # "Inactive" /\ o = Goes(fresh)
      \/ o \in {Ends(Failed(fresh)), Ends(fresh), Goes(connecting),
                Goes(deploying)}
  BY DEF Run, HandleConnected
<1> HIDE DEF fresh, connecting, deploying
<1> QED
  BY <1>1, <1>2, Outcomes

(* Stopping one. *)
LEMMA CancelOutcomes ==
    ASSUME NEW d \in Deployment, NEW o \in Cancel(d)
    PROVE  /\ o \in Outcome
           /\ o.finished <=> /\ d.state # "Inactive"
                             /\ o.deployment.state = "Inactive"
           /\ d.state = "Inactive" => o.deployment.state = "Inactive"
<1> DEFINE stopping == [Failed(d) EXCEPT !.stopRequested = TRUE]
<1>1. /\ Failed(d) \in Deployment
      /\ Failed(d).state = d.state
      /\ stopping \in Deployment
      /\ stopping.state = d.state
  BY DEF Deployment, Failed
<1>2. \/ o = Goes(d)
      \/ o = Goes(Failed(d))
      \/ /\ d.state # "Inactive"
         /\ o \in {Ends(Failed(d)), Ends(stopping), Goes(stopping)}
  BY <1>1 DEF Cancel, Stop, StopDeployment
<1> HIDE DEF stopping
<1> QED
  BY <1>1, <1>2, Outcomes

(* What a device does while one is under way. *)
LEMMA EventOutcomes ==
    ASSUME NEW d \in Deployment, d.state # "Inactive", NEW o \in Event(d)
    PROVE  /\ o \in Outcome
           /\ o.finished <=> o.deployment.state = "Inactive"
<1> DEFINE deploying == [d EXCEPT !.state = "Deploying"]
<1>1. deploying \in Deployment /\ deploying.state = "Deploying"
  BY DEF Deployment
<1>2. o \in {Ends(d), Ends(Failed(d)), Goes(Failed(d)), Goes(deploying)}
  BY DEF Event, HandleConnectionFailure, HandleConnected,
         HandleDeploymentDone, StopDeployment
<1> HIDE DEF deploying
<1> QED
  BY <1>1, <1>2, Outcomes
-----------------------------------------------------------------------------
(* What queue() passes to buildQueueAppend() are steps. *)
LEMMA ListsType ==
    ASSUME NEW p \in Projects, NEW lists \in Seq([Projects -> Seq(Steps)])
    PROVE  ListsOf(p, lists) \in Seq(Steps)
<1> DEFINE order == ProjectOrder[p]
           Lists(l) == [i \in DOMAIN order |->
                           IF order[i] \in removed THEN <<>> ELSE l[order[i]]]
           all == [i \in DOMAIN lists |-> Lists(lists[i])]
<1>1. order \in Seq(Projects)
  BY ProjectsAssumption
<1>2. \A l \in [Projects -> Seq(Steps)] : Lists(l) \in Seq(Seq(Steps))
  <2> HIDE DEF order
  <2> TAKE l \in [Projects -> Seq(Steps)]
  <2>1. Lists(l) \in [1..Len(order) -> Seq(Steps)]
    BY <1>1
  <2>2. Len(order) \in Nat
    BY <1>1
  <2> HIDE DEF Lists
  <2> QED
    BY <2>1, <2>2, SeqType, Zenon
<1>3. all \in Seq(Seq(Seq(Steps)))
  <2> HIDE DEF Lists
  <2>1. all \in [1..Len(lists) -> Seq(Seq(Steps))]
    BY <1>2
  <2>2. Len(lists) \in Nat
    OBVIOUS
  <2> HIDE DEF all
  <2> QED
    BY <2>1, <2>2, SeqType, Zenon
<1>4. ListsOf(p, lists) = FlattenSeq(FlattenSeq(all))
  BY Zenon DEF ListsOf
<1> HIDE DEF all
<1>5. FlattenSeq(all) \in Seq(Seq(Steps))
  BY <1>3, FlattenType
<1> QED
  BY <1>4, <1>5, FlattenType

(* The occurrences of a project's steps are counted.  The null step is     *)
(* allowed, which does not belong to any project.                          *)
LEMMA OccurrencesAddUp ==
    ASSUME NEW s \in Seq(Steps \union {NoStep}),
           NEW t \in Seq(Steps \union {NoStep}), NEW p
    PROVE  /\ Occurrences(s, p) \in Nat
           /\ Occurrences(s \o t, p) = Occurrences(s, p) + Occurrences(t, p)
<1> DEFINE S == Steps \union {NoStep}
           P == {x \in S : ProjectOf(x) = p}
<1>1. \A u \in Seq(S) : Occurrences(u, p) = Cardinality(Places(u, P))
  <2> SUFFICES ASSUME NEW u \in Seq(S)
               PROVE  {i \in DOMAIN u : ProjectOf(u[i]) = p} = Places(u, P)
    BY DEF Occurrences
  <2> \A i \in DOMAIN u : u[i] \in S
    OBVIOUS
  <2> HIDE DEF S
  <2> QED
    BY DEF Places
<1>2. s \o t \in Seq(S)
  OBVIOUS
<1>3. \A u \in Seq(S) : Cardinality(Places(u, P)) \in Nat
  <2> HIDE DEF S, P
  <2> QED
    BY PlacesFinite
<1> HIDE DEF P
<1>4. Cardinality(Places(s \o t, P)) =
          Cardinality(Places(s, P)) + Cardinality(Places(t, P))
  BY PlacesConcat
<1> QED
  BY <1>1, <1>2, <1>3, <1>4

(* buildQueueAppend() from an event loop. *)
LEMMA AppendKeepsShape ==
    ASSUME Shape, Input, NEW steps \in Seq(Steps), AppendSucceeds(steps),
           UNCHANGED <<stepVars, eventLoop, cancels, canceler>>
    PROVE  Shape'
<1>1. Active' = Active /\ Exited' = Exited
  BY DEF Active, Exited, stepVars
<1>2. buildQueue' \in Seq(QueuedStep) /\ maxProgress' \in Nat
  <2> DEFINE new == [i \in DOMAIN steps |->
                        [step    |-> steps[i],
                         enabled |-> steps[i] \notin DisabledSteps]]
  <2>1. new \in [1..Len(steps) -> QueuedStep]
    BY DEF QueuedStep
  <2>2. buildQueue' = buildQueue \o new
    BY DEF AppendSucceeds
  <2> HIDE DEF new
  <2>3. new \in Seq(QueuedStep)
    BY <2>1, SeqType
  <2>4. maxProgress' \in Nat
    BY DEF Shape, TypeInv, AppendSucceeds
  <2>5. buildQueue \in Seq(QueuedStep)
    BY DEF Shape, TypeInv
  <2> QED
    BY <2>2, <2>3, <2>4, <2>5
<1>3. activeBuildSteps' \in [Projects -> Int]
  <2> \A p \in Projects : Occurrences(steps, p) \in Nat
    <3> steps \in Seq(Steps \union {NoStep})
      OBVIOUS
    <3> QED
      BY OccurrencesAddUp
  <2> QED BY DEF Shape, TypeInv, AppendSucceeds
<1>4. /\ StartBuildQueue
      /\ UNCHANGED <<currentBuildStep, skipDisabled>>
      /\ UNCHANGED <<executing, watched, watcherFinished, result, deployments>>
      /\ UNCHANGED <<eventLoop, cancels, canceler>>
  BY DEF AppendSucceeds, stepVars
<1>5. TypeInv'
  <2>1. Flags'
    BY <1>4, Zenon DEF Shape, TypeInv, Flags, StartBuildQueue, historyVars
  <2>2. progress' \in Nat /\ call' \in Calls
    BY <1>4 DEF Shape, TypeInv, StartBuildQueue
  <2> QED
    BY <1>2, <1>3, <1>4, <2>1, <2>2 DEF Shape, TypeInv
<1> QED
  BY <1>1, <1>4, <1>5 DEF Shape, TypeInv, Flags, Phases, Executions,
     NoStaleFinish,
     NestedLoops, Requests, Failures, StartBuildQueue, Input, InEventLoop,
     historyVars

(* Telling the event loop of the cancel() at place e to exit. *)
LEMMA ToldToExit ==
    ASSUME cancels \in Seq(CancelCall), NEW e \in DOMAIN cancels
    PROVE  LET told == [cancels EXCEPT ![e].exited = TRUE]
           IN  /\ told \in Seq(CancelCall)
               /\ Len(told) = Len(cancels)
               /\ \A i \in 1..Len(cancels) :
                     told[i].exited <=> cancels[i].exited \/ i = e
<1> DEFINE told == [cancels EXCEPT ![e].exited = TRUE]
           c == [cancels[e] EXCEPT !.exited = TRUE]
<1>1. cancels[e] \in CancelCall
  OBVIOUS
<1>2. c \in CancelCall /\ c.exited
  BY <1>1 DEF CancelCall
<1>3. told = [cancels EXCEPT ![e] = c]
  OBVIOUS
<1> HIDE DEF told, c
<1>4. told \in Seq(CancelCall) /\ Len(told) = Len(cancels)
  BY <1>2, <1>3
<1>5. \A i \in 1..Len(cancels) : told[i] = IF i = e THEN c ELSE cancels[i]
  BY <1>3
<1> QED
  BY <1>2, <1>4, <1>5 DEF told

(* cancel() from an event loop. *)
LEMMA CancelKeepsShape ==
    ASSUME Shape, InEventLoop,
           NEW p \in Projects \union {NoProject}, CancelCurrentStep(p),
           cancelRequested', progressCanceled' \in BOOLEAN
    PROVE  Shape'
<1>1. /\ running /\ running' /\ canceling' /\ call = "none"
      /\ currentBuildStep # NoStep /\ currentBuildStep \in Steps
  BY DEF Shape, TypeInv, Phases, InEventLoop, CancelCurrentStep
<1>2. ~skipDisabled \/ Active = {}
  BY DEF Shape, Executions
<1>3. /\ running' = running
      /\ currentBuildStep' = currentBuildStep
      /\ canceling' = TRUE
      /\ skipDisabled' = skipDisabled
      /\ watched' = watched
      /\ watcherFinished' = watcherFinished
      /\ executing' = executing
      /\ result' = result
      /\ failed' = failed
  BY DEF CancelCurrentStep, queueVars
<1>4. CASE currentBuildStep \notin GuiSteps
  <2>1. /\ Active' = Active
        /\ Exited' = Exited
        /\ call' = "waitForFinished"
    BY <1>4 DEF CancelCurrentStep, Active, Exited
  <2>2. Exited = {}
    BY <1>4 DEF Shape, NestedLoops
  <2>3. Flags'
    BY <1>3, <1>4, Zenon DEF Shape, TypeInv, Flags, CancelCurrentStep
  <2>4. TypeInv'
    BY <1>1, <1>4, <2>3 DEF Shape, TypeInv, CancelCurrentStep, queueVars,
       accountVars
  <2> QED
    BY <1>1, <1>3, <1>4, <2>1, <2>2, <2>4 DEF Shape, Phases, Executions,
       NoStaleFinish, NestedLoops, Requests, Failures
<1>5. CASE currentBuildStep \in GuiSteps
  <2> DEFINE d == deployments[currentBuildStep]
             told == [cancels EXCEPT ![eventLoop].exited = TRUE]
             new == [exited |-> FALSE, canceler |-> p]
  <2>1. PICK o \in Cancel(d) :
          /\ deployments' = [deployments EXCEPT ![currentBuildStep] =
                  o.deployment]
          /\ \/ /\ o.finished
                /\ eventLoop = 0
                /\ call' = "finishCancel"
                /\ canceler' = p
                /\ UNCHANGED <<eventLoop, cancels>>
             \/ /\ o.finished
                /\ eventLoop # 0
                /\ cancels' = Append(told, new)
                /\ eventLoop' = Len(cancels')
                /\ UNCHANGED <<call, canceler>>
             \/ /\ ~o.finished
                /\ cancels' = Append(cancels, new)
                /\ eventLoop' = Len(cancels')
                /\ UNCHANGED <<call, canceler>>
    BY <1>5 DEF CancelCurrentStep
  <2>2. d \in Deployment
    BY <1>5 DEF Shape, TypeInv
  <2>3. /\ o \in Outcome
        /\ o.finished <=> d.state # "Inactive" /\ o.deployment.state =
                "Inactive"
        /\ d.state = "Inactive" => o.deployment.state = "Inactive"
    BY <2>2, CancelOutcomes
  <2>4. /\ Active' = {} \/ Active' = Active
        /\ o.finished => Active = {currentBuildStep} /\ Active' = {}
    BY <1>3, <1>5, <2>1, <2>3 DEF Shape, TypeInv, Executions, Active
  <2>5. /\ cancels' \in Seq(CancelCall)
        /\ eventLoop' \in 0..Len(cancels')
        /\ \/ Exited' = Exited
           \/ /\ o.finished
              /\ Exited' = Exited \union {eventLoop}
              /\ UNCHANGED call
    <3>1. cancels \in Seq(CancelCall) /\ eventLoop \in 0..Len(cancels)
      BY DEF Shape, TypeInv
    <3>2. new \in CancelCall /\ ~new.exited
      BY DEF CancelCall
    <3>3. CASE UNCHANGED <<eventLoop, cancels>>
      BY <3>1, <3>3 DEF Exited
    <3>4. CASE cancels' = Append(cancels, new) /\ eventLoop' = Len(cancels')
      <4> HIDE DEF new
      <4>1. cancels' \in Seq(CancelCall) /\ Len(cancels') = Len(cancels) + 1
        BY <3>1, <3>2, <3>4
      <4>2. Exited' = Exited
        BY <3>1, <3>2, <3>4 DEF Exited
      <4> QED
        BY <3>1, <3>4, <4>1, <4>2
    <3>5. CASE /\ o.finished
               /\ eventLoop # 0
               /\ cancels' = Append(told, new)
               /\ eventLoop' = Len(cancels')
               /\ UNCHANGED <<call, canceler>>
      <4>1. eventLoop \in DOMAIN cancels
        BY <3>1, <3>5
      <4>2. /\ told \in Seq(CancelCall)
            /\ Len(told) = Len(cancels)
            /\ \A i \in 1..Len(cancels) :
                  told[i].exited <=> cancels[i].exited \/ i = eventLoop
        BY <3>1, <4>1, ToldToExit
      <4> HIDE DEF new, told
      <4>3. cancels' \in Seq(CancelCall) /\ Len(cancels') = Len(cancels) + 1
        BY <3>1, <3>2, <3>5, <4>2
      <4>4. Exited' = Exited \union {eventLoop}
        BY <3>1, <3>2, <3>5, <4>1, <4>2, <4>3 DEF Exited
      <4> QED
        BY <3>1, <3>5, <4>3, <4>4
    <3> QED
      BY <2>1, <3>3, <3>4, <3>5
  <2>6. o.finished => Exited = {}
    BY <2>4 DEF Shape, NestedLoops
  <2>7. TypeInv'
    <3>1. Flags'
      BY <1>3, <2>1, Zenon DEF Shape, TypeInv, Flags, CancelCurrentStep
    <3>2. deployments' \in [GuiSteps -> Deployment]
      BY <2>1, <2>3 DEF Shape, TypeInv, Outcome
    <3>3. call' \in Calls /\ canceler' \in Projects \union {NoProject}
      BY <2>1 DEF Shape, TypeInv
    <3>4. UNCHANGED <<queueVars, accountVars>>
      BY DEF CancelCurrentStep
    <3> QED
      BY <1>3, <2>5, <3>1, <3>2, <3>3, <3>4 DEF Shape, TypeInv, queueVars,
         accountVars
  <2>8. Phases'
    BY <1>1, <1>3, <1>5, <2>1, <2>7 DEF Shape, Phases
  <2>9. Executions'
    <3>1. o.finished \/ UNCHANGED call
      BY <2>1
    <3> QED
      BY <1>1, <1>2, <1>3, <2>1, <2>4, <3>1 DEF Shape, Executions,
         NoStaleFinish
  <2>10. NestedLoops'
    <3>1. o.finished \/ UNCHANGED call
      BY <2>1
    <3> QED
      BY <1>1, <1>3, <1>5, <2>4, <2>5, <2>6, <3>1 DEF Shape, NestedLoops
  <2>11. Requests' /\ Failures'
    BY <1>3 DEF Shape, Requests, Failures
  <2> QED
    BY <2>7, <2>8, <2>9, <2>10, <2>11 DEF Shape
<1> QED
  BY <1>4, <1>5

(* The steps of a queue are a sequence of steps. *)
LEMMA StepsOfQueue ==
    ASSUME NEW q \in Seq(QueuedStep)
    PROVE  LET steps == [i \in DOMAIN q |-> q[i].step]
           IN  /\ steps \in Seq(Steps)
               /\ Len(steps) = Len(q)
               /\ \A i \in 1..Len(q) : steps[i] = q[i].step
<1> DEFINE steps == [i \in DOMAIN q |-> q[i].step]
<1>1. /\ Len(q) \in Nat
      /\ DOMAIN q = 1..Len(q)
      /\ \A i \in 1..Len(q) : q[i].step \in Steps
  <2>1. \A r \in QueuedStep : r.step \in Steps
    BY DEF QueuedStep
  <2> QED
    BY <2>1
<1>2. steps \in [1..Len(q) -> Steps]
  BY <1>1
<1>3. \A i \in 1..Len(q) : steps[i] = q[i].step
  BY <1>1
<1> HIDE DEF steps
<1>4. steps \in Seq(Steps) /\ Len(steps) = Len(q)
  BY <1>1, <1>2, SeqType, Zenon
<1> QED
  BY <1>3, <1>4 DEF steps

(* decrementActiveBuildSteps() of the current step and the queued ones. *)
LEMMA Decrementing ==
    ASSUME TypeInv
    PROVE  /\ QueuedSteps \in Seq(Steps)
           /\ Len(QueuedSteps) = Len(buildQueue)
           /\ Decremented(<<currentBuildStep>>) \in [Projects -> Int]
           /\ Decremented(<<currentBuildStep>> \o QueuedSteps)
                \in [Projects -> Int]
<1>2. QueuedSteps \in Seq(Steps) /\ Len(QueuedSteps) = Len(buildQueue)
  BY StepsOfQueue DEF TypeInv, QueuedSteps
<1>3. <<currentBuildStep>> \in Seq(Steps \union {NoStep})
  BY DEF TypeInv
<1>4. QueuedSteps \in Seq(Steps \union {NoStep})
  BY <1>2
<1>5. <<currentBuildStep>> \o QueuedSteps \in Seq(Steps \union {NoStep})
  BY <1>3, <1>4
<1>6. \A u \in Seq(Steps \union {NoStep}) : Decremented(u) \in [Projects -> Int]
  <2> TAKE u \in Seq(Steps \union {NoStep})
  <2>1. \A p \in Projects : Occurrences(u, p) \in Nat
    BY OccurrencesAddUp
  <2> QED
    BY <2>1 DEF TypeInv, Decremented
<1> QED
  BY <1>2, <1>3, <1>5, <1>6

(* A step in which the build ends: nothing executes any more. *)
LEMMA EndKeepsShape ==
    ASSUME Shape,
           \/ EndOfQueue
           \/ NextBuildQueue /\ ~(skipDisabled \/ result)
           \/ FinishCancel
    PROVE  Shape'
<1>1. /\ running' = FALSE
      /\ currentBuildStep' = NoStep
      /\ maxProgress' = 0
      /\ progressCanceled' = TRUE
      /\ call' = "none"
      /\ buildQueue' = <<>>
      /\ UNCHANGED <<skipDisabled, canceling, eventLoop, cancels>>
      /\ UNCHANGED <<executing, watched, watcherFinished, result, deployments>>
      /\ UNCHANGED <<failed, cancelRequested>>
  BY DEF EndOfQueue, NextBuildQueue, FinishCancel, ClearBuildQueue,
     ForgetProgress, stepVars, cancelVars, historyVars
<1>2. Active = {} /\ Exited = {} /\ call # "none"
  BY DEF Shape, Executions, NestedLoops, EndOfQueue, NextBuildQueue,
     FinishCancel
<1>3. Active' = Active /\ Exited' = Exited
  BY <1>1 DEF Active, Exited
<1>4. watcherFinished => canceling
  BY <1>2 DEF EndOfQueue, NextBuildQueue, FinishCancel, Shape, Phases,
     Executions
<1>5. TypeInv'
  <2>1. Flags'
    BY <1>1, Zenon DEF Shape, TypeInv, Flags
  <2>2. activeBuildSteps' \in [Projects -> Int]
    BY Decrementing DEF Shape, TypeInv, EndOfQueue, NextBuildQueue,
       FinishCancel, ClearBuildQueue
  <2>3. progress' \in Nat /\ canceler' \in Projects \union {NoProject}
    <3>1. CASE EndOfQueue
      BY <3>1 DEF Shape, TypeInv, EndOfQueue, cancelVars
    <3>2. CASE NextBuildQueue
      BY <3>2 DEF Shape, TypeInv, NextBuildQueue, cancelVars
    <3>3. CASE FinishCancel
      BY <3>3 DEF Shape, TypeInv, FinishCancel
    <3> QED
      BY <3>1, <3>2, <3>3
  <2> QED
    BY <1>1, <2>1, <2>2, <2>3 DEF Shape, TypeInv
<1> QED
  BY <1>1, <1>2, <1>3, <1>4, <1>5 DEF Shape, Phases, Executions, NoStaleFinish,
     NestedLoops, Requests, Failures

(* nextBuildQueue() when the build goes on. *)
LEMMA AdvanceKeepsShape ==
    ASSUME Shape, NextBuildQueue, skipDisabled \/ result
    PROVE  Shape'
<1>1. Active' = Active /\ Exited' = Exited
  BY DEF NextBuildQueue, Active, Exited, stepVars, cancelVars
<1>2. TypeInv'
  <2>1. Flags'
    BY Zenon DEF Shape, TypeInv, Flags, NextBuildQueue, stepVars, cancelVars,
       historyVars, queueVars
  <2>2. activeBuildSteps' \in [Projects -> Int] /\ progress' \in Nat
    <3>1. /\ activeBuildSteps' = Decremented(<<currentBuildStep>>)
          /\ progress' = progress + 1
      BY DEF NextBuildQueue
    <3>2. TypeInv /\ progress \in Nat
      BY DEF Shape, TypeInv
    <3> QED
      BY <3>1, <3>2, Decrementing
  <2> QED
    BY <2>1, <2>2 DEF Shape, TypeInv, NextBuildQueue, stepVars, cancelVars,
       queueVars
<1> QED
  BY <1>1, <1>2 DEF Shape, Phases, Executions, NoStaleFinish, NestedLoops,
     Requests, Failures, NextBuildQueue, stepVars, cancelVars, historyVars,
     queueVars

(* nextStep() with something in the queue. *)
LEMMA TakeStepKeepsShape ==
    ASSUME Shape, NEW s \in Steps,
           SkipDisabledStep(s) \/ RunInWorkerThread(s) \/ RunInGuiThread(s)
    PROVE  Shape'
<1>1. /\ running
      /\ ~canceling
      /\ ~failed
      /\ Active = {}
      /\ Exited = {}
      /\ call = "nextStep"
      /\ ~watcherFinished
      /\ deployments \in [GuiSteps -> Deployment]
  BY DEF Shape, TypeInv, Phases, Executions, NestedLoops, Failures,
     SkipDisabledStep, RunInWorkerThread, RunInGuiThread, TakeStep
<1>2. buildQueue' \in Seq(QueuedStep)
  <2>1. buildQueue # <<>> /\ buildQueue' = Tail(buildQueue)
    BY DEF SkipDisabledStep, RunInWorkerThread, RunInGuiThread, TakeStep
  <2> QED
    BY <2>1 DEF Shape, TypeInv
<1>3. /\ currentBuildStep' = s
      /\ skipDisabled' \in BOOLEAN
      /\ UNCHANGED <<running, accountVars, cancelVars, progressCanceled,
                     cancelRequested>>
  BY DEF SkipDisabledStep, RunInWorkerThread, RunInGuiThread, TakeStep
<1>4. Exited' = Exited
  BY <1>3 DEF Exited, cancelVars
<1>5. s # NoStep
  BY StepsAssumption
<1>6. CASE SkipDisabledStep(s)
  <2>1. Active' = Active
    BY <1>6 DEF SkipDisabledStep, Active, stepVars
  <2>2. Flags'
    BY <1>3, <1>6, Zenon DEF Shape, TypeInv, Flags, SkipDisabledStep,
       stepVars, cancelVars
  <2>3. TypeInv'
    BY <1>2, <1>3, <1>6, <2>2 DEF Shape, TypeInv, SkipDisabledStep, stepVars,
       accountVars, cancelVars
  <2> QED
    BY <1>1, <1>3, <1>4, <1>5, <1>6, <2>1, <2>3 DEF Shape, Phases, Executions,
       NoStaleFinish, NestedLoops, Requests, Failures, SkipDisabledStep,
       stepVars, cancelVars
<1>7. CASE RunInWorkerThread(s)
  <2>1. Active' = {s} /\ executing' = {s}
    BY <1>1, <1>7 DEF RunInWorkerThread, Active
  <2>2. /\ s \notin GuiSteps
        /\ watched' = s
        /\ ~watcherFinished'
        /\ call' = "none"
        /\ skipDisabled' = FALSE
        /\ UNCHANGED <<result, deployments, failed>>
    BY <1>7 DEF RunInWorkerThread, TakeStep, Watch
  <2>3. Flags'
    BY <1>3, <1>7, <2>2, Zenon DEF Shape, TypeInv, Flags, cancelVars,
       RunInWorkerThread, Watch
  <2>4. TypeInv'
    BY <1>2, <1>3, <2>1, <2>2, <2>3 DEF Shape, TypeInv, accountVars, cancelVars
  <2>5. Phases' /\ Executions'
    BY <1>1, <1>3, <1>5, <2>1, <2>2 DEF Shape, Phases, Executions,
       NoStaleFinish, cancelVars
  <2>6. NestedLoops' /\ Requests' /\ Failures'
    BY <1>1, <1>3, <1>4, <2>2 DEF Shape, NestedLoops, Requests, Failures,
       cancelVars
  <2> QED
    BY <2>4, <2>5, <2>6 DEF Shape
<1>8. CASE RunInGuiThread(s)
  <2>1. PICK o \in Run(deployments[s]) :
        /\ deployments' = [deployments EXCEPT ![s] = o.deployment]
        /\ IF o.finished
           THEN /\ result' = ~o.deployment.hasError
                /\ failed' = (failed \/ o.deployment.hasError)
                /\ call' = "nextBuildQueue"
           ELSE call' = "none" /\ UNCHANGED <<result, failed>>
    BY <1>8 DEF RunInGuiThread
  <2>2. /\ deployments[s] \in Deployment
        /\ deployments[s].state = "Inactive"
    BY <1>1, <1>8 DEF RunInGuiThread, Active
  <2>3. o \in Outcome /\ (o.finished <=> o.deployment.state = "Inactive")
    BY <2>2, RunOutcomes
  <2>4. Active' = IF o.finished THEN {} ELSE {s}
    BY <1>1, <1>8, <2>1, <2>3 DEF RunInGuiThread, Active
  <2>5. /\ s \in GuiSteps
        /\ watched' = s
        /\ ~watcherFinished'
        /\ skipDisabled' = FALSE
        /\ UNCHANGED executing
        /\ executing = {}
    BY <1>1, <1>8 DEF RunInGuiThread, TakeStep, Watch, Active
  <2>6. Flags'
    BY <1>3, <1>8, <2>1, <2>3, Zenon DEF Shape, TypeInv, Flags,
       RunInGuiThread, TakeStep, Watch, cancelVars
  <2>7. deployments' \in [GuiSteps -> Deployment]
    BY <1>1, <2>1, <2>3 DEF Outcome
  <2>8. call' = IF o.finished THEN "nextBuildQueue" ELSE "none"
    BY <2>1
  <2>9. TypeInv'
    BY <1>2, <1>3, <2>5, <2>6, <2>7, <2>8 DEF Shape, TypeInv, accountVars,
       cancelVars
  <2>10. Phases' /\ Executions'
    BY <1>1, <1>3, <1>5, <2>4, <2>5, <2>8 DEF Shape, Phases, Executions,
       NoStaleFinish, cancelVars
  <2>11. NestedLoops' /\ Requests'
    BY <1>1, <1>3, <1>4, <2>5 DEF Shape, NestedLoops, Requests, cancelVars
  <2>12. Failures'
    BY <1>1, <2>1, <2>4, <2>5, <2>8 DEF Failures
  <2> QED
    BY <2>9, <2>10, <2>11, <2>12 DEF Shape
<1> QED
  BY <1>6, <1>7, <1>8

(* run() of a step returns in the worker thread. *)
LEMMA WorkerKeepsShape ==
    ASSUME Shape, NEW s \in Steps, WorkerFinishes(s)
    PROVE  Shape'
<1>1. /\ s \in executing
      /\ executing' = executing \ {s}
      /\ UNCHANGED <<queueVars, running, accountVars, watched, deployments,
                     cancelVars, progressCanceled, call, cancelRequested>>
  BY DEF WorkerFinishes
<1>2. /\ running
      /\ ~skipDisabled
      /\ currentBuildStep = s
      /\ watched = s
      /\ s \notin GuiSteps
      /\ Active = {s}
      /\ call \in {"none", "waitForFinished"}
      /\ Exited = {}
  BY <1>1 DEF Shape, Executions, NestedLoops, Active
<1>3. PICK ok \in BOOLEAN : /\ failed' = (failed \/ ~ok)
                            /\ result' = ok
                            /\ watcherFinished' = TRUE
  BY <1>2 DEF WorkerFinishes
<1>4. Active' = {} /\ executing' = {} /\ Exited' = Exited
  BY <1>1, <1>2 DEF Shape, Executions, Active, Exited, cancelVars
<1>5. ~failed \/ canceling
  BY <1>2 DEF Shape, Failures
<1>6. TypeInv'
  <2>1. Flags'
    BY <1>1, <1>3, Zenon DEF Shape, TypeInv, Flags, queueVars, cancelVars
  <2> QED
    BY <1>1, <2>1 DEF Shape, TypeInv, queueVars, accountVars, cancelVars
<1>7. Phases' /\ Executions'
  BY <1>1, <1>2, <1>4 DEF Shape, Phases, Executions, NoStaleFinish, queueVars,
     cancelVars
<1>8. NestedLoops' /\ Requests'
  BY <1>1, <1>2, <1>4 DEF Shape, NestedLoops, Requests, cancelVars
<1>9. Failures'
  <2>1. ok \/ ~result'
    BY <1>3
  <2>2. failed' /\ ~canceling => ~ok
    BY <1>3, <1>5
  <2>3. call \in {"none", "nextBuildQueue"} \/ canceling
    BY <1>2 DEF Shape, Phases
  <2> QED
    BY <1>1, <1>2, <1>4, <2>1, <2>2, <2>3 DEF Failures, queueVars, cancelVars
<1> QED
  BY <1>6, <1>7, <1>8, <1>9 DEF Shape

(* finished() of m_watcher is delivered. *)
LEMMA WatcherKeepsShape ==
    ASSUME Shape, WatcherFinished
    PROVE  Shape'
<1>1. /\ call = "none"
      /\ watcherFinished
      /\ watcherFinished' = FALSE
      /\ call' = IF canceling THEN call ELSE "nextBuildQueue"
      /\ UNCHANGED <<queueVars, running, accountVars, executing, watched,
                     result, deployments, cancelVars, progressCanceled,
                     failed, cancelRequested>>
  BY DEF WatcherFinished, InEventLoop, historyVars
<1>2. Active' = Active /\ Exited' = Exited
  BY <1>1 DEF Active, Exited, cancelVars
<1>3. ~canceling => Active = {}
  BY <1>1 DEF Shape, Executions, NoStaleFinish, Active
<1>4. TypeInv'
  <2>1. Flags'
    BY <1>1, Zenon DEF Shape, TypeInv, Flags, queueVars, cancelVars
  <2> QED
    BY <1>1, <2>1 DEF Shape, TypeInv, queueVars, accountVars, cancelVars
<1> QED
  BY <1>1, <1>2, <1>3, <1>4 DEF Shape, Phases, Executions, NoStaleFinish,
     NestedLoops, Requests, Failures, queueVars, cancelVars

(* Something happens to the deployment of a GUI step. *)
LEMMA DeploymentKeepsShape ==
    ASSUME Shape, NEW s \in GuiSteps, NEW o \in Event(deployments[s]),
           DeploymentEvent(s, o)
    PROVE  Shape'
<1>1. /\ call = "none"
      /\ deployments[s].state # "Inactive"
      /\ deployments' = [deployments EXCEPT ![s] = o.deployment]
      /\ UNCHANGED <<queueVars, running, accountVars, executing, watched,
                     watcherFinished, canceling, eventLoop, canceler,
                     progressCanceled, cancelRequested>>
  BY DEF DeploymentEvent, InEventLoop
<1>2. /\ deployments \in [GuiSteps -> Deployment]
      /\ deployments[s] \in Deployment
  BY DEF Shape, TypeInv
<1>3. /\ running
      /\ ~skipDisabled
      /\ currentBuildStep = s
      /\ Active = {s}
      /\ executing = {}
      /\ Exited = {}
      /\ ~watcherFinished \/ canceling
  BY <1>1 DEF Shape, Executions, NoStaleFinish, NestedLoops, Active
<1>4. o \in Outcome /\ (o.finished <=> o.deployment.state = "Inactive")
  BY <1>1, <1>2, EventOutcomes
<1>5. deployments' \in [GuiSteps -> Deployment]
  BY <1>1, <1>2, <1>4 DEF Outcome
<1>6. Active' = IF o.finished THEN {} ELSE {s}
  BY <1>1, <1>2, <1>3, <1>4 DEF Active
<1>7. CASE ~o.finished
  <2>1. UNCHANGED <<result, failed, call, cancels>>
    BY <1>7 DEF DeploymentEvent
  <2>2. Active' = Active /\ Exited' = Exited
    BY <1>3, <1>6, <1>7, <2>1 DEF Exited
  <2>3. TypeInv'
    BY <1>1, <1>5, <2>1 DEF Shape, TypeInv, Flags, queueVars, accountVars
  <2> QED
    BY <1>1, <2>1, <2>2, <2>3 DEF Shape, Phases, Executions, NoStaleFinish,
       NestedLoops, Requests, Failures, queueVars
<1>8. CASE o.finished
  <2>1. /\ result' = ~o.deployment.hasError
        /\ failed' = (failed \/ o.deployment.hasError)
        /\ BuildStepFinishedAsync
    BY <1>8 DEF DeploymentEvent
  <2>2. call' = IF canceling THEN call ELSE "nextBuildQueue"
    BY <2>1 DEF BuildStepFinishedAsync
  <2>3. /\ cancels' \in Seq(CancelCall)
        /\ eventLoop' \in 0..Len(cancels')
        /\ \/ Exited' = {}
           \/ canceling /\ Exited' = {eventLoop}
    <3>1. cancels \in Seq(CancelCall) /\ eventLoop \in 0..Len(cancels)
      BY DEF Shape, TypeInv
    <3>2. CASE cancels' = cancels
      BY <1>1, <1>3, <3>1, <3>2 DEF Exited
    <3>3. CASE /\ canceling
               /\ eventLoop # 0
               /\ cancels' = [cancels EXCEPT ![eventLoop].exited = TRUE]
      <4>1. eventLoop \in DOMAIN cancels
        BY <3>1, <3>3
      <4>2. /\ cancels' \in Seq(CancelCall)
            /\ Len(cancels') = Len(cancels)
            /\ \A i \in 1..Len(cancels) :
                  cancels'[i].exited <=> cancels[i].exited \/ i = eventLoop
        BY <3>1, <3>3, <4>1, ToldToExit
      <4>3. Exited' = Exited \union {eventLoop}
        BY <3>1, <4>1, <4>2 DEF Exited
      <4> QED
        BY <1>1, <1>3, <3>1, <3>3, <4>2, <4>3
    <3> QED
      BY <2>1, <3>2, <3>3 DEF BuildStepFinishedAsync
  <2>4. TypeInv'
    <3>1. Flags'
      BY <1>1, <2>1, Zenon DEF Shape, TypeInv, Flags, queueVars
    <3> QED
      BY <1>1, <1>5, <2>2, <2>3, <3>1 DEF Shape, TypeInv, queueVars,
         accountVars
  <2>5. Phases' /\ Executions'
    BY <1>1, <1>3, <1>6, <1>8, <2>2 DEF Shape, Phases, Executions,
       NoStaleFinish, queueVars
  <2>6. NestedLoops' /\ Requests'
    BY <1>1, <1>3, <1>6, <1>8, <2>2, <2>3 DEF Shape, NestedLoops, Requests,
       queueVars
  <2>7. Failures'
    <3>1. ~failed \/ canceling
      BY <1>3 DEF Shape, Failures
    <3>2. failed' /\ ~canceling => ~result'
      BY <2>1, <3>1
    <3> QED
      BY <1>1, <1>3, <1>6, <1>8, <2>2, <3>2 DEF Failures, queueVars
  <2> QED
    BY <2>4, <2>5, <2>6, <2>7 DEF Shape
<1> QED
  BY <1>7, <1>8

(* cancel() goes on when the worker thread is through, or when its nested  *)
(* event loop was told to exit.                                            *)
LEMMA ResumeKeepsShape ==
    ASSUME Shape, WaitForFinished \/ LeaveEventLoop
    PROVE  Shape'
<1>1. /\ call' = "finishCancel"
      /\ UNCHANGED <<queueVars, running, accountVars, stepVars, canceling,
                     progressCanceled, historyVars>>
  BY DEF WaitForFinished, LeaveEventLoop, cancelVars
<1>2. Active' = Active
  BY <1>1 DEF Active, stepVars
<1>3. CASE WaitForFinished
  <2>1. /\ call = "waitForFinished"
        /\ watched \notin executing
        /\ UNCHANGED cancelVars
    BY <1>3 DEF WaitForFinished
  <2>2. Active = {} /\ running /\ canceling
    BY <2>1 DEF Shape, Phases, Executions, Active
  <2>3. Exited' = Exited /\ Exited = {}
    BY <2>1 DEF Shape, NestedLoops, Exited, cancelVars
  <2>4. TypeInv'
    BY <1>1, <2>1 DEF Shape, TypeInv, Flags, queueVars, accountVars, stepVars,
       historyVars, cancelVars
  <2> QED
    BY <1>1, <1>2, <2>1, <2>2, <2>3, <2>4 DEF Shape, Phases, Executions,
       NoStaleFinish, NestedLoops, Requests, Failures, queueVars, stepVars,
       historyVars
<1>4. CASE LeaveEventLoop
  <2>1. /\ cancels \in Seq(CancelCall)
        /\ cancels # <<>>
        /\ cancels[Len(cancels)].exited
        /\ cancels' = SubSeq(cancels, 1, Len(cancels) - 1)
        /\ canceler' = cancels[Len(cancels)].canceler
        /\ eventLoop' = 0
    BY <1>4 DEF LeaveEventLoop, Last, Front, Shape, TypeInv
  <2>2. /\ Len(cancels) \in Exited
        /\ cancels[Len(cancels)] \in CancelCall
    BY <2>1 DEF Exited
  <2>3. /\ running
        /\ canceling
        /\ Active = {}
        /\ Exited = {Len(cancels)}
    BY <2>2 DEF Shape, NestedLoops
  <2>4. /\ cancels' \in Seq(CancelCall)
        /\ Len(cancels') = Len(cancels) - 1
        /\ \A i \in 1..(Len(cancels) - 1) : cancels'[i] = cancels[i]
    <3>1. Len(cancels) \in Nat \ {0}
      BY <2>1
    <3> DEFINE n == Len(cancels) - 1
    <3>2. n \in Nat /\ \A i \in 1..n : cancels[i] \in CancelCall
      BY <2>1, <3>1
    <3>3. cancels' = SubSeq(cancels, 1, n)
      BY <2>1
    <3> HIDE DEF n
    <3>4. /\ cancels' \in Seq(CancelCall)
          /\ Len(cancels') = n
          /\ \A i \in 1..n : cancels'[i] = cancels[1+i-1]
      BY <3>2, <3>3, SubSeqProperties
    <3>5. \A i \in 1..n : 1+i-1 = i
      BY <3>2
    <3> QED
      BY <3>4, <3>5 DEF n
  <2>5. Exited' = {}
    <3> SUFFICES ASSUME NEW i \in Exited'
                 PROVE  FALSE
      OBVIOUS
    <3>1. i \in 1..(Len(cancels) - 1) /\ cancels[i].exited
      BY <2>4 DEF Exited
    <3>2. i \in Exited /\ i # Len(cancels)
      BY <2>1, <3>1 DEF Exited
    <3> QED
      BY <2>3, <3>2
  <2>6. eventLoop' \in 0..Len(cancels')
    BY <2>1, <2>4
  <2>7. canceler' \in Projects \union {NoProject}
    BY <2>1, <2>2 DEF CancelCall
  <2>8. TypeInv'
    BY <1>1, <2>4, <2>6, <2>7 DEF Shape, TypeInv, Flags, queueVars,
       accountVars, stepVars, historyVars
  <2> QED
    BY <1>1, <1>2, <2>3, <2>5, <2>8 DEF Shape, Phases, Executions,
       NoStaleFinish, NestedLoops, Requests, Failures, queueVars, stepVars,
       historyVars
<1> QED
  BY <1>3, <1>4

(* Steps that leave alone what the invariant is about, but that the user   *)
(* may ask for the build to be canceled, or a project may be removed.      *)
LEMMA OthersKeepShape ==
    ASSUME Shape,
           UNCHANGED <<queueVars, running, activeBuildSteps, progress,
                       maxProgress, stepVars, cancelVars, call, failed>>,
           \/ UNCHANGED <<progressCanceled, cancelRequested>>
           \/ cancelRequested' = TRUE /\ progressCanceled' = TRUE
           \/ progressCanceled' = FALSE /\ UNCHANGED cancelRequested
    PROVE  Shape'
<1>1. Active' = Active /\ Exited' = Exited
  BY DEF Active, Exited, stepVars, cancelVars
<1>2. Flags'
  BY Zenon DEF Shape, TypeInv, Flags, queueVars, stepVars, cancelVars
<1>3. TypeInv'
  BY <1>2 DEF Shape, TypeInv, queueVars, stepVars, cancelVars
<1> QED
  BY <1>1, <1>3 DEF Shape, Phases, Executions, NoStaleFinish, NestedLoops,
     Requests, Failures, queueVars, stepVars, cancelVars
-----------------------------------------------------------------------------
(* The inductive invariant holds at the start. *)
LEMMA ShapeInit == Init => Shape
<1> SUFFICES ASSUME Init PROVE Shape
  OBVIOUS
<1>1. Active = {} /\ Exited = {}
  BY DEF Init, Active, Exited, NewDeployment
<1>2. Flags
  BY Zenon DEF Init, Flags
<1>3. deployments \in [GuiSteps -> Deployment]
  BY DEF Init, NewDeployment, Deployment
<1>4. TypeInv
  BY <1>2, <1>3 DEF Init, TypeInv
<1> QED
  BY <1>1, <1>4 DEF Init, Shape, Phases, Executions, NoStaleFinish,
     NestedLoops, Requests, Failures

(* Every step keeps it. *)
LEMMA ShapeStep == Shape /\ [Next]_vars => Shape'
<1> SUFFICES ASSUME Shape, [Next]_vars PROVE Shape'
  OBVIOUS
<1>1. ASSUME NEW p \in Projects, BuildProject(p)
      PROVE  Shape'
  <2>1. Input
    BY <1>1 DEF BuildProject
  <2>2. ListsOf(p, <<BuildSteps>>) \in Seq(Steps)
    <3> <<BuildSteps>> \in Seq([Projects -> Seq(Steps)])
      BY ProjectsAssumption
    <3> QED
      BY ListsType
  <2>3. CASE \E n \in DOMAIN ListsOf(p, <<BuildSteps>>) :
                AppendFails(ListsOf(p, <<BuildSteps>>), n)
    BY <1>1, <2>3, OthersKeepShape DEF BuildProject, AppendFails, historyVars,
       cancelVars
  <2>4. CASE AppendSucceeds(ListsOf(p, <<BuildSteps>>))
    BY <1>1, <2>1, <2>2, <2>4, AppendKeepsShape DEF BuildProject
  <2> QED
    BY <1>1, <2>3, <2>4 DEF BuildProject
<1>2. ASSUME NEW p \in Projects, RunRunConfiguration(p)
      PROVE  Shape'
  <2> DEFINE steps == ListsOf(p, <<BuildSteps, DeploySteps>>)
  <2>1. Input
    BY <1>2 DEF RunRunConfiguration
  <2>2. steps \in Seq(Steps)
    <3> <<BuildSteps, DeploySteps>> \in Seq([Projects -> Seq(Steps)])
      BY ProjectsAssumption
    <3> QED
      BY ListsType
  <2>3. CASE \E n \in DOMAIN steps : AppendFails(steps, n)
    BY <1>2, <2>3, OthersKeepShape DEF RunRunConfiguration, AppendFails,
       historyVars, cancelVars
  <2>4. CASE AppendSucceeds(steps)
    BY <1>2, <2>1, <2>2, <2>4, AppendKeepsShape DEF RunRunConfiguration
  <2> QED
    BY <1>2, <2>3, <2>4 DEF RunRunConfiguration
<1>3. ASSUME NEW p \in Projects, RemoveProject(p)
      PROVE  Shape'
  <2>1. UNCHANGED progressCanceled /\ InEventLoop
    BY <1>3 DEF RemoveProject, Input
  <2>2. CASE cancelRequested' = TRUE /\ CancelCurrentStep(p)
    BY <2>1, <2>2, CancelKeepsShape DEF Shape, TypeInv, Flags
  <2>3. CASE UNCHANGED <<queueVars, running, accountVars, stepVars,
                         cancelVars, call, historyVars>>
    BY <2>1, <2>3, OthersKeepShape DEF accountVars, historyVars
  <2> QED
    BY <1>3, <2>2, <2>3 DEF RemoveProject
<1>4. CASE CancelBuild
  <2>1. /\ InEventLoop
        /\ cancelRequested'
        /\ progressCanceled' \in BOOLEAN
        /\ CancelCurrentStep(NoProject)
    BY <1>4 DEF CancelBuild, Input, Shape, TypeInv, Flags
  <2> QED
    BY <2>1, CancelKeepsShape
<1>5. CASE CancelProgress
  BY <1>5, OthersKeepShape DEF CancelProgress, accountVars
<1>6. CASE ProgressCanceled
  <2>1. /\ InEventLoop
        /\ progressCanceled
        /\ progressCanceled' = FALSE
        /\ UNCHANGED cancelRequested
    BY <1>6 DEF ProgressCanceled
  <2>2. CASE CancelCurrentStep(NoProject)
    <3>1. cancelRequested'
      BY <2>1, <2>2 DEF Shape, Requests, CancelCurrentStep
    <3> QED
      BY <2>1, <2>2, <3>1, CancelKeepsShape
  <2>3. CASE UNCHANGED <<queueVars, running, accountVars, stepVars,
                         cancelVars, call, failed>>
    BY <2>1, <2>3, OthersKeepShape DEF accountVars
  <2> QED
    BY <1>6, <2>2, <2>3 DEF ProgressCanceled
<1>7. CASE DelayRunConfiguration
  BY <1>7, OthersKeepShape DEF DelayRunConfiguration, accountVars, historyVars
<1>8. CASE EndOfQueue \/ NextBuildQueue \/ FinishCancel
  BY <1>8, EndKeepsShape, AdvanceKeepsShape
<1>9. CASE WatcherFinished
  BY <1>9, WatcherKeepsShape
<1>10. CASE WaitForFinished \/ LeaveEventLoop
  BY <1>10, ResumeKeepsShape
<1>11. ASSUME NEW s \in Steps,
              SkipDisabledStep(s) \/ RunInWorkerThread(s) \/ RunInGuiThread(s)
       PROVE  Shape'
  BY <1>11, TakeStepKeepsShape
<1>12. ASSUME NEW s \in Steps, WorkerFinishes(s)
       PROVE  Shape'
  BY <1>12, WorkerKeepsShape
<1>13. ASSUME NEW s \in GuiSteps, NEW o \in Event(deployments[s]),
              DeploymentEvent(s, o)
       PROVE  Shape'
  BY <1>13, DeploymentKeepsShape
<1>14. CASE UNCHANGED vars
  BY <1>14, OthersKeepShape DEF vars, accountVars, historyVars
<1> QED
  BY <1>1, <1>2, <1>3, <1>4, <1>5, <1>6, <1>7, <1>8, <1>9, <1>10, <1>11,
     <1>12, <1>13, <1>14 DEF Next, User, Gui, Worker, Device

(* The shape of every reachable state; it has the type invariant.          *)
THEOREM Typing == Spec => []Shape
<1> QED
  BY ShapeInit, ShapeStep, PTL DEF Spec

(* No step executes beside another one, whatever thread it runs in and     *)
(* however its predecessor ended.                                          *)
THEOREM NeverTwoSteps == Spec => []OneStepAtATime
<1>1. Shape => OneStepAtATime
  BY DEF Shape, Executions, Active, OneStepAtATime
<1> QED
  BY <1>1, Typing, PTL

(* A finished() that is posted by a canceled step never ends another one.  *)
THEOREM FinishIsFresh == Spec => []NoStaleFinish
<1>1. Shape => NoStaleFinish
  BY DEF Shape, Executions
<1> QED
  BY <1>1, Typing, PTL

(* No build is canceled by what the user asked for another one.            *)
THEOREM CancelsAreRequested == Spec => []OnlyRequestedCancels
<1>1. Shape => OnlyRequestedCancels
  BY DEF Shape, Requests, OnlyRequestedCancels
<1> QED
  BY <1>1, Typing, PTL
-----------------------------------------------------------------------------
(* What a step does to the pending steps and the counters: nothing, but    *)
(* that a step may fail; steps are queued; one is done; or all that are    *)
(* left are dropped.                                                       *)
Accounted ==
    /\ UNCHANGED <<Pending, running, activeBuildSteps, progress, maxProgress,
                   announced>>
    /\ \/ UNCHANGED failed
       \/ running /\ Pending # <<>> /\ failed' = TRUE

Queued ==
    \E steps \in Seq(Steps) :
        /\ steps # <<>>
        /\ Pending' = Pending \o steps
        /\ activeBuildSteps' = [p \in Projects |->
                activeBuildSteps[p] + Occurrences(steps, p)]
        /\ maxProgress' = maxProgress + Len(steps)
        /\ running' = TRUE
        /\ IF running
           THEN UNCHANGED <<progress, failed, announced>>
           ELSE progress' = 0 /\ failed' = FALSE /\ announced' = "none"

Done ==
    /\ running
    /\ running' = TRUE
    /\ Pending # <<>>
    /\ Pending' = Tail(Pending)
    /\ activeBuildSteps' = Decremented(<<Head(Pending)>>)
    /\ progress' = progress + 1
    /\ UNCHANGED <<maxProgress, failed, announced>>

Ended ==
    /\ running
    /\ running' = FALSE
    /\ Pending' = <<>>
    /\ \/ activeBuildSteps' = Decremented(Pending)
       \/ UNCHANGED activeBuildSteps /\ Pending = <<>>
    /\ maxProgress' = 0
    /\ UNCHANGED failed
    /\ \/ announced' = "failure"
       \/ announced' = "success" /\ Pending = <<>> /\ ~failed

(* The current step is the first of the pending ones until nextStep() is   *)
(* called.                                                                 *)
LEMMA PendingSteps ==
    ASSUME Shape
    PROVE  /\ Pending \in Seq(Steps)
           /\ QueuedSteps \in Seq(Steps)
           /\ running /\ call # "nextStep" =>
                /\ Pending = <<currentBuildStep>> \o QueuedSteps
                /\ Pending # <<>>
                /\ Head(Pending) = currentBuildStep
                /\ Tail(Pending) = QueuedSteps
           /\ ~running \/ call = "nextStep" => Pending = QueuedSteps
<1>1. TypeInv /\ QueuedSteps \in Seq(Steps)
  BY Decrementing DEF Shape
<1>2. CASE running /\ call # "nextStep"
  <2>1. currentBuildStep \in Steps
    BY <1>2 DEF Shape, TypeInv, Phases
  <2>2. Pending = <<currentBuildStep>> \o QueuedSteps
    BY <1>2, <2>1, StepsAssumption DEF Pending
  <2> HIDE DEF QueuedSteps
  <2>3. Pending \in Seq(Steps) /\ Pending # <<>>
    BY <1>1, <2>1, <2>2
  <2>4. Head(Pending) = currentBuildStep
    BY <1>1, <2>1, <2>2
  <2>5. Tail(Pending) = QueuedSteps
    BY <1>1, <2>1, <2>2
  <2> QED
    BY <1>1, <1>2, <2>2, <2>3, <2>4, <2>5
<1>3. CASE ~running \/ call = "nextStep"
  BY <1>1, <1>3 DEF Pending
<1> QED
  BY <1>2, <1>3

(* As long as neither changes, and nextStep() is not called, the pending   *)
(* steps stay the same.                                                    *)
LEMMA PendingStays ==
    ASSUME UNCHANGED <<buildQueue, currentBuildStep, running>>,
           call' = call \/ "nextStep" \notin {call, call'}
    PROVE  UNCHANGED Pending
  BY DEF Pending, QueuedSteps

(* The steps of a queue to which others are appended. *)
LEMMA StepsAppended ==
    ASSUME NEW q \in Seq(QueuedStep), NEW r \in Seq(QueuedStep),
           NEW t \in Seq(Steps), Len(r) = Len(t),
           \A i \in 1..Len(t) : r[i].step = t[i]
    PROVE  [i \in DOMAIN (q \o r) |-> (q \o r)[i].step] =
               [i \in DOMAIN q |-> q[i].step] \o t
<1> DEFINE qr == q \o r
           front == [i \in DOMAIN q |-> q[i].step]
           all == [i \in DOMAIN qr |-> qr[i].step]
<1>1. /\ qr \in Seq(QueuedStep)
      /\ Len(qr) = Len(q) + Len(t)
      /\ \A i \in 1..(Len(q) + Len(t)) :
            qr[i] = IF i <= Len(q) THEN q[i] ELSE r[i - Len(q)]
  <2>1. /\ qr \in Seq(QueuedStep)
        /\ Len(qr) = Len(q) + Len(r)
        /\ \A i \in 1..(Len(q) + Len(r)) :
              qr[i] = IF i <= Len(q) THEN q[i] ELSE r[i - Len(q)]
    BY ConcatProperties, Zenon
  <2> QED
    BY <2>1, Zenon
<1>2. /\ front \in Seq(Steps)
      /\ Len(front) = Len(q)
      /\ \A i \in 1..Len(q) : front[i] = q[i].step
  BY StepsOfQueue
<1> HIDE DEF qr, front
<1>3. /\ all \in Seq(Steps)
      /\ Len(all) = Len(qr)
      /\ \A i \in 1..Len(qr) : all[i] = qr[i].step
  BY <1>1, StepsOfQueue
<1> HIDE DEF all
<1>4. /\ front \o t \in Seq(Steps)
      /\ Len(front \o t) = Len(q) + Len(t)
      /\ \A i \in 1..(Len(q) + Len(t)) : (front \o t)[i] =
            IF i <= Len(q) THEN front[i] ELSE t[i - Len(q)]
  <2>1. /\ front \o t \in Seq(Steps)
        /\ Len(front \o t) = Len(front) + Len(t)
        /\ \A i \in 1..(Len(front) + Len(t)) : (front \o t)[i] =
              IF i <= Len(front) THEN front[i] ELSE t[i - Len(front)]
    BY <1>2, ConcatProperties, Zenon
  <2> QED
    BY <1>2, <2>1, Zenon
<1>5. ASSUME NEW i \in 1..Len(all)
      PROVE  all[i] = (front \o t)[i]
  <2>1. Len(q) \in Nat /\ Len(t) \in Nat
    OBVIOUS
  <2>2. CASE i <= Len(q)
    BY <1>1, <1>2, <1>3, <1>4, <2>1, <2>2
  <2>3. CASE ~(i <= Len(q))
    <3>1. i - Len(q) \in 1..Len(t)
      BY <1>1, <1>3, <2>1, <2>3
    <3> QED
      BY <1>1, <1>3, <1>4, <2>3, <3>1
  <2> QED
    BY <2>2, <2>3
<1> QED
  BY <1>1, <1>3, <1>4, <1>5, SeqEqual DEF all, front, qr

(* buildQueueAppend() and startBuildQueue(). *)
LEMMA AppendQueues ==
    ASSUME Shape, Input, NEW steps \in Seq(Steps), steps # <<>>,
           AppendSucceeds(steps)
    PROVE  Queued
<1> DEFINE new == [i \in DOMAIN steps |->
                      [step    |-> steps[i],
                       enabled |-> steps[i] \notin DisabledSteps]]
<1>1. /\ new \in [1..Len(steps) -> QueuedStep]
      /\ Len(steps) \in Nat
      /\ \A i \in 1..Len(steps) : new[i].step = steps[i]
  BY DEF QueuedStep
<1>2. buildQueue' = buildQueue \o new /\ UNCHANGED currentBuildStep
  BY DEF AppendSucceeds
<1> HIDE DEF new
<1>3. new \in Seq(QueuedStep) /\ Len(new) = Len(steps)
  BY <1>1, SeqType, Zenon
<1>4. buildQueue \in Seq(QueuedStep) /\ call = "none"
  BY DEF Shape, TypeInv, Input, InEventLoop
<1>5. QueuedSteps' = QueuedSteps \o steps
  <2>1. /\ Len(new) = Len(steps)
        /\ \A i \in 1..Len(steps) : new[i].step = steps[i]
    BY <1>1, <1>3
  <2>2. [i \in DOMAIN (buildQueue \o new) |-> (buildQueue \o new)[i].step] =
            [i \in DOMAIN buildQueue |-> buildQueue[i].step] \o steps
    BY <1>3, <1>4, <2>1, StepsAppended, Zenon
  <2> QED
    BY <1>2, <2>2, Zenon DEF QueuedSteps
<1>6. Pending' = Pending \o steps
  <2>1. CASE running
    <3>1. running' = running /\ call' = call
      BY <2>1 DEF AppendSucceeds, StartBuildQueue
    <3>2. Pending = <<currentBuildStep>> \o QueuedSteps
      BY <1>4, <2>1, PendingSteps
    <3>3. Pending' = <<currentBuildStep>> \o QueuedSteps'
      <4>1. currentBuildStep # NoStep
        BY <1>4, <2>1 DEF Shape, Phases
      <4> QED
        BY <1>2, <1>4, <2>1, <3>1, <4>1 DEF Pending
    <3>4. /\ QueuedSteps \in Seq(Steps)
          /\ <<currentBuildStep>> \in Seq(Steps \union {NoStep})
      BY PendingSteps DEF Shape, TypeInv
    <3> HIDE DEF QueuedSteps
    <3>5. /\ QueuedSteps \in Seq(Steps \union {NoStep})
          /\ steps \in Seq(Steps \union {NoStep})
      BY <3>4
    <3> QED
      BY <1>5, <3>2, <3>3, <3>4, <3>5, ConcatAssociative
  <2>2. CASE ~running
    <3>1. call' = "nextStep"
      BY <2>2 DEF AppendSucceeds, StartBuildQueue
    <3>2. Pending = QueuedSteps /\ Pending' = QueuedSteps'
      BY <2>2, <3>1 DEF Pending
    <3> QED
      BY <1>5, <3>2
  <2> QED
    BY <2>1, <2>2
<1>7. /\ activeBuildSteps' = [p \in Projects |->
            activeBuildSteps[p] + Occurrences(steps, p)]
      /\ maxProgress' = maxProgress + Len(steps)
      /\ running' = TRUE
      /\ IF running
         THEN UNCHANGED <<progress, failed, announced>>
         ELSE progress' = 0 /\ failed' = FALSE /\ announced' = "none"
  BY DEF AppendSucceeds, StartBuildQueue, historyVars, Shape, TypeInv, Flags
<1> QED
  BY <1>6, <1>7 DEF Queued

(* nextStep() makes the first of the pending steps the current one. *)
LEMMA TakeStepIsAccounted ==
    ASSUME Shape, NEW s \in Steps,
           SkipDisabledStep(s) \/ RunInWorkerThread(s) \/ RunInGuiThread(s)
    PROVE  Accounted
<1>1. /\ call = "nextStep"
      /\ call' # "nextStep"
      /\ buildQueue # <<>>
      /\ Head(buildQueue).step = s
      /\ buildQueue' = Tail(buildQueue)
      /\ currentBuildStep' = s
      /\ UNCHANGED <<running, accountVars, announced>>
  BY DEF SkipDisabledStep, RunInWorkerThread, RunInGuiThread, TakeStep
<1>2. running /\ s # NoStep
  BY <1>1, StepsAssumption DEF Shape, Phases
<1>3. Pending = QueuedSteps /\ Pending' = <<s>> \o QueuedSteps'
  BY <1>1, <1>2 DEF Pending
<1>4. QueuedSteps # <<>> /\ QueuedSteps = <<s>> \o QueuedSteps'
  <2>1. buildQueue \in Seq(QueuedStep) /\ buildQueue[1].step = s
    BY <1>1 DEF Shape, TypeInv
  <2>2. /\ Len(buildQueue) \in Nat \ {0}
        /\ buildQueue' \in Seq(QueuedStep)
        /\ Len(buildQueue') = Len(buildQueue) - 1
        /\ \A i \in 1..(Len(buildQueue) - 1) : buildQueue'[i] = buildQueue[i+1]
    BY <1>1, <2>1
  <2>3. /\ QueuedSteps \in Seq(Steps)
        /\ Len(QueuedSteps) = Len(buildQueue)
        /\ \A i \in 1..Len(buildQueue) : QueuedSteps[i] = buildQueue[i].step
    BY <2>1, StepsOfQueue, Zenon DEF QueuedSteps
  <2>4. /\ QueuedSteps' \in Seq(Steps)
        /\ Len(QueuedSteps') = Len(buildQueue')
        /\ \A i \in 1..Len(buildQueue') : QueuedSteps'[i] = buildQueue'[i].step
    BY <2>2, StepsOfQueue, Zenon DEF QueuedSteps
  <2>5. QueuedSteps # <<>> /\ Head(QueuedSteps) = s
    BY <2>1, <2>2, <2>3
  <2>6. Tail(QueuedSteps) = QueuedSteps'
    <3>1. /\ Tail(QueuedSteps) \in Seq(Steps)
          /\ Len(Tail(QueuedSteps)) = Len(QueuedSteps) - 1
          /\ \A i \in 1..(Len(QueuedSteps) - 1) :
                Tail(QueuedSteps)[i] = QueuedSteps[i+1]
      BY <2>3, <2>5
    <3>2. \A i \in 1..(Len(buildQueue) - 1) :
              Tail(QueuedSteps)[i] = QueuedSteps'[i]
      <4> TAKE i \in 1..(Len(buildQueue) - 1)
      <4>1. i + 1 \in 1..Len(buildQueue)
        BY <2>2
      <4> QED
        BY <2>2, <2>3, <2>4, <3>1, <4>1
    <3> QED
      BY <2>2, <2>3, <2>4, <3>1, <3>2, SeqEqual
  <2> QED
    BY <2>3, <2>5, <2>6, HeadAndTail, Zenon
<1>5. UNCHANGED failed \/ failed' = TRUE
  BY DEF SkipDisabledStep, RunInWorkerThread, RunInGuiThread, Run, Shape,
     TypeInv, Flags
<1>6. UNCHANGED Pending /\ Pending # <<>>
  BY <1>3, <1>4, Zenon
<1>7. UNCHANGED <<running, activeBuildSteps, progress, maxProgress, announced>>
  BY <1>1 DEF accountVars
<1> QED
  BY <1>2, <1>5, <1>6, <1>7, Zenon DEF Accounted

(* nextBuildQueue() after a step that succeeded or was skipped. *)
LEMMA AdvanceIsDone ==
    ASSUME Shape, NextBuildQueue, skipDisabled \/ result
    PROVE  Done
<1>1. /\ call = "nextBuildQueue"
      /\ call' = "nextStep"
      /\ progress' = progress + 1
      /\ activeBuildSteps' = Decremented(<<currentBuildStep>>)
      /\ UNCHANGED <<buildQueue, running, maxProgress, failed, announced>>
  BY DEF NextBuildQueue, queueVars, historyVars
<1>2. running
  BY <1>1 DEF Shape, Phases
<1>3. /\ Pending # <<>>
      /\ Head(Pending) = currentBuildStep
      /\ Tail(Pending) = QueuedSteps
  BY <1>1, <1>2, PendingSteps
<1>4. Pending' = QueuedSteps
  BY <1>1 DEF Pending, QueuedSteps
<1> QED
  BY <1>1, <1>2, <1>3, <1>4 DEF Done, Shape, TypeInv, Flags

(* A build ends with its last step, a failed one, or cancel(). *)
LEMMA EndIsEnded ==
    ASSUME Shape,
           \/ EndOfQueue
           \/ NextBuildQueue /\ ~(skipDisabled \/ result)
           \/ FinishCancel
    PROVE  Ended
<1>1. /\ running' = FALSE
      /\ buildQueue' = <<>>
      /\ maxProgress' = 0
      /\ UNCHANGED failed
  BY DEF EndOfQueue, NextBuildQueue, FinishCancel, ClearBuildQueue, historyVars
<1>2. Pending' = <<>>
  BY <1>1 DEF Pending, QueuedSteps
<1>3. running
  BY DEF EndOfQueue, NextBuildQueue, FinishCancel, Shape, Phases
<1>4. CASE EndOfQueue
  <2>1. /\ call = "nextStep"
        /\ buildQueue = <<>>
        /\ announced' = "success"
        /\ UNCHANGED activeBuildSteps
    BY <1>4 DEF EndOfQueue, Announce
  <2>2. Pending = <<>>
    BY <2>1 DEF Pending, QueuedSteps
  <2>3. ~failed
    BY <1>3, <2>1 DEF Shape, Phases, Failures
  <2> QED
    BY <1>1, <1>2, <1>3, <2>1, <2>2, <2>3 DEF Ended
<1>5. CASE call # "nextStep" /\ ClearBuildQueue(<<currentBuildStep>>)
  <2>1. Pending = <<currentBuildStep>> \o QueuedSteps
    BY <1>3, <1>5, PendingSteps
  <2>2. /\ activeBuildSteps' = Decremented(Pending)
        /\ announced' = "failure"
    BY <1>5, <2>1 DEF ClearBuildQueue, Announce
  <2> QED
    BY <1>1, <1>2, <1>3, <2>2 DEF Ended
<1> QED
  BY <1>4, <1>5 DEF NextBuildQueue, FinishCancel

(* Steps in the worker thread, of devices and of cancel() leave the        *)
(* accounts alone.                                                         *)
LEMMA OthersAreAccounted ==
    ASSUME Shape,
           UNCHANGED <<queueVars, running, activeBuildSteps, progress,
                       maxProgress, announced>>,
           call' = call \/ "nextStep" \notin {call, call'},
           \/ UNCHANGED failed
           \/ running /\ call # "nextStep" /\ failed' = TRUE
    PROVE  Accounted
<1>1. UNCHANGED Pending
  BY PendingStays DEF queueVars
<1>2. \/ UNCHANGED failed
      \/ running /\ Pending # <<>> /\ failed' = TRUE
  BY PendingSteps DEF Shape, TypeInv, Flags
<1> QED
  BY <1>1, <1>2, Zenon DEF Accounted

(* These are all that happens to the pending steps and the counters. *)
LEMMA AccountStep ==
    ASSUME Shape, [Next]_vars
    PROVE  Accounted \/ Queued \/ Done \/ Ended
<1>1. ASSUME NEW p \in Projects, BuildProject(p)
      PROVE  Accounted \/ Queued
  <2> DEFINE steps == ListsOf(p, <<BuildSteps>>)
  <2>1. Input /\ steps # <<>>
    BY <1>1 DEF BuildProject
  <2>2. steps \in Seq(Steps)
    <3> <<BuildSteps>> \in Seq([Projects -> Seq(Steps)])
      BY ProjectsAssumption
    <3> QED
      BY ListsType
  <2>3. CASE \E n \in DOMAIN steps : AppendFails(steps, n)
    BY <1>1, <2>3, OthersAreAccounted DEF AppendFails, historyVars
  <2>4. CASE AppendSucceeds(steps)
    BY <2>1, <2>2, <2>4, AppendQueues
  <2> QED
    BY <1>1, <2>3, <2>4 DEF BuildProject
<1>2. ASSUME NEW p \in Projects, RunRunConfiguration(p)
      PROVE  Accounted \/ Queued
  <2> DEFINE steps == ListsOf(p, <<BuildSteps, DeploySteps>>)
  <2>1. Input /\ steps # <<>>
    BY <1>2 DEF RunRunConfiguration
  <2>2. steps \in Seq(Steps)
    <3> <<BuildSteps, DeploySteps>> \in Seq([Projects -> Seq(Steps)])
      BY ProjectsAssumption
    <3> QED
      BY ListsType
  <2>3. CASE \E n \in DOMAIN steps : AppendFails(steps, n)
    BY <1>2, <2>3, OthersAreAccounted DEF AppendFails, historyVars
  <2>4. CASE AppendSucceeds(steps)
    BY <2>1, <2>2, <2>4, AppendQueues
  <2> QED
    BY <1>2, <2>3, <2>4 DEF RunRunConfiguration
<1>3. ASSUME InEventLoop, NEW p, CancelCurrentStep(p)
      PROVE  Accounted
  <2>1. UNCHANGED <<queueVars, running, accountVars, announced, failed>>
    BY <1>3 DEF CancelCurrentStep
  <2>2. call = "none" /\ call' # "nextStep"
    BY <1>3 DEF InEventLoop, CancelCurrentStep
  <2> QED
    BY <2>1, <2>2, OthersAreAccounted DEF accountVars
<1>4. ASSUME NEW p \in Projects, RemoveProject(p)
      PROVE  Accounted
  <2>1. CASE CancelCurrentStep(p)
    BY <1>3, <1>4, <2>1 DEF RemoveProject, Input
  <2>2. CASE UNCHANGED <<queueVars, running, accountVars, call, announced,
                         historyVars>>
    BY <2>2, OthersAreAccounted DEF accountVars, historyVars
  <2> QED
    BY <1>4, <2>1, <2>2 DEF RemoveProject
<1>5. CASE CancelBuild
  BY <1>3, <1>5 DEF CancelBuild, Input
<1>6. CASE ProgressCanceled
  <2>1. CASE CancelCurrentStep(NoProject)
    BY <1>3, <1>6, <2>1 DEF ProgressCanceled
  <2>2. CASE UNCHANGED <<queueVars, running, accountVars, call, announced,
                         failed>>
    BY <2>2, OthersAreAccounted DEF accountVars
  <2> QED
    BY <1>6, <2>1, <2>2 DEF ProgressCanceled
<1>7. CASE CancelProgress
  BY <1>7, OthersAreAccounted DEF CancelProgress, accountVars
<1>8. CASE DelayRunConfiguration
  BY <1>8, OthersAreAccounted DEF DelayRunConfiguration, accountVars,
     historyVars
<1>9. CASE WatcherFinished
  <2>1. /\ call = "none" /\ call' # "nextStep"
        /\ UNCHANGED <<queueVars, running, accountVars, announced, failed>>
    BY <1>9 DEF WatcherFinished, InEventLoop, historyVars
  <2> QED
    BY <2>1, OthersAreAccounted DEF accountVars
<1>10. CASE WaitForFinished \/ LeaveEventLoop
  <2>1. /\ call # "nextStep" /\ call' # "nextStep"
        /\ UNCHANGED <<queueVars, running, accountVars, announced, failed>>
    BY <1>10 DEF WaitForFinished, LeaveEventLoop, InEventLoop, historyVars
  <2> QED
    BY <2>1, OthersAreAccounted DEF accountVars
<1>11. ASSUME NEW s \in Steps,
              SkipDisabledStep(s) \/ RunInWorkerThread(s) \/ RunInGuiThread(s)
       PROVE  Accounted
  BY <1>11, TakeStepIsAccounted
<1>12. ASSUME NEW s \in Steps, WorkerFinishes(s)
       PROVE  Accounted
  <2>1. UNCHANGED <<queueVars, running, accountVars, announced, call>>
    BY <1>12 DEF WorkerFinishes
  <2>2. running /\ call # "nextStep"
    BY <1>12 DEF WorkerFinishes, Shape, Executions, Active
  <2>3. UNCHANGED failed \/ failed' = TRUE
    BY <1>12 DEF WorkerFinishes, Shape, TypeInv, Flags
  <2> QED
    BY <2>1, <2>2, <2>3, OthersAreAccounted DEF accountVars
<1>13. ASSUME NEW s \in GuiSteps, NEW o \in Event(deployments[s]),
              DeploymentEvent(s, o)
       PROVE  Accounted
  <2>1. UNCHANGED <<queueVars, running, accountVars, announced>>
    BY <1>13 DEF DeploymentEvent
  <2>2. running /\ call = "none" /\ call' # "nextStep"
    BY <1>13 DEF DeploymentEvent, InEventLoop, BuildStepFinishedAsync, Shape,
       Executions, Active
  <2>3. UNCHANGED failed \/ failed' = TRUE
    <3>1. o.deployment.hasError \in BOOLEAN
      <4>1. deployments[s] \in Deployment /\ deployments[s].state # "Inactive"
        BY <1>13 DEF DeploymentEvent, Shape, TypeInv
      <4> QED
        BY <4>1, EventOutcomes DEF Outcome, Deployment
    <3>2. \/ UNCHANGED failed
          \/ failed' = (failed \/ o.deployment.hasError)
      BY <1>13 DEF DeploymentEvent
    <3> QED
      BY <3>1, <3>2 DEF Shape, TypeInv, Flags
  <2> QED
    BY <2>1, <2>2, <2>3, OthersAreAccounted DEF accountVars
<1>14. CASE UNCHANGED vars
  BY <1>14, OthersAreAccounted DEF vars, accountVars, historyVars
<1>15. CASE EndOfQueue \/ NextBuildQueue \/ FinishCancel
  BY <1>15, EndIsEnded, AdvanceIsDone
<1> QED
  BY <1>1, <1>2, <1>4, <1>5, <1>6, <1>7, <1>8, <1>9, <1>10, <1>11, <1>12,
     <1>13, <1>14, <1>15 DEF Next, User, Gui, Worker, Device

(* At the start nothing is pending and all counters are 0. *)
LEMMA CountersInit == Init => CountersMatch
<1> SUFFICES ASSUME Init PROVE CountersMatch
  OBVIOUS
<1>1. Pending = <<>>
  BY DEF Init, Pending, QueuedSteps
<1>2. \A p \in Projects : Occurrences(<<>>, p) = 0
  BY FS_EmptySet DEF Occurrences
<1> QED
  BY <1>1, <1>2 DEF Init, CountersMatch

(* Every step keeps them in agreement. *)
LEMMA CountersStep ==
    ASSUME Shape, CountersMatch, [Next]_vars
    PROVE  CountersMatch'
<1>1. /\ Pending \in Seq(Steps)
      /\ Pending \in Seq(Steps \union {NoStep})
      /\ activeBuildSteps \in [Projects -> Int]
      /\ progress \in Nat
  BY PendingSteps DEF Shape, TypeInv
<1>2. /\ \A p \in Projects : activeBuildSteps[p] = Occurrences(Pending, p)
      /\ maxProgress = (IF running THEN progress ELSE 0) + Len(Pending)
  BY DEF CountersMatch
<1>3. \A p \in Projects : Occurrences(<<>>, p) = 0
  BY FS_EmptySet DEF Occurrences
<1>4. CASE Accounted
  BY <1>2, <1>4, Zenon DEF Accounted, CountersMatch
<1>5. CASE Queued
  <2>1. PICK steps \in Seq(Steps) :
          /\ Pending' = Pending \o steps
          /\ activeBuildSteps' = [p \in Projects |->
                  activeBuildSteps[p] + Occurrences(steps, p)]
          /\ maxProgress' = maxProgress + Len(steps)
          /\ running' = TRUE
          /\ IF running THEN UNCHANGED progress ELSE progress' = 0
    BY <1>5 DEF Queued
  <2>2. /\ steps \in Seq(Steps \union {NoStep})
        /\ Len(Pending \o steps) = Len(Pending) + Len(steps)
        /\ Len(Pending) \in Nat
        /\ Len(steps) \in Nat
    BY <1>1
  <2>3. \A p \in Projects :
            Occurrences(Pending \o steps, p) =
                Occurrences(Pending, p) + Occurrences(steps, p)
    BY <1>1, <2>2, OccurrencesAddUp
  <2>4. \A p \in Projects : activeBuildSteps'[p] = Occurrences(Pending', p)
    BY <1>2, <2>1, <2>3
  <2>5. maxProgress' = progress' + Len(Pending')
    BY <1>1, <1>2, <2>1, <2>2
  <2> QED
    BY <2>1, <2>4, <2>5 DEF CountersMatch
<1>6. CASE Done
  <2> DEFINE s == Head(Pending)
             rest == Tail(Pending)
  <2>1. /\ running
        /\ running'
        /\ Pending # <<>>
        /\ Pending' = rest
        /\ activeBuildSteps' = Decremented(<<s>>)
        /\ progress' = progress + 1
        /\ maxProgress' = maxProgress
    BY <1>6 DEF Done
  <2>2. /\ <<s>> \in Seq(Steps \union {NoStep})
        /\ rest \in Seq(Steps \union {NoStep})
        /\ Len(rest) \in Nat
        /\ Len(Pending) = Len(rest) + 1
    BY <1>1, <2>1
  <2>3. Pending = <<s>> \o rest
    BY <1>1, <2>1, HeadAndTail, Zenon
  <2> HIDE DEF s, rest
  <2>4. \A p \in Projects :
            /\ Occurrences(Pending, p) =
                    Occurrences(<<s>>, p) + Occurrences(rest, p)
            /\ Occurrences(<<s>>, p) \in Nat
            /\ Occurrences(rest, p) \in Nat
    BY <2>2, <2>3, OccurrencesAddUp
  <2>5. \A p \in Projects : activeBuildSteps'[p] = Occurrences(Pending', p)
    BY <1>2, <2>1, <2>4 DEF Decremented
  <2>6. maxProgress' = progress' + Len(Pending')
    BY <1>1, <1>2, <2>1, <2>2
  <2> QED
    BY <2>1, <2>5, <2>6 DEF CountersMatch
<1>7. CASE Ended
  <2>1. /\ running' = FALSE
        /\ Pending' = <<>>
        /\ maxProgress' = 0
        /\ \/ activeBuildSteps' = Decremented(Pending)
           \/ UNCHANGED activeBuildSteps /\ Pending = <<>>
    BY <1>7 DEF Ended
  <2>2. \A p \in Projects : Occurrences(Pending, p) \in Nat
    BY <1>1, OccurrencesAddUp
  <2>3. \A p \in Projects : activeBuildSteps'[p] = 0
    BY <1>2, <1>3, <2>1, <2>2 DEF Decremented
  <2> QED
    BY <1>3, <2>1, <2>3 DEF CountersMatch
<1> QED
  BY <1>4, <1>5, <1>6, <1>7, AccountStep

(* The counters match in every reachable state, however many builds are    *)
(* queued, fail, end and are canceled.                                     *)
THEOREM Counters == Spec => []CountersMatch
<1> QED
  BY CountersInit, CountersStep, Typing, PTL DEF Spec
-----------------------------------------------------------------------------
(* The build manager keeps what it promises those who queue steps: every   *)
(* step of it is one of the contract, or changes nothing that it mentions. *)
THEOREM Refinement == Spec => ContractSpec
<1> USE DEF Contract!vars
<1>1. Init => Contract!Init
  BY DEF Init, Contract!Init, Pending, QueuedSteps
<1>2. Shape /\ [Next]_vars => [Contract!Next]_(Contract!vars)
  <2> SUFFICES ASSUME Shape, [Next]_vars
               PROVE  [Contract!Next]_(Contract!vars)
    OBVIOUS
  <2>1. Pending \in Seq(Steps) /\ running \in BOOLEAN
    BY PendingSteps DEF Shape, TypeInv, Flags
  <2>2. CASE Accounted
    <3>1. CASE UNCHANGED failed
      BY <2>2, <3>1 DEF Accounted
    <3>2. CASE running /\ Pending # <<>> /\ failed' = TRUE
      <4> Contract!StepFails
        BY <2>2, <3>2, Zenon DEF Accounted, Contract!StepFails
      <4> QED
        BY DEF Contract!Next
    <3> QED
      BY <2>2, <3>1, <3>2 DEF Accounted
  <2>3. CASE Queued
    <3>1. PICK steps \in Seq(Steps) :
            /\ steps # <<>>
            /\ Pending' = Pending \o steps
            /\ running' = TRUE
            /\ IF running
               THEN UNCHANGED <<failed, announced>>
               ELSE failed' = FALSE /\ announced' = "none"
      BY <2>3 DEF Queued
    <3>2. /\ Pending \o steps \in Seq(Steps)
          /\ Len(Pending) \in Nat
          /\ Len(Pending \o steps) > Len(Pending)
      BY <2>1, <3>1
    <3>3. SubSeq(Pending \o steps, 1, Len(Pending)) = Pending
      <4> DEFINE front == SubSeq(Pending \o steps, 1, Len(Pending))
      <4>1. /\ front \in Seq(Steps)
            /\ Len(front) = Len(Pending)
            /\ \A i \in 1..Len(Pending) : front[i] = Pending[i]
        BY <2>1, <3>1, <3>2
      <4> QED
        BY <2>1, <4>1, SeqEqual
    <3>4. Contract!Queue
      BY <3>1, <3>2, <3>3 DEF Contract!Queue
    <3> QED
      BY <3>4 DEF Contract!Next
  <2>4. CASE Done
    <3>1. Contract!StepDone
      BY <2>1, <2>4 DEF Done, Contract!StepDone
    <3> QED
      BY <3>1 DEF Contract!Next
  <2>5. CASE Ended
    <3>1. Contract!Succeed \/ Contract!Fail
      BY <2>1, <2>5 DEF Ended, Contract!Succeed, Contract!Fail
    <3> QED
      BY <3>1 DEF Contract!Next
  <2> QED
    BY <2>2, <2>3, <2>4, <2>5, AccountStep
<1> QED
  BY <1>1, <1>2, Typing, PTL DEF Spec, ContractSpec, Contract!Spec
===============================================================================
