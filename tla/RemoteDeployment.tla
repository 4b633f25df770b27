--------------------------- MODULE RemoteDeployment ---------------------------
(***************************************************************************)
(* A build step that runs in the GUI thread: AbstractRemoteLinuxDeployStep *)
(* on top of its AbstractRemoteLinuxDeployService.  This module has no     *)
(* state of its own.  Each operator is one call or event, and yields the   *)
(* set of its outcomes: the deployment afterwards, and whether the step    *)
(* emitted finished() before the call returned.                            *)
(*                                                                         *)
(* All services of the program set their device up synchronously, so       *)
(* SettingUpDevice is left before start() returns.                         *)
(***************************************************************************)
EXTENDS Integers

(* The step's hasError, and the state and stopRequested of its service. *)
Deployment == [state         : {"Inactive", "Connecting", "Deploying"},
               stopRequested : BOOLEAN,
               hasError      : BOOLEAN]

NewDeployment ==
    [state |-> "Inactive", stopRequested |-> FALSE, hasError |-> FALSE]

Outcome == [deployment : Deployment, finished : BOOLEAN]

Goes(d) == [deployment |-> d, finished |-> FALSE]

(* Mutant: setFinished() leaves the service in the state it was in. *)
Ends_Active(d) ==
    [deployment |-> [d EXCEPT !.stopRequested = FALSE], finished |-> TRUE]

(* setFinished(); the step's handleFinished() then reports ~hasError. *)
Ends(d) == [deployment |-> [d EXCEPT !.state = "Inactive",
                                     !.stopRequested = FALSE],
            finished |-> TRUE]

Failed(d) == [d EXCEPT !.hasError = TRUE]

(* handleConnected(): doDeploy() may find at once that it cannot deploy. *)
HandleConnected(d) ==
    {Goes([d EXCEPT !.state = "Deploying"]), Ends(Failed(d))}

(* run(): deploying is impossible, the device setup fails, nothing is to   *)
(* be done, the (shared) connection has to be awaited or is already there. *)
(* A service that is not inactive ignores start().                         *)
Run(d) ==
    LET fresh == [d EXCEPT !.hasError = FALSE]
    IN  IF d.state # "Inactive"
        THEN {Goes(fresh)}
        ELSE {Ends(Failed(fresh)), Ends(fresh),
              Goes([fresh EXCEPT !.state = "Connecting"])}
             \union HandleConnected(fresh)

(* stopDeployment(): some services stop at once, others when the device is *)
(* in order again.                                                         *)
StopDeployment(d) == {Ends(d), Goes(d)}

Stop(d) ==
    IF d.stopRequested \/ d.state = "Inactive"
    THEN {Goes(d)}
    ELSE IF d.state = "Connecting"
    THEN {Ends(d)}
    ELSE StopDeployment([d EXCEPT !.stopRequested = TRUE])

(* cancel(): a step that has seen an error is left to end by itself. *)
Cancel(d) == IF d.hasError THEN {Goes(d)} ELSE Stop(Failed(d))

HandleConnectionFailure(d) ==
    IF d.state = "Connecting"
    THEN {Ends(Failed(d))}
    ELSE StopDeployment(Failed(d))

(* handleDeploymentDone(), perhaps right after an errorMessage(). *)
HandleDeploymentDone(d) == {Ends(d), Ends(Failed(d))}

(* Whatever may happen to an active service. *)
Event(d) ==
    HandleConnectionFailure(d)
    \union (IF d.state = "Connecting"
            THEN HandleConnected(d)
            ELSE HandleDeploymentDone(d) \union {Goes(Failed(d))})
===============================================================================
