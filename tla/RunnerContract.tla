---------------------------- MODULE RunnerContract ----------------------------
(***************************************************************************)
(* What SshRemoteProcessRunner promises the one who runs a process: of     *)
(* every run() at most one processStarted() and at most one end is         *)
(* reported, and a process that was started never ends without a report,   *)
(* unless its user cancels it.                                             *)
(***************************************************************************)
CONSTANT Runners

VARIABLES run, report

Init ==
    /\ run = [r \in Runners |-> "idle"]
    /\ report = [r \in Runners |-> "none"]

Step(r, from, to, signal) ==
    /\ run[r] \in from
    /\ run' = [run EXCEPT ![r] = to]
    /\ report' = [report EXCEPT ![r] = signal]

Next ==
    \E r \in Runners :
        \/ Step(r, {"idle"}, "starting", "none")
        \/ Step(r, {"starting"}, "running", "processStarted")
        \/ \E end \in {"processClosed", "connectionError", "canceled"} :
              Step(r, {"starting", "running"}, "idle", end)
        \/ Step(r, {"starting"}, "idle", "nothing")

Spec == Init /\ [][Next]_<<run, report>>
===============================================================================
