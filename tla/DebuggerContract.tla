--------------------------- MODULE DebuggerContract ---------------------------
(***************************************************************************)
(* What a debugging session promises to its run control: the run control   *)
(* hears of the end, by startFailed() or debuggingFinished(), once and     *)
(* when the debugger is gone, and the debugger is launched only for a      *)
(* session that runs or has failed: a session that is quit or aborted      *)
(* before doSetupEngine() ran has failed, and doSetupEngine() still        *)
(* launches gdb for it (debuggerengine.cpp:815).                           *)
(***************************************************************************)
VARIABLES session,  \* "ready", "running", then "failed" or "finished"
          debugger  \* its process: "off", "on"

contractVars == <<session, debugger>>

Init == session = "ready" /\ debugger = "off"

Start  == session = "ready" /\ session' = "running" /\ UNCHANGED debugger
Launch ==
    /\ session \in {"running", "failed"}
    /\ debugger' = "on" /\ UNCHANGED session

Exit == debugger' = "off" /\ UNCHANGED session

Report ==
    /\ session = "running" /\ debugger = "off"
    /\ session' \in {"failed", "finished"} /\ UNCHANGED debugger

Next == Start \/ Launch \/ Exit \/ Report

Spec == Init /\ [][Next]_contractVars
=============================================================================
