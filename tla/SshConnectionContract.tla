------------------------ MODULE SshConnectionContract ------------------------
(***************************************************************************)
(* What SshConnection promises its users: the three public states, and the *)
(* signals of one connection attempt.  An attempt that is not abandoned by *)
(* the user is announced as connected() or as error(), and the end of an   *)
(* established connection always as disconnected(), with error() before it *)
(* when it was not the user who ended it.                                  *)
(***************************************************************************)
EXTENDS Sequences

VARIABLES
    publicState,    \* state()
    signals         \* what was emitted since the last connectToHost()

vars == <<publicState, signals>>

Init ==
    /\ publicState = "Unconnected"
    /\ signals = <<>>

Connect ==
    /\ publicState = "Unconnected"
    /\ \/ publicState' = "Connecting" /\ signals' = <<>>
       \/ publicState' = "Unconnected" /\ signals' = <<"error">>

Establish ==
    /\ publicState = "Connecting"
    /\ publicState' = "Connected"
    /\ signals' = <<"connected">>

Abandon ==
    /\ publicState = "Connecting"
    /\ publicState' = "Unconnected"
    /\ signals' \in {<<>>, <<"error">>}

Disconnect ==
    /\ publicState = "Connected"
    /\ publicState' = "Unconnected"
    /\ signals' \in {<<"connected", "disconnected">>,
                     <<"connected", "error", "disconnected">>}

Next == Connect \/ Establish \/ Abandon \/ Disconnect

(* No attempt lasts for ever. *)
Spec == Init /\ [][Next]_vars /\ WF_vars(Establish \/ Abandon)
==============================================================================
