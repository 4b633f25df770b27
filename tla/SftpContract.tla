----------------------------- MODULE SftpContract -----------------------------
(***************************************************************************)
(* What SftpChannel promises its user: operations can be started while the *)
(* channel is open; of each at most one end is reported, under the id that *)
(* the user was given, and of none after the channel was closed.           *)
(***************************************************************************)
VARIABLES channel, issued, results

Init == channel = "new" /\ issued = {} /\ results = {}

Open  == channel = "new" /\ channel' = "open" /\ UNCHANGED <<issued, results>>
Close ==
    /\ \/ channel \in {"new", "open"} /\ channel' \in {"closing", "closed"}
       \/ channel = "closing" /\ channel' = "closed"
    /\ UNCHANGED <<issued, results>>

Start ==
    /\ channel = "open"
    /\ \E id \in issued' \ issued : issued' = issued \union {id}
    /\ UNCHANGED <<channel, results>>

Reported == {r[1] : r \in results}

Finish ==
    /\ channel = "open"
    /\ \E id \in issued \ Reported, end \in {"ok", "failed"} :
          results' = results \union {<<id, <<end>>>>}
    /\ UNCHANGED <<channel, issued>>

Next == Open \/ Close \/ Start \/ Finish

Spec == Init /\ [][Next]_<<channel, issued, results>>
===============================================================================
