------------------------- MODULE SshConnectionManager -------------------------
(***************************************************************************)
(* Utils::SshConnectionManager: which of the open connections to a host    *)
(* those who ask for one share, which are kept for later, and which are    *)
(* not to be used again.  All users have the same connection parameters    *)
(* and live in the GUI thread.                                             *)
(*                                                                         *)
(* A connection is seen through its public state and the signals that it   *)
(* posts (queued connections, sshconnection.cpp:122); what happens below   *)
(* is the subject of SshConnection.                                        *)
(***************************************************************************)
EXTENDS Sequences, SequencesExt

CONSTANT Connections    \* SshConnection objects, used again when deleted

VARIABLES
    link,               \* SshConnection::state(), or "none": no such object
    unacquired,         \* m_unacquiredConnections
    acquired,           \* m_acquiredConnections
    deprecated,         \* m_deprecatedConnections
    events              \* posted signals: <<signal, sender>>

managerVars == <<unacquired, acquired, deprecated>>

(* Lists and users share a connection; it lives as long as one of them     *)
(* holds it.  All users' connections are in acquired.                      *)
Alive == Range(acquired) \union Range(unacquired) \union deprecated

(* The elements of a sequence that are in S, in their order. *)
Only(s, S) ==
    FlattenSeq([i \in DOMAIN s |-> IF s[i] \in S THEN <<s[i]>> ELSE <<>>])

(* What is no longer in a list is deleted, and with it what it posted.     *)
DeleteUnused(posted) ==
    /\ link' = [c \in Connections |-> IF c \in Alive' THEN link[c] ELSE "none"]
    /\ events' = Only(posted, {e \in Range(posted) :
                                  e[2] \in Connections => e[2] \in Alive'})

ManagerInit ==
    /\ link = [c \in Connections |-> "none"]
    /\ unacquired = <<>>
    /\ acquired = <<>>
    /\ deprecated = {}
    /\ events = <<>>
-----------------------------------------------------------------------------
(* The first connection in use is shared unless it is deprecated, which    *)
(* ends the search.                                                        *)
Shareable == acquired # <<>> /\ Head(acquired) \notin deprecated

(* A cached connection may have been lost, but not cleaned up, yet.        *)
Cached == Only(unacquired, {c \in Connections : link[c] = "Connected"})

(* The number of Connections bounds how many there are at a time. *)
IsNew(c) == link[c] = "none" /\ c = CHOOSE n \in Connections : link[n] = "none"

(* Mutant: a connection that is handed out stays in the cache. *)
AcquireConnection_StaysCached(c) ==
    /\ \/ Shareable /\ c = Head(acquired)
       \/ ~Shareable /\ Cached # <<>> /\ c = Head(Cached)
       \/ ~Shareable /\ Cached = <<>>
            /\ IsNew(c)
    /\ acquired' = Append(acquired, c)
    /\ UNCHANGED <<unacquired, deprecated>>

(* acquireConnection() returns c; a new one has link[c] = "none" before.   *)
AcquireConnection(c) ==
    /\ \/ /\ Shareable
          /\ c = Head(acquired)
          /\ UNCHANGED unacquired
       \/ /\ ~Shareable
          /\ Cached # <<>>
          /\ c = Head(Cached)
          /\ unacquired' = RemoveFirst(unacquired, c)
       \/ /\ ~Shareable
          /\ Cached = <<>>
          /\ IsNew(c)
          /\ UNCHANGED unacquired
    /\ acquired' = Append(acquired, c)
    /\ UNCHANGED deprecated

(* releaseConnection(): the last user caches an open connection, unless    *)
(* one is cached already.                                                  *)
ReleaseConnection(c) ==
    LET others == RemoveFirst(acquired, c) IN
    /\ acquired' = others
    /\ IF c \in Range(others)
       THEN UNCHANGED <<unacquired, deprecated>>
       ELSE /\ deprecated' = deprecated \ {c}
            /\ unacquired' =
                 IF c \notin deprecated /\ link[c] = "Connected" /\ unacquired = <<>>
                 THEN <<c>> ELSE unacquired

(* forceNewConnection(): the next acquireConnection() is not to use the    *)
(* connection that this one chooses.                                       *)
ForceNewConnection ==
    /\ unacquired \o acquired # <<>>
    /\ deprecated' = deprecated \union {Head(unacquired \o acquired)}
    /\ UNCHANGED <<link, unacquired, acquired, events>>

(* cleanup(), the first slot that c calls when it is disconnected. *)
Cleanup(c) ==
    /\ unacquired' = Only(unacquired, Connections \ {c})
    /\ UNCHANGED <<acquired, deprecated>>
-----------------------------------------------------------------------------
(* The attempt to connect succeeds, or fails at any point. *)
Established(c) ==
    /\ link[c] = "Connecting"
    /\ link' = [link EXCEPT ![c] = "Connected"]
    /\ events' = Append(events, <<"connected", c>>)

AttemptFails(c) ==
    /\ link[c] = "Connecting"
    /\ link' = [link EXCEPT ![c] = "Unconnected"]
    /\ events' = Append(events, <<"error", c>>)

(* Mutant: the connection says that it is gone before it says why. *)
Lost_Reordered(c) ==
    /\ link[c] = "Connected"
    /\ link' = [link EXCEPT ![c] = "Unconnected"]
    /\ events' = events \o <<<<"disconnected", c>>, <<"error", c>>>>

(* closeConnection() when the connection is lost. *)
Lost(c) ==
    /\ link[c] = "Connected"
    /\ link' = [link EXCEPT ![c] = "Unconnected"]
    /\ events' = events \o <<<<"error", c>>, <<"disconnected", c>>>>
===============================================================================
