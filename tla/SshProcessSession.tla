-------------------------- MODULE SshProcessSession --------------------------
(***************************************************************************)
(* An SshRemoteProcess, its user, and a server that keeps to the protocol: *)
(* it answers the requests in order, sends data as far as the window of    *)
(* the client allows, may end the process and the channel at any time, or  *)
(* fall silent.  The server and the network between are no part of the     *)
(* sources.                                                                *)
(***************************************************************************)
EXTENDS SshRemoteProcess, FiniteSets, SequencesExt

CONSTANTS
    RemoteWindowSize,   \* the window of the server at first
    MaxWrites,          \* bound: units of data the user writes
    MaxData,            \* bound: units of data the process writes
    MaxSignals,         \* bound: signals the user sends
    MaxQueue            \* bound: spontaneous packets wait for this much room

ASSUME BoundsAssumption ==
    {RemoteWindowSize, MaxWrites, MaxData, MaxSignals, MaxQueue} \subseteq Nat

VARIABLES
    toServer, toClient, \* packets on the way
    server,             \* the state of the server
    written,            \* history: units of data the user wrote
    signalled,          \* history: signals the user sent
    hastyUse            \* history: closed too early or used too late

userVars    == <<written, signalled, hastyUse>>
sessionVars == <<channelVars, toServer, toClient, server, userVars>>

SessionInit ==
    /\ Init
    /\ toServer = <<>>
    /\ toClient = <<>>
    /\ server = [channel |-> "none", process |-> "none", eof |-> FALSE,
                 sendWindow |-> 0, receiveWindow |-> 0, received |-> 0,
                 consumed |-> 0, data |-> 0, silent |-> FALSE]
    /\ written = 0
    /\ signalled = 0
    /\ hastyUse = FALSE

Room == Len(toServer) < MaxQueue /\ Len(toClient) < MaxQueue

(* Units in the packets of these types. *)
Units(packets, types) ==
    UNION {{i} \X (1 .. packets[i].size) :
              i \in {j \in DOMAIN packets : packets[j].type \in types}}

Size(packets, types) == Cardinality(Units(packets, types))

(* What the client sends is on its way as long as the connection is up. *)
ClientSends(incoming) ==
    /\ toServer' = IF connection' = "up" THEN toServer \o sent' ELSE <<>>
    /\ toClient' = IF connection' = "up" THEN incoming ELSE <<>>
    /\ UNCHANGED server

(* The user goes on with a process that has no channel or has closed it. *)
Late == channelState \in {"CloseRequested", "Closed"}

UserActs ==
    /\ connection = "up"
    /\ \/ Start /\ UNCHANGED userVars
       \/ \E size \in 1 .. MaxWrites - written :
             /\ Write(size)
             /\ written' = written + size
             /\ hastyUse' = (hastyUse \/ Late)
             /\ UNCHANGED signalled
       \/ /\ signalled < MaxSignals
          /\ SendSignal
          /\ signalled' = signalled + 1
          /\ hastyUse' = (hastyUse \/ Late)
          /\ UNCHANGED written
       \/ /\ Close
          /\ hastyUse' = (hastyUse \/ channelState = "SessionRequested"
                                  \/ sendBuffer > 0)
          /\ UNCHANGED <<written, signalled>>
       \/ Drop /\ UNCHANGED userVars
       \/ CloseConnection("user") /\ UNCHANGED userVars
    /\ ClientSends(toClient)

ClientTimeout == ReplyTimeout /\ UNCHANGED userVars /\ ClientSends(toClient)

ClientReads ==
    /\ toClient # <<>>
    /\ Receive(Head(toClient))
    /\ UNCHANGED userVars
    /\ ClientSends(Tail(toClient))
-----------------------------------------------------------------------------
ServerAwake == connection = "up" /\ ~server.silent

Packet(type, size) == [type |-> type, size |-> size, channel |-> "remote"]

ServerSends(packets, s) ==
    /\ toClient' = toClient \o packets
    /\ server' = s
    /\ UNCHANGED <<channelVars, userVars>>

(* The client used a channel that does not exist: the server disconnects.  *)
ServerDisconnects ==
    /\ CloseConnection("accused")
    /\ toClient' = <<>>
    /\ UNCHANGED <<server, userVars>>

(* The channel the packet is for exists for the server. *)
Exists(p) == p.channel = "remote" /\ server.channel \in {"open", "closing"}

ServerAnswers(p) ==
    \/ /\ p.type = "OPEN"
       /\ \/ ServerSends(<<Packet("OPEN_CONFIRMATION", RemoteWindowSize)>>,
                         [server EXCEPT !.channel = "open",
                                        !.sendWindow = p.size,
                                        !.receiveWindow = RemoteWindowSize])
          \/ ServerSends(<<Packet("OPEN_FAILURE", 0)>>, server)
    \/ /\ p.type = "EXEC"
       /\ \/ ServerSends(<<Packet("SUCCESS", 0)>>,
                         [server EXCEPT !.process = "running"])
          \/ ServerSends(<<Packet("FAILURE", 0)>>, server)
    \/ /\ p.type = "DATA"
       /\ Exists(p)
       /\ ServerSends(<<>>, [server EXCEPT !.receiveWindow = @ - p.size,
                                           !.received = @ + p.size])
    \/ /\ p.type = "WINDOW_ADJUST"
       /\ ServerSends(<<>>, [server EXCEPT !.sendWindow = @ + p.size])
    \/ /\ p.type \in {"EOF", "SIGNAL"}
       /\ Exists(p)
       /\ ServerSends(<<>>, server)
    \/ /\ p.type = "CLOSE"
       /\ Exists(p)
       /\ ServerSends(IF server.channel = "open" THEN <<Packet("CLOSE", 0)>>
                      ELSE <<>>,
                      [server EXCEPT !.channel = "freed"])
    \/ /\ p.type \in {"DATA", "EOF", "SIGNAL", "CLOSE"}
       /\ ~Exists(p)
       /\ ServerDisconnects

ServerReads ==
    /\ ServerAwake
    /\ toServer # <<>>
    /\ ServerAnswers(Head(toServer))
    /\ toServer' = IF connection' = "up" THEN Tail(toServer) ELSE <<>>

(* The process reads what has arrived, and the window is opened again. *)
ServerConsumes ==
    /\ server.received > server.consumed
    /\ server.process = "running"
    /\ LET size == server.received - server.consumed
       IN  ServerSends(<<Packet("WINDOW_ADJUST", size)>>,
                       [server EXCEPT !.consumed = server.received,
                                      !.receiveWindow = @ + size])

ServerSendsData ==
    /\ server.process = "running"
    /\ ~server.eof
    /\ \E size \in 1 .. MinOf(server.sendWindow, MaxPacketSize) :
          /\ server.data + size <= MaxData
          /\ ServerSends(<<Packet("DATA", size)>>,
                         [server EXCEPT !.sendWindow = @ - size,
                                        !.data = @ + size])

ServerSendsEof ==
    /\ server.process \in {"running", "exited"}
    /\ ~server.eof
    /\ ServerSends(<<Packet("EOF", 0)>>, [server EXCEPT !.eof = TRUE])

ProcessExits ==
    /\ server.process = "running"
    /\ \E type \in {"EXIT_STATUS", "EXIT_SIGNAL", "EXIT_SIGNAL_OTHER"} :
          ServerSends(<<Packet(type, 0)>>, [server EXCEPT !.process = "exited"])

ServerCloses ==
    /\ server.process \in {"running", "exited"}
    /\ ServerSends(<<Packet("CLOSE", 0)>>,
                   [server EXCEPT !.channel = "closing"])

ServerActs ==
    /\ ServerAwake
    /\ Room
    /\ server.channel = "open"
    /\ \/ ServerConsumes
       \/ ServerSendsData
       \/ ServerSendsEof
       \/ ProcessExits
       \/ ServerCloses
    /\ UNCHANGED toServer

ServerFallsSilent ==
    /\ ServerAwake
    /\ server' = [server EXCEPT !.silent = TRUE]
    /\ UNCHANGED <<channelVars, toServer, toClient, userVars>>
-----------------------------------------------------------------------------
SessionNext ==
    \/ UserActs
    \/ ClientTimeout
    \/ ClientReads
    \/ ServerReads
    \/ ServerActs
    \/ ServerFallsSilent

SessionFairness ==
    /\ WF_sessionVars(ClientTimeout)
    /\ WF_sessionVars(ClientReads)
    /\ WF_sessionVars(ServerReads)

SessionSpec == SessionInit /\ [][SessionNext]_sessionVars /\ SessionFairness
-----------------------------------------------------------------------------
(* started() at most once, closed() at most once, FailedToStart only       *)
(* instead of started() and the other ends only after it: what the manual  *)
(* test remoteprocesstest.cpp reports as errors never happens.             *)
SignalsInOrder ==
    emitted \in {<<>>, <<"FailedToStart">>, <<"started">>,
                 <<"started", "ExitedNormally">>,
                 <<"started", "KilledBySignal">>}

(* A request of the client is without its answer. *)
ReplyPending ==
    \/ \E p \in Range(toServer) : p.type \in {"OPEN", "EXEC"}
    \/ \E p \in Range(toClient) :
          p.type \in {"OPEN_CONFIRMATION", "OPEN_FAILURE", "SUCCESS", "FAILURE"}

(* The reply timer runs only while a request is without its answer, so it  *)
(* never closes a connection whose server answers; and it runs then, until *)
(* the user loses interest and closes the process.                         *)
ReplyIsTimed ==
    connection = "up" /\ ~Destroyed =>
        /\ replyTimer => ReplyPending
        /\ ReplyPending => replyTimer \/ channelState = "CloseRequested"

(* Both sides have the same idea of both windows: each window is what the  *)
(* sender still may send, plus what is on the way in either direction.     *)
WindowsAgree ==
    connection = "up" /\ registered /\ server.channel = "open" =>
        /\ ~server.eof =>
              localWindowSize = server.sendWindow
                                    + Size(toClient, {"DATA"})
                                    + Size(toServer, {"WINDOW_ADJUST"})
        /\ server.receiveWindow =
              remoteWindowSize
                  + Size(toServer, {"DATA"})
                  + Size(toClient, {"OPEN_CONFIRMATION", "WINDOW_ADJUST"})

(* Neither side accuses the other of a protocol error, which ends the      *)
(* connection for all its channels, but in two cases: the user did what    *)
(* hastyUse records (closed the process while its session was requested or *)
(* data was in the buffer, or went on using it when it was closed), or the *)
(* process died from a signal that signalMap does not name.                *)
NobodyIsAccused ==
    [][/\ connection' = "protocol error" =>
              hastyUse \/ Head(toClient).type = "EXIT_SIGNAL_OTHER"
       /\ connection' = "accused" => hastyUse']_sessionVars

(* A channel that is being closed gets closed, unless the server is silent *)
(* (which the keep-alive packets of the connection would notice).          *)
CloseEnds ==
    (channelState = "CloseRequested" /\ registered)
        ~> (channelState = "Closed" \/ connection # "up" \/ server.silent)
==============================================================================
