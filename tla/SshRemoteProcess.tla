-------------------------- MODULE SshRemoteProcess ---------------------------
(***************************************************************************)
(* Utils::SshRemoteProcess and its base AbstractSshChannel, for one process*)
(* on an established connection, and what SshChannelManager does with it.  *)
(* Every handler leaves the packets it sends in sent; SshProcessSession    *)
(* puts a server and the network behind them.                              *)
(*                                                                         *)
(* Data counts in units; a packet is [type, size, channel], and its        *)
(* channel is "none" as long as the server's number is not known           *)
(* (NoChannel).                                                            *)
(***************************************************************************)
EXTENDS Naturals, Sequences

CONSTANTS
    MaxPacketSize,          \* of the client, and its window at first
    RemoteMaxPacketSize     \* the largest packet the server takes

ASSUME SizesAssumption ==
    /\ MaxPacketSize \in Nat \ {0}
    /\ RemoteMaxPacketSize \in Nat \ {0}

VARIABLES
    connection,         \* "up", or why the connection was closed
    registered,         \* the channel manager knows the channel
    channelState,       \* m_state
    procState,          \* m_procState
    wasRunning,         \* m_wasRunning
    killed,             \* m_signal is set
    remoteChannel,      \* m_remoteChannel
    replyTimer,         \* m_timeoutTimer is running
    localWindowSize,    \* m_localWindowSize
    remoteWindowSize,   \* m_remoteWindowSize
    sendBuffer,         \* size of m_sendBuffer
    open,               \* the QIODevice is open
    dropped,            \* the user has dropped the last reference
    emitted,            \* started() and closed(), in order
    sent                \* what the last handler sent

windowVars  == <<localWindowSize, remoteWindowSize, sendBuffer>>
processVars == <<procState, wasRunning, killed, emitted>>
channelVars == <<connection, registered, channelState, remoteChannel,
                 replyTimer, windowVars, processVars, open, dropped, sent>>

ChannelStates == {"Inactive", "SessionRequested", "SessionEstablished",
                  "CloseRequested", "Closed"}
ProcessStates == {"NotYetStarted", "ExecRequested", "StartFailed", "Running",
                  "Exited"}

Init ==
    /\ connection = "up"
    /\ registered = TRUE
    /\ channelState = "Inactive"
    /\ procState = "NotYetStarted"
    /\ wasRunning = FALSE
    /\ killed = FALSE
    /\ remoteChannel = "none"
    /\ replyTimer = FALSE
    /\ localWindowSize = MaxPacketSize
    /\ remoteWindowSize = 0
    /\ sendBuffer = 0
    /\ open = FALSE
    /\ dropped = FALSE
    /\ emitted = <<>>
    /\ sent = <<>>

(* The object lives as long as the user or the channel manager needs it. *)
Destroyed == dropped /\ ~registered
-----------------------------------------------------------------------------
Outgoing(type, size) ==
    [type |-> type, size |-> size, channel |-> remoteChannel]

MinOf(a, b) == IF a < b THEN a ELSE b

(* Mutant: the window of the server is not reduced. *)
Flush_Window(buffer, window) ==
    LET bytesToSend == MinOf(RemoteMaxPacketSize, MinOf(window, buffer))
    IN  /\ sendBuffer' = buffer - bytesToSend
        /\ remoteWindowSize' = window
        /\ sent' = IF bytesToSend > 0 THEN <<Outgoing("DATA", bytesToSend)>>
                   ELSE <<>>

(* flushSendBuffer(), with so much in the buffer and so much window: one   *)
(* packet at most.                                                         *)
Flush(buffer, window) ==
    LET bytesToSend == MinOf(RemoteMaxPacketSize, MinOf(window, buffer))
    IN  /\ sendBuffer' = buffer - bytesToSend
        /\ remoteWindowSize' = window - bytesToSend
        /\ sent' = IF bytesToSend > 0 THEN <<Outgoing("DATA", bytesToSend)>>
                   ELSE <<>>

(* Mutant: closed() is emitted for a process that never ran. *)
CloseHook_Always ==
    emitted' = Append(emitted, IF killed THEN "KilledBySignal"
                                    ELSE "ExitedNormally")

(* closeHook() *)
CloseHook ==
    emitted' = IF ~wasRunning THEN emitted
               ELSE Append(emitted, IF killed THEN "KilledBySignal"
                                    ELSE "ExitedNormally")

(* What closeChannel() sends. *)
Goodbye ==
    IF channelState \in {"SessionRequested", "SessionEstablished"}
    THEN <<Outgoing("EOF", 0), Outgoing("CLOSE", 0)>> ELSE <<>>

(* closeChannel().  Only a second call stops the timer. *)
CloseChannel ==
    /\ channelState' = IF channelState \in {"Inactive", "Closed"}
                       THEN "Closed" ELSE "CloseRequested"
    /\ replyTimer' = (replyTimer /\ channelState # "CloseRequested")
    /\ sent' = Goodbye

(* The connection is closed: closeAllChannels(). *)
CloseConnection(reason) ==
    /\ connection' = reason
    /\ registered' = FALSE
    /\ IF registered THEN CloseChannel
       ELSE sent' = <<>> /\ UNCHANGED <<channelState, replyTimer>>
    /\ UNCHANGED <<remoteChannel, windowVars, processVars, open, dropped>>

(* A handler throws an SshServerException. *)
ServerException == CloseConnection("protocol error")

(* lookupChannel(), then a handler that requires some state. *)
Known == registered

Active == channelState \notin {"Inactive", "Closed"}
-----------------------------------------------------------------------------
(* start() and requestSessionStart() *)
Start ==
    /\ ~dropped
    /\ channelState = "Inactive"
    /\ open' = TRUE
    /\ channelState' = "SessionRequested"
    /\ replyTimer' = TRUE
    /\ sent' = <<Outgoing("OPEN", MaxPacketSize)>>
    /\ UNCHANGED <<connection, registered, remoteChannel, windowVars,
                   processVars, dropped>>

(* write(), sendData(): nothing is written unless isRunning(). *)
Write(size) ==
    /\ ~dropped
    /\ open
    /\ procState = "Running"
    /\ Flush(sendBuffer + size, remoteWindowSize)
    /\ UNCHANGED <<connection, registered, channelState, remoteChannel,
                   replyTimer, localWindowSize, processVars, open, dropped>>

(* sendSignal(), kill() *)
SendSignal ==
    /\ ~dropped
    /\ procState = "Running"
    /\ sent' = <<Outgoing("SIGNAL", 0)>>
    /\ UNCHANGED <<connection, registered, channelState, remoteChannel,
                   replyTimer, windowVars, processVars, open, dropped>>

(* close() *)
Close ==
    /\ ~dropped
    /\ channelState # "Closed" \/ open
    /\ CloseChannel
    /\ open' = FALSE
    /\ UNCHANGED <<connection, registered, remoteChannel, windowVars,
                   processVars, dropped>>

(* The last SshRemoteProcess::Ptr of the user goes away. *)
Drop ==
    /\ ~dropped
    /\ dropped' = TRUE
    /\ replyTimer' = (replyTimer /\ registered)
    /\ sent' = <<>>
    /\ UNCHANGED <<connection, registered, channelState, remoteChannel,
                   windowVars, processVars, open>>

(* timeout(): the connection is closed, whatever state the channel is in.  *)
ReplyTimeout ==
    /\ replyTimer
    /\ ~Destroyed
    /\ connection = "up"
    /\ CloseConnection("timeout")
-----------------------------------------------------------------------------
(* handleOpenSuccess() and handleOpenSuccessInternal() *)
HandleOpenSuccess(p) ==
    IF Known /\ channelState = "SessionRequested"
    THEN /\ channelState' = "SessionEstablished"
         /\ remoteChannel' = p.channel
         /\ remoteWindowSize' = p.size
         /\ procState' = "ExecRequested"
         /\ replyTimer' = TRUE
         /\ sent' = <<[Outgoing("EXEC", 0) EXCEPT !.channel = p.channel]>>
         /\ UNCHANGED <<connection, registered, localWindowSize, sendBuffer,
                        wasRunning, killed, emitted, open, dropped>>
    ELSE ServerException

(* handleOpenFailure(), and the manager removes the channel: whatever      *)
(* nobody has a reference to is deleted.                                   *)
HandleOpenFailure ==
    IF Known /\ channelState = "SessionRequested"
    THEN /\ registered' = FALSE
         /\ replyTimer' = FALSE
         /\ procState' = "StartFailed"
         /\ emitted' = Append(emitted, "FailedToStart")
         /\ sent' = <<>>
         /\ UNCHANGED <<connection, channelState, remoteChannel, windowVars,
                        wasRunning, killed, open, dropped>>
    ELSE ServerException

(* Mutant: the timer is not stopped. *)
HandleChannelSuccess_KeepsTimer ==
    IF Known /\ procState = "ExecRequested"
    THEN /\ UNCHANGED replyTimer
         /\ procState' = "Running"
         /\ wasRunning' = TRUE
         /\ emitted' = Append(emitted, "started")
         /\ sent' = <<>>
         /\ UNCHANGED <<connection, registered, channelState, remoteChannel,
                        windowVars, killed, open, dropped>>
    ELSE ServerException

(* handleChannelSuccess() *)
HandleChannelSuccess ==
    IF Known /\ procState = "ExecRequested"
    THEN /\ replyTimer' = FALSE
         /\ procState' = "Running"
         /\ wasRunning' = TRUE
         /\ emitted' = Append(emitted, "started")
         /\ sent' = <<>>
         /\ UNCHANGED <<connection, registered, channelState, remoteChannel,
                        windowVars, killed, open, dropped>>
    ELSE ServerException

(* handleChannelFailure() *)
HandleChannelFailure ==
    IF Known /\ procState = "ExecRequested"
    THEN /\ procState' = "StartFailed"
         /\ emitted' = Append(emitted, "FailedToStart")
         /\ channelState' = IF channelState = "Closed" THEN "Closed"
                            ELSE "CloseRequested"
         /\ replyTimer' = FALSE
         /\ sent' = Goodbye
         /\ UNCHANGED <<connection, registered, remoteChannel, windowVars,
                        wasRunning, killed, open, dropped>>
    ELSE ServerException

(* handleWindowAdjust() *)
HandleWindowAdjust(size) ==
    IF Known /\ Active
    THEN /\ Flush(sendBuffer, remoteWindowSize + size)
         /\ UNCHANGED <<connection, registered, channelState, remoteChannel,
                        replyTimer, localWindowSize, processVars, open,
                        dropped>>
    ELSE ServerException

(* handleChannelOrExtendedChannelData() *)
HandleChannelData(size) ==
    LET bytesToDeliver == MinOf(size, MinOf(localWindowSize, MaxPacketSize))
        left == localWindowSize - bytesToDeliver
    IN  IF Known /\ Active
        THEN /\ IF left < MaxPacketSize
                THEN /\ localWindowSize' = left + MaxPacketSize
                     /\ sent' = <<Outgoing("WINDOW_ADJUST", MaxPacketSize)>>
                ELSE localWindowSize' = left /\ sent' = <<>>
             /\ UNCHANGED <<connection, registered, channelState, remoteChannel,
                            replyTimer, remoteWindowSize, sendBuffer,
                            processVars, open, dropped>>
        ELSE ServerException

(* handleExitStatus(), and handleExitSignal() for a signal it knows by     *)
(* name.                                                                   *)
HandleExit(p) ==
    IF Known /\ Active /\ p.type # "EXIT_SIGNAL_OTHER"
    THEN /\ procState' = "Exited"
         /\ killed' = (killed \/ p.type = "EXIT_SIGNAL")
         /\ sent' = <<>>
         /\ UNCHANGED <<connection, registered, channelState, remoteChannel,
                        replyTimer, windowVars, wasRunning, emitted, open,
                        dropped>>
    ELSE ServerException

(* Mutant: the channel counts as closed. *)
HandleChannelEof_Closes ==
    IF Known /\ ~Active
    THEN ServerException
    ELSE /\ localWindowSize' = IF Known THEN 0 ELSE localWindowSize
         /\ sent' = <<>>
         /\ channelState' = "Closed"
         /\ UNCHANGED <<connection, registered, remoteChannel,
                        replyTimer, remoteWindowSize, sendBuffer, processVars,
                        open, dropped>>

(* handleChannelEof(); the manager lets one for an unknown channel pass. *)
HandleChannelEof ==
    IF Known /\ ~Active
    THEN ServerException
    ELSE /\ localWindowSize' = IF Known THEN 0 ELSE localWindowSize
         /\ sent' = <<>>
         /\ UNCHANGED <<connection, registered, channelState, remoteChannel,
                        replyTimer, remoteWindowSize, sendBuffer, processVars,
                        open, dropped>>

(* Mutant: the state is not changed after closeChannel(). *)
HandleChannelClose_StaysRequested ==
    IF ~Known
    THEN sent' = <<>> /\ UNCHANGED <<connection, registered, channelState,
                                     remoteChannel, replyTimer, windowVars,
                                     processVars, open, dropped>>
    ELSE IF ~Active
    THEN ServerException
    ELSE /\ sent' = Goodbye
         /\ channelState' = "CloseRequested"
         /\ replyTimer' = (replyTimer /\ channelState # "CloseRequested"
                                      /\ ~dropped)
         /\ CloseHook
         /\ registered' = FALSE
         /\ UNCHANGED <<connection, remoteChannel, windowVars, procState,
                        wasRunning, killed, open, dropped>>

(* handleChannelClose(): closeChannel(), the state Closed with closeHook() *)
(* and the manager removes the channel.                                    *)
HandleChannelClose ==
    IF ~Known
    THEN sent' = <<>> /\ UNCHANGED <<connection, registered, channelState,
                                     remoteChannel, replyTimer, windowVars,
                                     processVars, open, dropped>>
    ELSE IF ~Active
    THEN ServerException
    ELSE /\ sent' = Goodbye
         /\ channelState' = "Closed"
         /\ replyTimer' = (replyTimer /\ channelState # "CloseRequested"
                                      /\ ~dropped)
         /\ CloseHook
         /\ registered' = FALSE
         /\ UNCHANGED <<connection, remoteChannel, windowVars, procState,
                        wasRunning, killed, open, dropped>>

(* The packets for channels in the packet table of SshConnectionPrivate. *)
Receive(p) ==
    \/ p.type = "OPEN_CONFIRMATION" /\ HandleOpenSuccess(p)
    \/ p.type = "OPEN_FAILURE" /\ HandleOpenFailure
    \/ p.type = "SUCCESS" /\ HandleChannelSuccess
    \/ p.type = "FAILURE" /\ HandleChannelFailure
    \/ p.type = "WINDOW_ADJUST" /\ HandleWindowAdjust(p.size)
    \/ p.type = "DATA" /\ HandleChannelData(p.size)
    \/ /\ p.type \in {"EXIT_STATUS", "EXIT_SIGNAL", "EXIT_SIGNAL_OTHER"}
       /\ HandleExit(p)
    \/ p.type = "EOF" /\ HandleChannelEof
    \/ p.type = "CLOSE" /\ HandleChannelClose
==============================================================================
