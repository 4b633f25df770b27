---------------------------- MODULE SshConnection ----------------------------
(***************************************************************************)
(* Utils::SshConnection: socket, key exchange, authentication, keep-alive  *)
(* and the end of a connection, as the handlers of SshConnectionPrivate.   *)
(* The packets a handler sends are its output, sent; here the server may   *)
(* answer with anything the packet table knows, in any order.  SshSession  *)
(* puts a server at the other end that keeps to the protocol.              *)
(*                                                                         *)
(* A packet is [type, arg, seqNr].  The arg of a KEXINIT tells whether a   *)
(* guessed packet follows, or that no algorithm is known to both sides; a  *)
(* KEXDH_REPLY with a wrong signature, a PASSWD_CHANGEREQ to a user without*)
(* password and a channel message that its channel objects to are "bad".   *)
(* What sendKeepAlivePacket() sends and the answer to it have a sequence   *)
(* number.                                                                 *)
(***************************************************************************)
EXTENDS Naturals, Sequences

CONSTANTS
    SeqNrs,     \* sequence numbers are counted modulo SeqNrs
    KeyNames    \* the names of the keys are reused after KeyNames exchanges

ASSUME SeqNrsAssumption == SeqNrs \in Nat \ {0}
ASSUME KeyNamesAssumption == KeyNames \in Nat \ {0, 1}

VARIABLES
    socket,             \* state of m_socket
    state,              \* m_state
    keyExchangeState,   \* m_keyExchangeState
    ignoreNextPacket,   \* m_ignoreNextPacket
    error,              \* m_error
    timeoutTimer,       \* m_timeoutTimer is running
    keepAliveTimer,     \* m_keepAliveTimer is running
    channelTimer,       \* the reply timer of a channel object is running
    lastInvalid,        \* m_lastInvalidMsgSeqNr
    clientSeqNr,        \* m_clientSeqNr, of the keep-alive packets only
    sendKeys,           \* keys of m_sendFacility, 0 for none
    receiveKeys,        \* keys of m_incomingPacket, 0 for none
    garbled,            \* m_incomingPacket has taken bytes of no packet
    sent,               \* what the last handler sent
    signals             \* signals emitted since the last connectToHost()

handshakeVars == <<keyExchangeState, ignoreNextPacket>>
timerVars     == <<timeoutTimer, keepAliveTimer, channelTimer, lastInvalid>>
packetVars    == <<clientSeqNr, sendKeys, receiveKeys, garbled>>
clientVars    == <<socket, state, handshakeVars, error, timerVars, packetVars,
                   sent, signals>>

States == {"SocketUnconnected", "SocketConnecting", "SocketConnected",
           "UserAuthServiceRequested", "UserAuthRequested",
           "ConnectionEstablished"}
KeyExchangeStates == {"NoKeyExchange", "KexInitSent", "DhInitSent",
                      "NewKeysSent"}
SocketStates == {"Unconnected", "Connecting", "Connected", "Closing"}
Errors == {"SshNoError", "SshSocketError", "SshTimeoutError",
           "SshProtocolError", "SshKeyFileError", "SshAuthenticationError",
           "SshClosedByServerError"}

SeqNr == 0 .. SeqNrs - 1
InvalidSeqNr == SeqNrs      \* what no packet has: (quint64) -1
Keys == 0 .. KeyNames

(* In which states the handler of each type of packet may be called.  A    *)
(* type that is not listed has no handler.                                 *)
packetHandlers ==
    [KEXINIT         |-> {"SocketConnected", "ConnectionEstablished"},
     KEXDH_REPLY     |-> {"SocketConnected", "ConnectionEstablished"},
     NEWKEYS         |-> {"SocketConnected", "ConnectionEstablished"},
     SERVICE_ACCEPT  |-> {"UserAuthServiceRequested"},
     PASSWD_CHANGEREQ |-> {"UserAuthRequested"},
     BANNER          |-> {"UserAuthRequested"},
     AUTH_SUCCESS    |-> {"UserAuthRequested"},
     AUTH_FAILURE    |-> {"UserAuthRequested"},
     GLOBAL_REQUEST  |-> {"ConnectionEstablished"},
     CHANNEL         |-> {"ConnectionEstablished"},
     UNIMPLEMENTED   |-> {"ConnectionEstablished"},
     DISCONNECT      |-> States \ {"SocketUnconnected", "SocketConnecting"}]

PacketTypes == DOMAIN packetHandlers \union {"IGNORE"}

Packet(type, arg) == [type |-> type, arg |-> arg, seqNr |-> InvalidSeqNr]

Unimplemented(n) ==
    [type |-> "UNIMPLEMENTED", arg |-> "none", seqNr |-> n]

(* What the server may send after its identification. *)
ServerPackets ==
    {Packet(type, "none") : type \in PacketTypes \ {"UNIMPLEMENTED"}}
        \union {Packet("KEXINIT", a) : a \in {"guess", "unknown"}}
        \union {Packet(type, "bad") :
                    type \in {"KEXDH_REPLY", "PASSWD_CHANGEREQ", "CHANNEL"}}
        \union {Unimplemented(n) : n \in SeqNr}

Init ==
    /\ socket = "Unconnected"
    /\ state = "SocketUnconnected"
    /\ keyExchangeState = "NoKeyExchange"
    /\ ignoreNextPacket = FALSE
    /\ error = "SshNoError"
    /\ timeoutTimer = FALSE
    /\ keepAliveTimer = FALSE
    /\ channelTimer = FALSE
    /\ lastInvalid = InvalidSeqNr
    /\ clientSeqNr = 0
    /\ sendKeys = 0
    /\ receiveKeys = 0
    /\ garbled = FALSE
    /\ sent = <<>>
    /\ signals = <<>>
-----------------------------------------------------------------------------
(* Packets as they go out: with the keys of the moment. *)
Outgoing(type) ==
    [type |-> type, seqNr |-> InvalidSeqNr, keys |-> sendKeys]

(* Everything the client ever sends. *)
OutgoingPackets ==
    [type : {"ID", "KEXINIT", "KEXDH_INIT", "NEWKEYS", "SERVICE_REQUEST",
             "AUTH_REQUEST", "REQUEST_FAILURE", "CHANNEL", "INVALID",
             "UNIMPLEMENTED", "DISCONNECT"},
     seqNr : SeqNr \union {InvalidSeqNr},
     keys : Keys]

Established == state = "ConnectionEstablished"

(* The other keys that an exchange leaves instead of k. *)
NextKeys(k) == (k % KeyNames) + 1

(* Mutant: the state is changed before the signals are emitted. *)
CloseConnection_StateFirst(e, packets, s) ==
    /\ state # "SocketUnconnected"
    /\ error = "SshNoError"
    /\ error' = e
    /\ timeoutTimer' = FALSE
    /\ keepAliveTimer' = FALSE
    /\ channelTimer' \in {FALSE, channelTimer}
    /\ sent' = IF s = "Connected"
               THEN Append(packets, Outgoing("DISCONNECT")) ELSE <<>>
    /\ signals' = signals \o (IF e # "SshNoError" THEN <<"error">> ELSE <<>>)
                          \o <<>>
    /\ socket' = IF s = "Connected" THEN "Closing" ELSE s
    /\ state' = "SocketUnconnected"
    /\ UNCHANGED <<handshakeVars, lastInvalid, packetVars>>

(* closeConnection(e), after the handler has sent some packets.  s is the  *)
(* state the socket has then: a connected one delivers what was sent, with *)
(* SSH_MSG_DISCONNECT at the end, before it is closed; one that is still   *)
(* connecting is left alone.  closeAllChannels() does not stop the timer   *)
(* of a channel that waits for a reply, as long as the channel exists.     *)
CloseConnection(e, packets, s) ==
    /\ state # "SocketUnconnected"
    /\ error = "SshNoError"
    /\ error' = e
    /\ timeoutTimer' = FALSE
    /\ keepAliveTimer' = FALSE
    /\ channelTimer' \in {FALSE, channelTimer}
    /\ sent' = IF s = "Connected"
               THEN Append(packets, Outgoing("DISCONNECT")) ELSE <<>>
    /\ signals' = signals \o (IF e # "SshNoError" THEN <<"error">> ELSE <<>>)
                          \o (IF Established THEN <<"disconnected">> ELSE <<>>)
    /\ socket' = IF s = "Connected" THEN "Closing" ELSE s
    /\ state' = "SocketUnconnected"
    /\ UNCHANGED <<handshakeVars, lastInvalid, packetVars>>

ServerException == CloseConnection("SshProtocolError", <<>>, socket)

ConnectToHost ==
    /\ state = "SocketUnconnected"
    /\ ignoreNextPacket' = FALSE
    /\ clientSeqNr' = 0
    /\ sendKeys' = 0
    /\ receiveKeys' = 0
    /\ garbled' = FALSE
    /\ sent' = <<>>
    /\ \/ /\ error' = "SshKeyFileError"
          /\ signals' = <<"error">>
          /\ UNCHANGED <<socket, state, keyExchangeState, timerVars>>
       \/ /\ error' = "SshNoError"
          /\ signals' = <<>>
          /\ state' = "SocketConnecting"
          /\ keyExchangeState' = "NoKeyExchange"
          /\ timeoutTimer' = TRUE
          /\ socket' = IF socket = "Unconnected" THEN "Connecting" ELSE socket
          /\ UNCHANGED <<keepAliveTimer, channelTimer, lastInvalid>>

DisconnectFromHost == CloseConnection("SshNoError", <<>>, socket)

(* connected() of the socket: handleSocketConnected(), unless the          *)
(* connection was given up meanwhile and its slots are disconnected.       *)
SocketConnected ==
    /\ socket = "Connecting"
    /\ socket' = "Connected"
    /\ IF state = "SocketUnconnected"
       THEN UNCHANGED state /\ sent' = <<>>
       ELSE /\ state' = "SocketConnected"
            /\ sent' = <<Outgoing("ID")>>
    /\ UNCHANGED <<handshakeVars, error, timerVars, packetVars, signals>>

(* error() of the socket, when there is no connection or no longer one:    *)
(* handleSocketError().                                                    *)
SocketError ==
    /\ socket \in {"Connecting", "Connected"}
    /\ IF state = "SocketUnconnected"
       THEN /\ socket' = "Unconnected"
            /\ sent' = <<>>
            /\ UNCHANGED <<state, handshakeVars, error, timerVars, packetVars,
                           signals>>
       ELSE CloseConnection("SshSocketError", <<>>, "Unconnected")

(* disconnected() of a socket that was being closed.  If there is a new    *)
(* connectToHost() already, handleSocketDisconnected() ends that one.      *)
SocketDisconnected ==
    /\ socket = "Closing"
    /\ IF state = "SocketUnconnected"
       THEN /\ socket' = "Unconnected"
            /\ sent' = <<>>
            /\ UNCHANGED <<state, handshakeVars, error, timerVars, packetVars,
                           signals>>
       ELSE CloseConnection("SshClosedByServerError", <<>>, "Unconnected")

(* handleTimeout() for m_timeoutTimer. *)
HandleTimeout ==
    /\ timeoutTimer
    /\ CloseConnection("SshTimeoutError", <<>>, socket)

(* handleTimeout() for a channel, be it one of an earlier connection. *)
ChannelTimeout ==
    /\ channelTimer
    /\ CloseConnection("SshTimeoutError", <<>>, socket)
    /\ ~channelTimer'

(* Mutant: the packet is sent during a key exchange, too. *)
SendKeepAlivePacket_Always ==
    /\ keepAliveTimer
    /\ lastInvalid' = clientSeqNr
    /\ clientSeqNr' = (clientSeqNr + 1) % SeqNrs
    /\ sent' = <<[type |-> "INVALID", seqNr |-> clientSeqNr,
                         keys |-> sendKeys]>>
    /\ keepAliveTimer' = FALSE
    /\ timeoutTimer' = TRUE
    /\ UNCHANGED <<socket, state, handshakeVars, error, channelTimer, sendKeys,
                   receiveKeys, garbled, signals>>

(* sendKeepAlivePacket(): something the server does not understand and has *)
(* to say so; not during a key exchange.                                   *)
SendKeepAlivePacket ==
    /\ keepAliveTimer
    /\ IF keyExchangeState # "NoKeyExchange"
       THEN sent' = <<>> /\ UNCHANGED <<timerVars, clientSeqNr>>
       ELSE /\ lastInvalid' = clientSeqNr
            /\ clientSeqNr' = (clientSeqNr + 1) % SeqNrs
            /\ sent' = <<[type |-> "INVALID", seqNr |-> clientSeqNr,
                         keys |-> sendKeys]>>
            /\ keepAliveTimer' = FALSE
            /\ timeoutTimer' = TRUE
    /\ UNCHANGED <<socket, state, handshakeVars, error, channelTimer, sendKeys,
                   receiveKeys, garbled, signals>>

(* A channel of the application sends something and may want a reply. *)
SendChannelMessage ==
    /\ Established
    /\ sent' = <<Outgoing("CHANNEL")>>
    /\ channelTimer' \in {channelTimer, TRUE}
    /\ UNCHANGED <<socket, state, handshakeVars, error, timeoutTimer,
                   keepAliveTimer, lastInvalid, packetVars, signals>>
-----------------------------------------------------------------------------
(* handleServerId().  An identification that does not arrive in one piece  *)
(* is taken by handlePackets() for the length of a packet that never ends; *)
(* so is one that arrives when the socket was connected too early.         *)
ReceiveServerId ==
    /\ socket = "Connected"
    /\ ~garbled
    /\ \/ /\ state = "SocketConnected"
          /\ keyExchangeState = "NoKeyExchange"
          /\ keyExchangeState' = "KexInitSent"
          /\ sent' = <<Outgoing("KEXINIT")>>
          /\ UNCHANGED garbled
       \/ /\ \/ state = "SocketConnected" /\ keyExchangeState = "NoKeyExchange"
             \/ state = "SocketConnecting"
          /\ garbled' = TRUE
          /\ sent' = <<>>
          /\ UNCHANGED keyExchangeState
    /\ UNCHANGED <<socket, state, ignoreNextPacket, error, timerVars,
                   clientSeqNr, sendKeys, receiveKeys, signals>>

UnsupportedServerId ==
    /\ socket = "Connected"
    /\ ~garbled
    /\ state = "SocketConnected"
    /\ keyExchangeState = "NoKeyExchange"
    /\ ServerException

(* Mutant: the guessed packet is not dropped. *)
HandleKeyExchangeInit_KeepsGuess(p) ==
    LET answer == IF keyExchangeState = "NoKeyExchange"
                  THEN <<Outgoing("KEXINIT")>> ELSE <<>>
    IN  IF keyExchangeState \notin {"NoKeyExchange", "KexInitSent"}
        THEN ServerException
        ELSE IF p.arg = "unknown"
        THEN CloseConnection("SshProtocolError", answer, socket)
        ELSE /\ keyExchangeState' = "DhInitSent"
             /\ UNCHANGED ignoreNextPacket
             /\ sent' = Append(answer, Outgoing("KEXDH_INIT"))
             /\ UNCHANGED <<socket, state, error, timerVars, packetVars,
                            signals>>

(* handleKeyExchangeInitPacket() *)
HandleKeyExchangeInit(p) ==
    LET answer == IF keyExchangeState = "NoKeyExchange"
                  THEN <<Outgoing("KEXINIT")>> ELSE <<>>
    IN  IF keyExchangeState \notin {"NoKeyExchange", "KexInitSent"}
        THEN ServerException
        ELSE IF p.arg = "unknown"
        THEN CloseConnection("SshProtocolError", answer, socket)
        ELSE /\ keyExchangeState' = "DhInitSent"
             /\ ignoreNextPacket' = (p.arg = "guess")
             /\ sent' = Append(answer, Outgoing("KEXDH_INIT"))
             /\ UNCHANGED <<socket, state, error, timerVars, packetVars,
                            signals>>

(* Mutant: the keys are changed before NEWKEYS is sent. *)
HandleKeyExchangeReply_KeysFirst(p) ==
    IF keyExchangeState = "DhInitSent" /\ p.arg # "bad"
    THEN /\ keyExchangeState' = "NewKeysSent"
         /\ sent' = <<[Outgoing("NEWKEYS") EXCEPT !.keys = NextKeys(sendKeys)]>>
         /\ sendKeys' = NextKeys(sendKeys)
         /\ UNCHANGED <<socket, state, ignoreNextPacket, error, timerVars,
                        clientSeqNr, receiveKeys, garbled, signals>>
    ELSE ServerException

(* handleKeyExchangeReplyPacket(): SSH_MSG_NEWKEYS is the last packet with *)
(* the old keys.                                                           *)
HandleKeyExchangeReply(p) ==
    IF keyExchangeState = "DhInitSent" /\ p.arg # "bad"
    THEN /\ keyExchangeState' = "NewKeysSent"
         /\ sent' = <<Outgoing("NEWKEYS")>>
         /\ sendKeys' = NextKeys(sendKeys)
         /\ UNCHANGED <<socket, state, ignoreNextPacket, error, timerVars,
                        clientSeqNr, receiveKeys, garbled, signals>>
    ELSE ServerException

(* Mutant: a later exchange is not ended. *)
HandleNewKeys_OnlyFirst ==
    IF keyExchangeState = "NewKeysSent"
    THEN /\ receiveKeys' = NextKeys(receiveKeys)
         /\ keyExchangeState' = IF Established THEN keyExchangeState
                                ELSE "NoKeyExchange"
         /\ IF state = "SocketConnected"
            THEN /\ sent' = <<Outgoing("SERVICE_REQUEST")>>
                 /\ state' = "UserAuthServiceRequested"
            ELSE sent' = <<>> /\ UNCHANGED state
         /\ UNCHANGED <<socket, ignoreNextPacket, error, timerVars, clientSeqNr,
                        sendKeys, garbled, signals>>
    ELSE ServerException

(* handleNewKeysPacket() *)
HandleNewKeys ==
    IF keyExchangeState = "NewKeysSent"
    THEN /\ receiveKeys' = NextKeys(receiveKeys)
         /\ keyExchangeState' = "NoKeyExchange"
         /\ IF state = "SocketConnected"
            THEN /\ sent' = <<Outgoing("SERVICE_REQUEST")>>
                 /\ state' = "UserAuthServiceRequested"
            ELSE sent' = <<>> /\ UNCHANGED state
         /\ UNCHANGED <<socket, ignoreNextPacket, error, timerVars, clientSeqNr,
                        sendKeys, garbled, signals>>
    ELSE ServerException

(* handleServiceAcceptPacket() *)
HandleServiceAccept ==
    /\ sent' = <<Outgoing("AUTH_REQUEST")>>
    /\ state' = "UserAuthRequested"
    /\ UNCHANGED <<socket, handshakeVars, error, timerVars, packetVars,
                   signals>>

(* Mutant: the keep-alive timer is not started. *)
HandleAuthSuccess_NoKeepAlive ==
    /\ state' = "ConnectionEstablished"
    /\ timeoutTimer' = FALSE
    /\ UNCHANGED keepAliveTimer
    /\ lastInvalid' = InvalidSeqNr
    /\ sent' = <<>>
    /\ signals' = Append(signals, "connected")
    /\ UNCHANGED <<socket, handshakeVars, error, channelTimer, packetVars>>

(* handleUserAuthSuccessPacket() *)
HandleAuthSuccess ==
    /\ state' = "ConnectionEstablished"
    /\ timeoutTimer' = FALSE
    /\ keepAliveTimer' = TRUE
    /\ lastInvalid' = InvalidSeqNr
    /\ sent' = <<>>
    /\ signals' = Append(signals, "connected")
    /\ UNCHANGED <<socket, handshakeVars, error, channelTimer, packetVars>>

(* Mutant: the timer is not stopped. *)
HandleUnimplemented_KeepsTimeout(p) ==
    IF p.seqNr = lastInvalid
    THEN /\ lastInvalid' = InvalidSeqNr
         /\ UNCHANGED timeoutTimer
         /\ keepAliveTimer' = TRUE
         /\ sent' = <<>>
         /\ UNCHANGED <<socket, state, handshakeVars, error, channelTimer,
                        packetVars, signals>>
    ELSE ServerException

(* handleUnimplementedPacket() *)
HandleUnimplemented(p) ==
    IF p.seqNr = lastInvalid
    THEN /\ lastInvalid' = InvalidSeqNr
         /\ timeoutTimer' = FALSE
         /\ keepAliveTimer' = TRUE
         /\ sent' = <<>>
         /\ UNCHANGED <<socket, state, handshakeVars, error, channelTimer,
                        packetVars, signals>>
    ELSE ServerException

(* handleChannelRequest() and the like: lookupChannel() or the channel may *)
(* throw, and a reply stops the timer.                                     *)
HandleChannelMessage(p) ==
    IF p.arg = "bad"
    THEN ServerException
    ELSE /\ sent' = <<>>
         /\ channelTimer' \in {channelTimer, FALSE}
         /\ UNCHANGED <<socket, state, handshakeVars, error, timeoutTimer,
                        keepAliveTimer, lastInvalid, packetVars, signals>>

(* Nothing but an answer: handleGlobalRequest(), and none at all in        *)
(* handleUserAuthBannerPacket(), which passes a text on.                   *)
Answer(packets) ==
    /\ sent' = packets
    /\ UNCHANGED <<socket, state, handshakeVars, error, timerVars, packetVars,
                   signals>>

(* The handler of p, called in a state where it may be. *)
Handle(p) ==
    \/ p.type = "KEXINIT" /\ HandleKeyExchangeInit(p)
    \/ p.type = "KEXDH_REPLY" /\ HandleKeyExchangeReply(p)
    \/ p.type = "NEWKEYS" /\ HandleNewKeys
    \/ p.type = "SERVICE_ACCEPT" /\ HandleServiceAccept
    \/ p.type = "AUTH_SUCCESS" /\ HandleAuthSuccess
    \/ p.type = "UNIMPLEMENTED" /\ HandleUnimplemented(p)
    \/ p.type = "GLOBAL_REQUEST" /\ Answer(<<Outgoing("REQUEST_FAILURE")>>)
    \/ p.type = "BANNER" /\ Answer(<<>>)
    \/ p.type = "CHANNEL" /\ HandleChannelMessage(p)
    \/ p.type = "DISCONNECT" /\ ServerException
    \/ p.type = "PASSWD_CHANGEREQ" /\ p.arg = "bad" /\ ServerException
    \/ /\ p.type \in {"AUTH_FAILURE", "PASSWD_CHANGEREQ"}
       /\ p.arg # "bad"
       /\ CloseConnection("SshAuthenticationError", <<>>, socket)

(* handleCurrentPacket() *)
Receive(p) ==
    /\ socket = "Connected"
    /\ state \notin {"SocketUnconnected", "SocketConnecting"}
    /\ ~(state = "SocketConnected" /\ keyExchangeState = "NoKeyExchange")
    /\ ~garbled
    /\ IF ignoreNextPacket
       THEN /\ ignoreNextPacket' = FALSE
            /\ sent' = <<>>
            /\ UNCHANGED <<socket, state, keyExchangeState, error, timerVars,
                           packetVars, signals>>
       ELSE IF p.type \notin DOMAIN packetHandlers
       THEN Answer(<<Outgoing("UNIMPLEMENTED")>>)
       ELSE IF state \notin packetHandlers[p.type]
       THEN ServerException
       ELSE Handle(p)
-----------------------------------------------------------------------------
User == ConnectToHost \/ DisconnectFromHost \/ SendChannelMessage

Network == SocketConnected \/ SocketError \/ SocketDisconnected

Timers == HandleTimeout \/ ChannelTimeout \/ SendKeepAlivePacket

Next ==
    \/ User
    \/ Network
    \/ Timers
    \/ ReceiveServerId
    \/ UnsupportedServerId
    \/ \E p \in ServerPackets : Receive(p)

(* The timers are single-shot timers of the Qt event loop: one that is not *)
(* stopped fires.                                                          *)
Fairness == WF_clientVars(HandleTimeout) /\ WF_clientVars(SendKeepAlivePacket)

Spec == Init /\ [][Next]_clientVars /\ Fairness
-----------------------------------------------------------------------------
(* Every variable has the type of the member it stands for. *)
TypeOK ==
    /\ socket \in SocketStates
    /\ state \in States
    /\ keyExchangeState \in KeyExchangeStates
    /\ error \in Errors
    /\ ignoreNextPacket \in BOOLEAN
    /\ timeoutTimer \in BOOLEAN
    /\ keepAliveTimer \in BOOLEAN
    /\ channelTimer \in BOOLEAN
    /\ garbled \in BOOLEAN
    /\ lastInvalid \in SeqNr \union {InvalidSeqNr}
    /\ clientSeqNr \in SeqNr
    /\ sendKeys \in Keys
    /\ receiveKeys \in Keys
    /\ signals \in Seq({"connected", "error", "disconnected"})
    /\ sent \in Seq(OutgoingPackets)

(* Only the packet that follows a wrong guess is dropped: the assertion of *)
(* handleCurrentPacket() holds whenever a packet can arrive, in every      *)
(* attempt to connect.                                                     *)
OnlyGuessIsDropped ==
    state # "SocketUnconnected" /\ ignoreNextPacket
        => keyExchangeState = "DhInitSent"

(* No second keep-alive packet goes out before the first is answered: the  *)
(* assertion of sendKeepAlivePacket(), in every connection of the object.  *)
OneProbeAtATime == keepAliveTimer => lastInvalid = InvalidSeqNr

(* A connection is never without a timer that would notice the end of the  *)
(* server's answers, it has only one, and none is left when it is closed.  *)
AlwaysWatched ==
    /\ (state # "SocketUnconnected") = (timeoutTimer \/ keepAliveTimer)
    /\ ~(timeoutTimer /\ keepAliveTimer)
    /\ Established => timeoutTimer = (lastInvalid # InvalidSeqNr)

(* closeConnection() returns early when there is an error: that is never   *)
(* the case while there is something to close, also in a later attempt.    *)
NothingKeepsItOpen == state # "SocketUnconnected" => error = "SshNoError"

(* What follows the first key exchange never goes out without keys. *)
NothingInClear ==
    \A i \in DOMAIN sent :
        sent[i].type \in {"SERVICE_REQUEST", "AUTH_REQUEST", "CHANNEL",
                          "INVALID"}
            => sent[i].keys # 0

(* The public state and the signals are those SshConnectionContract allows. *)
publicState ==
    CASE state = "SocketUnconnected" -> "Unconnected"
      [] Established -> "Connected"
      [] OTHER -> "Connecting"
Contract == INSTANCE SshConnectionContract
ContractSpec == Contract!Spec
==============================================================================
