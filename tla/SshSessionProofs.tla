--------------------------- MODULE SshSessionProofs ---------------------------
(***************************************************************************)
(* Proofs, for any numbers of exchanges, keys, sequence numbers and        *)
(* packets on the way, of what the run ssh_session checks of a connection  *)
(* and its server. The first part is about a connection alone, whatever    *)
(* the server sends: its safety invariants, and that its public state and  *)
(* signals are those of SshConnectionContract. The second part joins it to *)
(* a server.                                                               *)
(***************************************************************************)
EXTENDS SshSession, SequenceTheorems, TLAPS

(* What the invariants need besides each other: while the socket connects  *)
(* there is no session yet, the keep-alive timer belongs to an established *)
(* connection, the keys are there before the state that needs them, and    *)
(* signals tell the public state.                                          *)
ConnectingSocket ==
    socket = "Connecting" => state \in {"SocketUnconnected", "SocketConnecting"}

KeepAliveEstablished == keepAliveTimer => Established

KeysBeforeService ==
    \/ state = "SocketUnconnected"
    \/ state \in {"SocketConnecting", "SocketConnected"}
         /\ keyExchangeState # "NewKeysSent"
    \/ sendKeys # 0

SignalsTellState ==
    /\ Established => signals = <<"connected">>
    /\ state \notin {"SocketUnconnected", "ConnectionEstablished"}
          => signals = <<>>

Control == /\ OnlyGuessIsDropped
           /\ OneProbeAtATime
           /\ AlwaysWatched
           /\ NothingKeepsItOpen
           /\ ConnectingSocket
           /\ KeepAliveEstablished
           /\ KeysBeforeService
           /\ SignalsTellState

(* The inductive invariant. *)
IInv == TypeOK /\ NothingInClear /\ Control

(* The packets that must not go out without keys, and the others. *)
Secret == {"SERVICE_REQUEST", "AUTH_REQUEST", "CHANNEL", "INVALID"}
Plain == {"ID", "KEXINIT", "KEXDH_INIT", "NEWKEYS", "REQUEST_FAILURE",
          "UNIMPLEMENTED", "DISCONNECT"}

(* A step keeps the invariant and is one of the contract. *)
Good == IInv' /\ [Contract!Next]_(Contract!vars)

(* What goes out has the type it should have. *)
LEMMA OutgoingType ==
    ASSUME sendKeys \in Keys, NEW type \in Plain \union Secret
    PROVE  Outgoing(type) \in OutgoingPackets
  BY DEF Outgoing, OutgoingPackets, Plain, Secret

(* Keys are changed to others, and there are some. *)
LEMMA NextKeysType ==
    ASSUME NEW k \in Keys
    PROVE  NextKeys(k) \in Keys /\ NextKeys(k) # 0
  BY KeyNamesAssumption DEF NextKeys, Keys

(* Signals one after the other. *)
LEMMA TwoSignals ==
    ASSUME NEW a, NEW b
    PROVE  <<a>> \o <<b>> = <<a, b>>
<1> PICK S : S = {a, b}
  OBVIOUS
<1> DEFINE s == <<a>> \o <<b>>
           t == <<a, b>>
<1> a \in S /\ b \in S
  OBVIOUS
<1>1. /\ s \in Seq(S) /\ Len(s) = 2 /\ s[1] = a /\ s[2] = b
      /\ t \in Seq(S) /\ Len(t) = 2 /\ t[1] = a /\ t[2] = b
  OBVIOUS
<1> HIDE DEF s, t
<1>2. s = t
  BY <1>1, SeqEqual
<1> QED
  BY <1>2 DEF s, t

(* The same with three. *)
LEMMA ThreeSignals ==
    ASSUME NEW a, NEW b, NEW c
    PROVE  <<a, b>> \o <<c>> = <<a, b, c>>
<1> PICK S : S = {a, b, c}
  OBVIOUS
<1> DEFINE s == <<a, b>> \o <<c>>
           t == <<a, b, c>>
<1> a \in S /\ b \in S /\ c \in S
  OBVIOUS
<1>1. /\ s \in Seq(S) /\ Len(s) = 3 /\ s[1] = a /\ s[2] = b /\ s[3] = c
      /\ t \in Seq(S) /\ Len(t) = 3 /\ t[1] = a /\ t[2] = b /\ t[3] = c
  OBVIOUS
<1> HIDE DEF s, t
<1>2. s = t
  BY <1>1, SeqEqual
<1> QED
  BY <1>2 DEF s, t

(* A new connection satisfies the invariant. *)
LEMMA InitGood == Init => IInv
<1> SUFFICES ASSUME Init PROVE IInv
  OBVIOUS
<1>1. TypeOK
  <2>1. clientSeqNr \in SeqNr /\ sendKeys \in Keys /\ receiveKeys \in Keys
    BY SeqNrsAssumption, KeyNamesAssumption DEF Init, SeqNr, Keys
  <2>2. /\ signals \in Seq({"connected", "error", "disconnected"})
        /\ sent \in Seq(OutgoingPackets)
    BY DEF Init
  <2> QED
    BY <2>1, <2>2 DEF Init, TypeOK, OutgoingPackets, SocketStates, States,
       KeyExchangeStates, Errors
<1>2. NothingInClear
  BY DEF Init, NothingInClear
<1> QED
  BY <1>1, <1>2 DEF Init, IInv, Control, OnlyGuessIsDropped, OneProbeAtATime,
     AlwaysWatched, NothingKeepsItOpen, ConnectingSocket, KeepAliveEstablished,
     KeysBeforeService, SignalsTellState, Established

(* closeConnection() keeps the invariant, whatever its caller has sent. *)
LEMMA CloseGood ==
    ASSUME IInv,
           NEW e \in Errors, NEW packets \in Seq(OutgoingPackets),
           NEW s \in SocketStates,
           \A i \in DOMAIN packets : packets[i].type \notin Secret,
           CloseConnection(e, packets, s)
    PROVE  Good
<1>1. sent' \in Seq(OutgoingPackets)
  <2> sendKeys \in Keys
    BY DEF IInv, TypeOK
  <2>1. Outgoing("DISCONNECT") \in OutgoingPackets
    BY OutgoingType DEF Plain
  <2>2. Append(packets, Outgoing("DISCONNECT")) \in Seq(OutgoingPackets)
    BY <2>1
  <2> QED
    BY <2>2 DEF CloseConnection
<1>2. NothingInClear'
  BY DEF CloseConnection, NothingInClear, Outgoing, Secret, OutgoingPackets
<1>3. signals' \in Seq({"connected", "error", "disconnected"})
  <2> DEFINE S == {"connected", "error", "disconnected"}
  <2>1. /\ <<>> \in Seq(S)
        /\ <<"error">> \in Seq(S)
        /\ <<"disconnected">> \in Seq(S)
    OBVIOUS
  <2>2. signals \in Seq(S)
    BY DEF IInv, TypeOK
  <2> HIDE DEF S
  <2>3. signals' \in Seq(S)
    BY <2>1, <2>2 DEF CloseConnection
  <2> QED
    BY <2>3 DEF S
<1>4. TypeOK'
  BY <1>1, <1>3 DEF IInv, TypeOK, CloseConnection, SocketStates, States,
     OutgoingPackets, Errors, handshakeVars, packetVars
<1>5. Control'
  BY DEF CloseConnection, Control, OnlyGuessIsDropped, OneProbeAtATime,
     AlwaysWatched, NothingKeepsItOpen, ConnectingSocket, KeepAliveEstablished,
     KeysBeforeService, SignalsTellState, Established
<1>6. [Contract!Next]_(Contract!vars)
  <2>1. CASE Established
    <3>1. signals = <<"connected">>
      BY <2>1 DEF IInv, Control, SignalsTellState
    <3>2. signals' \in {<<"connected", "disconnected">>,
                        <<"connected", "error", "disconnected">>}
      <4>1. /\ <<"connected">> \o <<>> = <<"connected">>
            /\ <<"connected">> \o <<"error">> = <<"connected", "error">>
            /\ <<"connected">> \o <<"disconnected">>
                   = <<"connected", "disconnected">>
        <5>1. <<"connected">> \o <<>> = <<"connected">>
          OBVIOUS
        <5> QED
          BY <5>1, TwoSignals
      <4>2. <<"connected", "error">> \o <<"disconnected">>
                = <<"connected", "error", "disconnected">>
        BY ThreeSignals
      <4>3. signals' = (<<"connected">>
                           \o (IF e # "SshNoError" THEN <<"error">> ELSE <<>>))
                           \o <<"disconnected">>
        BY <2>1, <3>1 DEF CloseConnection
      <4> QED
        BY <4>1, <4>2, <4>3
    <3>3. publicState = "Connected" /\ publicState' = "Unconnected"
      BY <2>1 DEF CloseConnection, publicState, Established
    <3> QED
      BY <3>2, <3>3 DEF Contract!Next, Contract!Disconnect
  <2>2. CASE ~Established
    <3>1. signals = <<>>
      BY <2>2 DEF IInv, Control, SignalsTellState, CloseConnection, Established
    <3>2. signals' \in {<<>>, <<"error">>}
      BY <2>2, <3>1 DEF CloseConnection
    <3>3. publicState = "Connecting" /\ publicState' = "Unconnected"
      BY <2>2 DEF CloseConnection, publicState, Established
    <3> QED
      BY <3>2, <3>3 DEF Contract!Next, Contract!Abandon
  <2> QED
    BY <2>1, <2>2
<1> QED
  BY <1>2, <1>4, <1>5, <1>6 DEF Good, IInv
-----------------------------------------------------------------------------
(* What a handler sends that sends nothing, or one packet. *)
LEMMA NothingSent ==
    ASSUME sent' = <<>>
    PROVE  sent' \in Seq(OutgoingPackets) /\ NothingInClear'
  BY DEF NothingInClear

(* One packet, with keys if it needs some. *)
LEMMA OneSent ==
    ASSUME sendKeys \in Keys, NEW type \in Plain \union Secret,
           type \in Secret => sendKeys # 0,
           sent' = <<Outgoing(type)>>
    PROVE  sent' \in Seq(OutgoingPackets) /\ NothingInClear'
<1>1. Outgoing(type) \in OutgoingPackets
  BY OutgoingType
<1>2. sent' \in Seq(OutgoingPackets)
  BY <1>1
<1>3. NothingInClear'
  BY DEF NothingInClear, Outgoing, Secret
<1> QED
  BY <1>2, <1>3

(* A step that changes neither the public state nor the signals. *)
LEMMA Unnoticed ==
    ASSUME signals' = signals,
           state' = "SocketUnconnected" <=> state = "SocketUnconnected",
           state' = "ConnectionEstablished"
              <=> state = "ConnectionEstablished"
    PROVE  [Contract!Next]_(Contract!vars)
<1>1. publicState' = publicState
  BY DEF publicState, Established
<1> QED
  BY <1>1 DEF Contract!vars

(* connectToHost() keeps the invariant. *)
LEMMA ConnectGood ==
    ASSUME IInv, ConnectToHost
    PROVE  Good
<1>1. sent' \in Seq(OutgoingPackets) /\ NothingInClear'
  BY NothingSent DEF ConnectToHost
<1>2. signals' \in Seq({"connected", "error", "disconnected"})
  <2>1. /\ <<>> \in Seq({"connected", "error", "disconnected"})
        /\ <<"error">> \in Seq({"connected", "error", "disconnected"})
    OBVIOUS
  <2> QED
    BY <2>1 DEF ConnectToHost
<1>3. clientSeqNr' \in SeqNr /\ sendKeys' \in Keys /\ receiveKeys' \in Keys
  BY SeqNrsAssumption, KeyNamesAssumption DEF ConnectToHost, SeqNr, Keys
<1>4. TypeOK'
  BY <1>1, <1>2, <1>3 DEF ConnectToHost, IInv, TypeOK, timerVars, SocketStates,
     States, KeyExchangeStates, Errors
<1>5. Control'
  BY DEF ConnectToHost, IInv, Control, timerVars, OnlyGuessIsDropped,
     OneProbeAtATime, AlwaysWatched, NothingKeepsItOpen, ConnectingSocket,
     KeepAliveEstablished, KeysBeforeService, SignalsTellState, Established
<1>6. [Contract!Next]_(Contract!vars)
  BY DEF ConnectToHost, publicState, Established, Contract!Next,
     Contract!Connect
<1> QED
  BY <1>1, <1>4, <1>5, <1>6 DEF Good, IInv

(* handleSocketConnected() keeps the invariant. *)
LEMMA SocketConnectedGood ==
    ASSUME IInv, SocketConnected
    PROVE  Good
<1>1. sendKeys \in Keys /\ "ID" \in Plain \union Secret /\ "ID" \notin Secret
  BY DEF IInv, TypeOK, Plain, Secret
<1>2. sent' \in Seq(OutgoingPackets) /\ NothingInClear'
  <2>1. CASE sent' = <<>>
    BY <2>1, NothingSent
  <2>2. CASE sent' = <<Outgoing("ID")>>
    BY <1>1, <2>2, OneSent
  <2> QED
    BY <2>1, <2>2 DEF SocketConnected
<1>3. TypeOK'
  BY <1>2 DEF SocketConnected, IInv, TypeOK, handshakeVars, timerVars,
     packetVars, SocketStates, States
<1>4. Control'
  BY DEF SocketConnected, handshakeVars, timerVars, packetVars, IInv, Control,
     OnlyGuessIsDropped, OneProbeAtATime, AlwaysWatched, NothingKeepsItOpen,
     ConnectingSocket, KeepAliveEstablished, KeysBeforeService,
     SignalsTellState, Established
<1>5. [Contract!Next]_(Contract!vars)
  BY Unnoticed DEF SocketConnected, IInv, Control, ConnectingSocket
<1> QED
  BY <1>2, <1>3, <1>4, <1>5 DEF Good, IInv

(* A socket that closes or fails when nobody waits for it. *)
LEMMA SocketLostGood ==
    ASSUME IInv, state = "SocketUnconnected", socket' = "Unconnected",
           sent' = <<>>,
           UNCHANGED <<state, handshakeVars, error, timerVars, packetVars,
                       signals>>
    PROVE  Good
<1>1. sent' \in Seq(OutgoingPackets) /\ NothingInClear'
  BY NothingSent
<1>2. TypeOK'
  BY <1>1 DEF IInv, TypeOK, handshakeVars, timerVars, packetVars, SocketStates
<1>3. Control'
  BY DEF handshakeVars, timerVars, packetVars, IInv, Control,
     OnlyGuessIsDropped, OneProbeAtATime, AlwaysWatched, NothingKeepsItOpen,
     ConnectingSocket, KeepAliveEstablished, KeysBeforeService,
     SignalsTellState, Established
<1>4. [Contract!Next]_(Contract!vars)
  BY Unnoticed
<1> QED
  BY <1>1, <1>2, <1>3, <1>4 DEF Good, IInv

(* closeConnection() when its caller has sent nothing. *)
LEMMA CloseSilentlyGood ==
    ASSUME IInv, NEW e \in Errors, NEW s \in SocketStates,
           CloseConnection(e, <<>>, s)
    PROVE  Good
<1>1. <<>> \in Seq(OutgoingPackets)
  OBVIOUS
<1>2. \A i \in DOMAIN <<>> : <<>>[i].type \notin Secret
  OBVIOUS
<1> QED
  BY <1>1, <1>2, CloseGood

(* So does a handler that throws. *)
LEMMA ServerExceptionGood ==
    ASSUME IInv, ServerException
    PROVE  Good
  BY CloseSilentlyGood DEF ServerException, IInv, TypeOK, Errors

(* sendKeepAlivePacket() keeps the invariant. *)
LEMMA KeepAliveGood ==
    ASSUME IInv, SendKeepAlivePacket
    PROVE  Good
<1>1. CASE keyExchangeState # "NoKeyExchange"
  <2>1. sent' \in Seq(OutgoingPackets) /\ NothingInClear'
    BY <1>1, NothingSent DEF SendKeepAlivePacket
  <2>2. TypeOK'
    BY <1>1, <2>1 DEF SendKeepAlivePacket, IInv, TypeOK, handshakeVars,
       timerVars
  <2>3. Control'
    BY <1>1 DEF SendKeepAlivePacket, handshakeVars, timerVars, IInv, Control,
       OnlyGuessIsDropped, OneProbeAtATime, AlwaysWatched, NothingKeepsItOpen,
       ConnectingSocket, KeepAliveEstablished, KeysBeforeService,
       SignalsTellState, Established
  <2>4. [Contract!Next]_(Contract!vars)
    BY Unnoticed DEF SendKeepAlivePacket
  <2> QED
    BY <2>1, <2>2, <2>3, <2>4 DEF Good, IInv
<1>2. CASE keyExchangeState = "NoKeyExchange"
  <2>1. /\ clientSeqNr \in SeqNr
        /\ clientSeqNr \in 0 .. SeqNrs - 1
        /\ sendKeys \in Keys
    BY DEF IInv, TypeOK, SeqNr
  <2>2. clientSeqNr' \in SeqNr /\ clientSeqNr # InvalidSeqNr
    BY <1>2, <2>1, SeqNrsAssumption DEF SendKeepAlivePacket, SeqNr,
       InvalidSeqNr
  <2>3. sendKeys # 0
    BY DEF SendKeepAlivePacket, IInv, Control, KeepAliveEstablished,
       KeysBeforeService, Established
  <2> DEFINE probe == [type |-> "INVALID", seqNr |-> clientSeqNr,
                       keys |-> sendKeys]
  <2>4. sent' = <<probe>> /\ probe \in OutgoingPackets
    BY <1>2, <2>1 DEF SendKeepAlivePacket, OutgoingPackets
  <2>5. sent' \in Seq(OutgoingPackets) /\ NothingInClear'
    BY <2>3, <2>4 DEF NothingInClear
  <2>6. TypeOK'
    BY <1>2, <2>1, <2>2, <2>5 DEF SendKeepAlivePacket, IInv, TypeOK,
       handshakeVars
  <2>7. Control'
    BY <1>2, <2>2 DEF SendKeepAlivePacket, handshakeVars, IInv, Control,
       OnlyGuessIsDropped, OneProbeAtATime, AlwaysWatched, NothingKeepsItOpen,
       ConnectingSocket, KeepAliveEstablished, KeysBeforeService,
       SignalsTellState, Established
  <2>8. [Contract!Next]_(Contract!vars)
    BY Unnoticed DEF SendKeepAlivePacket
  <2> QED
    BY <2>5, <2>6, <2>7, <2>8 DEF Good, IInv
<1> QED
  BY <1>1, <1>2

(* A step that touches nothing but what is sent and the timer of a channel *)
LEMMA SideGood ==
    ASSUME IInv, sent' \in Seq(OutgoingPackets), NothingInClear',
           channelTimer' \in BOOLEAN,
           UNCHANGED <<socket, state, handshakeVars, error, timeoutTimer,
                       keepAliveTimer, lastInvalid, packetVars, signals>>
    PROVE  Good
<1>1. TypeOK'
  BY DEF IInv, TypeOK, handshakeVars, packetVars
<1>2. Control'
  BY DEF handshakeVars, packetVars, IInv, Control, OnlyGuessIsDropped,
     OneProbeAtATime, AlwaysWatched, NothingKeepsItOpen, ConnectingSocket,
     KeepAliveEstablished, KeysBeforeService, SignalsTellState, Established
<1>3. [Contract!Next]_(Contract!vars)
  BY Unnoticed
<1> QED
  BY <1>1, <1>2, <1>3 DEF Good, IInv
-----------------------------------------------------------------------------
(* A message of a channel of the application goes out with keys. *)
LEMMA ChannelMessageGood ==
    ASSUME IInv, SendChannelMessage
    PROVE  Good
<1>1. /\ sendKeys \in Keys
      /\ sendKeys # 0
      /\ "CHANNEL" \in Plain \union Secret
  BY DEF SendChannelMessage, IInv, TypeOK, Control, KeysBeforeService,
     Established, Secret
<1>2. sent' \in Seq(OutgoingPackets) /\ NothingInClear'
  BY <1>1, OneSent DEF SendChannelMessage
<1>3. channelTimer' \in BOOLEAN
  BY DEF SendChannelMessage, IInv, TypeOK
<1> QED
  BY <1>2, <1>3, SideGood DEF SendChannelMessage

(* handleServerId() keeps the invariant. *)
LEMMA ServerIdGood ==
    ASSUME IInv, ReceiveServerId
    PROVE  Good
<1>1. /\ sendKeys \in Keys
      /\ "KEXINIT" \in Plain \union Secret
      /\ "KEXINIT" \notin Secret
  BY DEF IInv, TypeOK, Plain, Secret
<1>2. sent' \in Seq(OutgoingPackets) /\ NothingInClear'
  <2>1. CASE sent' = <<>>
    BY <2>1, NothingSent
  <2>2. CASE sent' = <<Outgoing("KEXINIT")>>
    BY <1>1, <2>2, OneSent
  <2> QED
    BY <2>1, <2>2 DEF ReceiveServerId
<1>3. TypeOK'
  BY <1>2 DEF ReceiveServerId, IInv, TypeOK, timerVars, KeyExchangeStates
<1>4. Control'
  BY DEF ReceiveServerId, timerVars, IInv, Control, OnlyGuessIsDropped,
     OneProbeAtATime, AlwaysWatched, NothingKeepsItOpen, ConnectingSocket,
     KeepAliveEstablished, KeysBeforeService, SignalsTellState, Established
<1>5. [Contract!Next]_(Contract!vars)
  BY Unnoticed DEF ReceiveServerId
<1> QED
  BY <1>2, <1>3, <1>4, <1>5 DEF Good, IInv

(* handleKeyExchangeInitPacket() keeps the invariant. *)
LEMMA KeyExchangeInitGood ==
    ASSUME IInv, NEW p, ~ignoreNextPacket, HandleKeyExchangeInit(p)
    PROVE  Good
<1> DEFINE answer == IF keyExchangeState = "NoKeyExchange"
                     THEN <<Outgoing("KEXINIT")>> ELSE <<>>
<1>1. /\ Outgoing("KEXINIT") \in OutgoingPackets
      /\ Outgoing("KEXDH_INIT") \in OutgoingPackets
  BY OutgoingType DEF IInv, TypeOK, Plain
<1>2. /\ Outgoing("KEXINIT").type \notin Secret
      /\ Outgoing("KEXDH_INIT").type \notin Secret
  BY DEF Outgoing, Secret
<1>3. /\ answer \in Seq(OutgoingPackets)
      /\ \A i \in DOMAIN answer : answer[i].type \notin Secret
  <2>1. CASE answer = <<>>
    BY <2>1
  <2>2. CASE answer = <<Outgoing("KEXINIT")>>
    BY <1>1, <1>2, <2>2
  <2> QED
    BY <2>1, <2>2
<1> HIDE DEF answer
<1>4. CASE ServerException
  BY <1>4, ServerExceptionGood
<1>5. CASE CloseConnection("SshProtocolError", answer, socket)
  <2>1. "SshProtocolError" \in Errors /\ socket \in SocketStates
    BY DEF IInv, TypeOK, Errors
  <2> QED
    BY <1>3, <1>5, <2>1, CloseGood
<1>6. CASE /\ keyExchangeState' = "DhInitSent"
           /\ ignoreNextPacket' = (p.arg = "guess")
           /\ sent' = Append(answer, Outgoing("KEXDH_INIT"))
           /\ UNCHANGED <<socket, state, error, timerVars, packetVars, signals>>
  <2>1. sent' \in Seq(OutgoingPackets)
    BY <1>1, <1>3, <1>6
  <2>2. NothingInClear'
    BY <1>2, <1>3, <1>6 DEF NothingInClear, Secret
  <2>3. TypeOK'
    BY <1>6, <2>1 DEF IInv, TypeOK, timerVars, packetVars, KeyExchangeStates
  <2>4. Control'
    BY <1>6 DEF timerVars, packetVars, IInv, Control, OnlyGuessIsDropped,
       OneProbeAtATime, AlwaysWatched, NothingKeepsItOpen, ConnectingSocket,
       KeepAliveEstablished, KeysBeforeService, SignalsTellState, Established
  <2>5. [Contract!Next]_(Contract!vars)
    BY <1>6, Unnoticed
  <2> QED
    BY <2>2, <2>3, <2>4, <2>5 DEF Good, IInv
<1> QED
  BY <1>4, <1>5, <1>6 DEF HandleKeyExchangeInit, answer

(* handleKeyExchangeReplyPacket() leaves keys to send with. *)
LEMMA KeyExchangeReplyGood ==
    ASSUME IInv, NEW p, ~ignoreNextPacket, HandleKeyExchangeReply(p)
    PROVE  Good
<1>1. CASE ServerException
  BY <1>1, ServerExceptionGood
<1>2. CASE keyExchangeState = "DhInitSent" /\ p.arg # "bad"
  <2>1. /\ sendKeys \in Keys
        /\ "NEWKEYS" \in Plain \union Secret
        /\ "NEWKEYS" \notin Secret
    BY DEF IInv, TypeOK, Plain, Secret
  <2>2. sent' \in Seq(OutgoingPackets) /\ NothingInClear'
    BY <1>2, <2>1, OneSent DEF HandleKeyExchangeReply
  <2>3. sendKeys' \in Keys /\ sendKeys' # 0
    BY <1>2, <2>1, NextKeysType DEF HandleKeyExchangeReply
  <2>4. TypeOK'
    BY <1>2, <2>2, <2>3 DEF HandleKeyExchangeReply, IInv, TypeOK, timerVars,
       KeyExchangeStates
  <2>5. Control'
    BY <1>2, <2>3 DEF HandleKeyExchangeReply, timerVars, IInv, Control,
       OnlyGuessIsDropped, OneProbeAtATime, AlwaysWatched, NothingKeepsItOpen,
       ConnectingSocket, KeepAliveEstablished, KeysBeforeService,
       SignalsTellState, Established
  <2>6. [Contract!Next]_(Contract!vars)
    BY <1>2, Unnoticed DEF HandleKeyExchangeReply
  <2> QED
    BY <2>2, <2>4, <2>5, <2>6 DEF Good, IInv
<1> QED
  BY <1>1, <1>2 DEF HandleKeyExchangeReply

(* handleNewKeysPacket() asks for the service with keys. *)
LEMMA NewKeysGood ==
    ASSUME IInv, ~ignoreNextPacket, socket = "Connected", HandleNewKeys
    PROVE  Good
<1>1. CASE ServerException
  BY <1>1, ServerExceptionGood
<1>2. CASE keyExchangeState = "NewKeysSent"
  <2>1. /\ sendKeys \in Keys
        /\ receiveKeys \in Keys
        /\ "SERVICE_REQUEST" \in Plain \union Secret
    BY DEF IInv, TypeOK, Secret
  <2>2. CASE state = "SocketConnected"
    <3>1. sendKeys # 0
      BY <1>2, <2>2 DEF IInv, Control, KeysBeforeService
    <3>2. sent' \in Seq(OutgoingPackets) /\ NothingInClear'
      BY <1>2, <2>1, <2>2, <3>1, OneSent DEF HandleNewKeys
    <3>3. receiveKeys' \in Keys
      BY <1>2, <2>1, NextKeysType DEF HandleNewKeys
    <3>4. TypeOK'
      BY <1>2, <2>2, <3>2, <3>3 DEF HandleNewKeys, IInv, TypeOK, timerVars,
         KeyExchangeStates, States
    <3>5. Control'
      BY <1>2, <2>2, <3>1 DEF HandleNewKeys, timerVars, IInv, Control,
         OnlyGuessIsDropped, OneProbeAtATime, AlwaysWatched,
         NothingKeepsItOpen, ConnectingSocket, KeepAliveEstablished,
         KeysBeforeService, SignalsTellState, Established
    <3>6. [Contract!Next]_(Contract!vars)
      BY <1>2, <2>2, Unnoticed DEF HandleNewKeys
    <3> QED
      BY <3>2, <3>4, <3>5, <3>6 DEF Good, IInv
  <2>3. CASE state # "SocketConnected"
    <3>1. sent' \in Seq(OutgoingPackets) /\ NothingInClear'
      BY <1>2, <2>3, NothingSent DEF HandleNewKeys
    <3>2. receiveKeys' \in Keys
      BY <1>2, <2>1, NextKeysType DEF HandleNewKeys
    <3>3. TypeOK'
      BY <1>2, <2>3, <3>1, <3>2 DEF HandleNewKeys, IInv, TypeOK, timerVars,
         KeyExchangeStates
    <3>4. Control'
      BY <1>2, <2>3 DEF HandleNewKeys, timerVars, IInv, Control,
         OnlyGuessIsDropped, OneProbeAtATime, AlwaysWatched,
         NothingKeepsItOpen, ConnectingSocket, KeepAliveEstablished,
         KeysBeforeService, SignalsTellState, Established
    <3>5. [Contract!Next]_(Contract!vars)
      BY <1>2, <2>3, Unnoticed DEF HandleNewKeys
    <3> QED
      BY <3>1, <3>3, <3>4, <3>5 DEF Good, IInv
  <2> QED
    BY <2>2, <2>3
<1> QED
  BY <1>1, <1>2 DEF HandleNewKeys

(* handleServiceAcceptPacket() keeps the invariant. *)
LEMMA ServiceAcceptGood ==
    ASSUME IInv, state = "UserAuthServiceRequested", socket = "Connected",
           HandleServiceAccept
    PROVE  Good
<1>1. /\ sendKeys \in Keys
      /\ sendKeys # 0
      /\ "AUTH_REQUEST" \in Plain \union Secret
  BY DEF IInv, TypeOK, Control, KeysBeforeService, Secret
<1>2. sent' \in Seq(OutgoingPackets) /\ NothingInClear'
  BY <1>1, OneSent DEF HandleServiceAccept
<1>3. TypeOK'
  BY <1>2 DEF HandleServiceAccept, IInv, TypeOK, handshakeVars, timerVars,
     packetVars, States
<1>4. Control'
  BY <1>1 DEF HandleServiceAccept, handshakeVars, timerVars, packetVars, IInv,
     Control, OnlyGuessIsDropped, OneProbeAtATime, AlwaysWatched,
     NothingKeepsItOpen, ConnectingSocket, KeepAliveEstablished,
     KeysBeforeService, SignalsTellState, Established
<1>5. [Contract!Next]_(Contract!vars)
  BY Unnoticed DEF HandleServiceAccept
<1> QED
  BY <1>2, <1>3, <1>4, <1>5 DEF Good, IInv

(* handleUserAuthSuccessPacket() hands over from one timer to the other. *)
LEMMA AuthSuccessGood ==
    ASSUME IInv, state = "UserAuthRequested", socket = "Connected",
           HandleAuthSuccess
    PROVE  Good
<1>1. sent' \in Seq(OutgoingPackets) /\ NothingInClear'
  BY NothingSent DEF HandleAuthSuccess
<1>2. signals' = <<"connected">>
  BY DEF HandleAuthSuccess, IInv, Control, SignalsTellState
<1>3. signals' \in Seq({"connected", "error", "disconnected"})
  BY <1>2
<1>4. TypeOK'
  BY <1>1, <1>3 DEF HandleAuthSuccess, IInv, TypeOK, handshakeVars, packetVars,
     States
<1>5. Control'
  BY <1>2 DEF HandleAuthSuccess, handshakeVars, packetVars, IInv, Control,
     OnlyGuessIsDropped, OneProbeAtATime, AlwaysWatched, NothingKeepsItOpen,
     ConnectingSocket, KeepAliveEstablished, KeysBeforeService,
     SignalsTellState, Established
<1>6. [Contract!Next]_(Contract!vars)
  BY <1>2 DEF HandleAuthSuccess, publicState, Established, Contract!Next,
     Contract!Establish
<1> QED
  BY <1>1, <1>4, <1>5, <1>6 DEF Good, IInv

(* handleUnimplementedPacket() hands the watch back. *)
LEMMA UnimplementedGood ==
    ASSUME IInv, NEW p, Established, HandleUnimplemented(p)
    PROVE  Good
<1>1. CASE ServerException
  BY <1>1, ServerExceptionGood
<1>2. CASE p.seqNr = lastInvalid
  <2>1. sent' \in Seq(OutgoingPackets) /\ NothingInClear'
    BY <1>2, NothingSent DEF HandleUnimplemented
  <2>2. TypeOK'
    BY <1>2, <2>1 DEF HandleUnimplemented, IInv, TypeOK, handshakeVars,
       packetVars
  <2>3. Control'
    BY <1>2 DEF HandleUnimplemented, handshakeVars, packetVars, IInv, Control,
       OnlyGuessIsDropped, OneProbeAtATime, AlwaysWatched, NothingKeepsItOpen,
       ConnectingSocket, KeepAliveEstablished, KeysBeforeService,
       SignalsTellState, Established
  <2>4. [Contract!Next]_(Contract!vars)
    BY <1>2, Unnoticed DEF HandleUnimplemented
  <2> QED
    BY <2>1, <2>2, <2>3, <2>4 DEF Good, IInv
<1> QED
  BY <1>1, <1>2 DEF HandleUnimplemented

(* Handlers that answer with one packet without secrets, or with none. *)
LEMMA AnswerGood ==
    ASSUME IInv, NEW packets,
           packets \in {<<>>, <<Outgoing("REQUEST_FAILURE")>>,
                        <<Outgoing("UNIMPLEMENTED")>>},
           Answer(packets)
    PROVE  Good
<1>1. /\ sendKeys \in Keys
      /\ "REQUEST_FAILURE" \in Plain \union Secret
      /\ "REQUEST_FAILURE" \notin Secret
      /\ "UNIMPLEMENTED" \in Plain \union Secret
      /\ "UNIMPLEMENTED" \notin Secret
  BY DEF IInv, TypeOK, Plain, Secret
<1>2. sent' \in Seq(OutgoingPackets) /\ NothingInClear'
  <2>1. CASE packets = <<>>
    BY <2>1, NothingSent DEF Answer
  <2>2. CASE packets = <<Outgoing("REQUEST_FAILURE")>>
    BY <1>1, <2>2, OneSent DEF Answer
  <2>3. CASE packets = <<Outgoing("UNIMPLEMENTED")>>
    BY <1>1, <2>3, OneSent DEF Answer
  <2> QED
    BY <2>1, <2>2, <2>3
<1>3. channelTimer' \in BOOLEAN
  BY DEF Answer, IInv, TypeOK, timerVars
<1> QED
  BY <1>2, <1>3, SideGood DEF Answer, timerVars

(* The handler that the packet table names, in a state it may be called in. *)
LEMMA HandleGood ==
    ASSUME IInv, NEW p, ~ignoreNextPacket, socket = "Connected",
           p.type \in DOMAIN packetHandlers, state \in packetHandlers[p.type],
           Handle(p)
    PROVE  Good
<1>1. CASE p.type = "KEXINIT" /\ HandleKeyExchangeInit(p)
  BY <1>1, KeyExchangeInitGood
<1>2. CASE p.type = "KEXDH_REPLY" /\ HandleKeyExchangeReply(p)
  BY <1>2, KeyExchangeReplyGood
<1>3. CASE p.type = "NEWKEYS" /\ HandleNewKeys
  BY <1>3, NewKeysGood
<1>4. CASE p.type = "SERVICE_ACCEPT" /\ HandleServiceAccept
  BY <1>4, ServiceAcceptGood DEF packetHandlers
<1>5. CASE p.type = "AUTH_SUCCESS" /\ HandleAuthSuccess
  BY <1>5, AuthSuccessGood DEF packetHandlers
<1>6. CASE p.type = "UNIMPLEMENTED" /\ HandleUnimplemented(p)
  BY <1>6, UnimplementedGood DEF packetHandlers, Established
<1>7. CASE p.type = "GLOBAL_REQUEST" /\ Answer(<<Outgoing("REQUEST_FAILURE")>>)
  BY <1>7, AnswerGood
<1>8. CASE p.type = "BANNER" /\ Answer(<<>>)
  BY <1>8, AnswerGood
<1>9. CASE p.type = "CHANNEL" /\ HandleChannelMessage(p)
  <2>1. CASE ServerException
    BY <2>1, ServerExceptionGood
  <2>2. CASE p.arg # "bad"
    <3>1. sent' \in Seq(OutgoingPackets) /\ NothingInClear'
      BY <1>9, <2>2, NothingSent DEF HandleChannelMessage
    <3>2. channelTimer' \in BOOLEAN
      BY <1>9, <2>2 DEF HandleChannelMessage, IInv, TypeOK
    <3> QED
      BY <1>9, <2>2, <3>1, <3>2, SideGood DEF HandleChannelMessage
  <2> QED
    BY <1>9, <2>1, <2>2 DEF HandleChannelMessage
<1>10. CASE ServerException
  BY <1>10, ServerExceptionGood
<1>11. CASE CloseConnection("SshAuthenticationError", <<>>, socket)
  BY <1>11, CloseSilentlyGood DEF IInv, TypeOK, Errors
<1> QED
  BY <1>1, <1>2, <1>3, <1>4, <1>5, <1>6, <1>7, <1>8, <1>9, <1>10, <1>11 DEF
     Handle

(* handleCurrentPacket() keeps the invariant. *)
LEMMA ReceiveGood ==
    ASSUME IInv, NEW p, Receive(p)
    PROVE  Good
<1>1. CASE ignoreNextPacket
  <2>1. sent' \in Seq(OutgoingPackets) /\ NothingInClear'
    BY <1>1, NothingSent DEF Receive
  <2>2. TypeOK'
    BY <1>1, <2>1 DEF Receive, IInv, TypeOK, timerVars, packetVars
  <2>3. Control'
    BY <1>1 DEF Receive, timerVars, packetVars, IInv, Control,
       OnlyGuessIsDropped, OneProbeAtATime, AlwaysWatched, NothingKeepsItOpen,
       ConnectingSocket, KeepAliveEstablished, KeysBeforeService,
       SignalsTellState, Established
  <2>4. [Contract!Next]_(Contract!vars)
    BY <1>1, Unnoticed DEF Receive
  <2> QED
    BY <2>1, <2>2, <2>3, <2>4 DEF Good, IInv
<1>2. CASE /\ ~ignoreNextPacket
           /\ p.type \notin DOMAIN packetHandlers
  BY <1>2, AnswerGood DEF Receive
<1>3. CASE ~ignoreNextPacket /\ ServerException
  BY <1>3, ServerExceptionGood
<1>4. CASE /\ ~ignoreNextPacket
           /\ p.type \in DOMAIN packetHandlers
           /\ state \in packetHandlers[p.type]
  BY <1>4, HandleGood DEF Receive
<1> QED
  BY <1>1, <1>2, <1>3, <1>4 DEF Receive
-----------------------------------------------------------------------------
(* Every step keeps the invariant and is one of the contract. *)
LEMMA NextGood == IInv /\ [Next]_clientVars => Good
<1> SUFFICES ASSUME IInv, [Next]_clientVars
             PROVE  Good
  OBVIOUS
<1>1. CASE ConnectToHost
  BY <1>1, ConnectGood
<1>2. CASE DisconnectFromHost
  BY <1>2, CloseSilentlyGood DEF DisconnectFromHost, IInv, TypeOK, Errors
<1>3. CASE SendChannelMessage
  BY <1>3, ChannelMessageGood
<1>4. CASE SocketConnected
  BY <1>4, SocketConnectedGood
<1>5. CASE SocketError
  <2>1. "SshSocketError" \in Errors /\ "Unconnected" \in SocketStates
    BY DEF Errors, SocketStates
  <2> QED
    BY <1>5, <2>1, SocketLostGood, CloseSilentlyGood DEF SocketError
<1>6. CASE SocketDisconnected
  <2>1. "SshClosedByServerError" \in Errors /\ "Unconnected" \in SocketStates
    BY DEF Errors, SocketStates
  <2> QED
    BY <1>6, <2>1, SocketLostGood, CloseSilentlyGood DEF SocketDisconnected
<1>7. CASE HandleTimeout \/ ChannelTimeout
  <2>1. "SshTimeoutError" \in Errors /\ socket \in SocketStates
    BY DEF IInv, TypeOK, Errors
  <2> QED
    BY <1>7, <2>1, CloseSilentlyGood DEF HandleTimeout, ChannelTimeout
<1>8. CASE SendKeepAlivePacket
  BY <1>8, KeepAliveGood
<1>9. CASE ReceiveServerId
  BY <1>9, ServerIdGood
<1>10. CASE UnsupportedServerId
  BY <1>10, ServerExceptionGood DEF UnsupportedServerId
<1>11. CASE \E p \in ServerPackets : Receive(p)
  BY <1>11, ReceiveGood
<1>12. CASE UNCHANGED clientVars
  <2>1. /\ TypeOK'
        /\ NothingInClear'
    BY <1>12 DEF IInv, TypeOK, NothingInClear, clientVars, handshakeVars,
       timerVars, packetVars
  <2>2. Control'
    BY <1>12 DEF clientVars, handshakeVars, timerVars, packetVars, IInv,
       Control, OnlyGuessIsDropped, OneProbeAtATime, AlwaysWatched,
       NothingKeepsItOpen, ConnectingSocket, KeepAliveEstablished,
       KeysBeforeService, SignalsTellState, Established
  <2>3. [Contract!Next]_(Contract!vars)
    BY <1>12, Unnoticed DEF clientVars
  <2> QED
    BY <2>1, <2>2, <2>3 DEF Good, IInv
<1> QED
  BY <1>1, <1>2, <1>3, <1>4, <1>5, <1>6, <1>7, <1>8, <1>9, <1>10, <1>11, <1>12
     DEF Next, User, Network, Timers

(* The inductive invariant holds in every state of every connection. *)
THEOREM Invariant == Spec => []IInv
<1>1. IInv /\ [Next]_clientVars => IInv'
  BY NextGood DEF Good
<1> QED
  BY InitGood, <1>1, PTL DEF Spec

(* The variables keep their types: TypeOK. *)
THEOREM Typing == Spec => []TypeOK
  BY Invariant, PTL DEF IInv

(* No packet but the one that follows a wrong guess is dropped: the        *)
(* assertion of handleCurrentPacket().                                     *)
THEOREM GuessDropped == Spec => []OnlyGuessIsDropped
  BY Invariant, PTL DEF IInv, Control

(* The assertion of sendKeepAlivePacket(), in every connection. *)
THEOREM OneProbe == Spec => []OneProbeAtATime
  BY Invariant, PTL DEF IInv, Control

(* Exactly one timer watches over a connection that is not closed. *)
THEOREM Watched == Spec => []AlwaysWatched
  BY Invariant, PTL DEF IInv, Control

(* closeConnection() never returns early while there is something open. *)
THEOREM Closable == Spec => []NothingKeepsItOpen
  BY Invariant, PTL DEF IInv, Control

(* No service request, authentication or session packet without keys. *)
THEOREM Encrypted == Spec => []NothingInClear
  BY Invariant, PTL DEF IInv

(* What users see of a connection, step by step, is what the contract      *)
(* allows: the safety part of ContractSpec.                                *)
THEOREM Refinement == Spec => Contract!Init /\ [][Contract!Next]_(Contract!vars)
<1>1. Init => Contract!Init
  BY DEF Init, Contract!Init, publicState, Established
<1>2. IInv /\ [Next]_clientVars => [Contract!Next]_(Contract!vars)
  BY NextGood DEF Good
<1> QED
  BY <1>1, <1>2, Invariant, PTL DEF Spec
----------------------------------------------------------------------------
(* A connection and its server.                                            *)

(* The keys of a packet that follows p, and of one that is sent behind all *)
(* packets, where keys are those of the first.                             *)
Following(p) == IF p.type = "NEWKEYS" THEN NextKeys(p.keys) ELSE p.keys

KeysBehind(packets, keys) ==
    IF packets = <<>> THEN keys ELSE Following(packets[Len(packets)])

(* The keys change with NEWKEYS and never else. *)
Chained(packets, keys) ==
    /\ packets # <<>> => packets[1].keys = keys
    /\ \A i \in 2..Len(packets) : packets[i].keys = Following(packets[i-1])

(* Whether what is sent behind all packets is sent during an exchange.     *)
Exchanging(packets, started, n) ==
    \E i \in 0 .. n - 1 :
        /\ IF i = 0 THEN started ELSE packets[i].type = "KEXINIT"
        /\ \A k \in i + 1 .. n - 1 : packets[k].type # "NEWKEYS"

ExchangeBehind(packets, started) ==
    Exchanging(packets, started, Len(packets) + 1)

Guess(p) == p.type = "KEXINIT" /\ p.arg = "guess"
Guessed(p) == p.type = "KEXDH_REPLY" /\ p.arg = "bad"

Linked == socket = "Connected"
Asleep == state \in {"SocketUnconnected", "SocketConnecting"}

(* Without a socket nothing is on its way; a client that does not use its  *)
(* socket has sent nothing. *)
Quiet ==
    /\ socket \in {"Unconnected", "Connecting"} =>
          toServer = <<>> /\ toClient = <<>> /\ server = NewServer
    /\ ~Asleep => Linked
    /\ state = "SocketConnecting" => keyExchangeState = "NoKeyExchange"
    /\ socket = "Connecting" => sendKeys = 0 /\ receiveKeys = 0
    /\ Linked /\ Asleep =>
          toServer = <<>> /\ sendKeys = 0 /\ ~server.peerInit

KeysInv ==
    /\ Chained(toServer, server.receiveKeys)
    /\ Linked => sendKeys = KeysBehind(toServer, server.receiveKeys)
    /\ ~Asleep /\ ~garbled =>
          /\ Chained(toClient, receiveKeys)
          /\ server.sendKeys = KeysBehind(toClient, receiveKeys)
    /\ Linked /\ Asleep =>
          /\ receiveKeys = 0
          /\ server.sendKeys = 0
          /\ \A i \in DOMAIN toClient : toClient[i].keys = 0

GuessInv ==
    ~Asleep /\ ~garbled =>
       /\ ignoreNextPacket => toClient # <<>> /\ Guessed(toClient[1])
       /\ \A i \in DOMAIN toClient : Guess(toClient[i]) =>
            i < Len(toClient) /\ Guessed(toClient[i + 1])
       /\ \A i \in DOMAIN toClient : Guessed(toClient[i]) =>
            \/ i = 1 /\ ignoreNextPacket
            \/ i > 1 /\ Guess(toClient[i - 1])

ProbeInv ==
    /\ KeepAliveKeepsOut
    /\ Linked /\ keyExchangeState \in {"NoKeyExchange", "NewKeysSent"} =>
          ~ExchangeBehind(toServer, server.peerInit)
(* What is on the way, and the state of the server. *)
Incoming == [type : PacketTypes \union {"ID"},
             arg : {"none", "guess", "unknown", "bad"},
             seqNr : SeqNr \union {InvalidSeqNr},
             keys : Keys]

Servers == [phase : {"start", "service", "authentication", "established"},
            exchange : {"none", "sent", "replied"},
            peerInit : BOOLEAN, sendKeys : Keys, receiveKeys : Keys,
            exchanges : Nat, silent : BOOLEAN, leaving : BOOLEAN]

SessionTypes ==
    /\ toServer \in Seq(OutgoingPackets)
    /\ toClient \in Seq(Incoming)
    /\ server \in Servers
-----------------------------------------------------------------------------
Live == ~Asleep /\ ~garbled /\ ~server.leaving

(* The places of packets of some types, but for wrong guesses. *)
At(packets, types) ==
    {i \in DOMAIN packets :
        packets[i].type \in types /\ ~Guessed(packets[i])}

One(places) == \A i, j \in places : i = j

(* What is at place i arrives in an established connection. *)
Authenticated(i) ==
    Established \/ \E j \in At(toClient, {"AUTH_SUCCESS"}) : j < i

(* The packets of an exchange, in the order in which they go to and fro.   *)
InitComing ==
    /\ One(At(toClient, {"KEXINIT"}))
    /\ \A i \in At(toClient, {"KEXINIT"}) :
          /\ toClient[i].arg # "unknown"
          /\ server.exchange = "sent"
          /\ keyExchangeState # "DhInitSent"
          /\ At(toServer, {"KEXDH_INIT"}) = {}
          /\ At(toServer, {"NEWKEYS"}) = {}
          /\ keyExchangeState = "NewKeysSent" =>
                \E j \in At(toClient, {"NEWKEYS"}) : j < i
          /\ \/ state = "SocketConnected" /\ keyExchangeState # "NewKeysSent"
             \/ Authenticated(i)

ReplyGoing ==
    /\ One(At(toServer, {"KEXDH_INIT"}))
    /\ At(toServer, {"KEXDH_INIT"}) # {} =>
          server.exchange = "sent" /\ keyExchangeState = "DhInitSent"

ReplyComing ==
    /\ One(At(toClient, {"KEXDH_REPLY"}))
    /\ \A i \in At(toClient, {"KEXDH_REPLY"}) :
          /\ server.exchange = "replied"
          /\ keyExchangeState = "DhInitSent"
          /\ At(toServer, {"NEWKEYS"}) = {}
          /\ \E j \in At(toClient, {"NEWKEYS"}) : j > i

KeysComing ==
    /\ One(At(toClient, {"NEWKEYS"}))
    /\ \A i \in At(toClient, {"NEWKEYS"}) :
          \/ keyExchangeState = "NewKeysSent"
          \/ /\ keyExchangeState = "DhInitSent"
             /\ server.exchange = "replied"
             /\ \E j \in At(toClient, {"KEXDH_REPLY"}) : j < i

KeysGoing ==
    /\ One(At(toServer, {"NEWKEYS"}))
    /\ At(toServer, {"NEWKEYS"}) # {} =>
          /\ server.exchange = "replied"
          /\ keyExchangeState \in {"NewKeysSent", "NoKeyExchange"}

ExchangeStates ==
    /\ keyExchangeState = "NewKeysSent" => At(toClient, {"NEWKEYS"}) # {}
    /\ server.exchange = "none" =>
          keyExchangeState \in {"NoKeyExchange", "NewKeysSent"}
    /\ keyExchangeState = "KexInitSent" =>
          server.exchange = "sent" /\ state = "SocketConnected"
    /\ keyExchangeState # "NoKeyExchange" =>
          state \in {"SocketConnected", "ConnectionEstablished"}

Exchange == /\ InitComing
            /\ ReplyGoing
            /\ ReplyComing
            /\ KeysComing
            /\ KeysGoing
            /\ ExchangeStates

(* The identification. *)
Greeting ==
    /\ server.phase = "start" =>
          /\ state = "SocketConnected"
          /\ keyExchangeState = "NoKeyExchange"
          /\ server.exchange = "none"
          /\ toClient = <<>>
    /\ One(At(toClient, {"ID"}))
    /\ At(toClient, {"ID"}) # {} =>
          /\ state = "SocketConnected"
          /\ keyExchangeState = "NoKeyExchange"
          /\ server.exchange = "sent"

(* The request for the service and its answer, then those for the user's   *)
(* authentication.                                                         *)
AuthReplies == {"BANNER", "AUTH_SUCCESS", "AUTH_FAILURE", "PASSWD_CHANGEREQ"}

Login ==
    /\ state = "SocketConnected" => server.phase \in {"start", "service"}
    /\ One(At(toServer, {"SERVICE_REQUEST"}))
    /\ At(toServer, {"SERVICE_REQUEST"}) # {} =>
          /\ state = "UserAuthServiceRequested"
          /\ server.phase = "service"
          /\ At(toClient, {"SERVICE_ACCEPT"}) = {}
    /\ One(At(toClient, {"SERVICE_ACCEPT"}))
    /\ At(toClient, {"SERVICE_ACCEPT"}) # {} =>
          /\ state = "UserAuthServiceRequested"
          /\ server.phase = "authentication"
    /\ One(At(toServer, {"AUTH_REQUEST"}))
    /\ At(toServer, {"AUTH_REQUEST"}) # {} =>
          /\ state = "UserAuthRequested"
          /\ server.phase = "authentication"
          /\ At(toClient, AuthReplies) = {}
    /\ At(toClient, AuthReplies) # {} => state = "UserAuthRequested"
    /\ \A i \in At(toClient, {"AUTH_SUCCESS"}) :
          \A j \in At(toClient, AuthReplies) : j <= i
    /\ \A i \in At(toClient, {"PASSWD_CHANGEREQ"}) : toClient[i].arg # "bad"

(* The packets of an established connection come behind AUTH_SUCCESS.      *)
Session ==
    /\ server.phase = "established" => Authenticated(Len(toClient) + 1)
    /\ \A i \in At(toClient, {"GLOBAL_REQUEST", "CHANNEL"}) :
          toClient[i].arg # "bad" /\ Authenticated(i)
    /\ At(toClient, {"DISCONNECT"}) = {}

(* A keep-alive packet or the answer to it is on its way, with the number  *)
(* that the client waits for.                                              *)
Probes ==
    /\ One(At(toServer, {"INVALID"}))
    /\ \A i \in At(toServer, {"INVALID"}) :
          /\ toServer[i].seqNr = lastInvalid
          /\ lastInvalid # InvalidSeqNr
          /\ Established
          /\ At(toClient, {"UNIMPLEMENTED"}) = {}
    /\ One(At(toClient, {"UNIMPLEMENTED"}))
    /\ \A i \in At(toClient, {"UNIMPLEMENTED"}) :
          /\ toClient[i].seqNr = lastInvalid
          /\ lastInvalid # InvalidSeqNr
          /\ Established

Understood == Exchange /\ Greeting /\ Login /\ Session /\ Probes

(* What is known of the two sides and of what is between them, and the     *)
(* inductive invariant.                                                    *)
Peers == /\ SessionTypes
         /\ Quiet
         /\ KeysInv
         /\ GuessInv
         /\ ProbeInv
         /\ Live => Understood

SessionInv == IInv /\ Peers
-----------------------------------------------------------------------------
(* Sequences one after the other. *)
LEMMA Joined ==
    ASSUME NEW P, NEW q \in Seq(P), NEW s \in Seq(P)
    PROVE  /\ q \o s \in Seq(P)
           /\ Len(q) \in Nat
           /\ Len(s) \in Nat
           /\ Len(q \o s) = Len(q) + Len(s)
           /\ \A i \in 1..Len(q) : (q \o s)[i] = q[i]
           /\ \A i \in 1..Len(s) : (q \o s)[Len(q) + i] = s[i]
           /\ \A i \in 1..Len(q) + Len(s) :
                 i \in 1..Len(q) \/ i - Len(q) \in 1..Len(s)
  OBVIOUS

(* What is left when the first packet is read. *)
LEMMA Rest ==
    ASSUME NEW P, NEW q \in Seq(P), q # <<>>
    PROVE  /\ Tail(q) \in Seq(P)
           /\ Len(q) \in Nat \ {0}
           /\ Len(Tail(q)) = Len(q) - 1
           /\ \A i \in 1..Len(q) - 1 : Tail(q)[i] = q[i + 1]
           /\ Head(q) = q[1]
           /\ q[1] \in P
  OBVIOUS

(* Keys go on changing with NEWKEYS only. *)
LEMMA ChainJoined ==
    ASSUME NEW P, NEW q \in Seq(P), NEW s \in Seq(P), NEW keys,
           Chained(q, keys), Chained(s, KeysBehind(q, keys))
    PROVE  /\ Chained(q \o s, keys)
           /\ KeysBehind(q \o s, keys) = KeysBehind(s, KeysBehind(q, keys))
<1> DEFINE t == q \o s
<1>1. /\ Len(q) \in Nat
      /\ Len(s) \in Nat
      /\ Len(t) = Len(q) + Len(s)
      /\ \A i \in 1..Len(q) : t[i] = q[i]
      /\ \A i \in 1..Len(s) : t[Len(q) + i] = s[i]
  BY Joined
<1>2. CASE q = <<>>
  <2>1. t = s
    BY <1>2
  <2> QED
    BY <1>2, <2>1 DEF KeysBehind
<1>3. CASE s = <<>>
  <2>1. t = q
    BY <1>3
  <2> QED
    BY <1>3, <2>1 DEF KeysBehind
<1>4. CASE q # <<>> /\ s # <<>>
  <2> HIDE DEF t
  <2>1. Len(q) > 0 /\ Len(s) > 0 /\ t # <<>>
    BY <1>1, <1>4
  <2>2. t[1] = q[1] /\ t[Len(t)] = s[Len(s)]
    BY <1>1, <2>1
  <2>3. s[1].keys = Following(q[Len(q)])
    BY <1>4 DEF Chained, KeysBehind
  <2>4. ASSUME NEW i \in 2..Len(t)
        PROVE  t[i].keys = Following(t[i-1])
    <3>1. CASE i \in 2..Len(q)
      <4>1. t[i] = q[i] /\ t[i-1] = q[i-1]
        BY <1>1, <3>1
      <4> QED
        BY <3>1, <4>1 DEF Chained
    <3>2. CASE i = Len(q) + 1
      <4>1. t[i] = s[1] /\ t[i-1] = q[Len(q)]
        BY <1>1, <2>1, <3>2
      <4> QED
        BY <2>3, <4>1
    <3>3. CASE i \in Len(q) + 2 .. Len(t)
      <4> DEFINE k == i - Len(q)
      <4>1. k \in 2..Len(s) /\ k - 1 \in 1..Len(s)
        BY <1>1, <3>3
      <4>2. i = Len(q) + k /\ i - 1 = Len(q) + (k - 1)
        BY <1>1
      <4> HIDE DEF k
      <4>3. t[i] = s[k] /\ t[i-1] = s[k-1]
        BY <1>1, <4>1, <4>2
      <4> QED
        BY <4>1, <4>3 DEF Chained
    <3> QED
      BY <1>1, <3>1, <3>2, <3>3
  <2>5. Chained(t, keys)
    BY <1>4, <2>1, <2>2, <2>4 DEF Chained
  <2>6. KeysBehind(t, keys) = KeysBehind(s, KeysBehind(q, keys))
    BY <1>4, <2>1, <2>2 DEF KeysBehind
  <2> QED
    BY <2>5, <2>6 DEF t
<1> QED
  BY <1>2, <1>3, <1>4

(* The same when the first packet is read. *)
LEMMA ChainRest ==
    ASSUME NEW P, NEW q \in Seq(P), q # <<>>, NEW keys, Chained(q, keys)
    PROVE  /\ q[1].keys = keys
           /\ Chained(Tail(q), Following(q[1]))
           /\ KeysBehind(Tail(q), Following(q[1])) = KeysBehind(q, keys)
<1> DEFINE t == Tail(q)
<1>1. /\ Len(q) \in Nat \ {0}
      /\ t \in Seq(P)
      /\ Len(t) = Len(q) - 1
      /\ \A i \in 1..Len(q) - 1 : t[i] = q[i + 1]
  BY Rest
<1>2. q[1].keys = keys
  BY DEF Chained
<1> HIDE DEF t
<1>3. t = <<>> <=> Len(q) = 1
  BY <1>1
<1>4. t # <<>> => t[1].keys = Following(q[1])
  BY <1>1, <1>3 DEF Chained
<1>5. ASSUME NEW i \in 2..Len(t)
      PROVE  t[i].keys = Following(t[i-1])
  <2>1. /\ t[i] = q[i + 1] /\ t[i - 1] = q[i]
        /\ i + 1 \in 2..Len(q)
    BY <1>1
  <2>2. q[i + 1].keys = Following(q[(i + 1) - 1])
    BY <2>1 DEF Chained
  <2> QED
    BY <2>1, <2>2
<1>6. KeysBehind(t, Following(q[1])) = KeysBehind(q, keys)
  <2>1. CASE t = <<>>
    BY <1>1, <1>3, <2>1 DEF KeysBehind
  <2>2. CASE t # <<>>
    <3>1. t[Len(t)] = q[Len(q)]
      BY <1>1, <1>3, <2>2
    <3> QED
      BY <2>2, <3>1 DEF KeysBehind
  <2> QED
    BY <2>1, <2>2
<1> QED
  BY <1>2, <1>4, <1>5, <1>6 DEF Chained, t

(* Behind more packets it is an exchange as before, as long as they are    *)
(* of other types.                                                         *)
LEMMA ExchangePrefix ==
    ASSUME NEW P, NEW q \in Seq(P), NEW s \in Seq(P), NEW started,
           NEW n \in 1..Len(q) + 1
    PROVE  Exchanging(q \o s, started, n) <=> Exchanging(q, started, n)
<1> DEFINE t == q \o s
           Starts(r, i) == IF i = 0 THEN started ELSE r[i].type = "KEXINIT"
           Lasts(r, i) == \A k \in i + 1 .. n - 1 : r[k].type # "NEWKEYS"
<1>1. \A i \in 1 .. n - 1 : t[i] = q[i]
  BY Joined
<1> HIDE DEF t
<1>2. \A i \in 0 .. n - 1 : Starts(t, i) <=> Starts(q, i)
  BY <1>1
<1>3. \A i \in 0 .. n - 1 : Lasts(t, i) <=> Lasts(q, i)
  BY <1>1
<1> HIDE DEF Starts, Lasts
<1>4. /\ Exchanging(t, started, n) <=>
            \E i \in 0 .. n - 1 : Starts(t, i) /\ Lasts(t, i)
      /\ Exchanging(q, started, n) <=>
            \E i \in 0 .. n - 1 : Starts(q, i) /\ Lasts(q, i)
  BY DEF Exchanging, Starts, Lasts
<1> QED
  BY <1>2, <1>3, <1>4 DEF t

(* An exchange is over behind packets that end it, or that do not start it *)
(* when none was under way.                                                *)
LEMMA ExchangeOver ==
    ASSUME NEW P, NEW q \in Seq(P), NEW s \in Seq(P), NEW started,
           s # <<>>,
           \A i \in 1..Len(s) : s[i].type # "KEXINIT",
           \/ ~ExchangeBehind(q, started)
           \/ \E i \in 1..Len(s) : s[i].type = "NEWKEYS"
    PROVE  ~ExchangeBehind(q \o s, started)
<1> DEFINE t == q \o s
<1>1. /\ Len(q) \in Nat
      /\ Len(s) \in Nat
      /\ Len(t) = Len(q) + Len(s)
      /\ \A i \in 1..Len(q) : t[i] = q[i]
      /\ \A i \in 1..Len(s) : t[Len(q) + i] = s[i]
      /\ \A i \in 1..Len(q) + Len(s) :
            i \in 1..Len(q) \/ i - Len(q) \in 1..Len(s)
  BY Joined
<1> HIDE DEF t
<1> SUFFICES ASSUME ExchangeBehind(t, started)
             PROVE  FALSE
  BY DEF t
<1>2. PICK i \in 0..Len(t) :
          /\ IF i = 0 THEN started ELSE t[i].type = "KEXINIT"
          /\ \A k \in i + 1 .. Len(t) : t[k].type # "NEWKEYS"
  BY <1>1 DEF ExchangeBehind, Exchanging
<1>3. i \in 0..Len(q)
  <2> SUFFICES ASSUME i \notin 0..Len(q)
               PROVE  FALSE
    OBVIOUS
  <2> DEFINE k == i - Len(q)
  <2>1. k \in 1..Len(s) /\ i = Len(q) + k /\ i # 0
    BY <1>1
  <2> HIDE DEF k
  <2>2. t[i] = s[k]
    BY <1>1, <2>1
  <2> QED
    BY <1>2, <2>1, <2>2
<1>4. ExchangeBehind(q, started)
  <2>1. IF i = 0 THEN started ELSE q[i].type = "KEXINIT"
    BY <1>1, <1>2, <1>3
  <2>2. \A k \in i + 1 .. Len(q) : q[k].type # "NEWKEYS"
    BY <1>1, <1>2, <1>3
  <2> QED
    BY <1>1, <1>3, <2>1, <2>2 DEF ExchangeBehind, Exchanging
<1>5. ASSUME NEW j \in 1..Len(s)
      PROVE  s[j].type # "NEWKEYS"
  <2>1. Len(q) + j \in i + 1 .. Len(t)
    BY <1>1, <1>3
  <2> QED
    BY <1>1, <1>2, <2>1
<1> QED
  BY <1>4, <1>5

(* When the first packet is read, the server knows of the exchange that it *)
(* has started or ended.                                                   *)
LEMMA ExchangeRest ==
    ASSUME NEW P, NEW q \in Seq(P), q # <<>>, NEW started, NEW known,
           NEW n \in 1..Len(q), known \in BOOLEAN, started \in BOOLEAN,
           q[1].type = "KEXINIT" => known,
           q[1].type = "NEWKEYS" => ~known,
           q[1].type \notin {"KEXINIT", "NEWKEYS"} => known = started
    PROVE  Exchanging(Tail(q), known, n) => Exchanging(q, started, n + 1)
<1> DEFINE t == Tail(q)
<1>1. /\ Len(q) \in Nat \ {0}
      /\ Len(t) = Len(q) - 1
      /\ \A i \in 1..Len(q) - 1 : t[i] = q[i + 1]
  BY Rest
<1> HIDE DEF t
<1> SUFFICES ASSUME Exchanging(t, known, n)
             PROVE  Exchanging(q, started, n + 1)
  BY DEF t
<1>2. PICK i \in 0..n - 1 :
          /\ IF i = 0 THEN known ELSE t[i].type = "KEXINIT"
          /\ \A k \in i + 1 .. n - 1 : t[k].type # "NEWKEYS"
  BY DEF Exchanging
<1>3. \A k \in i + 2 .. n : q[k].type # "NEWKEYS"
  <2> SUFFICES ASSUME NEW k \in i + 2 .. n
               PROVE  q[k].type # "NEWKEYS"
    OBVIOUS
  <2>1. k - 1 \in i + 1 .. n - 1 /\ k - 1 \in 1 .. Len(q) - 1
    BY <1>1
  <2>2. t[k - 1] = q[(k - 1) + 1]
    BY <1>1, <2>1
  <2> QED
    BY <1>2, <2>1, <2>2
<1>4. CASE i # 0
  <2>1. i \in 1..Len(q) - 1
    BY <1>1, <1>4
  <2>2. i + 1 \in 0..n /\ q[i + 1].type = "KEXINIT"
    BY <1>1, <1>2, <1>4, <2>1
  <2>3. \A k \in (i + 1) + 1 .. n : q[k].type # "NEWKEYS"
    BY <1>3
  <2> QED
    BY <1>4, <2>2, <2>3 DEF Exchanging
<1>5. CASE i = 0 /\ q[1].type = "KEXINIT"
  <2>1. 1 \in 0..n /\ \A k \in 1 + 1 .. n : q[k].type # "NEWKEYS"
    BY <1>3, <1>5
  <2> QED
    BY <1>5, <2>1 DEF Exchanging
<1>6. CASE i = 0 /\ q[1].type # "KEXINIT"
  <2>1. known /\ q[1].type # "NEWKEYS" /\ started
    BY <1>2, <1>6
  <2>2. \A k \in 1 .. n : q[k].type # "NEWKEYS"
    BY <1>3, <1>6, <2>1
  <2> QED
    BY <2>1, <2>2 DEF Exchanging
<1> QED
  BY <1>4, <1>5, <1>6
-----------------------------------------------------------------------------
(* The places of some types in r are those in q, d places further on, and  *)
(* the other way round.                                                    *)
Fewer(q, r, d, types) ==
    \A i \in At(r, types) : i + d \in At(q, types) /\ r[i] = q[i + d]

Kept(q, r, d, types) ==
    \A i \in At(q, types) : i - d \in At(r, types)

(* Places are numbers up to the length. *)
LEMMA Places ==
    ASSUME NEW P, NEW q \in Seq(P), NEW types
    PROVE  /\ Len(q) \in Nat
           /\ \A i \in At(q, types) :
                 /\ i \in Int
                 /\ 1 <= i
                 /\ i <= Len(q)
                 /\ q[i].type \in types
                 /\ ~Guessed(q[i])
  BY DEF At

(* What is at the places when the first packet is read. *)
LEMMA AtRest ==
    ASSUME NEW P, NEW q \in Seq(P), q # <<>>, NEW types
    PROVE  /\ \A i \in At(Tail(q), types) :
                 i + 1 \in At(q, types) /\ Tail(q)[i] = q[i + 1]
           /\ \A i \in At(q, types) : i # 1 => i - 1 \in At(Tail(q), types)
           /\ 1 \in At(q, types) <=> q[1].type \in types /\ ~Guessed(q[1])
<1> DEFINE t == Tail(q)
<1>1. /\ t \in Seq(P)
      /\ Len(q) \in Nat \ {0}
      /\ Len(t) = Len(q) - 1
      /\ \A i \in 1..Len(q) - 1 : t[i] = q[i + 1]
  BY Rest
<1> HIDE DEF t
<1>2. ASSUME NEW i \in At(t, types)
      PROVE  i + 1 \in At(q, types) /\ t[i] = q[i + 1]
  <2>1. i \in 1..Len(q) - 1 /\ t[i].type \in types /\ ~Guessed(t[i])
    BY <1>1 DEF At
  <2>2. t[i] = q[i + 1] /\ i + 1 \in 1..Len(q)
    BY <1>1, <2>1
  <2> QED
    BY <2>1, <2>2 DEF At
<1>3. ASSUME NEW i \in At(q, types), i # 1
      PROVE  i - 1 \in At(t, types)
  <2>0. i \in 2..Len(q) /\ q[i].type \in types /\ ~Guessed(q[i])
    BY <1>1, <1>3 DEF At
  <2>1. i - 1 \in 1..Len(q) - 1 /\ q[i].type \in types /\ ~Guessed(q[i])
    BY <1>1, <2>0
  <2>2. t[i - 1] = q[(i - 1) + 1] /\ (i - 1) + 1 = i
    BY <1>1, <2>0, <2>1
  <2> QED
    BY <1>1, <2>1, <2>2 DEF At
<1>4. 1 \in At(q, types) <=> q[1].type \in types /\ ~Guessed(q[1])
  BY <1>1 DEF At
<1> QED
  BY <1>2, <1>3, <1>4 DEF t

(* The same when packets are added. *)
LEMMA AtJoined ==
    ASSUME NEW P, NEW q \in Seq(P), NEW s \in Seq(P), NEW types
    PROVE  /\ \A i \in At(q, types) :
                 i \in At(q \o s, types) /\ (q \o s)[i] = q[i]
           /\ \A i \in At(s, types) :
                 /\ Len(q) + i \in At(q \o s, types)
                 /\ (q \o s)[Len(q) + i] = s[i]
           /\ \A i \in At(q \o s, types) :
                 i \in At(q, types) \/ i - Len(q) \in At(s, types)
<1> DEFINE t == q \o s
<1>1. /\ t \in Seq(P)
      /\ Len(q) \in Nat
      /\ Len(s) \in Nat
      /\ Len(t) = Len(q) + Len(s)
      /\ \A i \in 1..Len(q) : t[i] = q[i]
      /\ \A i \in 1..Len(s) : t[Len(q) + i] = s[i]
      /\ \A i \in 1..Len(q) + Len(s) :
            i \in 1..Len(q) \/ i - Len(q) \in 1..Len(s)
  BY Joined
<1> HIDE DEF t
<1>2. ASSUME NEW i \in At(q, types)
      PROVE  i \in At(t, types) /\ t[i] = q[i]
  BY <1>1 DEF At
<1>3. ASSUME NEW i \in At(s, types)
      PROVE  Len(q) + i \in At(t, types) /\ t[Len(q) + i] = s[i]
  BY <1>1 DEF At
<1>4. ASSUME NEW i \in At(t, types), i \notin At(q, types)
      PROVE  i - Len(q) \in At(s, types)
  <2>1. i \in 1..Len(q) + Len(s) /\ t[i].type \in types /\ ~Guessed(t[i])
    BY <1>1 DEF At
  <2>2. i \notin 1..Len(q)
    BY <1>1, <1>4, <2>1 DEF At
  <2> DEFINE k == i - Len(q)
  <2>3. k \in 1..Len(s) /\ i = Len(q) + k
    BY <1>1, <2>1, <2>2
  <2> HIDE DEF k
  <2>4. t[i] = s[k]
    BY <1>1, <2>3
  <2>5. k \in At(s, types)
    BY <1>1, <2>1, <2>3, <2>4 DEF At
  <2> QED
    BY <2>5 DEF k
<1> QED
  BY <1>2, <1>3, <1>4 DEF t

(* When a packet is read, there are no more of any type, and as many of    *)
(* other types.                                                            *)
LEMMA FewerRest ==
    ASSUME NEW P, NEW q \in Seq(P), q # <<>>, NEW types
    PROVE  Fewer(q, Tail(q), 1, types)
  BY AtRest DEF Fewer

LEMMA KeptRest ==
    ASSUME NEW P, NEW q \in Seq(P), q # <<>>, NEW types,
           q[1].type \notin types \/ Guessed(q[1])
    PROVE  Kept(q, Tail(q), 1, types)
  BY AtRest DEF Kept

(* When packets are added, there are as many as before, and no more of     *)
(* other types.                                                            *)
LEMMA KeptJoined ==
    ASSUME NEW P, NEW q \in Seq(P), NEW s \in Seq(P), NEW types
    PROVE  Kept(q, q \o s, 0, types)
<1>1. \A i \in At(q, types) : i \in At(q \o s, types) /\ i - 0 = i
  BY AtJoined, Places
<1> QED
  BY <1>1 DEF Kept

LEMMA FewerJoined ==
    ASSUME NEW P, NEW q \in Seq(P), NEW s \in Seq(P), NEW types,
           At(s, types) = {}
    PROVE  Fewer(q, q \o s, 0, types)
<1>0. /\ \A i \in At(q, types) :
            i \in At(q \o s, types) /\ (q \o s)[i] = q[i]
      /\ \A i \in At(s, types) :
            /\ Len(q) + i \in At(q \o s, types)
            /\ (q \o s)[Len(q) + i] = s[i]
      /\ \A i \in At(q \o s, types) :
            i \in At(q, types) \/ i - Len(q) \in At(s, types)
  BY AtJoined
<1> DEFINE t == q \o s
<1>1. /\ \A i \in At(q, types) : i \in At(t, types) /\ t[i] = q[i]
      /\ \A i \in At(t, types) :
            i \in At(q, types) \/ i - Len(q) \in At(s, types)
  BY <1>0
<1> HIDE DEF t
<1>2. \A i \in At(q, types) : i + 0 = i
  BY Places
<1>3. Fewer(q, t, 0, types)
  BY <1>1, <1>2 DEF Fewer
<1> QED
  BY <1>3 DEF t

(* Nothing happens. *)
LEMMA Still ==
    ASSUME NEW P, NEW q \in Seq(P), NEW types
    PROVE  Fewer(q, q, 0, types) /\ Kept(q, q, 0, types)
  BY Places DEF Fewer, Kept

(* There is no more of them than before. *)
LEMMA OneFewer ==
    ASSUME NEW P, NEW q, NEW r \in Seq(P), NEW d \in {0, 1}, NEW types,
           One(At(q, types)), Fewer(q, r, d, types)
    PROVE  One(At(r, types))
<1> SUFFICES ASSUME NEW i \in At(r, types), NEW j \in At(r, types)
             PROVE  i = j
  BY DEF One
<1>1. i \in Int /\ j \in Int
  BY Places
<1>2. i + d = j + d
  BY DEF One, Fewer
<1> QED
  BY <1>1, <1>2
-----------------------------------------------------------------------------
(* Steps without packets of the key exchange keep the order of those.      *)
LEMMA ExchangeFrame ==
    ASSUME Exchange, SessionTypes, NEW d \in {0, 1}, NEW e \in {0, 1},
           SessionTypes',
           Fewer(toClient, toClient', d, {"KEXINIT"}),
           Fewer(toClient, toClient', d, {"KEXDH_REPLY"}),
           Fewer(toClient, toClient', d, {"NEWKEYS"}),
           Kept(toClient, toClient', d, {"KEXDH_REPLY"}),
           Kept(toClient, toClient', d, {"NEWKEYS"}),
           Kept(toClient, toClient', d, {"AUTH_SUCCESS"}),
           Fewer(toServer, toServer', e, {"KEXDH_INIT"}),
           Fewer(toServer, toServer', e, {"NEWKEYS"}),
           UNCHANGED <<state, keyExchangeState>>,
           server'.exchange = server.exchange
    PROVE  Exchange'
<1>1. /\ \A i \in At(toClient, {"KEXINIT"})' :
            i \in Int /\ i + d \in At(toClient, {"KEXINIT"})
      /\ \A i \in At(toClient, {"KEXDH_REPLY"})' :
            i \in Int /\ i + d \in At(toClient, {"KEXDH_REPLY"})
      /\ \A i \in At(toClient, {"NEWKEYS"})' :
            i \in Int /\ i + d \in At(toClient, {"NEWKEYS"})
      /\ \A i \in At(toServer, {"KEXDH_INIT"})' :
            i \in Int /\ i + e \in At(toServer, {"KEXDH_INIT"})
      /\ \A i \in At(toServer, {"NEWKEYS"})' :
            i \in Int /\ i + e \in At(toServer, {"NEWKEYS"})
  BY Places DEF Fewer, Kept, SessionTypes
<1>2. /\ \A i \in At(toClient, {"KEXDH_REPLY"}) :
            i \in Int /\ i - d \in At(toClient, {"KEXDH_REPLY"})'
      /\ \A i \in At(toClient, {"NEWKEYS"}) :
            i \in Int /\ i - d \in At(toClient, {"NEWKEYS"})'
      /\ \A i \in At(toClient, {"AUTH_SUCCESS"}) :
            i \in Int /\ i - d \in At(toClient, {"AUTH_SUCCESS"})'
  BY Places DEF Fewer, Kept, SessionTypes
<1>3. \A i \in Int : Authenticated(i + d) => Authenticated(i)'
  BY <1>2 DEF Authenticated, Established
<1>4. InitComing'
  BY <1>1, <1>2, <1>3 DEF Exchange, InitComing, One, Fewer
<1>5. ReplyGoing'
  <2>1. \/ At(toServer, {"KEXDH_INIT"})' = {}
        \/ At(toServer, {"KEXDH_INIT"}) # {}
    BY <1>1
  <2> QED
    BY <1>1, <2>1 DEF Exchange, ReplyGoing, One
<1>6. ReplyComing'
  BY <1>1, <1>2 DEF Exchange, ReplyComing, One
<1>7. KeysComing'
  BY <1>1, <1>2 DEF Exchange, KeysComing, One
<1>8. KeysGoing'
  BY <1>1 DEF Exchange, KeysGoing, One
<1>9. ExchangeStates'
  BY <1>2 DEF Exchange, ExchangeStates
<1> QED
  BY <1>4, <1>5, <1>6, <1>7, <1>8, <1>9 DEF Exchange

(* The same for the identification. *)
LEMMA GreetingFrame ==
    ASSUME Greeting, SessionTypes, NEW d \in {0, 1}, SessionTypes',
           Fewer(toClient, toClient', d, {"ID"}),
           UNCHANGED <<state, keyExchangeState>>,
           server'.exchange = server.exchange,
           server'.phase = "start" =>
               server.phase = "start" /\ toClient' = toClient
    PROVE  Greeting'
<1>1. \A i \in At(toClient, {"ID"})' :
          i \in Int /\ i + d \in At(toClient, {"ID"})
  BY Places DEF Fewer, Kept, SessionTypes
<1>2. \/ At(toClient, {"ID"})' = {}
      \/ At(toClient, {"ID"}) # {}
  BY <1>1
<1>3. One(At(toClient, {"ID"}))'
  BY <1>1 DEF Greeting, One
<1> QED
  BY <1>2, <1>3 DEF Greeting

(* Where an established connection is announced, what follows belongs to   *)
(* it, also after other packets.                                           *)
LEMMA AuthenticatedFrame ==
    ASSUME SessionTypes, NEW d \in {0, 1},
           Kept(toClient, toClient', d, {"AUTH_SUCCESS"}),
           Established => Established',
           NEW i \in Int, Authenticated(i + d)
    PROVE  Authenticated(i)'
<1>1. \A j \in At(toClient, {"AUTH_SUCCESS"}) :
          j \in Int /\ j - d \in At(toClient, {"AUTH_SUCCESS"})'
  BY Places DEF Fewer, Kept, SessionTypes
<1> QED
  BY <1>1 DEF Authenticated

(* The same for service and authentication. *)
LEMMA LoginFrame ==
    ASSUME Login, SessionTypes, NEW d \in {0, 1}, NEW e \in {0, 1},
           SessionTypes',
           Fewer(toClient, toClient', d, {"SERVICE_ACCEPT"}),
           Fewer(toClient, toClient', d, AuthReplies),
           Fewer(toClient, toClient', d, {"AUTH_SUCCESS"}),
           Fewer(toClient, toClient', d, {"PASSWD_CHANGEREQ"}),
           Fewer(toServer, toServer', e, {"SERVICE_REQUEST"}),
           Fewer(toServer, toServer', e, {"AUTH_REQUEST"}),
           UNCHANGED state,
           \/ server'.phase = server.phase
           \/ server.phase = "start" /\ server'.phase = "service"
    PROVE  Login'
<1>1. /\ \A i \in At(toClient, {"SERVICE_ACCEPT"})' :
            i \in Int /\ i + d \in At(toClient, {"SERVICE_ACCEPT"})
      /\ \A i \in At(toClient, AuthReplies)' :
            i \in Int /\ i + d \in At(toClient, AuthReplies)
      /\ \A i \in At(toClient, {"AUTH_SUCCESS"})' :
            i \in Int /\ i + d \in At(toClient, {"AUTH_SUCCESS"})
      /\ \A i \in At(toClient, {"PASSWD_CHANGEREQ"})' :
            /\ i + d \in At(toClient, {"PASSWD_CHANGEREQ"})
            /\ toClient'[i] = toClient[i + d]
      /\ \A i \in At(toServer, {"SERVICE_REQUEST"})' :
            i \in Int /\ i + e \in At(toServer, {"SERVICE_REQUEST"})
      /\ \A i \in At(toServer, {"AUTH_REQUEST"})' :
            i \in Int /\ i + e \in At(toServer, {"AUTH_REQUEST"})
  BY Places DEF Fewer, Kept, SessionTypes
<1>2. /\ \/ At(toClient, {"SERVICE_ACCEPT"})' = {}
         \/ At(toClient, {"SERVICE_ACCEPT"}) # {}
      /\ At(toClient, AuthReplies)' = {} \/ At(toClient, AuthReplies) # {}
      /\ \/ At(toServer, {"SERVICE_REQUEST"})' = {}
         \/ At(toServer, {"SERVICE_REQUEST"}) # {}
      /\ \/ At(toServer, {"AUTH_REQUEST"})' = {}
         \/ At(toServer, {"AUTH_REQUEST"}) # {}
  BY <1>1
<1>3. /\ One(At(toServer, {"SERVICE_REQUEST"}))'
      /\ One(At(toClient, {"SERVICE_ACCEPT"}))'
      /\ One(At(toServer, {"AUTH_REQUEST"}))'
  BY <1>1 DEF Login, One
<1>4. /\ \A i \in At(toClient, {"AUTH_SUCCESS"})' :
            \A j \in At(toClient, AuthReplies)' : j <= i
      /\ \A i \in At(toClient, {"PASSWD_CHANGEREQ"})' :
            toClient'[i].arg # "bad"
  BY <1>1 DEF Login
<1> QED
  BY <1>2, <1>3, <1>4 DEF Login

(* The same for the established connection. *)
LEMMA SessionFrame ==
    ASSUME Session, SessionTypes, NEW d \in {0, 1}, SessionTypes',
           Fewer(toClient, toClient', d, {"GLOBAL_REQUEST", "CHANNEL"}),
           Fewer(toClient, toClient', d, {"DISCONNECT"}),
           Kept(toClient, toClient', d, {"AUTH_SUCCESS"}),
           Len(toClient') + d >= Len(toClient),
           Established => Established',
           server'.phase = "established" => server.phase = "established"
    PROVE  Session'
<1>1. /\ \A i \in At(toClient, {"GLOBAL_REQUEST", "CHANNEL"})' :
            /\ i \in Int
            /\ i + d \in At(toClient, {"GLOBAL_REQUEST", "CHANNEL"})
            /\ toClient'[i] = toClient[i + d]
      /\ \A i \in At(toClient, {"DISCONNECT"})' :
            i + d \in At(toClient, {"DISCONNECT"})
      /\ Len(toClient) \in Nat
      /\ Len(toClient') \in Nat
  BY Places DEF Fewer, Kept, SessionTypes
<1>2. \A i \in Int : Authenticated(i + d) => Authenticated(i)'
  BY AuthenticatedFrame
<1>3. \A i, j \in Int : i <= j /\ Authenticated(i) => Authenticated(j)
  BY Places DEF Authenticated, SessionTypes
<1>4. server'.phase = "established" => Authenticated(Len(toClient) + 1)'
  <2> SUFFICES ASSUME server.phase = "established"
               PROVE  Authenticated(Len(toClient) + 1)'
    OBVIOUS
  <2>1. Authenticated((Len(toClient') + 1) + d)
    BY <1>1, <1>3 DEF Session
  <2> QED
    BY <1>1, <1>2, <2>1
<1>5. \A i \in At(toClient, {"GLOBAL_REQUEST", "CHANNEL"})' :
          toClient'[i].arg # "bad" /\ Authenticated(i)'
  BY <1>1, <1>2 DEF Session
<1>6. At(toClient, {"DISCONNECT"})' = {}
  BY <1>1 DEF Session
<1> QED
  BY <1>4, <1>5, <1>6 DEF Session

(* The same for keep-alive packets. *)
LEMMA ProbesFrame ==
    ASSUME Probes, SessionTypes, NEW d \in {0, 1}, NEW e \in {0, 1},
           SessionTypes',
           Fewer(toClient, toClient', d, {"UNIMPLEMENTED"}),
           Fewer(toServer, toServer', e, {"INVALID"}),
           \/ Established /\ Established' /\ UNCHANGED lastInvalid
           \/ ~Established
    PROVE  Probes'
<1>1. /\ \A i \in At(toClient, {"UNIMPLEMENTED"})' :
            /\ i \in Int
            /\ i + d \in At(toClient, {"UNIMPLEMENTED"})
            /\ toClient'[i] = toClient[i + d]
      /\ \A i \in At(toServer, {"INVALID"})' :
            /\ i \in Int
            /\ i + e \in At(toServer, {"INVALID"})
            /\ toServer'[i] = toServer[i + e]
  BY Places DEF Fewer, Kept, SessionTypes
<1>2. CASE ~Established
  <2>1. At(toClient, {"UNIMPLEMENTED"}) = {} /\ At(toServer, {"INVALID"}) = {}
    BY <1>2 DEF Probes
  <2>2. /\ At(toClient, {"UNIMPLEMENTED"})' = {}
        /\ At(toServer, {"INVALID"})' = {}
    BY <1>1, <2>1
  <2> QED
    BY <2>2 DEF Probes, One
<1>3. CASE Established /\ Established' /\ UNCHANGED lastInvalid
  <2>1. One(At(toClient, {"UNIMPLEMENTED"}))' /\ One(At(toServer, {"INVALID"}))'
    BY OneFewer DEF Probes, SessionTypes
  <2>2. \/ At(toClient, {"UNIMPLEMENTED"})' = {}
        \/ At(toClient, {"UNIMPLEMENTED"}) # {}
    BY <1>1
  <2>3. InvalidSeqNr' = InvalidSeqNr
    BY DEF InvalidSeqNr
  <2> QED
    BY <1>1, <1>3, <2>1, <2>2, <2>3 DEF Probes
<1> QED
  BY <1>2, <1>3
-----------------------------------------------------------------------------
(* Packets that all have the same keys, without NEWKEYS. *)
LEMMA ChainPlain ==
    ASSUME NEW P, NEW q \in Seq(P), NEW keys,
           \A i \in 1..Len(q) : q[i].keys = keys /\ q[i].type # "NEWKEYS"
    PROVE  Chained(q, keys) /\ KeysBehind(q, keys) = keys
<1>1. Len(q) \in Nat /\ (q # <<>> => Len(q) # 0)
  OBVIOUS
<1>2. \A i \in 2..Len(q) : i \in 1..Len(q) /\ i - 1 \in 1..Len(q)
  BY <1>1
<1>3. \A i \in 1..Len(q) : Following(q[i]) = keys
  BY DEF Following
<1>4. Chained(q, keys)
  BY <1>1, <1>2, <1>3 DEF Chained
<1>5. q # <<>> => Len(q) \in 1..Len(q)
  BY <1>1
<1>6. KeysBehind(q, keys) = keys
  BY <1>3, <1>5 DEF KeysBehind
<1> QED
  BY <1>4, <1>6

(* Two packets. *)
LEMMA AppendOne ==
    ASSUME NEW a, NEW b
    PROVE  Append(<<a>>, b) = <<a, b>>
<1> PICK S : S = {a, b}
  OBVIOUS
<1> DEFINE s == Append(<<a>>, b)
           t == <<a, b>>
<1> a \in S /\ b \in S
  OBVIOUS
<1>1. /\ s \in Seq(S) /\ Len(s) = 2 /\ s[1] = a /\ s[2] = b
      /\ t \in Seq(S) /\ Len(t) = 2 /\ t[1] = a /\ t[2] = b
  OBVIOUS
<1> HIDE DEF s, t
<1>2. s = t
  BY <1>1, SeqEqual
<1> QED
  BY <1>2 DEF s, t

(* What the client may send: the keys follow each other, a keep-alive      *)
(* packet goes alone, and KEXINIT and NEWKEYS change the exchange.         *)
Quietly == keyExchangeState \in {"NoKeyExchange", "NewKeysSent"}

WellSent ==
    /\ sent' \in Seq(OutgoingPackets)
    /\ Chained(sent', sendKeys)
    /\ Linked' => sendKeys' = KeysBehind(sent', sendKeys)
    /\ \A i \in 1..Len(sent') : sent'[i].type = "INVALID" =>
          Len(sent') = 1 /\ Quietly
    /\ Linked' /\ Quietly' =>
          /\ \A i \in 1..Len(sent') : sent'[i].type # "KEXINIT"
          /\ Quietly \/ \E i \in 1..Len(sent') : sent'[i].type = "NEWKEYS"

(* Most handlers send nothing that would be remarkable. *)
LEMMA PlainSent ==
    ASSUME sent' \in Seq(OutgoingPackets),
           \A i \in 1..Len(sent') :
              /\ sent'[i].keys = sendKeys
              /\ sent'[i].type \notin {"NEWKEYS", "INVALID"},
           Linked' => sendKeys' = sendKeys,
           Linked' /\ Quietly' =>
              /\ Quietly
              /\ \A i \in 1..Len(sent') : sent'[i].type # "KEXINIT"
    PROVE  WellSent
<1>1. Chained(sent', sendKeys) /\ KeysBehind(sent', sendKeys) = sendKeys
  BY ChainPlain
<1> QED
  BY <1>1 DEF WellSent

(* closeConnection() *)
LEMMA CloseSent ==
    ASSUME IInv, IInv', NEW e, NEW s,
           NEW packets \in {<<>>, <<Outgoing("KEXINIT")>>},
           CloseConnection(e, packets, s)
    PROVE  WellSent /\ socket' # "Connected" /\ state' = "SocketUnconnected"
<1>1. socket' # "Connected" /\ state' = "SocketUnconnected"
  BY DEF CloseConnection
<1>2. sent' \in Seq(OutgoingPackets)
  BY DEF IInv, TypeOK
<1>3. \A i \in 1..Len(sent') :
          /\ sent'[i].keys = sendKeys
          /\ sent'[i].type \notin {"NEWKEYS", "INVALID"}
  <2>1. CASE sent' = <<>>
    BY <2>1
  <2>2. CASE packets = <<>> /\ sent' = Append(packets, Outgoing("DISCONNECT"))
    <3>1. sent' = <<Outgoing("DISCONNECT")>>
      BY <2>2
    <3> QED
      BY <3>1 DEF Outgoing
  <2>3. CASE /\ packets = <<Outgoing("KEXINIT")>>
             /\ sent' = Append(packets, Outgoing("DISCONNECT"))
    <3>1. sent' = <<Outgoing("KEXINIT"), Outgoing("DISCONNECT")>>
      BY <2>3, AppendOne
    <3> QED
      BY <3>1 DEF Outgoing
  <2> QED
    BY <2>1, <2>2, <2>3 DEF CloseConnection
<1> QED
  BY <1>1, <1>2, <1>3, PlainSent DEF Linked

LEMMA KeyExchangeInitSent ==
    ASSUME IInv, IInv', NEW p, HandleKeyExchangeInit(p)
    PROVE  WellSent
<1> DEFINE answer == IF keyExchangeState = "NoKeyExchange"
                     THEN <<Outgoing("KEXINIT")>> ELSE <<>>
<1>1. answer \in {<<>>, <<Outgoing("KEXINIT")>>}
  OBVIOUS
<1>2. CASE \/ ServerException
           \/ CloseConnection("SshProtocolError", answer, socket)
  BY <1>1, <1>2, CloseSent DEF ServerException
<1>3. CASE /\ keyExchangeState' = "DhInitSent"
           /\ sent' = Append(answer, Outgoing("KEXDH_INIT"))
           /\ UNCHANGED <<socket, packetVars>>
  <2>1. sent' \in Seq(OutgoingPackets)
    BY DEF IInv, TypeOK
  <2>2. \/ sent' = <<Outgoing("KEXDH_INIT")>>
        \/ sent' = <<Outgoing("KEXINIT"), Outgoing("KEXDH_INIT")>>
    <3>1. CASE keyExchangeState = "NoKeyExchange"
      <4>1. sent' = Append(<<Outgoing("KEXINIT")>>, Outgoing("KEXDH_INIT"))
        BY <1>3, <3>1
      <4> QED
        BY <4>1, AppendOne
    <3>2. CASE keyExchangeState # "NoKeyExchange"
      BY <1>3, <3>2
    <3> QED
      BY <3>1, <3>2
  <2>3. \A i \in 1..Len(sent') :
            /\ sent'[i].keys = sendKeys
            /\ sent'[i].type \notin {"NEWKEYS", "INVALID"}
    BY <2>2 DEF Outgoing
  <2>4. ~Quietly' /\ sendKeys' = sendKeys
    BY <1>3 DEF Quietly, packetVars
  <2> QED
    BY <2>1, <2>3, <2>4, PlainSent
<1> QED
  BY <1>2, <1>3 DEF HandleKeyExchangeInit

LEMMA KeyExchangeReplySent ==
    ASSUME IInv, IInv', NEW p, HandleKeyExchangeReply(p)
    PROVE  WellSent
<1>1. CASE ServerException
  BY <1>1, CloseSent DEF ServerException
<1>2. CASE /\ keyExchangeState' = "NewKeysSent"
           /\ sent' = <<Outgoing("NEWKEYS")>>
           /\ sendKeys' = NextKeys(sendKeys)
  <2>1. sent' \in Seq(OutgoingPackets)
    BY DEF IInv, TypeOK
  <2>2. /\ sent' # <<>>
        /\ Len(sent') = 1
        /\ sent'[1].keys = sendKeys
        /\ sent'[1].type = "NEWKEYS"
    BY <1>2 DEF Outgoing
  <2>3. Chained(sent', sendKeys)
    BY <2>2 DEF Chained
  <2>4. KeysBehind(sent', sendKeys) = sendKeys'
    BY <1>2, <2>2 DEF KeysBehind, Following
  <2>5. 1 \in 1..Len(sent') /\ \A i \in 1..Len(sent') : i = 1
    BY <2>2
  <2> QED
    BY <2>1, <2>2, <2>3, <2>4, <2>5 DEF WellSent
<1> QED
  BY <1>1, <1>2 DEF HandleKeyExchangeReply

(* Handlers that send one packet at most, and do not start an exchange. *)
LEMMA OneAnswer ==
    ASSUME IInv, IInv',
           NEW type \in {"SERVICE_REQUEST", "AUTH_REQUEST", "REQUEST_FAILURE",
                         "UNIMPLEMENTED", "CHANNEL", "ID"},
           sent' \in {<<>>, <<Outgoing(type)>>},
           sendKeys' = sendKeys, Quietly' => Quietly
    PROVE  WellSent
<1>1. sent' \in Seq(OutgoingPackets)
  BY DEF IInv, TypeOK
<1>2. \A i \in 1..Len(sent') :
          /\ sent'[i].keys = sendKeys
          /\ sent'[i].type \notin {"NEWKEYS", "INVALID", "KEXINIT"}
  BY DEF Outgoing
<1> QED
  BY <1>1, <1>2, PlainSent

(* handleCurrentPacket() *)
LEMMA ReceiveSent ==
    ASSUME IInv, IInv', NEW p, Receive(p)
    PROVE  WellSent
<1>1. CASE \/ ServerException
           \/ CloseConnection("SshAuthenticationError", <<>>, socket)
  BY <1>1, CloseSent DEF ServerException
<1>2. CASE \/ HandleKeyExchangeInit(p)
           \/ HandleKeyExchangeReply(p)
  BY <1>2, KeyExchangeInitSent, KeyExchangeReplySent
<1>3. CASE HandleNewKeys
  BY <1>1, <1>3, OneAnswer DEF HandleNewKeys, Quietly
<1>4. CASE HandleServiceAccept
  BY <1>4, OneAnswer DEF HandleServiceAccept, handshakeVars, packetVars, Quietly
<1>5. CASE HandleAuthSuccess
  BY <1>5, OneAnswer DEF HandleAuthSuccess, handshakeVars, packetVars, Quietly
<1>6. CASE HandleUnimplemented(p)
  BY <1>1, <1>6, OneAnswer DEF HandleUnimplemented, handshakeVars, packetVars,
     Quietly
<1>7. CASE HandleChannelMessage(p)
  BY <1>1, <1>7, OneAnswer DEF HandleChannelMessage, handshakeVars, packetVars,
     Quietly
<1>8. CASE \/ Answer(<<>>)
           \/ Answer(<<Outgoing("REQUEST_FAILURE")>>)
           \/ Answer(<<Outgoing("UNIMPLEMENTED")>>)
  BY <1>8, OneAnswer DEF Answer, handshakeVars, packetVars, Quietly
<1>9. CASE ignoreNextPacket
  BY <1>9, OneAnswer DEF Receive, packetVars, Quietly
<1>10. CASE Handle(p)
  BY <1>1, <1>2, <1>3, <1>4, <1>5, <1>6, <1>7, <1>8, <1>10 DEF Handle
<1> QED
  BY <1>1, <1>8, <1>9, <1>10 DEF Receive
-----------------------------------------------------------------------------
(* A socket that is not connected. *)
LEMMA SocketGone ==
    ASSUME socket' \in {"Unconnected", "Connecting"}, Asleep',
           state' = "SocketConnecting" => keyExchangeState' = "NoKeyExchange",
           socket' = "Connecting" => sendKeys' = 0 /\ receiveKeys' = 0,
           toServer' = <<>>, toClient' = <<>>, server' = NewServer
    PROVE  Peers'
<1>1. server' \in Servers /\ server'.receiveKeys = 0
  BY KeyNamesAssumption DEF NewServer, Servers, Keys
<1>2. /\ SessionTypes' <=>
            /\ toServer' \in Seq(OutgoingPackets)
            /\ toClient' \in Seq(Incoming)
            /\ server' \in Servers
      /\ toServer' \in Seq(OutgoingPackets)
      /\ toClient' \in Seq(Incoming)
  BY DEF SessionTypes, OutgoingPackets, Incoming, Servers, SeqNr, Keys,
     InvalidSeqNr, PacketTypes
<1>3. Quiet'
  BY DEF Quiet, Linked
<1>4. KeysInv'
  BY DEF KeysInv, Chained, Linked
<1>5. ProbeInv'
  BY DEF ProbeInv, Linked, KeepAliveKeepsOut, NotDuringExchange
<1> QED
  BY <1>1, <1>2, <1>3, <1>4, <1>5 DEF Peers, GuessInv, Live

(* Keep-alive packets keep out of exchanges also when others are sent. *)
LEMMA KeepsOutJoined ==
    ASSUME ProbeInv, SessionTypes, sent' \in Seq(OutgoingPackets),
           toServer' = toServer \o sent', server' = server,
           \A i \in 1..Len(sent') : sent'[i].type = "INVALID" =>
              Len(sent') = 1 /\ ~ExchangeBehind(toServer, server.peerInit)
    PROVE  KeepAliveKeepsOut'
<1> SUFFICES ASSUME NEW n \in DOMAIN toServer', toServer'[n].type = "INVALID"
             PROVE  ~DuringExchange(n)'
  BY DEF KeepAliveKeepsOut, NotDuringExchange
<1>1. /\ Len(toServer) \in Nat
      /\ DOMAIN toServer = 1..Len(toServer)
      /\ Len(sent') \in Nat
      /\ n \in 1..Len(toServer) + Len(sent')
      /\ \A i \in 1..Len(toServer) : toServer'[i] = toServer[i]
      /\ \A i \in 1..Len(sent') : toServer'[Len(toServer) + i] = sent'[i]
      /\ n \in 1..Len(toServer) \/ n - Len(toServer) \in 1..Len(sent')
  BY Joined DEF SessionTypes
<1>2. \A m \in 1..Len(toServer) + 1 :
          Exchanging(toServer', server.peerInit, m)
              <=> Exchanging(toServer, server.peerInit, m)
  BY ExchangePrefix DEF SessionTypes
<1>3. DuringExchange(n)' <=> Exchanging(toServer', server.peerInit, n)
  BY DEF DuringExchange, Exchanging
<1>4. CASE n \in 1..Len(toServer)
  <2>1. ~DuringExchange(n)
    BY <1>1, <1>4 DEF ProbeInv, KeepAliveKeepsOut, NotDuringExchange
  <2>2. ~Exchanging(toServer, server.peerInit, n)
    BY <2>1 DEF DuringExchange, Exchanging
  <2> QED
    BY <1>1, <1>2, <1>3, <1>4, <2>2
<1>5. CASE n - Len(toServer) \in 1..Len(sent')
  <2> DEFINE k == n - Len(toServer)
  <2>1. k \in 1..Len(sent') /\ n = Len(toServer) + k
    BY <1>1, <1>5
  <2> HIDE DEF k
  <2>2. sent'[k].type = "INVALID"
    BY <1>1, <2>1
  <2>3. Len(sent') = 1 /\ ~ExchangeBehind(toServer, server.peerInit)
    BY <2>1, <2>2
  <2>4. n = Len(toServer) + 1
    BY <1>1, <2>1, <2>3
  <2> QED
    BY <1>1, <1>2, <1>3, <2>3, <2>4 DEF ExchangeBehind
<1> QED
  BY <1>1, <1>4, <1>5

(* The keys and exchanges of what is on its way to the server, after the   *)
(* client has sent something.                                              *)
LEMMA ToServerGood ==
    ASSUME Peers, WellSent, Linked,
           toServer' = toServer \o sent', server' = server
    PROVE  /\ toServer' \in Seq(OutgoingPackets)
           /\ Chained(toServer', server'.receiveKeys)
           /\ Linked' => sendKeys' = KeysBehind(toServer', server'.receiveKeys)
           /\ ProbeInv'
<1>1. sent' \in Seq(OutgoingPackets) /\ toServer \in Seq(OutgoingPackets)
  BY DEF WellSent, Peers, SessionTypes
<1>2. /\ Chained(toServer, server.receiveKeys)
      /\ sendKeys = KeysBehind(toServer, server.receiveKeys)
      /\ Chained(sent', sendKeys)
  BY DEF Peers, KeysInv, WellSent
<1>3. /\ Chained(toServer', server'.receiveKeys)
      /\ KeysBehind(toServer', server'.receiveKeys)
            = KeysBehind(sent', sendKeys)
  BY <1>1, <1>2, ChainJoined
<1>4. Quietly => ~ExchangeBehind(toServer, server.peerInit)
  BY DEF Peers, ProbeInv, Quietly
<1>5. KeepAliveKeepsOut'
  BY <1>1, <1>4, KeepsOutJoined DEF WellSent, Peers
<1>6. Linked' /\ Quietly' => ~ExchangeBehind(toServer', server'.peerInit)
  <2> SUFFICES ASSUME Linked', Quietly'
               PROVE  ~ExchangeBehind(toServer', server'.peerInit)
    OBVIOUS
  <2>1. CASE sent' = <<>>
    <3>1. toServer' = toServer
      BY <1>1, <2>1
    <3>2. ~\E i \in 1..Len(sent') : sent'[i].type = "NEWKEYS"
      BY <2>1
    <3> QED
      BY <1>4, <3>1, <3>2 DEF WellSent
  <2>2. CASE sent' # <<>>
    BY <1>1, <1>4, <2>2, ExchangeOver DEF WellSent
  <2> QED
    BY <2>1, <2>2
<1> QED
  BY <1>1, <1>3, <1>5, <1>6 DEF WellSent, ProbeInv, Quietly
-----------------------------------------------------------------------------
(* A socket that is being closed delivers what was sent. *)
LEMMA SocketCloses ==
    ASSUME Peers, socket \in {"Connected", "Closing"}, socket' = "Closing",
           Asleep',
           state' = "SocketConnecting" => keyExchangeState' = "NoKeyExchange",
           \/ toServer' = toServer
           \/ Linked /\ WellSent /\ toServer' = toServer \o sent',
           server' = server,
           \/ toClient' = toClient
           \/ toClient # <<>> /\ toClient' = Tail(toClient)
    PROVE  Peers'
<1>1. toClient' \in Seq(Incoming)
  <2>1. toClient \in Seq(Incoming)
    BY DEF Peers, SessionTypes
  <2>2. CASE toClient # <<>> /\ toClient' = Tail(toClient)
    BY <2>1, <2>2, Rest
  <2> QED
    BY <2>1, <2>2
<1>2. /\ toServer' \in Seq(OutgoingPackets)
      /\ Chained(toServer', server'.receiveKeys)
      /\ KeepAliveKeepsOut'
  <2>1. CASE toServer' = toServer
    <3>1. KeepAliveKeepsOut' <=> KeepAliveKeepsOut
      BY <2>1 DEF KeepAliveKeepsOut, NotDuringExchange, DuringExchange
    <3> QED
      BY <2>1, <3>1 DEF Peers, SessionTypes, KeysInv, ProbeInv
  <2>2. CASE Linked /\ WellSent /\ toServer' = toServer \o sent'
    BY <2>2, ToServerGood DEF ProbeInv
  <2> QED
    BY <2>1, <2>2
<1>3. SessionTypes'
  BY <1>1, <1>2 DEF Peers, SessionTypes, OutgoingPackets, Incoming, Servers,
     SeqNr, Keys, InvalidSeqNr, PacketTypes
<1> QED
  BY <1>2, <1>3 DEF Peers, Quiet, KeysInv, GuessInv, ProbeInv, Live, Linked

(* A socket that is connected, but that the client does not use. *)
LEMMA SocketUnused ==
    ASSUME socket' = "Connected", Asleep',
           state' = "SocketConnecting" => keyExchangeState' = "NoKeyExchange",
           toServer' = <<>>, toClient' \in Seq(Incoming), server' \in Servers,
           sendKeys' = 0, server'.receiveKeys = 0, ~server'.peerInit,
           receiveKeys' = 0, server'.sendKeys = 0,
           \A i \in DOMAIN toClient' : toClient'[i].keys = 0
    PROVE  Peers'
<1>1. SessionTypes'
  BY DEF SessionTypes, OutgoingPackets, Incoming, Servers, SeqNr, Keys,
     InvalidSeqNr, PacketTypes
<1>2. Quiet'
  BY DEF Quiet, Linked
<1>3. KeysInv'
  BY DEF KeysInv, Chained, Linked, KeysBehind
<1>4. ProbeInv'
  BY DEF ProbeInv, KeepAliveKeepsOut, NotDuringExchange, ExchangeBehind,
     Exchanging
<1> QED
  BY <1>1, <1>2, <1>3, <1>4 DEF Peers, GuessInv, Live

(* The client goes on with its session: it sends something, *)
LEMMA ClientGoesOn ==
    ASSUME Peers, Linked, ~Asleep, Linked', ~Asleep', WellSent,
           toServer' = toServer \o sent', server' = server,
           toClient' = toClient,
           UNCHANGED <<receiveKeys, garbled, ignoreNextPacket>>,
           Live' => Understood'
    PROVE  Peers'
<1>1. /\ toServer' \in Seq(OutgoingPackets)
      /\ Chained(toServer', server'.receiveKeys)
      /\ sendKeys' = KeysBehind(toServer', server'.receiveKeys)
      /\ ProbeInv'
  BY ToServerGood
<1>2. SessionTypes'
  BY <1>1 DEF Peers, SessionTypes, OutgoingPackets, Incoming, Servers, SeqNr,
     Keys, InvalidSeqNr, PacketTypes
<1>3. Quiet'
  BY DEF Quiet, Asleep, Linked
<1>4. KeysInv'
  BY <1>1 DEF Peers, KeysInv
<1>5. GuessInv'
  BY DEF Peers, GuessInv
<1> QED
  BY <1>1, <1>2, <1>3, <1>4, <1>5 DEF Peers

(* or reads a packet and answers it. *)
LEMMA ClientReadsOn ==
    ASSUME Peers, Linked, ~Asleep, ~garbled, Linked', ~Asleep', WellSent,
           toServer' = toServer \o sent', server' = server,
           toClient # <<>>, toClient' = Tail(toClient),
           \/ garbled'
           \/ /\ receiveKeys' = Following(toClient[1])
              /\ ignoreNextPacket' <=> Guess(toClient[1]),
           Live' => Understood'
    PROVE  Peers'
<1>1. /\ toServer' \in Seq(OutgoingPackets)
      /\ Chained(toServer', server'.receiveKeys)
      /\ sendKeys' = KeysBehind(toServer', server'.receiveKeys)
      /\ ProbeInv'
  BY ToServerGood
<1>2. /\ toClient \in Seq(Incoming)
      /\ toClient' \in Seq(Incoming)
      /\ Len(toClient) \in Nat \ {0}
      /\ Len(toClient') = Len(toClient) - 1
      /\ \A i \in 1..Len(toClient) - 1 : toClient'[i] = toClient[i + 1]
  BY Rest DEF Peers, SessionTypes
<1>3. SessionTypes'
  BY <1>1, <1>2 DEF Peers, SessionTypes, OutgoingPackets, Incoming, Servers,
     SeqNr, Keys, InvalidSeqNr, PacketTypes
<1>4. Quiet'
  BY DEF Quiet, Asleep, Linked
<1>5. KeysInv'
  <2>1. /\ Chained(toClient, receiveKeys)
        /\ server.sendKeys = KeysBehind(toClient, receiveKeys)
    BY DEF Peers, KeysInv
  <2>2. /\ Chained(toClient', Following(toClient[1]))
        /\ KeysBehind(toClient', Following(toClient[1])) = server.sendKeys
    BY <1>2, <2>1, ChainRest
  <2> QED
    BY <1>1, <2>2 DEF KeysInv
<1>6. GuessInv'
  <2> SUFFICES ASSUME ~garbled', ignoreNextPacket' <=> Guess(toClient[1])
               PROVE  GuessInv'
    BY DEF GuessInv
  <2>1. GuessInv
    BY DEF Peers
  <2>2. DOMAIN toClient = 1..Len(toClient) /\ DOMAIN toClient' = 1..Len(toClient')
    BY <1>2
  <2>3. ignoreNextPacket' => toClient' # <<>> /\ Guessed(toClient'[1])
    <3> SUFFICES ASSUME Guess(toClient[1])
                 PROVE  toClient' # <<>> /\ Guessed(toClient'[1])
      OBVIOUS
    <3>1. 1 < Len(toClient) /\ Guessed(toClient[1 + 1])
      BY <1>2, <2>1, <2>2 DEF GuessInv
    <3>2. toClient'[1] = toClient[1 + 1] /\ Len(toClient') # 0
      BY <1>2, <3>1
    <3> QED
      BY <1>2, <3>1, <3>2
  <2>4. ASSUME NEW i \in DOMAIN toClient', Guess(toClient'[i])
        PROVE  i < Len(toClient') /\ Guessed(toClient'[i + 1])
    <3>1. /\ i + 1 \in DOMAIN toClient
          /\ i \in 1..Len(toClient) - 1
          /\ toClient'[i] = toClient[i + 1]
      BY <1>2, <2>2
    <3>2. i + 1 < Len(toClient) /\ Guessed(toClient[(i + 1) + 1])
      BY <2>1, <2>4, <3>1 DEF GuessInv
    <3>3. i + 1 \in 1..Len(toClient) - 1
      BY <1>2, <3>1, <3>2
    <3>4. toClient'[i + 1] = toClient[(i + 1) + 1]
      BY <1>2, <3>3
    <3> QED
      BY <1>2, <3>1, <3>2, <3>4
  <2>5. ASSUME NEW i \in DOMAIN toClient', Guessed(toClient'[i])
        PROVE  \/ i = 1 /\ ignoreNextPacket'
               \/ i > 1 /\ Guess(toClient'[i - 1])
    <3>1. /\ i + 1 \in DOMAIN toClient
          /\ i \in 1..Len(toClient) - 1
          /\ toClient'[i] = toClient[i + 1]
      BY <1>2, <2>2
    <3>2. Guess(toClient[(i + 1) - 1]) /\ (i + 1) - 1 = i
      BY <2>1, <2>5, <3>1 DEF GuessInv
    <3>3. CASE i = 1
      BY <3>2, <3>3
    <3>4. CASE i # 1
      <4>1. i - 1 \in 1..Len(toClient) - 1 /\ (i - 1) + 1 = i
        BY <1>2, <3>1, <3>4
      <4>2. toClient'[i - 1] = toClient[(i - 1) + 1]
        BY <1>2, <4>1
      <4> QED
        BY <3>1, <3>2, <3>4, <4>1, <4>2
    <3> QED
      BY <3>3, <3>4
  <2> QED
    BY <2>3, <2>4, <2>5 DEF GuessInv
<1> QED
  BY <1>1, <1>3, <1>4, <1>5, <1>6 DEF Peers
-----------------------------------------------------------------------------
LEMMA AtNone ==
    ASSUME NEW P, NEW s \in Seq(P), NEW types,
           \A i \in 1..Len(s) : s[i].type \notin types
    PROVE  At(s, types) = {}
  BY DEF At

LEMMA NoneFewer ==
    ASSUME NEW q, NEW r, NEW d, NEW types, At(q, types) = {},
           Fewer(q, r, d, types)
    PROVE  At(r, types) = {}
  BY DEF Fewer

(* The only packet of a type is read. *)
LEMMA NoneRest ==
    ASSUME NEW P, NEW q \in Seq(P), q # <<>>, NEW types,
           One(At(q, types)), q[1].type \in types, ~Guessed(q[1])
    PROVE  At(Tail(q), types) = {}
<1>1. 1 \in At(q, types)
  BY AtRest
<1> SUFFICES ASSUME NEW i \in At(Tail(q), types)
             PROVE  FALSE
  OBVIOUS
<1>2. i + 1 \in At(q, types)
  BY AtRest
<1>3. i + 1 = 1
  BY <1>1, <1>2 DEF One
<1>4. Tail(q) \in Seq(P)
  BY Rest
<1>5. i \in Int /\ 1 <= i
  BY <1>4, Places
<1> QED
  BY <1>3, <1>5

(* The first packet of a type is sent. *)
LEMMA OneJoined ==
    ASSUME NEW P, NEW q \in Seq(P), NEW s \in Seq(P), NEW types,
           At(q, types) = {}, One(At(s, types))
    PROVE  One(At(q \o s, types))
<1>1. \A i \in At(q \o s, types) : i - Len(q) \in At(s, types)
  BY AtJoined
<1>2. q \o s \in Seq(P) /\ Len(q) \in Nat
  OBVIOUS
<1>3. \A i \in At(q \o s, types) : i \in Int
  BY <1>2, Places
<1> SUFFICES ASSUME NEW i \in At(q \o s, types), NEW j \in At(q \o s, types)
             PROVE  i = j
  BY DEF One
<1>4. i - Len(q) = j - Len(q)
  BY <1>1 DEF One
<1> QED
  BY <1>2, <1>3, <1>4

(* Types that the server waits for, and so have an order. *)
ServerWaitsFor == {"KEXDH_INIT", "NEWKEYS", "SERVICE_REQUEST", "AUTH_REQUEST",
                   "INVALID"}

(* Nothing is sent that the server waits for. *)
LEMMA FewerSent ==
    ASSUME SessionTypes, sent' \in Seq(OutgoingPackets),
           toServer' = toServer \o sent', NEW types,
           \A i \in 1..Len(sent') : sent'[i].type \notin types
    PROVE  Fewer(toServer, toServer', 0, types)
<1>1. At(sent', types) = {}
  BY AtNone
<1> QED
  BY <1>1, FewerJoined DEF SessionTypes

(* A packet that is not part of an exchange and makes no difference to the *)
(* state of the client.                                                    *)
LEMMA ReadsOther ==
    ASSUME Understood, SessionTypes, SessionTypes',
           toClient # <<>>, toClient' = Tail(toClient),
           \/ toClient[1].type \notin {"KEXDH_REPLY", "NEWKEYS", "AUTH_SUCCESS"}
           \/ Guessed(toClient[1]),
           UNCHANGED <<state, keyExchangeState, lastInvalid>>,
           server' = server, sent' \in Seq(OutgoingPackets),
           toServer' = toServer \o sent',
           \A i \in 1..Len(sent') : sent'[i].type \notin ServerWaitsFor
    PROVE  Understood'
<1>1. toClient \in Seq(Incoming) /\ toClient' \in Seq(Incoming)
  BY DEF SessionTypes
<1>2. \A T : Fewer(toClient, toClient', 1, T)
  BY <1>1, FewerRest
<1>3. /\ Kept(toClient, toClient', 1, {"KEXDH_REPLY"})
      /\ Kept(toClient, toClient', 1, {"NEWKEYS"})
      /\ Kept(toClient, toClient', 1, {"AUTH_SUCCESS"})
  BY <1>1, KeptRest
<1>4. /\ Fewer(toServer, toServer', 0, {"KEXDH_INIT"})
      /\ Fewer(toServer, toServer', 0, {"NEWKEYS"})
      /\ Fewer(toServer, toServer', 0, {"SERVICE_REQUEST"})
      /\ Fewer(toServer, toServer', 0, {"AUTH_REQUEST"})
      /\ Fewer(toServer, toServer', 0, {"INVALID"})
  BY FewerSent DEF ServerWaitsFor
<1>5. Exchange'
  <2>1. /\ Fewer(toClient, toClient', 1, {"KEXINIT"})
        /\ Fewer(toClient, toClient', 1, {"KEXDH_REPLY"})
        /\ Fewer(toClient, toClient', 1, {"NEWKEYS"})
    BY <1>2
  <2> QED
    BY <1>3, <1>4, <2>1, ExchangeFrame DEF Understood
<1>6. Greeting'
  <2>1. Fewer(toClient, toClient', 1, {"ID"})
    BY <1>2
  <2> QED
    BY <2>1, GreetingFrame DEF Understood, Greeting
<1>7. Login'
  <2>1. /\ Fewer(toClient, toClient', 1, {"SERVICE_ACCEPT"})
        /\ Fewer(toClient, toClient', 1, AuthReplies)
        /\ Fewer(toClient, toClient', 1, {"AUTH_SUCCESS"})
        /\ Fewer(toClient, toClient', 1, {"PASSWD_CHANGEREQ"})
    BY <1>2
  <2> QED
    BY <1>4, <2>1, LoginFrame DEF Understood
<1>8. Session'
  <2>1. /\ Fewer(toClient, toClient', 1, {"GLOBAL_REQUEST", "CHANNEL"})
        /\ Fewer(toClient, toClient', 1, {"DISCONNECT"})
    BY <1>2
  <2>2. Len(toClient') + 1 >= Len(toClient)
    BY <1>1, Rest
  <2>3. Established => Established'
    BY DEF Established
  <2> QED
    BY <1>3, <2>1, <2>2, <2>3, SessionFrame DEF Understood
<1>9. Probes'
  <2>1. Fewer(toClient, toClient', 1, {"UNIMPLEMENTED"})
    BY <1>2
  <2>2. Established => Established'
    BY DEF Established
  <2> QED
    BY <1>4, <2>1, <2>2, ProbesFrame DEF Understood
<1> QED
  BY <1>5, <1>6, <1>7, <1>8, <1>9 DEF Understood

(* What is on its way to the client when it reads a packet. *)
LEMMA ReadFacts ==
    ASSUME SessionTypes, toClient # <<>>, toClient' = Tail(toClient)
    PROVE  /\ toClient \in Seq(Incoming)
           /\ toClient' \in Seq(Incoming)
           /\ Len(toClient') + 1 >= Len(toClient)
           /\ \A T : Fewer(toClient, toClient', 1, T)
           /\ \A T : toClient[1].type \notin T \/ Guessed(toClient[1]) =>
                 Kept(toClient, toClient', 1, T)
           /\ \A T : At(toClient, T) = {} => At(toClient', T) = {}
           /\ \A T : toClient[1].type \in T /\ ~Guessed(toClient[1]) =>
                 1 \in At(toClient, T)
           /\ \A T : (/\ toClient[1].type \in T
                      /\ ~Guessed(toClient[1])
                      /\ One(At(toClient, T))) => At(toClient', T) = {}
<1>1. toClient \in Seq(Incoming)
  BY DEF SessionTypes
<1>2. toClient' \in Seq(Incoming) /\ Len(toClient') + 1 >= Len(toClient)
  BY <1>1, Rest
<1>3. \A T : Fewer(toClient, toClient', 1, T)
  BY <1>1, FewerRest
<1>4. \A T : toClient[1].type \notin T \/ Guessed(toClient[1]) =>
          Kept(toClient, toClient', 1, T)
  BY <1>1, KeptRest
<1>5. \A T : At(toClient, T) = {} => At(toClient', T) = {}
  BY <1>3, NoneFewer
<1>6. \A T : toClient[1].type \in T /\ ~Guessed(toClient[1]) =>
          1 \in At(toClient, T)
  BY <1>1, AtRest
<1>7. \A T : (/\ toClient[1].type \in T
              /\ ~Guessed(toClient[1])
              /\ One(At(toClient, T))) => At(toClient', T) = {}
  BY <1>1, NoneRest
<1> QED
  BY <1>1, <1>2, <1>3, <1>4, <1>5, <1>6, <1>7

(* Packets of an exchange make no difference to the rest of the session. *)
LEMMA ExchangeReadFrame ==
    ASSUME Understood, SessionTypes, SessionTypes',
           toClient # <<>>, toClient' = Tail(toClient),
           toClient[1].type # "AUTH_SUCCESS",
           UNCHANGED <<state, lastInvalid>>,
           server' = server, sent' \in Seq(OutgoingPackets),
           toServer' = toServer \o sent',
           \A i \in 1..Len(sent') : sent'[i].type
              \notin {"SERVICE_REQUEST", "AUTH_REQUEST", "INVALID"}
    PROVE  Login' /\ Session' /\ Probes'
<1>1. Kept(toClient, toClient', 1, {"AUTH_SUCCESS"})
  BY ReadFacts
<1>2. /\ Fewer(toServer, toServer', 0, {"SERVICE_REQUEST"})
      /\ Fewer(toServer, toServer', 0, {"AUTH_REQUEST"})
      /\ Fewer(toServer, toServer', 0, {"INVALID"})
  BY FewerSent
<1>3. Login'
  <2>1. /\ Fewer(toClient, toClient', 1, {"SERVICE_ACCEPT"})
        /\ Fewer(toClient, toClient', 1, AuthReplies)
        /\ Fewer(toClient, toClient', 1, {"AUTH_SUCCESS"})
        /\ Fewer(toClient, toClient', 1, {"PASSWD_CHANGEREQ"})
    BY ReadFacts
  <2> QED
    BY <1>2, <2>1, LoginFrame DEF Understood
<1>4. Session'
  <2>1. /\ Fewer(toClient, toClient', 1, {"GLOBAL_REQUEST", "CHANNEL"})
        /\ Fewer(toClient, toClient', 1, {"DISCONNECT"})
        /\ Len(toClient') + 1 >= Len(toClient)
    BY ReadFacts
  <2>2. Established => Established'
    BY DEF Established
  <2> QED
    BY <1>1, <2>1, <2>2, SessionFrame DEF Understood
<1>5. Probes'
  <2>1. Fewer(toClient, toClient', 1, {"UNIMPLEMENTED"})
    BY ReadFacts
  <2>2. Established => Established'
    BY DEF Established
  <2> QED
    BY <1>2, <2>1, <2>2, ProbesFrame DEF Understood
<1> QED
  BY <1>3, <1>4, <1>5

(* KEXINIT: the client answers with KEXDH_INIT, and with its own KEXINIT   *)
(* if the server was first.                                                *)
LEMMA ReadsInit ==
    ASSUME Understood, SessionTypes, SessionTypes',
           toClient # <<>>, toClient' = Tail(toClient),
           toClient[1].type = "KEXINIT",
           keyExchangeState \in {"NoKeyExchange", "KexInitSent"},
           state = "SocketConnected" => keyExchangeState # "NoKeyExchange",
           keyExchangeState' = "DhInitSent",
           UNCHANGED <<state, lastInvalid>>,
           server' = server,
           \/ sent' = <<Outgoing("KEXDH_INIT")>>
           \/ sent' = <<Outgoing("KEXINIT"), Outgoing("KEXDH_INIT")>>,
           sent' \in Seq(OutgoingPackets),
           toServer' = toServer \o sent'
    PROVE  Understood'
<1>0. \A i \in 1..Len(sent') : sent'[i].type \in {"KEXINIT", "KEXDH_INIT"}
  <2>1. CASE sent' = <<Outgoing("KEXDH_INIT")>>
    BY <2>1 DEF Outgoing
  <2>2. CASE sent' = <<Outgoing("KEXINIT"), Outgoing("KEXDH_INIT")>>
    BY <2>2 DEF Outgoing
  <2> QED
    BY <2>1, <2>2
<1>1. ~Guessed(toClient[1])
  BY DEF Guessed
<1>2. 1 \in At(toClient, {"KEXINIT"}) /\ At(toClient', {"KEXINIT"}) = {}
  BY <1>1, ReadFacts DEF Understood, Exchange, InitComing
<1>3. /\ server.exchange = "sent"
      /\ At(toServer, {"KEXDH_INIT"}) = {}
      /\ At(toServer, {"NEWKEYS"}) = {}
      /\ state = "SocketConnected" \/ Authenticated(1)
  BY <1>2 DEF Understood, Exchange, InitComing
<1>4. At(toClient, {"KEXDH_REPLY"}) = {} /\ At(toClient, {"NEWKEYS"}) = {}
  BY DEF Understood, Exchange, ReplyComing, KeysComing
<1>5. At(toClient', {"KEXDH_REPLY"}) = {} /\ At(toClient', {"NEWKEYS"}) = {}
  BY <1>4, ReadFacts
<1>6. state \in {"SocketConnected", "ConnectionEstablished"}
  BY <1>3, Places DEF Authenticated, Established, SessionTypes
<1>7. At(toServer', {"NEWKEYS"}) = {}
  <2>1. \A i \in 1..Len(sent') : sent'[i].type \notin {"NEWKEYS"}
    BY <1>0
  <2> QED
    BY <1>3, <2>1, FewerSent, NoneFewer
<1>8. One(At(toServer', {"KEXDH_INIT"}))
  <2>1. One(At(sent', {"KEXDH_INIT"}))
    BY DEF At, One, Outgoing, Guessed
  <2> QED
    BY <1>3, <2>1, OneJoined DEF SessionTypes
<1>9. Exchange'
  <2>1. InitComing' /\ ReplyComing' /\ KeysComing'
    BY <1>2, <1>5 DEF InitComing, ReplyComing, KeysComing, One
  <2>2. ReplyGoing' /\ KeysGoing'
    BY <1>3, <1>7, <1>8 DEF ReplyGoing, KeysGoing, One
  <2>3. ExchangeStates'
    BY <1>3, <1>6 DEF ExchangeStates
  <2> QED
    BY <2>1, <2>2, <2>3 DEF Exchange
<1>10. Greeting'
  <2>1. At(toClient, {"ID"}) = {} /\ server.phase # "start"
    BY DEF Understood, Greeting
  <2>2. At(toClient', {"ID"}) = {}
    BY <2>1, ReadFacts
  <2> QED
    BY <2>1, <2>2 DEF Greeting, One
<1>11. Login' /\ Session' /\ Probes'
  <2>1. \A i \in 1..Len(sent') : sent'[i].type
            \notin {"SERVICE_REQUEST", "AUTH_REQUEST", "INVALID"}
    BY <1>0
  <2> QED
    BY <2>1, ExchangeReadFrame
<1> QED
  BY <1>9, <1>10, <1>11 DEF Understood

(* KEXDH_REPLY: the client changes its keys, behind NEWKEYS. *)
LEMMA ReadsReply ==
    ASSUME Understood, SessionTypes, SessionTypes',
           toClient # <<>>, toClient' = Tail(toClient),
           toClient[1].type = "KEXDH_REPLY", ~Guessed(toClient[1]),
           keyExchangeState' = "NewKeysSent",
           UNCHANGED <<state, lastInvalid>>,
           server' = server,
           sent' = <<Outgoing("NEWKEYS")>>,
           sent' \in Seq(OutgoingPackets),
           toServer' = toServer \o sent'
    PROVE  Understood'
<1>0. \A i \in 1..Len(sent') : sent'[i].type \in {"NEWKEYS"}
  BY DEF Outgoing
<1>1. 1 \in At(toClient, {"KEXDH_REPLY"}) /\ At(toClient', {"KEXDH_REPLY"}) = {}
  BY ReadFacts DEF Understood, Exchange, ReplyComing
<1>2. /\ server.exchange = "replied"
      /\ keyExchangeState = "DhInitSent"
      /\ At(toServer, {"NEWKEYS"}) = {}
      /\ \E j \in At(toClient, {"NEWKEYS"}) : j > 1
  BY <1>1 DEF Understood, Exchange, ReplyComing
<1>3. At(toClient, {"KEXINIT"}) = {} /\ At(toServer, {"KEXDH_INIT"}) = {}
  BY <1>2 DEF Understood, Exchange, InitComing, ReplyGoing
<1>4. At(toClient', {"KEXINIT"}) = {}
  BY <1>3, ReadFacts
<1>5. At(toServer', {"KEXDH_INIT"}) = {}
  <2>1. \A i \in 1..Len(sent') : sent'[i].type \notin {"KEXDH_INIT"}
    BY <1>0
  <2> QED
    BY <1>3, <2>1, FewerSent, NoneFewer
<1>6. One(At(toServer', {"NEWKEYS"}))
  <2>1. One(At(sent', {"NEWKEYS"}))
    BY DEF At, One, Outgoing, Guessed
  <2> QED
    BY <1>2, <2>1, OneJoined DEF SessionTypes
<1>7. One(At(toClient', {"NEWKEYS"}))
  <2>1. Fewer(toClient, toClient', 1, {"NEWKEYS"}) /\ toClient' \in Seq(Incoming)
    BY ReadFacts
  <2> QED
    BY <2>1, OneFewer DEF Understood, Exchange, KeysComing
<1>8. At(toClient', {"NEWKEYS"}) # {}
  <2>1. Kept(toClient, toClient', 1, {"NEWKEYS"})
    BY ReadFacts
  <2> QED
    BY <1>2, <2>1 DEF Kept
<1>9. state \in {"SocketConnected", "ConnectionEstablished"}
  BY <1>2 DEF Understood, Exchange, ExchangeStates
<1>10. Exchange'
  <2>1. InitComing' /\ ReplyComing' /\ ReplyGoing'
    BY <1>1, <1>4, <1>5 DEF InitComing, ReplyComing, ReplyGoing, One
  <2>2. KeysComing' /\ KeysGoing'
    BY <1>2, <1>6, <1>7 DEF KeysComing, KeysGoing
  <2>3. ExchangeStates'
    BY <1>2, <1>8, <1>9 DEF ExchangeStates
  <2> QED
    BY <2>1, <2>2, <2>3 DEF Exchange
<1>11. Greeting'
  <2>1. At(toClient, {"ID"}) = {} /\ server.phase # "start"
    BY <1>2 DEF Understood, Greeting
  <2>2. At(toClient', {"ID"}) = {}
    BY <2>1, ReadFacts
  <2> QED
    BY <2>1, <2>2 DEF Greeting, One
<1>12. Login' /\ Session' /\ Probes'
  <2>1. \A i \in 1..Len(sent') : sent'[i].type
            \notin {"SERVICE_REQUEST", "AUTH_REQUEST", "INVALID"}
    BY <1>0
  <2> QED
    BY <2>1, ExchangeReadFrame
<1> QED
  BY <1>10, <1>11, <1>12 DEF Understood

(* NEWKEYS ends the exchange. *)
LEMMA ReadsNewKeys ==
    ASSUME Understood, SessionTypes, SessionTypes',
           toClient # <<>>, toClient' = Tail(toClient),
           toClient[1].type = "NEWKEYS",
           keyExchangeState = "NewKeysSent",
           keyExchangeState' = "NoKeyExchange",
           UNCHANGED lastInvalid,
           server' = server,
           IF state = "SocketConnected"
           THEN /\ sent' = <<Outgoing("SERVICE_REQUEST")>>
                /\ state' = "UserAuthServiceRequested"
           ELSE sent' = <<>> /\ UNCHANGED state,
           sent' \in Seq(OutgoingPackets),
           toServer' = toServer \o sent'
    PROVE  Understood'
<1>0. \A i \in 1..Len(sent') : sent'[i].type \in {"SERVICE_REQUEST"}
  BY DEF Outgoing
<1>1. ~Guessed(toClient[1])
  BY DEF Guessed
<1>2. /\ At(toClient', {"NEWKEYS"}) = {}
      /\ At(toClient, {"KEXDH_REPLY"}) = {}
      /\ At(toServer, {"KEXDH_INIT"}) = {}
  BY <1>1, ReadFacts DEF Understood, Exchange, KeysComing, ReplyComing,
     ReplyGoing
<1>3. At(toClient', {"KEXDH_REPLY"}) = {}
  BY <1>2, ReadFacts
<1>4. /\ Fewer(toServer, toServer', 0, {"KEXDH_INIT"})
      /\ Fewer(toServer, toServer', 0, {"NEWKEYS"})
      /\ Fewer(toServer, toServer', 0, {"AUTH_REQUEST"})
      /\ Fewer(toServer, toServer', 0, {"INVALID"})
  <2>1. \A i \in 1..Len(sent') :
            sent'[i].type \notin {"KEXDH_INIT"} \union {"NEWKEYS"}
                                 \union {"AUTH_REQUEST"} \union {"INVALID"}
    BY <1>0
  <2> QED
    BY <2>1, FewerSent
<1>5. At(toServer', {"KEXDH_INIT"}) = {} /\ One(At(toServer', {"NEWKEYS"}))
  BY <1>2, <1>4, NoneFewer, OneFewer DEF Understood, Exchange, KeysGoing,
     SessionTypes
<1>6. At(toServer, {"NEWKEYS"}) = {} => At(toServer', {"NEWKEYS"}) = {}
  BY <1>4, NoneFewer
<1>7. /\ Fewer(toClient, toClient', 1, {"KEXINIT"})
      /\ Kept(toClient, toClient', 1, {"AUTH_SUCCESS"})
      /\ toClient \in Seq(Incoming)
      /\ toClient' \in Seq(Incoming)
  BY ReadFacts
<1>8. Established => Established'
  BY DEF Established
<1>9. InitComing'
  <2>1. One(At(toClient', {"KEXINIT"}))
    BY <1>7, OneFewer DEF Understood, Exchange, InitComing
  <2>2. ASSUME NEW i \in At(toClient', {"KEXINIT"})
        PROVE  /\ toClient'[i].arg # "unknown"
               /\ server.exchange = "sent"
               /\ Authenticated(i)'
    <3>1. /\ i \in Int
          /\ i + 1 \in At(toClient, {"KEXINIT"})
          /\ toClient'[i] = toClient[i + 1]
      BY <1>7, Places DEF Fewer
    <3>2. /\ toClient[i + 1].arg # "unknown"
          /\ server.exchange = "sent"
          /\ Authenticated(i + 1)
      BY <3>1 DEF Understood, Exchange, InitComing
    <3> QED
      BY <1>7, <1>8, <3>1, <3>2, AuthenticatedFrame
  <2>3. server.exchange = "sent" => At(toServer', {"NEWKEYS"}) = {}
    BY <1>6 DEF Understood, Exchange, KeysGoing
  <2> QED
    BY <1>5, <2>1, <2>2, <2>3 DEF InitComing
<1>10. Exchange'
  <2>1. ReplyComing' /\ KeysComing' /\ ReplyGoing'
    BY <1>2, <1>3, <1>5 DEF ReplyComing, KeysComing, ReplyGoing, One
  <2>2. KeysGoing'
    BY <1>5, <1>6 DEF Understood, Exchange, KeysGoing
  <2>3. ExchangeStates'
    BY DEF ExchangeStates
  <2> QED
    BY <1>9, <2>1, <2>2, <2>3 DEF Exchange
<1>11. Greeting'
  <2>1. At(toClient, {"ID"}) = {} /\ server.phase # "start"
    BY DEF Understood, Greeting
  <2>2. At(toClient', {"ID"}) = {}
    BY <2>1, ReadFacts
  <2> QED
    BY <2>1, <2>2 DEF Greeting, One
<1>12. CASE state # "SocketConnected"
  <2>1. \A i \in 1..Len(sent') : sent'[i].type
            \notin {"SERVICE_REQUEST", "AUTH_REQUEST", "INVALID"}
    BY <1>12
  <2>2. UNCHANGED <<state, lastInvalid>>
    BY <1>12
  <2>3. Login' /\ Session' /\ Probes'
    BY <2>1, <2>2, ExchangeReadFrame
  <2> QED
    BY <1>10, <1>11, <2>3 DEF Understood
<1>13. CASE state = "SocketConnected"
  <2>1. server.phase = "service"
    BY <1>13 DEF Understood, Login, Greeting
  <2>2. /\ At(toServer, {"SERVICE_REQUEST"}) = {}
        /\ At(toServer, {"AUTH_REQUEST"}) = {}
        /\ At(toClient, {"SERVICE_ACCEPT"}) = {}
        /\ At(toClient, AuthReplies) = {}
    BY <1>13 DEF Understood, Login
  <2>3. /\ At(toServer', {"AUTH_REQUEST"}) = {}
        /\ At(toClient', {"SERVICE_ACCEPT"}) = {}
        /\ At(toClient', AuthReplies) = {}
    BY <1>4, <2>2, NoneFewer, ReadFacts
  <2>4. One(At(toServer', {"SERVICE_REQUEST"}))
    <3>1. One(At(sent', {"SERVICE_REQUEST"}))
      BY <1>13 DEF At, One, Outgoing, Guessed
    <3> QED
      BY <2>2, <3>1, OneJoined DEF SessionTypes
  <2>5. /\ At(toClient', {"AUTH_SUCCESS"}) = {}
        /\ At(toClient', {"PASSWD_CHANGEREQ"}) = {}
    BY <2>3 DEF At, AuthReplies
  <2>6. Login'
    BY <1>13, <2>1, <2>3, <2>4, <2>5 DEF Login, One
  <2>7. Session'
    <3>1. /\ Fewer(toClient, toClient', 1, {"GLOBAL_REQUEST", "CHANNEL"})
          /\ Fewer(toClient, toClient', 1, {"DISCONNECT"})
          /\ Len(toClient') + 1 >= Len(toClient)
      BY ReadFacts
    <3> QED
      BY <1>7, <1>8, <3>1, SessionFrame DEF Understood
  <2>8. Probes'
    <3>1. Fewer(toClient, toClient', 1, {"UNIMPLEMENTED"})
      BY ReadFacts
    <3>2. ~Established
      BY <1>13 DEF Established
    <3> QED
      BY <1>4, <3>1, <3>2, ProbesFrame DEF Understood
  <2> QED
    BY <1>10, <1>11, <2>6, <2>7, <2>8 DEF Understood
<1> QED
  BY <1>12, <1>13

(* SERVICE_ACCEPT: the client asks for its authentication. *)
LEMMA ReadsServiceAccept ==
    ASSUME Understood, SessionTypes, SessionTypes',
           toClient # <<>>, toClient' = Tail(toClient),
           toClient[1].type = "SERVICE_ACCEPT",
           state' = "UserAuthRequested",
           UNCHANGED <<keyExchangeState, lastInvalid>>,
           server' = server,
           sent' = <<Outgoing("AUTH_REQUEST")>>,
           sent' \in Seq(OutgoingPackets),
           toServer' = toServer \o sent'
    PROVE  Understood'
<1>0. \A i \in 1..Len(sent') : sent'[i].type \in {"AUTH_REQUEST"}
  BY DEF Outgoing
<1>1. ~Guessed(toClient[1])
  BY DEF Guessed
<1>2. /\ 1 \in At(toClient, {"SERVICE_ACCEPT"})
      /\ At(toClient', {"SERVICE_ACCEPT"}) = {}
  BY <1>1, ReadFacts DEF Understood, Login
<1>3. /\ state = "UserAuthServiceRequested"
      /\ server.phase = "authentication"
  BY <1>2 DEF Understood, Login
<1>4. /\ At(toServer, {"SERVICE_REQUEST"}) = {}
      /\ At(toServer, {"AUTH_REQUEST"}) = {}
      /\ At(toClient, AuthReplies) = {}
  BY <1>2, <1>3 DEF Understood, Login
<1>5. /\ Fewer(toServer, toServer', 0, {"KEXDH_INIT"})
      /\ Fewer(toServer, toServer', 0, {"NEWKEYS"})
      /\ Fewer(toServer, toServer', 0, {"SERVICE_REQUEST"})
      /\ Fewer(toServer, toServer', 0, {"INVALID"})
  <2>1. \A i \in 1..Len(sent') :
            sent'[i].type \notin {"KEXDH_INIT"} \union {"NEWKEYS"}
                                 \union {"SERVICE_REQUEST"} \union {"INVALID"}
    BY <1>0
  <2> QED
    BY <2>1, FewerSent
<1>6. keyExchangeState = "NoKeyExchange" /\ ~Established
  BY <1>3 DEF Understood, Exchange, ExchangeStates, Established
<1>7. At(toClient, {"AUTH_SUCCESS"}) = {} /\ ~\E i \in Int : Authenticated(i)
  BY <1>4, <1>6 DEF At, AuthReplies, Authenticated
<1>8. /\ At(toClient, {"KEXINIT"}) = {}
      /\ At(toClient, {"KEXDH_REPLY"}) = {}
      /\ At(toClient, {"NEWKEYS"}) = {}
      /\ At(toServer, {"KEXDH_INIT"}) = {}
  BY <1>3, <1>6, <1>7, Places DEF Understood, Exchange, InitComing,
     ReplyComing, KeysComing, ReplyGoing, SessionTypes
<1>9. Exchange'
  <2>1. /\ At(toClient', {"KEXINIT"}) = {}
        /\ At(toClient', {"KEXDH_REPLY"}) = {}
        /\ At(toClient', {"NEWKEYS"}) = {}
        /\ At(toServer', {"KEXDH_INIT"}) = {}
    BY <1>5, <1>8, ReadFacts, NoneFewer
  <2>2. InitComing' /\ ReplyComing' /\ KeysComing' /\ ReplyGoing'
    BY <2>1 DEF InitComing, ReplyComing, KeysComing, ReplyGoing, One
  <2>3. One(At(toServer', {"NEWKEYS"}))
    BY <1>5, OneFewer DEF Understood, Exchange, KeysGoing, SessionTypes
  <2>4. \/ At(toServer', {"NEWKEYS"}) = {}
        \/ At(toServer, {"NEWKEYS"}) # {}
    BY <1>5, NoneFewer
  <2>5. KeysGoing'
    BY <2>3, <2>4 DEF Understood, Exchange, KeysGoing
  <2>6. ExchangeStates'
    BY <1>6 DEF Understood, Exchange, ExchangeStates
  <2> QED
    BY <2>2, <2>5, <2>6 DEF Exchange
<1>10. Greeting'
  <2>1. At(toClient, {"ID"}) = {} /\ server.phase # "start"
    BY <1>3 DEF Understood, Greeting
  <2>2. At(toClient', {"ID"}) = {}
    BY <2>1, ReadFacts
  <2> QED
    BY <2>1, <2>2 DEF Greeting, One
<1>11. Login'
  <2>1. At(toClient', AuthReplies) = {} /\ At(toServer', {"SERVICE_REQUEST"}) = {}
    BY <1>4, <1>5, ReadFacts, NoneFewer
  <2>2. One(At(toServer', {"AUTH_REQUEST"}))
    <3>1. One(At(sent', {"AUTH_REQUEST"}))
      BY DEF At, One, Outgoing, Guessed
    <3> QED
      BY <1>4, <3>1, OneJoined DEF SessionTypes
  <2>3. /\ At(toClient', {"AUTH_SUCCESS"}) = {}
        /\ At(toClient', {"PASSWD_CHANGEREQ"}) = {}
    BY <2>1 DEF At, AuthReplies
  <2> QED
    BY <1>2, <1>3, <2>1, <2>2, <2>3 DEF Login, One
<1>12. Session'
  <2>1. /\ Fewer(toClient, toClient', 1, {"GLOBAL_REQUEST", "CHANNEL"})
        /\ Fewer(toClient, toClient', 1, {"DISCONNECT"})
        /\ Kept(toClient, toClient', 1, {"AUTH_SUCCESS"})
        /\ Len(toClient') + 1 >= Len(toClient)
    BY ReadFacts
  <2> QED
    BY <1>6, <2>1, SessionFrame DEF Understood
<1>13. Probes'
  <2>1. Fewer(toClient, toClient', 1, {"UNIMPLEMENTED"})
    BY ReadFacts
  <2> QED
    BY <1>5, <1>6, <2>1, ProbesFrame DEF Understood
<1> QED
  BY <1>9, <1>10, <1>11, <1>12, <1>13 DEF Understood

(* AUTH_SUCCESS: the connection is established. *)
LEMMA ReadsAuthSuccess ==
    ASSUME Understood, SessionTypes, SessionTypes',
           toClient # <<>>, toClient' = Tail(toClient),
           toClient[1].type = "AUTH_SUCCESS",
           state' = "ConnectionEstablished",
           UNCHANGED keyExchangeState,
           server' = server,
           toServer' = toServer
    PROVE  Understood'
<1>1. ~Guessed(toClient[1])
  BY DEF Guessed
<1>2. /\ 1 \in At(toClient, {"AUTH_SUCCESS"})
      /\ 1 \in At(toClient, AuthReplies)
  BY <1>1, ReadFacts DEF AuthReplies
<1>3. state = "UserAuthRequested"
  BY <1>2 DEF Understood, Login
<1>4. At(toClient', AuthReplies) = {}
  <2> SUFFICES ASSUME NEW i \in At(toClient', AuthReplies)
               PROVE  FALSE
    OBVIOUS
  <2>1. i + 1 \in At(toClient, AuthReplies) /\ i \in Int /\ 1 <= i
    BY ReadFacts, Places DEF Fewer
  <2>2. i + 1 <= 1
    BY <1>2, <2>1 DEF Understood, Login
  <2> QED
    BY <2>1, <2>2
<1>5. /\ At(toServer, {"SERVICE_REQUEST"}) = {}
      /\ At(toServer, {"AUTH_REQUEST"}) = {}
      /\ At(toClient, {"SERVICE_ACCEPT"}) = {}
  BY <1>2, <1>3 DEF Understood, Login
<1>6. keyExchangeState = "NoKeyExchange" /\ ~Established /\ Established'
  BY <1>3 DEF Understood, Exchange, ExchangeStates, Established
<1>7. /\ At(toClient, {"KEXDH_REPLY"}) = {}
      /\ At(toClient, {"NEWKEYS"}) = {}
      /\ At(toServer, {"KEXDH_INIT"}) = {}
  BY <1>6 DEF Understood, Exchange, ReplyComing, KeysComing, ReplyGoing
<1>8. Exchange'
  <2>1. /\ At(toClient', {"KEXDH_REPLY"}) = {}
        /\ At(toClient', {"NEWKEYS"}) = {}
    BY <1>7, ReadFacts
  <2>2. /\ Fewer(toClient, toClient', 1, {"KEXINIT"})
        /\ toClient' \in Seq(Incoming)
    BY ReadFacts
  <2>3. One(At(toClient', {"KEXINIT"}))
    BY <2>2, OneFewer DEF Understood, Exchange, InitComing
  <2>4. InitComing'
    BY <1>6, <1>7, <2>2, <2>3 DEF Understood, Exchange, InitComing, Fewer,
       Authenticated
  <2>5. ReplyComing' /\ KeysComing' /\ ReplyGoing'
    BY <1>7, <2>1 DEF ReplyComing, KeysComing, ReplyGoing, One
  <2>6. KeysGoing' /\ ExchangeStates'
    BY <1>6 DEF Understood, Exchange, KeysGoing, ExchangeStates
  <2> QED
    BY <2>4, <2>5, <2>6 DEF Exchange
<1>9. Greeting'
  <2>1. At(toClient, {"ID"}) = {} /\ server.phase # "start"
    BY <1>3 DEF Understood, Greeting
  <2>2. At(toClient', {"ID"}) = {}
    BY <2>1, ReadFacts
  <2> QED
    BY <2>1, <2>2 DEF Greeting, One
<1>10. Login'
  <2>1. At(toClient', {"SERVICE_ACCEPT"}) = {}
    BY <1>5, ReadFacts
  <2>2. /\ At(toClient', {"AUTH_SUCCESS"}) = {}
        /\ At(toClient', {"PASSWD_CHANGEREQ"}) = {}
    BY <1>4 DEF At, AuthReplies
  <2> QED
    BY <1>4, <1>5, <2>1, <2>2 DEF Login, One
<1>11. Session'
  <2>1. /\ Fewer(toClient, toClient', 1, {"GLOBAL_REQUEST", "CHANNEL"})
        /\ At(toClient, {"DISCONNECT"}) = {} => At(toClient', {"DISCONNECT"}) = {}
    BY ReadFacts
  <2> QED
    BY <1>6, <2>1 DEF Understood, Session, Fewer, Authenticated
<1>12. Probes'
  <2>1. /\ Fewer(toClient, toClient', 1, {"UNIMPLEMENTED"})
        /\ Fewer(toServer, toServer', 0, {"INVALID"})
    BY ReadFacts, Still DEF SessionTypes
  <2> QED
    BY <1>6, <2>1, ProbesFrame DEF Understood
<1> QED
  BY <1>8, <1>9, <1>10, <1>11, <1>12 DEF Understood

(* The answer to a keep-alive packet. *)
LEMMA ReadsUnimplemented ==
    ASSUME Understood, SessionTypes, SessionTypes',
           toClient # <<>>, toClient' = Tail(toClient),
           toClient[1].type = "UNIMPLEMENTED",
           UNCHANGED <<state, keyExchangeState>>,
           server' = server,
           toServer' = toServer
    PROVE  Understood'
<1>1. ~Guessed(toClient[1])
  BY DEF Guessed
<1>2. /\ 1 \in At(toClient, {"UNIMPLEMENTED"})
      /\ At(toClient', {"UNIMPLEMENTED"}) = {}
  BY <1>1, ReadFacts DEF Understood, Probes
<1>3. At(toServer, {"INVALID"}) = {}
  BY <1>2 DEF Understood, Probes
<1>4. /\ Kept(toClient, toClient', 1, {"KEXDH_REPLY"})
      /\ Kept(toClient, toClient', 1, {"NEWKEYS"})
      /\ Kept(toClient, toClient', 1, {"AUTH_SUCCESS"})
  BY ReadFacts
<1>5. /\ Fewer(toServer, toServer', 0, {"KEXDH_INIT"})
      /\ Fewer(toServer, toServer', 0, {"NEWKEYS"})
      /\ Fewer(toServer, toServer', 0, {"SERVICE_REQUEST"})
      /\ Fewer(toServer, toServer', 0, {"AUTH_REQUEST"})
  BY Still DEF SessionTypes
<1>6. Exchange'
  <2>1. /\ Fewer(toClient, toClient', 1, {"KEXINIT"})
        /\ Fewer(toClient, toClient', 1, {"KEXDH_REPLY"})
        /\ Fewer(toClient, toClient', 1, {"NEWKEYS"})
    BY ReadFacts
  <2> QED
    BY <1>4, <1>5, <2>1, ExchangeFrame DEF Understood
<1>7. Greeting'
  <2>1. Fewer(toClient, toClient', 1, {"ID"})
    BY ReadFacts
  <2> QED
    BY <2>1, GreetingFrame DEF Understood, Greeting
<1>8. Login'
  <2>1. /\ Fewer(toClient, toClient', 1, {"SERVICE_ACCEPT"})
        /\ Fewer(toClient, toClient', 1, AuthReplies)
        /\ Fewer(toClient, toClient', 1, {"AUTH_SUCCESS"})
        /\ Fewer(toClient, toClient', 1, {"PASSWD_CHANGEREQ"})
    BY ReadFacts
  <2> QED
    BY <1>5, <2>1, LoginFrame DEF Understood
<1>9. Session'
  <2>1. /\ Fewer(toClient, toClient', 1, {"GLOBAL_REQUEST", "CHANNEL"})
        /\ Fewer(toClient, toClient', 1, {"DISCONNECT"})
        /\ Len(toClient') + 1 >= Len(toClient)
    BY ReadFacts
  <2>2. Established => Established'
    BY DEF Established
  <2> QED
    BY <1>4, <2>1, <2>2, SessionFrame DEF Understood
<1>10. Probes'
  BY <1>2, <1>3 DEF Probes, One
<1> QED
  BY <1>6, <1>7, <1>8, <1>9, <1>10 DEF Understood

(* The identification of the server: the client starts the first exchange. *)
LEMMA ReadsServerId ==
    ASSUME Understood, SessionTypes, SessionTypes',
           toClient # <<>>, toClient' = Tail(toClient),
           toClient[1].type = "ID",
           state = "SocketConnected",
           keyExchangeState = "NoKeyExchange",
           keyExchangeState' = "KexInitSent",
           UNCHANGED <<state, lastInvalid>>,
           server' = server,
           sent' = <<Outgoing("KEXINIT")>>,
           sent' \in Seq(OutgoingPackets),
           toServer' = toServer \o sent'
    PROVE  Understood'
<1>0. \A i \in 1..Len(sent') : sent'[i].type \in {"KEXINIT"}
  BY DEF Outgoing
<1>1. ~Guessed(toClient[1])
  BY DEF Guessed
<1>2. 1 \in At(toClient, {"ID"}) /\ At(toClient', {"ID"}) = {}
  BY <1>1, ReadFacts DEF Understood, Greeting
<1>3. server.exchange = "sent" /\ server.phase # "start"
  BY <1>2 DEF Understood, Greeting
<1>4. /\ At(toClient, {"KEXDH_REPLY"}) = {}
      /\ At(toClient, {"NEWKEYS"}) = {}
      /\ At(toServer, {"KEXDH_INIT"}) = {}
      /\ At(toServer, {"NEWKEYS"}) = {}
  BY <1>3 DEF Understood, Exchange, ReplyComing, KeysComing, ReplyGoing,
     KeysGoing
<1>5. /\ At(toClient', {"KEXDH_REPLY"}) = {}
      /\ At(toClient', {"NEWKEYS"}) = {}
  BY <1>4, ReadFacts
<1>6. /\ At(toServer', {"KEXDH_INIT"}) = {}
      /\ At(toServer', {"NEWKEYS"}) = {}
  <2>1. \A i \in 1..Len(sent') :
            sent'[i].type \notin {"KEXDH_INIT"} \union {"NEWKEYS"}
    BY <1>0
  <2>2. /\ Fewer(toServer, toServer', 0, {"KEXDH_INIT"})
        /\ Fewer(toServer, toServer', 0, {"NEWKEYS"})
    BY <2>1, FewerSent
  <2> QED
    BY <1>4, <2>2, NoneFewer
<1>7. Exchange'
  <2>1. Fewer(toClient, toClient', 1, {"KEXINIT"}) /\ toClient' \in Seq(Incoming)
    BY ReadFacts
  <2>2. One(At(toClient', {"KEXINIT"}))
    BY <2>1, OneFewer DEF Understood, Exchange, InitComing
  <2>3. InitComing'
    BY <1>3, <1>6, <2>1, <2>2 DEF Understood, Exchange, InitComing, Fewer
  <2>4. ReplyComing' /\ KeysComing' /\ ReplyGoing' /\ KeysGoing'
    BY <1>5, <1>6 DEF ReplyComing, KeysComing, ReplyGoing, KeysGoing, One
  <2>5. ExchangeStates'
    BY <1>3 DEF ExchangeStates
  <2> QED
    BY <2>3, <2>4, <2>5 DEF Exchange
<1>8. Greeting'
  BY <1>2, <1>3 DEF Greeting, One
<1>9. Login' /\ Session' /\ Probes'
  <2>1. \A i \in 1..Len(sent') : sent'[i].type
            \notin {"SERVICE_REQUEST", "AUTH_REQUEST", "INVALID"}
    BY <1>0
  <2> QED
    BY <2>1, ExchangeReadFrame
<1> QED
  BY <1>7, <1>8, <1>9 DEF Understood
-----------------------------------------------------------------------------
(* closeConnection() of a socket that is being closed, or that is gone.    *)
LEMMA CloseKeeps ==
    ASSUME IInv, IInv', Peers, NEW e, NEW s \in {socket, "Unconnected"},
           CloseConnection(e, <<>>, s), ClientSends
    PROVE  Peers'
<1>1. /\ WellSent
      /\ state' = "SocketUnconnected"
      /\ socket' = IF s = "Connected" THEN "Closing" ELSE s
      /\ s # "Connected" => sent' = <<>>
      /\ UNCHANGED <<sendKeys, receiveKeys>>
  BY CloseSent DEF CloseConnection, packetVars
<1>2. Asleep' /\ socket \in SocketStates
  BY <1>1 DEF Asleep, IInv, TypeOK
<1>3. CASE socket' \in {"Unconnected", "Connecting"}
  <2>1. socket' = "Connecting" => sendKeys' = 0 /\ receiveKeys' = 0
    BY <1>1 DEF Peers, Quiet
  <2> QED
    BY <1>1, <1>2, <1>3, <2>1, SocketGone DEF ClientSends
<1>4. CASE socket' \notin {"Unconnected", "Connecting"}
  <2>1. s = socket /\ socket' = "Closing" /\ socket \in {"Connected", "Closing"}
    BY <1>1, <1>2, <1>4 DEF SocketStates
  <2>2. toServer' = toServer \o sent' /\ toClient' = toClient /\ server' = server
    BY <1>4 DEF ClientSends
  <2>3. toServer' = toServer \/ (Linked /\ WellSent)
    <3>1. toServer \in Seq(OutgoingPackets)
      BY DEF Peers, SessionTypes
    <3> QED
      BY <1>1, <2>1, <2>2, <3>1 DEF Linked
  <2>4. state' # "SocketConnecting"
    BY <1>1
  <2> QED
    BY <1>2, <2>1, <2>2, <2>3, <2>4, SocketCloses, Zenon
<1> QED
  BY <1>3, <1>4

(* connectToHost() *)
LEMMA ConnectKeeps ==
    ASSUME IInv, IInv', Peers, ConnectToHost, ClientSends
    PROVE  Peers'
<1>1. /\ sent' = <<>> /\ sendKeys' = 0 /\ receiveKeys' = 0
      /\ state = "SocketUnconnected"
      /\ state' \in {"SocketUnconnected", "SocketConnecting"}
      /\ state' = "SocketConnecting" => keyExchangeState' = "NoKeyExchange"
      /\ socket' = socket \/ socket' = "Connecting"
  BY DEF ConnectToHost
<1>2. Asleep /\ Asleep' /\ socket \in SocketStates
  BY <1>1 DEF Asleep, IInv, TypeOK
<1>3. CASE socket' \in {"Unconnected", "Connecting"}
  BY <1>1, <1>2, <1>3, SocketGone DEF ClientSends
<1>4. CASE socket' \notin {"Unconnected", "Connecting"}
  <2>1. socket' = socket /\ socket \in {"Connected", "Closing"}
    BY <1>1, <1>2, <1>4 DEF SocketStates
  <2>2. toServer' = toServer \o sent' /\ toClient' = toClient /\ server' = server
    BY <1>1, <1>4 DEF ClientSends
  <2>3. CASE socket = "Closing"
    <3>1. toServer \in Seq(OutgoingPackets)
      BY DEF Peers, SessionTypes
    <3>2. toServer' = toServer
      BY <1>1, <2>2, <3>1
    <3> QED
      BY <1>1, <1>2, <2>1, <2>2, <2>3, <3>2, SocketCloses, Zenon
  <2>4. CASE socket = "Connected"
    <3>1. Linked /\ Asleep
      BY <1>2, <2>4 DEF Linked
    <3>2. /\ toServer' = <<>>
          /\ ~server.peerInit
          /\ toServer = <<>> /\ sendKeys = 0
      BY <1>1, <2>2, <3>1 DEF Peers, Quiet
    <3>3. /\ server.receiveKeys = 0 /\ server.sendKeys = 0
          /\ \A i \in DOMAIN toClient : toClient[i].keys = 0
      BY <3>1, <3>2 DEF Peers, KeysInv, KeysBehind
    <3>4. toClient \in Seq(Incoming) /\ server \in Servers
      BY DEF Peers, SessionTypes
    <3> QED
      BY <1>1, <1>2, <2>1, <2>2, <2>4, <3>2, <3>3, <3>4, SocketUnused
  <2> QED
    BY <2>1, <2>3, <2>4
<1> QED
  BY <1>3, <1>4

(* The only packet is one that starts nothing. *)
LEMMA FreshUnderstood ==
    ASSUME toServer' = <<Outgoing("ID")>>, toClient' = <<>>, server' = NewServer,
           state' = "SocketConnected", keyExchangeState' = "NoKeyExchange"
    PROVE  Understood'
<1>1. \A T : At(toClient', T) = {}
  BY DEF At
<1>2. /\ At(toServer', {"KEXDH_INIT"}) = {}
      /\ At(toServer', {"NEWKEYS"}) = {}
      /\ At(toServer', {"SERVICE_REQUEST"}) = {}
      /\ At(toServer', {"AUTH_REQUEST"}) = {}
      /\ At(toServer', {"INVALID"}) = {}
  BY DEF At, Outgoing
<1>3. /\ server'.phase = "start"
      /\ server'.exchange = "none"
  BY DEF NewServer
<1>4. Exchange'
  <2>1. InitComing' /\ ReplyComing' /\ KeysComing'
    BY <1>1 DEF InitComing, ReplyComing, KeysComing, One
  <2>2. ReplyGoing' /\ KeysGoing'
    BY <1>2 DEF ReplyGoing, KeysGoing, One
  <2>3. ExchangeStates'
    BY <1>3 DEF ExchangeStates
  <2> QED
    BY <2>1, <2>2, <2>3 DEF Exchange
<1>5. Greeting'
  BY <1>1, <1>3 DEF Greeting, One
<1>6. Login'
  BY <1>1, <1>2, <1>3 DEF Login, One
<1>7. Session'
  BY <1>1, <1>3 DEF Session
<1>8. Probes'
  BY <1>1, <1>2 DEF Probes, One
<1> QED
  BY <1>4, <1>5, <1>6, <1>7, <1>8 DEF Understood

(* handleSocketConnected() *)
LEMMA SocketConnectedKeeps ==
    ASSUME IInv, IInv', Peers, SocketConnected, ClientSends
    PROVE  Peers'
<1>1. /\ toServer = <<>> /\ toClient = <<>> /\ server = NewServer
      /\ sendKeys = 0 /\ receiveKeys = 0
      /\ socket' = "Connected"
      /\ UNCHANGED <<sendKeys, receiveKeys, keyExchangeState>>
      /\ state \in {"SocketUnconnected", "SocketConnecting"}
  BY DEF SocketConnected, Peers, Quiet, handshakeVars, packetVars, IInv, Control,
     ConnectingSocket
<1>2. /\ toServer' = <<>> \o sent'
      /\ toClient' = <<>>
      /\ server' = NewServer
  BY <1>1 DEF ClientSends
<1>3. /\ server' \in Servers
      /\ server'.sendKeys = 0 /\ server'.receiveKeys = 0
      /\ ~server'.peerInit
      /\ server'.exchange = "none"
      /\ server'.phase = "start"
  BY <1>2, KeyNamesAssumption DEF NewServer, Servers, Keys
<1>4. CASE state = "SocketUnconnected"
  <2>1. sent' = <<>> /\ state' = state
    BY <1>4 DEF SocketConnected
  <2>2. toClient' \in Seq(Incoming) /\ \A i \in DOMAIN toClient' : FALSE
    BY <1>2
  <2>3. toServer' = <<>> /\ Asleep'
    BY <1>2, <1>4, <2>1 DEF Asleep
  <2>4. sendKeys' = 0 /\ receiveKeys' = 0 /\ state' # "SocketConnecting"
    BY <1>1, <1>4, <2>1
  <2> QED
    BY <1>1, <1>3, <2>2, <2>3, <2>4, SocketUnused
<1>5. CASE state = "SocketConnecting"
  <2>1. sent' = <<Outgoing("ID")>> /\ state' = "SocketConnected"
    BY <1>5 DEF SocketConnected
  <2>2. toServer' = <<Outgoing("ID")>>
    BY <1>2, <2>1
  <2>3. /\ Len(toServer') = 1
        /\ toServer'[1].type = "ID"
        /\ toServer'[1].keys = 0
    BY <1>1, <2>2 DEF Outgoing
  <2>4. keyExchangeState' = "NoKeyExchange"
    BY <1>1, <1>5 DEF Peers, Quiet
  <2>5. Understood'
    BY <1>2, <2>1, <2>2, <2>4, FreshUnderstood
  <2>6. toServer' \in Seq(OutgoingPackets)
    BY <2>1, <2>2 DEF IInv, TypeOK
  <2>7. SessionTypes'
    BY <1>2, <1>3, <2>6 DEF SessionTypes, OutgoingPackets, Incoming, Servers,
       SeqNr, Keys, InvalidSeqNr, PacketTypes
  <2>8. Quiet'
    BY <1>1, <2>1 DEF Quiet, Asleep, Linked
  <2>9. KeysInv'
    <3>1. Chained(toServer', 0) /\ KeysBehind(toServer', 0) = 0
      BY <2>3 DEF Chained, KeysBehind, Following
    <3>2. Chained(toClient', 0) /\ KeysBehind(toClient', 0) = 0
      BY <1>2 DEF Chained, KeysBehind
    <3> QED
      BY <1>1, <1>3, <2>1, <3>1, <3>2 DEF KeysInv, Asleep
  <2>10. GuessInv'
    <3>1. ~ignoreNextPacket'
      BY <2>1, <2>4 DEF IInv, Control, OnlyGuessIsDropped
    <3> QED
      BY <1>2, <3>1 DEF GuessInv
  <2>11. ProbeInv'
    <3>1. KeepAliveKeepsOut'
      BY <2>3 DEF KeepAliveKeepsOut, NotDuringExchange
    <3>2. ~ExchangeBehind(toServer', server'.peerInit)
      BY <1>3, <2>3 DEF ExchangeBehind, Exchanging
    <3> QED
      BY <3>1, <3>2 DEF ProbeInv
  <2> QED
    BY <2>5, <2>7, <2>8, <2>9, <2>10, <2>11 DEF Peers
<1> QED
  BY <1>1, <1>4, <1>5

(* What the client sends of its own accord, but for keep-alive packets, is *)
(* nothing that the server waits for.                                      *)
LEMMA GoesOnFrame ==
    ASSUME Understood, SessionTypes, SessionTypes', toClient' = toClient,
           server' = server, UNCHANGED <<state, keyExchangeState>>,
           sent' \in Seq(OutgoingPackets), toServer' = toServer \o sent',
           \A i \in 1..Len(sent') : sent'[i].type
              \notin {"KEXDH_INIT", "NEWKEYS", "SERVICE_REQUEST", "AUTH_REQUEST"}
    PROVE  Exchange' /\ Greeting' /\ Login' /\ Session'
<1>1. toClient \in Seq(Incoming)
  BY DEF SessionTypes
<1>2. \A T : Fewer(toClient, toClient', 0, T) /\ Kept(toClient, toClient', 0, T)
  BY <1>1, Still
<1>3. /\ Fewer(toServer, toServer', 0, {"KEXDH_INIT"})
      /\ Fewer(toServer, toServer', 0, {"NEWKEYS"})
      /\ Fewer(toServer, toServer', 0, {"SERVICE_REQUEST"})
      /\ Fewer(toServer, toServer', 0, {"AUTH_REQUEST"})
  BY FewerSent
<1>4. Exchange'
  <2>1. /\ Fewer(toClient, toClient', 0, {"KEXINIT"})
        /\ Fewer(toClient, toClient', 0, {"KEXDH_REPLY"})
        /\ Fewer(toClient, toClient', 0, {"NEWKEYS"})
        /\ Kept(toClient, toClient', 0, {"KEXDH_REPLY"})
        /\ Kept(toClient, toClient', 0, {"NEWKEYS"})
        /\ Kept(toClient, toClient', 0, {"AUTH_SUCCESS"})
    BY <1>2
  <2> QED
    BY <1>3, <2>1, ExchangeFrame DEF Understood
<1>5. Greeting'
  <2>1. Fewer(toClient, toClient', 0, {"ID"})
    BY <1>2
  <2> QED
    BY <2>1, GreetingFrame DEF Understood
<1>6. Login'
  <2>1. /\ Fewer(toClient, toClient', 0, {"SERVICE_ACCEPT"})
        /\ Fewer(toClient, toClient', 0, AuthReplies)
        /\ Fewer(toClient, toClient', 0, {"AUTH_SUCCESS"})
        /\ Fewer(toClient, toClient', 0, {"PASSWD_CHANGEREQ"})
    BY <1>2
  <2> QED
    BY <1>3, <2>1, LoginFrame DEF Understood
<1>7. Session'
  <2>1. /\ Fewer(toClient, toClient', 0, {"GLOBAL_REQUEST", "CHANNEL"})
        /\ Fewer(toClient, toClient', 0, {"DISCONNECT"})
        /\ Kept(toClient, toClient', 0, {"AUTH_SUCCESS"})
    BY <1>2
  <2>2. Len(toClient') + 0 >= Len(toClient)
    BY <1>1
  <2>3. Established => Established'
    BY DEF Established
  <2> QED
    BY <2>1, <2>2, <2>3, SessionFrame DEF Understood
<1> QED
  BY <1>4, <1>5, <1>6, <1>7

(* sendData() of a channel and the like *)
LEMMA ChannelMessageKeeps ==
    ASSUME IInv, IInv', Peers, SendChannelMessage, ClientSends
    PROVE  Peers'
<1>1. /\ Established
      /\ sent' = <<Outgoing("CHANNEL")>>
      /\ UNCHANGED <<socket, state, keyExchangeState, ignoreNextPacket,
                     sendKeys, receiveKeys, garbled, lastInvalid>>
  BY DEF SendChannelMessage, handshakeVars, packetVars
<1>2. ~Asleep /\ ~Asleep' /\ Linked /\ Linked'
  BY <1>1 DEF Established, Asleep, Linked, Peers, Quiet
<1>3. WellSent /\ sent' \in Seq(OutgoingPackets)
  BY <1>1, OneAnswer DEF Quietly, IInv, TypeOK
<1>4. toServer' = toServer \o sent' /\ toClient' = toClient /\ server' = server
  BY <1>2 DEF ClientSends, Linked
<1>5. ASSUME Live' PROVE Understood'
  <2>1. Live
    BY <1>1, <1>2, <1>4, <1>5 DEF Live
  <2>2. Understood /\ SessionTypes
    BY <2>1 DEF Peers
  <2>3. SessionTypes'
    BY <1>2, <1>3, <1>4, <2>2, ToServerGood DEF SessionTypes, OutgoingPackets,
       Incoming, Servers, SeqNr, Keys, InvalidSeqNr, PacketTypes
  <2>4. \A i \in 1..Len(sent') : sent'[i].type = "CHANNEL"
    BY <1>1 DEF Outgoing
  <2>5. Exchange' /\ Greeting' /\ Login' /\ Session'
    BY <1>1, <1>3, <1>4, <2>2, <2>3, <2>4, GoesOnFrame
  <2>6. Probes'
    <3>1. Fewer(toServer, toServer', 0, {"INVALID"})
      BY <1>3, <1>4, <2>2, <2>4, FewerSent
    <3>2. toClient \in Seq(Incoming)
      BY <2>2 DEF SessionTypes
    <3>3. Fewer(toClient, toClient', 0, {"UNIMPLEMENTED"})
      BY <1>4, <3>2, Still
    <3>4. Established' /\ UNCHANGED lastInvalid
      BY <1>1 DEF Established
    <3> QED
      BY <1>1, <2>2, <2>3, <3>1, <3>3, <3>4, ProbesFrame DEF Understood
  <2> QED
    BY <2>5, <2>6 DEF Understood
<1> QED
  BY <1>1, <1>2, <1>3, <1>4, <1>5, ClientGoesOn

(* The first packet of a type is the one that was added. *)
LEMMA OnlyAdded ==
    ASSUME NEW P, NEW q \in Seq(P), NEW s \in Seq(P), NEW types,
           At(q, types) = {}, \A n \in At(s, types) : n = 1
    PROVE  \A n \in At(q \o s, types) :
              n = Len(q) + 1 /\ Len(s) \in Nat \ {0}
<1>1. \A n \in At(q \o s, types) : n - Len(q) \in At(s, types)
  BY AtJoined
<1>2. q \o s \in Seq(P) /\ Len(q) \in Nat
  OBVIOUS
<1> SUFFICES ASSUME NEW n \in At(q \o s, types)
             PROVE  n = Len(q) + 1 /\ Len(s) \in Nat \ {0}
  OBVIOUS
<1>3. n \in Int
  BY <1>2, Places
<1>4. n - Len(q) \in At(s, types)
  BY <1>1
<1>5. n = Len(q) + 1 /\ 1 \in At(s, types)
  BY <1>2, <1>3, <1>4
<1> QED
  BY <1>5 DEF At

LEMMA OnlySent ==
    ASSUME SessionTypes, sent' \in Seq(OutgoingPackets), NEW types,
           toServer' = toServer \o sent', At(toServer, types) = {},
           \A n \in At(sent', types) : n = 1
    PROVE  \A n \in At(toServer', types) : toServer'[n] = sent'[1]
<1>1. toServer \in Seq(OutgoingPackets)
  BY DEF SessionTypes
<1>2. \A n \in At(toServer', types) :
         n = Len(toServer) + 1 /\ Len(sent') \in Nat \ {0}
  BY <1>1, OnlyAdded
<1> QED
  BY <1>1, <1>2

(* The keep-alive packet, and that nothing is known of an earlier one.     *)
LEMMA ProbeSent ==
    ASSUME Understood, SessionTypes, SessionTypes',
           Established, UNCHANGED state, lastInvalid = InvalidSeqNr,
           lastInvalid' \in SeqNr,
           sent' = <<[type |-> "INVALID", seqNr |-> lastInvalid',
                      keys |-> sendKeys]>>,
           sent' \in Seq(OutgoingPackets),
           toClient' = toClient, toServer' = toServer \o sent'
    PROVE  Probes'
<1>1. /\ At(toServer, {"INVALID"}) = {}
      /\ At(toClient, {"UNIMPLEMENTED"}) = {}
  BY DEF Understood, Probes
<1>2. toServer \in Seq(OutgoingPackets)
  BY DEF SessionTypes
<1>3. One(At(sent', {"INVALID"}))
  BY DEF One, At
<1>4. One(At(toServer', {"INVALID"}))
  BY <1>1, <1>2, <1>3, OneJoined
<1>5. \A i \in At(toServer', {"INVALID"}) : toServer'[i].seqNr = lastInvalid'
  <2> SUFFICES ASSUME NEW i \in At(toServer', {"INVALID"})
               PROVE  toServer'[i].seqNr = lastInvalid'
    OBVIOUS
  <2>1. \A n \in At(sent', {"INVALID"}) : n = 1
    BY DEF At
  <2>6. toServer'[i] = sent'[1]
    BY <1>1, <2>1, OnlySent
  <2>7. sent'[1].seqNr = lastInvalid'
    OBVIOUS
  <2> QED
    BY <2>6, <2>7
<1>6. lastInvalid' # InvalidSeqNr /\ Established'
  BY SeqNrsAssumption DEF SeqNr, InvalidSeqNr, Established
<1>7. At(toClient', {"UNIMPLEMENTED"}) = {}
  BY <1>1
<1> QED
  BY <1>4, <1>5, <1>6, <1>7 DEF Probes, One

(* sendKeepAlivePacket() *)
LEMMA KeepAliveKeeps ==
    ASSUME IInv, IInv', Peers, SendKeepAlivePacket, ClientSends
    PROVE  Peers'
<1>1. /\ UNCHANGED <<socket, state, keyExchangeState, ignoreNextPacket,
                     sendKeys, receiveKeys, garbled>>
      /\ Established
      /\ lastInvalid = InvalidSeqNr
      /\ \/ sent' = <<>> /\ UNCHANGED lastInvalid
         \/ /\ keyExchangeState = "NoKeyExchange"
            /\ lastInvalid' = clientSeqNr
            /\ sent' = <<[type |-> "INVALID", seqNr |-> clientSeqNr,
                          keys |-> sendKeys]>>
  BY DEF SendKeepAlivePacket, handshakeVars, timerVars, IInv, Control,
     KeepAliveEstablished, OneProbeAtATime
<1>2. ~Asleep /\ ~Asleep' /\ Linked /\ Linked'
  BY <1>1 DEF Established, Asleep, Linked, Peers, Quiet
<1>3. sent' \in Seq(OutgoingPackets) /\ clientSeqNr \in SeqNr
  BY DEF IInv, TypeOK
<1>4. WellSent
  <2>1. CASE sent' = <<>>
    BY <1>1, <1>3, <2>1, PlainSent DEF Quietly
  <2>2. CASE /\ keyExchangeState = "NoKeyExchange"
             /\ sent' = <<[type |-> "INVALID", seqNr |-> clientSeqNr,
                           keys |-> sendKeys]>>
    <3>1. \A i \in 1..Len(sent') : /\ sent'[i].keys = sendKeys
                                   /\ sent'[i].type = "INVALID"
      BY <2>2
    <3>2. Chained(sent', sendKeys) /\ KeysBehind(sent', sendKeys) = sendKeys
      BY <1>3, <3>1, ChainPlain
    <3>3. Len(sent') = 1 /\ Quietly
      BY <2>2 DEF Quietly
    <3> QED
      BY <1>1, <1>3, <3>1, <3>2, <3>3 DEF WellSent
  <2> QED
    BY <1>1, <2>1, <2>2
<1>5. toServer' = toServer \o sent' /\ toClient' = toClient /\ server' = server
  BY <1>2 DEF ClientSends, Linked
<1>6. ASSUME Live' PROVE Understood'
  <2>1. Live
    BY <1>1, <1>2, <1>5, <1>6 DEF Live
  <2>2. Understood /\ SessionTypes
    BY <2>1 DEF Peers
  <2>3. SessionTypes'
    BY <1>2, <1>4, <1>5, <2>2, ToServerGood DEF SessionTypes, OutgoingPackets,
       Incoming, Servers, SeqNr, Keys, InvalidSeqNr, PacketTypes
  <2>4. \A i \in 1..Len(sent') : sent'[i].type = "INVALID"
    BY <1>1
  <2>5. Exchange' /\ Greeting' /\ Login' /\ Session'
    BY <1>1, <1>3, <1>5, <2>2, <2>3, <2>4, GoesOnFrame
  <2>6. Probes'
    <3>1. CASE sent' = <<>> /\ UNCHANGED lastInvalid
      <4>1. toServer \in Seq(OutgoingPackets) /\ toClient \in Seq(Incoming)
        BY <2>2 DEF SessionTypes
      <4>2. toServer' = toServer
        BY <1>5, <3>1, <4>1
      <4>3. /\ Fewer(toServer, toServer', 0, {"INVALID"})
            /\ Fewer(toClient, toClient', 0, {"UNIMPLEMENTED"})
        BY <1>5, <4>1, <4>2, Still
      <4>4. Established'
        BY <1>1 DEF Established
      <4> QED
        BY <1>1, <2>2, <2>3, <3>1, <4>3, <4>4, ProbesFrame DEF Understood
    <3>2. CASE /\ lastInvalid' = clientSeqNr
               /\ sent' = <<[type |-> "INVALID", seqNr |-> clientSeqNr,
                             keys |-> sendKeys]>>
      BY <1>1, <1>3, <1>5, <2>2, <2>3, <3>2, ProbeSent
    <3> QED
      BY <1>1, <3>1, <3>2
  <2> QED
    BY <2>5, <2>6 DEF Understood
<1> QED
  BY <1>1, <1>2, <1>4, <1>5, <1>6, ClientGoesOn
-----------------------------------------------------------------------------
(* What the client does of its own accord. *)
LEMMA ClientActsGood ==
    ASSUME SessionInv, ClientActs
    PROVE  SessionInv'
<1>1. IInv /\ Peers /\ ClientSends
  BY DEF SessionInv, ClientActs
<1>2. Next
  BY DEF ClientActs, Next, User, Network, Timers
<1>3. IInv'
  BY <1>1, <1>2, NextGood DEF Good
<1>4. CASE ConnectToHost
  BY <1>1, <1>3, <1>4, ConnectKeeps DEF SessionInv
<1>5. CASE DisconnectFromHost \/ HandleTimeout \/ ChannelTimeout
  BY <1>1, <1>3, <1>5, CloseKeeps DEF SessionInv, DisconnectFromHost,
     HandleTimeout, ChannelTimeout
<1>6. CASE SendChannelMessage
  BY <1>1, <1>3, <1>6, ChannelMessageKeeps DEF SessionInv
<1>7. CASE SocketConnected
  BY <1>1, <1>3, <1>7, SocketConnectedKeeps DEF SessionInv
<1>8. CASE SocketError \/ SocketDisconnected
  <2>1. CASE state = "SocketUnconnected"
    <3>1. socket' = "Unconnected" /\ Asleep' /\ state' = state
      BY <1>8, <2>1 DEF SocketError, SocketDisconnected, Asleep
    <3>2. toServer' = <<>> /\ toClient' = <<>> /\ server' = NewServer
      BY <1>1, <3>1 DEF ClientSends
    <3>3. Peers'
      BY <2>1, <3>1, <3>2, SocketGone
    <3> QED
      BY <1>3, <3>3 DEF SessionInv
  <2>2. CASE state # "SocketUnconnected"
    BY <1>1, <1>3, <1>8, <2>2, CloseKeeps DEF SessionInv, SocketError,
       SocketDisconnected
  <2> QED
    BY <2>1, <2>2
<1>9. CASE SendKeepAlivePacket
  BY <1>1, <1>3, <1>9, KeepAliveKeeps DEF SessionInv
<1> QED
  BY <1>4, <1>5, <1>6, <1>7, <1>8, <1>9 DEF ClientActs, Network

(* What a handler leaves: a socket that is being closed, or a connection   *)
(* with the keys for the next packet and, as long as the server has not    *)
(* announced that it leaves, in good order. *)
HandledWell ==
    \/ socket' = "Closing" /\ state' = "SocketUnconnected"
    \/ /\ socket' = socket
       /\ ~Asleep'
       /\ garbled' = garbled
       /\ receiveKeys' = Following(toClient[1])
       /\ ignoreNextPacket' <=> Guess(toClient[1])
       /\ Live => Understood'

(* Handlers that only pass on what is no part of an exchange. *)
LEMMA OtherHandled ==
    ASSUME Peers, SessionTypes', ~Asleep,
           toClient # <<>>, toClient' = Tail(toClient),
           \/ toClient[1].type \notin {"KEXDH_REPLY", "NEWKEYS", "AUTH_SUCCESS",
                                       "KEXINIT"}
           \/ Guessed(toClient[1]),
           receiveKeys = toClient[1].keys,
           UNCHANGED <<socket, state, keyExchangeState, lastInvalid, garbled,
                       receiveKeys>>,
           ~ignoreNextPacket',
           server' = server, sent' \in Seq(OutgoingPackets),
           toServer' = toServer \o sent',
           \A i \in 1..Len(sent') : sent'[i].type \notin ServerWaitsFor
    PROVE  HandledWell
<1>1. Live => Understood'
  <2> SUFFICES ASSUME Live
               PROVE  Understood'
    OBVIOUS
  <2>1. Understood /\ SessionTypes
    BY DEF Peers
  <2>2. \/ toClient[1].type \notin {"KEXDH_REPLY", "NEWKEYS", "AUTH_SUCCESS"}
        \/ Guessed(toClient[1])
    OBVIOUS
  <2> QED
    BY <2>1, <2>2, ReadsOther
<1>2. /\ receiveKeys' = Following(toClient[1])
      /\ ~Guess(toClient[1])
  BY DEF Following, Guess, Guessed
<1> QED
  BY <1>1, <1>2 DEF HandledWell, Asleep

(* An exception closes the socket. *)
LEMMA ExceptionHandled ==
    ASSUME Linked, NEW e, NEW packets, CloseConnection(e, packets, socket)
    PROVE  HandledWell
  BY DEF CloseConnection, HandledWell, Linked

(* handleCurrentPacket(), where the packet table has a handler. *)
LEMMA Handled ==
    ASSUME IInv, IInv', Peers, SessionTypes', Linked, ~Asleep,
           toClient # <<>>, toClient' = Tail(toClient),
           receiveKeys = toClient[1].keys,
           ~ignoreNextPacket, ~Guessed(toClient[1]),
           server' = server, toServer' = toServer \o sent',
           state = "SocketConnected" => keyExchangeState # "NoKeyExchange",
           state \in packetHandlers[toClient[1].type],
           Handle(toClient[1])
    PROVE  HandledWell
<1> DEFINE p == toClient[1]
<1>1. sent' \in Seq(OutgoingPackets)
  BY DEF IInv, TypeOK
<1>2. ASSUME Live
      PROVE  Understood /\ SessionTypes
  BY <1>2 DEF Peers
<1>3. CASE p.type = "KEXINIT" /\ HandleKeyExchangeInit(p)
  <2>1. CASE \/ ServerException
             \/ \E answer : CloseConnection("SshProtocolError", answer, socket)
    BY <2>1, ExceptionHandled DEF ServerException
  <2>2. CASE /\ keyExchangeState \in {"NoKeyExchange", "KexInitSent"}
             /\ p.arg # "unknown"
    <3> DEFINE answer == IF keyExchangeState = "NoKeyExchange"
                         THEN <<Outgoing("KEXINIT")>> ELSE <<>>
    <3>1. /\ keyExchangeState' = "DhInitSent"
          /\ ignoreNextPacket' = (p.arg = "guess")
          /\ sent' = Append(answer, Outgoing("KEXDH_INIT"))
          /\ UNCHANGED <<socket, state, receiveKeys, garbled, lastInvalid>>
      BY <1>3, <2>2 DEF HandleKeyExchangeInit, packetVars, timerVars
    <3>2. \/ sent' = <<Outgoing("KEXDH_INIT")>>
          \/ sent' = <<Outgoing("KEXINIT"), Outgoing("KEXDH_INIT")>>
      <4>1. CASE keyExchangeState = "NoKeyExchange"
        <5>1. sent' = Append(<<Outgoing("KEXINIT")>>, Outgoing("KEXDH_INIT"))
          BY <3>1, <4>1
        <5> QED
          BY <5>1, AppendOne
      <4>2. CASE keyExchangeState # "NoKeyExchange"
        BY <3>1, <4>2
      <4> QED
        BY <4>1, <4>2
    <3>3. Live => Understood'
      BY <1>1, <1>2, <1>3, <2>2, <3>1, <3>2, ReadsInit
    <3>4. /\ receiveKeys' = Following(p)
          /\ ignoreNextPacket' <=> Guess(p)
      BY <1>3, <3>1 DEF Following, Guess
    <3> QED
      BY <3>1, <3>3, <3>4 DEF HandledWell, Asleep
  <2> QED
    BY <1>3, <2>1, <2>2 DEF HandleKeyExchangeInit
<1>4. CASE p.type = "KEXDH_REPLY" /\ HandleKeyExchangeReply(p)
  <2>1. CASE ServerException
    BY <2>1, ExceptionHandled DEF ServerException
  <2>2. CASE keyExchangeState = "DhInitSent" /\ p.arg # "bad"
    <3>1. /\ keyExchangeState' = "NewKeysSent"
          /\ sent' = <<Outgoing("NEWKEYS")>>
          /\ UNCHANGED <<socket, state, ignoreNextPacket, receiveKeys, garbled,
                         lastInvalid>>
      BY <1>4, <2>2 DEF HandleKeyExchangeReply, timerVars
    <3>2. Live => Understood'
      BY <1>1, <1>2, <1>4, <3>1, ReadsReply
    <3>3. /\ receiveKeys' = Following(p)
          /\ ~Guess(p)
      BY <1>4, <3>1 DEF Following, Guess
    <3> QED
      BY <3>1, <3>2, <3>3 DEF HandledWell, Asleep
  <2> QED
    BY <1>4, <2>1, <2>2 DEF HandleKeyExchangeReply
<1>5. CASE p.type = "NEWKEYS" /\ HandleNewKeys
  <2>1. CASE ServerException
    BY <2>1, ExceptionHandled DEF ServerException
  <2>2. CASE keyExchangeState = "NewKeysSent"
    <3>1. /\ keyExchangeState' = "NoKeyExchange"
          /\ receiveKeys' = NextKeys(receiveKeys)
          /\ IF state = "SocketConnected"
             THEN /\ sent' = <<Outgoing("SERVICE_REQUEST")>>
                  /\ state' = "UserAuthServiceRequested"
             ELSE sent' = <<>> /\ UNCHANGED state
          /\ UNCHANGED <<socket, ignoreNextPacket, garbled, lastInvalid>>
      BY <1>5, <2>2 DEF HandleNewKeys, timerVars
    <3>2. Live => Understood'
      BY <1>1, <1>2, <1>5, <2>2, <3>1, ReadsNewKeys
    <3>3. /\ receiveKeys' = Following(p)
          /\ ~Guess(p)
      BY <1>5, <3>1 DEF Following, Guess
    <3>4. ~Asleep'
      BY <3>1 DEF Asleep
    <3> QED
      BY <3>1, <3>2, <3>3, <3>4 DEF HandledWell
  <2> QED
    BY <1>5, <2>1, <2>2 DEF HandleNewKeys
<1>6. CASE p.type = "SERVICE_ACCEPT" /\ HandleServiceAccept
  <2>1. /\ state' = "UserAuthRequested"
        /\ sent' = <<Outgoing("AUTH_REQUEST")>>
        /\ UNCHANGED <<socket, keyExchangeState, ignoreNextPacket, receiveKeys,
                       garbled, lastInvalid>>
    BY <1>6 DEF HandleServiceAccept, timerVars, handshakeVars, packetVars
  <2>2. Live => Understood'
    BY <1>1, <1>2, <1>6, <2>1, ReadsServiceAccept
  <2>3. /\ receiveKeys' = Following(p)
        /\ ~Guess(p)
    BY <1>6, <2>1 DEF Following, Guess
  <2> QED
    BY <2>1, <2>2, <2>3 DEF HandledWell, Asleep
<1>7. CASE p.type = "AUTH_SUCCESS" /\ HandleAuthSuccess
  <2>1. /\ state' = "ConnectionEstablished"
        /\ sent' = <<>>
        /\ UNCHANGED <<socket, keyExchangeState, ignoreNextPacket, receiveKeys,
                       garbled>>
    BY <1>7 DEF HandleAuthSuccess, handshakeVars, packetVars
  <2>2. ASSUME Live PROVE Understood'
    <3>1. Understood /\ SessionTypes
      BY <1>2, <2>2
    <3>2. toServer \in Seq(OutgoingPackets)
      BY <3>1 DEF SessionTypes
    <3>3. toServer' = toServer
      BY <2>1, <3>2
    <3> QED
      BY <1>7, <2>1, <3>1, <3>3, ReadsAuthSuccess
  <2>3. /\ receiveKeys' = Following(p)
        /\ ~Guess(p)
    BY <1>7, <2>1 DEF Following, Guess
  <2> QED
    BY <2>1, <2>2, <2>3 DEF HandledWell, Asleep
<1>8. CASE p.type = "UNIMPLEMENTED" /\ HandleUnimplemented(p)
  <2>1. CASE ServerException
    BY <2>1, ExceptionHandled DEF ServerException
  <2>2. CASE p.seqNr = lastInvalid
    <3>1. /\ sent' = <<>>
          /\ UNCHANGED <<socket, state, keyExchangeState, ignoreNextPacket,
                         receiveKeys, garbled>>
      BY <1>8, <2>2 DEF HandleUnimplemented, handshakeVars, packetVars
    <3>2. ASSUME Live PROVE Understood'
      <4>1. Understood /\ SessionTypes
        BY <1>2, <3>2
      <4>2. toServer \in Seq(OutgoingPackets)
        BY <4>1 DEF SessionTypes
      <4>3. toServer' = toServer
        BY <3>1, <4>2
      <4> QED
        BY <1>8, <3>1, <4>1, <4>3, ReadsUnimplemented
    <3>3. /\ receiveKeys' = Following(p)
          /\ ~Guess(p)
      BY <1>8, <3>1 DEF Following, Guess
    <3> QED
      BY <3>1, <3>2, <3>3 DEF HandledWell, Asleep
  <2> QED
    BY <1>8, <2>1, <2>2 DEF HandleUnimplemented
<1>9. CASE \/ /\ p.type = "GLOBAL_REQUEST"
              /\ Answer(<<Outgoing("REQUEST_FAILURE")>>)
           \/ p.type = "BANNER" /\ Answer(<<>>)
  <2>1. /\ sent' \in {<<>>, <<Outgoing("REQUEST_FAILURE")>>}
        /\ UNCHANGED <<socket, state, keyExchangeState, ignoreNextPacket,
                       receiveKeys, garbled, lastInvalid>>
    BY <1>9 DEF Answer, handshakeVars, timerVars, packetVars
  <2>2. \A i \in 1..Len(sent') : sent'[i].type \notin ServerWaitsFor
    BY <2>1 DEF Outgoing, ServerWaitsFor
  <2> QED
    BY <1>1, <1>9, <2>1, <2>2, OtherHandled
<1>10. CASE p.type = "CHANNEL" /\ HandleChannelMessage(p)
  <2>1. CASE ServerException
    BY <2>1, ExceptionHandled DEF ServerException
  <2>2. CASE p.arg # "bad"
    <3>1. /\ sent' = <<>>
          /\ UNCHANGED <<socket, state, keyExchangeState, ignoreNextPacket,
                         receiveKeys, garbled, lastInvalid>>
      BY <1>10, <2>2 DEF HandleChannelMessage, handshakeVars, packetVars
    <3>2. \A i \in 1..Len(sent') : sent'[i].type \notin ServerWaitsFor
      BY <3>1
    <3> QED
      BY <1>1, <1>10, <3>1, <3>2, OtherHandled
  <2> QED
    BY <1>10, <2>1, <2>2 DEF HandleChannelMessage
<1>11. CASE \/ ServerException
            \/ CloseConnection("SshAuthenticationError", <<>>, socket)
  BY <1>11, ExceptionHandled DEF ServerException
<1> HIDE DEF p
<1> QED
  BY <1>3, <1>4, <1>5, <1>6, <1>7, <1>8, <1>9, <1>10, <1>11 DEF Handle, p

(* Packets with the first keys, but for the one that is read.              *)
LEMMA RestKeys ==
    ASSUME toClient \in Seq(Incoming), toClient # <<>>, toClient' = Tail(toClient),
           \A i \in DOMAIN toClient : toClient[i].keys = 0
    PROVE  \A i \in DOMAIN toClient' : toClient'[i].keys = 0
<1>1. /\ Len(toClient) \in Nat \ {0}
      /\ DOMAIN toClient = 1..Len(toClient)
      /\ DOMAIN toClient' = 1..Len(toClient) - 1
      /\ \A i \in 1..Len(toClient) - 1 : toClient'[i] = toClient[i + 1]
  BY Rest
<1>2. \A i \in 1..Len(toClient) - 1 : i + 1 \in 1..Len(toClient)
  BY <1>1
<1> QED
  BY <1>1, <1>2

(* Nothing is read from a socket that is not used. *)
LEMMA ReadsNothing ==
    ASSUME IInv, Peers, toClient # <<>>, toClient' = Tail(toClient),
           state = "SocketUnconnected" \/ socket # "Connected" \/ garbled,
           UNCHANGED <<clientVars, toServer, server>>
    PROVE  Peers'
<1>1. /\ UNCHANGED <<socket, state, keyExchangeState, sendKeys, receiveKeys,
                     garbled>>
      /\ toServer' = toServer /\ server' = server
  BY DEF clientVars, handshakeVars, packetVars
<1>2. socket \in {"Connected", "Closing"}
  <2>1. socket \notin {"Unconnected", "Connecting"}
    BY DEF Peers, Quiet
  <2> QED
    BY <2>1 DEF IInv, TypeOK, SocketStates
<1>3. /\ toClient \in Seq(Incoming)
      /\ server \in Servers
      /\ toServer \in Seq(OutgoingPackets)
  BY DEF Peers, SessionTypes
<1>4. /\ toClient' \in Seq(Incoming)
      /\ Len(toClient) \in Nat \ {0}
      /\ Len(toClient') = Len(toClient) - 1
      /\ \A i \in 1..Len(toClient) - 1 : toClient'[i] = toClient[i + 1]
  BY <1>3, Rest
<1>5. CASE socket = "Closing"
  <2>1. Asleep' /\ (state' = "SocketConnecting" => keyExchangeState' = "NoKeyExchange")
    BY <1>1, <1>5 DEF Peers, Quiet, Asleep, Linked
  <2> QED
    BY <1>1, <1>5, <2>1, SocketCloses
<1>6. CASE socket = "Connected" /\ Asleep
  <2>1. toServer = <<>> /\ sendKeys = 0 /\ ~server.peerInit
    BY <1>6 DEF Peers, Quiet, Linked
  <2>2. /\ server.receiveKeys = 0 /\ server.sendKeys = 0 /\ receiveKeys = 0
        /\ \A i \in DOMAIN toClient : toClient[i].keys = 0
    BY <1>6, <2>1 DEF Peers, KeysInv, KeysBehind, Linked
  <2>4. \A i \in DOMAIN toClient' : toClient'[i].keys = 0
    BY <1>3, <1>4, <2>2, RestKeys
  <2>3. Asleep' /\ (state' = "SocketConnecting" => keyExchangeState' = "NoKeyExchange")
    BY <1>1, <1>6 DEF Peers, Quiet, Asleep
  <2> QED
    BY <1>1, <1>3, <1>4, <1>6, <2>1, <2>2, <2>3, <2>4, SocketUnused
<1>7. CASE socket = "Connected" /\ ~Asleep
  <2>1. garbled /\ garbled' /\ ~Asleep'
    BY <1>1, <1>7 DEF Asleep
  <2>2. SessionTypes'
    BY <1>1, <1>3, <1>4 DEF SessionTypes, OutgoingPackets, Incoming, Servers,
       SeqNr, Keys, InvalidSeqNr, PacketTypes
  <2>3. Quiet'
    BY <1>1, <1>7, <2>1 DEF Quiet, Linked, Asleep
  <2>4. KeysInv'
    BY <1>1, <1>7, <2>1 DEF Peers, KeysInv, Linked
  <2>5. ProbeInv'
    <3>1. KeepAliveKeepsOut' <=> KeepAliveKeepsOut
      BY <1>1 DEF KeepAliveKeepsOut, NotDuringExchange, DuringExchange
    <3> QED
      BY <1>1, <3>1 DEF Peers, ProbeInv, Linked
  <2>6. GuessInv' /\ ~Live'
    BY <2>1 DEF GuessInv, Live
  <2> QED
    BY <2>2, <2>3, <2>4, <2>5, <2>6 DEF Peers
<1> QED
  BY <1>2, <1>5, <1>6, <1>7

(* handleServerId() *)
LEMMA ServerIdKeeps ==
    ASSUME IInv, IInv', Peers, toClient # <<>>, toClient' = Tail(toClient),
           toClient[1].type = "ID", state # "SocketUnconnected",
           ReceiveServerId, server' = server, toServer' = toServer \o sent'
    PROVE  Peers'
<1>1. /\ Linked /\ ~garbled
      /\ UNCHANGED <<socket, state, ignoreNextPacket, sendKeys, receiveKeys,
                     lastInvalid>>
      /\ toClient \in Seq(Incoming)
      /\ server \in Servers
      /\ sent' \in Seq(OutgoingPackets)
  BY DEF ReceiveServerId, timerVars, Linked, Peers, SessionTypes, IInv, TypeOK
<1>2. CASE state = "SocketConnecting"
  <2>1. garbled' /\ sent' = <<>> /\ UNCHANGED keyExchangeState /\ Asleep /\ Asleep'
    BY <1>1, <1>2 DEF ReceiveServerId, Asleep
  <2>2. /\ toServer = <<>> /\ sendKeys = 0 /\ ~server.peerInit
        /\ keyExchangeState = "NoKeyExchange"
    BY <1>1, <1>2, <2>1 DEF Peers, Quiet
  <2>3. /\ server.receiveKeys = 0 /\ server.sendKeys = 0 /\ receiveKeys = 0
        /\ \A i \in DOMAIN toClient : toClient[i].keys = 0
    BY <1>1, <2>1, <2>2 DEF Peers, KeysInv, KeysBehind
  <2>6. \A i \in DOMAIN toClient' : toClient'[i].keys = 0
    BY <1>1, <2>3, RestKeys
  <2>4. toClient' \in Seq(Incoming)
    BY <1>1, Rest
  <2>5. toServer' = <<>>
    BY <2>1, <2>2
  <2> QED
    BY <1>1, <2>1, <2>2, <2>3, <2>4, <2>5, <2>6, SocketUnused
       DEF Linked
<1>3. CASE state = "SocketConnected" /\ keyExchangeState = "NoKeyExchange"
  <2>1. ~Asleep /\ ~Asleep' /\ Linked'
    BY <1>1, <1>3 DEF Asleep, Linked
  <2>2. CASE garbled' /\ sent' = <<>> /\ UNCHANGED keyExchangeState
    <3>1. WellSent
      BY <1>1, <2>2, PlainSent DEF Quietly
    <3> QED
      BY <1>1, <2>1, <2>2, <3>1, ClientReadsOn DEF Live
  <2>3. CASE /\ keyExchangeState' = "KexInitSent"
             /\ sent' = <<Outgoing("KEXINIT")>>
             /\ UNCHANGED garbled
    <3>1. \A i \in 1..Len(sent') : /\ sent'[i].keys = sendKeys
                                   /\ sent'[i].type \notin {"NEWKEYS", "INVALID"}
      BY <2>3 DEF Outgoing
    <3>2. WellSent
      BY <1>1, <2>3, <3>1, PlainSent DEF Quietly
    <3>3. toClient[1].keys = receiveKeys
      BY <1>1, <2>1, ChainRest DEF Peers, KeysInv
    <3>4. receiveKeys' = Following(toClient[1]) /\ ~Guess(toClient[1])
      BY <1>1, <3>3 DEF Following, Guess
    <3>5. ~ignoreNextPacket'
      BY <1>1, <1>3 DEF IInv, Control, OnlyGuessIsDropped
    <3>6. ASSUME Live' PROVE Understood'
      <4>1. Live
        BY <1>1, <2>1, <2>3, <3>6 DEF Live
      <4>2. Understood /\ SessionTypes
        BY <4>1 DEF Peers
      <4>3. toServer' \in Seq(OutgoingPackets)
        BY <1>1, <3>2, ToServerGood
      <4>4. toClient' \in Seq(Incoming)
        BY <1>1, Rest
      <4>5. SessionTypes'
        BY <4>2, <4>3, <4>4 DEF SessionTypes, OutgoingPackets, Incoming,
           Servers, SeqNr, Keys, InvalidSeqNr, PacketTypes
      <4> QED
        BY <1>1, <1>3, <2>3, <4>2, <4>5, ReadsServerId
    <3> QED
      BY <1>1, <2>1, <3>2, <3>4, <3>5, <3>6, ClientReadsOn
  <2> QED
    BY <2>2, <2>3 DEF ReceiveServerId
<1> QED
  BY <1>2, <1>3 DEF ReceiveServerId

(* handleCurrentPacket() *)
LEMMA ReceiveKeeps ==
    ASSUME IInv, IInv', Peers, toClient # <<>>, toClient' = Tail(toClient),
           toClient[1].type # "ID", Receive(toClient[1]),
           server' = server, toServer' = toServer \o sent'
    PROVE  Peers'
<1> DEFINE p == toClient[1]
<1>1. /\ Linked /\ ~garbled /\ ~Asleep
      /\ state = "SocketConnected" => keyExchangeState # "NoKeyExchange"
      /\ sent' \in Seq(OutgoingPackets)
      /\ toClient \in Seq(Incoming)
  BY DEF Receive, Linked, Asleep, IInv, TypeOK, Peers, SessionTypes
<1>2. WellSent
  BY ReceiveSent
<1>3. receiveKeys = p.keys
  <2>1. Chained(toClient, receiveKeys)
    BY <1>1 DEF Peers, KeysInv
  <2> QED
    BY <1>1, <2>1, ChainRest
<1>4. SessionTypes'
  <2>1. toServer' \in Seq(OutgoingPackets)
    BY <1>1, <1>2, ToServerGood
  <2>2. toClient' \in Seq(Incoming)
    BY <1>1, Rest
  <2> QED
    BY <2>1, <2>2 DEF Peers, SessionTypes, OutgoingPackets, Incoming, Servers,
       SeqNr, Keys, InvalidSeqNr, PacketTypes
<1>5. 1 \in DOMAIN toClient /\ p.type \in PacketTypes
  <2>1. p \in Incoming /\ Len(toClient) \in Nat \ {0}
    BY <1>1, Rest
  <2> QED
    BY <1>1, <2>1 DEF Incoming
<1>6. Guessed(p) <=> ignoreNextPacket
  BY <1>1, <1>5 DEF Peers, GuessInv
<1>7. HandledWell
  <2>1. CASE ignoreNextPacket
    <3>1. /\ ~ignoreNextPacket'
          /\ sent' = <<>>
          /\ UNCHANGED <<socket, state, keyExchangeState, lastInvalid, garbled,
                         receiveKeys>>
      BY <2>1 DEF Receive, timerVars, packetVars
    <3>2. \A i \in 1..Len(sent') : sent'[i].type \notin ServerWaitsFor
      BY <3>1
    <3> QED
      BY <1>1, <1>3, <1>4, <1>6, <2>1, <3>1, <3>2, OtherHandled
  <2>2. CASE ~ignoreNextPacket /\ p.type \notin DOMAIN packetHandlers
    <3>1. /\ ~ignoreNextPacket'
          /\ sent' = <<Outgoing("UNIMPLEMENTED")>>
          /\ UNCHANGED <<socket, state, keyExchangeState, lastInvalid, garbled,
                         receiveKeys>>
      BY <2>2 DEF Receive, Answer, handshakeVars, timerVars, packetVars
    <3>2. \A i \in 1..Len(sent') : sent'[i].type \notin ServerWaitsFor
      BY <3>1 DEF Outgoing, ServerWaitsFor
    <3>3. p.type = "IGNORE"
      BY <1>5, <2>2 DEF PacketTypes
    <3> QED
      BY <1>1, <1>3, <1>4, <3>1, <3>2, <3>3, OtherHandled
  <2>3. CASE ServerException
    BY <1>1, <2>3, ExceptionHandled DEF ServerException
  <2>4. CASE /\ ~ignoreNextPacket
             /\ p.type \in DOMAIN packetHandlers
             /\ state \in packetHandlers[p.type]
             /\ Handle(p)
    BY <1>1, <1>3, <1>4, <1>6, <2>4, Handled
  <2> QED
    BY <2>1, <2>2, <2>3, <2>4 DEF Receive
<1>8. CASE socket' = "Closing" /\ state' = "SocketUnconnected"
  BY <1>1, <1>2, <1>8, SocketCloses DEF Linked, Asleep
<1>9. CASE /\ socket' = socket
           /\ ~Asleep'
           /\ garbled' = garbled
           /\ receiveKeys' = Following(toClient[1])
           /\ ignoreNextPacket' <=> Guess(toClient[1])
           /\ Live => Understood'
  <2>1. Linked' /\ (Live' => Live)
    BY <1>1, <1>9 DEF Linked, Live
  <2> QED
    BY <1>1, <1>2, <1>9, <2>1, ClientReadsOn
<1> QED
  BY <1>7, <1>8, <1>9 DEF HandledWell

(* readyRead() *)
LEMMA ClientReadsGood ==
    ASSUME SessionInv, ClientReads
    PROVE  SessionInv'
<1>1. IInv /\ Peers /\ toClient # <<>> /\ toClient' = Tail(toClient)
  BY DEF SessionInv, ClientReads
<1>2. Head(toClient) = toClient[1]
  BY <1>1, Rest DEF Peers, SessionTypes
<1>3. CASE state = "SocketUnconnected" \/ socket # "Connected" \/ garbled
  <2>1. UNCHANGED <<clientVars, toServer, server>>
    BY <1>3 DEF ClientReads
  <2>2. IInv'
    BY <1>1, <2>1, NextGood DEF Good
  <2> QED
    BY <1>1, <1>3, <2>1, <2>2, ReadsNothing DEF SessionInv
<1>4. CASE /\ state # "SocketUnconnected"
           /\ toClient[1].type = "ID"
           /\ ReceiveServerId
           /\ toServer' = toServer \o sent' /\ server' = server
  <2>1. IInv'
    BY <1>1, <1>4, NextGood DEF Good, Next
  <2> QED
    BY <1>1, <1>4, <2>1, ServerIdKeeps DEF SessionInv
<1>5. CASE /\ toClient[1].type # "ID"
           /\ Receive(toClient[1])
           /\ toServer' = toServer \o sent' /\ server' = server
  <2>1. IInv'
    BY <1>1, <1>5, ReceiveGood DEF Good
  <2> QED
    BY <1>1, <1>5, <2>1, ReceiveKeeps DEF SessionInv
<1> QED
  BY <1>2, <1>3, <1>4, <1>5 DEF ClientReads
-----------------------------------------------------------------------------
(* The server sends s, and reads a packet first if e is 1. *)
ServerStep(e, s) ==
    /\ SessionTypes
    /\ SessionTypes'
    /\ s \in Seq(Incoming)
    /\ toClient' = toClient \o s
    /\ \/ e = 0 /\ toServer' = toServer
       \/ e = 1 /\ toServer # <<>> /\ toServer' = Tail(toServer)
    /\ UNCHANGED <<state, keyExchangeState, lastInvalid>>

Without(s, types) ==
    \A i \in 1..Len(s) : s[i].type \notin types \/ Guessed(s[i])

LEMMA ServerFacts ==
    ASSUME NEW e \in {0, 1}, NEW s, ServerStep(e, s)
    PROVE  /\ toClient \in Seq(Incoming)
           /\ toClient' \in Seq(Incoming)
           /\ toServer \in Seq(OutgoingPackets)
           /\ Len(toClient) \in Nat
           /\ Len(toClient') = Len(toClient) + Len(s)
           /\ Len(toClient') + 0 >= Len(toClient)
           /\ \A T : Kept(toClient, toClient', 0, T)
           /\ \A T : Without(s, T) => Fewer(toClient, toClient', 0, T)
           /\ \A T : Without(s, T) /\ At(toClient, T) = {} =>
                 At(toClient', T) = {}
           /\ \A T : Fewer(toServer, toServer', e, T)
           /\ \A T : At(toServer, T) = {} => At(toServer', T) = {}
<1>1. /\ toClient \in Seq(Incoming)
      /\ toServer \in Seq(OutgoingPackets)
      /\ s \in Seq(Incoming)
  BY DEF ServerStep, SessionTypes
<1>2. toClient' \in Seq(Incoming)
  BY DEF ServerStep, SessionTypes
<1>3. /\ Len(toClient) \in Nat
      /\ Len(toClient') = Len(toClient) + Len(s)
      /\ Len(toClient') + 0 >= Len(toClient)
  BY <1>1 DEF ServerStep
<1>4. \A T : Kept(toClient, toClient', 0, T)
  BY <1>1, KeptJoined DEF ServerStep
<1>5. ASSUME NEW T, Without(s, T)
      PROVE  Fewer(toClient, toClient', 0, T)
  <2>1. At(s, T) = {}
    BY <1>1, <1>5 DEF Without, At
  <2> QED
    BY <1>1, <2>1, FewerJoined DEF ServerStep
<1>6. \A T : Fewer(toServer, toServer', e, T)
  <2>1. CASE e = 0 /\ toServer' = toServer
    BY <1>1, <2>1, Still
  <2>2. CASE e = 1 /\ toServer # <<>> /\ toServer' = Tail(toServer)
    BY <1>1, <2>2, FewerRest
  <2> QED
    BY <2>1, <2>2 DEF ServerStep
<1>7. \A T : Without(s, T) /\ At(toClient, T) = {} => At(toClient', T) = {}
  BY <1>5, NoneFewer
<1>8. \A T : At(toServer, T) = {} => At(toServer', T) = {}
  BY <1>6, NoneFewer
<1> QED
  BY <1>1, <1>2, <1>3, <1>4, <1>5, <1>6, <1>7, <1>8

(* What the server does not touch goes on as before. *)
LEMMA ExchangeGoesOn ==
    ASSUME NEW e \in {0, 1}, NEW s, ServerStep(e, s), Exchange,
           Without(s, {"KEXINIT"}), Without(s, {"KEXDH_REPLY"}),
           Without(s, {"NEWKEYS"}),
           server'.exchange = server.exchange
    PROVE  Exchange'
<1>1. /\ Fewer(toClient, toClient', 0, {"KEXINIT"})
      /\ Fewer(toClient, toClient', 0, {"KEXDH_REPLY"})
      /\ Fewer(toClient, toClient', 0, {"NEWKEYS"})
      /\ Kept(toClient, toClient', 0, {"KEXDH_REPLY"})
      /\ Kept(toClient, toClient', 0, {"NEWKEYS"})
      /\ Kept(toClient, toClient', 0, {"AUTH_SUCCESS"})
      /\ Fewer(toServer, toServer', e, {"KEXDH_INIT"})
      /\ Fewer(toServer, toServer', e, {"NEWKEYS"})
  BY ServerFacts
<1>2. /\ SessionTypes /\ SessionTypes'
      /\ UNCHANGED <<state, keyExchangeState>>
  BY DEF ServerStep
<1> QED
  BY <1>1, <1>2, ExchangeFrame

LEMMA GreetingGoesOn ==
    ASSUME NEW e \in {0, 1}, NEW s, ServerStep(e, s), Greeting,
           Without(s, {"ID"}),
           server'.exchange = server.exchange,
           server'.phase = "start" =>
               server.phase = "start" /\ toClient' = toClient
    PROVE  Greeting'
<1>1. Fewer(toClient, toClient', 0, {"ID"})
  BY ServerFacts
<1>2. /\ SessionTypes /\ SessionTypes'
      /\ UNCHANGED <<state, keyExchangeState>>
  BY DEF ServerStep
<1> QED
  BY <1>1, <1>2, GreetingFrame

LEMMA LoginGoesOn ==
    ASSUME NEW e \in {0, 1}, NEW s, ServerStep(e, s), Login,
           Without(s, {"SERVICE_ACCEPT"}), Without(s, AuthReplies),
           \/ server'.phase = server.phase
           \/ server.phase = "start" /\ server'.phase = "service"
    PROVE  Login'
<1>1. Without(s, {"AUTH_SUCCESS"}) /\ Without(s, {"PASSWD_CHANGEREQ"})
  BY DEF Without, AuthReplies
<1>2. /\ Fewer(toClient, toClient', 0, {"SERVICE_ACCEPT"})
      /\ Fewer(toClient, toClient', 0, AuthReplies)
      /\ Fewer(toClient, toClient', 0, {"AUTH_SUCCESS"})
      /\ Fewer(toClient, toClient', 0, {"PASSWD_CHANGEREQ"})
      /\ Fewer(toServer, toServer', e, {"SERVICE_REQUEST"})
      /\ Fewer(toServer, toServer', e, {"AUTH_REQUEST"})
  BY <1>1, ServerFacts
<1>3. /\ SessionTypes /\ SessionTypes'
      /\ UNCHANGED state
  BY DEF ServerStep
<1> QED
  BY <1>2, <1>3, LoginFrame

LEMMA SessionGoesOn ==
    ASSUME NEW e \in {0, 1}, NEW s, ServerStep(e, s), Session,
           Without(s, {"GLOBAL_REQUEST", "CHANNEL"}),
           Without(s, {"DISCONNECT"}),
           server'.phase = "established" => server.phase = "established"
    PROVE  Session'
<1>1. /\ Fewer(toClient, toClient', 0, {"GLOBAL_REQUEST", "CHANNEL"})
      /\ Fewer(toClient, toClient', 0, {"DISCONNECT"})
      /\ Kept(toClient, toClient', 0, {"AUTH_SUCCESS"})
      /\ Len(toClient') + 0 >= Len(toClient)
  BY ServerFacts
<1>2. /\ SessionTypes /\ SessionTypes'
      /\ Established => Established'
  BY DEF ServerStep, Established
<1> QED
  BY <1>1, <1>2, SessionFrame

LEMMA ProbesGoOn ==
    ASSUME NEW e \in {0, 1}, NEW s, ServerStep(e, s), Probes,
           Without(s, {"UNIMPLEMENTED"})
    PROVE  Probes'
<1>1. /\ Fewer(toClient, toClient', 0, {"UNIMPLEMENTED"})
      /\ Fewer(toServer, toServer', e, {"INVALID"})
  BY ServerFacts
<1>2. /\ SessionTypes /\ SessionTypes'
      /\ Established => Established' /\ UNCHANGED lastInvalid
  BY DEF ServerStep, Established
<1> QED
  BY <1>1, <1>2, ProbesFrame

(* The server says nothing that has a meaning here. *)
LEMMA SaysNothing ==
    ASSUME NEW e \in {0, 1}, NEW s, ServerStep(e, s), Understood,
           \A i \in 1..Len(s) : s[i].type = "IGNORE",
           s # <<>> => server.phase # "start",
           server'.exchange = server.exchange,
           server'.phase = server.phase
    PROVE  Understood'
<1>1. /\ Without(s, {"KEXINIT"})
      /\ Without(s, {"KEXDH_REPLY"})
      /\ Without(s, {"NEWKEYS"})
      /\ Without(s, {"ID"})
      /\ Without(s, {"SERVICE_ACCEPT"})
      /\ Without(s, AuthReplies)
      /\ Without(s, {"GLOBAL_REQUEST", "CHANNEL"})
      /\ Without(s, {"DISCONNECT"})
      /\ Without(s, {"UNIMPLEMENTED"})
  BY DEF Without, AuthReplies
<1>2. server.phase = "start" => toClient' = toClient
  <2>1. toClient \in Seq(Incoming)
    BY ServerFacts
  <2> QED
    BY <2>1 DEF ServerStep
<1> QED
  BY <1>1, <1>2, ExchangeGoesOn, GreetingGoesOn, LoginGoesOn, SessionGoesOn,
     ProbesGoOn DEF Understood

(* What is at place k of s is the only packet of a type. *)
Sole(s, types, k) ==
    /\ k \in 1..Len(s)
    /\ s[k].type \in types
    /\ ~Guessed(s[k])
    /\ \A n \in 1..Len(s) : n = k \/ s[n].type \notin types \/ Guessed(s[n])

LEMMA ServerAdds ==
    ASSUME NEW e \in {0, 1}, NEW s, ServerStep(e, s), NEW T, NEW k,
           Sole(s, T, k), At(toClient, T) = {}
    PROVE  /\ At(toClient', T) = {Len(toClient) + k}
           /\ toClient'[Len(toClient) + k] = s[k]
<1>0. /\ toClient \in Seq(Incoming) /\ s \in Seq(Incoming)
      /\ toClient' = toClient \o s
  BY ServerFacts DEF ServerStep
<1>1. Len(toClient) \in Nat /\ Len(s) \in Nat /\ k \in 1..Len(s)
  BY <1>0 DEF Sole
<1>2. toClient'[Len(toClient) + k] = s[k]
  BY <1>0, <1>1
<1>3. k \in At(s, T) /\ \A n \in At(s, T) : n = k
  <2>1. DOMAIN s = 1..Len(s)
    BY <1>0
  <2> QED
    BY <2>1 DEF Sole, At
<1>4. Len(toClient) + k \in At(toClient', T)
  BY <1>0, <1>3, AtJoined
<1>5. ASSUME NEW n \in At(toClient', T)
      PROVE  n = Len(toClient) + k
  <2>1. n - Len(toClient) \in At(s, T)
    BY <1>0, AtJoined
  <2>2. n \in Int
    BY <1>0, ServerFacts, Places
  <2>3. n - Len(toClient) = k
    BY <1>3, <2>1
  <2> QED
    BY <1>1, <2>2, <2>3
<1> QED
  BY <1>1, <1>2, <1>4, <1>5

(* The packet that is read. *)
LEMMA ServerTakes ==
    ASSUME NEW s, ServerStep(1, s), NEW T, One(At(toServer, T)),
           toServer[1].type \in T, toServer[1].type # "KEXDH_REPLY"
    PROVE  1 \in At(toServer, T) /\ At(toServer', T) = {}
<1>1. /\ toServer \in Seq(OutgoingPackets)
      /\ toServer # <<>> /\ toServer' = Tail(toServer)
  BY DEF ServerStep, SessionTypes
<1>2. ~Guessed(toServer[1])
  BY DEF Guessed
<1> QED
  BY <1>1, <1>2, AtRest, NoneRest

(* What follows an established connection. *)
LEMMA AuthenticatedGoesOn ==
    ASSUME NEW e \in {0, 1}, NEW s, ServerStep(e, s), NEW i \in Int,
           Authenticated(i)
    PROVE  Authenticated(i)'
<1>1. /\ Kept(toClient, toClient', 0, {"AUTH_SUCCESS"})
      /\ SessionTypes
      /\ Established => Established'
  BY ServerFacts DEF ServerStep, Established
<1>2. i + 0 = i
  OBVIOUS
<1> QED
  BY <1>1, <1>2, AuthenticatedFrame

(* The server starts with its identification and its KEXINIT. *)
LEMMA StartUnderstood ==
    ASSUME NEW s, ServerStep(0, s), Understood,
           server.phase = "start",
           server'.phase = "service", server'.exchange = "sent",
           Len(s) \in {2, 3},
           s[1].type = "ID",
           s[2].type = "KEXINIT", s[2].arg \in {"none", "guess"},
           Len(s) = 3 => Guessed(s[3])
    PROVE  Understood'
<1>1. /\ state = "SocketConnected" /\ state' = state
      /\ keyExchangeState = "NoKeyExchange" /\ keyExchangeState' = keyExchangeState
      /\ server.exchange = "none"
      /\ toClient = <<>>
  BY DEF Understood, Greeting, ServerStep
<1>2. \A T : At(toClient, T) = {}
  BY <1>1 DEF At
<1>3. \A n \in 1..Len(s) : n = 1 \/ n = 2 \/ (n = 3 /\ Guessed(s[n]))
  <2>1. CASE Len(s) = 2
    BY <2>1
  <2>2. CASE Len(s) = 3
    BY <2>2
  <2> QED
    BY <2>1, <2>2
<1>4. /\ At(toClient', {"KEXINIT"}) = {Len(toClient) + 2}
      /\ toClient'[Len(toClient) + 2] = s[2]
  <2>1. Sole(s, {"KEXINIT"}, 2)
    BY <1>3 DEF Sole, Guessed
  <2> QED
    BY <1>2, <2>1, ServerAdds
<1>5. At(toClient', {"ID"}) = {Len(toClient) + 1}
  <2>1. Sole(s, {"ID"}, 1)
    BY <1>3 DEF Sole, Guessed
  <2> QED
    BY <1>2, <2>1, ServerAdds
<1>6. /\ Without(s, {"KEXDH_REPLY"})
      /\ Without(s, {"NEWKEYS"})
      /\ Without(s, {"SERVICE_ACCEPT"})
      /\ Without(s, AuthReplies)
      /\ Without(s, {"GLOBAL_REQUEST", "CHANNEL"})
      /\ Without(s, {"DISCONNECT"})
      /\ Without(s, {"UNIMPLEMENTED"})
  BY <1>3 DEF Without, AuthReplies
<1>7. /\ At(toClient', {"KEXDH_REPLY"}) = {}
      /\ At(toClient', {"NEWKEYS"}) = {}
  BY <1>2, <1>6, ServerFacts
<1>8. /\ At(toServer', {"KEXDH_INIT"}) = {}
      /\ At(toServer', {"NEWKEYS"}) = {}
  <2>1. /\ At(toServer, {"KEXDH_INIT"}) = {}
        /\ At(toServer, {"NEWKEYS"}) = {}
    BY <1>1 DEF Understood, Exchange, ReplyGoing, KeysGoing
  <2> QED
    BY <2>1, ServerFacts
<1>9. Exchange'
  <2>1. InitComing'
    BY <1>1, <1>4, <1>8 DEF InitComing, One
  <2>2. /\ ReplyGoing' /\ ReplyComing' /\ KeysComing' /\ KeysGoing'
    BY <1>7, <1>8 DEF ReplyGoing, ReplyComing, KeysComing, KeysGoing, One
  <2>3. ExchangeStates'
    BY <1>1 DEF ExchangeStates
  <2> QED
    BY <2>1, <2>2, <2>3 DEF Exchange
<1>10. Greeting'
  BY <1>1, <1>5 DEF Greeting, One
<1>11. Login' /\ Session' /\ Probes'
  BY <1>6, LoginGoesOn, SessionGoesOn, ProbesGoOn DEF Understood
<1> QED
  BY <1>9, <1>10, <1>11 DEF Understood

(* The server starts a further exchange. *)
LEMMA StartExchangeUnderstood ==
    ASSUME NEW s, ServerStep(0, s), Understood,
           server.phase = "established", server'.phase = "established",
           server.exchange = "none", server'.exchange = "sent",
           Len(s) \in {1, 2},
           s[1].type = "KEXINIT", s[1].arg \in {"none", "guess"},
           Len(s) = 2 => Guessed(s[2])
    PROVE  Understood'
<1>1. /\ UNCHANGED <<state, keyExchangeState>>
      /\ keyExchangeState \in {"NoKeyExchange", "NewKeysSent"}
      /\ Len(toClient) \in Nat
  BY ServerFacts DEF Understood, Exchange, ExchangeStates, ServerStep
<1>2. /\ At(toClient, {"KEXINIT"}) = {}
      /\ At(toClient, {"KEXDH_REPLY"}) = {}
      /\ At(toClient, {"ID"}) = {}
      /\ At(toServer, {"KEXDH_INIT"}) = {}
      /\ At(toServer, {"NEWKEYS"}) = {}
  BY DEF Understood, Exchange, InitComing, ReplyComing, ReplyGoing, KeysGoing,
     Greeting
<1>3. \A n \in 1..Len(s) : n = 1 \/ (n = 2 /\ Guessed(s[n]))
  <2>1. CASE Len(s) = 1
    BY <2>1
  <2>2. CASE Len(s) = 2
    BY <2>2
  <2> QED
    BY <2>1, <2>2
<1>4. /\ At(toClient', {"KEXINIT"}) = {Len(toClient) + 1}
      /\ toClient'[Len(toClient) + 1] = s[1]
  <2>1. Sole(s, {"KEXINIT"}, 1)
    BY <1>3 DEF Sole, Guessed
  <2> QED
    BY <1>2, <2>1, ServerAdds
<1>5. /\ Without(s, {"KEXDH_REPLY"})
      /\ Without(s, {"NEWKEYS"})
      /\ Without(s, {"ID"})
      /\ Without(s, {"SERVICE_ACCEPT"})
      /\ Without(s, AuthReplies)
      /\ Without(s, {"GLOBAL_REQUEST", "CHANNEL"})
      /\ Without(s, {"DISCONNECT"})
      /\ Without(s, {"UNIMPLEMENTED"})
  BY <1>3 DEF Without, AuthReplies
<1>6. /\ At(toClient', {"KEXDH_REPLY"}) = {}
      /\ At(toClient', {"ID"}) = {}
      /\ At(toServer', {"KEXDH_INIT"}) = {}
      /\ At(toServer', {"NEWKEYS"}) = {}
  BY <1>2, <1>5, ServerFacts
<1>7. /\ Fewer(toClient, toClient', 0, {"NEWKEYS"})
      /\ Kept(toClient, toClient', 0, {"NEWKEYS"})
      /\ toClient \in Seq(Incoming)
      /\ toClient' \in Seq(Incoming)
  BY <1>5, ServerFacts
<1>8. ASSUME NEW j \in At(toClient, {"NEWKEYS"})
      PROVE  j \in At(toClient', {"NEWKEYS"}) /\ j < Len(toClient) + 1
  <2>1. j \in Int /\ j <= Len(toClient)
    BY <1>7, Places
  <2>2. j - 0 \in At(toClient', {"NEWKEYS"})
    BY <1>7 DEF Kept
  <2> QED
    BY <1>1, <2>1, <2>2
<1>9. keyExchangeState = "NewKeysSent" =>
         \E j \in At(toClient', {"NEWKEYS"}) : j < Len(toClient) + 1
  BY <1>8 DEF Understood, Exchange, ExchangeStates
<1>10. InitComing'
  <2>1. PICK i \in Int : i = Len(toClient) + 1
    BY <1>1
  <2>2. Authenticated(i)
    BY <2>1 DEF Understood, Session
  <2>3. Authenticated(i)'
    BY <2>2, AuthenticatedGoesOn
  <2>4. /\ At(toClient', {"KEXINIT"}) = {i}
        /\ toClient'[i].arg # "unknown"
        /\ keyExchangeState = "NewKeysSent" =>
              \E j \in At(toClient', {"NEWKEYS"}) : j < i
    BY <1>4, <1>9, <2>1
  <2> QED
    BY <1>1, <1>6, <2>3, <2>4 DEF InitComing, One
<1>11. KeysComing'
  <2>1. One(At(toClient', {"NEWKEYS"}))
    BY <1>7, OneFewer DEF Understood, Exchange, KeysComing
  <2>2. At(toClient', {"NEWKEYS"}) # {} => keyExchangeState = "NewKeysSent"
    <3>1. \A i \in At(toClient, {"NEWKEYS"}) : keyExchangeState = "NewKeysSent"
      BY DEF Understood, Exchange, KeysComing
    <3> QED
      BY <1>7, <3>1 DEF Fewer
  <2> QED
    BY <1>1, <2>1, <2>2 DEF KeysComing
<1>12. /\ ReplyGoing' /\ ReplyComing' /\ KeysGoing'
  BY <1>6 DEF ReplyGoing, ReplyComing, KeysGoing, One
<1>13. ExchangeStates'
  <2>1. ExchangeStates
    BY DEF Understood, Exchange
  <2> QED
    BY <1>1, <1>9, <2>1 DEF ExchangeStates
<1>14. Exchange'
  BY <1>10, <1>11, <1>12, <1>13 DEF Exchange
<1>15. Greeting'
  BY <1>6 DEF Greeting, One
<1>16. Login' /\ Session' /\ Probes'
  BY <1>5, LoginGoesOn, SessionGoesOn, ProbesGoOn DEF Understood
<1> QED
  BY <1>14, <1>15, <1>16 DEF Understood

(* KEXDH_INIT: the server answers and changes its keys. *)
LEMMA InitAnswered ==
    ASSUME NEW s, ServerStep(1, s), Understood,
           toServer[1].type = "KEXDH_INIT",
           Len(s) = 2, s[1].type = "KEXDH_REPLY", s[1].arg = "none",
           s[2].type = "NEWKEYS",
           server'.exchange = "replied", server'.phase = server.phase
    PROVE  Understood'
<1>1. 1 \in At(toServer, {"KEXDH_INIT"}) /\ At(toServer', {"KEXDH_INIT"}) = {}
  BY ServerTakes DEF Understood, Exchange, ReplyGoing
<1>2. /\ server.exchange = "sent"
      /\ keyExchangeState = "DhInitSent"
      /\ UNCHANGED <<state, keyExchangeState>>
  BY <1>1 DEF Understood, Exchange, ReplyGoing, ServerStep
<1>3. /\ At(toClient, {"KEXINIT"}) = {}
      /\ At(toClient, {"KEXDH_REPLY"}) = {}
      /\ At(toClient, {"NEWKEYS"}) = {}
      /\ At(toClient, {"ID"}) = {}
      /\ At(toServer, {"NEWKEYS"}) = {}
      /\ server.phase # "start"
  BY <1>1, <1>2 DEF Understood, Exchange, InitComing, ReplyComing, KeysComing,
     KeysGoing, Greeting
<1>4. \A n \in 1..Len(s) : n = 1 \/ n = 2
  OBVIOUS
<1>5. At(toClient', {"KEXDH_REPLY"}) = {Len(toClient) + 1}
  <2>1. Sole(s, {"KEXDH_REPLY"}, 1)
    BY <1>4 DEF Sole, Guessed
  <2> QED
    BY <1>3, <2>1, ServerAdds
<1>6. At(toClient', {"NEWKEYS"}) = {Len(toClient) + 2}
  <2>1. Sole(s, {"NEWKEYS"}, 2)
    BY <1>4 DEF Sole, Guessed
  <2> QED
    BY <1>3, <2>1, ServerAdds
<1>7. /\ Without(s, {"KEXINIT"})
      /\ Without(s, {"ID"})
      /\ Without(s, {"SERVICE_ACCEPT"})
      /\ Without(s, AuthReplies)
      /\ Without(s, {"GLOBAL_REQUEST", "CHANNEL"})
      /\ Without(s, {"DISCONNECT"})
      /\ Without(s, {"UNIMPLEMENTED"})
  BY <1>4 DEF Without, AuthReplies
<1>8. /\ At(toClient', {"KEXINIT"}) = {}
      /\ At(toClient', {"ID"}) = {}
      /\ At(toServer', {"NEWKEYS"}) = {}
      /\ Len(toClient) \in Nat
  BY <1>3, <1>7, ServerFacts
<1>9. Exchange'
  <2>1. PICK n \in Nat : n = Len(toClient)
    BY <1>8
  <2>2. n + 1 < n + 2
    OBVIOUS
  <2>3. /\ At(toClient', {"KEXDH_REPLY"}) = {n + 1}
        /\ At(toClient', {"NEWKEYS"}) = {n + 2}
    BY <1>5, <1>6, <2>1
  <2>4. InitComing' /\ ReplyGoing' /\ KeysGoing'
    BY <1>1, <1>8 DEF InitComing, ReplyGoing, KeysGoing, One
  <2>5. ReplyComing' /\ KeysComing'
    BY <1>2, <1>8, <2>2, <2>3 DEF ReplyComing, KeysComing, One
  <2>6. ExchangeStates'
    BY <1>2 DEF Understood, Exchange, ExchangeStates
  <2> QED
    BY <2>4, <2>5, <2>6 DEF Exchange
<1>10. Greeting'
  BY <1>3, <1>8 DEF Greeting, One
<1>11. Login' /\ Session' /\ Probes'
  BY <1>7, LoginGoesOn, SessionGoesOn, ProbesGoOn DEF Understood
<1> QED
  BY <1>9, <1>10, <1>11 DEF Understood

(* NEWKEYS ends the exchange for the server. *)
LEMMA NewKeysAnswered ==
    ASSUME NEW s, ServerStep(1, s), Understood,
           toServer[1].type = "NEWKEYS", Len(s) = 0,
           server'.exchange = "none", server'.phase = server.phase
    PROVE  Understood'
<1>1. 1 \in At(toServer, {"NEWKEYS"}) /\ At(toServer', {"NEWKEYS"}) = {}
  BY ServerTakes DEF Understood, Exchange, KeysGoing
<1>2. /\ server.exchange = "replied"
      /\ keyExchangeState \in {"NewKeysSent", "NoKeyExchange"}
      /\ UNCHANGED <<state, keyExchangeState>>
  BY <1>1 DEF Understood, Exchange, KeysGoing, ServerStep
<1>3. /\ At(toClient, {"KEXINIT"}) = {}
      /\ At(toClient, {"KEXDH_REPLY"}) = {}
      /\ At(toClient, {"ID"}) = {}
      /\ At(toServer, {"KEXDH_INIT"}) = {}
      /\ server.phase # "start"
  BY <1>1, <1>2 DEF Understood, Exchange, InitComing, ReplyComing, ReplyGoing,
     Greeting
<1>4. \A T : Without(s, T)
  BY DEF Without
<1>5. /\ At(toClient', {"KEXINIT"}) = {}
      /\ At(toClient', {"KEXDH_REPLY"}) = {}
      /\ At(toClient', {"ID"}) = {}
      /\ At(toServer', {"KEXDH_INIT"}) = {}
      /\ Fewer(toClient, toClient', 0, {"NEWKEYS"})
      /\ Kept(toClient, toClient', 0, {"NEWKEYS"})
      /\ toClient \in Seq(Incoming)
      /\ toClient' \in Seq(Incoming)
  BY <1>3, <1>4, ServerFacts
<1>6. KeysComing'
  <2>1. One(At(toClient', {"NEWKEYS"}))
    BY <1>5, OneFewer DEF Understood, Exchange, KeysComing
  <2>2. At(toClient', {"NEWKEYS"}) # {} => keyExchangeState = "NewKeysSent"
    <3>1. \A i \in At(toClient, {"NEWKEYS"}) : keyExchangeState = "NewKeysSent"
      BY <1>2 DEF Understood, Exchange, KeysComing
    <3> QED
      BY <1>5, <3>1 DEF Fewer
  <2> QED
    BY <1>2, <2>1, <2>2 DEF KeysComing
<1>7. InitComing' /\ ReplyGoing' /\ ReplyComing' /\ KeysGoing'
  BY <1>1, <1>5 DEF InitComing, ReplyGoing, ReplyComing, KeysGoing, One
<1>8. ExchangeStates'
  <2>1. ExchangeStates
    BY DEF Understood, Exchange
  <2>2. At(toClient, {"NEWKEYS"}) # {} => At(toClient', {"NEWKEYS"}) # {}
    BY <1>5 DEF Kept
  <2> QED
    BY <1>2, <2>1, <2>2 DEF ExchangeStates
<1>9. Exchange'
  BY <1>6, <1>7, <1>8 DEF Exchange
<1>10. Greeting'
  BY <1>3, <1>5 DEF Greeting, One
<1>11. Login' /\ Session' /\ Probes'
  BY <1>4, LoginGoesOn, SessionGoesOn, ProbesGoOn DEF Understood
<1> QED
  BY <1>9, <1>10, <1>11 DEF Understood

(* SERVICE_REQUEST *)
LEMMA ServiceAnswered ==
    ASSUME NEW s, ServerStep(1, s), Understood,
           toServer[1].type = "SERVICE_REQUEST",
           Len(s) = 1, s[1].type = "SERVICE_ACCEPT",
           server'.exchange = server.exchange,
           server'.phase = "authentication"
    PROVE  Understood'
<1>1. /\ 1 \in At(toServer, {"SERVICE_REQUEST"})
      /\ At(toServer', {"SERVICE_REQUEST"}) = {}
  BY ServerTakes DEF Understood, Login
<1>2. /\ state = "UserAuthServiceRequested" /\ state' = state
      /\ At(toClient, {"SERVICE_ACCEPT"}) = {}
  BY <1>1 DEF Understood, Login, ServerStep
<1>3. /\ At(toServer, {"AUTH_REQUEST"}) = {}
      /\ At(toClient, AuthReplies) = {}
  BY <1>2 DEF Understood, Login
<1>4. \A n \in 1..Len(s) : n = 1
  OBVIOUS
<1>5. At(toClient', {"SERVICE_ACCEPT"}) = {Len(toClient) + 1}
  <2>1. Sole(s, {"SERVICE_ACCEPT"}, 1)
    BY <1>4 DEF Sole, Guessed
  <2> QED
    BY <1>2, <2>1, ServerAdds
<1>6. /\ Without(s, {"KEXINIT"})
      /\ Without(s, {"KEXDH_REPLY"})
      /\ Without(s, {"NEWKEYS"})
      /\ Without(s, {"ID"})
      /\ Without(s, AuthReplies)
      /\ Without(s, {"GLOBAL_REQUEST", "CHANNEL"})
      /\ Without(s, {"DISCONNECT"})
      /\ Without(s, {"UNIMPLEMENTED"})
  BY <1>4 DEF Without, AuthReplies
<1>7. /\ At(toServer', {"AUTH_REQUEST"}) = {}
      /\ At(toClient', AuthReplies) = {}
  BY <1>3, <1>6, ServerFacts
<1>8. /\ At(toClient', {"AUTH_SUCCESS"}) = {}
      /\ At(toClient', {"PASSWD_CHANGEREQ"}) = {}
  BY <1>7 DEF At, AuthReplies
<1>9. Login'
  BY <1>1, <1>2, <1>5, <1>7, <1>8 DEF Login, One
<1>10. Exchange' /\ Greeting' /\ Session' /\ Probes'
  BY <1>6, ExchangeGoesOn, GreetingGoesOn, SessionGoesOn, ProbesGoOn
     DEF Understood
<1> QED
  BY <1>9, <1>10 DEF Understood

(* AUTH_REQUEST, which the server grants, *)
LEMMA AuthGranted ==
    ASSUME NEW s, ServerStep(1, s), Understood,
           toServer[1].type = "AUTH_REQUEST",
           Len(s) = 2, s[1].type = "BANNER", s[2].type = "AUTH_SUCCESS",
           server'.exchange = server.exchange,
           server'.phase = "established"
    PROVE  Understood'
<1>1. /\ 1 \in At(toServer, {"AUTH_REQUEST"})
      /\ At(toServer', {"AUTH_REQUEST"}) = {}
  BY ServerTakes DEF Understood, Login
<1>2. /\ state = "UserAuthRequested" /\ state' = state
      /\ At(toClient, AuthReplies) = {}
  BY <1>1 DEF Understood, Login, ServerStep
<1>3. /\ At(toServer, {"SERVICE_REQUEST"}) = {}
      /\ At(toClient, {"SERVICE_ACCEPT"}) = {}
      /\ At(toClient, {"AUTH_SUCCESS"}) = {}
      /\ At(toClient, {"PASSWD_CHANGEREQ"}) = {}
  BY <1>2 DEF Understood, Login, At, AuthReplies
<1>4. \A n \in 1..Len(s) : n = 1 \/ n = 2
  OBVIOUS
<1>5. At(toClient', {"AUTH_SUCCESS"}) = {Len(toClient) + 2}
  <2>1. Sole(s, {"AUTH_SUCCESS"}, 2)
    BY <1>4 DEF Sole, Guessed
  <2> QED
    BY <1>3, <2>1, ServerAdds
<1>6. /\ Without(s, {"KEXINIT"})
      /\ Without(s, {"KEXDH_REPLY"})
      /\ Without(s, {"NEWKEYS"})
      /\ Without(s, {"ID"})
      /\ Without(s, {"SERVICE_ACCEPT"})
      /\ Without(s, {"PASSWD_CHANGEREQ"})
      /\ Without(s, {"GLOBAL_REQUEST", "CHANNEL"})
      /\ Without(s, {"DISCONNECT"})
      /\ Without(s, {"UNIMPLEMENTED"})
  BY <1>4 DEF Without
<1>7. /\ At(toServer', {"SERVICE_REQUEST"}) = {}
      /\ At(toClient', {"SERVICE_ACCEPT"}) = {}
      /\ At(toClient', {"PASSWD_CHANGEREQ"}) = {}
      /\ At(toClient, {"DISCONNECT"}) = {} => At(toClient', {"DISCONNECT"}) = {}
      /\ toClient \in Seq(Incoming)
      /\ toClient' \in Seq(Incoming)
      /\ Fewer(toClient, toClient', 0, {"GLOBAL_REQUEST", "CHANNEL"})
  BY <1>3, <1>6, ServerFacts
<1>8. Len(toClient') = Len(toClient) + 2 /\ Len(toClient) \in Nat
  BY ServerFacts
<1>9. Login'
  <2>1. \A j \in At(toClient', AuthReplies) : j <= Len(toClient) + 2
    BY <1>7, <1>8, Places
  <2> QED
    BY <1>1, <1>2, <1>5, <1>7, <2>1 DEF Login, One
<1>10. Session'
  <2>1. PICK n \in Nat : n = Len(toClient)
    BY <1>8
  <2>2. n + 2 < Len(toClient') + 1 /\ At(toClient', {"AUTH_SUCCESS"}) = {n + 2}
    BY <1>5, <1>8, <2>1
  <2>3. Authenticated(Len(toClient) + 1)' <=>
           (Established' \/ \E j \in At(toClient', {"AUTH_SUCCESS"}) :
                               j < Len(toClient)' + 1)
    BY DEF Authenticated
  <2>4. ASSUME NEW i \in At(toClient', {"GLOBAL_REQUEST", "CHANNEL"})
        PROVE  toClient'[i].arg # "bad" /\ Authenticated(i)'
    <3>1. i + 0 \in At(toClient, {"GLOBAL_REQUEST", "CHANNEL"})
          /\ toClient'[i] = toClient[i + 0]
      BY <1>7, <2>4 DEF Fewer
    <3>2. i \in Int /\ i + 0 = i
      BY <1>7, <2>4, Places
    <3>3. toClient[i].arg # "bad" /\ Authenticated(i)
      BY <3>1, <3>2 DEF Understood, Session
    <3>4. Authenticated(i)'
      BY <3>2, <3>3, AuthenticatedGoesOn
    <3> QED
      BY <3>1, <3>2, <3>3, <3>4
  <2>5. At(toClient', {"DISCONNECT"}) = {}
    BY <1>7 DEF Understood, Session
  <2> QED
    BY <2>2, <2>3, <2>4, <2>5 DEF Session
<1>11. Exchange' /\ Greeting' /\ Probes'
  BY <1>6, ExchangeGoesOn, GreetingGoesOn, ProbesGoOn DEF Understood
<1> QED
  BY <1>9, <1>10, <1>11 DEF Understood

(* or refuses. *)
LEMMA AuthRefused ==
    ASSUME NEW s, ServerStep(1, s), Understood,
           toServer[1].type = "AUTH_REQUEST",
           Len(s) = 1, s[1].type \in {"AUTH_FAILURE", "PASSWD_CHANGEREQ"},
           s[1].arg = "none",
           server'.exchange = server.exchange,
           server'.phase = server.phase
    PROVE  Understood'
<1>1. /\ 1 \in At(toServer, {"AUTH_REQUEST"})
      /\ At(toServer', {"AUTH_REQUEST"}) = {}
  BY ServerTakes DEF Understood, Login
<1>2. /\ state = "UserAuthRequested" /\ state' = state
      /\ At(toClient, AuthReplies) = {}
  BY <1>1 DEF Understood, Login, ServerStep
<1>3. /\ At(toServer, {"SERVICE_REQUEST"}) = {}
      /\ At(toClient, {"SERVICE_ACCEPT"}) = {}
      /\ At(toClient, {"AUTH_SUCCESS"}) = {}
      /\ At(toClient, {"PASSWD_CHANGEREQ"}) = {}
  BY <1>2 DEF Understood, Login, At, AuthReplies
<1>4. \A n \in 1..Len(s) : n = 1
  OBVIOUS
<1>5. /\ Without(s, {"KEXINIT"})
      /\ Without(s, {"KEXDH_REPLY"})
      /\ Without(s, {"NEWKEYS"})
      /\ Without(s, {"ID"})
      /\ Without(s, {"SERVICE_ACCEPT"})
      /\ Without(s, {"AUTH_SUCCESS"})
      /\ Without(s, {"GLOBAL_REQUEST", "CHANNEL"})
      /\ Without(s, {"DISCONNECT"})
      /\ Without(s, {"UNIMPLEMENTED"})
  BY <1>4 DEF Without
<1>6. \A i \in At(toClient', {"PASSWD_CHANGEREQ"}) : toClient'[i].arg = "none"
  <2>1. CASE s[1].type = "PASSWD_CHANGEREQ"
    <3>1. Sole(s, {"PASSWD_CHANGEREQ"}, 1)
      BY <1>4, <2>1 DEF Sole, Guessed
    <3>2. /\ At(toClient', {"PASSWD_CHANGEREQ"}) = {Len(toClient) + 1}
          /\ toClient'[Len(toClient) + 1] = s[1]
      BY <1>3, <3>1, ServerAdds
    <3> QED
      BY <3>2
  <2>2. CASE s[1].type # "PASSWD_CHANGEREQ"
    <3>1. Without(s, {"PASSWD_CHANGEREQ"})
      BY <1>4, <2>2 DEF Without
    <3> QED
      BY <1>3, <3>1, ServerFacts
  <2> QED
    BY <2>1, <2>2
<1>7. /\ At(toServer', {"SERVICE_REQUEST"}) = {}
      /\ At(toClient', {"SERVICE_ACCEPT"}) = {}
      /\ At(toClient', {"AUTH_SUCCESS"}) = {}
  BY <1>3, <1>5, ServerFacts
<1>8. Login'
  <2>1. "none" # "bad"
    OBVIOUS
  <2> QED
    BY <1>1, <1>2, <1>6, <1>7, <2>1 DEF Login, One
<1>9. Exchange' /\ Greeting' /\ Session' /\ Probes'
  <2>1. server'.phase # "start"
    BY <1>1 DEF Understood, Login
  <2> QED
    BY <1>5, <2>1, ExchangeGoesOn, GreetingGoesOn, SessionGoesOn, ProbesGoOn
       DEF Understood
<1> QED
  BY <1>8, <1>9 DEF Understood

(* The keep-alive packet. *)
LEMMA ProbeAnswered ==
    ASSUME NEW s, ServerStep(1, s), Understood,
           toServer[1].type = "INVALID",
           Len(s) = 1, s[1].type = "UNIMPLEMENTED",
           s[1].seqNr = toServer[1].seqNr,
           server'.exchange = server.exchange,
           server'.phase = server.phase
    PROVE  Understood'
<1>1. /\ 1 \in At(toServer, {"INVALID"})
      /\ At(toServer', {"INVALID"}) = {}
  BY ServerTakes DEF Understood, Probes
<1>2. /\ toServer[1].seqNr = lastInvalid
      /\ lastInvalid # InvalidSeqNr
      /\ Established
      /\ At(toClient, {"UNIMPLEMENTED"}) = {}
  BY <1>1 DEF Understood, Probes
<1>3. UNCHANGED <<state, lastInvalid>>
  BY DEF ServerStep
<1>4. \A n \in 1..Len(s) : n = 1
  OBVIOUS
<1>5. /\ At(toClient', {"UNIMPLEMENTED"}) = {Len(toClient) + 1}
      /\ toClient'[Len(toClient) + 1] = s[1]
  <2>1. Sole(s, {"UNIMPLEMENTED"}, 1)
    BY <1>4 DEF Sole, Guessed
  <2> QED
    BY <1>2, <2>1, ServerAdds
<1>6. Probes'
  BY <1>1, <1>2, <1>3, <1>5 DEF Probes, One, Established
<1>7. /\ Without(s, {"KEXINIT"})
      /\ Without(s, {"KEXDH_REPLY"})
      /\ Without(s, {"NEWKEYS"})
      /\ Without(s, {"ID"})
      /\ Without(s, {"SERVICE_ACCEPT"})
      /\ Without(s, AuthReplies)
      /\ Without(s, {"GLOBAL_REQUEST", "CHANNEL"})
      /\ Without(s, {"DISCONNECT"})
  BY <1>4 DEF Without, AuthReplies
<1>8. server.phase # "start"
  BY <1>2 DEF Understood, Greeting, Established
<1>9. Exchange' /\ Greeting' /\ Login' /\ Session'
  BY <1>7, <1>8, ExchangeGoesOn, GreetingGoesOn, LoginGoesOn, SessionGoesOn
     DEF Understood
<1> QED
  BY <1>6, <1>9 DEF Understood

(* The server says something of its own. *)
LEMMA SpeaksUnderstood ==
    ASSUME NEW s, ServerStep(0, s), Understood,
           server.phase = "established",
           Len(s) = 1, s[1].type \in {"GLOBAL_REQUEST", "CHANNEL"},
           s[1].arg = "none",
           server'.exchange = server.exchange,
           server'.phase = server.phase
    PROVE  Understood'
<1>1. \A n \in 1..Len(s) : n = 1
  OBVIOUS
<1>2. /\ Without(s, {"KEXINIT"})
      /\ Without(s, {"KEXDH_REPLY"})
      /\ Without(s, {"NEWKEYS"})
      /\ Without(s, {"ID"})
      /\ Without(s, {"SERVICE_ACCEPT"})
      /\ Without(s, AuthReplies)
      /\ Without(s, {"DISCONNECT"})
      /\ Without(s, {"UNIMPLEMENTED"})
  BY <1>1 DEF Without, AuthReplies
<1>3. Exchange' /\ Greeting' /\ Login' /\ Probes'
  BY <1>2, ExchangeGoesOn, GreetingGoesOn, LoginGoesOn, ProbesGoOn
     DEF Understood
<1>4. /\ toClient \in Seq(Incoming) /\ toClient' \in Seq(Incoming)
      /\ At(toClient, {"DISCONNECT"}) = {} => At(toClient', {"DISCONNECT"}) = {}
      /\ Len(toClient) \in Nat
      /\ Len(toClient') = Len(toClient) + 1
  BY <1>2, ServerFacts
<1>6. s \in Seq(Incoming) /\ toClient' = toClient \o s
  BY DEF ServerStep
<1>5. Session'
  <2>1. PICK n \in Nat : n = Len(toClient)
    BY <1>4
  <2>2. Authenticated(n + 1)
    BY <2>1 DEF Understood, Session
  <2>3. Authenticated(n + 1)' /\ Authenticated(n + 2)'
    <3>1. Authenticated(n + 2)
      BY <1>4, <2>1, <2>2, Places DEF Authenticated
    <3>2. n + 1 \in Int /\ n + 2 \in Int
      OBVIOUS
    <3> QED
      BY <2>2, <3>1, <3>2, AuthenticatedGoesOn
  <2>4. Len(toClient') + 1 = n + 2 /\ toClient'[n + 1] = s[1]
    <3>1. Len(toClient') + 1 = n + 2
      BY <1>4, <2>1
    <3>2. toClient'[n + 1] = s[1]
      BY <1>4, <1>6, <2>1
    <3> QED
      BY <3>1, <3>2
  <2>5. Authenticated(Len(toClient) + 1)'
    BY <2>3, <2>4 DEF Authenticated
  <2>6. ASSUME NEW i \in At(toClient', {"GLOBAL_REQUEST", "CHANNEL"})
        PROVE  toClient'[i].arg # "bad" /\ Authenticated(i)'
    <3>1. CASE i \in At(toClient, {"GLOBAL_REQUEST", "CHANNEL"})
      <4>1. toClient[i].arg # "bad" /\ Authenticated(i) /\ i \in Int
        BY <1>4, <3>1, Places DEF Understood, Session
      <4>2. i \in 1..Len(toClient)
        BY <1>4, <3>1 DEF At
      <4>3. toClient'[i] = toClient[i]
        BY <1>4, <1>6, <4>2
      <4> QED
        BY <4>1, <4>3, AuthenticatedGoesOn
    <3>2. CASE i - Len(toClient) \in At(s, {"GLOBAL_REQUEST", "CHANNEL"})
      <4>1. i - n = 1
        BY <1>1, <1>6, <2>1, <3>2 DEF At
      <4>2. i \in Int
        BY <1>4, Places
      <4>3. i = n + 1
        BY <4>1, <4>2
      <4> QED
        BY <2>3, <2>4, <4>3
    <3> QED
      BY <1>4, <1>6, <3>1, <3>2, AtJoined
  <2>7. At(toClient', {"DISCONNECT"}) = {}
    BY <1>4 DEF Understood, Session
  <2> QED
    BY <2>5, <2>6, <2>7 DEF Session
<1> QED
  BY <1>3, <1>5 DEF Understood
-----------------------------------------------------------------------------
(* What the server says, and how it goes out. *)
Said == [type : PacketTypes \union {"ID"},
         arg : {"none", "guess", "unknown", "bad"},
         seqNr : SeqNr \union {InvalidSeqNr}]

Wired(packets) ==
    [i \in DOMAIN packets |-> [type  |-> packets[i].type,
                               arg   |-> packets[i].arg,
                               seqNr |-> packets[i].seqNr,
                               keys  |-> server.sendKeys]]

LEMMA WiredType ==
    ASSUME server.sendKeys \in Keys, NEW packets \in Seq(Said)
    PROVE  /\ Wired(packets) \in Seq(Incoming)
           /\ Len(Wired(packets)) = Len(packets)
           /\ Len(packets) \in Nat
           /\ \A i \in 1..Len(packets) :
                 /\ Wired(packets)[i].type = packets[i].type
                 /\ Wired(packets)[i].arg = packets[i].arg
                 /\ Wired(packets)[i].seqNr = packets[i].seqNr
                 /\ Wired(packets)[i].keys = server.sendKeys
<1> DEFINE n == Len(packets)
           f == Wired(packets)
<1>1. n \in Nat /\ DOMAIN packets = 1..n
  OBVIOUS
<1>2. \A i \in 1..n : packets[i] \in Said
  OBVIOUS
<1> HIDE DEF n
<1>3. f = [i \in 1..n |-> [type  |-> packets[i].type,
                           arg   |-> packets[i].arg,
                           seqNr |-> packets[i].seqNr,
                           keys  |-> server.sendKeys]]
  BY <1>1 DEF Wired
<1> HIDE DEF f
<1>4. \A i \in 1..n : f[i] \in Incoming
  BY <1>2, <1>3 DEF Said, Incoming
<1>5. DOMAIN f = 1..n
  BY <1>3
<1>6. f \in [1..n -> Incoming]
  BY <1>3, <1>4
<1>7. f \in Seq(Incoming) /\ Len(f) = n
  BY <1>1, <1>6
<1>8. \A i \in 1..n :
          /\ f[i].type = packets[i].type
          /\ f[i].arg = packets[i].arg
          /\ f[i].seqNr = packets[i].seqNr
          /\ f[i].keys = server.sendKeys
  BY <1>3
<1> QED
  BY <1>1, <1>7, <1>8 DEF f, n

(* The packet that the server reads, if it does, changes its keys and lets *)
(* it know of the exchanges of the client.                                 *)
Learns(e) ==
    \/ /\ e = 0
       /\ toServer' = toServer
       /\ server'.receiveKeys = server.receiveKeys
       /\ server'.peerInit = server.peerInit
    \/ /\ e = 1
       /\ toServer # <<>>
       /\ toServer' = Tail(toServer)
       /\ server'.receiveKeys = IF toServer[1].type = "NEWKEYS"
                                THEN NextKeys(server.receiveKeys)
                                ELSE server.receiveKeys
       /\ toServer[1].type = "KEXINIT" => server'.peerInit
       /\ toServer[1].type = "NEWKEYS" => ~server'.peerInit
       /\ toServer[1].type \notin {"KEXINIT", "NEWKEYS"} =>
             server'.peerInit = server.peerInit

LEMMA ToServerKept ==
    ASSUME Peers, NEW e, Learns(e), UNCHANGED <<socket, keyExchangeState,
                                                sendKeys>>,
           server' \in Servers
    PROVE  /\ toServer' \in Seq(OutgoingPackets)
           /\ Chained(toServer', server'.receiveKeys)
           /\ Linked' => sendKeys' = KeysBehind(toServer', server'.receiveKeys)
           /\ ProbeInv'
<1>1. CASE e = 0
  <2>1. /\ toServer' = toServer
        /\ server'.receiveKeys = server.receiveKeys
        /\ server'.peerInit = server.peerInit
        /\ Linked' = Linked
    BY <1>1 DEF Learns, Linked
  <2>2. KeepAliveKeepsOut' <=> KeepAliveKeepsOut
    BY <2>1 DEF KeepAliveKeepsOut, NotDuringExchange, DuringExchange
  <2>3. ProbeInv'
    BY <2>1, <2>2 DEF Peers, ProbeInv
  <2>4. KeysInv /\ toServer \in Seq(OutgoingPackets)
    BY DEF Peers, SessionTypes
  <2> QED
    BY <2>1, <2>3, <2>4 DEF KeysInv
<1>2. CASE e = 1
  <2>1. /\ toServer # <<>>
        /\ toServer' = Tail(toServer)
        /\ server'.receiveKeys = IF toServer[1].type = "NEWKEYS"
                                 THEN NextKeys(server.receiveKeys)
                                 ELSE server.receiveKeys
        /\ toServer \in Seq(OutgoingPackets)
        /\ Chained(toServer, server.receiveKeys)
        /\ Linked' => /\ sendKeys' = sendKeys
                      /\ sendKeys = KeysBehind(toServer, server.receiveKeys)
    BY <1>2 DEF Learns, Linked, Peers, SessionTypes, KeysInv
  <2>2. server'.receiveKeys = Following(toServer[1])
    BY <2>1, ChainRest DEF Following
  <2>3. /\ Chained(toServer', server'.receiveKeys)
        /\ KeysBehind(toServer', server'.receiveKeys)
              = KeysBehind(toServer, server.receiveKeys)
    BY <2>1, <2>2, ChainRest
  <2>4. /\ toServer' \in Seq(OutgoingPackets)
        /\ Len(toServer) \in Nat \ {0}
        /\ Len(toServer') = Len(toServer) - 1
        /\ \A i \in 1..Len(toServer) - 1 : toServer'[i] = toServer[i + 1]
    BY <2>1, Rest
  <2> DEFINE known == server'.peerInit
             started == server.peerInit
  <2>5. /\ known \in BOOLEAN /\ started \in BOOLEAN
        /\ toServer[1].type = "KEXINIT" => known
        /\ toServer[1].type = "NEWKEYS" => ~known
        /\ toServer[1].type \notin {"KEXINIT", "NEWKEYS"} => known = started
    BY <1>2 DEF Learns, Peers, SessionTypes, Servers
  <2>6. ASSUME NEW n \in 1..Len(toServer)
        PROVE  Exchanging(toServer', known, n)
                  => Exchanging(toServer, started, n + 1)
    <3> HIDE DEF known, started
    <3> QED
      BY <2>1, <2>5, ExchangeRest
  <2> HIDE DEF known, started
  <2>7. KeepAliveKeepsOut'
    <3> SUFFICES ASSUME NEW n \in DOMAIN toServer',
                        toServer'[n].type \in {"INVALID"},
                        DuringExchange(n)'
                 PROVE  FALSE
      BY DEF KeepAliveKeepsOut, NotDuringExchange
    <3>1. /\ n \in 1..Len(toServer) - 1 /\ n \in 1..Len(toServer)
          /\ n + 1 \in DOMAIN toServer
          /\ toServer'[n] = toServer[n + 1]
      BY <2>1, <2>4
    <3>2. Exchanging(toServer', known, n)
      BY DEF DuringExchange, Exchanging, known
    <3>3. Exchanging(toServer, started, n + 1)
      BY <2>6, <3>1, <3>2
    <3>4. DuringExchange(n + 1)
      BY <3>3 DEF DuringExchange, Exchanging, started
    <3>5. toServer[n + 1].type \in {"INVALID"}
      BY <3>1
    <3> QED
      BY <3>1, <3>4, <3>5 DEF Peers, ProbeInv, KeepAliveKeepsOut,
         NotDuringExchange
  <2>8. ExchangeBehind(toServer', known) => ExchangeBehind(toServer, started)
    <3>1. /\ Len(toServer) \in 1..Len(toServer)
          /\ Len(toServer') + 1 = Len(toServer)
      BY <2>4
    <3>2. Exchanging(toServer', known, Len(toServer))
             => Exchanging(toServer, started, Len(toServer) + 1)
      BY <2>6, <3>1
    <3> QED
      BY <3>1, <3>2 DEF ExchangeBehind
  <2>9. ProbeInv'
    BY <2>7, <2>8 DEF Peers, ProbeInv, Linked, known, started
  <2> QED
    BY <2>1, <2>3, <2>4, <2>9
<1> QED
  BY <1>1, <1>2 DEF Learns
-----------------------------------------------------------------------------
(* What the server sends at a time has its present keys, changes them with *)
(* the last packet at most, and has the guessed packets where they belong. *)
SaidWell(s) ==
    /\ \A i \in 1..Len(s) : s[i].keys = server.sendKeys
    /\ \A i \in 1..Len(s) : s[i].type = "NEWKEYS" => i = Len(s)
    /\ \A i \in 1..Len(s) : Guess(s[i]) =>
          i + 1 \in 1..Len(s) /\ Guessed(s[i + 1])
    /\ \A i \in 1..Len(s) : Guessed(s[i]) =>
          i - 1 \in 1..Len(s) /\ Guess(s[i - 1])

LEMMA SaidChained ==
    ASSUME NEW s \in Seq(Incoming), SaidWell(s)
    PROVE  Chained(s, server.sendKeys)
<1>1. /\ Len(s) \in Nat
      /\ s # <<>> => 1 \in 1..Len(s)
      /\ \A i \in 2..Len(s) : i \in 1..Len(s) /\ i - 1 \in 1..Len(s) /\ i - 1 # Len(s)
  OBVIOUS
<1>2. \A i \in 2..Len(s) : Following(s[i - 1]) = server.sendKeys
  BY <1>1 DEF SaidWell, Following
<1> QED
  BY <1>1, <1>2 DEF SaidWell, Chained

(* Guessed packets still come behind their KEXINIT. *)
LEMMA GuessesJoined ==
    ASSUME NEW s \in Seq(Incoming), SaidWell(s), SessionTypes,
           toClient' = toClient \o s, GuessInv,
           UNCHANGED <<state, garbled, ignoreNextPacket>>
    PROVE  GuessInv'
<1> SUFFICES ASSUME ~Asleep, ~garbled
             PROVE  GuessInv'
  BY DEF GuessInv, Asleep
<1>1. /\ toClient' \in Seq(Incoming)
      /\ toClient \in Seq(Incoming)
      /\ Len(toClient) \in Nat
      /\ Len(s) \in Nat
      /\ Len(toClient') = Len(toClient) + Len(s)
      /\ \A i \in 1..Len(toClient) : toClient'[i] = toClient[i]
      /\ \A i \in 1..Len(s) : toClient'[Len(toClient) + i] = s[i]
  BY Joined DEF SessionTypes
<1> DEFINE n == Len(toClient)
           m == Len(s)
           t == toClient'
<1>2. /\ t \in Seq(Incoming) /\ n \in Nat /\ m \in Nat
      /\ Len(t) = n + m
      /\ \A i \in 1..n : t[i] = toClient[i]
      /\ \A i \in 1..m : t[n + i] = s[i]
  BY <1>1
<1>3. /\ ignoreNextPacket => toClient # <<>> /\ Guessed(toClient[1])
      /\ \A i \in 1..n : Guess(toClient[i]) =>
            i < n /\ Guessed(toClient[i + 1])
      /\ \A i \in 1..n : Guessed(toClient[i]) =>
            \/ i = 1 /\ ignoreNextPacket
            \/ i > 1 /\ Guess(toClient[i - 1])
      /\ toClient # <<>> => n >= 1
  BY <1>1 DEF GuessInv
<1>4. /\ \A i \in 1..m : Guess(s[i]) => i + 1 \in 1..m /\ Guessed(s[i + 1])
      /\ \A i \in 1..m : Guessed(s[i]) => i - 1 \in 1..m /\ Guess(s[i - 1])
  BY DEF SaidWell
<1>5. DOMAIN t = 1..Len(t) /\ (t # <<>> <=> Len(t) # 0)
  BY <1>1
<1> HIDE DEF n, m, t
<1>6. ignoreNextPacket => t # <<>> /\ Guessed(t[1])
  BY <1>2, <1>3, <1>5 DEF n
<1>7. ASSUME NEW i \in DOMAIN t, Guess(t[i])
      PROVE  i < Len(t) /\ Guessed(t[i + 1])
  <2>1. CASE i \in 1..n
    BY <1>2, <1>3, <1>7, <2>1
  <2>2. CASE i \notin 1..n
    <3> DEFINE k == i - n
    <3>1. k \in 1..m /\ i = n + k /\ i + 1 = n + (k + 1)
      BY <1>2, <1>5, <2>2
    <3> HIDE DEF k
    <3>2. t[i] = s[k]
      BY <1>2, <3>1
    <3>3. k + 1 \in 1..m /\ Guessed(s[k + 1])
      BY <1>4, <1>7, <3>1, <3>2
    <3>4. t[n + (k + 1)] = s[k + 1]
      BY <1>2, <3>3
    <3>5. i < Len(t)
      BY <1>2, <3>1, <3>3
    <3> QED
      BY <3>1, <3>3, <3>4, <3>5
  <2> QED
    BY <2>1, <2>2
<1>8. ASSUME NEW i \in DOMAIN t, Guessed(t[i])
      PROVE  \/ i = 1 /\ ignoreNextPacket
             \/ i > 1 /\ Guess(t[i - 1])
  <2>1. CASE i \in 1..n
    <3>1. t[i] = toClient[i] /\ (i > 1 => t[i - 1] = toClient[i - 1])
      BY <1>2, <2>1
    <3> QED
      BY <1>3, <1>8, <2>1, <3>1
  <2>2. CASE i \notin 1..n
    <3> DEFINE k == i - n
    <3>1. k \in 1..m /\ i = n + k /\ i - 1 = n + (k - 1)
      BY <1>2, <1>5, <2>2
    <3> HIDE DEF k
    <3>2. t[i] = s[k]
      BY <1>2, <3>1
    <3>3. k - 1 \in 1..m /\ Guess(s[k - 1])
      BY <1>4, <1>8, <3>1, <3>2
    <3>4. t[n + (k - 1)] = s[k - 1]
      BY <1>2, <3>3
    <3>5. i > 1
      BY <1>2, <3>1, <3>3
    <3> QED
      BY <3>1, <3>3, <3>4, <3>5
  <2> QED
    BY <2>1, <2>2
<1> QED
  BY <1>6, <1>7, <1>8 DEF GuessInv, t

(* The server goes on. *)
LEMMA ServerGoesOn ==
    ASSUME Peers, UNCHANGED clientVars, socket \in {"Connected", "Closing"},
           NEW e \in {0, 1}, Learns(e),
           NEW s \in Seq(Incoming), toClient' = toClient \o s, SaidWell(s),
           server' \in Servers,
           server'.sendKeys = KeysBehind(s, server.sendKeys),
           e = 1 \/ server'.sendKeys = server.sendKeys,
           Live' => Understood'
    PROVE  Peers'
<1>1. /\ UNCHANGED <<socket, state, keyExchangeState, sendKeys, receiveKeys,
                     ignoreNextPacket, garbled>>
      /\ Linked' = Linked /\ Asleep' = Asleep
  BY DEF clientVars, handshakeVars, packetVars, Linked, Asleep
<1>2. /\ SessionTypes /\ Quiet /\ KeysInv /\ GuessInv /\ ProbeInv
      /\ toClient \in Seq(Incoming)
  BY DEF Peers, SessionTypes
<1>3. /\ toServer' \in Seq(OutgoingPackets)
      /\ Chained(toServer', server'.receiveKeys)
      /\ Linked' => sendKeys' = KeysBehind(toServer', server'.receiveKeys)
      /\ ProbeInv'
  BY <1>1, ToServerKept
<1>4. toClient' \in Seq(Incoming)
  BY <1>2, Joined
<1>5. SessionTypes'
  BY <1>3, <1>4 DEF SessionTypes, OutgoingPackets, Incoming, Servers, SeqNr,
     Keys, InvalidSeqNr, PacketTypes
<1>6. Quiet'
  <2>1. Linked /\ Asleep => toServer' = <<>> /\ sendKeys' = 0 /\ ~server'.peerInit
    BY <1>1, <1>2 DEF Quiet, Learns
  <2> QED
    BY <1>1, <1>2, <2>1 DEF Quiet, Linked
<1>7. KeysInv'
  <2>1. ASSUME ~Asleep, ~garbled
        PROVE  /\ Chained(toClient', receiveKeys)
               /\ server'.sendKeys = KeysBehind(toClient', receiveKeys)
    <3>1. /\ Chained(toClient, receiveKeys)
          /\ server.sendKeys = KeysBehind(toClient, receiveKeys)
      BY <1>2, <2>1 DEF KeysInv
    <3>2. Chained(s, KeysBehind(toClient, receiveKeys))
      BY <3>1, SaidChained
    <3> QED
      BY <1>2, <3>1, <3>2, ChainJoined
  <2>2. ASSUME Linked, Asleep
        PROVE  /\ receiveKeys' = 0
               /\ server'.sendKeys = 0
               /\ \A i \in DOMAIN toClient' : toClient'[i].keys = 0
    <3>1. /\ toServer = <<>> /\ receiveKeys = 0 /\ server.sendKeys = 0
          /\ \A i \in DOMAIN toClient : toClient[i].keys = 0
      BY <1>2, <2>2 DEF Quiet, KeysInv
    <3>2. e = 0
      BY <3>1 DEF Learns
    <3>3. /\ Len(toClient') = Len(toClient) + Len(s)
          /\ Len(toClient) \in Nat /\ Len(s) \in Nat
          /\ \A i \in 1..Len(toClient) : toClient'[i] = toClient[i]
          /\ \A i \in 1..Len(s) : toClient'[Len(toClient) + i] = s[i]
      BY <1>2, Joined
    <3>4. ASSUME NEW i \in DOMAIN toClient'
          PROVE  toClient'[i].keys = 0
      <4>1. i \in 1..Len(toClient')
        BY <1>4
      <4> DEFINE t == toClient'
                 n == Len(toClient)
                 m == Len(s)
      <4>2. /\ i \in 1..n + m /\ n \in Nat /\ m \in Nat
            /\ \A k \in 1..n : t[k] = toClient[k] /\ toClient[k].keys = 0
            /\ \A k \in 1..m : t[n + k] = s[k] /\ s[k].keys = 0
        BY <1>2, <3>1, <3>3, <4>1 DEF SaidWell
      <4> HIDE DEF t, n, m
      <4>3. CASE i \in 1..n
        BY <4>2, <4>3 DEF t
      <4>4. CASE i \notin 1..n
        <5>1. i - n \in 1..m /\ n + (i - n) = i
          BY <4>2, <4>4
        <5>2. t[n + (i - n)] = s[i - n] /\ s[i - n].keys = 0
          BY <4>2, <5>1
        <5> QED
          BY <5>1, <5>2 DEF t
      <4> QED
        BY <4>3, <4>4
    <3> QED
      BY <1>1, <3>1, <3>2, <3>4
  <2> QED
    BY <1>1, <1>3, <2>1, <2>2 DEF KeysInv
<1>8. GuessInv'
  BY <1>1, <1>2, GuessesJoined
<1> QED
  BY <1>3, <1>5, <1>6, <1>7, <1>8 DEF Peers
-----------------------------------------------------------------------------
(* One, two or three packets go out.                                       *)
Like(a, p) == /\ a.type = p.type
              /\ a.arg = p.arg
              /\ a.seqNr = p.seqNr
              /\ a.keys = server.sendKeys

LEMMA SendsAny ==
    ASSUME SessionTypes, NEW packets \in Seq(Said), NEW x,
           ServerSends(packets, x)
    PROVE  \E s \in Seq(Incoming) :
              /\ toClient' = toClient \o s
              /\ Len(s) = Len(packets)
              /\ \A i \in 1..Len(packets) : Like(s[i], packets[i])
<1>1. toClient' = toClient \o Wired(packets)
  BY DEF ServerSends, Wired
<1>2. server.sendKeys \in Keys
  BY DEF SessionTypes, Servers
<1>3. /\ Wired(packets) \in Seq(Incoming)
      /\ Len(Wired(packets)) = Len(packets)
      /\ \A i \in 1..Len(packets) :
            /\ Wired(packets)[i].type = packets[i].type
            /\ Wired(packets)[i].arg = packets[i].arg
            /\ Wired(packets)[i].seqNr = packets[i].seqNr
            /\ Wired(packets)[i].keys = server.sendKeys
  BY <1>2, WiredType
<1> QED
  BY <1>1, <1>3 DEF Like

LEMMA SendsNothing ==
    ASSUME SessionTypes, NEW x, ServerSends(<<>>, x)
    PROVE  \E s \in Seq(Incoming) : toClient' = toClient \o s /\ Len(s) = 0
<1>1. <<>> \in Seq(Said) /\ Len(<<>>) = 0
  OBVIOUS
<1> QED
  BY <1>1, SendsAny

LEMMA SendsOne ==
    ASSUME SessionTypes, NEW a \in Said, NEW x, ServerSends(<<a>>, x)
    PROVE  \E s \in Seq(Incoming) :
              toClient' = toClient \o s /\ Len(s) = 1 /\ Like(s[1], a)
<1> DEFINE t == <<a>>
<1>1. t \in Seq(Said) /\ Len(t) = 1 /\ t[1] = a
  OBVIOUS
<1>2. ServerSends(t, x)
  OBVIOUS
<1> HIDE DEF t
<1>3. PICK s \in Seq(Incoming) :
              /\ toClient' = toClient \o s
              /\ Len(s) = Len(t)
              /\ \A i \in 1..Len(t) : Like(s[i], t[i])
  BY <1>1, <1>2, SendsAny
<1> QED
  BY <1>1, <1>3

LEMMA SendsTwo ==
    ASSUME SessionTypes, NEW a \in Said, NEW b \in Said, NEW x,
           ServerSends(<<a, b>>, x)
    PROVE  \E s \in Seq(Incoming) :
              /\ toClient' = toClient \o s
              /\ Len(s) = 2
              /\ Like(s[1], a) /\ Like(s[2], b)
<1> DEFINE t == <<a, b>>
<1>1. t \in Seq(Said) /\ Len(t) = 2 /\ t[1] = a /\ t[2] = b
  OBVIOUS
<1>2. ServerSends(t, x)
  OBVIOUS
<1> HIDE DEF t
<1>3. PICK s \in Seq(Incoming) :
              /\ toClient' = toClient \o s
              /\ Len(s) = Len(t)
              /\ \A i \in 1..Len(t) : Like(s[i], t[i])
  BY <1>1, <1>2, SendsAny
<1>4. 1 \in 1..Len(t) /\ 2 \in 1..Len(t)
  BY <1>1
<1>5. Like(s[1], a) /\ Like(s[2], b)
  BY <1>1, <1>3, <1>4
<1> QED
  BY <1>1, <1>3, <1>5

LEMMA SendsThree ==
    ASSUME SessionTypes, NEW a \in Said, NEW b \in Said, NEW c \in Said, NEW x,
           ServerSends(<<a, b, c>>, x)
    PROVE  \E s \in Seq(Incoming) :
              /\ toClient' = toClient \o s
              /\ Len(s) = 3
              /\ Like(s[1], a) /\ Like(s[2], b) /\ Like(s[3], c)
<1> DEFINE t == <<a, b, c>>
<1>1. t \in Seq(Said) /\ Len(t) = 3 /\ t[1] = a /\ t[2] = b /\ t[3] = c
  OBVIOUS
<1>2. ServerSends(t, x)
  OBVIOUS
<1> HIDE DEF t
<1>3. PICK s \in Seq(Incoming) :
              /\ toClient' = toClient \o s
              /\ Len(s) = Len(t)
              /\ \A i \in 1..Len(t) : Like(s[i], t[i])
  BY <1>1, <1>2, SendsAny
<1>4. 1 \in 1..Len(t) /\ 2 \in 1..Len(t) /\ 3 \in 1..Len(t)
  BY <1>1
<1>5. Like(s[1], a) /\ Like(s[2], b) /\ Like(s[3], c)
  BY <1>1, <1>3, <1>4
<1> QED
  BY <1>1, <1>3, <1>5

(* The packets that the server names by their types only.                  *)
LEMMA PacketType ==
    ASSUME NEW type \in PacketTypes \union {"ID"},
           NEW arg \in {"none", "guess", "unknown", "bad"}
    PROVE  /\ Packet(type, arg) \in Said
           /\ Packet(type, arg).type = type
           /\ Packet(type, arg).arg = arg
  BY DEF Packet, Said

LEMMA TypesOfOne ==
    ASSUME NEW a
    PROVE  Types(<<a>>) = <<Packet(a, "none")>>
  BY DEF Types

LEMMA TypesOfTwo ==
    ASSUME NEW a, NEW b
    PROVE  Types(<<a, b>>) = <<Packet(a, "none"), Packet(b, "none")>>
  BY DEF Types
-----------------------------------------------------------------------------
(* A step of the server. *)
LEMMA ServerStepGood ==
    ASSUME SessionInv, ServerAwake, UNCHANGED clientVars,
           NEW e \in {0, 1}, Learns(e),
           NEW s \in Seq(Incoming), toClient' = toClient \o s, SaidWell(s),
           server' \in Servers,
           server'.sendKeys = KeysBehind(s, server.sendKeys),
           e = 1 \/ server'.sendKeys = server.sendKeys,
           server.leaving => server'.leaving,
           ServerStep(e, s) /\ Understood /\ ~server'.leaving => Understood'
    PROVE  SessionInv'
<1>1. /\ IInv /\ Peers /\ SessionTypes
      /\ toClient \in Seq(Incoming)
      /\ UNCHANGED <<socket, state, keyExchangeState, sendKeys, garbled,
                     lastInvalid>>
  BY DEF SessionInv, Peers, SessionTypes, clientVars, handshakeVars, packetVars,
     timerVars
<1>2. IInv'
  BY <1>1, NextGood DEF Good
<1>3. toServer' \in Seq(OutgoingPackets)
  BY <1>1, ToServerKept
<1>4. toClient' \in Seq(Incoming)
  BY <1>1, Joined
<1>5. SessionTypes'
  BY <1>3, <1>4 DEF SessionTypes, OutgoingPackets, Incoming, Servers, SeqNr,
     Keys, InvalidSeqNr, PacketTypes
<1>6. ServerStep(e, s)
  BY <1>1, <1>5 DEF ServerStep, Learns
<1>7. Live' => Live /\ ~server'.leaving
  BY <1>1 DEF Live, Asleep
<1>8. Live' => Understood'
  BY <1>1, <1>6, <1>7 DEF Peers
<1>9. socket \in {"Connected", "Closing"}
  BY DEF ServerAwake
<1>10. Peers'
  BY <1>1, <1>8, <1>9, ServerGoesOn
<1> QED
  BY <1>2, <1>10 DEF SessionInv

(* Packets that are no part of an exchange. *)
LEMMA PlainSaid ==
    ASSUME NEW s \in Seq(Incoming),
           \A i \in 1..Len(s) : /\ s[i].keys = server.sendKeys
                                /\ s[i].type \notin {"NEWKEYS", "KEXINIT",
                                                     "KEXDH_REPLY"}
    PROVE  SaidWell(s) /\ KeysBehind(s, server.sendKeys) = server.sendKeys
<1>1. SaidWell(s)
  BY DEF SaidWell, Guess, Guessed
<1>2. s # <<>> => Len(s) \in 1..Len(s)
  OBVIOUS
<1> QED
  BY <1>1, <1>2 DEF KeysBehind, Following

(* A KEXINIT of the server: the first packet or the second. *)
LEMMA InitSaid ==
    ASSUME NEW s \in Seq(Incoming), Len(s) \in {1, 2},
           \A i \in 1..Len(s) : s[i].keys = server.sendKeys,
           s[1].type = "KEXINIT",
           Guess(s[1]) => Len(s) = 2,
           Len(s) = 2 => Guess(s[1]) /\ Guessed(s[2])
    PROVE  SaidWell(s) /\ KeysBehind(s, server.sendKeys) = server.sendKeys
<1>1. CASE Len(s) = 1
  BY <1>1 DEF SaidWell, Guess, Guessed, KeysBehind, Following
<1>2. CASE Len(s) = 2
  <2>1. 1..Len(s) = {1, 2}
    BY <1>2
  <2> QED
    BY <1>2, <2>1 DEF SaidWell, Guess, Guessed, KeysBehind, Following
<1> QED
  BY <1>1, <1>2

LEMMA StartSaid ==
    ASSUME NEW s \in Seq(Incoming), Len(s) \in {2, 3},
           \A i \in 1..Len(s) : s[i].keys = server.sendKeys,
           s[1].type = "ID", s[2].type = "KEXINIT",
           Guess(s[2]) => Len(s) = 3,
           Len(s) = 3 => Guess(s[2]) /\ Guessed(s[3])
    PROVE  SaidWell(s) /\ KeysBehind(s, server.sendKeys) = server.sendKeys
<1>1. CASE Len(s) = 2
  <2>1. 1..Len(s) = {1, 2}
    BY <1>1
  <2> QED
    BY <1>1, <2>1 DEF SaidWell, Guess, Guessed, KeysBehind, Following
<1>2. CASE Len(s) = 3
  <2>1. 1..Len(s) = {1, 2, 3}
    BY <1>2
  <2> QED
    BY <1>2, <2>1 DEF SaidWell, Guess, Guessed, KeysBehind, Following
<1> QED
  BY <1>1, <1>2

(* The packets with which the server starts. *)
LEMMA StartPackets ==
    /\ Packet("ID", "none") \in Said
    /\ Packet("ID", "none").type = "ID"
    /\ Packet("KEXINIT", "none") \in Said
    /\ Packet("KEXINIT", "none").type = "KEXINIT"
    /\ Packet("KEXINIT", "none").arg = "none"
    /\ Packet("KEXINIT", "guess") \in Said
    /\ Packet("KEXINIT", "guess").type = "KEXINIT"
    /\ Packet("KEXINIT", "guess").arg = "guess"
    /\ Packet("KEXDH_REPLY", "bad") \in Said
    /\ Packet("KEXDH_REPLY", "bad").type = "KEXDH_REPLY"
    /\ Packet("KEXDH_REPLY", "bad").arg = "bad"
<1>1. ASSUME NEW a \in {"ID", "KEXINIT", "KEXDH_REPLY"}
      PROVE  a \in PacketTypes \union {"ID"}
  BY DEF PacketTypes, packetHandlers
<1>2. /\ "none" \in {"none", "guess", "unknown", "bad"}
      /\ "guess" \in {"none", "guess", "unknown", "bad"}
      /\ "bad" \in {"none", "guess", "unknown", "bad"}
  OBVIOUS
<1>3. ASSUME NEW a \in {"ID", "KEXINIT", "KEXDH_REPLY"},
             NEW b \in {"none", "guess", "bad"}
      PROVE  /\ Packet(a, b) \in Said
             /\ Packet(a, b).type = a
             /\ Packet(a, b).arg = b
  <2>1. a \in PacketTypes \union {"ID"} /\ b \in {"none", "guess", "unknown", "bad"}
    BY <1>1, <1>2
  <2> QED
    BY <2>1, PacketType
<1> QED
  BY <1>3

LEMMA Behind ==
    ASSUME NEW a, NEW b, NEW c
    PROVE  /\ <<a>> \o <<b>> = <<a, b>>
           /\ <<a>> \o <<b, c>> = <<a, b, c>>
<1> PICK S : S = {a, b, c}
  OBVIOUS
<1> DEFINE s == <<a>> \o <<b>>
           t == <<a, b>>
           u == <<a>> \o <<b, c>>
           v == <<a, b, c>>
<1> a \in S /\ b \in S /\ c \in S
  OBVIOUS
<1>1. /\ s \in Seq(S) /\ Len(s) = 2 /\ s[1] = a /\ s[2] = b
      /\ t \in Seq(S) /\ Len(t) = 2 /\ t[1] = a /\ t[2] = b
  OBVIOUS
<1>2. /\ u \in Seq(S) /\ Len(u) = 3 /\ u[1] = a /\ u[2] = b /\ u[3] = c
      /\ v \in Seq(S) /\ Len(v) = 3 /\ v[1] = a /\ v[2] = b /\ v[3] = c
  OBVIOUS
<1> HIDE DEF s, t, u, v
<1>3. s = t
  BY <1>1, SeqEqual
<1>4. u = v
  <2>1. \A i \in 1..Len(u) : u[i] = v[i]
    <3>1. 1..Len(u) = {1, 2, 3}
      BY <1>2
    <3> QED
      BY <1>2, <3>1
  <2> QED
    BY <1>2, <2>1, SeqEqual
<1> QED
  BY <1>3, <1>4 DEF s, t, u, v

LEMMA ServerStartsGood ==
    ASSUME SessionInv, ServerStarts
    PROVE  SessionInv'
<1>1. ServerAwake /\ server.phase = "start" /\ toServer' = toServer
  BY DEF ServerStarts
<1> DEFINE x == [server EXCEPT !.phase = "service", !.exchange = "sent"]
<1>2. PICK guess \in BOOLEAN :
          ServerSends(<<Packet("ID", "none")>> \o KexInit(guess), x)
  BY DEF ServerStarts
<1>3. SessionTypes /\ server \in Servers
  BY DEF SessionInv, Peers, SessionTypes
<1>4. UNCHANGED clientVars /\ server' = x
  BY <1>2 DEF ServerSends
<1>5. /\ server' \in Servers
      /\ server'.phase = "service" /\ server'.exchange = "sent"
      /\ server'.sendKeys = server.sendKeys
      /\ server'.leaving = server.leaving
      /\ Learns(0)
  BY <1>1, <1>3, <1>4 DEF Servers, Learns
<1> HIDE DEF x
<1>7. CASE guess
  <2> DEFINE a == Packet("ID", "none")
             b == Packet("KEXINIT", "guess")
             c == Packet("KEXDH_REPLY", "bad")
  <2>1. <<a>> \o KexInit(guess) = <<a, b, c>>
    BY <1>7, Behind DEF KexInit
  <2>2. /\ b \in Said /\ b.type = "KEXINIT" /\ b.arg = "guess"
        /\ c \in Said /\ c.type = "KEXDH_REPLY" /\ c.arg = "bad"
        /\ a \in Said /\ a.type = "ID"
    BY StartPackets
  <2>3. ServerSends(<<a, b, c>>, x)
    BY <1>2, <2>1
  <2> HIDE DEF a, b, c
  <2>4. PICK s \in Seq(Incoming) :
            /\ toClient' = toClient \o s
            /\ Len(s) = 3
            /\ Like(s[1], a) /\ Like(s[2], b) /\ Like(s[3], c)
    BY <1>3, <2>2, <2>3, SendsThree
  <2>5. /\ s[1].type = "ID" /\ s[2].type = "KEXINIT" /\ s[2].arg = "guess"
        /\ Guess(s[2]) /\ Guessed(s[3])
        /\ s[1].keys = server.sendKeys
        /\ s[2].keys = server.sendKeys
        /\ s[3].keys = server.sendKeys
    BY <2>2, <2>4 DEF Like, Guess, Guessed
  <2>6. \A i \in 1..Len(s) : s[i].keys = server.sendKeys
    <3>1. 1..Len(s) = {1, 2, 3}
      BY <2>4
    <3> QED
      BY <2>5, <3>1
  <2>7. SaidWell(s) /\ KeysBehind(s, server.sendKeys) = server.sendKeys
    BY <2>4, <2>5, <2>6, StartSaid
  <2>8. ServerStep(0, s) /\ Understood => Understood'
    BY <1>1, <1>5, <2>4, <2>5, StartUnderstood
  <2> QED
    BY <1>1, <1>4, <1>5, <2>4, <2>7, <2>8, ServerStepGood
<1>8. CASE ~guess
  <2> DEFINE a == Packet("ID", "none")
             b == Packet("KEXINIT", "none")
  <2>1. <<a>> \o KexInit(guess) = <<a, b>>
    BY <1>8, Behind DEF KexInit
  <2>2. /\ b \in Said /\ b.type = "KEXINIT" /\ b.arg = "none"
        /\ a \in Said /\ a.type = "ID"
    BY StartPackets
  <2>3. ServerSends(<<a, b>>, x)
    BY <1>2, <2>1
  <2> HIDE DEF a, b
  <2>4. PICK s \in Seq(Incoming) :
            /\ toClient' = toClient \o s
            /\ Len(s) = 2
            /\ Like(s[1], a) /\ Like(s[2], b)
    BY <1>3, <2>2, <2>3, SendsTwo
  <2>5. /\ s[1].type = "ID" /\ s[2].type = "KEXINIT" /\ s[2].arg = "none"
        /\ ~Guess(s[2]) /\ Len(s) # 3
        /\ s[1].keys = server.sendKeys
        /\ s[2].keys = server.sendKeys
    BY <2>2, <2>4 DEF Like, Guess
  <2>6. \A i \in 1..Len(s) : s[i].keys = server.sendKeys
    <3>1. 1..Len(s) = {1, 2}
      BY <2>4
    <3> QED
      BY <2>5, <3>1
  <2>7. SaidWell(s) /\ KeysBehind(s, server.sendKeys) = server.sendKeys
    BY <2>4, <2>5, <2>6, StartSaid
  <2>8. ServerStep(0, s) /\ Understood => Understood'
    BY <1>1, <1>5, <2>4, <2>5, StartUnderstood
  <2> QED
    BY <1>1, <1>4, <1>5, <2>4, <2>7, <2>8, ServerStepGood
<1> QED
  BY <1>7, <1>8

LEMMA ServerStartsExchangeGood ==
    ASSUME SessionInv, ServerStartsExchange
    PROVE  SessionInv'
<1>1. /\ ServerAwake /\ server.phase = "established" /\ toServer' = toServer
      /\ server.exchange = "none"
  BY DEF ServerStartsExchange
<1> DEFINE x == [server EXCEPT !.exchange = "sent", !.exchanges = @ + 1]
<1>2. PICK guess \in BOOLEAN : ServerSends(KexInit(guess), x)
  BY DEF ServerStartsExchange
<1>3. SessionTypes /\ server \in Servers
  BY DEF SessionInv, Peers, SessionTypes
<1>4. UNCHANGED clientVars /\ server' = x
  BY <1>2 DEF ServerSends
<1>5. server.exchanges + 1 \in Nat
  BY <1>3 DEF Servers
<1>6. /\ server' \in Servers
      /\ server'.phase = server.phase /\ server'.exchange = "sent"
      /\ server'.sendKeys = server.sendKeys
      /\ server'.leaving = server.leaving
      /\ Learns(0)
  BY <1>1, <1>3, <1>4, <1>5 DEF Servers, Learns
<1> HIDE DEF x
<1>7. CASE guess
  <2> DEFINE b == Packet("KEXINIT", "guess")
             c == Packet("KEXDH_REPLY", "bad")
  <2>1. KexInit(guess) = <<b, c>>
    BY <1>7 DEF KexInit
  <2>2. /\ b \in Said /\ b.type = "KEXINIT" /\ b.arg = "guess"
        /\ c \in Said /\ c.type = "KEXDH_REPLY" /\ c.arg = "bad"
    BY StartPackets
  <2>3. ServerSends(<<b, c>>, x)
    BY <1>2, <2>1
  <2> HIDE DEF b, c
  <2>4. PICK s \in Seq(Incoming) :
            /\ toClient' = toClient \o s
            /\ Len(s) = 2
            /\ Like(s[1], b) /\ Like(s[2], c)
    BY <1>3, <2>2, <2>3, SendsTwo
  <2>5. /\ s[1].type = "KEXINIT" /\ s[1].arg = "guess"
        /\ Guess(s[1]) /\ Guessed(s[2])
        /\ s[1].keys = server.sendKeys
        /\ s[2].keys = server.sendKeys
    BY <2>2, <2>4 DEF Like, Guess, Guessed
  <2>6. \A i \in 1..Len(s) : s[i].keys = server.sendKeys
    <3>1. 1..Len(s) = {1, 2}
      BY <2>4
    <3> QED
      BY <2>5, <3>1
  <2>7. SaidWell(s) /\ KeysBehind(s, server.sendKeys) = server.sendKeys
    BY <2>4, <2>5, <2>6, InitSaid
  <2>8. ServerStep(0, s) /\ Understood => Understood'
    BY <1>1, <1>6, <2>4, <2>5, StartExchangeUnderstood
  <2> QED
    BY <1>1, <1>4, <1>6, <2>4, <2>7, <2>8, ServerStepGood
<1>8. CASE ~guess
  <2> DEFINE b == Packet("KEXINIT", "none")
  <2>1. KexInit(guess) = <<b>>
    BY <1>8 DEF KexInit
  <2>2. b \in Said /\ b.type = "KEXINIT" /\ b.arg = "none"
    BY StartPackets
  <2>3. ServerSends(<<b>>, x)
    BY <1>2, <2>1
  <2> HIDE DEF b
  <2>4. PICK s \in Seq(Incoming) :
            toClient' = toClient \o s /\ Len(s) = 1 /\ Like(s[1], b)
    BY <1>3, <2>2, <2>3, SendsOne
  <2>5. /\ s[1].type = "KEXINIT" /\ s[1].arg = "none"
        /\ ~Guess(s[1]) /\ Len(s) # 2
        /\ \A i \in 1..Len(s) : s[i].keys = server.sendKeys
    BY <2>2, <2>4 DEF Like, Guess
  <2>6. SaidWell(s) /\ KeysBehind(s, server.sendKeys) = server.sendKeys
    BY <2>4, <2>5, InitSaid
  <2>7. ServerStep(0, s) /\ Understood => Understood'
    BY <1>1, <1>6, <2>4, <2>5, StartExchangeUnderstood
  <2> QED
    BY <1>1, <1>4, <1>6, <2>4, <2>6, <2>7, ServerStepGood
<1> QED
  BY <1>7, <1>8
-----------------------------------------------------------------------------
(* What the server says otherwise. *)
Words == {"IGNORE", "GLOBAL_REQUEST", "CHANNEL", "DISCONNECT", "KEXDH_REPLY",
          "NEWKEYS", "SERVICE_ACCEPT", "BANNER", "AUTH_SUCCESS",
          "AUTH_FAILURE", "PASSWD_CHANGEREQ"}

LEMMA WordSaid ==
    ASSUME NEW a \in Words
    PROVE  /\ Packet(a, "none") \in Said
           /\ Packet(a, "none").type = a
           /\ Packet(a, "none").arg = "none"
<1>1. a \in PacketTypes \union {"ID"}
  BY DEF Words, PacketTypes, packetHandlers
<1> QED
  BY <1>1, PacketType

LEMMA SaysWord ==
    ASSUME SessionTypes, NEW a \in Words \ {"NEWKEYS", "KEXDH_REPLY"}, NEW x,
           ServerSends(Types(<<a>>), x)
    PROVE  \E s \in Seq(Incoming) :
              /\ toClient' = toClient \o s
              /\ Len(s) = 1
              /\ s[1].type = a /\ s[1].arg = "none"
              /\ SaidWell(s)
              /\ KeysBehind(s, server.sendKeys) = server.sendKeys
<1> DEFINE p == Packet(a, "none")
<1>1. p \in Said /\ p.type = a /\ p.arg = "none"
  BY WordSaid
<1>2. ServerSends(<<p>>, x)
  BY TypesOfOne
<1> HIDE DEF p
<1>3. PICK s \in Seq(Incoming) :
              toClient' = toClient \o s /\ Len(s) = 1 /\ Like(s[1], p)
  BY <1>1, <1>2, SendsOne
<1>4. a \notin {"NEWKEYS", "KEXINIT", "KEXDH_REPLY"}
  BY DEF Words
<1>5. \A i \in 1..Len(s) : /\ s[i].keys = server.sendKeys
                           /\ s[i].type \notin {"NEWKEYS", "KEXINIT",
                                                "KEXDH_REPLY"}
  BY <1>1, <1>3, <1>4 DEF Like
<1>6. SaidWell(s) /\ KeysBehind(s, server.sendKeys) = server.sendKeys
  BY <1>5, PlainSaid
<1> QED
  BY <1>1, <1>3, <1>6 DEF Like

LEMMA SaysNoWord ==
    ASSUME SessionTypes, NEW s \in Seq(Incoming), Len(s) = 0
    PROVE  SaidWell(s) /\ KeysBehind(s, server.sendKeys) = server.sendKeys
<1>1. \A i \in 1..Len(s) : FALSE
  OBVIOUS
<1> QED
  BY <1>1, PlainSaid

LEMMA ServerSpeaksGood ==
    ASSUME SessionInv, ServerSpeaks
    PROVE  SessionInv'
<1>1. /\ ServerAwake /\ server.phase # "start" /\ toServer' = toServer
      /\ SessionTypes /\ server \in Servers
  BY DEF ServerSpeaks, SessionInv, Peers, SessionTypes
<1>2. PICK type \in {"IGNORE", "GLOBAL_REQUEST", "CHANNEL"} :
          /\ type # "IGNORE" => server.phase = "established"
          /\ ServerSends(Types(<<type>>), server)
  BY DEF ServerSpeaks
<1>3. UNCHANGED clientVars /\ server' = server
  BY <1>2 DEF ServerSends
<1>4. type \in Words \ {"NEWKEYS", "KEXDH_REPLY"}
  BY DEF Words
<1>5. PICK s \in Seq(Incoming) :
          /\ toClient' = toClient \o s
          /\ Len(s) = 1
          /\ s[1].type = type /\ s[1].arg = "none"
          /\ SaidWell(s)
          /\ KeysBehind(s, server.sendKeys) = server.sendKeys
  BY <1>1, <1>2, <1>4, SaysWord
<1>6. ServerStep(0, s) /\ Understood => Understood'
  <2>1. CASE type = "IGNORE"
    <3>1. \A i \in 1..Len(s) : s[i].type = "IGNORE"
      BY <1>5, <2>1
    <3> QED
      BY <1>1, <1>3, <3>1, SaysNothing
  <2>2. CASE type # "IGNORE"
    <3>1. s[1].type \in {"GLOBAL_REQUEST", "CHANNEL"}
      BY <1>5, <2>2
    <3> QED
      BY <1>2, <1>3, <1>5, <2>2, <3>1, SpeaksUnderstood
  <2> QED
    BY <2>1, <2>2
<1>7. Learns(0)
  BY <1>1, <1>3 DEF Learns
<1> QED
  BY <1>1, <1>3, <1>5, <1>6, <1>7, ServerStepGood

LEMMA ServerLeavesGood ==
    ASSUME SessionInv, ServerLeaves
    PROVE  SessionInv'
<1> DEFINE x == [server EXCEPT !.leaving = TRUE]
<1>1. /\ ServerAwake /\ toServer' = toServer
      /\ ServerSends(Types(<<"DISCONNECT">>), x)
      /\ SessionTypes /\ server \in Servers
  BY DEF ServerLeaves, SessionInv, Peers, SessionTypes
<1>2. UNCHANGED clientVars /\ server' = x
  BY <1>1 DEF ServerSends
<1>3. /\ server' \in Servers
      /\ server'.sendKeys = server.sendKeys
      /\ server'.leaving
      /\ Learns(0)
  BY <1>1, <1>2 DEF Servers, Learns
<1>4. "DISCONNECT" \in Words \ {"NEWKEYS", "KEXDH_REPLY"}
  BY DEF Words
<1> HIDE DEF x
<1>5. PICK s \in Seq(Incoming) :
          /\ toClient' = toClient \o s
          /\ SaidWell(s)
          /\ KeysBehind(s, server.sendKeys) = server.sendKeys
  BY <1>1, <1>4, SaysWord
<1> QED
  BY <1>1, <1>2, <1>3, <1>5, ServerStepGood

LEMMA ServerFallsSilentGood ==
    ASSUME SessionInv, ServerFallsSilent
    PROVE  SessionInv'
<1>1. /\ ServerAwake /\ toServer' = toServer /\ toClient' = toClient
      /\ UNCHANGED clientVars
      /\ server' = [server EXCEPT !.silent = TRUE]
      /\ SessionTypes /\ server \in Servers
      /\ toClient \in Seq(Incoming)
  BY DEF ServerFallsSilent, SessionInv, Peers, SessionTypes
<1>2. /\ server' \in Servers
      /\ server'.sendKeys = server.sendKeys
      /\ server'.leaving = server.leaving
      /\ server'.exchange = server.exchange
      /\ server'.phase = server.phase
      /\ Learns(0)
  BY <1>1 DEF Servers, Learns
<1> DEFINE s == <<>>
<1>3. s \in Seq(Incoming) /\ Len(s) = 0 /\ toClient' = toClient \o s
  BY <1>1
<1>4. s = <<>>
  OBVIOUS
<1> HIDE DEF s
<1>5. SaidWell(s) /\ KeysBehind(s, server.sendKeys) = server.sendKeys
  BY <1>1, <1>3, SaysNoWord
<1>6. \A i \in 1..Len(s) : s[i].type = "IGNORE"
  BY <1>3
<1>7. ServerStep(0, s) /\ Understood => Understood'
  BY <1>2, <1>4, <1>6, SaysNothing
<1> QED
  BY <1>1, <1>2, <1>3, <1>5, <1>7, ServerStepGood
-----------------------------------------------------------------------------
(* The server reads and has nothing to say. *)
LEMMA ReadsSilently ==
    ASSUME SessionInv, ServerAwake, NEW x, ServerSends(<<>>, x),
           toServer # <<>>, toServer' = Tail(toServer), Learns(1),
           server' \in Servers, server'.sendKeys = server.sendKeys,
           server'.leaving = server.leaving,
           \/ /\ server'.exchange = server.exchange
              /\ server'.phase = server.phase
           \/ /\ toServer[1].type = "NEWKEYS"
              /\ server'.exchange = "none"
              /\ server'.phase = server.phase
    PROVE  SessionInv'
<1>1. SessionTypes
  BY DEF SessionInv, Peers
<1>2. PICK s \in Seq(Incoming) : toClient' = toClient \o s /\ Len(s) = 0
  BY <1>1, SendsNothing
<1>3. UNCHANGED clientVars
  BY DEF ServerSends
<1>4. SaidWell(s) /\ KeysBehind(s, server.sendKeys) = server.sendKeys
  BY <1>1, <1>2, SaysNoWord
<1>5. /\ \A i \in 1..Len(s) : s[i].type = "IGNORE"
      /\ s = <<>>
  BY <1>2
<1>6. ServerStep(1, s) /\ Understood => Understood'
  BY <1>2, <1>5, SaysNothing, NewKeysAnswered
<1> QED
  BY <1>2, <1>3, <1>4, <1>6, ServerStepGood

(* The server reads and says one thing. *)
LEMMA ReadsAndSays ==
    ASSUME SessionInv, ServerAwake, NEW a \in Words \ {"NEWKEYS", "KEXDH_REPLY"},
           NEW x, ServerSends(Types(<<a>>), x),
           toServer # <<>>, toServer' = Tail(toServer), Learns(1),
           server' \in Servers, server'.sendKeys = server.sendKeys,
           server.leaving => server'.leaving,
           server'.exchange = server.exchange,
           \/ server'.leaving
           \/ /\ toServer[1].type = "SERVICE_REQUEST"
              /\ a = "SERVICE_ACCEPT"
              /\ server'.phase = "authentication"
           \/ /\ toServer[1].type = "AUTH_REQUEST"
              /\ a \in {"AUTH_FAILURE", "PASSWD_CHANGEREQ"}
              /\ server'.phase = server.phase
    PROVE  SessionInv'
<1>1. SessionTypes
  BY DEF SessionInv, Peers
<1>2. PICK s \in Seq(Incoming) :
          /\ toClient' = toClient \o s
          /\ Len(s) = 1
          /\ s[1].type = a /\ s[1].arg = "none"
          /\ SaidWell(s)
          /\ KeysBehind(s, server.sendKeys) = server.sendKeys
  BY <1>1, SaysWord
<1>3. UNCHANGED clientVars
  BY DEF ServerSends
<1>4. ServerStep(1, s) /\ Understood /\ ~server'.leaving => Understood'
  BY <1>2, ServiceAnswered, AuthRefused
<1> QED
  BY <1>2, <1>3, <1>4, ServerStepGood

(* A packet and the one after it, without a wrong guess. *)
LEMMA TwoSaid ==
    ASSUME NEW s \in Seq(Incoming), Len(s) = 2,
           s[1].keys = server.sendKeys, s[2].keys = server.sendKeys,
           s[1].type \notin {"NEWKEYS", "KEXINIT"}, s[2].type # "KEXINIT",
           s[1].arg = "none", s[2].arg = "none"
    PROVE  /\ SaidWell(s)
           /\ KeysBehind(s, server.sendKeys)
                 = IF s[2].type = "NEWKEYS" THEN NextKeys(server.sendKeys)
                                            ELSE server.sendKeys
<1>1. 1..Len(s) = {1, 2}
  OBVIOUS
<1>2. SaidWell(s)
  BY <1>1 DEF SaidWell, Guess, Guessed
<1>3. s # <<>>
  OBVIOUS
<1> QED
  BY <1>2, <1>3 DEF KeysBehind, Following

(* The server reads and says two things. *)
LEMMA ReadsAndSaysTwo ==
    ASSUME SessionInv, ServerAwake, NEW a \in Words \ {"NEWKEYS"}, NEW b \in Words,
           NEW x, ServerSends(Types(<<a, b>>), x),
           toServer # <<>>, toServer' = Tail(toServer), Learns(1),
           server' \in Servers,
           server'.sendKeys = IF b = "NEWKEYS" THEN NextKeys(server.sendKeys)
                                               ELSE server.sendKeys,
           server'.leaving = server.leaving,
           \/ /\ toServer[1].type = "KEXDH_INIT"
              /\ a = "KEXDH_REPLY" /\ b = "NEWKEYS"
              /\ server'.exchange = "replied"
              /\ server'.phase = server.phase
           \/ /\ toServer[1].type = "AUTH_REQUEST"
              /\ a = "BANNER" /\ b = "AUTH_SUCCESS"
              /\ server'.exchange = server.exchange
              /\ server'.phase = "established"
    PROVE  SessionInv'
<1>1. SessionTypes
  BY DEF SessionInv, Peers
<1> DEFINE p == Packet(a, "none")
           q == Packet(b, "none")
<1>2. /\ p \in Said /\ p.type = a /\ p.arg = "none"
      /\ q \in Said /\ q.type = b /\ q.arg = "none"
  BY WordSaid
<1>3. ServerSends(<<p, q>>, x)
  BY TypesOfTwo
<1> HIDE DEF p, q
<1>4. PICK s \in Seq(Incoming) :
          /\ toClient' = toClient \o s
          /\ Len(s) = 2
          /\ Like(s[1], p) /\ Like(s[2], q)
  BY <1>1, <1>2, <1>3, SendsTwo
<1>5. /\ s[1].type = a /\ s[1].arg = "none" /\ s[1].keys = server.sendKeys
      /\ s[2].type = b /\ s[2].arg = "none" /\ s[2].keys = server.sendKeys
  BY <1>2, <1>4 DEF Like
<1>6. a \notin {"NEWKEYS", "KEXINIT"} /\ b # "KEXINIT"
  BY DEF Words
<1>7. SaidWell(s) /\ KeysBehind(s, server.sendKeys) = server'.sendKeys
  BY <1>4, <1>5, <1>6, TwoSaid
<1>8. UNCHANGED clientVars
  BY DEF ServerSends
<1>9. ServerStep(1, s) /\ Understood => Understood'
  BY <1>4, <1>5, InitAnswered, AuthGranted
<1> QED
  BY <1>4, <1>7, <1>8, <1>9, ServerStepGood

LEMMA ServerReadsGood ==
    ASSUME SessionInv, ServerReads
    PROVE  SessionInv'
<1> DEFINE p == toServer[1]
<1>1. /\ ServerAwake /\ toServer # <<>> /\ toServer' = Tail(toServer)
      /\ SessionTypes /\ server \in Servers
      /\ toServer \in Seq(OutgoingPackets)
  BY DEF ServerReads, SessionInv, Peers, SessionTypes
<1>2. Head(toServer) = p /\ p \in OutgoingPackets
  BY <1>1, Rest
<1>3. ServerAnswers(p)
  BY <1>2 DEF ServerReads
<1>4. CASE p.type \in {"ID", "UNIMPLEMENTED", "REQUEST_FAILURE", "DISCONNECT"}
           /\ ServerSends(<<>>, server)
  <2>1. server' = server
    BY <1>4 DEF ServerSends
  <2>2. Learns(1)
    BY <1>1, <1>4, <2>1 DEF Learns
  <2> QED
    BY <1>1, <1>4, <2>1, <2>2, ReadsSilently
<1>5. ASSUME NEW x, x = [server EXCEPT !.peerInit = TRUE],
             p.type = "KEXINIT", ServerSends(<<>>, x)
      PROVE  SessionInv'
  <2>1. server' = [server EXCEPT !.peerInit = TRUE]
    BY <1>5 DEF ServerSends
  <2>2. /\ server' \in Servers
        /\ server'.sendKeys = server.sendKeys
        /\ server'.leaving = server.leaving
        /\ server'.exchange = server.exchange
        /\ server'.phase = server.phase
        /\ Learns(1)
    BY <1>1, <1>5, <2>1 DEF Servers, Learns
  <2> QED
    BY <1>1, <1>5, <2>2, ReadsSilently
<1>6. ASSUME NEW x, x = [server EXCEPT !.exchange = "replied",
                                       !.sendKeys = NextKeys(@)],
             p.type = "KEXDH_INIT",
             ServerSends(Types(<<"KEXDH_REPLY", "NEWKEYS">>), x)
      PROVE  SessionInv'
  <2>1. server' = [server EXCEPT !.exchange = "replied", !.sendKeys = NextKeys(@)]
    BY <1>6 DEF ServerSends
  <2>2. NextKeys(server.sendKeys) \in Keys
    BY <1>1, NextKeysType DEF Servers
  <2>3. /\ server' \in Servers
        /\ server'.sendKeys = NextKeys(server.sendKeys)
        /\ server'.leaving = server.leaving
        /\ server'.exchange = "replied"
        /\ server'.phase = server.phase
        /\ Learns(1)
    BY <1>1, <1>6, <2>1, <2>2 DEF Servers, Learns
  <2>4. "KEXDH_REPLY" \in Words \ {"NEWKEYS"} /\ "NEWKEYS" \in Words
    BY DEF Words
  <2> QED
    BY <1>1, <1>6, <2>3, <2>4, ReadsAndSaysTwo
<1>7. ASSUME NEW x, x = [server EXCEPT !.exchange = "none",
                                       !.peerInit = FALSE,
                                       !.receiveKeys = NextKeys(@)],
             p.type = "NEWKEYS", ServerSends(<<>>, x)
      PROVE  SessionInv'
  <2>1. server' = [server EXCEPT !.exchange = "none",
                                 !.peerInit = FALSE,
                                 !.receiveKeys = NextKeys(@)]
    BY <1>7 DEF ServerSends
  <2>2. NextKeys(server.receiveKeys) \in Keys
    BY <1>1, NextKeysType DEF Servers
  <2>3. /\ server' \in Servers
        /\ server'.sendKeys = server.sendKeys
        /\ server'.leaving = server.leaving
        /\ server'.exchange = "none"
        /\ server'.phase = server.phase
        /\ Learns(1)
    BY <1>1, <1>7, <2>1, <2>2 DEF Servers, Learns
  <2> QED
    BY <1>1, <1>7, <2>3, ReadsSilently
<1>8. ASSUME NEW x, x = [server EXCEPT !.phase = "authentication"],
             p.type = "SERVICE_REQUEST",
             ServerSends(Types(<<"SERVICE_ACCEPT">>), x)
      PROVE  SessionInv'
  <2>1. server' = [server EXCEPT !.phase = "authentication"]
    BY <1>8 DEF ServerSends
  <2>2. /\ server' \in Servers
        /\ server'.sendKeys = server.sendKeys
        /\ server'.leaving = server.leaving
        /\ server'.exchange = server.exchange
        /\ server'.phase = "authentication"
        /\ Learns(1)
    BY <1>1, <1>8, <2>1 DEF Servers, Learns
  <2>3. "SERVICE_ACCEPT" \in Words \ {"NEWKEYS", "KEXDH_REPLY"}
    BY DEF Words
  <2> QED
    BY <1>1, <1>8, <2>2, <2>3, ReadsAndSays
<1>9. ASSUME NEW x, x = [server EXCEPT !.phase = "established"],
             p.type = "AUTH_REQUEST",
             ServerSends(Types(<<"BANNER", "AUTH_SUCCESS">>), x)
      PROVE  SessionInv'
  <2>1. server' = [server EXCEPT !.phase = "established"]
    BY <1>9 DEF ServerSends
  <2>2. /\ server' \in Servers
        /\ server'.sendKeys = server.sendKeys
        /\ server'.leaving = server.leaving
        /\ server'.exchange = server.exchange
        /\ server'.phase = "established"
        /\ Learns(1)
    BY <1>1, <1>9, <2>1 DEF Servers, Learns
  <2>3. "BANNER" \in Words \ {"NEWKEYS"} /\ "AUTH_SUCCESS" \in Words
    BY DEF Words
  <2> QED
    BY <1>1, <1>9, <2>2, <2>3, ReadsAndSaysTwo
<1>10. ASSUME NEW type \in {"AUTH_FAILURE", "PASSWD_CHANGEREQ"},
              p.type = "AUTH_REQUEST", ServerSends(Types(<<type>>), server)
       PROVE  SessionInv'
  <2>1. server' = server
    BY <1>10 DEF ServerSends
  <2>2. Learns(1)
    BY <1>1, <1>10, <2>1 DEF Learns
  <2>3. type \in Words \ {"NEWKEYS", "KEXDH_REPLY"}
    BY DEF Words
  <2> QED
    BY <1>1, <1>10, <2>1, <2>2, <2>3, ReadsAndSays
<1>11. CASE p.type = "INVALID" /\ ServerSends(<<Unimplemented(p.seqNr)>>, server)
  <2> DEFINE a == Unimplemented(p.seqNr)
  <2>1. /\ server' = server /\ UNCHANGED clientVars
    BY <1>11 DEF ServerSends
  <2>2. Learns(1)
    BY <1>1, <1>11, <2>1 DEF Learns
  <2>3. p.seqNr \in SeqNr \union {InvalidSeqNr}
    BY <1>2 DEF OutgoingPackets
  <2>4. /\ a \in Said
        /\ a.type = "UNIMPLEMENTED" /\ a.arg = "none" /\ a.seqNr = p.seqNr
    <3>1. "UNIMPLEMENTED" \in PacketTypes
      BY DEF PacketTypes, packetHandlers
    <3> QED
      BY <2>3, <3>1 DEF Unimplemented, Said
  <2>5. ServerSends(<<a>>, server)
    BY <1>11
  <2> HIDE DEF a
  <2>6. PICK s \in Seq(Incoming) :
            toClient' = toClient \o s /\ Len(s) = 1 /\ Like(s[1], a)
    BY <1>1, <2>4, <2>5, SendsOne
  <2>7. /\ s[1].type = "UNIMPLEMENTED" /\ s[1].seqNr = p.seqNr
        /\ s[1].keys = server.sendKeys
    BY <2>4, <2>6 DEF Like
  <2>8. SaidWell(s) /\ KeysBehind(s, server.sendKeys) = server.sendKeys
    BY <2>6, <2>7, PlainSaid
  <2>9. ServerStep(1, s) /\ Understood => Understood'
    BY <1>11, <2>1, <2>6, <2>7, ProbeAnswered
  <2> QED
    BY <1>1, <2>1, <2>2, <2>6, <2>8, <2>9, ServerStepGood
<1>12. ASSUME NEW x, x = [server EXCEPT !.leaving = TRUE],
              p.type = "CHANNEL", ServerSends(Types(<<"DISCONNECT">>), x)
       PROVE  SessionInv'
  <2>1. server' = [server EXCEPT !.leaving = TRUE]
    BY <1>12 DEF ServerSends
  <2>2. /\ server' \in Servers
        /\ server'.sendKeys = server.sendKeys
        /\ server'.leaving
        /\ server'.exchange = server.exchange
        /\ Learns(1)
    BY <1>1, <1>12, <2>1 DEF Servers, Learns
  <2>3. "DISCONNECT" \in Words \ {"NEWKEYS", "KEXDH_REPLY"}
    BY DEF Words
  <2> QED
    BY <1>1, <1>12, <2>2, <2>3, ReadsAndSays
<1>13. CASE p.type = "CHANNEL" /\ ServerSends(<<>>, server)
  <2>1. server' = server
    BY <1>13 DEF ServerSends
  <2>2. Learns(1)
    BY <1>1, <1>13, <2>1 DEF Learns
  <2> QED
    BY <1>1, <1>13, <2>1, <2>2, ReadsSilently
<1> HIDE DEF p
<1> QED
  BY <1>3, <1>4, <1>5, <1>6, <1>7, <1>8, <1>9, <1>10, <1>11, <1>12, <1>13
     DEF ServerAnswers
-----------------------------------------------------------------------------
(* The initial states. *)
LEMMA SessionInitGood == SessionInit => SessionInv
<1> SUFFICES ASSUME SessionInit
             PROVE  SessionInv
  OBVIOUS
<1>1. /\ Init /\ toServer = <<>> /\ toClient = <<>> /\ server = NewServer
      /\ socket = "Unconnected" /\ state = "SocketUnconnected"
  BY DEF SessionInit, Init
<1>2. IInv
  BY <1>1, InitGood
<1>3. server \in Servers /\ server.receiveKeys = 0
  BY <1>1, KeyNamesAssumption DEF NewServer, Servers, Keys
<1>4. SessionTypes
  BY <1>1, <1>3 DEF SessionTypes, OutgoingPackets, Incoming, Servers, SeqNr,
     Keys, InvalidSeqNr, PacketTypes
<1>5. Quiet
  BY <1>1 DEF Quiet, Asleep, Linked
<1>6. KeysInv
  BY <1>1 DEF KeysInv, Chained, Linked, Asleep
<1>7. ProbeInv
  BY <1>1 DEF ProbeInv, Linked, KeepAliveKeepsOut, NotDuringExchange
<1>8. GuessInv /\ ~Live
  BY <1>1 DEF GuessInv, Live, Asleep
<1> QED
  BY <1>2, <1>4, <1>5, <1>6, <1>7, <1>8 DEF SessionInv, Peers

(* Every step keeps the invariant. *)
LEMMA SessionNextGood ==
    ASSUME SessionInv, [SessionNext]_sessionVars
    PROVE  SessionInv'
<1>1. CASE ClientActs
  BY <1>1, ClientActsGood
<1>2. CASE ClientReads
  BY <1>2, ClientReadsGood
<1>3. CASE ServerActs
  BY <1>3, ServerStartsGood, ServerReadsGood DEF ServerActs
<1>4. CASE ServerStartsExchange
  BY <1>4, ServerStartsExchangeGood
<1>5. CASE ServerSpeaks
  BY <1>5, ServerSpeaksGood
<1>6. CASE ServerLeaves
  BY <1>6, ServerLeavesGood
<1>7. CASE ServerFallsSilent
  BY <1>7, ServerFallsSilentGood
<1>8. CASE UNCHANGED sessionVars
  <2>1. UNCHANGED clientVars /\ UNCHANGED <<toServer, toClient, server>>
    BY <1>8 DEF sessionVars
  <2>2. IInv'
    BY <2>1, NextGood DEF Good, SessionInv
  <2>3. UNCHANGED <<socket, state, keyExchangeState, sendKeys, receiveKeys,
                    ignoreNextPacket, garbled, lastInvalid>>
    BY <2>1 DEF clientVars, handshakeVars, packetVars, timerVars
  <2>4. SessionTypes' /\ Quiet' /\ KeysInv' /\ GuessInv'
    BY <2>1, <2>3 DEF SessionInv, Peers, SessionTypes, Quiet, Linked, Asleep,
       KeysInv, GuessInv
  <2>5. ProbeInv'
    <3>1. KeepAliveKeepsOut' <=> KeepAliveKeepsOut
      BY <2>1 DEF KeepAliveKeepsOut, NotDuringExchange, DuringExchange
    <3> QED
      BY <2>1, <2>3, <3>1 DEF SessionInv, Peers, ProbeInv, Linked
  <2>6. Live' => Understood'
    <3>1. Live' => Live
      BY <2>1, <2>3 DEF Live, Asleep
    <3> DEFINE s == <<>>
    <3>2. /\ s \in Seq(Incoming) /\ s = <<>> /\ Len(s) = 0
          /\ toClient' = toClient \o s
      BY <2>1 DEF SessionInv, Peers, SessionTypes
    <3> HIDE DEF s
    <3>3. ServerStep(0, s)
      BY <2>1, <2>3, <2>4, <3>2 DEF ServerStep, SessionInv, Peers
    <3>4. \A i \in 1..Len(s) : s[i].type = "IGNORE"
      BY <3>2
    <3>5. Understood => Understood'
      BY <2>1, <3>2, <3>3, <3>4, SaysNothing
    <3> QED
      BY <3>1, <3>5 DEF SessionInv, Peers
  <2> QED
    BY <2>2, <2>4, <2>5, <2>6 DEF SessionInv, Peers
<1> QED
  BY <1>1, <1>2, <1>3, <1>4, <1>5, <1>6, <1>7, <1>8 DEF SessionNext
-----------------------------------------------------------------------------
(* A packet of a session that is in good order is no reason to complain:   *)
(* its handler may be called, and does not throw.                          *)
LEMMA NotAccused ==
    ASSUME IInv, SessionTypes, Understood, toClient # <<>>,
           toClient[1].type # "ID",
           ~ignoreNextPacket, ~Guessed(toClient[1]),
           Receive(toClient[1])
    PROVE  error' = error \/ error' = "SshAuthenticationError"
<1> DEFINE p == toClient[1]
<1>1. /\ toClient \in Seq(Incoming) /\ p \in Incoming /\ DOMAIN toClient = 1..Len(toClient)
      /\ 1 \in DOMAIN toClient
      /\ \A j \in DOMAIN toClient : ~(j < 1)
  BY Rest DEF SessionTypes
<1>2. \A T : p.type \in T => 1 \in At(toClient, T)
  BY <1>1 DEF At
<1>3. \A T : ~\E j \in At(toClient, T) : j < 1
  BY <1>1 DEF At
<1>4. Authenticated(1) => Established
  BY <1>3 DEF Authenticated
<1>5. /\ Exchange /\ Login /\ Session /\ Probes
  BY DEF Understood
<1>6. keyExchangeState \in KeyExchangeStates
  BY DEF IInv, TypeOK
<1>7. p.type = "KEXINIT" =>
          /\ p.arg # "unknown"
          /\ keyExchangeState \in {"NoKeyExchange", "KexInitSent"}
          /\ state \in {"SocketConnected", "ConnectionEstablished"}
  <2> SUFFICES ASSUME p.type = "KEXINIT"
               PROVE  /\ p.arg # "unknown"
                      /\ keyExchangeState \in {"NoKeyExchange", "KexInitSent"}
                      /\ state \in {"SocketConnected", "ConnectionEstablished"}
    OBVIOUS
  <2>1. 1 \in At(toClient, {"KEXINIT"}) /\ InitComing
    BY <1>2, <1>5 DEF Exchange
  <2>2. /\ p.arg # "unknown"
        /\ keyExchangeState # "DhInitSent"
        /\ keyExchangeState # "NewKeysSent"
        /\ state = "SocketConnected" \/ Authenticated(1)
    BY <1>3, <2>1 DEF InitComing
  <2> QED
    BY <1>4, <1>6, <2>2 DEF Established, KeyExchangeStates
<1>8. p.type = "KEXDH_REPLY" =>
          /\ p.arg # "bad"
          /\ keyExchangeState = "DhInitSent"
          /\ state \in {"SocketConnected", "ConnectionEstablished"}
  BY <1>2, <1>5 DEF Exchange, ReplyComing, ExchangeStates, Guessed
<1>9. p.type = "NEWKEYS" =>
          /\ keyExchangeState = "NewKeysSent"
          /\ state \in {"SocketConnected", "ConnectionEstablished"}
  BY <1>2, <1>3, <1>5 DEF Exchange, KeysComing, ExchangeStates
<1>10. p.type = "SERVICE_ACCEPT" => state = "UserAuthServiceRequested"
  BY <1>2, <1>5 DEF Login
<1>11. p.type \in AuthReplies => state = "UserAuthRequested"
  BY <1>2, <1>5 DEF Login
<1>12. p.type = "PASSWD_CHANGEREQ" => p.arg # "bad"
  BY <1>2, <1>5 DEF Login
<1>13. p.type \in {"GLOBAL_REQUEST", "CHANNEL"} => p.arg # "bad" /\ Established
  BY <1>2, <1>4, <1>5 DEF Session
<1>14. p.type # "DISCONNECT"
  BY <1>2, <1>5 DEF Session
<1>15. p.type = "UNIMPLEMENTED" => p.seqNr = lastInvalid /\ Established
  BY <1>2, <1>5 DEF Probes
<1> HIDE DEF p
<1>16. ASSUME p.type \in DOMAIN packetHandlers
       PROVE  state \in packetHandlers[p.type]
  BY <1>7, <1>8, <1>9, <1>10, <1>11, <1>13, <1>14, <1>15, <1>16
     DEF packetHandlers, AuthReplies, Established
<1>17. ASSUME Handle(p)
       PROVE  error' = error \/ error' = "SshAuthenticationError"
  <2>1. CASE p.type = "KEXINIT" /\ HandleKeyExchangeInit(p)
    BY <1>7, <2>1 DEF HandleKeyExchangeInit
  <2>2. CASE p.type = "KEXDH_REPLY" /\ HandleKeyExchangeReply(p)
    BY <1>8, <2>2 DEF HandleKeyExchangeReply
  <2>3. CASE p.type = "NEWKEYS" /\ HandleNewKeys
    BY <1>9, <2>3 DEF HandleNewKeys
  <2>4. CASE \/ p.type = "SERVICE_ACCEPT" /\ HandleServiceAccept
             \/ p.type = "AUTH_SUCCESS" /\ HandleAuthSuccess
    BY <2>4 DEF HandleServiceAccept, HandleAuthSuccess
  <2>5. CASE p.type = "UNIMPLEMENTED" /\ HandleUnimplemented(p)
    BY <1>15, <2>5 DEF HandleUnimplemented
  <2>6. CASE \/ p.type = "GLOBAL_REQUEST" /\ Answer(<<Outgoing("REQUEST_FAILURE")>>)
             \/ p.type = "BANNER" /\ Answer(<<>>)
    BY <2>6 DEF Answer
  <2>7. CASE p.type = "CHANNEL" /\ HandleChannelMessage(p)
    BY <1>13, <2>7 DEF HandleChannelMessage
  <2>8. CASE CloseConnection("SshAuthenticationError", <<>>, socket)
    BY <2>8 DEF CloseConnection
  <2> QED
    BY <1>12, <1>14, <1>17, <2>1, <2>2, <2>3, <2>4, <2>5, <2>6, <2>7, <2>8
       DEF Handle
<1>18. Receive(p)
  BY DEF p
<1>19. \/ Answer(<<Outgoing("UNIMPLEMENTED")>>)
       \/ Handle(p)
  BY <1>16, <1>18 DEF Receive
<1> QED
  BY <1>17, <1>19 DEF Answer

(* Only what arrives can be taken for a breach of the protocol, and only   *)
(* when the server has announced that it leaves. *)
LEMMA Accusation ==
    ASSUME SessionInv, [SessionNext]_sessionVars,
           error' = "SshProtocolError", error # error'
    PROVE  server.leaving
<1>1. CASE ClientActs
  <2>1. error' # "SshProtocolError" \/ error' = error
    BY <1>1 DEF ClientActs, ConnectToHost, DisconnectFromHost, CloseConnection,
       SendChannelMessage, Network, SocketConnected, SocketError,
       SocketDisconnected, HandleTimeout, ChannelTimeout, SendKeepAlivePacket
  <2> QED
    BY <2>1
<1>2. CASE ClientReads
  <2> SUFFICES ASSUME ~server.leaving
               PROVE  FALSE
    OBVIOUS
  <2>1. /\ toClient # <<>> /\ Peers /\ SessionTypes /\ IInv /\ GuessInv
        /\ toClient \in Seq(Incoming)
    BY <1>2 DEF ClientReads, SessionInv, Peers, SessionTypes
  <2>2. Head(toClient) = toClient[1] /\ 1 \in DOMAIN toClient
    BY <2>1, Rest
  <2>3. \/ UNCHANGED clientVars
        \/ ReceiveServerId
        \/ toClient[1].type # "ID" /\ Receive(toClient[1])
    BY <1>2, <2>2 DEF ClientReads
  <2>4. CASE UNCHANGED clientVars \/ ReceiveServerId
    BY <2>4 DEF clientVars, ReceiveServerId
  <2>5. CASE toClient[1].type # "ID" /\ Receive(toClient[1])
    <3>1. Live /\ ~Asleep /\ ~garbled
      BY <2>5 DEF Receive, Live, Asleep
    <3>2. Understood
      BY <2>1, <3>1 DEF Peers
    <3>3. CASE ignoreNextPacket
      BY <2>5, <3>3 DEF Receive
    <3>4. CASE ~ignoreNextPacket
      <4>1. ~Guessed(toClient[1])
        BY <2>1, <2>2, <3>1, <3>4 DEF GuessInv
      <4> QED
        BY <2>1, <2>5, <3>2, <3>4, <4>1, NotAccused
    <3> QED
      BY <3>3, <3>4
  <2> QED
    BY <2>3, <2>4, <2>5
<1>3. CASE UNCHANGED clientVars
  BY <1>3 DEF clientVars
<1>4. \/ ClientActs \/ ClientReads \/ UNCHANGED clientVars
  BY DEF SessionNext, ServerActs, ServerStarts, ServerReads, ServerAnswers,
     ServerSends, ServerStartsExchange, ServerSpeaks, ServerLeaves,
     ServerFallsSilent, sessionVars
<1> QED
  BY <1>1, <1>2, <1>3, <1>4

(* What users see of a connection with its server is what the contract     *)
(* allows.                                                                 *)
LEMMA SessionKeepsContract ==
    ASSUME SessionInv, [SessionNext]_sessionVars
    PROVE  [Contract!Next]_(Contract!vars)
<1>1. IInv
  BY DEF SessionInv
<1>2. CASE ClientActs
  <2>1. Next
    BY <1>2 DEF ClientActs, Next, User, Network, Timers
  <2> QED
    BY <1>1, <2>1, NextGood DEF Good
<1>3. CASE ClientReads
  <2>1. \/ UNCHANGED clientVars
        \/ ReceiveServerId
        \/ \E p : Receive(p)
    BY <1>3 DEF ClientReads
  <2> QED
    BY <1>1, <2>1, NextGood, ReceiveGood DEF Good, Next
<1>4. CASE UNCHANGED clientVars
  BY <1>1, <1>4, NextGood DEF Good
<1>5. \/ ClientActs \/ ClientReads \/ UNCHANGED clientVars
  BY DEF SessionNext, ServerActs, ServerStarts, ServerReads, ServerAnswers,
     ServerSends, ServerStartsExchange, ServerSpeaks, ServerLeaves,
     ServerFallsSilent, sessionVars
<1> QED
  BY <1>2, <1>3, <1>4, <1>5
-----------------------------------------------------------------------------
(* The invariant of both sides holds, for any number of exchanges, packets *)
(* on their way and connections.                                           *)
THEOREM SessionInvariance == SessionSpec => []SessionInv
<1>1. SessionInv /\ [SessionNext]_sessionVars => SessionInv'
  BY SessionNextGood
<1> QED
  BY SessionInitGood, <1>1, PTL DEF SessionSpec

(* Both sides change their keys at the same packet in each direction:      *)
(* what arrives is readable, handleNewKeysPacket() and                     *)
(* handleKeyExchangeReplyPacket().                                         *)
THEOREM SameKeys == SessionSpec => []KeysAgree
<1>1. SessionInv => KeysAgree
  <2> SUFFICES ASSUME SessionInv
               PROVE  KeysAgree
    OBVIOUS
  <2>1. Peers /\ Quiet /\ KeysInv /\ SessionTypes
    BY DEF SessionInv, Peers
  <2>2. /\ toServer # <<>> => Head(toServer) = toServer[1]
        /\ toClient # <<>> => Head(toClient) = toClient[1]
    BY <2>1, Rest DEF SessionTypes
  <2>3. toClient # <<>> => 1 \in DOMAIN toClient
    BY <2>1, Rest DEF SessionTypes
  <2> QED
    BY <2>1, <2>2, <2>3 DEF KeysAgree, KeysInv, Chained, Asleep, Linked
<1> QED
  BY SessionInvariance, <1>1, PTL

(* Keep-alive packets keep out of key exchanges: sendKeepAlivePacket().    *)
THEOREM KeepsOut == SessionSpec => []KeepAliveKeepsOut
<1>1. SessionInv => KeepAliveKeepsOut
  BY DEF SessionInv, Peers, ProbeInv
<1> QED
  BY SessionInvariance, <1>1, PTL

(* A server that keeps to the protocol is never accused of breaking it:    *)
(* no handler throws, whatever the order of the packets on both ways.      *)
THEOREM Understanding == SessionSpec => ServerIsUnderstood
<1>1. SessionInv /\ [SessionNext]_sessionVars =>
          [error' = "SshProtocolError" /\ error # error'
               => server.leaving]_sessionVars
  BY Accusation
<1> QED
  BY SessionInvariance, <1>1, PTL DEF SessionSpec, ServerIsUnderstood

(* A connection and its server together keep the contract of a connection, *)
(* step by step.                                                           *)
THEOREM SessionRefinement ==
    SessionSpec => Contract!Init /\ [][Contract!Next]_(Contract!vars)
<1>1. SessionInit => Contract!Init
  BY DEF SessionInit, Init, Contract!Init, publicState, Established
<1>2. SessionInv /\ [SessionNext]_sessionVars => [Contract!Next]_(Contract!vars)
  BY SessionKeepsContract
<1> QED
  BY <1>1, <1>2, SessionInvariance, PTL DEF SessionSpec
===============================================================================
