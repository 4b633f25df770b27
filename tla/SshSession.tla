----------------------------- MODULE SshSession ------------------------------
(***************************************************************************)
(* An SshConnection and an SSH server that keeps to the protocol, with the *)
(* packets between them in order.  The server, which is no part of the     *)
(* sources, starts key exchanges as it likes, may announce a guess that    *)
(* turns out wrong, may refuse the user, fall silent or go away.  A packet *)
(* has the keys it was sent with, and is readable with these only.         *)
(***************************************************************************)
EXTENDS SshConnection

CONSTANTS
    MaxExchanges,   \* bound: key exchanges the server starts per connection
    MaxQueue        \* bound: packets on the way in one direction

ASSUME SessionAssumption ==
    {MaxExchanges, MaxQueue} \subseteq Nat

VARIABLES
    toServer, toClient, \* packets on the way
    server              \* the state of the server

sessionVars == <<clientVars, toServer, toClient, server>>

(* phase: what the server waits for next; exchange: whether its own        *)
(* KEXINIT is out and its NEWKEYS as well; peerInit: the KEXINIT of the    *)
(* client has arrived.                                                     *)
NewServer ==
    [phase |-> "start", exchange |-> "none", peerInit |-> FALSE,
     sendKeys |-> 0, receiveKeys |-> 0, exchanges |-> 0, silent |-> FALSE,
     leaving |-> FALSE]

SessionInit ==
    /\ Init
    /\ toServer = <<>>
    /\ toClient = <<>>
    /\ server = NewServer

Room == Len(toServer) < MaxQueue /\ Len(toClient) < MaxQueue
-----------------------------------------------------------------------------
(* What the client sends is on its way; a new socket starts with nothing.  *)
ClientSends ==
    IF socket' \in {"Unconnected", "Connecting"}
    THEN toServer' = <<>> /\ toClient' = <<>> /\ server' = NewServer
    ELSE toServer' = toServer \o sent' /\ UNCHANGED <<toClient, server>>

ClientActs ==
    /\ \/ ConnectToHost
       \/ DisconnectFromHost
       \/ Room /\ SendChannelMessage
       \/ Network
       \/ HandleTimeout
       \/ ChannelTimeout
       \/ SendKeepAlivePacket
    /\ ClientSends

(* readyRead(): the first packet is read.  Nothing is read any more when   *)
(* the slots are disconnected, and nothing makes sense after bytes that    *)
(* were taken for a packet.                                                *)
ClientReads ==
    /\ toClient # <<>>
    /\ toClient' = Tail(toClient)
    /\ IF state = "SocketUnconnected" \/ socket # "Connected" \/ garbled
       THEN UNCHANGED <<clientVars, toServer, server>>
       ELSE /\ IF Head(toClient).type = "ID"
               THEN ReceiveServerId
               ELSE Receive(Head(toClient))
            /\ toServer' = toServer \o sent'
            /\ UNCHANGED server
-----------------------------------------------------------------------------
ServerAwake == socket \in {"Connected", "Closing"} /\ ~server.silent

(* The server sends packets with its present keys and goes on as s. *)
ServerSends(packets, s) ==
    /\ toClient' = toClient \o [i \in DOMAIN packets |->
                                   [type  |-> packets[i].type,
                                    arg   |-> packets[i].arg,
                                    seqNr |-> packets[i].seqNr,
                                    keys  |-> server.sendKeys]]
    /\ server' = s
    /\ UNCHANGED clientVars

Types(types) == [i \in DOMAIN types |-> Packet(types[i], "none")]

(* A KEXINIT, and the packet for the algorithms the server guesses. *)
KexInit(guess) ==
    IF guess THEN <<Packet("KEXINIT", "guess"), Packet("KEXDH_REPLY", "bad")>>
             ELSE <<Packet("KEXINIT", "none")>>

(* The server does not wait for the client with its identification and its *)
(* first KEXINIT.                                                          *)
ServerStarts ==
    /\ ServerAwake
    /\ server.phase = "start"
    /\ \E guess \in BOOLEAN :
          ServerSends(<<Packet("ID", "none")>> \o KexInit(guess),
                      [server EXCEPT !.phase = "service", !.exchange = "sent"])
    /\ UNCHANGED toServer

ServerStartsExchange ==
    /\ ServerAwake
    /\ Room
    /\ server.phase = "established"
    /\ server.exchange = "none"
    /\ server.exchanges < MaxExchanges
    /\ \E guess \in BOOLEAN :
          ServerSends(KexInit(guess), [server EXCEPT !.exchange = "sent",
                                                     !.exchanges = @ + 1])
    /\ UNCHANGED toServer

(* Outside of key exchanges the server may say something of its own. *)
ServerSpeaks ==
    /\ ServerAwake
    /\ Room
    /\ server.phase # "start"
    /\ server.exchange # "sent"
    /\ \E type \in {"IGNORE", "GLOBAL_REQUEST", "CHANNEL"} :
          /\ type # "IGNORE" => server.phase = "established"
          /\ ServerSends(Types(<<type>>), server)
    /\ UNCHANGED toServer

ServerLeaves ==
    /\ ServerAwake
    /\ server.phase # "start"
    /\ ~server.leaving
    /\ ServerSends(Types(<<"DISCONNECT">>), [server EXCEPT !.leaving = TRUE])
    /\ UNCHANGED toServer

ServerFallsSilent ==
    /\ ServerAwake
    /\ server' = [server EXCEPT !.silent = TRUE]
    /\ UNCHANGED <<clientVars, toServer, toClient>>

(* The server reads a packet and answers it. *)
ServerAnswers(p) ==
    \/ /\ p.type \in {"ID", "UNIMPLEMENTED", "REQUEST_FAILURE", "DISCONNECT"}
       /\ ServerSends(<<>>, server)
    \/ /\ p.type = "KEXINIT"
       /\ ServerSends(<<>>, [server EXCEPT !.peerInit = TRUE])
    \/ /\ p.type = "KEXDH_INIT"
       /\ ServerSends(Types(<<"KEXDH_REPLY", "NEWKEYS">>),
                      [server EXCEPT !.exchange = "replied",
                                     !.sendKeys = NextKeys(@)])
    \/ /\ p.type = "NEWKEYS"
       /\ ServerSends(<<>>, [server EXCEPT !.exchange = "none",
                                           !.peerInit = FALSE,
                                           !.receiveKeys = NextKeys(@)])
    \/ /\ p.type = "SERVICE_REQUEST"
       /\ ServerSends(Types(<<"SERVICE_ACCEPT">>),
                      [server EXCEPT !.phase = "authentication"])
    \/ /\ p.type = "AUTH_REQUEST"
       /\ \/ ServerSends(Types(<<"BANNER", "AUTH_SUCCESS">>),
                         [server EXCEPT !.phase = "established"])
          \/ \E type \in {"AUTH_FAILURE", "PASSWD_CHANGEREQ"} :
                ServerSends(Types(<<type>>), server)
    \/ /\ p.type = "INVALID"
       /\ ServerSends(<<Unimplemented(p.seqNr)>>, server)
    \/ /\ p.type = "CHANNEL"
       /\ IF server.peerInit
          THEN ServerSends(Types(<<"DISCONNECT">>),
                           [server EXCEPT !.leaving = TRUE])
          ELSE ServerSends(<<>>, server)

ServerReads ==
    /\ ServerAwake
    /\ toServer # <<>>
    /\ ServerAnswers(Head(toServer))
    /\ toServer' = Tail(toServer)
-----------------------------------------------------------------------------
ServerActs == ServerStarts \/ ServerReads

SessionNext ==
    \/ ClientActs
    \/ ClientReads
    \/ ServerActs
    \/ ServerStartsExchange
    \/ ServerSpeaks
    \/ ServerLeaves
    \/ ServerFallsSilent

(* Timers fire, what has arrived is read, and a server that is not silent  *)
(* answers.                                                                *)
SessionFairness ==
    /\ WF_sessionVars(HandleTimeout /\ ClientSends)
    /\ WF_sessionVars(SendKeepAlivePacket /\ ClientSends)
    /\ WF_sessionVars(ClientReads)
    /\ WF_sessionVars(ServerActs)

SessionSpec == SessionInit /\ [][SessionNext]_sessionVars /\ SessionFairness
-----------------------------------------------------------------------------
(* Both sides change their keys at the same packet in each direction, in   *)
(* every exchange of every connection: what arrives is readable.           *)
KeysAgree ==
    /\ toClient # <<>> /\ socket = "Connected" /\ ~garbled
          /\ state # "SocketUnconnected"
             => Head(toClient).keys = receiveKeys
    /\ toServer # <<>> => Head(toServer).keys = server.receiveKeys

(* A server that keeps to the protocol is never accused of breaking it:    *)
(* the only cause of a protocol error is its own SSH_MSG_DISCONNECT.       *)
ServerIsUnderstood ==
    [][error' = "SshProtocolError" /\ error # error'
          => server.leaving]_sessionVars

(* Packets that belong to a key exchange. *)
ExchangeTypes == {"ID", "KEXINIT", "KEXDH_INIT", "NEWKEYS", "UNIMPLEMENTED",
                  "DISCONNECT"}

(* The n-th packet on its way to the server comes behind a KEXINIT of the  *)
(* client, and no NEWKEYS has ended that exchange before it.               *)
DuringExchange(n) ==
    \E i \in 0 .. n - 1 :
        /\ IF i = 0 THEN server.peerInit ELSE toServer[i].type = "KEXINIT"
        /\ \A k \in i + 1 .. n - 1 : toServer[k].type # "NEWKEYS"

NotDuringExchange(types) ==
    \A n \in DOMAIN toServer :
        toServer[n].type \in types => ~DuringExchange(n)

(* Keep-alive packets keep out of key exchanges, whenever the server may   *)
(* start one: sendKeepAlivePacket() tells why.                             *)
KeepAliveKeepsOut == NotDuringExchange({"INVALID"})

(* So does everything else that is not part of the exchange: "This type of *)
(* message is not allowed during key exchange", sshconnection.cpp:621.     *)
OnlyExchangeMessages ==
    NotDuringExchange({"INVALID", "CHANNEL", "REQUEST_FAILURE"})

(* A server that says nothing more, while no key exchange is under way in  *)
(* an established connection, is noticed.                                  *)
SilenceIsNoticed ==
    (/\ server.silent
     /\ toClient = <<>>
     /\ state # "SocketUnconnected"
     /\ Established => keyExchangeState = "NoKeyExchange")
        ~> state = "SocketUnconnected"

(* A key exchange in an established connection comes to its end. *)
ExchangeEnds ==
    (Established /\ keyExchangeState # "NoKeyExchange")
        ~> (keyExchangeState = "NoKeyExchange" \/ ~Established \/ server.silent)
==============================================================================
