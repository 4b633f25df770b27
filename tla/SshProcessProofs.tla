--------------------------- MODULE SshProcessProofs ---------------------------
(***************************************************************************)
(* Proofs, for windows and packets of any size and any amount of data, of  *)
(* what the run ssh_process checks on a few units of data.                 *)
(***************************************************************************)
EXTENDS SshProcessSession, SequenceLemmas

Requests == {"OPEN", "EXEC"}

OpenReplies == {"OPEN_CONFIRMATION", "OPEN_FAILURE"}

ExecReplies == {"SUCCESS", "FAILURE"}

Replies == OpenReplies \union ExecReplies

Exits == {"EXIT_STATUS", "EXIT_SIGNAL", "EXIT_SIGNAL_OTHER"}

(* What the server accepts only on an existing channel. *)
Addressed == {"DATA", "EOF", "SIGNAL", "CLOSE"}

PacketTypes == Requests \union Replies \union Exits \union Addressed
                        \union {"WINDOW_ADJUST"}

ChannelPacket == [type : PacketTypes, size : Nat, channel : {"none", "remote"}]

(* What the client sends: it offers the server its whole window. *)
ClientPacket == {p \in ChannelPacket :
                    p.type = "OPEN" => p.size = MaxPacketSize}

(* What the server sends: packets the client can take. *)
ServerPacket == {p \in ChannelPacket :
                    /\ p.channel = "remote"
                    /\ p.type = "DATA" => p.size <= MaxPacketSize}

Server == [channel : {"none", "open", "closing", "freed"},
           process : {"none", "running", "exited"},
           eof : BOOLEAN, silent : BOOLEAN,
           sendWindow : Nat, receiveWindow : Int,
           received : Nat, consumed : Nat, data : Nat]

(* The types of all packets, of those sent before the server's number of   *)
(* the channel was known, of all but the first, and of all behind a CLOSE. *)
TypesOf(packets) == {packets[i].type : i \in DOMAIN packets}

Unaddressed(packets) ==
    {packets[i].type :
        i \in {j \in DOMAIN packets : packets[j].channel = "none"}}

Behind(packets) == {packets[i].type : i \in DOMAIN packets \ {1}}

AfterClose(packets) ==
    {packets[j].type : j \in {k \in DOMAIN packets :
        \E i \in DOMAIN packets : i < k /\ packets[i].type = "CLOSE"}}
-----------------------------------------------------------------------------
Up == connection = "up"

Flags ==
    /\ registered \in BOOLEAN
    /\ wasRunning \in BOOLEAN
    /\ killed \in BOOLEAN
    /\ replyTimer \in BOOLEAN
    /\ open \in BOOLEAN
    /\ dropped \in BOOLEAN
    /\ hastyUse \in BOOLEAN

TypeInv ==
    /\ Flags
    /\ channelState \in ChannelStates
    /\ procState \in ProcessStates
    /\ remoteChannel \in {"none", "remote"}
    /\ localWindowSize \in Nat
    /\ remoteWindowSize \in Nat
    /\ sendBuffer \in Nat
    /\ toServer \in Seq(ClientPacket)
    /\ toClient \in Seq(ServerPacket)
    /\ server \in Server
    /\ written \in Nat
    /\ signalled \in Nat
    /\ ~Up => toServer = <<>> /\ toClient = <<>>

(* A process announces its start only while no start or failure has been   *)
(* announced, and its end only while it is registered.                     *)
Signals ==
    /\ registered /\ channelState \in {"Inactive", "SessionRequested"} =>
          emitted = <<>> /\ ~wasRunning
    /\ registered /\ procState = "ExecRequested" =>
          emitted = <<>> /\ ~wasRunning
    /\ registered /\ channelState \in {"Inactive", "SessionRequested"} =>
          procState \in {"NotYetStarted", "Exited"}
    /\ ~wasRunning => emitted \in {<<>>, <<"FailedToStart">>}
    /\ wasRunning /\ registered => emitted = <<"started">>
    /\ SignalsInOrder

(* Nothing was sent before the session is requested; the session is not    *)
(* established before the channel exists.                                  *)
Beginning ==
    /\ channelState = "Inactive" => ~replyTimer
    /\ procState \in {"NotYetStarted", "ExecRequested", "StartFailed"} =>
          sendBuffer = 0
    /\ Up /\ channelState = "Inactive" => registered
    /\ Up /\ registered /\ channelState \in {"Inactive", "Closed"} =>
          toServer = <<>> /\ toClient = <<>> /\ server.channel = "none"
    /\ Up /\ channelState \in {"Inactive", "SessionRequested"} =>
          /\ server.process = "none"
          /\ server.channel \in {"none", "open"}
          /\ TypesOf(toServer) \subseteq {"OPEN"}
          /\ TypesOf(toClient) \subseteq OpenReplies
          /\ procState \in {"NotYetStarted", "StartFailed"}
          /\ remoteWindowSize = 0

NoSession ==
    Up /\ server.channel = "none" =>
        /\ server.process = "none"
        /\ TypesOf(toServer) \intersect {"EXEC", "DATA", "WINDOW_ADJUST"} = {}
        /\ TypesOf(toClient) \subseteq {"OPEN_FAILURE"}
        /\ procState \in {"NotYetStarted", "StartFailed"}
        /\ channelState # "SessionEstablished"
        /\ remoteChannel = "none"
        /\ localWindowSize = MaxPacketSize
        /\ remoteWindowSize = 0

(* A request or its answer is the first packet on its way, and there is    *)
(* one of them at most; a CLOSE of the server is its last packet.          *)
Queues ==
    Up =>
        /\ Behind(toServer) \intersect Requests = {}
        /\ Behind(toClient) \intersect Replies = {}
        /\ AfterClose(toClient) = {}
        /\ TypesOf(toServer) \intersect Requests # {} =>
              toClient = <<>> /\ server.process = "none"
        /\ TypesOf(toClient) \intersect (OpenReplies \union {"FAILURE"}) # {} =>
              server.process = "none"
        /\ "OPEN" \in TypesOf(toServer) => server.channel = "none"
        /\ "EOF" \in TypesOf(toClient) => server.eof
        /\ "CLOSE" \in TypesOf(toClient) =>
              server.channel \in {"closing", "freed"}
        /\ server.channel \in {"closing", "freed"} =>
              TypesOf(toServer) \intersect Requests = {}

(* As long as the user is not hasty, every packet meets the state it is    *)
(* meant for.                                                              *)
Polite ==
    Up /\ ~hastyUse =>
        /\ (\/ "OPEN" \in TypesOf(toServer)
            \/ TypesOf(toClient) \intersect OpenReplies # {}) =>
              /\ registered
              /\ channelState = "SessionRequested"
        /\ (\/ "EXEC" \in TypesOf(toServer)
            \/ TypesOf(toClient) \intersect ExecReplies # {}) =>
              /\ registered
              /\ procState = "ExecRequested"
              /\ channelState \in {"SessionEstablished", "CloseRequested"}
        /\ TypesOf(toClient) \subseteq {"EOF", "CLOSE"} \/ registered
        /\ server.channel = "open" /\ server.process # "none" => registered
        /\ Unaddressed(toServer) \intersect Addressed = {}
        /\ (\/ channelState \in {"SessionEstablished", "CloseRequested"}
            \/ procState = "Running") =>
              remoteChannel = "remote"
        /\ registered /\ channelState = "CloseRequested" => sendBuffer = 0
        /\ "CLOSE" \in TypesOf(toServer) \/ server.channel = "freed" =>
              channelState \in {"CloseRequested", "Closed"}
        /\ server.channel \in {"none", "freed"} =>
              TypesOf(toServer) \intersect Addressed = {}
        /\ AfterClose(toServer) \intersect Addressed = {}

(* The inductive invariant. *)
IInv == /\ TypeInv
        /\ Signals
        /\ Beginning
        /\ NoSession
        /\ Queues
        /\ ReplyIsTimed
        /\ WindowsAgree
        /\ Polite
-----------------------------------------------------------------------------
(* What is known of a queue when packets are added at its end. *)
LEMMA Appended ==
    ASSUME NEW P, NEW s \in Seq(P), NEW t \in Seq(P)
    PROVE  /\ s \o t \in Seq(P)
           /\ TypesOf(s \o t) = TypesOf(s) \union TypesOf(t)
           /\ Unaddressed(s \o t) = Unaddressed(s) \union Unaddressed(t)
           /\ Behind(s \o t) = IF s = <<>> THEN Behind(t)
                              ELSE Behind(s) \union TypesOf(t)
           /\ AfterClose(s \o t) =
                  AfterClose(s) \union AfterClose(t)
                      \union (IF "CLOSE" \in TypesOf(s) THEN TypesOf(t) ELSE {})
<1> DEFINE u == s \o t
<1>1. /\ u \in Seq(P)
      /\ Len(s) \in Nat
      /\ Len(t) \in Nat
      /\ Len(u) = Len(s) + Len(t)
      /\ \A i \in 1..Len(s) : u[i] = s[i]
      /\ \A i \in 1..Len(t) : u[Len(s) + i] = t[i]
      /\ \A j \in (Len(s) + 1)..Len(u) : j - Len(s) \in 1..Len(t)
      /\ \A j \in (Len(s) + 1)..Len(u) : u[j] = t[j - Len(s)]
      /\ DOMAIN s = 1..Len(s)
      /\ DOMAIN t = 1..Len(t)
      /\ DOMAIN u = 1..Len(u)
      /\ DOMAIN u = 1..Len(s) \union (Len(s) + 1)..Len(u)
  OBVIOUS
<1> HIDE DEF u
<1>2. TypesOf(u) = TypesOf(s) \union TypesOf(t)
  <2>1. TypesOf(u) \subseteq TypesOf(s) \union TypesOf(t)
    <3> SUFFICES ASSUME NEW i \in DOMAIN u
                 PROVE  u[i].type \in TypesOf(s) \union TypesOf(t)
      BY DEF TypesOf
    <3>1. CASE i \in 1..Len(s)
      BY <1>1, <3>1 DEF TypesOf
    <3>2. CASE i \in (Len(s) + 1)..Len(u)
      BY <1>1, <3>2 DEF TypesOf
    <3> QED BY <1>1, <3>1, <3>2
  <2>2. TypesOf(s) \subseteq TypesOf(u)
    BY <1>1 DEF TypesOf
  <2>3. TypesOf(t) \subseteq TypesOf(u)
    <3> SUFFICES ASSUME NEW i \in DOMAIN t PROVE t[i].type \in TypesOf(u)
      BY DEF TypesOf
    <3> Len(s) + i \in DOMAIN u /\ u[Len(s) + i] = t[i]
      BY <1>1
    <3> QED BY DEF TypesOf
  <2> QED BY <2>1, <2>2, <2>3
<1>5. Unaddressed(u) = Unaddressed(s) \union Unaddressed(t)
  <2>1. Unaddressed(u) \subseteq Unaddressed(s) \union Unaddressed(t)
    <3> SUFFICES ASSUME NEW i \in DOMAIN u, u[i].channel = "none"
                 PROVE  u[i].type \in Unaddressed(s) \union Unaddressed(t)
      BY DEF Unaddressed
    <3>1. CASE i \in 1..Len(s)
      BY <1>1, <3>1 DEF Unaddressed
    <3>2. CASE i \in (Len(s) + 1)..Len(u)
      BY <1>1, <3>2 DEF Unaddressed
    <3> QED BY <1>1, <3>1, <3>2
  <2>2. Unaddressed(s) \subseteq Unaddressed(u)
    BY <1>1 DEF Unaddressed
  <2>3. Unaddressed(t) \subseteq Unaddressed(u)
    <3> SUFFICES ASSUME NEW i \in DOMAIN t, t[i].channel = "none"
                 PROVE  t[i].type \in Unaddressed(u)
      BY DEF Unaddressed
    <3> Len(s) + i \in DOMAIN u /\ u[Len(s) + i] = t[i]
      BY <1>1
    <3> QED BY DEF Unaddressed
  <2> QED BY <2>1, <2>2, <2>3
<1>3. CASE s = <<>>
  <2>1. u = t
    BY <1>3 DEF u
  <2>2. TypesOf(s) = {} /\ AfterClose(s) = {}
    BY <1>3 DEF TypesOf, AfterClose
  <2> QED BY <1>1, <1>2, <1>3, <1>5, <2>1, <2>2 DEF u
<1>4. CASE s # <<>>
  <2>0. Len(s) \in Nat \ {0}
    BY <1>4
  <2>1. Behind(u) = Behind(s) \union TypesOf(t)
    <3>1. Behind(u) \subseteq Behind(s) \union TypesOf(t)
      <4> SUFFICES ASSUME NEW i \in DOMAIN u \ {1}
                   PROVE  u[i].type \in Behind(s) \union TypesOf(t)
        BY DEF Behind
      <4>1. CASE i \in 1..Len(s)
        BY <1>1, <4>1 DEF Behind
      <4>2. CASE i \in (Len(s) + 1)..Len(u)
        BY <1>1, <4>2 DEF TypesOf
      <4> QED BY <1>1, <4>1, <4>2
    <3>2. Behind(s) \subseteq Behind(u)
      BY <1>1 DEF Behind
    <3>3. TypesOf(t) \subseteq Behind(u)
      <4> SUFFICES ASSUME NEW i \in DOMAIN t PROVE t[i].type \in Behind(u)
        BY DEF TypesOf
      <4> Len(s) + i \in DOMAIN u \ {1} /\ u[Len(s) + i] = t[i]
        BY <1>1, <2>0
      <4> QED BY DEF Behind
    <3> QED BY <3>1, <3>2, <3>3
  <2>2. AfterClose(u) = AfterClose(s) \union AfterClose(t)
            \union (IF "CLOSE" \in TypesOf(s) THEN TypesOf(t) ELSE {})
    <3> DEFINE new == IF "CLOSE" \in TypesOf(s) THEN TypesOf(t) ELSE {}
    <3>1. AfterClose(u) \subseteq AfterClose(s) \union AfterClose(t) \union new
      <4> SUFFICES ASSUME NEW i \in DOMAIN u, NEW j \in DOMAIN u,
                          i < j, u[i].type = "CLOSE"
                   PROVE  u[j].type \in AfterClose(s)
                              \union AfterClose(t) \union new
        BY DEF AfterClose
      <4>1. CASE j \in 1..Len(s)
        <5> i \in DOMAIN s /\ j \in DOMAIN s /\ u[i] = s[i] /\ u[j] = s[j]
          BY <1>1, <4>1
        <5> QED BY DEF AfterClose
      <4>2. CASE i \in 1..Len(s) /\ j \in (Len(s) + 1)..Len(u)
        <5> /\ i \in DOMAIN s /\ u[i] = s[i]
            /\ j - Len(s) \in DOMAIN t /\ u[j] = t[j - Len(s)]
          BY <1>1, <4>2
        <5> "CLOSE" \in TypesOf(s) /\ u[j].type \in TypesOf(t)
          BY DEF TypesOf
        <5> QED OBVIOUS
      <4>3. CASE i \in (Len(s) + 1)..Len(u) /\ j \in (Len(s) + 1)..Len(u)
        <5> /\ i - Len(s) \in DOMAIN t /\ u[i] = t[i - Len(s)]
            /\ j - Len(s) \in DOMAIN t /\ u[j] = t[j - Len(s)]
            /\ i - Len(s) < j - Len(s)
          BY <1>1, <4>3
        <5> QED BY DEF AfterClose
      <4> QED BY <1>1, <4>1, <4>2, <4>3
    <3>2. AfterClose(s) \subseteq AfterClose(u)
      <4> SUFFICES ASSUME NEW i \in DOMAIN s, NEW j \in DOMAIN s,
                          i < j, s[i].type = "CLOSE"
                   PROVE  s[j].type \in AfterClose(u)
        BY DEF AfterClose
      <4> i \in DOMAIN u /\ j \in DOMAIN u /\ u[i] = s[i] /\ u[j] = s[j]
        BY <1>1
      <4> QED BY DEF AfterClose
    <3>3. AfterClose(t) \subseteq AfterClose(u)
      <4> SUFFICES ASSUME NEW i \in DOMAIN t, NEW j \in DOMAIN t,
                          i < j, t[i].type = "CLOSE"
                   PROVE  t[j].type \in AfterClose(u)
        BY DEF AfterClose
      <4> /\ Len(s) + i \in DOMAIN u /\ u[Len(s) + i] = t[i]
          /\ Len(s) + j \in DOMAIN u /\ u[Len(s) + j] = t[j]
          /\ Len(s) + i < Len(s) + j
        BY <1>1
      <4> QED BY DEF AfterClose
    <3>4. new \subseteq AfterClose(u)
      <4> SUFFICES ASSUME NEW i \in DOMAIN s, s[i].type = "CLOSE",
                          NEW j \in DOMAIN t
                   PROVE  t[j].type \in AfterClose(u)
        BY DEF TypesOf
      <4> /\ i \in DOMAIN u /\ u[i] = s[i]
          /\ Len(s) + j \in DOMAIN u /\ u[Len(s) + j] = t[j]
          /\ i < Len(s) + j
        BY <1>1
      <4> QED BY DEF AfterClose
    <3> HIDE DEF new
    <3> QED BY <3>1, <3>2, <3>3, <3>4 DEF new
  <2> QED BY <1>1, <1>2, <1>4, <1>5, <2>1, <2>2 DEF u
<1> QED BY <1>3, <1>4

(* What is known of a queue from whose front a packet is taken. *)
LEMMA Taken ==
    ASSUME NEW P, NEW s \in Seq(P), s # <<>>
    PROVE  /\ Head(s) \in P
           /\ Tail(s) \in Seq(P)
           /\ TypesOf(s) = {Head(s).type} \union TypesOf(Tail(s))
           /\ TypesOf(Tail(s)) = Behind(s)
           /\ Unaddressed(s) = Unaddressed(Tail(s))
                  \union (IF Head(s).channel = "none" THEN {Head(s).type}
                          ELSE {})
           /\ Behind(Tail(s)) \subseteq Behind(s)
           /\ AfterClose(s) = AfterClose(Tail(s))
                  \union (IF Head(s).type = "CLOSE" THEN Behind(s) ELSE {})
<1> DEFINE t == Tail(s)
<1>1. /\ t \in Seq(P)
      /\ Head(s) = s[1]
      /\ Head(s) \in P
      /\ Len(s) \in Nat \ {0}
      /\ Len(t) = Len(s) - 1
      /\ \A i \in 1..Len(t) : t[i] = s[i+1]
      /\ \A i \in 1..Len(t) : i + 1 \in DOMAIN s \ {1}
      /\ \A i \in DOMAIN s \ {1} : i - 1 \in 1..Len(t)
      /\ \A i \in DOMAIN s \ {1} : t[i-1] = s[i]
      /\ DOMAIN s = 1..Len(s)
      /\ DOMAIN t = 1..Len(t)
  OBVIOUS
<1> HIDE DEF t
<1>2. TypesOf(t) = Behind(s)
  <2>1. TypesOf(t) \subseteq Behind(s)
    BY <1>1 DEF TypesOf, Behind
  <2>2. Behind(s) \subseteq TypesOf(t)
    <3> SUFFICES ASSUME NEW i \in DOMAIN s \ {1} PROVE s[i].type \in TypesOf(t)
      BY DEF Behind
    <3> i - 1 \in DOMAIN t /\ t[i-1] = s[i]
      BY <1>1
    <3> QED BY DEF TypesOf
  <2> QED BY <2>1, <2>2
<1>3. TypesOf(s) = {Head(s).type} \union Behind(s)
  <2>1. 1 \in DOMAIN s
    BY <1>1
  <2> QED BY <1>1, <2>1 DEF TypesOf, Behind
<1>4. Behind(t) \subseteq Behind(s)
  BY <1>2 DEF TypesOf, Behind
<1>5. AfterClose(s) = AfterClose(t)
          \union (IF Head(s).type = "CLOSE" THEN Behind(s) ELSE {})
  <2>1. ASSUME NEW i \in DOMAIN s, NEW j \in DOMAIN s,
               i < j, s[i].type = "CLOSE"
        PROVE  \/ s[j].type \in AfterClose(t)
               \/ Head(s).type = "CLOSE" /\ s[j].type \in Behind(s)
    <3>1. j \in DOMAIN s \ {1}
      BY <1>1, <2>1
    <3>2. CASE i = 1
      BY <1>1, <2>1, <3>1, <3>2 DEF Behind
    <3>3. CASE i # 1
      <4> /\ i - 1 \in DOMAIN t /\ t[i-1] = s[i]
          /\ j - 1 \in DOMAIN t /\ t[j-1] = s[j]
          /\ i - 1 < j - 1
        BY <1>1, <2>1, <3>1, <3>3
      <4> QED BY <2>1 DEF AfterClose
    <3> QED BY <3>2, <3>3
  <2>2. ASSUME NEW i \in DOMAIN t, NEW j \in DOMAIN t,
               i < j, t[i].type = "CLOSE"
        PROVE  t[j].type \in AfterClose(s)
    <3> /\ i + 1 \in DOMAIN s /\ s[i+1] = t[i]
        /\ j + 1 \in DOMAIN s /\ s[j+1] = t[j]
        /\ i + 1 < j + 1
      BY <1>1, <2>2
    <3> QED BY <2>2 DEF AfterClose
  <2>3. ASSUME Head(s).type = "CLOSE", NEW j \in DOMAIN s \ {1}
        PROVE  s[j].type \in AfterClose(s)
    <3> 1 \in DOMAIN s /\ 1 < j /\ s[1].type = "CLOSE"
      BY <1>1, <2>3
    <3> QED BY DEF AfterClose
  <2>4. AfterClose(s) \subseteq AfterClose(t)
            \union (IF Head(s).type = "CLOSE" THEN Behind(s) ELSE {})
    <3> SUFFICES ASSUME NEW i \in DOMAIN s, NEW j \in DOMAIN s,
                        i < j, s[i].type = "CLOSE"
                 PROVE  s[j].type \in AfterClose(t)
                    \union (IF Head(s).type = "CLOSE" THEN Behind(s) ELSE {})
      BY DEF AfterClose
    <3> QED BY <2>1
  <2>5. AfterClose(t) \subseteq AfterClose(s)
    BY <2>2 DEF AfterClose
  <2>6. Head(s).type = "CLOSE" => Behind(s) \subseteq AfterClose(s)
    BY <2>3 DEF Behind
  <2> QED BY <2>4, <2>5, <2>6
<1>6. Unaddressed(s) = Unaddressed(t)
          \union (IF Head(s).channel = "none" THEN {Head(s).type} ELSE {})
  <2>1. Unaddressed(s) \subseteq Unaddressed(t)
            \union (IF Head(s).channel = "none" THEN {Head(s).type} ELSE {})
    <3> SUFFICES ASSUME NEW i \in DOMAIN s, s[i].channel = "none"
                 PROVE  \/ s[i].type \in Unaddressed(t)
                        \/ Head(s).channel = "none" /\ s[i].type = Head(s).type
      BY DEF Unaddressed
    <3>1. CASE i = 1
      BY <1>1, <3>1
    <3>2. CASE i # 1
      <4> i - 1 \in DOMAIN t /\ t[i-1] = s[i]
        BY <1>1, <3>2
      <4> QED BY DEF Unaddressed
    <3> QED BY <3>1, <3>2
  <2>2. Unaddressed(t) \subseteq Unaddressed(s)
    BY <1>1 DEF Unaddressed
  <2>3. Head(s).channel = "none" => Head(s).type \in Unaddressed(s)
    <3> 1 \in DOMAIN s
      BY <1>1
    <3> QED BY <1>1 DEF Unaddressed
  <2> QED BY <2>1, <2>2, <2>3
<1> QED BY <1>1, <1>2, <1>3, <1>4, <1>5, <1>6 DEF t

(* The empty queue. *)
LEMMA NoPacket ==
    /\ TypesOf(<<>>) = {}
    /\ Unaddressed(<<>>) = {}
    /\ Behind(<<>>) = {}
    /\ AfterClose(<<>>) = {}
  BY DEF TypesOf, Unaddressed, Behind, AfterClose

(* A queue of one packet. *)
LEMMA OnePacket ==
    ASSUME NEW p
    PROVE  /\ TypesOf(<<p>>) = {p.type}
           /\ p.channel # "none" => Unaddressed(<<p>>) = {}
           /\ Unaddressed(<<p>>) \subseteq {p.type}
           /\ Behind(<<p>>) = {}
           /\ AfterClose(<<p>>) = {}
  BY DEF TypesOf, Unaddressed, Behind, AfterClose

(* A queue of two packets. *)
LEMMA TwoPackets ==
    ASSUME NEW p, NEW q
    PROVE  /\ TypesOf(<<p, q>>) = {p.type, q.type}
           /\ p.channel # "none" /\ q.channel # "none" =>
                 Unaddressed(<<p, q>>) = {}
           /\ Behind(<<p, q>>) = {q.type}
           /\ p.type # "CLOSE" => AfterClose(<<p, q>>) = {}
  BY DEF TypesOf, Unaddressed, Behind, AfterClose
-----------------------------------------------------------------------------
(* Sizes are numbers. *)
LEMMA SizesAreNumbers ==
    ASSUME NEW s \in Seq(ChannelPacket), NEW i \in DOMAIN s
    PROVE  s[i].size \in Nat
<1>1. s[i] \in ChannelPacket
  OBVIOUS
<1> QED BY <1>1 DEF ChannelPacket

(* The units in packets are finitely many. *)
LEMMA UnitsFinite ==
    ASSUME NEW s \in Seq(ChannelPacket), NEW T
    PROVE  IsFiniteSet(Units(s, T)) /\ Size(s, T) \in Nat
<1> DEFINE I == {j \in DOMAIN s : s[j].type \in T}
           of == [i \in I |-> {i} \X (1 .. s[i].size)]
           parts == {of[i] : i \in I}
<1>1. IsFiniteSet(I)
  <2>1. IsFiniteSet(1..Len(s))
    BY FS_Interval
  <2>2. I \subseteq 1..Len(s)
    OBVIOUS
  <2> QED BY <2>1, <2>2, FS_Subset
<1>2. IsFiniteSet(parts)
  <2> DEFINE f == of
  <2>1. f \in Surjection(I, parts)
    <3>1. f \in [I -> parts]
      OBVIOUS
    <3>2. \A p \in parts : \E i \in I : f[i] = p
      OBVIOUS
    <3> HIDE DEF f, I, parts
    <3> QED BY <3>1, <3>2, Zenon DEF Surjection
  <2> HIDE DEF f, I, parts
  <2> QED BY <1>1, <2>1, FS_Surjection, Zenon
<1>3. \A p \in parts : IsFiniteSet(p)
  <2> SUFFICES ASSUME NEW i \in I PROVE IsFiniteSet({i} \X (1 .. s[i].size))
    OBVIOUS
  <2>1. s[i].size \in Nat
    BY SizesAreNumbers
  <2>2. IsFiniteSet(1 .. s[i].size)
    BY <2>1, FS_Interval
  <2>3. IsFiniteSet({i})
    BY FS_Singleton
  <2> QED BY <2>2, <2>3, FS_Product, Zenon
<1>4. Units(s, T) = UNION parts
  BY DEF Units
<1> HIDE DEF parts
<1>5. IsFiniteSet(Units(s, T))
  BY <1>2, <1>3, <1>4, FS_UNION, Zenon
<1> QED BY <1>5, FS_CardinalityType DEF Size

(* A unit is the place of its packet and its place in the packet. *)
LEMMA UnitsAre ==
    ASSUME NEW s \in Seq(ChannelPacket), NEW T, NEW u
    PROVE  u \in Units(s, T) <=>
              \E i \in 1..Len(s) : \E k \in 1 .. s[i].size :
                  s[i].type \in T /\ u = <<i, k>>
<1>1. DOMAIN s = 1..Len(s)
  OBVIOUS
<1>2. u \in Units(s, T) <=>
          \E i \in {j \in 1..Len(s) : s[j].type \in T} :
              u \in {i} \X (1 .. s[i].size)
  BY <1>1, Zenon DEF Units
<1>3. \A i : u \in {i} \X (1 .. s[i].size) <=>
                 \E k \in 1 .. s[i].size : u = <<i, k>>
  OBVIOUS
<1> QED BY <1>2, <1>3

(* Appended packets add their units. *)
LEMMA SizeAdds ==
    ASSUME NEW s \in Seq(ChannelPacket), NEW t \in Seq(ChannelPacket), NEW T
    PROVE  Size(s \o t, T) = Size(s, T) + Size(t, T)
<1> DEFINE n == Len(s)
           A == Units(s, T)
           B == {<<u[1] + n, u[2]>> : u \in Units(t, T)}
           f == [u \in Units(t, T) |-> <<u[1] + n, u[2]>>]
<1>0. \A r \in Seq(ChannelPacket) : \A u :
         u \in Units(r, T) <=>
            \E i \in 1..Len(r) : \E k \in 1 .. r[i].size :
                r[i].type \in T /\ u = <<i, k>>
  BY UnitsAre
<1>1. /\ n \in Nat
      /\ Len(t) \in Nat
      /\ s \o t \in Seq(ChannelPacket)
      /\ Len(s \o t) = n + Len(t)
      /\ \A i \in 1..n : (s \o t)[i] = s[i]
      /\ \A i \in 1..Len(t) : (s \o t)[n + i] = t[i]
      /\ \A j \in (n + 1)..(n + Len(t)) : (s \o t)[j] = t[j - n]
  OBVIOUS
<1> HIDE DEF n
<1>2. Units(s \o t, T) = A \union B
  <2>1. ASSUME NEW i \in 1..Len(s \o t), NEW k \in 1 .. (s \o t)[i].size,
               (s \o t)[i].type \in T
        PROVE  <<i, k>> \in A \union B
    <3>1. CASE i \in 1..n
      BY <1>0, <1>1, <2>1, <3>1 DEF n
    <3>2. CASE i \in (n + 1)..(n + Len(t))
      <4>1. /\ i - n \in 1..Len(t)
            /\ (s \o t)[i] = t[i - n]
            /\ (i - n) + n = i
        BY <1>1, <3>2
      <4>2. <<i - n, k>> \in Units(t, T)
        BY <1>0, <2>1, <4>1
      <4> QED BY <4>1, <4>2
    <3> QED BY <1>1, <3>1, <3>2
  <2>2. ASSUME NEW i \in 1..Len(s), NEW k \in 1 .. s[i].size,
               s[i].type \in T
        PROVE  <<i, k>> \in Units(s \o t, T)
    <3>1. i \in 1..Len(s \o t) /\ (s \o t)[i] = s[i]
      BY <1>1 DEF n
    <3> QED BY <1>0, <1>1, <2>2, <3>1
  <2>3. ASSUME NEW i \in 1..Len(t), NEW k \in 1 .. t[i].size,
               t[i].type \in T
        PROVE  <<i + n, k>> \in Units(s \o t, T)
    <3>1. i + n \in 1..Len(s \o t) /\ (s \o t)[i + n] = t[i]
      BY <1>1
    <3> QED BY <1>0, <1>1, <2>3, <3>1
  <2>4. Units(s \o t, T) \subseteq A \union B
    <3> SUFFICES ASSUME NEW u \in Units(s \o t, T) PROVE u \in A \union B
      BY Zenon
    <3>1. PICK i \in 1..Len(s \o t) : \E k \in 1 .. (s \o t)[i].size :
              (s \o t)[i].type \in T /\ u = <<i, k>>
      <4> DEFINE w == s \o t
      <4>1. w \in Seq(ChannelPacket) /\ u \in Units(w, T)
        BY <1>1
      <4> HIDE DEF w
      <4>2. \E i \in 1..Len(w) : \E k \in 1 .. w[i].size :
                w[i].type \in T /\ u = <<i, k>>
        BY <4>1, UnitsAre
      <4> QED BY <4>2 DEF w
    <3> HIDE DEF A, B
    <3> QED BY <2>1, <3>1
  <2>5. A \subseteq Units(s \o t, T)
    BY <1>0, <2>2
  <2>6. B \subseteq Units(s \o t, T)
    <3> SUFFICES ASSUME NEW u \in Units(t, T)
                 PROVE  <<u[1] + n, u[2]>> \in Units(s \o t, T)
      OBVIOUS
    <3>1. PICK i \in 1..Len(t) : \E k \in 1 .. t[i].size :
              t[i].type \in T /\ u = <<i, k>>
      BY <1>0
    <3> QED BY <2>3, <3>1
  <2> QED BY <2>4, <2>5, <2>6
<1>3. A \intersect B = {}
  <2>1. \A u \in A : u[1] \in 1..n
    BY <1>0 DEF n
  <2>2. \A u \in B : u[1] \in (n + 1)..(n + Len(t))
    <3> SUFFICES ASSUME NEW u \in Units(t, T)
                 PROVE  u[1] + n \in (n + 1)..(n + Len(t))
      OBVIOUS
    <3> u[1] \in 1..Len(t)
      BY <1>0
    <3> QED BY <1>1
  <2>3. \A i \in 1..n : i \notin (n + 1)..(n + Len(t))
    BY <1>1
  <2> HIDE DEF A, B
  <2> QED BY <2>1, <2>2, <2>3
<1>4. /\ IsFiniteSet(A)
      /\ IsFiniteSet(Units(t, T))
      /\ Cardinality(A) = Size(s, T)
      /\ Cardinality(Units(t, T)) = Size(t, T)
      /\ Size(s, T) \in Nat
      /\ Size(t, T) \in Nat
  BY UnitsFinite DEF Size
<1>5. Cardinality(B) = Cardinality(Units(t, T)) /\ IsFiniteSet(B)
  <2>1. f \in [Units(t, T) -> B]
    OBVIOUS
  <2>2. \A u, v \in Units(t, T) : f[u] = f[v] => u = v
    <3> SUFFICES ASSUME NEW u \in Units(t, T), NEW v \in Units(t, T),
                        <<u[1] + n, u[2]>> = <<v[1] + n, v[2]>>
                 PROVE  u = v
      OBVIOUS
    <3>1. PICK i \in Nat, k \in Nat : u = <<i, k>>
      <4> \A m \in 1..Len(t) : t[m].size \in Nat
        BY SizesAreNumbers
      <4> QED BY <1>0
    <3>2. PICK j \in Nat, l \in Nat : v = <<j, l>>
      <4> \A m \in 1..Len(t) : t[m].size \in Nat
        BY SizesAreNumbers
      <4> QED BY <1>0
    <3>3. i + n = j + n /\ k = l
      BY <3>1, <3>2
    <3>4. i = j
      BY <1>1, <3>3
    <3> QED BY <3>1, <3>2, <3>3, <3>4
  <2>3. \A b \in B : \E u \in Units(t, T) : f[u] = b
    OBVIOUS
  <2> HIDE DEF f, B
  <2>4. f \in Bijection(Units(t, T), B)
    BY <2>1, <2>2, <2>3, Zenon DEF Bijection, Injection, Surjection, IsInjective
  <2>5. ExistsBijection(Units(t, T), B)
    BY <2>4, Zenon DEF ExistsBijection
  <2> QED BY <1>4, <2>5, FS_Bijection, Zenon
<1>6. Cardinality(A \union B) =
          Cardinality(A) + Cardinality(B) - Cardinality({})
  <2> HIDE DEF A, B
  <2> QED BY <1>3, <1>4, <1>5, FS_Union
<1> HIDE DEF A, B
<1>7. Cardinality(A \union B) = Size(s, T) + Size(t, T)
  BY <1>4, <1>5, <1>6, FS_EmptySet
<1> QED BY <1>2, <1>7 DEF Size

(* Packets of other types have no units. *)
LEMMA SizeOfNone ==
    ASSUME NEW s, NEW T, TypesOf(s) \intersect T = {}
    PROVE  Size(s, T) = 0
<1>1. {j \in DOMAIN s : s[j].type \in T} = {}
  BY DEF TypesOf
<1>2. Units(s, T) = {}
  BY <1>1 DEF Units
<1> QED BY <1>2, FS_EmptySet DEF Size

(* A single packet has as many units as it is large. *)
LEMMA SizeOfOne ==
    ASSUME NEW p \in ChannelPacket, NEW T
    PROVE  Size(<<p>>, T) = IF p.type \in T THEN p.size ELSE 0
<1>1. CASE p.type \notin T
  <2> TypesOf(<<p>>) \intersect T = {}
    BY <1>1 DEF TypesOf
  <2> QED BY <1>1, SizeOfNone
<1>2. CASE p.type \in T
  <2> DEFINE U == {1} \X (1 .. p.size)
             f == [k \in 1 .. p.size |-> <<1, k>>]
  <2>1. {j \in DOMAIN <<p>> : <<p>>[j].type \in T} = {1}
    BY <1>2
  <2>2. Units(<<p>>, T) = U
    BY <2>1 DEF Units
  <2>3. p.size \in Nat
    BY DEF ChannelPacket
  <2>4. Cardinality(1 .. p.size) = p.size /\ IsFiniteSet(1 .. p.size)
    BY <2>3, FS_Interval
  <2>5. f \in Bijection(1 .. p.size, U)
    <3>1. f \in [1 .. p.size -> U]
      OBVIOUS
    <3>2. \A k, l \in 1 .. p.size : f[k] = f[l] => k = l
      OBVIOUS
    <3>3. \A u \in U : \E k \in 1 .. p.size : f[k] = u
      OBVIOUS
    <3> HIDE DEF f, U
    <3> QED BY <3>1, <3>2, <3>3, Zenon DEF Bijection, Injection, Surjection,
               IsInjective
  <2> HIDE DEF f, U
  <2>6. ExistsBijection(1 .. p.size, U)
    BY <2>5, Zenon DEF ExistsBijection
  <2>7. Cardinality(U) = Cardinality(1 .. p.size)
    BY <2>4, <2>6, FS_Bijection, Zenon
  <2> QED BY <1>2, <2>2, <2>4, <2>7 DEF Size
<1> QED BY <1>1, <1>2
-----------------------------------------------------------------------------
(* What the client has requested, and not been answered. *)
LEMMA Awaited ==
    /\ ReplyPending <=> \/ TypesOf(toServer) \intersect Requests # {}
                        \/ TypesOf(toClient) \intersect Replies # {}
    /\ ReplyPending' <=> \/ TypesOf(toServer') \intersect Requests # {}
                         \/ TypesOf(toClient') \intersect Replies # {}
  BY DEF ReplyPending, TypesOf, Range, Requests, Replies, OpenReplies,
      ExecReplies

(* The queues after the client has sent something. *)
LEMMA Sending ==
    ASSUME TypeInv, connection' = "up", sent' \in Seq(ClientPacket),
           NEW incoming, ClientSends(incoming)
    PROVE  /\ toServer' = toServer \o sent'
           /\ toClient' = incoming
           /\ server' = server
           /\ toServer' \in Seq(ClientPacket)
           /\ TypesOf(toServer') = TypesOf(toServer) \union TypesOf(sent')
           /\ Unaddressed(toServer') =
                  Unaddressed(toServer) \union Unaddressed(sent')
           /\ Behind(toServer') = IF toServer = <<>> THEN Behind(sent')
                                 ELSE Behind(toServer) \union TypesOf(sent')
           /\ AfterClose(toServer') =
                  AfterClose(toServer) \union AfterClose(sent')
                      \union (IF "CLOSE" \in TypesOf(toServer)
                              THEN TypesOf(sent') ELSE {})
           /\ \A T : /\ Size(toServer', T) = Size(toServer, T) + Size(sent', T)
                    /\ Size(toServer, T) \in Nat
                    /\ Size(sent', T) \in Nat
<1>1. /\ toServer' = toServer \o sent'
      /\ toClient' = incoming
      /\ server' = server
      /\ toServer \in Seq(ClientPacket)
  BY DEF ClientSends, TypeInv
<1>2. toServer \in Seq(ChannelPacket) /\ sent' \in Seq(ChannelPacket)
  <2> ClientPacket \subseteq ChannelPacket
    BY DEF ClientPacket
  <2> QED BY <1>1
<1>3. \A T : /\ Size(toServer \o sent', T) = Size(toServer, T) + Size(sent', T)
            /\ Size(toServer, T) \in Nat
            /\ Size(sent', T) \in Nat
  BY <1>2, SizeAdds, UnitsFinite
<1>4. /\ toServer \o sent' \in Seq(ClientPacket)
      /\ TypesOf(toServer \o sent') = TypesOf(toServer) \union TypesOf(sent')
      /\ Unaddressed(toServer \o sent') =
             Unaddressed(toServer) \union Unaddressed(sent')
      /\ Behind(toServer \o sent') = IF toServer = <<>> THEN Behind(sent')
                            ELSE Behind(toServer) \union TypesOf(sent')
      /\ AfterClose(toServer \o sent') =
             AfterClose(toServer) \union AfterClose(sent')
                 \union (IF "CLOSE" \in TypesOf(toServer)
                         THEN TypesOf(sent') ELSE {})
  BY <1>1, Appended
<1> QED BY <1>1, <1>3, <1>4, Zenon

(* The queue to the client after it has read a packet. *)
LEMMA Reading ==
    ASSUME TypeInv, toClient # <<>>
    PROVE  /\ Head(toClient) \in ServerPacket
           /\ Tail(toClient) \in Seq(ServerPacket)
           /\ TypesOf(toClient) =
                  {Head(toClient).type} \union TypesOf(Tail(toClient))
           /\ TypesOf(Tail(toClient)) = Behind(toClient)
           /\ Behind(Tail(toClient)) \subseteq Behind(toClient)
           /\ AfterClose(toClient) = AfterClose(Tail(toClient))
                  \union (IF Head(toClient).type = "CLOSE" THEN Behind(toClient)
                          ELSE {})
           /\ \A T : /\ Size(toClient, T) = Size(Tail(toClient), T) +
                            (IF Head(toClient).type \in T
                             THEN Head(toClient).size ELSE 0)
                    /\ Size(Tail(toClient), T) \in Nat
<1>1. toClient \in Seq(ServerPacket)
  BY DEF TypeInv
<1>2. Head(toClient) \in ServerPacket /\ Tail(toClient) \in Seq(ServerPacket)
  BY <1>1
<1>3. ServerPacket \subseteq ChannelPacket
  BY DEF ServerPacket
<1>4. /\ <<Head(toClient)>> \in Seq(ChannelPacket)
      /\ Tail(toClient) \in Seq(ChannelPacket)
      /\ Head(toClient) \in ChannelPacket
  BY <1>2, <1>3
<1>5. toClient = <<Head(toClient)>> \o Tail(toClient)
  BY <1>1, HeadAndTail, Zenon
<1>6. \A T : /\ Size(toClient, T) = Size(<<Head(toClient)>>, T)
                                      + Size(Tail(toClient), T)
            /\ Size(Tail(toClient), T) \in Nat
            /\ Size(<<Head(toClient)>>, T) =
                  IF Head(toClient).type \in T THEN Head(toClient).size ELSE 0
  <2> TAKE T
  <2>1. Size(Tail(toClient), T) \in Nat
    BY <1>4, UnitsFinite
  <2>2. Size(<<Head(toClient)>>, T) =
            IF Head(toClient).type \in T THEN Head(toClient).size ELSE 0
    BY <1>4, SizeOfOne, Zenon
  <2>3. Size(<<Head(toClient)>> \o Tail(toClient), T) =
            Size(<<Head(toClient)>>, T) + Size(Tail(toClient), T)
    BY <1>4, SizeAdds, Zenon
  <2> QED BY <1>5, <2>1, <2>2, <2>3, Zenon
<1>7. Head(toClient).size \in Nat
  BY <1>4 DEF ChannelPacket
<1>8. \A T : /\ Size(toClient, T) = Size(Tail(toClient), T) +
                            (IF Head(toClient).type \in T
                             THEN Head(toClient).size ELSE 0)
            /\ Size(Tail(toClient), T) \in Nat
  <2> TAKE T
  <2> QED BY <1>6, <1>7
<1> QED BY <1>1, <1>2, <1>8, Taken, Zenon

(* The queue to the server after it has read a packet. *)
LEMMA ServerReading ==
    ASSUME TypeInv, toServer # <<>>
    PROVE  /\ Head(toServer) \in ClientPacket
           /\ Tail(toServer) \in Seq(ClientPacket)
           /\ TypesOf(toServer) =
                  {Head(toServer).type} \union TypesOf(Tail(toServer))
           /\ TypesOf(Tail(toServer)) = Behind(toServer)
           /\ Behind(Tail(toServer)) \subseteq Behind(toServer)
           /\ Unaddressed(toServer) = Unaddressed(Tail(toServer))
                  \union (IF Head(toServer).channel = "none"
                          THEN {Head(toServer).type} ELSE {})
           /\ AfterClose(toServer) = AfterClose(Tail(toServer))
                  \union (IF Head(toServer).type = "CLOSE" THEN Behind(toServer)
                          ELSE {})
           /\ \A T : /\ Size(toServer, T) = Size(Tail(toServer), T) +
                            (IF Head(toServer).type \in T
                             THEN Head(toServer).size ELSE 0)
                    /\ Size(Tail(toServer), T) \in Nat
<1>1. toServer \in Seq(ClientPacket)
  BY DEF TypeInv
<1>2. Head(toServer) \in ClientPacket /\ Tail(toServer) \in Seq(ClientPacket)
  BY <1>1
<1>3. ClientPacket \subseteq ChannelPacket
  BY DEF ClientPacket
<1>4. /\ <<Head(toServer)>> \in Seq(ChannelPacket)
      /\ Tail(toServer) \in Seq(ChannelPacket)
      /\ Head(toServer) \in ChannelPacket
  BY <1>2, <1>3
<1>5. toServer = <<Head(toServer)>> \o Tail(toServer)
  BY <1>1, HeadAndTail, Zenon
<1>6. \A T : /\ Size(toServer, T) = Size(<<Head(toServer)>>, T)
                                      + Size(Tail(toServer), T)
            /\ Size(Tail(toServer), T) \in Nat
            /\ Size(<<Head(toServer)>>, T) =
                  IF Head(toServer).type \in T THEN Head(toServer).size ELSE 0
  <2> TAKE T
  <2>1. Size(Tail(toServer), T) \in Nat
    BY <1>4, UnitsFinite
  <2>2. Size(<<Head(toServer)>>, T) =
            IF Head(toServer).type \in T THEN Head(toServer).size ELSE 0
    BY <1>4, SizeOfOne, Zenon
  <2>3. Size(<<Head(toServer)>> \o Tail(toServer), T) =
            Size(<<Head(toServer)>>, T) + Size(Tail(toServer), T)
    BY <1>4, SizeAdds, Zenon
  <2> QED BY <1>5, <2>1, <2>2, <2>3, Zenon
<1>7. Head(toServer).size \in Nat
  BY <1>4 DEF ChannelPacket
<1>8. \A T : /\ Size(toServer, T) = Size(Tail(toServer), T) +
                            (IF Head(toServer).type \in T
                             THEN Head(toServer).size ELSE 0)
            /\ Size(Tail(toServer), T) \in Nat
  <2> TAKE T
  <2> QED BY <1>6, <1>7
<1> QED BY <1>1, <1>2, <1>8, Taken, Zenon

(* The queue to the client after the server has sent a packet. *)
LEMMA ServerSending ==
    ASSUME TypeInv, NEW p \in ServerPacket
    PROVE  /\ toClient \o <<p>> \in Seq(ServerPacket)
           /\ TypesOf(toClient \o <<p>>) = TypesOf(toClient) \union {p.type}
           /\ Behind(toClient \o <<p>>) = IF toClient = <<>> THEN {}
                                          ELSE Behind(toClient) \union {p.type}
           /\ AfterClose(toClient \o <<p>>) = AfterClose(toClient)
                  \union (IF "CLOSE" \in TypesOf(toClient) THEN {p.type}
                          ELSE {})
           /\ \A T : /\ Size(toClient \o <<p>>, T) =
                            Size(toClient, T)
                                + (IF p.type \in T THEN p.size ELSE 0)
                    /\ Size(toClient, T) \in Nat
<1>1. toClient \in Seq(ServerPacket) /\ <<p>> \in Seq(ServerPacket)
  BY DEF TypeInv
<1>2. ServerPacket \subseteq ChannelPacket
  BY DEF ServerPacket
<1>3. /\ <<p>> \in Seq(ChannelPacket)
      /\ toClient \in Seq(ChannelPacket)
      /\ p \in ChannelPacket
  BY <1>1, <1>2
<1>4. \A T : /\ Size(toClient \o <<p>>, T) =
                    Size(toClient, T) + (IF p.type \in T THEN p.size ELSE 0)
            /\ Size(toClient, T) \in Nat
  <2> TAKE T
  <2>1. Size(toClient, T) \in Nat
    BY <1>3, UnitsFinite
  <2>2. Size(<<p>>, T) = IF p.type \in T THEN p.size ELSE 0
    BY <1>3, SizeOfOne, Zenon
  <2>3. Size(toClient \o <<p>>, T) = Size(toClient, T) + Size(<<p>>, T)
    BY <1>3, SizeAdds, Zenon
  <2> QED BY <2>1, <2>2, <2>3, Zenon
<1>5. /\ TypesOf(<<p>>) = {p.type}
      /\ Behind(<<p>>) = {}
      /\ AfterClose(<<p>>) = {}
  BY OnePacket
<1>6. /\ toClient \o <<p>> \in Seq(ServerPacket)
      /\ TypesOf(toClient \o <<p>>) = TypesOf(toClient) \union TypesOf(<<p>>)
      /\ Behind(toClient \o <<p>>) = IF toClient = <<>> THEN Behind(<<p>>)
                                     ELSE Behind(toClient) \union TypesOf(<<p>>)
      /\ AfterClose(toClient \o <<p>>) =
             AfterClose(toClient) \union AfterClose(<<p>>)
                \union (IF "CLOSE" \in TypesOf(toClient) THEN TypesOf(<<p>>)
                        ELSE {})
  <2> DEFINE q == <<p>>
  <2> HIDE DEF q
  <2>1. q \in Seq(ServerPacket)
    BY <1>1 DEF q
  <2>2. /\ toClient \o q \in Seq(ServerPacket)
        /\ TypesOf(toClient \o q) = TypesOf(toClient) \union TypesOf(q)
        /\ Behind(toClient \o q) = IF toClient = <<>> THEN Behind(q)
                                   ELSE Behind(toClient) \union TypesOf(q)
        /\ AfterClose(toClient \o q) =
               AfterClose(toClient) \union AfterClose(q)
                  \union (IF "CLOSE" \in TypesOf(toClient) THEN TypesOf(q)
                          ELSE {})
    BY <1>1, <2>1, Appended
  <2> QED BY <2>2 DEF q
<1> QED BY <1>4, <1>5, <1>6
-----------------------------------------------------------------------------
(* A packet of the client. *)
LEMMA OutgoingType ==
    ASSUME TypeInv, NEW type \in PacketTypes, NEW size \in Nat,
           type = "OPEN" => size = MaxPacketSize
    PROVE  /\ Outgoing(type, size) \in ClientPacket
           /\ Outgoing(type, size).type = type
           /\ Outgoing(type, size).size = size
           /\ Outgoing(type, size).channel = remoteChannel
<1>1. remoteChannel \in {"none", "remote"}
  BY DEF TypeInv
<1> HIDE DEF PacketTypes
<1> QED BY <1>1 DEF Outgoing, ClientPacket, ChannelPacket

(* Nothing has been sent at first. *)
LEMMA StartsWell == SessionInit => IInv
<1> SUFFICES ASSUME SessionInit PROVE IInv
  OBVIOUS
<1> USE DEF SessionInit, Init
<1>1. TypeInv
  <2>1. server \in Server
    BY DEF Server
  <2>2. Flags
    BY DEF Flags
  <2>3. /\ toServer \in Seq(ClientPacket)
        /\ toClient \in Seq(ServerPacket)
    OBVIOUS
  <2> QED BY <2>1, <2>2, <2>3, SizesAssumption DEF TypeInv, Up, ChannelStates,
         ProcessStates
<1>2. /\ TypesOf(toServer) = {} /\ Behind(toServer) = {}
      /\ TypesOf(toClient) = {} /\ Behind(toClient) = {}
      /\ AfterClose(toServer) = {} /\ AfterClose(toClient) = {}
      /\ Unaddressed(toServer) = {}
  BY NoPacket
<1>3. ~ReplyPending
  BY <1>2, Awaited
<1> QED
  BY <1>1, <1>2, <1>3 DEF IInv, Signals, SignalsInOrder, Beginning, NoSession,
     Queues, ReplyIsTimed, WindowsAgree, Polite

(* The connection is closed, for whatever reason. *)
LEMMA Closing ==
    ASSUME IInv,
           NEW reason, reason # "up", CloseConnection(reason),
           toServer' = <<>>, toClient' = <<>>,
           server' \in Server, hastyUse' \in BOOLEAN,
           written' \in Nat, signalled' \in Nat
    PROVE  IInv'
<1>1. /\ connection' = reason
      /\ registered' = FALSE
      /\ IF registered
         THEN /\ channelState' = IF channelState \in {"Inactive", "Closed"}
                                 THEN "Closed" ELSE "CloseRequested"
              /\ replyTimer' = (replyTimer /\ channelState # "CloseRequested")
         ELSE UNCHANGED <<channelState, replyTimer>>
      /\ UNCHANGED <<remoteChannel, localWindowSize, remoteWindowSize,
                     sendBuffer, procState, wasRunning, killed, emitted, open,
                     dropped>>
  BY DEF CloseConnection, CloseChannel, windowVars, processVars
<1>2. TypeInv'
  <2>1. Flags'
    BY <1>1, Zenon DEF IInv, TypeInv, Flags
  <2>2. channelState' \in ChannelStates
    BY <1>1 DEF IInv, TypeInv, ChannelStates
  <2> QED
    BY <1>1, <2>1, <2>2 DEF IInv, TypeInv, Up
<1>3. Signals'
  BY <1>1 DEF IInv, Signals, SignalsInOrder
<1>4. Beginning' /\ NoSession' /\ Queues' /\ Polite'
  BY <1>1 DEF IInv, Beginning, NoSession, Queues, Polite, Up
<1>5. ReplyIsTimed' /\ WindowsAgree'
  BY <1>1 DEF ReplyIsTimed, WindowsAgree
<1> QED
  BY <1>2, <1>3, <1>4, <1>5 DEF IInv

(* start() *)
LEMMA StartKeeps ==
    ASSUME IInv, Up, Start, ClientSends(toClient), UNCHANGED userVars
    PROVE  IInv'
<1> DEFINE p == Outgoing("OPEN", MaxPacketSize)
<1>1. /\ channelState = "Inactive"
      /\ channelState' = "SessionRequested"
      /\ replyTimer'
      /\ open'
      /\ ~dropped
      /\ sent' = <<p>>
      /\ UNCHANGED <<connection, registered, remoteChannel, localWindowSize,
                     remoteWindowSize, sendBuffer, procState, wasRunning,
                     killed, emitted, dropped, written, signalled, hastyUse>>
  BY DEF Start, windowVars, processVars, userVars
<1>2. TypeInv
  BY DEF IInv
<1>3. p \in ClientPacket /\ p.type = "OPEN" /\ p.size = MaxPacketSize
  BY <1>2, OutgoingType, SizesAssumption DEF PacketTypes, Requests
<1> HIDE DEF p
<1>4. /\ registered
      /\ toServer = <<>>
      /\ toClient = <<>>
      /\ server.channel = "none"
  BY <1>1 DEF IInv, Beginning
<1>5. /\ toServer' = <<p>>
      /\ toClient' = <<>>
      /\ server' = server
  BY <1>1, <1>4 DEF ClientSends, Up
<1>6. /\ TypesOf(toServer') = {"OPEN"}
      /\ Unaddressed(toServer') \subseteq {"OPEN"}
      /\ Behind(toServer') = {}
      /\ AfterClose(toServer') = {}
      /\ TypesOf(toClient') = {}
      /\ Behind(toClient') = {}
      /\ AfterClose(toClient') = {}
  BY <1>3, <1>5, OnePacket, NoPacket
<1>7. TypeInv'
  <2>1. Flags'
    BY <1>1, <1>2, Zenon DEF TypeInv, Flags
  <2>2. <<p>> \in Seq(ClientPacket)
    BY <1>3
  <2> QED
    BY <1>1, <1>2, <1>4, <1>5, <2>1, <2>2 DEF TypeInv, ChannelStates, Up
<1>8. Signals'
  BY <1>1 DEF IInv, Signals, SignalsInOrder
<1>9. Beginning'
  BY <1>1, <1>4, <1>5, <1>6 DEF IInv, Beginning, Up
<1>10. NoSession'
  BY <1>1, <1>4, <1>5, <1>6 DEF IInv, NoSession, Up
<1>11. Queues'
  BY <1>1, <1>4, <1>5, <1>6 DEF IInv, Queues, NoSession, Requests, Up
<1>12. ReplyIsTimed'
  <2>1. ReplyPending'
    BY <1>6, Awaited DEF Requests
  <2> QED BY <1>1, <2>1 DEF ReplyIsTimed
<1>13. WindowsAgree'
  BY <1>4, <1>5 DEF WindowsAgree
<1>14. Polite'
  BY <1>1, <1>4, <1>5, <1>6 DEF IInv, Polite, Up, Requests, OpenReplies,
     ExecReplies, Addressed
<1> QED
  BY <1>7, <1>8, <1>9, <1>10, <1>11, <1>12, <1>13, <1>14 DEF IInv

(* flushSendBuffer() *)
LEMMA Flushing ==
    ASSUME TypeInv, NEW buffer \in Nat, NEW window \in Nat,
           Flush(buffer, window)
    PROVE  /\ sent' \in Seq(ClientPacket)
           /\ TypesOf(sent') \subseteq {"DATA"}
           /\ Unaddressed(sent') \subseteq {"DATA"}
           /\ remoteChannel = "remote" => Unaddressed(sent') = {}
           /\ Behind(sent') = {}
           /\ AfterClose(sent') = {}
           /\ sendBuffer' \in Nat
           /\ remoteWindowSize' \in Nat
           /\ window = remoteWindowSize' + Size(sent', {"DATA"})
           /\ Size(sent', {"DATA"}) \in Nat
           /\ Size(sent', {"WINDOW_ADJUST"}) = 0
           /\ buffer = 0 => sendBuffer' = 0 /\ TypesOf(sent') = {}
<1> DEFINE n == MinOf(RemoteMaxPacketSize, MinOf(window, buffer))
           p == Outgoing("DATA", n)
<1>1. n \in Nat /\ n <= window /\ n <= buffer
  BY SizesAssumption DEF MinOf
<1>2. /\ sendBuffer' = buffer - n
      /\ remoteWindowSize' = window - n
      /\ sent' = IF n > 0 THEN <<p>> ELSE <<>>
  BY DEF Flush
<1> HIDE DEF n
<1>3. /\ p \in ClientPacket
      /\ p.type = "DATA"
      /\ p.size = n
      /\ p.channel = remoteChannel
  BY <1>1, OutgoingType DEF PacketTypes, Addressed
<1> HIDE DEF p
<1>4. CASE n = 0
  <2>1. sent' = <<>>
    BY <1>2, <1>4
  <2>2. TypesOf(sent') = {}
    BY <2>1, NoPacket
  <2>3. Size(sent', {"DATA"}) = 0 /\ Size(sent', {"WINDOW_ADJUST"}) = 0
    BY <2>2, SizeOfNone
  <2> QED
    BY <1>1, <1>2, <1>4, <2>1, <2>2, <2>3, NoPacket
<1>5. CASE n > 0
  <2>1. sent' = <<p>>
    BY <1>2, <1>5
  <2>2. p \in ChannelPacket
    BY <1>3 DEF ClientPacket
  <2>3. Size(sent', {"DATA"}) = n /\ Size(sent', {"WINDOW_ADJUST"}) = 0
    BY <1>3, <2>1, <2>2, SizeOfOne
  <2>4. /\ TypesOf(sent') = {"DATA"}
        /\ Unaddressed(sent') \subseteq {"DATA"}
        /\ remoteChannel = "remote" => Unaddressed(sent') = {}
        /\ Behind(sent') = {}
        /\ AfterClose(sent') = {}
    BY <1>3, <2>1, OnePacket
  <2>5. sent' \in Seq(ClientPacket)
    BY <1>3, <2>1
  <2> QED
    BY <1>1, <1>2, <1>5, <2>3, <2>4, <2>5
<1> QED
  BY <1>1, <1>4, <1>5

(* write() *)
LEMMA WriteKeeps ==
    ASSUME IInv, Up, NEW size \in Nat, Write(size), ClientSends(toClient),
           written' = written + size, hastyUse' = (hastyUse \/ Late),
           UNCHANGED signalled
    PROVE  IInv'
<1>1. /\ ~dropped
      /\ open
      /\ procState = "Running"
      /\ Flush(sendBuffer + size, remoteWindowSize)
      /\ UNCHANGED <<connection, registered, channelState, remoteChannel,
                     replyTimer, localWindowSize, procState, wasRunning,
                     killed, emitted, open, dropped, signalled>>
  BY DEF Write, processVars
<1>2. TypeInv /\ connection' = "up"
  BY <1>1 DEF IInv, Up
<1>3. /\ sent' \in Seq(ClientPacket)
      /\ TypesOf(sent') \subseteq {"DATA"}
      /\ remoteChannel = "remote" => Unaddressed(sent') = {}
      /\ Behind(sent') = {}
      /\ AfterClose(sent') = {}
      /\ sendBuffer' \in Nat
      /\ remoteWindowSize' \in Nat
      /\ remoteWindowSize = remoteWindowSize' + Size(sent', {"DATA"})
      /\ Size(sent', {"DATA"}) \in Nat
      /\ Size(sent', {"WINDOW_ADJUST"}) = 0
  <2>1. sendBuffer + size \in Nat /\ remoteWindowSize \in Nat
    BY <1>2 DEF TypeInv
  <2> QED BY <1>1, <1>2, <2>1, Flushing
<1>4. /\ toClient' = toClient
      /\ server' = server
      /\ toServer' \in Seq(ClientPacket)
      /\ TypesOf(toServer') = TypesOf(toServer) \union TypesOf(sent')
      /\ Unaddressed(toServer') =
             Unaddressed(toServer) \union Unaddressed(sent')
      /\ Behind(toServer') = IF toServer = <<>> THEN Behind(sent')
                            ELSE Behind(toServer) \union TypesOf(sent')
      /\ AfterClose(toServer') =
             AfterClose(toServer) \union AfterClose(sent')
                 \union (IF "CLOSE" \in TypesOf(toServer)
                         THEN TypesOf(sent') ELSE {})
      /\ \A T : /\ Size(toServer', T) = Size(toServer, T) + Size(sent', T)
                /\ Size(toServer, T) \in Nat
  BY <1>2, <1>3, Sending
<1>5. /\ channelState \notin {"Inactive", "SessionRequested"}
      /\ server.channel # "none"
      /\ registered => channelState # "Closed"
  BY <1>1, <1>2 DEF IInv, Beginning, NoSession
<1>6. ~hastyUse' => ~hastyUse /\ channelState = "SessionEstablished"
  BY <1>2, <1>5 DEF Late, TypeInv, ChannelStates
<1>7. TypeInv'
  <2>1. Flags'
    <3>1. hastyUse' \in BOOLEAN
      OBVIOUS
    <3> QED BY <1>1, <1>2, <3>1, Zenon DEF TypeInv, Flags
  <2>2. written' \in Nat
    BY <1>2 DEF TypeInv
  <2> QED
    BY <1>1, <1>2, <1>3, <1>4, <2>1, <2>2 DEF TypeInv, Up
<1>8. Signals'
  BY <1>1 DEF IInv, Signals, SignalsInOrder
<1>9. Beginning'
  BY <1>1, <1>4, <1>5 DEF IInv, Beginning, Up
<1>10. NoSession'
  BY <1>4, <1>5 DEF NoSession
<1>11. Queues'
  BY <1>1, <1>3, <1>4, <1>5 DEF IInv, Queues, Requests, Up
<1>12. ReplyIsTimed'
  <2>1. ReplyPending' <=> ReplyPending
    BY <1>3, <1>4, Awaited DEF Requests
  <2> QED BY <1>1, <2>1 DEF IInv, ReplyIsTimed, Destroyed
<1>13. WindowsAgree'
  <2>1. /\ Size(toServer', {"DATA"}) =
               Size(toServer, {"DATA"}) + Size(sent', {"DATA"})
        /\ Size(toServer, {"DATA"}) \in Nat
        /\ Size(toServer', {"WINDOW_ADJUST"}) =
               Size(toServer, {"WINDOW_ADJUST"})
    BY <1>3, <1>4
  <2> DEFINE acks == Size(toClient, {"OPEN_CONFIRMATION", "WINDOW_ADJUST"})
  <2>2. acks' = acks /\ acks \in Nat
    <3> toClient \in Seq(ChannelPacket)
      <4> ServerPacket \subseteq ChannelPacket
        BY DEF ServerPacket
      <4> QED BY <1>2 DEF TypeInv
    <3> QED BY <1>4, UnitsFinite
  <2> HIDE DEF acks
  <2> QED
    BY <1>1, <1>2, <1>3, <1>4, <2>1, <2>2 DEF IInv, WindowsAgree, acks
<1>14. Polite'
  BY <1>1, <1>3, <1>4, <1>5, <1>6 DEF IInv, Polite, Up, OpenReplies,
     ExecReplies, Addressed
<1> QED
  BY <1>7, <1>8, <1>9, <1>10, <1>11, <1>12, <1>13, <1>14 DEF IInv

(* sendSignal() *)
LEMMA SendSignalKeeps ==
    ASSUME IInv, Up, SendSignal, ClientSends(toClient),
           signalled' = signalled + 1, hastyUse' = (hastyUse \/ Late),
           UNCHANGED written
    PROVE  IInv'
<1> DEFINE p == Outgoing("SIGNAL", 0)
<1>1. /\ ~dropped
      /\ procState = "Running"
      /\ sent' = <<p>>
      /\ UNCHANGED <<connection, registered, channelState, remoteChannel,
                     replyTimer, localWindowSize, remoteWindowSize, sendBuffer,
                     procState, wasRunning, killed, emitted, open, dropped,
                     written>>
  BY DEF SendSignal, processVars, windowVars
<1>2. TypeInv /\ connection' = "up"
  BY <1>1 DEF IInv, Up
<1>3. p \in ClientPacket /\ p.type = "SIGNAL" /\ p.channel = remoteChannel
  BY <1>2, OutgoingType DEF PacketTypes, Addressed
<1> HIDE DEF p
<1>4. /\ sent' \in Seq(ClientPacket)
      /\ TypesOf(sent') = {"SIGNAL"}
      /\ remoteChannel = "remote" => Unaddressed(sent') = {}
      /\ Behind(sent') = {}
      /\ AfterClose(sent') = {}
      /\ Size(sent', {"DATA"}) = 0
      /\ Size(sent', {"WINDOW_ADJUST"}) = 0
  <2>1. /\ TypesOf(sent') = {"SIGNAL"}
        /\ remoteChannel = "remote" => Unaddressed(sent') = {}
        /\ Behind(sent') = {}
        /\ AfterClose(sent') = {}
    BY <1>1, <1>3, OnePacket
  <2> QED BY <1>1, <1>3, <2>1, SizeOfNone
<1>5. /\ toClient' = toClient
      /\ server' = server
      /\ toServer' \in Seq(ClientPacket)
      /\ TypesOf(toServer') = TypesOf(toServer) \union TypesOf(sent')
      /\ Unaddressed(toServer') =
             Unaddressed(toServer) \union Unaddressed(sent')
      /\ Behind(toServer') = IF toServer = <<>> THEN Behind(sent')
                            ELSE Behind(toServer) \union TypesOf(sent')
      /\ AfterClose(toServer') =
             AfterClose(toServer) \union AfterClose(sent')
                 \union (IF "CLOSE" \in TypesOf(toServer)
                         THEN TypesOf(sent') ELSE {})
      /\ \A T : /\ Size(toServer', T) = Size(toServer, T) + Size(sent', T)
                /\ Size(toServer, T) \in Nat
  BY <1>2, <1>4, Sending
<1>6. /\ channelState \notin {"Inactive", "SessionRequested"}
      /\ server.channel # "none"
      /\ registered => channelState # "Closed"
  BY <1>1, <1>2 DEF IInv, Beginning, NoSession
<1>7. ~hastyUse' => ~hastyUse /\ channelState = "SessionEstablished"
  BY <1>2, <1>6 DEF Late, TypeInv, ChannelStates
<1>8. TypeInv'
  <2>1. Flags'
    <3>1. hastyUse' \in BOOLEAN
      OBVIOUS
    <3> QED BY <1>1, <1>2, <3>1, Zenon DEF TypeInv, Flags
  <2>2. signalled' \in Nat
    BY <1>2 DEF TypeInv
  <2> QED
    BY <1>1, <1>2, <1>5, <2>1, <2>2 DEF TypeInv, Up
<1>9. Signals'
  BY <1>1 DEF IInv, Signals, SignalsInOrder
<1>10. Beginning'
  BY <1>1, <1>5, <1>6 DEF IInv, Beginning, Up
<1>11. NoSession'
  BY <1>5, <1>6 DEF NoSession
<1>12. Queues'
  BY <1>1, <1>4, <1>5, <1>6 DEF IInv, Queues, Requests, Up
<1>13. ReplyIsTimed'
  <2>1. ReplyPending' <=> ReplyPending
    BY <1>4, <1>5, Awaited DEF Requests
  <2> QED BY <1>1, <2>1 DEF IInv, ReplyIsTimed, Destroyed
<1>14. WindowsAgree'
  <2>1. /\ Size(toServer', {"DATA"}) = Size(toServer, {"DATA"})
        /\ Size(toServer', {"WINDOW_ADJUST"}) =
               Size(toServer, {"WINDOW_ADJUST"})
    BY <1>4, <1>5
  <2> QED
    BY <1>1, <1>5, <2>1 DEF IInv, WindowsAgree
<1>15. Polite'
  BY <1>1, <1>4, <1>5, <1>6, <1>7 DEF IInv, Polite, Up, OpenReplies,
     ExecReplies, Addressed
<1> QED
  BY <1>8, <1>9, <1>10, <1>11, <1>12, <1>13, <1>14, <1>15 DEF IInv

(* What closeChannel() sends. *)
LEMMA SayingGoodbye ==
    ASSUME TypeInv
    PROVE  /\ Goodbye \in Seq(ClientPacket)
           /\ IF channelState \in {"SessionRequested", "SessionEstablished"}
              THEN TypesOf(Goodbye) = {"EOF", "CLOSE"}
              ELSE Goodbye = <<>> /\ TypesOf(Goodbye) = {}
           /\ Unaddressed(Goodbye) \subseteq {"EOF", "CLOSE"}
           /\ remoteChannel = "remote" => Unaddressed(Goodbye) = {}
           /\ Behind(Goodbye) \subseteq {"CLOSE"}
           /\ AfterClose(Goodbye) = {}
           /\ Size(Goodbye, {"DATA"}) = 0
           /\ Size(Goodbye, {"WINDOW_ADJUST"}) = 0
<1> DEFINE p == Outgoing("EOF", 0)
           q == Outgoing("CLOSE", 0)
<1>1. /\ p \in ClientPacket /\ p.type = "EOF" /\ p.channel = remoteChannel
      /\ q \in ClientPacket /\ q.type = "CLOSE" /\ q.channel = remoteChannel
  BY OutgoingType DEF PacketTypes, Addressed
<1>2. Goodbye = IF channelState \in {"SessionRequested", "SessionEstablished"}
                THEN <<p, q>> ELSE <<>>
  BY Zenon DEF Goodbye
<1> HIDE DEF p, q
<1>3. Goodbye \in Seq(ClientPacket)
  BY <1>1, <1>2
<1>4. /\ IF channelState \in {"SessionRequested", "SessionEstablished"}
         THEN TypesOf(Goodbye) = {"EOF", "CLOSE"}
         ELSE Goodbye = <<>> /\ TypesOf(Goodbye) = {}
      /\ remoteChannel = "remote" => Unaddressed(Goodbye) = {}
      /\ Behind(Goodbye) \subseteq {"CLOSE"}
      /\ AfterClose(Goodbye) = {}
  BY <1>1, <1>2, TwoPackets, NoPacket
<1>5. Unaddressed(Goodbye) \subseteq {"EOF", "CLOSE"}
  <2> Unaddressed(Goodbye) \subseteq TypesOf(Goodbye)
    BY DEF Unaddressed, TypesOf
  <2> QED BY <1>4
<1>6. Size(Goodbye, {"DATA"}) = 0 /\ Size(Goodbye, {"WINDOW_ADJUST"}) = 0
  BY <1>4, SizeOfNone
<1> QED BY <1>3, <1>4, <1>5, <1>6

(* close() *)
LEMMA CloseKeeps ==
    ASSUME IInv, Up, Close, ClientSends(toClient),
           hastyUse' = (hastyUse \/ channelState = "SessionRequested"
                                 \/ sendBuffer > 0),
           UNCHANGED <<written, signalled>>
    PROVE  IInv'
<1>1. /\ ~dropped
      /\ channelState' = IF channelState \in {"Inactive", "Closed"}
                         THEN "Closed" ELSE "CloseRequested"
      /\ replyTimer' = (replyTimer /\ channelState # "CloseRequested")
      /\ open' = FALSE
      /\ sent' = Goodbye
      /\ UNCHANGED <<connection, registered, remoteChannel, localWindowSize,
                     remoteWindowSize, sendBuffer, procState, wasRunning,
                     killed, emitted, dropped, written, signalled>>
  BY DEF Close, CloseChannel, processVars, windowVars
<1>2. TypeInv /\ connection' = "up"
  BY <1>1 DEF IInv, Up
<1>3. /\ sent' \in Seq(ClientPacket)
      /\ IF channelState \in {"SessionRequested", "SessionEstablished"}
         THEN TypesOf(sent') = {"EOF", "CLOSE"}
         ELSE sent' = <<>> /\ TypesOf(sent') = {}
      /\ remoteChannel = "remote" => Unaddressed(sent') = {}
      /\ Behind(sent') \subseteq {"CLOSE"}
      /\ AfterClose(sent') = {}
      /\ Size(sent', {"DATA"}) = 0
      /\ Size(sent', {"WINDOW_ADJUST"}) = 0
  BY <1>1, <1>2, SayingGoodbye
<1>4. /\ toClient' = toClient
      /\ server' = server
      /\ toServer' = toServer \o sent'
      /\ toServer' \in Seq(ClientPacket)
      /\ TypesOf(toServer') = TypesOf(toServer) \union TypesOf(sent')
      /\ Unaddressed(toServer') =
             Unaddressed(toServer) \union Unaddressed(sent')
      /\ Behind(toServer') = IF toServer = <<>> THEN Behind(sent')
                            ELSE Behind(toServer) \union TypesOf(sent')
      /\ AfterClose(toServer') =
             AfterClose(toServer) \union AfterClose(sent')
                 \union (IF "CLOSE" \in TypesOf(toServer)
                         THEN TypesOf(sent') ELSE {})
      /\ \A T : /\ Size(toServer', T) = Size(toServer, T) + Size(sent', T)
                /\ Size(toServer, T) \in Nat
  BY <1>2, <1>3, Sending
<1>5. channelState = "SessionEstablished" => server.channel # "none"
  BY DEF IInv, NoSession
<1>6. channelState \in {"Inactive", "Closed"} => toServer' = toServer
  BY <1>2, <1>3, <1>4 DEF TypeInv
<1>7. /\ ~hastyUse' => ~hastyUse /\ channelState # "SessionRequested"
      /\ ~hastyUse' => sendBuffer = 0
  <2>1. ~hastyUse' => /\ ~hastyUse
                      /\ channelState # "SessionRequested"
                      /\ ~(sendBuffer > 0)
    BY Zenon
  <2> QED BY <1>2, <2>1 DEF TypeInv
<1>8. TypeInv'
  <2>1. Flags'
    <3>1. hastyUse' \in BOOLEAN /\ replyTimer' \in BOOLEAN /\ open' \in BOOLEAN
      BY <1>1
    <3> QED BY <1>1, <1>2, <3>1, Zenon DEF TypeInv, Flags
  <2> QED
    BY <1>1, <1>2, <1>4, <2>1 DEF TypeInv, Up, ChannelStates
<1>9. Signals'
  BY <1>1 DEF IInv, Signals, SignalsInOrder
<1>10. Beginning'
  BY <1>1, <1>4, <1>6 DEF IInv, Beginning, Up
<1>11. NoSession'
  BY <1>1, <1>3, <1>4, <1>5 DEF IInv, NoSession, Up
<1>12. Queues'
  BY <1>1, <1>3, <1>4 DEF IInv, Queues, Requests, Up
<1>13. ReplyIsTimed'
  <2>1. ReplyPending' <=> ReplyPending
    BY <1>3, <1>4, Awaited DEF Requests
  <2>2. ReplyPending => channelState # "Closed" \/ ~registered
    BY Awaited, NoPacket DEF IInv, Beginning
  <2> QED BY <1>1, <2>1, <2>2 DEF IInv, ReplyIsTimed, Destroyed, Beginning
<1>14. WindowsAgree'
  <2>1. /\ Size(toServer', {"DATA"}) = Size(toServer, {"DATA"})
        /\ Size(toServer', {"WINDOW_ADJUST"}) =
               Size(toServer, {"WINDOW_ADJUST"})
    BY <1>3, <1>4
  <2> QED
    BY <1>1, <1>4, <2>1 DEF IInv, WindowsAgree
<1>15. Polite'
  <2>1. channelState \in ChannelStates
    BY <1>2 DEF TypeInv
  <2>2. SUFFICES ASSUME ~hastyUse' PROVE Polite'
    BY DEF Polite
  <2>3. CASE channelState = "SessionEstablished"
    <3>1. /\ "CLOSE" \notin TypesOf(toServer)
          /\ server.channel # "freed"
          /\ remoteChannel = "remote"
      BY <1>7, <2>2, <2>3 DEF IInv, Polite
    <3>2. /\ UNCHANGED <<Unaddressed(toServer), AfterClose(toServer)>>
          /\ TypesOf(toServer') = TypesOf(toServer) \union {"EOF", "CLOSE"}
      BY <1>3, <1>4, <2>3, <3>1
    <3> QED
      BY <1>1, <1>4, <1>5, <1>7, <2>2, <2>3, <3>1, <3>2 DEF IInv, Polite, Up,
         OpenReplies, ExecReplies
  <2>4. CASE channelState # "SessionEstablished"
    <3>1. TypesOf(sent') = {} /\ sent' = <<>>
      BY <1>3, <1>7, <2>2, <2>4
    <3>2. UNCHANGED <<TypesOf(toServer), Unaddressed(toServer),
                      AfterClose(toServer)>>
      BY <1>2, <1>4, <3>1 DEF TypeInv
    <3> QED
      BY <1>1, <1>4, <1>7, <2>1, <2>2, <2>4, <3>2 DEF IInv, Polite, Up,
         OpenReplies, ExecReplies, ChannelStates
  <2> QED
    BY <2>3, <2>4
<1> QED
  BY <1>8, <1>9, <1>10, <1>11, <1>12, <1>13, <1>14, <1>15 DEF IInv

(* The last reference is dropped. *)
LEMMA DropKeeps ==
    ASSUME IInv, Up, Drop, ClientSends(toClient), UNCHANGED userVars
    PROVE  IInv'
<1>1. /\ dropped'
      /\ replyTimer' = (replyTimer /\ registered)
      /\ sent' = <<>>
      /\ UNCHANGED <<connection, registered, channelState, remoteChannel,
                     localWindowSize, remoteWindowSize, sendBuffer, procState,
                     wasRunning, killed, emitted, open, written, signalled,
                     hastyUse>>
  BY DEF Drop, processVars, windowVars, userVars
<1>2. TypeInv /\ connection' = "up"
  BY <1>1 DEF IInv, Up
<1>3. /\ toClient' = toClient
      /\ server' = server
      /\ toServer' = toServer
  BY <1>1, <1>2 DEF ClientSends, TypeInv
<1>4. TypeInv'
  <2>1. Flags'
    <3>1. replyTimer' \in BOOLEAN /\ dropped' \in BOOLEAN
      BY <1>1 DEF Drop
    <3> QED BY <1>1, <1>2, <3>1, Zenon DEF TypeInv, Flags
  <2> QED
    BY <1>1, <1>2, <1>3, <2>1 DEF TypeInv, Up
<1>5. Signals' /\ Beginning'
  BY <1>1, <1>3 DEF IInv, Signals, SignalsInOrder, Beginning, Up
<1>6. NoSession' /\ Queues' /\ Polite'
  BY <1>1, <1>3 DEF IInv, NoSession, Queues, Polite, Up
<1>7. ReplyIsTimed'
  <2>1. ReplyPending' <=> ReplyPending
    BY <1>3, Awaited
  <2> QED BY <1>1, <2>1 DEF IInv, ReplyIsTimed, Destroyed
<1>8. WindowsAgree'
  BY <1>1, <1>3 DEF IInv, WindowsAgree
<1> QED
  BY <1>4, <1>5, <1>6, <1>7, <1>8 DEF IInv
-----------------------------------------------------------------------------
(* The client has read a packet, and sent something that is no request. *)
LEMMA Reads ==
    ASSUME IInv, toClient # <<>>, connection' = "up",
           ClientSends(Tail(toClient)), sent' \in Seq(ClientPacket)
    PROVE  /\ Up
           /\ TypeInv
           /\ Head(toClient) \in ServerPacket
           /\ Head(toClient).type \in TypesOf(toClient)
           /\ Head(toClient).size \in Nat
           /\ TypesOf(toServer) \intersect Requests = {}
           /\ server' = server
           /\ toClient' \in Seq(ServerPacket)
           /\ TypesOf(toClient') \subseteq TypesOf(toClient)
           /\ TypesOf(toClient') \intersect Replies = {}
           /\ Behind(toClient') \intersect Replies = {}
           /\ AfterClose(toClient') = {}
           /\ Head(toClient).type = "CLOSE" => TypesOf(toClient') = {}
           /\ toServer' \in Seq(ClientPacket)
           /\ TypesOf(toServer') = TypesOf(toServer) \union TypesOf(sent')
           /\ Unaddressed(toServer') =
                  Unaddressed(toServer) \union Unaddressed(sent')
           /\ Behind(toServer') = IF toServer = <<>> THEN Behind(sent')
                                 ELSE Behind(toServer) \union TypesOf(sent')
           /\ AfterClose(toServer') =
                  AfterClose(toServer) \union AfterClose(sent')
                      \union (IF "CLOSE" \in TypesOf(toServer)
                              THEN TypesOf(sent') ELSE {})
           /\ \A T : /\ Size(toServer', T) = Size(toServer, T) + Size(sent', T)
                     /\ Size(toServer, T) \in Nat
                     /\ Size(sent', T) \in Nat
                     /\ Size(toClient, T) = Size(toClient', T) +
                            (IF Head(toClient).type \in T
                             THEN Head(toClient).size ELSE 0)
                     /\ Size(toClient', T) \in Nat
           /\ Head(toClient).type \notin Replies => ~ReplyPending
           /\ ReplyPending' <=> TypesOf(sent') \intersect Requests # {}
<1>1. TypeInv /\ Up
  BY DEF IInv, TypeInv
<1>2. /\ Head(toClient) \in ServerPacket
      /\ Tail(toClient) \in Seq(ServerPacket)
      /\ TypesOf(toClient) =
             {Head(toClient).type} \union TypesOf(Tail(toClient))
      /\ TypesOf(Tail(toClient)) = Behind(toClient)
      /\ Behind(Tail(toClient)) \subseteq Behind(toClient)
      /\ AfterClose(toClient) = AfterClose(Tail(toClient))
             \union (IF Head(toClient).type = "CLOSE" THEN Behind(toClient)
                     ELSE {})
      /\ \A T : /\ Size(toClient, T) = Size(Tail(toClient), T) +
                       (IF Head(toClient).type \in T
                        THEN Head(toClient).size ELSE 0)
               /\ Size(Tail(toClient), T) \in Nat
  BY <1>1, Reading
<1>3. /\ toClient' = Tail(toClient)
      /\ server' = server
      /\ toServer' \in Seq(ClientPacket)
      /\ TypesOf(toServer') = TypesOf(toServer) \union TypesOf(sent')
      /\ Unaddressed(toServer') =
             Unaddressed(toServer) \union Unaddressed(sent')
      /\ Behind(toServer') = IF toServer = <<>> THEN Behind(sent')
                            ELSE Behind(toServer) \union TypesOf(sent')
      /\ AfterClose(toServer') =
             AfterClose(toServer) \union AfterClose(sent')
                 \union (IF "CLOSE" \in TypesOf(toServer)
                         THEN TypesOf(sent') ELSE {})
      /\ \A T : /\ Size(toServer', T) = Size(toServer, T) + Size(sent', T)
                /\ Size(toServer, T) \in Nat
                /\ Size(sent', T) \in Nat
  BY <1>1, Sending
<1>4. /\ TypesOf(toServer) \intersect Requests = {}
      /\ Behind(toClient) \intersect Replies = {}
      /\ AfterClose(toClient) = {}
  BY <1>1 DEF IInv, Queues
<1>5. /\ Head(toClient).size \in Nat
      /\ Head(toClient).type \in TypesOf(toClient)
  BY <1>2 DEF ServerPacket, ChannelPacket
<1>6. /\ TypesOf(toClient') \subseteq TypesOf(toClient)
      /\ TypesOf(toClient') \intersect Replies = {}
      /\ Behind(toClient') \intersect Replies = {}
      /\ AfterClose(toClient') = {}
      /\ Head(toClient).type = "CLOSE" => TypesOf(toClient') = {}
  BY <1>2, <1>3, <1>4
<1>7. Head(toClient).type \notin Replies => ~ReplyPending
  BY <1>2, <1>4, Awaited
<1>8. ReplyPending' <=> TypesOf(sent') \intersect Requests # {}
  BY <1>3, <1>4, <1>6, Awaited
<1>9. \A T : /\ Size(toClient, T) = Size(toClient', T) +
                    (IF Head(toClient).type \in T
                     THEN Head(toClient).size ELSE 0)
             /\ Size(toClient', T) \in Nat
  BY <1>2, <1>3, Zenon
<1>10. toClient' \in Seq(ServerPacket)
  BY <1>2, <1>3
<1> QED
  BY <1>1, <1>2, <1>3, <1>4, <1>5, <1>6, <1>7, <1>8, <1>9, <1>10, Zenon

(* A queue without any type of packets is empty. *)
LEMMA EmptyQueue ==
    ASSUME NEW P, NEW s \in Seq(P), TypesOf(s) = {}
    PROVE  s = <<>>
<1> SUFFICES ASSUME s # <<>> PROVE FALSE
  OBVIOUS
<1>1. 1 \in DOMAIN s
  OBVIOUS
<1> QED BY <1>1 DEF TypesOf

(* handleOpenSuccess() *)
LEMMA OpenSuccessKeeps ==
    ASSUME IInv, toClient # <<>>, Head(toClient).type = "OPEN_CONFIRMATION",
           Known, channelState = "SessionRequested",
           HandleOpenSuccess(Head(toClient)), UNCHANGED userVars,
           ClientSends(Tail(toClient))
    PROVE  IInv' /\ connection' = "up"
<1> DEFINE p == Head(toClient)
           q == [Outgoing("EXEC", 0) EXCEPT !.channel = p.channel]
<1>0. TypeInv /\ Up
  BY DEF IInv, TypeInv
<1>1. /\ channelState' = "SessionEstablished"
      /\ remoteChannel' = p.channel
      /\ remoteWindowSize' = p.size
      /\ procState' = "ExecRequested"
      /\ replyTimer' = TRUE
      /\ sent' = <<q>>
      /\ UNCHANGED <<connection, registered, localWindowSize, sendBuffer,
                     wasRunning, killed, emitted, open, dropped, written,
                     signalled, hastyUse>>
      /\ registered
  BY DEF HandleOpenSuccess, Known, userVars
<1>2. p \in ServerPacket /\ p.channel = "remote" /\ p.size \in Nat
  BY <1>0, Reading DEF ServerPacket, ChannelPacket
<1>3. q \in ClientPacket /\ q.type = "EXEC" /\ q.channel = "remote"
  <2>1. /\ Outgoing("EXEC", 0) \in ClientPacket
        /\ Outgoing("EXEC", 0).type = "EXEC"
    BY <1>0, OutgoingType DEF PacketTypes, Requests
  <2> QED
    BY <1>2, <2>1 DEF ClientPacket, ChannelPacket
<1> HIDE DEF q
<1>4. /\ sent' \in Seq(ClientPacket)
      /\ TypesOf(sent') = {"EXEC"}
      /\ Unaddressed(sent') = {}
      /\ Behind(sent') = {}
      /\ AfterClose(sent') = {}
      /\ \A T : "EXEC" \notin T => Size(sent', T) = 0
  <2>1. /\ TypesOf(sent') = {"EXEC"}
        /\ Unaddressed(sent') = {}
        /\ Behind(sent') = {}
        /\ AfterClose(sent') = {}
    BY <1>1, <1>3, OnePacket
  <2>2. \A T : "EXEC" \notin T => TypesOf(sent') \intersect T = {}
    BY <2>1
  <2>3. \A T : "EXEC" \notin T => Size(sent', T) = 0
    BY <2>2, SizeOfNone
  <2> QED BY <1>1, <1>3, <2>1, <2>3
<1>5. /\ p.type \in TypesOf(toClient)
      /\ TypesOf(toServer) \intersect Requests = {}
      /\ server' = server
      /\ toClient' \in Seq(ServerPacket)
      /\ TypesOf(toClient') \subseteq TypesOf(toClient)
      /\ TypesOf(toClient') \intersect Replies = {}
      /\ toServer' \in Seq(ClientPacket)
      /\ TypesOf(toServer') = TypesOf(toServer) \union TypesOf(sent')
      /\ Unaddressed(toServer') =
             Unaddressed(toServer) \union Unaddressed(sent')
      /\ Behind(toServer') = IF toServer = <<>> THEN Behind(sent')
                            ELSE Behind(toServer) \union TypesOf(sent')
      /\ AfterClose(toServer') =
             AfterClose(toServer) \union AfterClose(sent')
                 \union (IF "CLOSE" \in TypesOf(toServer)
                         THEN TypesOf(sent') ELSE {})
      /\ \A T : /\ Size(toServer', T) = Size(toServer, T) + Size(sent', T)
                /\ Size(toServer, T) \in Nat
                /\ Size(toClient, T) = Size(toClient', T) +
                       (IF p.type \in T THEN p.size ELSE 0)
                /\ Size(toClient', T) \in Nat
      /\ ReplyPending'
  <2>1. connection' = "up"
    BY <1>0, <1>1 DEF Up
  <2>2. TypesOf(sent') \intersect Requests # {}
    BY <1>4 DEF Requests
  <2> QED BY <1>4, <2>1, <2>2, Reads
<1> HIDE DEF p
<1>6. /\ TypesOf(toServer) = {} /\ toServer = <<>>
      /\ TypesOf(toClient') = {} /\ toClient' = <<>>
      /\ TypesOf(toServer') = {"EXEC"}
      /\ Unaddressed(toServer') = {}
      /\ Behind(toServer') = {}
      /\ AfterClose(toServer') = {}
      /\ Behind(toClient') = {}
      /\ AfterClose(toClient') = {}
  <2>1. /\ TypesOf(toServer) \subseteq {"OPEN"}
        /\ TypesOf(toClient) \subseteq OpenReplies
    BY <1>0 DEF IInv, Beginning
  <2>2. TypesOf(toServer) = {} /\ TypesOf(toClient') = {}
    BY <1>5, <2>1 DEF Requests, Replies
  <2>3. toServer = <<>> /\ toClient' = <<>>
    BY <1>0, <1>5, <2>2, EmptyQueue DEF TypeInv
  <2> QED BY <1>4, <1>5, <2>2, <2>3, NoPacket
<1>7. /\ server.process = "none"
      /\ server.channel = "open"
      /\ remoteWindowSize = 0
      /\ sendBuffer = 0
      /\ emitted = <<>>
      /\ ~wasRunning
      /\ procState \in {"NotYetStarted", "StartFailed"}
  <2>1. /\ server.process = "none"
        /\ server.channel \in {"none", "open"}
        /\ remoteWindowSize = 0
        /\ procState \in {"NotYetStarted", "StartFailed"}
        /\ sendBuffer = 0
    BY <1>0 DEF IInv, Beginning
  <2>2. server.channel # "none"
    <3> "OPEN_CONFIRMATION" \in TypesOf(toClient)
      BY <1>5 DEF p
    <3> QED BY <1>0 DEF IInv, NoSession
  <2> QED BY <1>1, <2>1, <2>2 DEF IInv, Signals
<1>8. TypeInv'
  <2>1. Flags'
    <3>1. replyTimer' \in BOOLEAN
      BY <1>1
    <3> QED BY <1>0, <1>1, <3>1, Zenon DEF TypeInv, Flags
  <2> QED
    BY <1>0, <1>1, <1>2, <1>5, <2>1 DEF TypeInv, Up, ChannelStates,
       ProcessStates
<1>9. Signals' /\ Beginning' /\ NoSession'
  BY <1>1, <1>5, <1>7 DEF IInv, Signals, SignalsInOrder, Beginning, NoSession
<1>10. Queues'
  BY <1>1, <1>5, <1>6, <1>7 DEF Queues, Requests
<1>11. ReplyIsTimed'
  BY <1>1, <1>5 DEF ReplyIsTimed
<1>12. WindowsAgree'
  <2> DEFINE acks == Size(toClient, {"OPEN_CONFIRMATION", "WINDOW_ADJUST"})
  <2>1. /\ Size(toServer, {"DATA"}) = 0
        /\ Size(toServer', {"DATA"}) = 0
        /\ Size(toServer', {"WINDOW_ADJUST"}) =
               Size(toServer, {"WINDOW_ADJUST"})
        /\ Size(toClient', {"DATA"}) = Size(toClient, {"DATA"})
        /\ acks = p.size + acks'
        /\ acks' = 0
    <3>1. /\ Size(toServer, {"DATA"}) = 0
          /\ Size(toServer', {"DATA"}) = 0
          /\ Size(toServer, {"WINDOW_ADJUST"}) = 0
          /\ Size(toServer', {"WINDOW_ADJUST"}) = 0
          /\ acks' = 0
          /\ Size(toClient', {"DATA"}) = 0
      BY <1>6, SizeOfNone
    <3>2. Size(toClient, {"DATA"}) = 0 /\ acks = p.size
      BY <1>2, <1>5, <3>1 DEF p
    <3> QED BY <1>2, <3>1, <3>2
  <2> HIDE DEF acks
  <2> QED
    BY <1>0, <1>1, <1>2, <1>5, <1>7, <2>1 DEF IInv, WindowsAgree, Up, acks
<1>13. Polite'
  BY <1>1, <1>2, <1>5, <1>6, <1>7 DEF Polite, OpenReplies, ExecReplies,
     Addressed
<1> QED
  BY <1>0, <1>1, <1>8, <1>9, <1>10, <1>11, <1>12, <1>13 DEF IInv, Up

(* The client has read a packet, and sent nothing. *)
LEMMA ReadsOnly ==
    ASSUME IInv, toClient # <<>>, connection' = "up",
           ClientSends(Tail(toClient)), sent' = <<>>
    PROVE  /\ Up
           /\ TypeInv
           /\ Head(toClient).type \in TypesOf(toClient)
           /\ TypesOf(toServer) \intersect Requests = {}
           /\ server' = server
           /\ toServer' = toServer
           /\ toClient' \in Seq(ServerPacket)
           /\ TypesOf(toClient') \subseteq TypesOf(toClient)
           /\ TypesOf(toClient') \intersect Replies = {}
           /\ Behind(toClient') \intersect Replies = {}
           /\ AfterClose(toClient') = {}
           /\ Head(toClient).type = "CLOSE" => TypesOf(toClient') = {}
           /\ \A T : Head(toClient).type \notin T =>
                        Size(toClient', T) = Size(toClient, T)
           /\ Head(toClient).type \notin Replies => ~ReplyPending
           /\ ~ReplyPending'
<1>1. TypeInv /\ sent' \in Seq(ClientPacket)
  BY DEF IInv
<1>2. toServer' = toServer
  BY <1>1 DEF ClientSends, TypeInv
<1>3. TypesOf(sent') = {}
  BY NoPacket
<1>4. /\ Up
      /\ Head(toClient).type \in TypesOf(toClient)
      /\ TypesOf(toServer) \intersect Requests = {}
      /\ server' = server
      /\ toClient' \in Seq(ServerPacket)
      /\ TypesOf(toClient') \subseteq TypesOf(toClient)
      /\ TypesOf(toClient') \intersect Replies = {}
      /\ Behind(toClient') \intersect Replies = {}
      /\ AfterClose(toClient') = {}
      /\ Head(toClient).type = "CLOSE" => TypesOf(toClient') = {}
      /\ Head(toClient).type \notin Replies => ~ReplyPending
      /\ ReplyPending' <=> TypesOf(sent') \intersect Requests # {}
      /\ \A T : /\ Size(toClient, T) = Size(toClient', T) +
                       (IF Head(toClient).type \in T
                        THEN Head(toClient).size ELSE 0)
                /\ Size(toClient', T) \in Nat
  BY <1>1, Reads
<1>5. \A T : Head(toClient).type \notin T =>
                 Size(toClient', T) = Size(toClient, T)
  BY <1>4
<1> QED
  BY <1>1, <1>2, <1>3, <1>4, <1>5

(* handleOpenFailure() *)
LEMMA OpenFailureKeeps ==
    ASSUME IInv, toClient # <<>>, Head(toClient).type = "OPEN_FAILURE",
           Known, channelState = "SessionRequested",
           HandleOpenFailure, UNCHANGED userVars,
           ClientSends(Tail(toClient))
    PROVE  IInv' /\ connection' = "up"
<1>0. TypeInv /\ Up
  BY DEF IInv, TypeInv
<1>1. /\ registered' = FALSE
      /\ replyTimer' = FALSE
      /\ procState' = "StartFailed"
      /\ emitted' = Append(emitted, "FailedToStart")
      /\ sent' = <<>>
      /\ UNCHANGED <<connection, channelState, remoteChannel, localWindowSize,
                     remoteWindowSize, sendBuffer, wasRunning, killed, open,
                     dropped, written, signalled, hastyUse>>
      /\ registered
  BY DEF HandleOpenFailure, Known, windowVars, userVars
<1>2. connection' = "up"
  BY <1>0, <1>1 DEF Up
<1>3. /\ TypesOf(toServer) \intersect Requests = {}
      /\ server' = server
      /\ toServer' = toServer
      /\ toClient' \in Seq(ServerPacket)
      /\ TypesOf(toClient') \subseteq TypesOf(toClient)
      /\ TypesOf(toClient') \intersect Replies = {}
      /\ ~ReplyPending'
  BY <1>1, <1>2, ReadsOnly
<1>4. /\ TypesOf(toServer') = {} /\ toServer' = <<>>
      /\ TypesOf(toClient') = {} /\ toClient' = <<>>
      /\ Unaddressed(toServer') = {}
      /\ Behind(toServer') = {}
      /\ AfterClose(toServer') = {}
      /\ Behind(toClient') = {}
      /\ AfterClose(toClient') = {}
  <2>1. /\ TypesOf(toServer) \subseteq {"OPEN"}
        /\ TypesOf(toClient) \subseteq OpenReplies
    BY <1>0 DEF IInv, Beginning
  <2>2. TypesOf(toServer) = {} /\ TypesOf(toClient') = {}
    BY <1>3, <2>1 DEF Requests, Replies
  <2>3. toServer = <<>> /\ toClient' = <<>>
    BY <1>0, <1>3, <2>2, EmptyQueue DEF TypeInv
  <2> QED BY <1>3, <2>2, <2>3, NoPacket
<1>5. /\ server.process = "none"
      /\ server.channel \in {"none", "open"}
      /\ remoteWindowSize = 0
      /\ sendBuffer = 0
      /\ emitted = <<>>
      /\ ~wasRunning
  BY <1>0, <1>1 DEF IInv, Beginning, Signals
<1>6. TypeInv'
  <2>1. Flags'
    <3>1. replyTimer' \in BOOLEAN /\ registered' \in BOOLEAN
      BY <1>1
    <3> QED BY <1>0, <1>1, <3>1, Zenon DEF TypeInv, Flags
  <2> QED
    BY <1>0, <1>1, <1>3, <1>4, <2>1 DEF TypeInv, Up, ProcessStates
<1>7. Signals' /\ Beginning'
  BY <1>1, <1>3, <1>4, <1>5 DEF IInv, Signals, SignalsInOrder, Beginning
<1>8. NoSession' /\ Queues' /\ WindowsAgree'
  BY <1>1, <1>3, <1>4, <1>5 DEF IInv, NoSession, Queues, WindowsAgree, Up
<1>9. ReplyIsTimed'
  BY <1>1, <1>3 DEF ReplyIsTimed
<1>10. Polite'
  BY <1>0, <1>1, <1>3, <1>4, <1>5 DEF IInv, Polite
<1> QED
  BY <1>2, <1>6, <1>7, <1>8, <1>9, <1>10 DEF IInv

(* handleChannelSuccess() *)
LEMMA ChannelSuccessKeeps ==
    ASSUME IInv, toClient # <<>>, Head(toClient).type = "SUCCESS",
           Known, procState = "ExecRequested",
           HandleChannelSuccess, UNCHANGED userVars,
           ClientSends(Tail(toClient))
    PROVE  IInv' /\ connection' = "up"
<1>0. TypeInv /\ Up
  BY DEF IInv, TypeInv
<1>1. /\ replyTimer' = FALSE
      /\ procState' = "Running"
      /\ wasRunning' = TRUE
      /\ emitted' = Append(emitted, "started")
      /\ sent' = <<>>
      /\ UNCHANGED <<connection, registered, channelState, remoteChannel,
                     localWindowSize, remoteWindowSize, sendBuffer, killed,
                     open, dropped, written, signalled, hastyUse>>
      /\ registered
  BY DEF HandleChannelSuccess, Known, windowVars, userVars
<1>2. connection' = "up"
  BY <1>0, <1>1 DEF Up
<1>3. /\ "SUCCESS" \in TypesOf(toClient)
      /\ TypesOf(toServer) \intersect Requests = {}
      /\ server' = server
      /\ toServer' = toServer
      /\ toClient' \in Seq(ServerPacket)
      /\ TypesOf(toClient') \subseteq TypesOf(toClient)
      /\ TypesOf(toClient') \intersect Replies = {}
      /\ Behind(toClient') \intersect Replies = {}
      /\ AfterClose(toClient') = {}
      /\ \A T : "SUCCESS" \notin T => Size(toClient', T) = Size(toClient, T)
      /\ ~ReplyPending'
  BY <1>1, <1>2, ReadsOnly
<1>4. /\ channelState \notin {"Inactive", "SessionRequested", "Closed"}
      /\ server.channel # "none"
      /\ emitted = <<>>
      /\ ~wasRunning
  BY <1>0, <1>1 DEF IInv, Beginning, NoSession, Signals
<1>5. TypeInv'
  <2>1. Flags'
    <3>1. replyTimer' \in BOOLEAN /\ wasRunning' \in BOOLEAN
      BY <1>1
    <3> QED BY <1>0, <1>1, <3>1, Zenon DEF TypeInv, Flags
  <2> QED
    BY <1>0, <1>1, <1>3, <2>1 DEF TypeInv, Up, ProcessStates
<1>6. Signals' /\ Beginning' /\ NoSession'
  BY <1>1, <1>3, <1>4 DEF Signals, SignalsInOrder, Beginning, NoSession
<1>7. Queues'
  BY <1>0, <1>3 DEF IInv, Queues
<1>8. ReplyIsTimed'
  BY <1>1, <1>3 DEF ReplyIsTimed
<1>9. WindowsAgree'
  BY <1>1, <1>3 DEF IInv, WindowsAgree
<1>10. Polite'
  BY <1>0, <1>1, <1>3 DEF IInv, Polite, Requests, Replies, ExecReplies
<1> QED
  BY <1>2, <1>5, <1>6, <1>7, <1>8, <1>9, <1>10 DEF IInv

(* handleChannelFailure() *)
LEMMA ChannelFailureKeeps ==
    ASSUME IInv, toClient # <<>>, Head(toClient).type = "FAILURE",
           Known, procState = "ExecRequested",
           HandleChannelFailure, UNCHANGED userVars,
           ClientSends(Tail(toClient))
    PROVE  IInv' /\ connection' = "up"
<1>0. TypeInv /\ Up
  BY DEF IInv, TypeInv
<1>1. /\ procState' = "StartFailed"
      /\ emitted' = Append(emitted, "FailedToStart")
      /\ channelState' = IF channelState = "Closed" THEN "Closed"
                         ELSE "CloseRequested"
      /\ replyTimer' = FALSE
      /\ sent' = Goodbye
      /\ UNCHANGED <<connection, registered, remoteChannel, localWindowSize,
                     remoteWindowSize, sendBuffer, wasRunning, killed, open,
                     dropped, written, signalled, hastyUse>>
      /\ registered
  BY DEF HandleChannelFailure, Known, windowVars, userVars
<1>2. connection' = "up"
  BY <1>0, <1>1 DEF Up
<1>3. /\ channelState \notin {"Inactive", "SessionRequested", "Closed"}
      /\ server.channel # "none"
      /\ emitted = <<>>
      /\ ~wasRunning
      /\ sendBuffer = 0
      /\ channelState' = "CloseRequested"
      /\ channelState \in {"SessionEstablished", "CloseRequested"}
  BY <1>0, <1>1 DEF IInv, Beginning, NoSession, Signals, TypeInv, ChannelStates
<1>4. /\ sent' \in Seq(ClientPacket)
      /\ TypesOf(sent') \subseteq {"EOF", "CLOSE"}
      /\ channelState = "CloseRequested" => TypesOf(sent') = {}
      /\ remoteChannel = "remote" => Unaddressed(sent') = {}
      /\ Behind(sent') \subseteq {"CLOSE"}
      /\ AfterClose(sent') = {}
      /\ Size(sent', {"DATA"}) = 0
      /\ Size(sent', {"WINDOW_ADJUST"}) = 0
  BY <1>0, <1>1, SayingGoodbye
<1>5. /\ "FAILURE" \in TypesOf(toClient)
      /\ TypesOf(toServer) \intersect Requests = {}
      /\ server' = server
      /\ toClient' \in Seq(ServerPacket)
      /\ TypesOf(toClient') \subseteq TypesOf(toClient)
      /\ TypesOf(toClient') \intersect Replies = {}
      /\ Behind(toClient') \intersect Replies = {}
      /\ AfterClose(toClient') = {}
      /\ toServer' \in Seq(ClientPacket)
      /\ TypesOf(toServer') = TypesOf(toServer) \union TypesOf(sent')
      /\ Unaddressed(toServer') =
             Unaddressed(toServer) \union Unaddressed(sent')
      /\ Behind(toServer') = IF toServer = <<>> THEN Behind(sent')
                            ELSE Behind(toServer) \union TypesOf(sent')
      /\ AfterClose(toServer') =
             AfterClose(toServer) \union AfterClose(sent')
                 \union (IF "CLOSE" \in TypesOf(toServer)
                         THEN TypesOf(sent') ELSE {})
      /\ \A T : /\ Size(toServer', T) = Size(toServer, T) + Size(sent', T)
                /\ Size(toServer, T) \in Nat
                /\ Size(toClient, T) = Size(toClient', T) +
                       (IF Head(toClient).type \in T
                        THEN Head(toClient).size ELSE 0)
                /\ Size(toClient', T) \in Nat
      /\ ReplyPending' <=> TypesOf(sent') \intersect Requests # {}
  BY <1>2, <1>4, Reads
<1>6. ~ReplyPending'
  BY <1>4, <1>5 DEF Requests
<1>7. TypeInv'
  <2>1. Flags'
    <3>1. replyTimer' \in BOOLEAN
      BY <1>1
    <3> QED BY <1>0, <1>1, <3>1, Zenon DEF TypeInv, Flags
  <2> QED
    BY <1>0, <1>1, <1>3, <1>5, <2>1 DEF TypeInv, Up, ProcessStates,
        ChannelStates
<1>8. Signals' /\ Beginning' /\ NoSession'
  BY <1>1, <1>3, <1>5 DEF Signals, SignalsInOrder, Beginning, NoSession
<1>9. Queues'
  BY <1>0, <1>4, <1>5 DEF IInv, Queues, Requests
<1>10. ReplyIsTimed'
  BY <1>1, <1>6 DEF ReplyIsTimed
<1>11. WindowsAgree'
  <2>1. /\ Size(toServer', {"DATA"}) = Size(toServer, {"DATA"})
        /\ Size(toServer', {"WINDOW_ADJUST"}) =
               Size(toServer, {"WINDOW_ADJUST"})
        /\ Size(toClient', {"DATA"}) = Size(toClient, {"DATA"})
        /\ Size(toClient', {"OPEN_CONFIRMATION", "WINDOW_ADJUST"}) =
              Size(toClient, {"OPEN_CONFIRMATION", "WINDOW_ADJUST"})
    BY <1>4, <1>5
  <2> QED
    BY <1>1, <1>5, <2>1 DEF IInv, WindowsAgree
<1>12. Polite'
  <2> SUFFICES ASSUME ~hastyUse' PROVE Polite'
    BY DEF Polite
  <2>1. /\ remoteChannel = "remote"
        /\ channelState = "SessionEstablished" =>
              "CLOSE" \notin TypesOf(toServer) /\ server.channel # "freed"
    BY <1>0, <1>1, <1>3 DEF IInv, Polite
  <2>2. CASE channelState = "SessionEstablished"
    BY <1>0, <1>1, <1>3, <1>4, <1>5, <2>1, <2>2 DEF IInv, Polite, Requests,
       Replies, OpenReplies, ExecReplies
  <2>3. CASE channelState = "CloseRequested"
    BY <1>0, <1>1, <1>3, <1>4, <1>5, <2>1, <2>3 DEF IInv, Polite, Requests,
       Replies, OpenReplies, ExecReplies
  <2> QED BY <1>3, <2>2, <2>3
<1> QED
  BY <1>2, <1>7, <1>8, <1>9, <1>10, <1>11, <1>12 DEF IInv

(* handleWindowAdjust() *)
LEMMA WindowAdjustKeeps ==
    ASSUME IInv, toClient # <<>>, Head(toClient).type = "WINDOW_ADJUST",
           Known, Active,
           HandleWindowAdjust(Head(toClient).size), UNCHANGED userVars,
           ClientSends(Tail(toClient))
    PROVE  IInv' /\ connection' = "up"
<1> DEFINE size == Head(toClient).size
<1>0. TypeInv /\ Up /\ size \in Nat
  <2> TypeInv /\ Up
    BY DEF IInv, TypeInv
  <2> QED BY Reading DEF ServerPacket, ChannelPacket
<1>1. /\ Flush(sendBuffer, remoteWindowSize + size)
      /\ UNCHANGED <<connection, registered, channelState, remoteChannel,
                     replyTimer, localWindowSize, procState, wasRunning,
                     killed, emitted, open, dropped, written, signalled,
                     hastyUse>>
      /\ registered
  BY DEF HandleWindowAdjust, Known, processVars, userVars
<1>2. connection' = "up"
  BY <1>0, <1>1 DEF Up
<1>3. /\ sent' \in Seq(ClientPacket)
      /\ TypesOf(sent') \subseteq {"DATA"}
      /\ remoteChannel = "remote" => Unaddressed(sent') = {}
      /\ Behind(sent') = {}
      /\ AfterClose(sent') = {}
      /\ sendBuffer' \in Nat
      /\ remoteWindowSize' \in Nat
      /\ remoteWindowSize + size = remoteWindowSize' + Size(sent', {"DATA"})
      /\ Size(sent', {"DATA"}) \in Nat
      /\ Size(sent', {"WINDOW_ADJUST"}) = 0
      /\ sendBuffer = 0 => sendBuffer' = 0 /\ TypesOf(sent') = {}
  <2>1. remoteWindowSize + size \in Nat /\ sendBuffer \in Nat
    BY <1>0 DEF TypeInv
  <2> HIDE DEF size
  <2> QED BY <1>0, <1>1, <2>1, Flushing
<1>4. /\ Head(toClient).type \in TypesOf(toClient)
      /\ TypesOf(toServer) \intersect Requests = {}
      /\ server' = server
      /\ toClient' \in Seq(ServerPacket)
      /\ TypesOf(toClient') \subseteq TypesOf(toClient)
      /\ TypesOf(toClient') \intersect Replies = {}
      /\ Behind(toClient') \intersect Replies = {}
      /\ AfterClose(toClient') = {}
      /\ toServer' \in Seq(ClientPacket)
      /\ TypesOf(toServer') = TypesOf(toServer) \union TypesOf(sent')
      /\ Unaddressed(toServer') =
             Unaddressed(toServer) \union Unaddressed(sent')
      /\ Behind(toServer') = IF toServer = <<>> THEN Behind(sent')
                            ELSE Behind(toServer) \union TypesOf(sent')
      /\ AfterClose(toServer') =
             AfterClose(toServer) \union AfterClose(sent')
                 \union (IF "CLOSE" \in TypesOf(toServer)
                         THEN TypesOf(sent') ELSE {})
      /\ \A T : /\ Size(toServer', T) = Size(toServer, T) + Size(sent', T)
                /\ Size(toServer, T) \in Nat
                /\ Size(toClient, T) = Size(toClient', T) +
                       (IF Head(toClient).type \in T
                        THEN Head(toClient).size ELSE 0)
                /\ Size(toClient', T) \in Nat
      /\ Head(toClient).type \notin Replies => ~ReplyPending
      /\ ReplyPending' <=> TypesOf(sent') \intersect Requests # {}
  BY <1>2, <1>3, Reads
<1>5. /\ channelState \notin {"Inactive", "SessionRequested", "Closed"}
      /\ channelState \in {"SessionEstablished", "CloseRequested"}
      /\ server.channel # "none"
  BY <1>0, <1>1, <1>4 DEF IInv, Beginning, NoSession, OpenReplies, TypeInv,
     ChannelStates, Active
<1>6. ~ReplyPending /\ ~ReplyPending'
  BY <1>3, <1>4 DEF Requests, Replies, OpenReplies, ExecReplies
<1>7. TypeInv'
  <2>1. Flags'
    BY <1>0, <1>1, Zenon DEF TypeInv, Flags
  <2> QED
    BY <1>0, <1>1, <1>3, <1>4, <2>1 DEF TypeInv, Up
<1>8. Signals' /\ Beginning' /\ NoSession'
  BY <1>0, <1>1, <1>3, <1>4, <1>5 DEF IInv, Signals, SignalsInOrder, Beginning,
     NoSession
<1>9. Queues'
  BY <1>0, <1>3, <1>4 DEF IInv, Queues, Requests
<1>10. ReplyIsTimed'
  BY <1>0, <1>1, <1>6 DEF IInv, ReplyIsTimed, Destroyed, Up
<1>11. WindowsAgree'
  <2>1. Size(toClient', {"DATA"}) = Size(toClient, {"DATA"})
    BY <1>4
  <2>2. Size(toServer', {"WINDOW_ADJUST"}) = Size(toServer, {"WINDOW_ADJUST"})
    BY <1>3, <1>4
  <2>3. PICK old \in Nat, new \in Nat :
           /\ old = Size(toClient, {"OPEN_CONFIRMATION", "WINDOW_ADJUST"})
           /\ new = Size(toClient', {"OPEN_CONFIRMATION", "WINDOW_ADJUST"})
           /\ old = new + size
    BY <1>0, <1>4
  <2>4. PICK flushed \in Nat, before \in Nat, after \in Nat :
           /\ flushed = Size(sent', {"DATA"})
           /\ before = Size(toServer, {"DATA"})
           /\ after = Size(toServer', {"DATA"})
           /\ after = before + flushed
    BY <1>3, <1>4
  <2>5. PICK left \in Nat, window \in Nat :
           /\ left = remoteWindowSize'
           /\ window = remoteWindowSize
           /\ window + size = left + flushed
    BY <1>0, <1>3, <2>4 DEF TypeInv
  <2> HIDE DEF size
  <2>6. \A w : w = window + before + old => w = left + after + new
    <3>1. /\ old = new + size
          /\ after = before + flushed
          /\ window + size = left + flushed
          /\ size \in Nat
      BY <1>0, <2>3, <2>4, <2>5
    <3> QED BY <3>1
  <2> QED
    BY <1>0, <1>1, <1>4, <2>1, <2>2, <2>3, <2>4, <2>5, <2>6 DEF IInv,
       WindowsAgree, Up
<1>12. Polite'
  <2> SUFFICES ASSUME ~hastyUse' PROVE Polite'
    BY DEF Polite
  <2>1. /\ remoteChannel = "remote"
        /\ channelState = "SessionEstablished" =>
              "CLOSE" \notin TypesOf(toServer) /\ server.channel # "freed"
        /\ channelState = "CloseRequested" =>
              TypesOf(sent') = {} /\ sendBuffer' = 0
    BY <1>0, <1>1, <1>3, <1>5 DEF IInv, Polite
  <2>2. CASE channelState = "SessionEstablished"
    BY <1>0, <1>1, <1>3, <1>4, <1>5, <2>1, <2>2 DEF IInv, Polite, Requests,
       Replies, OpenReplies, ExecReplies
  <2>3. CASE channelState = "CloseRequested"
    BY <1>0, <1>1, <1>3, <1>4, <1>5, <2>1, <2>3 DEF IInv, Polite, Requests,
       Replies, OpenReplies, ExecReplies
  <2> QED BY <1>5, <2>2, <2>3
<1> QED
  BY <1>2, <1>7, <1>8, <1>9, <1>10, <1>11, <1>12 DEF IInv

(* handleChannelOrExtendedChannelData(): the whole packet is delivered. *)
LEMMA ChannelDataKeeps ==
    ASSUME IInv, toClient # <<>>, Head(toClient).type = "DATA",
           Known, Active,
           HandleChannelData(Head(toClient).size), UNCHANGED userVars,
           ClientSends(Tail(toClient))
    PROVE  IInv' /\ connection' = "up"
<1> DEFINE size == Head(toClient).size
           delivered == MinOf(size, MinOf(localWindowSize, MaxPacketSize))
           left == localWindowSize - delivered
           p == Outgoing("WINDOW_ADJUST", MaxPacketSize)
<1>0. TypeInv /\ Up /\ size \in Nat /\ size <= MaxPacketSize
  <2> TypeInv /\ Up
    BY DEF IInv, TypeInv
  <2> QED BY Reading DEF ServerPacket, ChannelPacket
<1>1. /\ IF left < MaxPacketSize
         THEN localWindowSize' = left + MaxPacketSize /\ sent' = <<p>>
         ELSE localWindowSize' = left /\ sent' = <<>>
      /\ UNCHANGED <<connection, registered, channelState, remoteChannel,
                     replyTimer, remoteWindowSize, sendBuffer, procState,
                     wasRunning, killed, emitted, open, dropped, written,
                     signalled, hastyUse>>
      /\ registered
  BY DEF HandleChannelData, Known, processVars, userVars
<1>2. connection' = "up"
  BY <1>0, <1>1 DEF Up
<1>3. /\ p \in ClientPacket
      /\ p \in ChannelPacket
      /\ p.type = "WINDOW_ADJUST"
      /\ p.size = MaxPacketSize
  <2> p \in ClientPacket /\ p.type = "WINDOW_ADJUST" /\ p.size = MaxPacketSize
    BY <1>0, OutgoingType, SizesAssumption DEF PacketTypes
  <2> QED BY DEF ClientPacket
<1>4. left \in Nat /\ (size <= localWindowSize => left = localWindowSize - size)
  BY <1>0, SizesAssumption DEF MinOf, TypeInv
<1> HIDE DEF p, left, delivered
<1>5. /\ sent' \in Seq(ClientPacket)
      /\ TypesOf(sent') \subseteq {"WINDOW_ADJUST"}
      /\ Unaddressed(sent') \subseteq {"WINDOW_ADJUST"}
      /\ Behind(sent') = {}
      /\ AfterClose(sent') = {}
      /\ localWindowSize' \in Nat
      /\ localWindowSize' = left + Size(sent', {"WINDOW_ADJUST"})
      /\ Size(sent', {"WINDOW_ADJUST"}) \in Nat
      /\ Size(sent', {"DATA"}) = 0
  <2>1. CASE left < MaxPacketSize
    <3>1. sent' = <<p>> /\ localWindowSize' = left + MaxPacketSize
      BY <1>1, <2>1
    <3>2. /\ TypesOf(sent') = {"WINDOW_ADJUST"}
          /\ Unaddressed(sent') \subseteq {"WINDOW_ADJUST"}
          /\ Behind(sent') = {}
          /\ AfterClose(sent') = {}
      BY <1>3, <3>1, OnePacket
    <3>3. /\ Size(sent', {"WINDOW_ADJUST"}) = MaxPacketSize
          /\ Size(sent', {"DATA"}) = 0
      BY <1>3, <3>1, SizeOfOne
    <3> QED BY <1>3, <1>4, <3>1, <3>2, <3>3, SizesAssumption
  <2>2. CASE ~(left < MaxPacketSize)
    <3>1. sent' = <<>> /\ localWindowSize' = left
      BY <1>1, <2>2
    <3>2. /\ TypesOf(sent') = {}
          /\ Unaddressed(sent') = {}
          /\ Behind(sent') = {}
          /\ AfterClose(sent') = {}
      BY <3>1, NoPacket
    <3>3. Size(sent', {"WINDOW_ADJUST"}) = 0 /\ Size(sent', {"DATA"}) = 0
      BY <3>2, SizeOfNone
    <3> QED BY <1>4, <3>1, <3>2, <3>3
  <2> QED BY <2>1, <2>2
<1>6. /\ Head(toClient).type \in TypesOf(toClient)
      /\ TypesOf(toServer) \intersect Requests = {}
      /\ server' = server
      /\ toClient' \in Seq(ServerPacket)
      /\ TypesOf(toClient') \subseteq TypesOf(toClient)
      /\ TypesOf(toClient') \intersect Replies = {}
      /\ Behind(toClient') \intersect Replies = {}
      /\ AfterClose(toClient') = {}
      /\ toServer' \in Seq(ClientPacket)
      /\ TypesOf(toServer') = TypesOf(toServer) \union TypesOf(sent')
      /\ Unaddressed(toServer') =
             Unaddressed(toServer) \union Unaddressed(sent')
      /\ Behind(toServer') = IF toServer = <<>> THEN Behind(sent')
                            ELSE Behind(toServer) \union TypesOf(sent')
      /\ AfterClose(toServer') =
             AfterClose(toServer) \union AfterClose(sent')
                 \union (IF "CLOSE" \in TypesOf(toServer)
                         THEN TypesOf(sent') ELSE {})
      /\ \A T : /\ Size(toServer', T) = Size(toServer, T) + Size(sent', T)
                /\ Size(toServer, T) \in Nat
                /\ Size(toClient, T) = Size(toClient', T) +
                       (IF Head(toClient).type \in T
                        THEN Head(toClient).size ELSE 0)
                /\ Size(toClient', T) \in Nat
      /\ Head(toClient).type \notin Replies => ~ReplyPending
      /\ ReplyPending' <=> TypesOf(sent') \intersect Requests # {}
  BY <1>2, <1>5, Reads
<1>7. /\ channelState \notin {"Inactive", "SessionRequested", "Closed"}
      /\ server.channel # "none"
  BY <1>0, <1>1, <1>6 DEF IInv, Beginning, NoSession, OpenReplies, TypeInv,
     ChannelStates, Active
<1>8. ~ReplyPending /\ ~ReplyPending'
  BY <1>5, <1>6 DEF Requests, Replies, OpenReplies, ExecReplies
<1>9. TypeInv'
  <2>1. Flags'
    BY <1>0, <1>1, Zenon DEF TypeInv, Flags
  <2> QED
    BY <1>0, <1>1, <1>5, <1>6, <2>1 DEF TypeInv, Up
<1>10. Signals' /\ Beginning' /\ NoSession'
  BY <1>0, <1>1, <1>5, <1>6, <1>7 DEF IInv, Signals, SignalsInOrder, Beginning,
     NoSession
<1>11. Queues'
  BY <1>0, <1>5, <1>6 DEF IInv, Queues, Requests
<1>12. ReplyIsTimed'
  BY <1>0, <1>1, <1>8 DEF IInv, ReplyIsTimed, Destroyed, Up
<1>13. WindowsAgree'
  <2>1. Size(toServer', {"DATA"}) = Size(toServer, {"DATA"})
    BY <1>5, <1>6
  <2>2. Size(toClient', {"OPEN_CONFIRMATION", "WINDOW_ADJUST"}) =
            Size(toClient, {"OPEN_CONFIRMATION", "WINDOW_ADJUST"})
    <3>1. Head(toClient).type \notin {"OPEN_CONFIRMATION", "WINDOW_ADJUST"}
      OBVIOUS
    <3> QED BY <1>6, <3>1
  <2>3. PICK old \in Nat, new \in Nat :
           /\ old = Size(toClient, {"DATA"})
           /\ new = Size(toClient', {"DATA"})
           /\ old = new + size
    BY <1>0, <1>6
  <2>4. PICK granted \in Nat, before \in Nat, after \in Nat :
           /\ granted = Size(sent', {"WINDOW_ADJUST"})
           /\ before = Size(toServer, {"WINDOW_ADJUST"})
           /\ after = Size(toServer', {"WINDOW_ADJUST"})
           /\ after = before + granted
    BY <1>5, <1>6
  <2>5. PICK window \in Nat, rest \in Nat, next \in Nat :
           /\ window = localWindowSize
           /\ rest = left
           /\ next = localWindowSize'
           /\ next = rest + granted
           /\ size <= window => rest = window - size
    BY <1>0, <1>4, <1>5, <2>4 DEF TypeInv
  <2>6. PICK other \in Nat : other = server.sendWindow
    BY <1>0 DEF TypeInv, Server
  <2> HIDE DEF size
  <2>7. window = other + old + before => next = other + new + after
    <3>1. /\ old = new + size
          /\ after = before + granted
          /\ next = rest + granted
          /\ size <= window => rest = window - size
          /\ size \in Nat
      BY <1>0, <2>3, <2>4, <2>5
    <3> QED BY <3>1
  <2> QED
    BY <1>0, <1>1, <1>6, <2>1, <2>2, <2>3, <2>4, <2>5, <2>6, <2>7 DEF IInv,
       WindowsAgree, Up
<1>14. Polite'
  BY <1>0, <1>1, <1>5, <1>6, <1>7 DEF IInv, Polite, Requests, Replies,
     OpenReplies, ExecReplies, Addressed
<1> QED
  BY <1>2, <1>9, <1>10, <1>11, <1>12, <1>13, <1>14 DEF IInv

(* handleExitStatus() and handleExitSignal() *)
LEMMA ExitKeeps ==
    ASSUME IInv, toClient # <<>>, Head(toClient).type \in Exits,
           Known, Active, Head(toClient).type # "EXIT_SIGNAL_OTHER",
           HandleExit(Head(toClient)), UNCHANGED userVars,
           ClientSends(Tail(toClient))
    PROVE  IInv' /\ connection' = "up"
<1>0. TypeInv /\ Up
  BY DEF IInv, TypeInv
<1>1. /\ procState' = "Exited"
      /\ killed' = (killed \/ Head(toClient).type = "EXIT_SIGNAL")
      /\ sent' = <<>>
      /\ UNCHANGED <<connection, registered, channelState, remoteChannel,
                     replyTimer, localWindowSize, remoteWindowSize, sendBuffer,
                     wasRunning, emitted, open, dropped, written, signalled,
                     hastyUse>>
      /\ registered
  BY DEF HandleExit, Known, windowVars, userVars
<1>2. connection' = "up"
  BY <1>0, <1>1 DEF Up
<1>3. /\ Head(toClient).type \in TypesOf(toClient)
      /\ TypesOf(toServer) \intersect Requests = {}
      /\ server' = server
      /\ toServer' = toServer
      /\ toClient' \in Seq(ServerPacket)
      /\ TypesOf(toClient') \subseteq TypesOf(toClient)
      /\ TypesOf(toClient') \intersect Replies = {}
      /\ Behind(toClient') \intersect Replies = {}
      /\ AfterClose(toClient') = {}
      /\ \A T : Head(toClient).type \notin T =>
                   Size(toClient', T) = Size(toClient, T)
      /\ Head(toClient).type \notin Replies => ~ReplyPending
      /\ ~ReplyPending'
  BY <1>1, <1>2, ReadsOnly
<1>4. /\ channelState \notin {"Inactive", "SessionRequested", "Closed"}
      /\ server.channel # "none"
  BY <1>0, <1>1, <1>3 DEF IInv, Beginning, NoSession, OpenReplies, TypeInv,
     ChannelStates, Active, Exits
<1>5. /\ ~ReplyPending
      /\ Size(toClient', {"DATA"}) = Size(toClient, {"DATA"})
      /\ Size(toClient', {"OPEN_CONFIRMATION", "WINDOW_ADJUST"}) =
            Size(toClient, {"OPEN_CONFIRMATION", "WINDOW_ADJUST"})
  <2>1. /\ Head(toClient).type \notin Replies
        /\ Head(toClient).type \notin {"DATA"}
        /\ Head(toClient).type \notin {"OPEN_CONFIRMATION", "WINDOW_ADJUST"}
    BY DEF Replies, OpenReplies, ExecReplies, Exits
  <2> QED BY <1>3, <2>1
<1>6. TypeInv'
  <2>1. Flags'
    <3>1. killed' \in BOOLEAN
      BY <1>1, Zenon
    <3> QED BY <1>0, <1>1, <3>1, Zenon DEF TypeInv, Flags
  <2> QED
    BY <1>0, <1>1, <1>3, <2>1 DEF TypeInv, Up, ProcessStates
<1>7. Signals' /\ Beginning' /\ NoSession'
  BY <1>0, <1>1, <1>3, <1>4 DEF IInv, Signals, SignalsInOrder, Beginning,
     NoSession
<1>8. Queues'
  BY <1>0, <1>3 DEF IInv, Queues
<1>9. ReplyIsTimed'
  BY <1>0, <1>1, <1>3, <1>5 DEF IInv, ReplyIsTimed, Destroyed, Up
<1>10. WindowsAgree'
  BY <1>1, <1>3, <1>5 DEF IInv, WindowsAgree
<1>11. Polite'
  BY <1>0, <1>1, <1>3 DEF IInv, Polite, Requests, Replies
<1> QED
  BY <1>2, <1>6, <1>7, <1>8, <1>9, <1>10, <1>11 DEF IInv

(* handleChannelEof() *)
LEMMA ChannelEofKeeps ==
    ASSUME IInv, toClient # <<>>, Head(toClient).type = "EOF",
           ~(Known /\ ~Active), HandleChannelEof, UNCHANGED userVars,
           ClientSends(Tail(toClient))
    PROVE  IInv' /\ connection' = "up"
<1>0. TypeInv /\ Up
  BY DEF IInv, TypeInv
<1>1. /\ localWindowSize' = IF registered THEN 0 ELSE localWindowSize
      /\ sent' = <<>>
      /\ UNCHANGED <<connection, registered, channelState, remoteChannel,
                     replyTimer, remoteWindowSize, sendBuffer, procState,
                     wasRunning, killed, emitted, open, dropped, written,
                     signalled, hastyUse>>
  BY DEF HandleChannelEof, Known, processVars, userVars
<1>2. connection' = "up"
  BY <1>0, <1>1 DEF Up
<1>3. /\ "EOF" \in TypesOf(toClient)
      /\ TypesOf(toServer) \intersect Requests = {}
      /\ server' = server
      /\ toServer' = toServer
      /\ toClient' \in Seq(ServerPacket)
      /\ TypesOf(toClient') \subseteq TypesOf(toClient)
      /\ TypesOf(toClient') \intersect Replies = {}
      /\ Behind(toClient') \intersect Replies = {}
      /\ AfterClose(toClient') = {}
      /\ \A T : "EOF" \notin T => Size(toClient', T) = Size(toClient, T)
      /\ "EOF" \notin Replies => ~ReplyPending
      /\ ~ReplyPending'
  BY <1>1, <1>2, ReadsOnly
<1>4. /\ channelState \notin {"Inactive", "SessionRequested"}
      /\ server.channel # "none"
      /\ server.eof
      /\ ~ReplyPending
  BY <1>0, <1>1, <1>3 DEF IInv, Beginning, NoSession, Queues, OpenReplies,
     ExecReplies, Replies, Active, Known
<1>5. TypeInv'
  <2>1. Flags'
    BY <1>0, <1>1, Zenon DEF TypeInv, Flags
  <2> QED
    BY <1>0, <1>1, <1>3, <2>1 DEF TypeInv, Up
<1>6. Signals' /\ Beginning' /\ NoSession'
  BY <1>0, <1>1, <1>3, <1>4 DEF IInv, Signals, SignalsInOrder, Beginning,
     NoSession
<1>7. Queues'
  BY <1>0, <1>3 DEF IInv, Queues
<1>8. ReplyIsTimed'
  BY <1>0, <1>1, <1>3, <1>4 DEF IInv, ReplyIsTimed, Destroyed, Up
<1>9. WindowsAgree'
  BY <1>1, <1>3, <1>4 DEF IInv, WindowsAgree
<1>10. Polite'
  BY <1>0, <1>1, <1>3 DEF IInv, Polite, Requests, Replies
<1> QED
  BY <1>2, <1>5, <1>6, <1>7, <1>8, <1>9, <1>10 DEF IInv

(* handleChannelClose() *)
LEMMA ChannelCloseKeeps ==
    ASSUME IInv, toClient # <<>>, Head(toClient).type = "CLOSE",
           Known, Active, HandleChannelClose, UNCHANGED userVars,
           ClientSends(Tail(toClient))
    PROVE  IInv' /\ connection' = "up"
<1>0. TypeInv /\ Up
  BY DEF IInv, TypeInv
<1>1. /\ sent' = Goodbye
      /\ channelState' = "Closed"
      /\ replyTimer' = (replyTimer /\ channelState # "CloseRequested"
                                   /\ ~dropped)
      /\ CloseHook
      /\ registered' = FALSE
      /\ UNCHANGED <<connection, remoteChannel, localWindowSize,
                     remoteWindowSize, sendBuffer, procState, wasRunning,
                     killed, open, dropped, written, signalled, hastyUse>>
      /\ registered
  BY DEF HandleChannelClose, Known, windowVars, userVars
<1>2. connection' = "up"
  BY <1>0, <1>1 DEF Up
<1>3. /\ sent' \in Seq(ClientPacket)
      /\ TypesOf(sent') \subseteq {"EOF", "CLOSE"}
      /\ channelState = "CloseRequested" => TypesOf(sent') = {}
      /\ remoteChannel = "remote" => Unaddressed(sent') = {}
      /\ Behind(sent') \subseteq {"CLOSE"}
      /\ AfterClose(sent') = {}
  BY <1>0, <1>1, SayingGoodbye
<1>4. /\ Head(toClient).type \in TypesOf(toClient)
      /\ TypesOf(toServer) \intersect Requests = {}
      /\ server' = server
      /\ toClient' \in Seq(ServerPacket)
      /\ TypesOf(toClient') \subseteq TypesOf(toClient)
      /\ TypesOf(toClient') \intersect Replies = {}
      /\ Behind(toClient') \intersect Replies = {}
      /\ AfterClose(toClient') = {}
      /\ Head(toClient).type = "CLOSE" => TypesOf(toClient') = {}
      /\ toServer' \in Seq(ClientPacket)
      /\ TypesOf(toServer') = TypesOf(toServer) \union TypesOf(sent')
      /\ Unaddressed(toServer') =
             Unaddressed(toServer) \union Unaddressed(sent')
      /\ Behind(toServer') = IF toServer = <<>> THEN Behind(sent')
                            ELSE Behind(toServer) \union TypesOf(sent')
      /\ AfterClose(toServer') =
             AfterClose(toServer) \union AfterClose(sent')
                 \union (IF "CLOSE" \in TypesOf(toServer)
                         THEN TypesOf(sent') ELSE {})
      /\ Head(toClient).type \notin Replies => ~ReplyPending
      /\ ReplyPending' <=> TypesOf(sent') \intersect Requests # {}
  BY <1>2, <1>3, Reads
<1>5. /\ channelState \in {"SessionEstablished", "CloseRequested"}
      /\ server.channel \in {"closing", "freed"}
      /\ ~ReplyPending
      /\ ~ReplyPending'
  <2>1. server.channel \in {"closing", "freed"}
    BY <1>0, <1>4 DEF IInv, Queues
  <2>2. channelState \notin {"Inactive", "SessionRequested"}
    BY <1>0, <1>4 DEF IInv, Beginning, OpenReplies
  <2>3. ~ReplyPending /\ ~ReplyPending'
    BY <1>3, <1>4 DEF Requests, Replies, OpenReplies, ExecReplies
  <2> QED BY <1>0, <2>1, <2>2, <2>3 DEF TypeInv, ChannelStates, Active
<1>6. ~replyTimer /\ ~replyTimer'
  BY <1>0, <1>1, <1>5 DEF IInv, ReplyIsTimed, Destroyed, Up
<1>7. TypeInv'
  <2>1. Flags'
    <3>1. replyTimer' \in BOOLEAN /\ registered' \in BOOLEAN
      BY <1>1
    <3> QED BY <1>0, <1>1, <3>1, Zenon DEF TypeInv, Flags
  <2> QED
    BY <1>0, <1>1, <1>4, <2>1 DEF TypeInv, Up, ChannelStates
<1>8. Signals'
  <2>1. CASE wasRunning
    <3>1. emitted = <<"started">>
      BY <1>1, <2>1 DEF IInv, Signals
    <3>2. emitted' = IF killed THEN <<"started", "KilledBySignal">>
                     ELSE <<"started", "ExitedNormally">>
      BY <1>1, <2>1, <3>1 DEF CloseHook
    <3> QED BY <1>1, <2>1, <3>2 DEF Signals, SignalsInOrder
  <2>2. CASE ~wasRunning
    <3>1. emitted' = emitted
      BY <1>1, <2>2 DEF CloseHook
    <3> QED BY <1>1, <2>2, <3>1 DEF IInv, Signals, SignalsInOrder
  <2> QED BY <2>1, <2>2
<1>9. Beginning' /\ NoSession' /\ WindowsAgree' /\ ReplyIsTimed'
  BY <1>0, <1>1, <1>4, <1>5, <1>6 DEF IInv, Beginning, NoSession, WindowsAgree,
     ReplyIsTimed
<1>10. Queues'
  BY <1>0, <1>3, <1>4, <1>5 DEF IInv, Queues, Requests
<1>11. Polite'
  <2> SUFFICES ASSUME ~hastyUse' PROVE Polite'
    BY DEF Polite
  <2>1. /\ remoteChannel = "remote"
        /\ channelState = "SessionEstablished" =>
              "CLOSE" \notin TypesOf(toServer) /\ server.channel # "freed"
    BY <1>0, <1>1, <1>5 DEF IInv, Polite
  <2>2. CASE channelState = "SessionEstablished"
    BY <1>0, <1>1, <1>3, <1>4, <1>5, <2>1, <2>2 DEF IInv, Polite, Requests,
       Replies, OpenReplies, ExecReplies
  <2>3. CASE channelState = "CloseRequested"
    BY <1>0, <1>1, <1>3, <1>4, <1>5, <2>1, <2>3 DEF IInv, Polite, Requests,
       Replies, OpenReplies, ExecReplies
  <2> QED BY <1>5, <2>2, <2>3
<1> QED
  BY <1>2, <1>7, <1>8, <1>9, <1>10, <1>11 DEF IInv

(* A CLOSE for a channel the manager no longer knows. *)
LEMMA LateCloseKeeps ==
    ASSUME IInv, toClient # <<>>, Head(toClient).type = "CLOSE",
           ~Known, HandleChannelClose, UNCHANGED userVars,
           ClientSends(Tail(toClient))
    PROVE  IInv' /\ connection' = "up"
<1>0. TypeInv /\ Up
  BY DEF IInv, TypeInv
<1>1. /\ sent' = <<>>
      /\ UNCHANGED <<connection, registered, channelState, remoteChannel,
                     replyTimer, localWindowSize, remoteWindowSize, sendBuffer,
                     procState, wasRunning, killed, emitted, open, dropped,
                     written, signalled, hastyUse>>
      /\ ~registered
  BY DEF HandleChannelClose, Known, windowVars, processVars, userVars
<1>2. connection' = "up"
  BY <1>0, <1>1 DEF Up
<1>3. /\ "CLOSE" \in TypesOf(toClient)
      /\ TypesOf(toServer) \intersect Requests = {}
      /\ server' = server
      /\ toServer' = toServer
      /\ toClient' \in Seq(ServerPacket)
      /\ TypesOf(toClient') \subseteq TypesOf(toClient)
      /\ TypesOf(toClient') \intersect Replies = {}
      /\ Behind(toClient') \intersect Replies = {}
      /\ AfterClose(toClient') = {}
      /\ "CLOSE" \notin Replies => ~ReplyPending
      /\ ~ReplyPending'
  BY <1>1, <1>2, ReadsOnly
<1>4. /\ channelState \notin {"Inactive", "SessionRequested"}
      /\ server.channel \in {"closing", "freed"}
      /\ ~ReplyPending
  BY <1>0, <1>1, <1>3 DEF IInv, Beginning, Queues, OpenReplies, ExecReplies,
     Replies
<1>5. TypeInv'
  <2>1. Flags'
    BY <1>0, <1>1, Zenon DEF TypeInv, Flags
  <2> QED
    BY <1>0, <1>1, <1>3, <2>1 DEF TypeInv, Up
<1>6. Signals' /\ Beginning' /\ NoSession' /\ WindowsAgree'
  BY <1>0, <1>1, <1>3, <1>4 DEF IInv, Signals, SignalsInOrder, Beginning,
     NoSession, WindowsAgree
<1>7. Queues'
  BY <1>0, <1>3 DEF IInv, Queues
<1>8. ReplyIsTimed'
  BY <1>0, <1>1, <1>3, <1>4 DEF IInv, ReplyIsTimed, Destroyed, Up
<1>9. Polite'
  BY <1>0, <1>1, <1>3 DEF IInv, Polite, Requests, Replies
<1> QED
  BY <1>2, <1>5, <1>6, <1>7, <1>8, <1>9 DEF IInv

(* The client does not read the packet but closes the connection. *)
LEMMA ExceptionKeeps ==
    ASSUME IInv, ServerException, UNCHANGED userVars,
           NEW incoming, ClientSends(incoming)
    PROVE  IInv' /\ connection' = "protocol error"
<1>1. CloseConnection("protocol error")
  BY DEF ServerException
<1>2. connection' = "protocol error"
  BY <1>1 DEF CloseConnection
<1>3. toServer' = <<>> /\ toClient' = <<>> /\ UNCHANGED server
  BY <1>2 DEF ClientSends
<1>4. /\ server' \in Server
      /\ written' \in Nat
      /\ signalled' \in Nat
  BY <1>3 DEF IInv, TypeInv, userVars
<1>5. hastyUse' \in BOOLEAN
  BY Zenon DEF IInv, TypeInv, Flags, userVars
<1> QED
  BY <1>1, <1>2, <1>3, <1>4, <1>5, Closing

(* Unless the user was hasty, the client is in the state the packet asks   *)
(* for.                                                                    *)
LEMMA Expected ==
    ASSUME IInv, toClient # <<>>
    PROVE  LET type == Head(toClient).type
           IN  /\ registered => Active
               /\ ~hastyUse =>
                    /\ type \in OpenReplies =>
                          registered /\ channelState = "SessionRequested"
                    /\ type \in ExecReplies =>
                          registered /\ procState = "ExecRequested"
                    /\ type \notin {"EOF", "CLOSE"} => registered
<1>1. TypeInv /\ Up
  BY DEF IInv, TypeInv
<1>2. Head(toClient).type \in TypesOf(toClient)
  BY <1>1, Reading
<1>3. registered => Active
  BY <1>1 DEF IInv, Beginning, Active
<1> QED
  BY <1>1, <1>2, <1>3 DEF IInv, Polite

(* The client handles a packet.  Only a hasty user and a signal without a  *)
(* name make it accuse the server.                                         *)
LEMMA ClientReadsKeeps ==
    ASSUME IInv, ClientReads
    PROVE  /\ IInv'
           /\ \/ connection' = "up"
              \/ /\ connection' = "protocol error"
                 /\ hastyUse \/ Head(toClient).type = "EXIT_SIGNAL_OTHER"
<1> DEFINE p == Head(toClient)
<1>1. /\ toClient # <<>>
      /\ Receive(p)
      /\ UNCHANGED userVars
      /\ ClientSends(Tail(toClient))
  BY DEF ClientReads
<1>2. /\ registered => Active
      /\ ~hastyUse =>
            /\ p.type \in OpenReplies =>
                  registered /\ channelState = "SessionRequested"
            /\ p.type \in ExecReplies =>
                  registered /\ procState = "ExecRequested"
            /\ p.type \notin {"EOF", "CLOSE"} => registered
  BY <1>1, Expected, Zenon
<1>3. ASSUME ServerException PROVE IInv' /\ connection' = "protocol error"
  BY <1>1, <1>3, ExceptionKeeps, Zenon
<1>4. CASE p.type = "OPEN_CONFIRMATION" /\ HandleOpenSuccess(p)
  <2>1. CASE Known /\ channelState = "SessionRequested"
    BY <1>1, <1>4, <2>1, OpenSuccessKeeps
  <2>2. CASE ~(Known /\ channelState = "SessionRequested")
    <3>1. ServerException
      BY <1>4, <2>2 DEF HandleOpenSuccess
    <3>2. hastyUse
      BY <1>2, <1>4, <2>2 DEF OpenReplies, Known
    <3> QED BY <1>3, <3>1, <3>2
  <2> QED BY <2>1, <2>2
<1>5. CASE p.type = "OPEN_FAILURE" /\ HandleOpenFailure
  <2>1. CASE Known /\ channelState = "SessionRequested"
    BY <1>1, <1>5, <2>1, OpenFailureKeeps
  <2>2. CASE ~(Known /\ channelState = "SessionRequested")
    <3>1. ServerException
      BY <1>5, <2>2 DEF HandleOpenFailure
    <3>2. hastyUse
      BY <1>2, <1>5, <2>2 DEF OpenReplies, Known
    <3> QED BY <1>3, <3>1, <3>2
  <2> QED BY <2>1, <2>2
<1>6. CASE p.type = "SUCCESS" /\ HandleChannelSuccess
  <2>1. CASE Known /\ procState = "ExecRequested"
    BY <1>1, <1>6, <2>1, ChannelSuccessKeeps
  <2>2. CASE ~(Known /\ procState = "ExecRequested")
    <3>1. ServerException
      BY <1>6, <2>2 DEF HandleChannelSuccess
    <3>2. hastyUse
      BY <1>2, <1>6, <2>2 DEF ExecReplies, Known
    <3> QED BY <1>3, <3>1, <3>2
  <2> QED BY <2>1, <2>2
<1>7. CASE p.type = "FAILURE" /\ HandleChannelFailure
  <2>1. CASE Known /\ procState = "ExecRequested"
    BY <1>1, <1>7, <2>1, ChannelFailureKeeps
  <2>2. CASE ~(Known /\ procState = "ExecRequested")
    <3>1. ServerException
      BY <1>7, <2>2 DEF HandleChannelFailure
    <3>2. hastyUse
      BY <1>2, <1>7, <2>2 DEF ExecReplies, Known
    <3> QED BY <1>3, <3>1, <3>2
  <2> QED BY <2>1, <2>2
<1>8. CASE p.type = "WINDOW_ADJUST" /\ HandleWindowAdjust(p.size)
  <2>1. CASE Known /\ Active
    BY <1>1, <1>8, <2>1, WindowAdjustKeeps
  <2>2. CASE ~(Known /\ Active)
    <3>1. ServerException
      BY <1>8, <2>2 DEF HandleWindowAdjust
    <3>2. hastyUse
      BY <1>2, <1>8, <2>2 DEF Known
    <3> QED BY <1>3, <3>1, <3>2
  <2> QED BY <2>1, <2>2
<1>9. CASE p.type = "DATA" /\ HandleChannelData(p.size)
  <2>1. CASE Known /\ Active
    BY <1>1, <1>9, <2>1, ChannelDataKeeps
  <2>2. CASE ~(Known /\ Active)
    <3>1. ServerException
      BY <1>9, <2>2 DEF HandleChannelData
    <3>2. hastyUse
      BY <1>2, <1>9, <2>2 DEF Known
    <3> QED BY <1>3, <3>1, <3>2
  <2> QED BY <2>1, <2>2
<1>10. CASE p.type \in Exits /\ HandleExit(p)
  <2>1. CASE Known /\ Active /\ p.type # "EXIT_SIGNAL_OTHER"
    BY <1>1, <1>10, <2>1, ExitKeeps
  <2>2. CASE ~(Known /\ Active /\ p.type # "EXIT_SIGNAL_OTHER")
    <3>1. ServerException
      BY <1>10, <2>2 DEF HandleExit
    <3>2. hastyUse \/ p.type = "EXIT_SIGNAL_OTHER"
      BY <1>2, <1>10, <2>2 DEF Known, Exits
    <3> QED BY <1>3, <3>1, <3>2
  <2> QED BY <2>1, <2>2
<1>11. CASE p.type = "EOF" /\ HandleChannelEof
  <2>1. ~(Known /\ ~Active)
    BY <1>2 DEF Known
  <2> QED BY <1>1, <1>11, <2>1, ChannelEofKeeps
<1>12. CASE p.type = "CLOSE" /\ HandleChannelClose
  <2>1. CASE Known /\ Active
    BY <1>1, <1>12, <2>1, ChannelCloseKeeps
  <2>2. CASE ~Known
    BY <1>1, <1>12, <2>2, LateCloseKeeps
  <2> QED BY <1>2, <2>1, <2>2 DEF Known
<1> QED
  BY <1>1, <1>4, <1>5, <1>6, <1>7, <1>8, <1>9, <1>10, <1>11, <1>12
     DEF Receive, Exits
-----------------------------------------------------------------------------
(* The user does something. *)
LEMMA UserActsKeep ==
    ASSUME IInv, UserActs
    PROVE  IInv' /\ connection' \in {"up", "user"}
<1>1. Up /\ ClientSends(toClient)
  BY DEF UserActs, Up
<1>2. CASE Start /\ UNCHANGED userVars
  <2>1. connection' = "up"
    BY <1>1, <1>2 DEF Start, Up
  <2> QED BY <1>1, <1>2, <2>1, StartKeeps
<1>3. ASSUME NEW size \in 1 .. MaxWrites - written,
             Write(size), written' = written + size,
             hastyUse' = (hastyUse \/ Late), UNCHANGED signalled
      PROVE  IInv' /\ connection' = "up"
  <2>1. connection' = "up"
    BY <1>1, <1>3 DEF Write, Up
  <2>2. size \in Nat
    OBVIOUS
  <2> QED BY <1>1, <1>3, <2>1, <2>2, WriteKeeps
<1>4. CASE /\ SendSignal
           /\ signalled' = signalled + 1
           /\ hastyUse' = (hastyUse \/ Late)
           /\ UNCHANGED written
  <2>1. connection' = "up"
    BY <1>1, <1>4 DEF SendSignal, Up
  <2> QED BY <1>1, <1>4, <2>1, SendSignalKeeps
<1>5. CASE /\ Close
           /\ hastyUse' = (hastyUse \/ channelState = "SessionRequested"
                                   \/ sendBuffer > 0)
           /\ UNCHANGED <<written, signalled>>
  <2>1. connection' = "up"
    BY <1>1, <1>5 DEF Close, Up
  <2> QED BY <1>1, <1>5, <2>1, CloseKeeps
<1>6. CASE Drop /\ UNCHANGED userVars
  <2>1. connection' = "up"
    BY <1>1, <1>6 DEF Drop, Up
  <2> QED BY <1>1, <1>6, <2>1, DropKeeps
<1>7. CASE CloseConnection("user") /\ UNCHANGED userVars
  <2>1. connection' = "user"
    BY <1>7 DEF CloseConnection
  <2>2. toServer' = <<>> /\ toClient' = <<>> /\ UNCHANGED server
    BY <1>1, <2>1 DEF ClientSends
  <2>3. server' \in Server /\ written' \in Nat /\ signalled' \in Nat
    BY <1>7, <2>2 DEF IInv, TypeInv, userVars
  <2>4. hastyUse' \in BOOLEAN
    BY <1>7, Zenon DEF IInv, TypeInv, Flags, userVars
  <2> QED BY <1>7, <2>1, <2>2, <2>3, <2>4, Closing
<1> QED
  BY <1>2, <1>3, <1>4, <1>5, <1>6, <1>7 DEF UserActs

(* timeout() *)
LEMMA TimeoutKeeps ==
    ASSUME IInv, ClientTimeout
    PROVE  IInv' /\ connection' = "timeout"
<1>1. /\ CloseConnection("timeout")
      /\ UNCHANGED userVars
      /\ ClientSends(toClient)
  BY DEF ClientTimeout, ReplyTimeout
<1>2. connection' = "timeout"
  BY <1>1 DEF CloseConnection
<1>3. toServer' = <<>> /\ toClient' = <<>> /\ UNCHANGED server
  BY <1>1, <1>2 DEF ClientSends
<1>4. server' \in Server /\ written' \in Nat /\ signalled' \in Nat
  BY <1>1, <1>3 DEF IInv, TypeInv, userVars
<1>5. hastyUse' \in BOOLEAN
  BY <1>1, Zenon DEF IInv, TypeInv, Flags, userVars
<1> QED
  BY <1>1, <1>2, <1>3, <1>4, <1>5, Closing
-----------------------------------------------------------------------------
(* A packet of the server. *)
LEMMA ServerPackets ==
    ASSUME NEW type \in PacketTypes, NEW size \in Nat,
           type = "DATA" => size <= MaxPacketSize
    PROVE  /\ Packet(type, size) \in ServerPacket
           /\ Packet(type, size).type = type
           /\ Packet(type, size).size = size
<1> HIDE DEF PacketTypes
<1> QED BY DEF Packet, ServerPacket, ChannelPacket

(* The server sends a packet that answers nothing. *)
LEMMA ServerSpeaks ==
    ASSUME IInv, Up, server.channel = "open",
           server.process \in {"running", "exited"},
           NEW p \in ServerPacket, NEW s \in Server,
           p.type \in Exits \union {"WINDOW_ADJUST", "DATA", "EOF", "CLOSE"},
           ServerSends(<<p>>, s), UNCHANGED toServer,
           s.process \in {"running", "exited"},
           s.channel = IF p.type = "CLOSE" THEN "closing" ELSE "open",
           p.type = "EOF" \/ server.eof => s.eof,
           WindowsAgree'
    PROVE  IInv'
<1>1. TypeInv
  BY DEF IInv
<1>2. /\ toClient' = toClient \o <<p>>
      /\ server' = s
      /\ UNCHANGED <<connection, registered, channelState, remoteChannel,
                     replyTimer, localWindowSize, remoteWindowSize, sendBuffer,
                     procState, wasRunning, killed, emitted, open, dropped,
                     written, signalled, hastyUse, toServer>>
  BY DEF ServerSends, channelVars, windowVars, processVars, userVars
<1>3. /\ toClient' \in Seq(ServerPacket)
      /\ TypesOf(toClient') = TypesOf(toClient) \union {p.type}
      /\ Behind(toClient') = IF toClient = <<>> THEN {}
                             ELSE Behind(toClient) \union {p.type}
      /\ AfterClose(toClient') = AfterClose(toClient)
             \union (IF "CLOSE" \in TypesOf(toClient) THEN {p.type} ELSE {})
  BY <1>1, <1>2, ServerSending
<1>4. /\ "CLOSE" \notin TypesOf(toClient)
      /\ TypesOf(toServer) \intersect Requests = {}
      /\ TypesOf(toClient) \intersect (OpenReplies \union {"FAILURE"}) = {}
      /\ channelState \notin {"Inactive", "SessionRequested"}
      /\ registered => channelState # "Closed"
      /\ ~hastyUse => registered
  BY DEF IInv, Queues, Beginning, Polite
<1>5. /\ p.type \notin Replies
      /\ p.type \notin OpenReplies
      /\ p.type \notin ExecReplies
      /\ p.type # "FAILURE"
  BY DEF Replies, OpenReplies, ExecReplies, Exits
<1>6. TypeInv'
  <2>1. Flags'
    BY <1>1, <1>2, Zenon DEF TypeInv, Flags
  <2> QED
    BY <1>1, <1>2, <1>3, <2>1 DEF TypeInv, Up
<1>7. Signals' /\ Beginning' /\ NoSession'
  BY <1>1, <1>2, <1>4 DEF IInv, Signals, SignalsInOrder, Beginning, NoSession
<1>8. Queues'
  BY <1>2, <1>3, <1>4, <1>5 DEF IInv, Queues
<1>9. ReplyIsTimed'
  <2>1. ReplyPending' <=> ReplyPending
    BY <1>2, <1>3, <1>5, Awaited
  <2> QED BY <1>2, <2>1 DEF IInv, ReplyIsTimed, Destroyed
<1>10. Polite'
  BY <1>2, <1>3, <1>4, <1>5 DEF IInv, Polite, Up
<1> QED
  BY <1>6, <1>7, <1>8, <1>9, <1>10 DEF IInv

(* The server does something on its own. *)
LEMMA ServerActsKeep ==
    ASSUME IInv, ServerActs
    PROVE  IInv' /\ connection' = "up"
<1>1. /\ Up
      /\ server.channel = "open"
      /\ UNCHANGED toServer
      /\ TypeInv
  BY DEF ServerActs, ServerAwake, Up, IInv
<1>2. /\ server \in Server
      /\ server.sendWindow \in Nat
      /\ server.receiveWindow \in Int
      /\ server.received \in Nat
      /\ server.consumed \in Nat
      /\ server.data \in Nat
  BY <1>1 DEF TypeInv, Server
<1>3. ASSUME NEW packets, NEW s, ServerSends(packets, s)
      PROVE  /\ connection' = "up"
             /\ toClient' = toClient \o packets
             /\ server' = s
             /\ UNCHANGED <<registered, localWindowSize, remoteWindowSize>>
  BY <1>1, <1>3 DEF ServerSends, channelVars, windowVars, Up
<1>4. ASSUME NEW p \in ServerPacket
      PROVE  \A T : /\ Size(toClient \o <<p>>, T) =
                           Size(toClient, T)
                              + (IF p.type \in T THEN p.size ELSE 0)
                    /\ Size(toClient, T) \in Nat
  BY <1>1, ServerSending
<1>5. CASE ServerConsumes
  <2> DEFINE size == server.received - server.consumed
             p == Packet("WINDOW_ADJUST", size)
             s == [server EXCEPT !.consumed = server.received,
                                 !.receiveWindow = @ + size]
  <2>1. /\ server.process = "running"
        /\ size \in Nat
        /\ ServerSends(<<p>>, s)
    BY <1>2, <1>5 DEF ServerConsumes
  <2>2. p \in ServerPacket /\ p.type = "WINDOW_ADJUST" /\ p.size = size
    <3> HIDE DEF size
    <3> QED BY <2>1, ServerPackets DEF PacketTypes
  <2>3. s \in Server /\ s.receiveWindow = server.receiveWindow + size
    <3>1. server.receiveWindow + size \in Int
      BY <1>2, <2>1
    <3> HIDE DEF size
    <3> QED BY <1>2, <3>1 DEF Server
  <2>4. /\ s.channel = server.channel
        /\ s.process = server.process
        /\ s.eof = server.eof
        /\ s.sendWindow = server.sendWindow
    BY <1>2 DEF Server
  <2> HIDE DEF size, p, s
  <2>5. WindowsAgree'
    <3>1. Size(toClient \o <<p>>, {"DATA"}) = Size(toClient, {"DATA"})
      <4>1. p.type \notin {"DATA"}
        BY <2>2
      <4> QED BY <1>4, <2>2, <4>1
    <3>2. PICK old \in Nat, new \in Nat :
             /\ old = Size(toClient, {"OPEN_CONFIRMATION", "WINDOW_ADJUST"})
             /\ new = Size(toClient \o <<p>>,
                           {"OPEN_CONFIRMATION", "WINDOW_ADJUST"})
             /\ new = old + size
      BY <1>4, <2>1, <2>2
    <3>3. PICK onItsWay \in Nat : onItsWay = Size(toServer, {"DATA"})
      <4> toServer \in Seq(ChannelPacket)
        <5> ClientPacket \subseteq ChannelPacket
          BY DEF ClientPacket
        <5> QED BY <1>1 DEF TypeInv
      <4> QED BY UnitsFinite
    <3>4. PICK window \in Nat : window = remoteWindowSize
      BY <1>1 DEF TypeInv
    <3>5. \A w \in Int : w = window + onItsWay + old
                           => w + size = window + onItsWay + new
      <4>1. new = old + size
        BY <3>2
      <4> QED BY <2>1, <4>1
    <3>6. /\ toClient' = toClient \o <<p>>
          /\ server' = s
          /\ UNCHANGED <<connection, registered, localWindowSize,
                         remoteWindowSize, toServer>>
      BY <1>1, <1>3, <2>1 DEF Up
    <3>7. ASSUME registered
          PROVE  s.receiveWindow = window + onItsWay + new
      <4>1. server.receiveWindow = window + onItsWay + old
        BY <1>1, <3>2, <3>3, <3>4, <3>7 DEF IInv, WindowsAgree, Up
      <4> QED BY <1>2, <2>3, <3>5, <4>1
    <3>8. ASSUME registered, ~server.eof
          PROVE  localWindowSize = s.sendWindow
                                      + Size(toClient \o <<p>>, {"DATA"})
                                      + Size(toServer, {"WINDOW_ADJUST"})
      BY <1>1, <2>4, <3>1, <3>8 DEF IInv, WindowsAgree, Up
    <3> QED
      BY <2>4, <3>2, <3>3, <3>4, <3>6, <3>7, <3>8 DEF WindowsAgree
  <2> QED
    BY <1>1, <1>3, <2>1, <2>2, <2>3, <2>4, <2>5, ServerSpeaks
<1>6. CASE ServerSendsData
  <2>1. PICK size \in 1 .. MinOf(server.sendWindow, MaxPacketSize) :
           ServerSends(<<Packet("DATA", size)>>,
                       [server EXCEPT !.sendWindow = @ - size,
                                      !.data = @ + size])
    BY <1>6 DEF ServerSendsData
  <2> DEFINE p == Packet("DATA", size)
             s == [server EXCEPT !.sendWindow = @ - size, !.data = @ + size]
  <2>2. /\ size \in Nat
        /\ size <= server.sendWindow
        /\ size <= MaxPacketSize
        /\ server.process = "running"
        /\ ~server.eof
    BY <1>2, <1>6, SizesAssumption DEF MinOf, ServerSendsData
  <2>3. p \in ServerPacket /\ p.type = "DATA" /\ p.size = size
    BY <2>2, ServerPackets DEF PacketTypes, Addressed
  <2>4. s \in Server /\ s.sendWindow = server.sendWindow - size
    <3>1. server.sendWindow - size \in Nat /\ server.data + size \in Nat
      BY <1>2, <2>2
    <3> QED BY <1>2, <3>1 DEF Server
  <2>5. /\ s.channel = server.channel
        /\ s.process = server.process
        /\ s.eof = server.eof
        /\ s.receiveWindow = server.receiveWindow
    BY <1>2 DEF Server
  <2>6. ServerSends(<<p>>, s)
    BY <2>1
  <2> HIDE DEF p, s
  <2>7. WindowsAgree'
    <3>1. Size(toClient \o <<p>>, {"OPEN_CONFIRMATION", "WINDOW_ADJUST"}) =
              Size(toClient, {"OPEN_CONFIRMATION", "WINDOW_ADJUST"})
      <4>1. p.type \notin {"OPEN_CONFIRMATION", "WINDOW_ADJUST"}
        BY <2>3
      <4> QED BY <1>4, <2>3, <4>1
    <3>2. PICK old \in Nat, new \in Nat :
             /\ old = Size(toClient, {"DATA"})
             /\ new = Size(toClient \o <<p>>, {"DATA"})
             /\ new = old + size
      BY <1>4, <2>2, <2>3
    <3>3. PICK granted \in Nat : granted = Size(toServer, {"WINDOW_ADJUST"})
      <4> toServer \in Seq(ChannelPacket)
        <5> ClientPacket \subseteq ChannelPacket
          BY DEF ClientPacket
        <5> QED BY <1>1 DEF TypeInv
      <4> QED BY UnitsFinite
    <3>4. PICK window \in Nat, rest \in Nat :
             /\ window = server.sendWindow
             /\ rest = s.sendWindow
             /\ rest = window - size
      BY <1>2, <2>2, <2>4
    <3>5. window + old + granted = rest + new + granted
      <4>1. new = old + size /\ rest = window - size
        BY <3>2, <3>4
      <4> QED BY <2>2, <4>1
    <3>6. /\ toClient' = toClient \o <<p>>
          /\ server' = s
          /\ UNCHANGED <<connection, registered, localWindowSize,
                         remoteWindowSize, toServer>>
      BY <1>1, <1>3, <2>6 DEF Up
    <3>7. ASSUME registered
          PROVE  localWindowSize = rest + new + granted
      <4>1. localWindowSize = window + old + granted
        BY <1>1, <2>2, <3>2, <3>3, <3>4, <3>7 DEF IInv, WindowsAgree, Up
      <4> QED BY <3>5, <4>1
    <3>8. ASSUME registered
          PROVE  s.receiveWindow =
                    remoteWindowSize + Size(toServer, {"DATA"})
                       + Size(toClient \o <<p>>,
                              {"OPEN_CONFIRMATION", "WINDOW_ADJUST"})
      BY <1>1, <2>5, <3>1, <3>8 DEF IInv, WindowsAgree, Up
    <3> QED
      BY <2>5, <3>2, <3>3, <3>4, <3>6, <3>7, <3>8 DEF WindowsAgree
  <2> QED
    BY <1>1, <1>3, <2>2, <2>3, <2>4, <2>5, <2>6, <2>7, ServerSpeaks
<1>7. ASSUME NEW p \in ServerPacket, NEW s \in Server,
             p.type \in Exits \union {"EOF", "CLOSE"},
             server.process \in {"running", "exited"},
             ServerSends(<<p>>, s),
             s.process \in {"running", "exited"},
             s.channel = IF p.type = "CLOSE" THEN "closing" ELSE "open",
             p.type = "EOF" \/ server.eof => s.eof,
             s.sendWindow = server.sendWindow,
             s.receiveWindow = server.receiveWindow
      PROVE  IInv' /\ connection' = "up"
  <2>1. /\ Size(toClient \o <<p>>, {"DATA"}) = Size(toClient, {"DATA"})
        /\ Size(toClient \o <<p>>, {"OPEN_CONFIRMATION", "WINDOW_ADJUST"}) =
              Size(toClient, {"OPEN_CONFIRMATION", "WINDOW_ADJUST"})
    <3>1. /\ p.type \notin {"DATA"}
          /\ p.type \notin {"OPEN_CONFIRMATION", "WINDOW_ADJUST"}
      BY <1>7 DEF Exits
    <3> QED BY <1>4, <3>1
  <2>2. /\ toClient' = toClient \o <<p>>
        /\ server' = s
        /\ UNCHANGED <<connection, registered, localWindowSize,
                       remoteWindowSize, toServer>>
    BY <1>1, <1>3, <1>7 DEF Up
  <2>3. WindowsAgree'
    BY <1>1, <1>7, <2>1, <2>2 DEF IInv, WindowsAgree, Up
  <2> QED
    BY <1>1, <1>3, <1>7, <2>3, ServerSpeaks
<1>8. CASE ServerSendsEof
  <2> DEFINE p == Packet("EOF", 0)
             s == [server EXCEPT !.eof = TRUE]
  <2>1. p \in ServerPacket /\ p.type = "EOF"
    BY ServerPackets DEF PacketTypes, Addressed
  <2>2. /\ s \in Server
        /\ s.process = server.process
        /\ s.channel = server.channel
        /\ s.eof
        /\ s.sendWindow = server.sendWindow
        /\ s.receiveWindow = server.receiveWindow
    BY <1>2 DEF Server
  <2>3. ServerSends(<<p>>, s) /\ server.process \in {"running", "exited"}
    BY <1>8 DEF ServerSendsEof
  <2> HIDE DEF p, s
  <2> QED BY <1>1, <1>7, <2>1, <2>2, <2>3
<1>9. CASE ProcessExits
  <2>1. PICK type \in Exits :
           ServerSends(<<Packet(type, 0)>>,
                       [server EXCEPT !.process = "exited"])
    BY <1>9 DEF ProcessExits, Exits
  <2> DEFINE p == Packet(type, 0)
             s == [server EXCEPT !.process = "exited"]
  <2>2. p \in ServerPacket /\ p.type = type /\ type \notin {"EOF", "CLOSE"}
    <3> type \in PacketTypes /\ type \notin {"DATA", "EOF", "CLOSE"}
      BY DEF PacketTypes, Exits
    <3> QED BY ServerPackets
  <2>3. /\ s \in Server
        /\ s.process = "exited"
        /\ s.channel = server.channel
        /\ s.eof = server.eof
        /\ s.sendWindow = server.sendWindow
        /\ s.receiveWindow = server.receiveWindow
    BY <1>2 DEF Server
  <2>4. ServerSends(<<p>>, s) /\ server.process \in {"running", "exited"}
    BY <1>9, <2>1 DEF ProcessExits
  <2> HIDE DEF p, s
  <2> QED BY <1>1, <1>7, <2>2, <2>3, <2>4
<1>10. CASE ServerCloses
  <2> DEFINE p == Packet("CLOSE", 0)
             s == [server EXCEPT !.channel = "closing"]
  <2>1. p \in ServerPacket /\ p.type = "CLOSE"
    BY ServerPackets DEF PacketTypes, Addressed
  <2>2. /\ s \in Server
        /\ s.process = server.process
        /\ s.channel = "closing"
        /\ s.eof = server.eof
        /\ s.sendWindow = server.sendWindow
        /\ s.receiveWindow = server.receiveWindow
    BY <1>2 DEF Server
  <2>3. ServerSends(<<p>>, s) /\ server.process \in {"running", "exited"}
    BY <1>10 DEF ServerCloses
  <2> HIDE DEF p, s
  <2> QED BY <1>1, <1>7, <2>1, <2>2, <2>3
<1> QED
  BY <1>5, <1>6, <1>8, <1>9, <1>10 DEF ServerActs
-----------------------------------------------------------------------------
(* The server has read a packet that is no request and no CLOSE. *)
LEMMA ServerTakes ==
    ASSUME IInv, Up, toServer # <<>>, toServer' = Tail(toServer),
           Head(toServer).type \in {"DATA", "WINDOW_ADJUST", "EOF", "SIGNAL"},
           NEW s \in Server, ServerSends(<<>>, s),
           s.channel = server.channel,
           s.process = server.process,
           s.eof = server.eof,
           WindowsAgree'
    PROVE  IInv' /\ connection' = "up"
<1>1. TypeInv
  BY DEF IInv
<1>2. /\ toClient' = toClient
      /\ server' = s
      /\ UNCHANGED <<connection, registered, channelState, remoteChannel,
                     replyTimer, localWindowSize, remoteWindowSize, sendBuffer,
                     procState, wasRunning, killed, emitted, open, dropped,
                     written, signalled, hastyUse>>
  BY <1>1 DEF ServerSends, channelVars, windowVars, processVars, userVars,
     TypeInv
<1>3. /\ toServer' \in Seq(ClientPacket)
      /\ TypesOf(toServer) = {Head(toServer).type} \union TypesOf(toServer')
      /\ TypesOf(toServer') = Behind(toServer)
      /\ Behind(toServer') \subseteq Behind(toServer)
      /\ Unaddressed(toServer') \subseteq Unaddressed(toServer)
      /\ AfterClose(toServer') \subseteq AfterClose(toServer)
  BY <1>1, ServerReading
<1>4. TypeInv'
  <2>1. Flags'
    BY <1>1, <1>2, Zenon DEF TypeInv, Flags
  <2> QED
    BY <1>1, <1>2, <1>3, <2>1 DEF TypeInv, Up
<1>5. Signals' /\ NoSession'
  BY <1>2, <1>3 DEF IInv, Signals, SignalsInOrder, NoSession, Up
<1>6. Beginning'
  BY <1>1, <1>2, <1>3 DEF IInv, Beginning, Up
<1>7. Queues'
  BY <1>2, <1>3 DEF IInv, Queues, Up
<1>8. ReplyIsTimed'
  <2>1. ReplyPending' <=> ReplyPending
    BY <1>2, <1>3, Awaited DEF Requests
  <2> QED BY <1>2, <2>1 DEF IInv, ReplyIsTimed, Destroyed
<1>9. Polite'
  BY <1>2, <1>3 DEF IInv, Polite, Up
<1> QED
  BY <1>2, <1>4, <1>5, <1>6, <1>7, <1>8, <1>9 DEF IInv, Up

(* The server answers the request for a session. *)
LEMMA OpenIsAnswered ==
    ASSUME IInv, Up, toServer # <<>>, toServer' = Tail(toServer),
           Head(toServer).type = "OPEN",
           NEW type \in OpenReplies, NEW size \in Nat, NEW s \in Server,
           ServerSends(<<Packet(type, size)>>, s),
           s.process = server.process,
           IF type = "OPEN_FAILURE" THEN s.channel = "none"
           ELSE /\ s.channel = "open"
                /\ s.sendWindow = MaxPacketSize
                /\ s.receiveWindow = size
    PROVE  IInv' /\ connection' = "up"
<1> DEFINE p == Packet(type, size)
<1>1. TypeInv
  BY DEF IInv
<1>2. /\ "OPEN" \in TypesOf(toServer)
      /\ toServer' \in Seq(ClientPacket)
      /\ TypesOf(toServer) = {Head(toServer).type} \union TypesOf(toServer')
      /\ TypesOf(toServer') = Behind(toServer)
      /\ Behind(toServer') \subseteq Behind(toServer)
      /\ Unaddressed(toServer') \subseteq Unaddressed(toServer)
      /\ AfterClose(toServer') \subseteq AfterClose(toServer)
  BY <1>1, ServerReading
<1>3. /\ toClient = <<>>
      /\ server.process = "none"
      /\ server.channel = "none"
      /\ Behind(toServer) \intersect Requests = {}
  BY <1>2 DEF IInv, Queues, Requests
<1>4. /\ p \in ServerPacket
      /\ p \in ChannelPacket
      /\ p.type = type
      /\ p.size = size
  <2> type \in PacketTypes /\ type # "DATA"
    BY DEF PacketTypes, Replies, OpenReplies
  <2> p \in ServerPacket /\ p.type = type /\ p.size = size
    BY ServerPackets
  <2> QED BY DEF ServerPacket
<1>5. /\ toClient' = <<p>>
      /\ server' = s
      /\ UNCHANGED <<connection, registered, channelState, remoteChannel,
                     replyTimer, localWindowSize, remoteWindowSize, sendBuffer,
                     procState, wasRunning, killed, emitted, open, dropped,
                     written, signalled, hastyUse>>
  BY <1>3 DEF ServerSends, channelVars, windowVars, processVars, userVars
<1> HIDE DEF p
<1>6. /\ toClient' \in Seq(ServerPacket)
      /\ TypesOf(toClient') = {type}
      /\ Behind(toClient') = {}
      /\ AfterClose(toClient') = {}
  BY <1>4, <1>5, OnePacket
<1>7. /\ remoteWindowSize = 0
      /\ localWindowSize = MaxPacketSize
      /\ remoteChannel = "none"
      /\ TypesOf(toServer') \intersect {"EXEC", "DATA", "WINDOW_ADJUST"} = {}
      /\ procState \in {"NotYetStarted", "StartFailed"}
      /\ channelState # "SessionEstablished"
      /\ registered => channelState \notin {"Inactive", "Closed"}
      /\ channelState # "Inactive"
      /\ ~hastyUse => registered /\ channelState = "SessionRequested"
  <2>1. registered => channelState \notin {"Inactive", "Closed"}
    BY DEF IInv, Beginning
  <2> QED BY <1>2, <1>3, <2>1 DEF IInv, NoSession, Beginning, Polite
<1>8. TypeInv'
  <2>1. Flags'
    BY <1>1, <1>5, Zenon DEF TypeInv, Flags
  <2> QED
    BY <1>1, <1>2, <1>5, <1>6, <2>1 DEF TypeInv, Up
<1>9. Signals'
  BY <1>5 DEF IInv, Signals, SignalsInOrder
<1>10. Beginning'
  BY <1>2, <1>3, <1>5, <1>6, <1>7 DEF IInv, Beginning, Up
<1>11. NoSession'
  BY <1>2, <1>3, <1>5, <1>6, <1>7 DEF NoSession, OpenReplies
<1>12. Queues'
  BY <1>2, <1>3, <1>5, <1>6 DEF Queues, Requests, OpenReplies
<1>13. ReplyIsTimed'
  <2>1. ReplyPending /\ ReplyPending'
    BY <1>2, <1>6, Awaited DEF Requests, Replies
  <2> QED BY <1>5, <2>1 DEF IInv, ReplyIsTimed, Destroyed
<1>14. WindowsAgree'
  <2> SUFFICES ASSUME type # "OPEN_FAILURE" PROVE WindowsAgree'
    BY <1>5 DEF WindowsAgree
  <2>1. type = "OPEN_CONFIRMATION"
    BY DEF OpenReplies
  <2>2. /\ Size(toClient', {"DATA"}) = 0
        /\ Size(toClient', {"OPEN_CONFIRMATION", "WINDOW_ADJUST"}) = size
    BY <1>4, <1>5, <2>1, SizeOfOne
  <2>3. /\ Size(toServer', {"DATA"}) = 0
        /\ Size(toServer', {"WINDOW_ADJUST"}) = 0
    <3>1. /\ TypesOf(toServer') \intersect {"DATA"} = {}
          /\ TypesOf(toServer') \intersect {"WINDOW_ADJUST"} = {}
      BY <1>7
    <3> QED BY <3>1, SizeOfNone
  <2>4. /\ localWindowSize' = MaxPacketSize
        /\ remoteWindowSize' = 0
        /\ server'.sendWindow = MaxPacketSize
        /\ server'.receiveWindow = size
    BY <1>5, <1>7
  <2> QED
    BY <2>2, <2>3, <2>4, SizesAssumption DEF WindowsAgree
<1>15. Polite'
  BY <1>1, <1>2, <1>3, <1>5, <1>6, <1>7 DEF IInv, Polite, OpenReplies,
     ExecReplies, Requests, Addressed, Up
<1> QED
  BY <1>5, <1>8, <1>9, <1>10, <1>11, <1>12, <1>13, <1>14, <1>15 DEF IInv, Up

(* The server answers the request to start the process. *)
LEMMA ExecIsAnswered ==
    ASSUME IInv, Up, toServer # <<>>, toServer' = Tail(toServer),
           Head(toServer).type = "EXEC",
           NEW type \in ExecReplies, NEW s \in Server,
           ServerSends(<<Packet(type, 0)>>, s),
           s.process = IF type = "SUCCESS" THEN "running" ELSE server.process,
           s.channel = server.channel,
           s.eof = server.eof,
           s.sendWindow = server.sendWindow,
           s.receiveWindow = server.receiveWindow
    PROVE  IInv' /\ connection' = "up"
<1> DEFINE p == Packet(type, 0)
<1>1. TypeInv
  BY DEF IInv
<1>2. /\ Head(toServer).type \in TypesOf(toServer)
      /\ toServer' \in Seq(ClientPacket)
      /\ TypesOf(toServer) = {Head(toServer).type} \union TypesOf(toServer')
      /\ TypesOf(toServer') = Behind(toServer)
      /\ Behind(toServer') \subseteq Behind(toServer)
      /\ Unaddressed(toServer') \subseteq Unaddressed(toServer)
      /\ AfterClose(toServer') \subseteq AfterClose(toServer)
      /\ \A T : /\ Size(toServer, T) = Size(toServer', T) +
                       (IF Head(toServer).type \in T
                        THEN Head(toServer).size ELSE 0)
                /\ Size(toServer', T) \in Nat
  BY <1>1, ServerReading
<1>3. /\ toClient = <<>>
      /\ server.process = "none"
      /\ server.channel = "open"
      /\ Behind(toServer) \intersect Requests = {}
  BY <1>1, <1>2 DEF IInv, Queues, NoSession, Requests, TypeInv, Server
<1>4. /\ p \in ServerPacket
      /\ p \in ChannelPacket
      /\ p.type = type
      /\ p.size = 0
  <2> type \in PacketTypes /\ type # "DATA"
    BY DEF PacketTypes, Replies, ExecReplies
  <2> p \in ServerPacket /\ p.type = type /\ p.size = 0
    BY ServerPackets
  <2> QED BY DEF ServerPacket
<1>5. /\ toClient' = <<p>>
      /\ server' = s
      /\ UNCHANGED <<connection, registered, channelState, remoteChannel,
                     replyTimer, localWindowSize, remoteWindowSize, sendBuffer,
                     procState, wasRunning, killed, emitted, open, dropped,
                     written, signalled, hastyUse>>
  BY <1>3 DEF ServerSends, channelVars, windowVars, processVars, userVars
<1> HIDE DEF p
<1>6. /\ toClient' \in Seq(ServerPacket)
      /\ TypesOf(toClient') = {type}
      /\ Behind(toClient') = {}
      /\ AfterClose(toClient') = {}
  BY <1>4, <1>5, OnePacket
<1>7. /\ channelState \notin {"Inactive", "SessionRequested"}
      /\ registered => channelState # "Closed"
      /\ ~hastyUse => registered
  BY <1>2 DEF IInv, Beginning, Polite
<1>8. TypeInv'
  <2>1. Flags'
    BY <1>1, <1>5, Zenon DEF TypeInv, Flags
  <2> QED
    BY <1>1, <1>2, <1>5, <1>6, <2>1 DEF TypeInv, Up
<1>9. Signals' /\ Beginning' /\ NoSession'
  BY <1>3, <1>5, <1>7 DEF IInv, Signals, SignalsInOrder, Beginning, NoSession,
     Up
<1>10. Queues'
  BY <1>2, <1>3, <1>5, <1>6 DEF Queues, Requests, OpenReplies, ExecReplies
<1>11. ReplyIsTimed'
  <2>1. ReplyPending /\ ReplyPending'
    BY <1>2, <1>6, Awaited DEF Requests, Replies
  <2> QED BY <1>5, <2>1 DEF IInv, ReplyIsTimed, Destroyed
<1>12. WindowsAgree'
  <2>1. /\ Size(toClient', {"DATA"}) = 0
        /\ Size(toClient', {"OPEN_CONFIRMATION", "WINDOW_ADJUST"}) = 0
        /\ Size(toClient, {"DATA"}) = 0
        /\ Size(toClient, {"OPEN_CONFIRMATION", "WINDOW_ADJUST"}) = 0
    BY <1>3, <1>6, NoPacket, SizeOfNone DEF ExecReplies
  <2>2. /\ Size(toServer', {"DATA"}) = Size(toServer, {"DATA"})
        /\ Size(toServer', {"WINDOW_ADJUST"}) =
               Size(toServer, {"WINDOW_ADJUST"})
    BY <1>2
  <2> QED
    BY <1>3, <1>5, <2>1, <2>2 DEF IInv, WindowsAgree, Up
<1>13. Polite'
  BY <1>2, <1>3, <1>5, <1>6, <1>7 DEF IInv, Polite, OpenReplies, ExecReplies, Up
<1> QED
  BY <1>5, <1>8, <1>9, <1>10, <1>11, <1>12, <1>13 DEF IInv, Up

(* The server reads the CLOSE of the client. *)
LEMMA CloseIsAnswered ==
    ASSUME IInv, Up, toServer # <<>>, toServer' = Tail(toServer),
           Head(toServer).type = "CLOSE", Exists(Head(toServer)),
           ServerSends(IF server.channel = "open" THEN <<Packet("CLOSE", 0)>>
                       ELSE <<>>,
                       [server EXCEPT !.channel = "freed"])
    PROVE  IInv' /\ connection' = "up"
<1> DEFINE p == Packet("CLOSE", 0)
           s == [server EXCEPT !.channel = "freed"]
<1>1. TypeInv /\ server.channel \in {"open", "closing"}
  BY DEF IInv, Exists
<1>2. /\ "CLOSE" \in TypesOf(toServer)
      /\ toServer' \in Seq(ClientPacket)
      /\ TypesOf(toServer) = {Head(toServer).type} \union TypesOf(toServer')
      /\ TypesOf(toServer') = Behind(toServer)
      /\ Behind(toServer') \subseteq Behind(toServer)
      /\ Unaddressed(toServer') \subseteq Unaddressed(toServer)
      /\ AfterClose(toServer') \subseteq AfterClose(toServer)
      /\ Behind(toServer) \subseteq AfterClose(toServer)
  BY <1>1, ServerReading
<1>3. p \in ServerPacket /\ p.type = "CLOSE"
  BY ServerPackets DEF PacketTypes, Addressed
<1>4. /\ s \in Server
      /\ s.channel = "freed"
      /\ s.process = server.process
      /\ s.eof = server.eof
  BY <1>1 DEF TypeInv, Server
<1>5. /\ toClient' =
             toClient \o (IF server.channel = "open" THEN <<p>> ELSE <<>>)
      /\ server' = s
      /\ UNCHANGED <<connection, registered, channelState, remoteChannel,
                     replyTimer, localWindowSize, remoteWindowSize, sendBuffer,
                     procState, wasRunning, killed, emitted, open, dropped,
                     written, signalled, hastyUse>>
  BY DEF ServerSends, channelVars, windowVars, processVars, userVars
<1> HIDE DEF p, s
<1>6. /\ toClient' \in Seq(ServerPacket)
      /\ TypesOf(toClient') \subseteq TypesOf(toClient) \union {"CLOSE"}
      /\ TypesOf(toClient) \subseteq TypesOf(toClient')
      /\ Behind(toClient') \subseteq Behind(toClient) \union {"CLOSE"}
      /\ AfterClose(toClient') = {}
  <2>1. CASE server.channel = "open"
    <3>1. toClient' = toClient \o <<p>>
      BY <1>5, <2>1
    <3>2. /\ toClient \o <<p>> \in Seq(ServerPacket)
          /\ TypesOf(toClient \o <<p>>) = TypesOf(toClient) \union {p.type}
          /\ Behind(toClient \o <<p>>) = IF toClient = <<>> THEN {}
                                         ELSE Behind(toClient) \union {p.type}
          /\ AfterClose(toClient \o <<p>>) = AfterClose(toClient)
                 \union (IF "CLOSE" \in TypesOf(toClient) THEN {p.type} ELSE {})
      BY <1>1, <1>3, ServerSending
    <3>3. AfterClose(toClient) = {} /\ "CLOSE" \notin TypesOf(toClient)
      BY <2>1 DEF IInv, Queues
    <3> QED BY <1>3, <3>1, <3>2, <3>3
  <2>2. CASE server.channel = "closing"
    <3>1. toClient' = toClient
      BY <1>1, <1>5, <2>2 DEF TypeInv
    <3> QED BY <1>1, <3>1 DEF IInv, Queues, TypeInv
  <2> QED BY <1>1, <2>1, <2>2
<1>7. /\ channelState \notin {"Inactive", "SessionRequested"}
      /\ registered => channelState # "Closed"
      /\ Behind(toServer) \intersect Requests = {}
      /\ Behind(toClient) \intersect Replies = {}
  BY <1>1, <1>2 DEF IInv, Beginning, Queues
<1>8. TypeInv'
  <2>1. Flags'
    BY <1>1, <1>5, Zenon DEF TypeInv, Flags
  <2> QED
    BY <1>1, <1>2, <1>4, <1>5, <1>6, <2>1 DEF TypeInv, Up
<1>9. Signals' /\ Beginning' /\ NoSession' /\ WindowsAgree'
  BY <1>1, <1>4, <1>5, <1>7 DEF IInv, Signals, SignalsInOrder, Beginning,
     NoSession, WindowsAgree
<1>10. Queues'
  <2>1. "CLOSE" \notin Replies /\ "CLOSE" \notin OpenReplies \union {"FAILURE"}
    BY DEF Replies, OpenReplies, ExecReplies
  <2>2. TypesOf(toServer') \intersect Requests = {}
    BY <1>2, <1>7
  <2> QED
    BY <1>2, <1>4, <1>5, <1>6, <1>7, <2>1, <2>2 DEF IInv, Queues, Up, Requests
<1>11. ReplyIsTimed'
  <2>1. ReplyPending' <=> ReplyPending
    BY <1>2, <1>6, Awaited DEF Requests, Replies, OpenReplies, ExecReplies
  <2> QED BY <1>5, <2>1 DEF IInv, ReplyIsTimed, Destroyed
<1>12. Polite'
  <2> SUFFICES ASSUME ~hastyUse' PROVE Polite'
    BY DEF Polite
  <2>1. /\ channelState \in {"CloseRequested", "Closed"}
        /\ TypesOf(toServer') \intersect Addressed = {}
    BY <1>2, <1>5 DEF IInv, Polite
  <2>2. "CLOSE" \notin OpenReplies /\ "CLOSE" \notin ExecReplies
    BY DEF OpenReplies, ExecReplies
  <2> QED
    BY <1>1, <1>2, <1>4, <1>5, <1>6, <2>1, <2>2 DEF IInv, Polite, Up
<1> QED
  BY <1>5, <1>8, <1>9, <1>10, <1>11, <1>12 DEF IInv, Up

(* A packet the client sent while it should not have. *)
LEMMA DisconnectIsDeserved ==
    ASSUME IInv, Up, toServer # <<>>,
           Head(toServer).type \in Addressed, ~Exists(Head(toServer))
    PROVE  hastyUse
<1> SUFFICES ASSUME ~hastyUse PROVE FALSE
  OBVIOUS
<1>1. TypeInv
  BY DEF IInv
<1>2. /\ Head(toServer) \in ClientPacket
      /\ Head(toServer).type \in TypesOf(toServer)
      /\ Head(toServer).channel = "none" =>
            Head(toServer).type \in Unaddressed(toServer)
  BY <1>1, ServerReading
<1>3. Head(toServer).channel = "remote"
  <2>1. Head(toServer).channel # "none"
    BY <1>2 DEF IInv, Polite
  <2> HIDE DEF PacketTypes
  <2> QED BY <1>2, <2>1 DEF ClientPacket, ChannelPacket
<1>4. server.channel \in {"none", "freed"}
  <2>1. server.channel \in {"none", "open", "closing", "freed"}
    BY <1>1 DEF TypeInv, Server
  <2> QED BY <1>3, <2>1 DEF Exists
<1> QED BY <1>2, <1>4 DEF IInv, Polite

(* The server reads a packet, and accuses the client only of what a hasty  *)
(* user made it do.                                                        *)
LEMMA ServerReadsKeeps ==
    ASSUME IInv, ServerReads
    PROVE  /\ IInv'
           /\ connection' = "up" \/ (connection' = "accused" /\ hastyUse')
<1> DEFINE p == Head(toServer)
<1>1. /\ Up
      /\ toServer # <<>>
      /\ ServerAnswers(p)
      /\ toServer' = IF connection' = "up" THEN Tail(toServer) ELSE <<>>
      /\ TypeInv
  BY DEF ServerReads, ServerAwake, Up, IInv
<1>2. /\ server \in Server
      /\ server.sendWindow \in Nat
      /\ server.receiveWindow \in Int
      /\ server.received \in Nat
  BY <1>1 DEF TypeInv, Server
<1>3. ASSUME NEW packets, NEW s, ServerSends(packets, s)
      PROVE  /\ toServer' = Tail(toServer)
             /\ server' = s
             /\ UNCHANGED <<connection, registered, localWindowSize,
                            remoteWindowSize>>
  BY <1>1, <1>3 DEF ServerSends, channelVars, windowVars, Up
<1>4. ASSUME NEW s, ServerSends(<<>>, s) PROVE toClient' = toClient
  BY <1>1, <1>4 DEF ServerSends, TypeInv
<1>5. /\ p \in ClientPacket
      /\ p.type \in TypesOf(toServer)
      /\ p.size \in Nat
      /\ p.type = "OPEN" => p.size = MaxPacketSize
      /\ \A T : /\ Size(toServer, T) = Size(Tail(toServer), T) +
                       (IF p.type \in T THEN p.size ELSE 0)
                /\ Size(Tail(toServer), T) \in Nat
  BY <1>1, ServerReading DEF ClientPacket, ChannelPacket
<1> HIDE DEF p
<1>6. CASE p.type = "OPEN"
  <2>1. CASE ServerSends(<<Packet("OPEN_CONFIRMATION", RemoteWindowSize)>>,
                         [server EXCEPT !.channel = "open",
                                        !.sendWindow = p.size,
                                        !.receiveWindow = RemoteWindowSize])
    <3> DEFINE s == [server EXCEPT !.channel = "open",
                                   !.sendWindow = p.size,
                                   !.receiveWindow = RemoteWindowSize]
    <3>1. RemoteWindowSize \in Nat
      BY BoundsAssumption
    <3>2. /\ s \in Server
          /\ s.process = server.process
          /\ s.channel = "open"
          /\ s.sendWindow = MaxPacketSize
          /\ s.receiveWindow = RemoteWindowSize
      <4> DEFINE a == [server EXCEPT !.channel = "open"]
                 b == [a EXCEPT !.sendWindow = p.size]
                 c == [b EXCEPT !.receiveWindow = RemoteWindowSize]
      <4>1. /\ a \in Server
            /\ a.process = server.process
            /\ a.channel = "open"
        BY <1>2 DEF Server
      <4> HIDE DEF a
      <4>2. /\ b \in Server
            /\ b.process = server.process
            /\ b.channel = "open"
            /\ b.sendWindow = MaxPacketSize
        BY <1>5, <1>6, <4>1 DEF Server
      <4> HIDE DEF b
      <4>3. /\ c \in Server
            /\ c.process = server.process
            /\ c.channel = "open"
            /\ c.sendWindow = MaxPacketSize
            /\ c.receiveWindow = RemoteWindowSize
        BY <3>1, <4>2 DEF Server
      <4>4. s = c
        BY <1>2 DEF Server, a, b
      <4> QED BY <4>3, <4>4
    <3>3. "OPEN_CONFIRMATION" \in OpenReplies
      BY DEF OpenReplies
    <3>4. ServerSends(<<Packet("OPEN_CONFIRMATION", RemoteWindowSize)>>, s)
      BY <2>1
    <3> HIDE DEF s
    <3>5. toServer' = Tail(toServer)
      BY <1>3, <3>4
    <3> QED
      BY <1>1, <1>6, <3>1, <3>2, <3>3, <3>4, <3>5, OpenIsAnswered DEF p
  <2>2. CASE ServerSends(<<Packet("OPEN_FAILURE", 0)>>, server)
    <3>1. server.channel = "none"
      BY <1>1, <1>5, <1>6 DEF IInv, Queues
    <3>2. "OPEN_FAILURE" \in OpenReplies /\ 0 \in Nat
      BY DEF OpenReplies
    <3>3. toServer' = Tail(toServer)
      BY <1>3, <2>2
    <3> QED
      BY <1>1, <1>2, <1>6, <2>2, <3>1, <3>2, <3>3, OpenIsAnswered DEF p
  <2> QED
    BY <1>1, <1>6, <2>1, <2>2 DEF ServerAnswers
<1>7. CASE p.type = "EXEC"
  <2>1. CASE ServerSends(<<Packet("SUCCESS", 0)>>,
                         [server EXCEPT !.process = "running"])
    <3> DEFINE s == [server EXCEPT !.process = "running"]
    <3>1. /\ s \in Server
          /\ s.process = "running"
          /\ s.channel = server.channel
          /\ s.eof = server.eof
          /\ s.sendWindow = server.sendWindow
          /\ s.receiveWindow = server.receiveWindow
      BY <1>2 DEF Server
    <3>2. "SUCCESS" \in ExecReplies
      BY DEF ExecReplies
    <3>3. ServerSends(<<Packet("SUCCESS", 0)>>, s)
      BY <2>1
    <3> HIDE DEF s
    <3>4. toServer' = Tail(toServer)
      BY <1>3, <3>3
    <3> QED
      BY <1>1, <1>7, <3>1, <3>2, <3>3, <3>4, ExecIsAnswered DEF p
  <2>2. CASE ServerSends(<<Packet("FAILURE", 0)>>, server)
    <3>1. "FAILURE" \in ExecReplies
      BY DEF ExecReplies
    <3>2. toServer' = Tail(toServer)
      BY <1>3, <2>2
    <3> QED
      BY <1>1, <1>2, <1>7, <2>2, <3>1, <3>2, ExecIsAnswered DEF p
  <2> QED
    BY <1>1, <1>7, <2>1, <2>2 DEF ServerAnswers
<1>8. ASSUME p.type = "DATA",
             ServerSends(<<>>, [server EXCEPT !.receiveWindow = @ - p.size,
                                              !.received = @ + p.size])
      PROVE  IInv' /\ connection' = "up"
  <2> DEFINE s == [server EXCEPT !.receiveWindow = @ - p.size,
                                 !.received = @ + p.size]
  <2>1. s \in Server /\ s.receiveWindow = server.receiveWindow - p.size
    <3>1. /\ server.receiveWindow - p.size \in Int
          /\ server.received + p.size \in Nat
      BY <1>2, <1>5
    <3> QED BY <1>2, <3>1 DEF Server
  <2>2. /\ s.channel = server.channel
        /\ s.process = server.process
        /\ s.eof = server.eof
        /\ s.sendWindow = server.sendWindow
    BY <1>2 DEF Server
  <2>3. ServerSends(<<>>, s)
    BY <1>8
  <2> HIDE DEF s
  <2>4. /\ toServer' = Tail(toServer)
        /\ toClient' = toClient
        /\ server' = s
        /\ UNCHANGED <<connection, registered, localWindowSize,
                       remoteWindowSize>>
    BY <1>3, <1>4, <2>3
  <2>5. WindowsAgree'
    <3>1. Size(Tail(toServer), {"WINDOW_ADJUST"}) =
              Size(toServer, {"WINDOW_ADJUST"})
      <4>1. p.type \notin {"WINDOW_ADJUST"}
        BY <1>8
      <4> QED BY <1>5, <4>1
    <3>2. PICK old \in Nat, new \in Nat :
             /\ old = Size(toServer, {"DATA"})
             /\ new = Size(Tail(toServer), {"DATA"})
             /\ old = new + p.size
      BY <1>5, <1>8
    <3>3. PICK window \in Nat, acks \in Nat :
             /\ window = remoteWindowSize
             /\ acks = Size(toClient, {"OPEN_CONFIRMATION", "WINDOW_ADJUST"})
      <4>1. toClient \in Seq(ChannelPacket)
        <5> ServerPacket \subseteq ChannelPacket
          BY DEF ServerPacket
        <5> QED BY <1>1 DEF TypeInv
      <4> QED BY <1>1, <4>1, UnitsFinite DEF TypeInv
    <3>4. \A w \in Int : w = window + old + acks
                           => w - p.size = window + new + acks
      <4>1. old = new + p.size
        BY <3>2
      <4> QED BY <1>5, <4>1
    <3>5. ASSUME registered, server.channel = "open"
          PROVE  s.receiveWindow = window + new + acks
      <4>1. server.receiveWindow = window + old + acks
        BY <1>1, <3>2, <3>3, <3>5 DEF IInv, WindowsAgree, Up
      <4> QED BY <1>2, <2>1, <3>4, <4>1
    <3>6. ASSUME registered, server.channel = "open", ~server.eof
          PROVE  localWindowSize = s.sendWindow
                                      + Size(toClient, {"DATA"})
                                      + Size(Tail(toServer), {"WINDOW_ADJUST"})
      BY <1>1, <2>2, <3>1, <3>6 DEF IInv, WindowsAgree, Up
    <3> QED
      BY <2>2, <2>4, <3>2, <3>3, <3>5, <3>6 DEF WindowsAgree
  <2> QED
    BY <1>1, <1>8, <2>1, <2>2, <2>3, <2>4, <2>5, ServerTakes DEF p
<1>9. CASE p.type = "WINDOW_ADJUST"
  <2> DEFINE s == [server EXCEPT !.sendWindow = @ + p.size]
  <2>1. s \in Server /\ s.sendWindow = server.sendWindow + p.size
    <3>1. server.sendWindow + p.size \in Nat
      BY <1>2, <1>5
    <3> QED BY <1>2, <3>1 DEF Server
  <2>2. /\ s.channel = server.channel
        /\ s.process = server.process
        /\ s.eof = server.eof
        /\ s.receiveWindow = server.receiveWindow
    BY <1>2 DEF Server
  <2>3. ServerSends(<<>>, s)
    BY <1>1, <1>9 DEF ServerAnswers
  <2> HIDE DEF s
  <2>4. /\ toServer' = Tail(toServer)
        /\ toClient' = toClient
        /\ server' = s
        /\ UNCHANGED <<connection, registered, localWindowSize,
                       remoteWindowSize>>
    BY <1>3, <1>4, <2>3
  <2>5. WindowsAgree'
    <3>1. Size(Tail(toServer), {"DATA"}) = Size(toServer, {"DATA"})
      <4>1. p.type \notin {"DATA"}
        BY <1>9
      <4> QED BY <1>5, <4>1
    <3>2. PICK old \in Nat, new \in Nat :
             /\ old = Size(toServer, {"WINDOW_ADJUST"})
             /\ new = Size(Tail(toServer), {"WINDOW_ADJUST"})
             /\ old = new + p.size
      BY <1>5, <1>9
    <3>3. PICK window \in Nat, next \in Nat, data \in Nat :
             /\ window = server.sendWindow
             /\ next = s.sendWindow
             /\ next = window + p.size
             /\ data = Size(toClient, {"DATA"})
      <4>1. toClient \in Seq(ChannelPacket)
        <5> ServerPacket \subseteq ChannelPacket
          BY DEF ServerPacket
        <5> QED BY <1>1 DEF TypeInv
      <4>2. Size(toClient, {"DATA"}) \in Nat
        BY <4>1, UnitsFinite
      <4> QED BY <1>2, <1>5, <2>1, <4>2
    <3>4. window + data + old = next + data + new
      <4>1. old = new + p.size /\ next = window + p.size
        BY <3>2, <3>3
      <4> QED BY <1>5, <4>1
    <3>5. ASSUME registered, server.channel = "open", ~server.eof
          PROVE  localWindowSize = next + data + new
      <4>1. localWindowSize = window + data + old
        BY <1>1, <3>2, <3>3, <3>5 DEF IInv, WindowsAgree, Up
      <4> QED BY <3>4, <4>1
    <3>6. ASSUME registered, server.channel = "open"
          PROVE  s.receiveWindow =
                    remoteWindowSize + Size(Tail(toServer), {"DATA"})
                      + Size(toClient, {"OPEN_CONFIRMATION", "WINDOW_ADJUST"})
      BY <1>1, <2>2, <3>1, <3>6 DEF IInv, WindowsAgree, Up
    <3> QED
      BY <2>2, <2>4, <3>2, <3>3, <3>5, <3>6 DEF WindowsAgree
  <2> QED
    BY <1>1, <1>9, <2>1, <2>2, <2>3, <2>4, <2>5, ServerTakes DEF p
<1>10. ASSUME p.type \in {"EOF", "SIGNAL"}, ServerSends(<<>>, server)
       PROVE  IInv' /\ connection' = "up"
  <2>1. /\ toServer' = Tail(toServer)
        /\ toClient' = toClient
        /\ server' = server
        /\ UNCHANGED <<connection, registered, localWindowSize,
                       remoteWindowSize>>
    BY <1>3, <1>4, <1>10
  <2>2. /\ Size(toServer', {"DATA"}) = Size(toServer, {"DATA"})
        /\ Size(toServer', {"WINDOW_ADJUST"}) =
               Size(toServer, {"WINDOW_ADJUST"})
    <3>1. p.type \notin {"DATA"} /\ p.type \notin {"WINDOW_ADJUST"}
      BY <1>10
    <3> QED BY <1>5, <2>1, <3>1
  <2>3. WindowsAgree'
    BY <2>1, <2>2 DEF IInv, WindowsAgree
  <2> QED
    BY <1>1, <1>2, <1>10, <2>1, <2>3, ServerTakes DEF p
<1>11. ASSUME p.type = "CLOSE", Exists(p),
              ServerSends(IF server.channel = "open" THEN <<Packet("CLOSE", 0)>>
                          ELSE <<>>,
                          [server EXCEPT !.channel = "freed"])
       PROVE  IInv' /\ connection' = "up"
  <2>1. toServer' = Tail(toServer)
    BY <1>3, <1>11
  <2> QED
    BY <1>1, <1>11, <2>1, CloseIsAnswered DEF p
<1>12. ASSUME p.type \in Addressed, ~Exists(p), ServerDisconnects
       PROVE  IInv' /\ connection' = "accused" /\ hastyUse'
  <2>1. /\ CloseConnection("accused")
        /\ connection' = "accused"
        /\ toClient' = <<>>
        /\ UNCHANGED <<server, written, signalled, hastyUse>>
    BY <1>12 DEF ServerDisconnects, CloseConnection, userVars
  <2>2. toServer' = <<>>
    BY <1>1, <2>1
  <2>3. server' \in Server /\ written' \in Nat /\ signalled' \in Nat
    BY <1>1, <2>1 DEF TypeInv
  <2>4. hastyUse' \in BOOLEAN
    BY <1>1, <2>1, Zenon DEF TypeInv, Flags
  <2>5. IInv'
    BY <2>1, <2>2, <2>3, <2>4, Closing
  <2>6. hastyUse
    BY <1>1, <1>12, DisconnectIsDeserved DEF p
  <2> QED BY <2>1, <2>5, <2>6
<1>13. \/ p.type = "OPEN"
       \/ p.type = "EXEC"
       \/ p.type = "WINDOW_ADJUST"
       \/ /\ p.type = "DATA"
          /\ ServerSends(<<>>, [server EXCEPT !.receiveWindow = @ - p.size,
                                              !.received = @ + p.size])
       \/ p.type \in {"EOF", "SIGNAL"} /\ ServerSends(<<>>, server)
       \/ /\ p.type = "CLOSE"
          /\ Exists(p)
          /\ ServerSends(IF server.channel = "open" THEN <<Packet("CLOSE", 0)>>
                         ELSE <<>>,
                         [server EXCEPT !.channel = "freed"])
       \/ p.type \in Addressed /\ ~Exists(p) /\ ServerDisconnects
  BY <1>1, Zenon DEF ServerAnswers, Addressed
<1> QED
  BY <1>6, <1>7, <1>8, <1>9, <1>10, <1>11, <1>12, <1>13, Zenon

(* The server falls silent. *)
LEMMA SilenceKeeps ==
    ASSUME IInv, ServerFallsSilent
    PROVE  IInv' /\ connection' = "up"
<1>1. TypeInv /\ Up
  BY DEF IInv, ServerFallsSilent, ServerAwake, Up
<1>2. /\ server' = [server EXCEPT !.silent = TRUE]
      /\ UNCHANGED <<connection, registered, channelState, remoteChannel,
                     replyTimer, localWindowSize, remoteWindowSize, sendBuffer,
                     procState, wasRunning, killed, emitted, open, dropped,
                     written, signalled, hastyUse, toServer, toClient>>
  BY DEF ServerFallsSilent, channelVars, windowVars, processVars, userVars
<1>3. /\ server' \in Server
      /\ server'.channel = server.channel
      /\ server'.process = server.process
      /\ server'.eof = server.eof
      /\ server'.sendWindow = server.sendWindow
      /\ server'.receiveWindow = server.receiveWindow
  BY <1>1, <1>2 DEF TypeInv, Server
<1>4. TypeInv'
  <2>1. Flags'
    BY <1>1, <1>2, Zenon DEF TypeInv, Flags
  <2> QED BY <1>1, <1>2, <1>3, <2>1 DEF TypeInv, Up
<1>5. Signals' /\ Beginning' /\ NoSession' /\ Queues'
  BY <1>2, <1>3 DEF IInv, Signals, SignalsInOrder, Beginning, NoSession,
     Queues, Up
<1>6. ReplyIsTimed'
  <2>1. ReplyPending' <=> ReplyPending
    BY <1>2, Awaited
  <2> QED BY <1>2, <2>1 DEF IInv, ReplyIsTimed, Destroyed
<1>7. WindowsAgree' /\ Polite'
  BY <1>2, <1>3 DEF IInv, WindowsAgree, Polite, Up
<1> QED
  BY <1>1, <1>2, <1>4, <1>5, <1>6, <1>7 DEF IInv, Up

(* Nothing happens. *)
LEMMA StutterKeeps ==
    ASSUME IInv, UNCHANGED sessionVars
    PROVE  IInv'
<1>1. UNCHANGED <<connection, registered, channelState, remoteChannel,
                  replyTimer, localWindowSize, remoteWindowSize, sendBuffer,
                  procState, wasRunning, killed, emitted, open, dropped,
                  written, signalled, hastyUse, toServer, toClient, server>>
  BY DEF sessionVars, channelVars, windowVars, processVars, userVars
<1>2. TypeInv'
  <2>1. Flags'
    BY <1>1, Zenon DEF IInv, TypeInv, Flags
  <2> QED BY <1>1, <2>1 DEF IInv, TypeInv, Up
<1>3. Signals' /\ Beginning' /\ NoSession' /\ Queues'
  BY <1>1 DEF IInv, Signals, SignalsInOrder, Beginning, NoSession, Queues, Up
<1>4. ReplyIsTimed'
  <2>1. ReplyPending' <=> ReplyPending
    BY <1>1, Awaited
  <2> QED BY <1>1, <2>1 DEF IInv, ReplyIsTimed, Destroyed
<1>5. WindowsAgree' /\ Polite'
  BY <1>1 DEF IInv, WindowsAgree, Polite, Up
<1> QED
  BY <1>2, <1>3, <1>4, <1>5 DEF IInv
-----------------------------------------------------------------------------
(* The inductive invariant holds in every state: the types, which packets  *)
(* may be on their way together, and which state of the channel and of the *)
(* process goes with them.                                                 *)
THEOREM Invariance == SessionSpec => []IInv
<1>1. ASSUME IInv, [SessionNext]_sessionVars PROVE IInv'
  BY <1>1, UserActsKeep, TimeoutKeeps, ClientReadsKeeps, ServerReadsKeeps,
     ServerActsKeep, SilenceKeeps, StutterKeeps DEF SessionNext
<1> QED
  BY <1>1, StartsWell, PTL DEF SessionSpec

(* What setProcState() and closeHook() emit is in order: started() and     *)
(* closed() at most once, a failure to start instead of started(), and     *)
(* closed() only after started().                                          *)
THEOREM SignalOrder == SessionSpec => []SignalsInOrder
<1>1. IInv => SignalsInOrder
  BY DEF IInv, Signals
<1> QED
  BY <1>1, Invariance, PTL

(* m_timeoutTimer runs only while a request is without its answer, and it  *)
(* runs then unless the user has closed the process: handleTimeout() never *)
(* closes a connection whose server has answered.                          *)
THEOREM RepliesAreTimed == SessionSpec => []ReplyIsTimed
<1>1. IInv => ReplyIsTimed
  BY DEF IInv
<1> QED
  BY <1>1, Invariance, PTL

(* m_localWindowSize and m_remoteWindowSize are what the server takes them *)
(* for, up to what is on its way, for windows and packets of any size.     *)
THEOREM WindowsStayInStep == SessionSpec => []WindowsAgree
<1>1. IInv => WindowsAgree
  BY DEF IInv
<1> QED
  BY <1>1, Invariance, PTL

(* handleOpenSuccess(), handleChannelSuccess(), handleWindowAdjust() and   *)
(* the others throw no SshServerException, and the server has no reason to *)
(* disconnect, unless the user was hasty or handleExitSignal() met a       *)
(* signal it has no name for.                                              *)
THEOREM NoAccusation == SessionSpec => NobodyIsAccused
<1>1. ASSUME IInv, SessionNext
      PROVE  /\ connection' = "protocol error" =>
                    hastyUse \/ Head(toClient).type = "EXIT_SIGNAL_OTHER"
             /\ connection' = "accused" => hastyUse'
  <2>1. CASE UserActs
    <3>1. connection' \in {"up", "user"}
      BY <1>1, <2>1, UserActsKeep
    <3> QED BY <3>1
  <2>2. CASE ClientTimeout
    <3>1. connection' = "timeout"
      BY <1>1, <2>2, TimeoutKeeps
    <3> QED BY <3>1
  <2>3. CASE ClientReads
    <3>1. \/ connection' = "up"
          \/ /\ connection' = "protocol error"
             /\ hastyUse \/ Head(toClient).type = "EXIT_SIGNAL_OTHER"
      BY <1>1, <2>3, ClientReadsKeeps
    <3> QED BY <3>1
  <2>4. CASE ServerReads
    <3>1. connection' = "up" \/ (connection' = "accused" /\ hastyUse')
      BY <1>1, <2>4, ServerReadsKeeps
    <3> QED BY <3>1
  <2>5. CASE ServerActs
    <3>1. connection' = "up"
      BY <1>1, <2>5, ServerActsKeep
    <3> QED BY <3>1
  <2>6. CASE ServerFallsSilent
    <3>1. connection' = "up"
      BY <1>1, <2>6, SilenceKeeps
    <3> QED BY <3>1
  <2> QED
    BY <1>1, <2>1, <2>2, <2>3, <2>4, <2>5, <2>6 DEF SessionNext
<1> QED
  BY <1>1, Invariance, PTL DEF SessionSpec, NobodyIsAccused
===============================================================================
