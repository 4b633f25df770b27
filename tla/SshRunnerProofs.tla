--------------------------- MODULE SshRunnerProofs ---------------------------
(***************************************************************************)
(* Proofs, for any number of runners and connections, of what the run      *)
(* ssh_runner checks for two runners.                                      *)
(***************************************************************************)
EXTENDS SshRemoteProcessRunner, SequenceLemmas

ConnectionSignals == {"connected", "error", "disconnected"}

ProcessSignals == {"started", "failedToStart", "closed"}

Event == (ConnectionSignals \X Connections) \union (ProcessSignals \X Runners)

Holders(c) == {r \in Runners : connection[r] = c}

LinkTypes ==
    /\ link \in [Connections -> {"none", "Unconnected", "Connecting", "Connected"}]
    /\ events \in Seq(Event)

PoolTypes ==
    /\ acquired \in Seq(Connections)
    /\ unacquired \in Seq(Connections)
    /\ deprecated \subseteq Connections

RunnerTypes ==
    /\ state \in [Runners -> {"Inactive", "Connecting", "Connected", "ProcessRunning"}]
    /\ connection \in [Runners -> Connections \union {NoConnection}]
    /\ \A r \in Runners : state[r] = "Inactive" <=> connection[r] = NoConnection

(* Only one connection is cached, and nobody uses it. *)
OneCached ==
    /\ Len(unacquired) <= 1
    /\ \A i \in 1..Len(unacquired) : \A j \in 1..Len(acquired) :
            unacquired[i] # acquired[j]

(* A connection is acquired as often as runners hold it. *)
HeldIsAcquired ==
    \A c \in Connections :
        Cardinality(Holders(c)) = Cardinality(Places(acquired, {c}))

(* There are the connections that somebody refers to, and no others. *)
AliveExist == \A c \in Connections : c \in Alive <=> link[c] # "none"

(* A signal is heard by those who hold its sender; nobody's process runs   *)
(* any more when the connection says that it is gone.                      *)
Listeners ==
    /\ telling \in [signal : ConnectionSignals \union {"none"},
                    sender : Connections \union {NoConnection},
                    to : SUBSET Runners, inSlot : BOOLEAN]
    /\ telling.to = {} => telling = Nothing
    /\ \A r \in telling.to :
          /\ telling.sender \in Connections
          /\ connection[r] = telling.sender
          /\ telling.signal = "disconnected" => state[r] # "ProcessRunning"

(* What a connection posts when it is lost comes in one piece.             *)
Pieces(posted) ==
    \A i \in 1..Len(posted), c \in Connections :
        i # 1 /\ posted[i] = <<"disconnected", c>>
            => posted[i-1] = <<"error", c>>

InOnePiece == Pieces(events)

(* Between the two, those with a running process hear the error. *)
GoneIsNext(posted, c) == posted # <<>> /\ posted[1] = <<"disconnected", c>>

ErrorIsHeard ==
    \A c \in Connections :
        GoneIsNext(events, c)
            => \A r \in Runners :
                  connection[r] = c /\ state[r] = "ProcessRunning"
                    => telling.signal = "error" /\ r \in telling.to

IInv ==
    /\ LinkTypes /\ PoolTypes /\ RunnerTypes
    /\ OneCached /\ HeldIsAcquired /\ AliveExist
    /\ Listeners /\ InOnePiece /\ ErrorIsHeard
-----------------------------------------------------------------------------

(* A set of numbers that has one has a least one: T, the numbers that no   *)
(* member is below, would else be Nat.                                     *)
LEMMA LeastNumber ==
    ASSUME NEW I \in SUBSET Nat, I # {}
    PROVE  Min(I) \in I
<1> SUFFICES \E x \in I : \A y \in I : x <= y
  BY DEF Min
<1> SUFFICES ASSUME \A x \in I : \E y \in I : y < x
             PROVE  FALSE
  OBVIOUS
<1> DEFINE T == {n \in Nat : \A y \in I : n < y}
<1>1. 0 \in T
  OBVIOUS
<1>2. \A n \in T : n + 1 \in T
  <2> SUFFICES ASSUME NEW n \in Nat, \A y \in I : n < y, NEW z \in I
               PROVE  n + 1 < z
    OBVIOUS
  <2>1. PICK y \in I : y < z
    OBVIOUS
  <2> QED BY <2>1
<1>3. T = Nat
  <2> T \in SUBSET Nat OBVIOUS
  <2> HIDE DEF T
  <2> QED BY <1>1, <1>2, NatSets
<1>4. PICK x : x \in I
  OBVIOUS
<1> QED BY <1>3, <1>4

Splits(s, e, a, b) == s = a \o (<<e>> \o b) /\ RemoveFirst(s, e) = a \o b

(* RemoveFirst takes one element out of a sequence that has it. *)
LEMMA RemoveFirstSplits ==
    ASSUME NEW S, NEW s \in Seq(S), NEW e, \E i \in 1..Len(s) : s[i] = e
    PROVE  \E a, b \in Seq(S) : Splits(s, e, a, b)
<1> DEFINE I == {i \in 1..Len(s) : s[i] = e}
           k == Min(I)
           a == SubSeq(s, 1, k - 1)
           b == SubSeq(s, k + 1, Len(s))
<1>1. RemoveFirst(s, e) = a \o b
  BY DEF RemoveFirst, RemoveAt, SelectInSeq
<1>2. k \in 1..Len(s) /\ s[k] = e
  <2> I \in SUBSET Nat /\ I # {}
    OBVIOUS
  <2>1. k \in I
    <3> HIDE DEF I
    <3> QED BY LeastNumber
  <2> QED BY <2>1
<1> HIDE DEF I, k
<1>3. /\ a \in Seq(S) /\ Len(a) = k - 1
      /\ \A i \in 1..(k-1) : a[i] = s[i]
  BY <1>2
<1>4. /\ b \in Seq(S) /\ Len(b) = Len(s) - k
      /\ \A i \in 1..(Len(s)-k) : b[i] = s[i+k]
  BY <1>2
<1> HIDE DEF a, b
<1>5. e \in S
  BY <1>2
<1> DEFINE c == <<e>> \o b
           t == a \o c
<1>c. /\ c \in Seq(S) /\ Len(c) = Len(s) - k + 1
      /\ c[1] = e
      /\ \A i \in 1..(Len(s)-k) : c[i+1] = s[i+k]
  <2>1. c \in Seq(S) /\ Len(c) = Len(s) - k + 1 /\ c[1] = e
    <3>1. <<e>> \in Seq(S) /\ Len(<<e>>) = 1 /\ <<e>>[1] = e
      BY <1>5
    <3>2. Len(c) = 1 + Len(b) /\ c \in Seq(S)
      BY <3>1, <1>4
    <3>3. Len(c) = Len(s) - k + 1
      BY <3>2, <1>2, <1>4
    <3>4. c[1] = e
      BY <3>1, <1>4
    <3> QED BY <3>2, <3>3, <3>4
  <2>2. ASSUME NEW i \in 1..(Len(s)-k)
        PROVE  c[i+1] = s[i+k]
    BY <1>2, <1>4
  <2> QED BY <2>1, <2>2
<1> HIDE DEF c
<1>6. t \in Seq(S) /\ Len(t) = Len(s)
  BY <1>2, <1>3, <1>c
<1>7. \A i \in 1..Len(s) : t[i] = s[i]
  <2> TAKE i \in 1..Len(s)
  <2>1. CASE i < k
    BY <2>1, <1>2, <1>3, <1>c
  <2>2. CASE i = k
    BY <2>2, <1>2, <1>3, <1>c
  <2>3. CASE i > k
    <3> DEFINE j == i - k
    <3>1. j \in 1..(Len(s)-k) /\ j + k = i /\ i - (k - 1) = j + 1
      BY <2>3, <1>2
    <3>2. t[i] = c[j+1]
      BY <2>3, <3>1, <1>2, <1>3, <1>c
    <3> QED BY <3>1, <3>2, <1>c
  <2>4. i < k \/ i = k \/ i > k
    BY <1>2
  <2> QED BY <2>1, <2>2, <2>3, <2>4
<1>8. s = t
  <2> HIDE DEF t
  <2> QED BY <1>6, <1>7, SeqEqual
<1> QED BY <1>1, <1>3, <1>4, <1>8 DEF c, Splits

(* t holds some of the first n elements of s, those in P: what was kept    *)
(* together with its predecessor still comes right behind it.              *)
Follows(t, s, i, j, P) ==
    /\ t[j] = s[i]
    /\ s[i] \in P
    /\ i # 1 /\ s[i-1] \in P => j # 1 /\ t[j-1] = s[i-1]
    /\ i = 1 => j = 1

Selects(t, s, n, P) ==
    /\ Len(t) <= n
    /\ \A j \in 1..Len(t) : \E i \in 1..n : Follows(t, s, i, j, P)
    /\ n # 0 /\ s[n] \in P => Len(t) # 0 /\ t[Len(t)] = s[n]

LEMMA SelectOneMore ==
    ASSUME NEW S, NEW s \in Seq(S), NEW P, NEW n \in Nat, n + 1 \in 1..Len(s),
           NEW t \in Seq(S), Selects(t, s, n, P),
           NEW u, u = IF s[n+1] \in P THEN <<s[n+1]>> ELSE <<>>
    PROVE  t \o u \in Seq(S) /\ Selects(t \o u, s, n + 1, P)
<1>1. CASE s[n+1] \notin P
  <2>1. t \o u = t /\ n + 1 # 0
    BY <1>1, ConcatEmptySeq
  <2>2. Selects(t, s, n + 1, P)
    <3>1. Len(t) <= n + 1
      BY DEF Selects
    <3>2. ASSUME NEW j \in 1..Len(t)
          PROVE  \E i \in 1..(n+1) : Follows(t, s, i, j, P)
      BY DEF Selects
    <3> QED BY <1>1, <3>1, <3>2 DEF Selects
  <2> QED BY <2>1, <2>2
<1>2. CASE s[n+1] \in P
  <2> DEFINE w == t \o u
  <2>1. u = <<s[n+1]>> /\ u \in Seq(S) /\ Len(u) = 1 /\ u[1] = s[n+1]
    BY <1>2
  <2>2. /\ w \in Seq(S) /\ Len(w) = Len(t) + 1
        /\ w[Len(t)+1] = s[n+1]
        /\ \A j \in 1..Len(t) : w[j] = t[j]
    BY <2>1
  <2> HIDE DEF w
  <2>3. Len(w) <= n + 1 /\ Len(w) # 0 /\ w[Len(w)] = s[n+1]
    BY <2>2 DEF Selects
  <2>4. ASSUME NEW j \in 1..Len(w)
        PROVE  \E i \in 1..(n+1) : Follows(w, s, i, j, P)
    <3>1. CASE j # Len(w)
      <4>1. j \in 1..Len(t)
        BY <3>1, <2>2
      <4>2. PICK i \in 1..n : Follows(t, s, i, j, P)
        BY <4>1 DEF Selects
      <4>3. Follows(w, s, i, j, P)
        <5>1. w[j] = t[j] /\ (j # 1 => w[j-1] = t[j-1])
          <6> j # 1 => j - 1 \in 1..Len(t)
            BY <4>1
          <6> QED BY <4>1, <2>2
        <5> QED BY <5>1, <4>2 DEF Follows
      <4> QED BY <4>3
    <3>2. CASE j = Len(w)
      <4>1. CASE n # 0 /\ s[n] \in P
        <5>1. Len(t) # 0 /\ t[Len(t)] = s[n]
          BY <4>1 DEF Selects
        <5>2. Len(t) \in 1..Len(t) /\ j - 1 = Len(t) /\ (n + 1) - 1 = n
          BY <5>1, <3>2, <2>2
        <5>3. w[j-1] = s[n] /\ j # 1
          BY <5>1, <5>2, <2>2
        <5>4. Follows(w, s, n + 1, j, P)
          <6> n + 1 # 1
            BY <4>1
          <6> QED BY <5>2, <5>3, <1>2, <2>2, <3>2 DEF Follows
        <5> QED BY <5>4
      <4>2. CASE n = 0 \/ s[n] \notin P
        <5>1. (n + 1) - 1 = n
          OBVIOUS
        <5>2. n + 1 = 1 => j = 1
          BY <3>2, <2>2 DEF Selects
        <5>3. Follows(w, s, n + 1, j, P)
          BY <5>2, <4>2, <5>1, <1>2, <2>2, <3>2 DEF Follows
        <5> QED BY <5>3
      <4> QED BY <4>1, <4>2
    <3> QED BY <3>1, <3>2
  <2>5. Selects(w, s, n + 1, P)
    BY <2>3, <2>4 DEF Selects
  <2> QED BY <2>2, <2>5 DEF w
<1> QED BY <1>1, <1>2

LEMMA OnlySelects ==
    ASSUME NEW S, NEW s \in Seq(S), NEW P
    PROVE  Only(s, P) \in Seq(S) /\ Selects(Only(s, P), s, Len(s), P)
<1> DEFINE n == Len(s)
           part == [i \in DOMAIN s |-> IF s[i] \in P THEN <<s[i]>> ELSE <<>>]
<1>0. n \in Nat /\ \A i \in 1..n : s[i] \in S
  OBVIOUS
<1>1. part \in Seq(Seq(S)) /\ Len(part) = n
  <2>1. part \in [1..n -> Seq(S)]
    OBVIOUS
  <2> HIDE DEF part
  <2> QED BY <1>0, <2>1, SeqType
<1>2. \A i \in 1..n : part[i] = IF s[i] \in P THEN <<s[i]>> ELSE <<>>
  OBVIOUS
<1>3. Only(s, P) = FlattenSeq(part)
  BY DEF Only
<1> HIDE DEF part
<1>4. Selects(<<>>, s, 0, P) /\ <<>> \in Seq(S)
  BY DEF Selects
<1>5. CASE n = 0
  <2>1. FlattenSeq(part) = <<>>
    BY <1>1, <1>5 DEF FlattenSeq
  <2> QED BY <2>1, <1>3, <1>4, <1>5
<1>6. CASE n # 0
  <2>1. PICK F : /\ FlattenSeq(part) = F[n]
                 /\ F[1] = part[1]
                 /\ \A k \in Nat : k + 1 \in 1..n /\ k # 0
                                    => F[k+1] = F[k] \o part[k+1]
    BY <1>1, <1>6, FlattenSteps
  <2> DEFINE Good(k) == F[k] \in Seq(S) /\ Selects(F[k], s, k, P)
             U == {k \in Nat : k + 1 <= n => Good(k + 1)}
  <2>2. 0 \in U
    <3>1. 0 + 1 \in 1..Len(s) /\ 1 \in 1..n
      BY <1>0, <1>6
    <3> DEFINE u == part[1]
    <3>2. u = IF s[0+1] \in P THEN <<s[0+1]>> ELSE <<>>
      BY <1>2, <3>1
    <3> HIDE DEF u
    <3>3. <<>> \o u \in Seq(S) /\ Selects(<<>> \o u, s, 0 + 1, P)
      BY <1>4, <3>1, <3>2, SelectOneMore
    <3>4. u \in Seq(S)
      BY <1>1, <1>0, <3>1 DEF u
    <3>5. <<>> \o u = u /\ u = F[1] /\ 0 + 1 = 1
      BY <2>1, <3>4, ConcatEmptySeq DEF u
    <3> QED BY <3>3, <3>5
  <2>3. \A k \in U : k + 1 \in U
    <3> SUFFICES ASSUME NEW k \in U, (k + 1) + 1 <= n
                 PROVE  Good((k + 1) + 1)
      OBVIOUS
    <3> DEFINE m == k + 1
               t == F[m]
               u == part[m+1]
    <3>1. m \in Nat /\ m # 0 /\ m + 1 \in 1..n /\ m <= n /\ Good(m)
      BY <1>0
    <3>2. F[m+1] = t \o u
      BY <2>1, <3>1
    <3>3. u = IF s[m+1] \in P THEN <<s[m+1]>> ELSE <<>>
      BY <1>2, <3>1
    <3>4. t \in Seq(S) /\ Selects(t, s, m, P)
      BY <3>1
    <3> HIDE DEF m, t, u
    <3>5. t \o u \in Seq(S) /\ Selects(t \o u, s, m + 1, P)
      BY <3>1, <3>3, <3>4, SelectOneMore
    <3>6. Good(m + 1)
      BY <3>2, <3>5
    <3> QED BY <3>6 DEF m
  <2>4. U = Nat
    <3> U \in SUBSET Nat OBVIOUS
    <3> HIDE DEF U
    <3> QED BY <2>2, <2>3, NatSets
  <2>5. Good(n)
    <3>1. n - 1 \in Nat /\ (n - 1) + 1 = n
      BY <1>0, <1>6
    <3>2. n - 1 \in U
      <4> HIDE DEF U
      <4> QED BY <2>4, <3>1
    <3>3. Good((n - 1) + 1)
      BY <3>1, <3>2
    <3> QED BY <3>1, <3>3
  <2> QED BY <1>3, <2>1, <2>5
<1> QED BY <1>5, <1>6

(* Its elements are in P and in s, and no more of them than s has. *)
LEMMA OnlyType ==
    ASSUME NEW S, NEW s \in Seq(S), NEW P, NEW t, t = Only(s, P)
    PROVE  /\ t \in Seq(S)
           /\ Len(t) <= Len(s)
           /\ \A j \in 1..Len(t) :
                 t[j] \in P /\ \E i \in 1..Len(s) : t[j] = s[i]
<1>1. t \in Seq(S) /\ Selects(t, s, Len(s), P)
  BY OnlySelects
<1> QED
  BY <1>1 DEF Selects, Follows
-----------------------------------------------------------------------------
(* Taking the first signal, dropping all signals of some senders and       *)
(* posting one that is not disconnected() leave the pieces whole.          *)
LEMMA TailPieces ==
    ASSUME NEW s \in Seq(Event), s # <<>>, Pieces(s)
    PROVE  /\ Tail(s) \in Seq(Event)
           /\ Pieces(Tail(s))
           /\ \A c \in Connections :
                 GoneIsNext(Tail(s), c) => Head(s) = <<"error", c>>
<1> DEFINE t == Tail(s)
<1>1. /\ t \in Seq(Event) /\ Len(s) \in Nat \ {0} /\ Len(t) = Len(s) - 1
      /\ \A i \in 1..Len(t) : t[i] = s[i+1]
      /\ Head(s) = s[1]
  OBVIOUS
<1> HIDE DEF t
<1>2. Pieces(t)
  <2> SUFFICES ASSUME NEW i \in 1..Len(t), NEW c \in Connections,
                      i # 1, t[i] = <<"disconnected", c>>
               PROVE  t[i-1] = <<"error", c>>
    BY DEF Pieces
  <2> DEFINE k == i + 1
  <2>1. k \in 1..Len(s) /\ k # 1 /\ k - 1 = i /\ i - 1 \in 1..Len(t) /\ (i - 1) + 1 = i
    BY <1>1
  <2>2. s[k] = t[i]
    BY <1>1
  <2> HIDE DEF k
  <2>3. s[k-1] = <<"error", c>>
    BY <2>1, <2>2 DEF Pieces
  <2> QED BY <1>1, <2>1, <2>3
<1>3. ASSUME NEW c \in Connections, GoneIsNext(t, c)
      PROVE  Head(s) = <<"error", c>>
  <2>1. Len(t) \in Nat /\ Len(t) # 0
    BY <1>1, <1>3, EmptySeq DEF GoneIsNext
  <2>2. 1 \in 1..Len(t) /\ 2 \in 1..Len(s) /\ 2 # 1 /\ 1 + 1 = 2 /\ 2 - 1 = 1
    BY <2>1, <1>1
  <2>3. t[1] = s[1+1]
    BY <2>2, <1>1
  <2>4. s[2] = <<"disconnected", c>>
    BY <2>2, <2>3, <1>3 DEF GoneIsNext
  <2>5. s[2-1] = <<"error", c>>
    BY <2>2, <2>4 DEF Pieces
  <2> QED BY <2>2, <2>5, <1>1
<1> QED BY <1>1, <1>2, <1>3 DEF t

LEMMA OnlyPieces ==
    ASSUME NEW s \in Seq(Event), Pieces(s), NEW P,
           \A c \in Connections, i \in 1..Len(s) :
               <<"disconnected", c>> \in P /\ s[i] = <<"error", c>> => s[i] \in P
    PROVE  /\ Only(s, P) \in Seq(Event)
           /\ Pieces(Only(s, P))
           /\ \A c \in Connections : GoneIsNext(Only(s, P), c) => GoneIsNext(s, c)
<1> DEFINE t == Only(s, P)
<1>1. t \in Seq(Event) /\ Selects(t, s, Len(s), P) /\ Len(s) \in Nat
  BY OnlySelects
<1> HIDE DEF t
<1>2. Pieces(t)
  <2> SUFFICES ASSUME NEW j \in 1..Len(t), NEW c \in Connections,
                      j # 1, t[j] = <<"disconnected", c>>
               PROVE  t[j-1] = <<"error", c>>
    BY DEF Pieces
  <2>1. PICK i \in 1..Len(s) : Follows(t, s, i, j, P)
    BY <1>1 DEF Selects
  <2>2. s[i] = <<"disconnected", c>> /\ s[i] \in P /\ i # 1
    BY <2>1 DEF Follows
  <2>3. s[i-1] = <<"error", c>>
    BY <2>2 DEF Pieces
  <2>4. i - 1 \in 1..Len(s)
    BY <1>1, <2>2
  <2>5. s[i-1] \in P
    BY <2>2, <2>3, <2>4
  <2> QED BY <2>1, <2>2, <2>3, <2>5 DEF Follows
<1>3. ASSUME NEW c \in Connections, GoneIsNext(t, c)
      PROVE  GoneIsNext(s, c)
  <2>1. t # <<>> /\ t[1] = <<"disconnected", c>>
    BY <1>3 DEF GoneIsNext
  <2>2. Len(t) \in Nat /\ Len(t) # 0
    BY <1>1, <2>1, EmptySeq
  <2>3. 1 \in 1..Len(t)
    BY <2>2
  <2>4. PICK i \in 1..Len(s) : Follows(t, s, i, 1, P)
    BY <1>1, <2>3 DEF Selects
  <2>5. s[i] = <<"disconnected", c>> /\ s[i] \in P
    BY <2>1, <2>4 DEF Follows
  <2>6. CASE i # 1
    <3>1. s[i-1] = <<"error", c>>
      BY <2>5, <2>6 DEF Pieces
    <3>2. i - 1 \in 1..Len(s)
      BY <1>1, <2>6
    <3>3. s[i-1] \in P
      BY <2>5, <3>1, <3>2
    <3> QED BY <2>4, <2>6, <3>3 DEF Follows
  <2>7. CASE i = 1
    <3>1. s # <<>>
      BY <2>7, <1>1
    <3> QED BY <2>5, <2>7, <3>1 DEF GoneIsNext
  <2> QED BY <2>6, <2>7
<1> QED BY <1>1, <1>2, <1>3 DEF t

LEMMA AppendPieces ==
    ASSUME NEW s \in Seq(Event), Pieces(s), NEW e \in Event, e[1] # "disconnected"
    PROVE  /\ Append(s, e) \in Seq(Event)
           /\ Pieces(Append(s, e))
           /\ \A c \in Connections :
                 GoneIsNext(Append(s, e), c) => GoneIsNext(s, c)
<1> DEFINE t == Append(s, e)
<1>1. /\ t \in Seq(Event) /\ Len(s) \in Nat /\ Len(t) = Len(s) + 1
      /\ \A i \in 1..Len(s) : t[i] = s[i]
      /\ t[Len(t)] = e
  OBVIOUS
<1> HIDE DEF t
<1>2. Pieces(t)
  <2> SUFFICES ASSUME NEW i \in 1..Len(t), NEW c \in Connections,
                      i # 1, t[i] = <<"disconnected", c>>
               PROVE  t[i-1] = <<"error", c>>
    BY DEF Pieces
  <2>1. i # Len(t)
    BY <1>1
  <2>2. i \in 1..Len(s) /\ i - 1 \in 1..Len(s)
    BY <1>1, <2>1
  <2>3. s[i-1] = <<"error", c>>
    BY <1>1, <2>2 DEF Pieces
  <2> QED BY <1>1, <2>2, <2>3
<1>3. ASSUME NEW c \in Connections, GoneIsNext(t, c)
      PROVE  GoneIsNext(s, c)
  <2>1. t[1] = <<"disconnected", c>>
    BY <1>3 DEF GoneIsNext
  <2>2. Len(s) # 0
    BY <1>1, <2>1
  <2>3. 1 \in 1..Len(s)
    BY <1>1, <2>2
  <2>4. s # <<>>
    BY <2>2, <1>1
  <2> QED BY <1>1, <2>1, <2>3, <2>4 DEF GoneIsNext
<1> QED BY <1>1, <1>2, <1>3 DEF t

LEMMA LostPieces ==
    ASSUME NEW s \in Seq(Event), Pieces(s), NEW c \in Connections, NEW t,
           t = s \o <<<<"error", c>>, <<"disconnected", c>>>>
    PROVE  /\ t \in Seq(Event)
           /\ Pieces(t)
           /\ \A d \in Connections : GoneIsNext(t, d) => GoneIsNext(s, d)
<1> DEFINE u == <<<<"error", c>>, <<"disconnected", c>>>>
           n == Len(s)
<1>1. /\ u \in Seq(Event) /\ Len(u) = 2
      /\ u[1] = <<"error", c>> /\ u[2] = <<"disconnected", c>>
  BY DEF Event, ConnectionSignals
<1>2. t = s \o u
  OBVIOUS
<1> HIDE DEF u
<1>3. t \in Seq(Event) /\ n \in Nat /\ Len(t) = n + 2
  <2>1. Len(t) = Len(s) + Len(u) /\ t \in Seq(Event)
    BY <1>1, <1>2, ConcatProperties, Zenon
  <2>2. n \in Nat
    OBVIOUS
  <2> QED BY <1>1, <2>1, <2>2
<1>4. \A i \in 1..n : t[i] = s[i]
  BY <1>1, <1>2
<1>5. t[n+1] = <<"error", c>> /\ t[n+2] = <<"disconnected", c>>
  <2>1. n + 1 \in 1..Len(t) /\ n + 2 \in 1..Len(t)
    BY <1>3
  <2>2. t[n+1] = u[1] /\ t[n+2] = u[2]
    BY <1>1, <1>2, <2>1
  <2> QED BY <1>1, <2>2
<1>6. Pieces(t)
  <2> SUFFICES ASSUME NEW i \in 1..Len(t), NEW d \in Connections,
                      i # 1, t[i] = <<"disconnected", d>>
               PROVE  t[i-1] = <<"error", d>>
    BY DEF Pieces
  <2>1. CASE i \in 1..n
    <3>1. i - 1 \in 1..n
      BY <2>1, <1>3
    <3>2. s[i-1] = <<"error", d>>
      BY <2>1, <1>4 DEF Pieces
    <3> QED BY <3>1, <3>2, <1>4
  <2>2. CASE i = n + 1
    <3>1. "error" # "disconnected"
      OBVIOUS
    <3> QED BY <2>2, <1>5, <3>1
  <2>3. CASE i = n + 2
    <3>1. i - 1 = n + 1 /\ d = c
      BY <2>3, <1>3, <1>5
    <3> QED BY <3>1, <1>5
  <2>4. i \in 1..n \/ i = n + 1 \/ i = n + 2
    BY <1>3
  <2> QED BY <2>1, <2>2, <2>3, <2>4
<1>7. ASSUME NEW d \in Connections, GoneIsNext(t, d)
      PROVE  GoneIsNext(s, d)
  <2>1. t[1] = <<"disconnected", d>>
    BY <1>7 DEF GoneIsNext
  <2>2. n # 0
    BY <1>3, <1>5, <2>1
  <2>3. 1 \in 1..n /\ s # <<>>
    BY <1>3, <2>2
  <2> QED BY <1>4, <2>1, <2>3 DEF GoneIsNext
<1> QED BY <1>3, <1>6, <1>7
-----------------------------------------------------------------------------
(* A runner that takes a connection is one more holder of it.              *)
HoldersIn(f, c) == {r \in Runners : f[r] = c}

LEMMA OneMoreHolder ==
    ASSUME NEW f \in [Runners -> Connections \union {NoConnection}],
           NEW r \in Runners, f[r] = NoConnection, NEW c \in Connections,
           NEW g, g[r] = c,
           \A q \in Runners : q # r => g[q] = f[q], NEW d \in Connections
    PROVE  /\ IsFiniteSet(HoldersIn(f, d))
           /\ Cardinality(HoldersIn(f, d)) \in Nat
           /\ Cardinality(HoldersIn(g, d)) =
                  Cardinality(HoldersIn(f, d)) + IF d = c THEN 1 ELSE 0
<1>1. NoConnection \notin Connections /\ IsFiniteSet(Runners)
  BY RunnersAssumption
<1>2. IsFiniteSet(HoldersIn(f, d)) /\ Cardinality(HoldersIn(f, d)) \in Nat
  <2>1. HoldersIn(f, d) \in SUBSET Runners
    BY DEF HoldersIn
  <2> QED BY <1>1, <2>1, FS_Subset, FS_CardinalityType
<1>3. CASE d # c
  <2>1. HoldersIn(g, d) = HoldersIn(f, d)
    BY <1>1, <1>3 DEF HoldersIn
  <2> QED BY <1>2, <1>3, <2>1
<1>4. CASE d = c
  <2>1. /\ HoldersIn(g, d) = HoldersIn(f, d) \union {r}
        /\ r \notin HoldersIn(f, d)
    BY <1>1, <1>4 DEF HoldersIn
  <2>2. Cardinality(HoldersIn(f, d) \union {r}) = Cardinality(HoldersIn(f, d)) + 1
    BY <1>2, <2>1, FS_AddElement
  <2> QED BY <1>2, <1>4, <2>1, <2>2
<1> QED BY <1>2, <1>3, <1>4

(* Who holds a connection is among those who have acquired it.             *)
LEMMA HeldPlaces ==
    ASSUME IInv, NEW r \in Runners, connection[r] \in Connections
    PROVE  \E i \in 1..Len(acquired) : acquired[i] = connection[r]
<1> DEFINE c == connection[r]
<1>1. IsFiniteSet(Holders(c)) /\ Holders(c) # {}
  <2>1. Holders(c) \in SUBSET Runners /\ r \in Holders(c)
    BY DEF Holders
  <2> QED BY <2>1, RunnersAssumption, FS_Subset
<1>2. Cardinality(Holders(c)) # 0
  BY <1>1, FS_EmptySet
<1>3. Cardinality(Places(acquired, {c})) # 0
  BY <1>2 DEF IInv, HeldIsAcquired
<1>4. Places(acquired, {c}) # {}
  BY <1>3, FS_EmptySet
<1>5. acquired \in Seq(Connections)
  BY DEF IInv, PoolTypes
<1> QED BY <1>4, <1>5 DEF Places

LEMMA AliveElements ==
    ASSUME PoolTypes, NEW c
    PROVE  c \in Alive <=> \/ \E i \in 1..Len(acquired) : acquired[i] = c
                           \/ \E i \in 1..Len(unacquired) : unacquired[i] = c
                           \/ c \in deprecated
  BY DEF PoolTypes, Alive, Range

(* acquireConnection(): what is handed out is in use, no longer cached.    *)
LEMMA Acquired ==
    ASSUME IInv, NEW c \in Connections, AcquireConnection(c)
    PROVE  /\ PoolTypes'
           /\ OneCached'
           /\ \A d \in Connections : d \in Alive' <=> d \in Alive \/ d = c
           /\ \A d \in Connections :
                /\ Cardinality(Places(acquired, {d})) \in Nat
                /\ Cardinality(Places(acquired', {d})) =
                     Cardinality(Places(acquired, {d})) + IF d = c THEN 1 ELSE 0
<1>0. PoolTypes /\ OneCached /\ AliveExist
  BY DEF IInv
<1>1. /\ acquired' = Append(acquired, c) /\ deprecated' = deprecated
      /\ acquired \in Seq(Connections)
      /\ unacquired \in Seq(Connections)
  BY <1>0 DEF AcquireConnection, PoolTypes
<1>2. /\ acquired' \in Seq(Connections)
      /\ Len(acquired') = Len(acquired) + 1
      /\ Len(acquired) \in Nat
      /\ acquired'[Len(acquired')] = c
      /\ \A i \in 1..Len(acquired) : acquired'[i] = acquired[i]
  BY <1>1
<1>3. /\ unacquired' \in Seq(Connections)
      /\ Len(unacquired') <= Len(unacquired)
      /\ \A i \in 1..Len(unacquired') :
            unacquired'[i] # c /\ \E k \in 1..Len(unacquired) : unacquired'[i] = unacquired[k]
      /\ \A k \in 1..Len(unacquired) : unacquired[k] = c
            \/ \E i \in 1..Len(unacquired') : unacquired'[i] = unacquired[k]
  <2>1. CASE Shareable /\ c = Head(acquired) /\ unacquired' = unacquired
    <3>1. 1 \in 1..Len(acquired) /\ acquired[1] = c
      BY <2>1, <1>1 DEF Shareable
    <3> QED BY <2>1, <3>1, <1>0, <1>1 DEF OneCached
  <2>2. CASE Cached # <<>> /\ c = Head(Cached) /\ unacquired' = RemoveFirst(unacquired, c)
    <3>1. PICK i \in 1..Len(unacquired) : unacquired[i] = c
      <4> DEFINE t == Cached
      <4>1. t \in Seq(Connections)
            /\ \A j \in 1..Len(t) : \E i \in 1..Len(unacquired) : t[j] = unacquired[i]
        <5> DEFINE P == {d \in Connections : link[d] = "Connected"}
        <5>1. t = Only(unacquired, P)
          BY DEF Cached
        <5> HIDE DEF P, t
        <5> QED BY <1>1, <5>1, OnlyType
      <4>2. t # <<>> /\ c = Head(t)
        BY <2>2
      <4> HIDE DEF t
      <4>3. 1 \in 1..Len(t) /\ t[1] = c
        BY <4>1, <4>2
      <4> QED BY <4>1, <4>3
    <3>2. PICK a \in Seq(Connections), b \in Seq(Connections) :
              Splits(unacquired, c, a, b)
      BY <3>1, <1>1, RemoveFirstSplits
    <3>3. Len(unacquired) = Len(a) + 1 + Len(b)
      <4>1. <<c>> \o b \in Seq(Connections) /\ Len(<<c>> \o b) = 1 + Len(b)
        OBVIOUS
      <4> DEFINE e == <<c>> \o b
      <4> HIDE DEF e
      <4>2. unacquired = a \o e /\ e \in Seq(Connections) /\ Len(e) = 1 + Len(b)
        BY <3>2, <4>1 DEF e, Splits
      <4>3. Len(unacquired) = Len(a) + Len(e)
        BY <4>2, ConcatProperties, Zenon
      <4> QED BY <4>2, <4>3
    <3>4. Len(a) = 0 /\ Len(b) = 0 /\ Len(unacquired) = 1
      BY <3>3, <1>0, <1>1 DEF OneCached
    <3>5. a = <<>> /\ b = <<>>
      BY <3>4, EmptySeq
    <3>6. unacquired' = <<>>
      BY <2>2, <3>2, <3>5 DEF Splits
    <3>7. \A k \in 1..Len(unacquired) : unacquired[k] = c
      BY <3>1, <3>4
    <3> QED BY <3>6, <3>7, <3>4
  <2>3. CASE IsNew(c) /\ unacquired' = unacquired
    <3>1. c \notin Alive
      BY <2>3, <1>0 DEF IsNew, AliveExist
    <3>2. \A i \in 1..Len(unacquired) : unacquired[i] # c
      BY <3>1, <1>0, AliveElements
    <3> QED BY <2>3, <3>2, <1>1
  <2> QED BY <2>1, <2>2, <2>3 DEF AcquireConnection
<1>4. PoolTypes'
  BY <1>0, <1>1, <1>2, <1>3 DEF PoolTypes
<1>5. OneCached'
  <2>1. Len(unacquired') <= 1
    BY <1>0, <1>1, <1>3 DEF OneCached
  <2>2. ASSUME NEW i \in 1..Len(unacquired'), NEW j \in 1..Len(acquired')
        PROVE  unacquired'[i] # acquired'[j]
    <3>1. CASE j = Len(acquired')
      BY <3>1, <1>2, <1>3
    <3>2. CASE j # Len(acquired')
      <4>1. j \in 1..Len(acquired) /\ acquired'[j] = acquired[j]
        BY <3>2, <1>2
      <4> QED BY <4>1, <1>0, <1>3 DEF OneCached
    <3> QED BY <3>1, <3>2
  <2> QED BY <2>1, <2>2 DEF OneCached
<1>6. ASSUME NEW d \in Connections
      PROVE  d \in Alive' <=> d \in Alive \/ d = c
  <2>1. /\ d \in Range(acquired') <=> \E i \in 1..Len(acquired') : acquired'[i] = d
        /\ d \in Range(unacquired')
                <=> \E i \in 1..Len(unacquired') : unacquired'[i] = d
        /\ d \in Range(acquired) <=> \E i \in 1..Len(acquired) : acquired[i] = d
        /\ d \in Range(unacquired)
                <=> \E i \in 1..Len(unacquired) : unacquired[i] = d
    <3>1. \A t \in Seq(Connections) :
              d \in Range(t) <=> \E i \in 1..Len(t) : t[i] = d
      BY RangeElements
    <3> QED BY <1>1, <1>2, <1>3, <3>1, Zenon
  <2>2. (\E i \in 1..Len(acquired') : acquired'[i] = d)
            <=> (\E i \in 1..Len(acquired) : acquired[i] = d) \/ d = c
    <3>1. ASSUME NEW i \in 1..Len(acquired'), acquired'[i] = d, d # c
          PROVE  \E k \in 1..Len(acquired) : acquired[k] = d
      <4>1. i \in 1..Len(acquired)
        BY <3>1, <1>2
      <4> QED BY <3>1, <4>1, <1>2
    <3>2. ASSUME NEW i \in 1..Len(acquired), acquired[i] = d
          PROVE  \E k \in 1..Len(acquired') : acquired'[k] = d
      <4>1. i \in 1..Len(acquired')
        BY <1>2
      <4> QED BY <3>2, <4>1, <1>2
    <3>3. ASSUME d = c
          PROVE  \E k \in 1..Len(acquired') : acquired'[k] = d
      <4>1. Len(acquired') \in 1..Len(acquired')
        BY <1>2
      <4> QED BY <3>3, <4>1, <1>2
    <3> QED BY <3>1, <3>2, <3>3
  <2> QED BY <2>1, <2>2, <1>1, <1>3 DEF Alive
<1>7. ASSUME NEW d \in Connections
      PROVE  /\ Cardinality(Places(acquired, {d})) \in Nat
             /\ Cardinality(Places(acquired', {d})) =
                  Cardinality(Places(acquired, {d})) + IF d = c THEN 1 ELSE 0
  <2>1. Cardinality(Places(Append(acquired, c), {d})) =
            Cardinality(Places(acquired, {d})) + IF c \in {d} THEN 1 ELSE 0
    BY <1>1, PlacesAppend
  <2>4. Cardinality(Places(acquired, {d})) \in Nat
    BY <1>1, PlacesFinite
  <2> QED BY <1>1, <2>1, <2>4
<1> QED BY <1>4, <1>5, <1>6, <1>7

(* releaseConnection(): of one that is in use one user less is counted.    *)
LEMMA Released ==
    ASSUME IInv, NEW c \in Connections,
           \E i \in 1..Len(acquired) : acquired[i] = c,
           ReleaseConnection(c)
    PROVE  /\ PoolTypes'
           /\ OneCached'
           /\ \A d \in Connections : d \in Alive' => d \in Alive
           /\ \A d \in Connections :
                /\ Cardinality(Places(acquired', {d})) \in Nat
                /\ Cardinality(Places(acquired, {d})) =
                     Cardinality(Places(acquired', {d})) + IF d = c THEN 1 ELSE 0
<1>0. PoolTypes /\ OneCached
  BY DEF IInv
<1>1. acquired \in Seq(Connections) /\ unacquired \in Seq(Connections)
  BY <1>0 DEF PoolTypes
<1>2. PICK a \in Seq(Connections), b \in Seq(Connections) :
          Splits(acquired, c, a, b)
  BY <1>1, RemoveFirstSplits
<1> DEFINE e == <<c>> \o b
<1>3. acquired' = a \o b /\ acquired = a \o e /\ e = <<c>> \o b
  BY <1>2 DEF Splits, ReleaseConnection
<1>4. e \in Seq(Connections) /\ acquired' \in Seq(Connections)
  BY <1>3
<1>5. /\ c \notin Range(acquired') => 
            /\ deprecated' \subseteq deprecated
            /\ \/ unacquired' = unacquired
               \/ unacquired = <<>> /\ unacquired' = <<c>>
      /\ c \in Range(acquired') => unacquired' = unacquired /\ deprecated' = deprecated
  BY <1>2, <1>3 DEF ReleaseConnection, Splits
<1> HIDE DEF e
<1>6. \A t \in Seq(Connections), d \in Connections :
          d \in Range(t) <=> \E i \in 1..Len(t) : t[i] = d
  BY RangeElements
<1>7. \A d \in Connections : d \in Range(acquired') => d \in Range(acquired)
  <2>1. /\ Len(acquired') = Len(a) + Len(b) /\ Len(acquired) = Len(a) + Len(e)
        /\ Len(e) = Len(b) + 1
        /\ Len(a) \in Nat /\ Len(b) \in Nat
    <3>1. <<c>> \in Seq(Connections) /\ Len(<<c>>) = 1
      OBVIOUS
    <3>2. Len(e) = Len(<<c>>) + Len(b)
      BY <1>3, <3>1, ConcatProperties, Zenon
    <3>3. Len(acquired') = Len(a) + Len(b) /\ Len(acquired) = Len(a) + Len(e)
      BY <1>3, <1>4, ConcatProperties, Zenon
    <3>4. Len(a) \in Nat /\ Len(b) \in Nat
      OBVIOUS
    <3> QED BY <3>1, <3>2, <3>3, <3>4
  <2> SUFFICES ASSUME NEW i \in 1..Len(acquired')
               PROVE  \E k \in 1..Len(acquired) : acquired[k] = acquired'[i]
    <3> SUFFICES ASSUME NEW d \in Connections, d \in Range(acquired')
                 PROVE  \E k \in 1..Len(acquired) : acquired[k] = d
      BY <1>1, <1>6
    <3>1. PICK i \in 1..Len(acquired') : acquired'[i] = d
      BY <1>4, <1>6
    <3> QED BY <3>1
  <2>2. CASE i \in 1..Len(a)
    <3>1. acquired'[i] = a[i] /\ acquired[i] = a[i]
      BY <1>3, <1>4, <2>2
    <3>2. i \in 1..Len(acquired)
      BY <2>1, <2>2
    <3> QED BY <3>1, <3>2
  <2>3. CASE i \notin 1..Len(a)
    <3> DEFINE j == i - Len(a)
    <3>1. j \in 1..Len(b) /\ i = Len(a) + j /\ j + 1 \in 1..Len(e)
      BY <2>1, <2>3
    <3>2. acquired'[i] = b[j]
      BY <1>3, <2>1, <2>3, <3>1
    <3>3. e[j+1] = b[j]
      BY <1>3, <2>1, <3>1
    <3>4. i + 1 \in 1..Len(acquired) /\ i + 1 \notin 1..Len(a) /\ (i + 1) - Len(a) = j + 1
      BY <2>1, <2>3
    <3>5. acquired[i+1] = e[j+1]
      BY <1>3, <1>4, <2>1, <3>1, <3>4
    <3> QED BY <3>2, <3>3, <3>4, <3>5
  <2> QED BY <2>2, <2>3
<1>8. c \in Range(acquired)
  BY <1>1, <1>6
<1>9. PoolTypes'
  <2>1. unacquired' \in Seq(Connections) /\ deprecated' \subseteq Connections
    <3>1. deprecated' \subseteq deprecated
      BY <1>5
    <3>2. <<c>> \in Seq(Connections)
      OBVIOUS
    <3>3. unacquired' = unacquired \/ unacquired' = <<c>>
      BY <1>5
    <3> QED BY <1>0, <1>1, <3>1, <3>2, <3>3 DEF PoolTypes
  <2> QED BY <1>4, <2>1 DEF PoolTypes
<1>10. \A d \in Connections :
           d \in Range(unacquired') => d \in Range(unacquired) \/ d \in Range(acquired)
  <2>1. CASE unacquired' = unacquired
    BY <2>1
  <2>2. CASE unacquired' = <<c>>
    BY <2>2, <1>8 DEF Range
  <2> QED BY <1>5, <2>1, <2>2
<1>11. \A d \in Connections : d \in Alive' => d \in Alive
  BY <1>5, <1>7, <1>10 DEF Alive
<1>12. OneCached'
  <2>1. CASE unacquired' = unacquired
    <3>1. ASSUME NEW i \in 1..Len(unacquired'), NEW j \in 1..Len(acquired')
          PROVE  unacquired'[i] # acquired'[j]
      <4>1. acquired'[j] \in Connections
        BY <1>4
      <4>2. acquired'[j] \in Range(acquired')
        BY <1>4, <1>6, <4>1
      <4>3. PICK k \in 1..Len(acquired) : acquired[k] = acquired'[j]
        BY <1>1, <1>6, <1>7, <4>1, <4>2
      <4> QED BY <1>0, <2>1, <4>3 DEF OneCached
    <3> QED BY <1>0, <2>1, <3>1 DEF OneCached
  <2>2. CASE c \notin Range(acquired') /\ unacquired' = <<c>>
    <3>1. ASSUME NEW i \in 1..Len(unacquired'), NEW j \in 1..Len(acquired')
          PROVE  unacquired'[i] # acquired'[j]
      <4>1. unacquired'[i] = c
        BY <2>2
      <4> QED BY <1>4, <1>6, <2>2, <4>1
    <3>2. Len(unacquired') <= 1
      BY <2>2
    <3> QED BY <3>1, <3>2 DEF OneCached
  <2> QED BY <1>5, <2>1, <2>2
<1>13. ASSUME NEW d \in Connections
       PROVE  /\ Cardinality(Places(acquired', {d})) \in Nat
              /\ Cardinality(Places(acquired, {d})) =
                   Cardinality(Places(acquired', {d})) + IF d = c THEN 1 ELSE 0
  <2> DEFINE n(s) == Cardinality(Places(s, {d}))
  <2>1. n(a \o b) = n(a) + n(b)
    BY PlacesConcat
  <2>2. n(a \o e) = n(a) + n(e)
    BY <1>4, PlacesConcat
  <2>3. n(<<c>> \o b) = n(<<c>>) + n(b)
    <3> DEFINE one == <<c>>
    <3>1. one \in Seq(Connections)
      OBVIOUS
    <3> HIDE DEF one
    <3>2. n(one \o b) = n(one) + n(b)
      BY <3>1, PlacesConcat
    <3> QED BY <3>2 DEF one
  <2>4. n(<<c>>) = IF d = c THEN 1 ELSE 0
    BY PlacesOne
  <2>5. n(a) \in Nat /\ n(b) \in Nat
    BY PlacesFinite
  <2> HIDE DEF n
  <2>6. n(acquired') = n(a) + n(b) /\ n(acquired) = n(a) + n(e) /\ n(e) = n(<<c>>) + n(b)
    BY <1>3, <2>1, <2>2, <2>3, Zenon
  <2>7. n(acquired') \in Nat /\ n(acquired) = n(acquired') + IF d = c THEN 1 ELSE 0
    BY <2>4, <2>5, <2>6
  <2> QED BY <2>7 DEF n
<1> QED BY <1>9, <1>11, <1>12, <1>13

(* deleteUnused(): what nobody refers to is gone, and nothing else. *)
LEMMA UnusedDeleted ==
    ASSUME IInv, NEW posted \in Seq(Event), Pieces(posted), DeleteUnused(posted),
           \A c \in Connections : c \in Alive' => c \in Alive
    PROVE  /\ LinkTypes'
           /\ AliveExist'
           /\ InOnePiece'
           /\ \A c \in Connections : GoneIsNext(events', c) => GoneIsNext(posted, c)
<1>0. AliveExist /\ LinkTypes
  BY DEF IInv
<1> DEFINE P == {e \in Range(posted) : e[2] \in Connections => e[2] \in Alive'}
<1>1. events' = Only(posted, P)
  BY DEF DeleteUnused
<1>2. ASSUME NEW c \in Connections, NEW i \in 1..Len(posted),
             <<"disconnected", c>> \in P, posted[i] = <<"error", c>>
      PROVE  posted[i] \in P
  <2>1. c \in Alive'
    BY <1>2
  <2>2. posted[i] \in Range(posted)
    BY DEF Range
  <2> QED BY <1>2, <2>1, <2>2
<1> HIDE DEF P
<1>3. /\ Only(posted, P) \in Seq(Event)
      /\ Pieces(Only(posted, P))
      /\ \A c \in Connections : GoneIsNext(Only(posted, P), c) => GoneIsNext(posted, c)
  BY <1>2, OnlyPieces
<1>4. events' \in Seq(Event) /\ InOnePiece'
  BY <1>1, <1>3 DEF InOnePiece
<1>5. link' \in [Connections -> {"none", "Unconnected", "Connecting", "Connected"}]
  BY <1>0 DEF DeleteUnused, LinkTypes
<1>6. AliveExist'
  BY <1>0, <1>5 DEF DeleteUnused, AliveExist
<1> QED BY <1>1, <1>3, <1>4, <1>5, <1>6 DEF LinkTypes

(* setState(Inactive): the account of the connections is still right.      *)
LEMMA Deactivated ==
    ASSUME IInv, NEW r \in Runners, connection[r] \in Connections,
           NEW signal, NEW posted \in Seq(Event), Pieces(posted),
           SetInactive(r, signal, posted)
    PROVE  /\ LinkTypes' /\ PoolTypes' /\ RunnerTypes'
           /\ OneCached' /\ HeldIsAcquired' /\ AliveExist' /\ InOnePiece'
           /\ \A c \in Connections : GoneIsNext(events', c) => GoneIsNext(posted, c)
           /\ state' = [state EXCEPT ![r] = "Inactive"]
           /\ connection' = [connection EXCEPT ![r] = NoConnection]
<1> DEFINE P == {e \in Range(posted) : e[2] # r}
           left == Only(posted, P)
<1>1. /\ state' = [state EXCEPT ![r] = "Inactive"]
      /\ connection' = [connection EXCEPT ![r] = NoConnection]
      /\ process' = [process EXCEPT ![r] = "none"]
      /\ report' = [report EXCEPT ![r] = signal]
      /\ ReleaseConnection(connection[r])
      /\ DeleteUnused(left)
  BY DEF SetInactive
<1>2. \E i \in 1..Len(acquired) : acquired[i] = connection[r]
  BY HeldPlaces
<1>3. /\ PoolTypes' /\ OneCached'
      /\ \A d \in Connections : d \in Alive' => d \in Alive
      /\ \A d \in Connections :
           /\ Cardinality(Places(acquired', {d})) \in Nat
           /\ Cardinality(Places(acquired, {d})) =
                Cardinality(Places(acquired', {d})) + IF d = connection[r] THEN 1 ELSE 0
  BY <1>1, <1>2, Released
<1>4. ASSUME NEW c \in Connections, NEW i \in 1..Len(posted),
             <<"disconnected", c>> \in P, posted[i] = <<"error", c>>
      PROVE  posted[i] \in P
  BY <1>4 DEF Range
<1> HIDE DEF P
<1>5. /\ left \in Seq(Event) /\ Pieces(left)
      /\ \A c \in Connections : GoneIsNext(left, c) => GoneIsNext(posted, c)
  BY <1>4, OnlyPieces
<1> HIDE DEF left
<1>6. /\ LinkTypes' /\ AliveExist' /\ InOnePiece'
      /\ \A c \in Connections : GoneIsNext(events', c) => GoneIsNext(left, c)
  BY <1>1, <1>3, <1>5, UnusedDeleted
<1>7. RunnerTypes
  BY DEF IInv
<1>8. RunnerTypes'
  <2>1. /\ state' \in [Runners -> {"Inactive", "Connecting", "Connected", "ProcessRunning"}]
        /\ connection' \in [Runners -> Connections \union {NoConnection}]
    <3>1. state' \in [Runners -> {"Inactive", "Connecting", "Connected", "ProcessRunning"}]
      BY <1>1, <1>7 DEF RunnerTypes
    <3>2. connection' \in [Runners -> Connections \union {NoConnection}]
      BY <1>1, <1>7 DEF RunnerTypes
    <3> QED BY <3>1, <3>2
  <2>2. ASSUME NEW q \in Runners
        PROVE  state'[q] = "Inactive" <=> connection'[q] = NoConnection
    BY <1>1, <1>7 DEF RunnerTypes
  <2> QED BY <2>1, <2>2 DEF RunnerTypes
<1>9. HeldIsAcquired'
  <2> SUFFICES ASSUME NEW d \in Connections
               PROVE  Cardinality(HoldersIn(connection', d)) =
                          Cardinality(Places(acquired', {d}))
    BY DEF HeldIsAcquired, Holders, HoldersIn
  <2>1. /\ connection' \in [Runners -> Connections \union {NoConnection}]
        /\ connection'[r] = NoConnection
        /\ \A q \in Runners : q # r => connection[q] = connection'[q]
    BY <1>1, <1>7 DEF RunnerTypes
  <2>2. /\ Cardinality(HoldersIn(connection', d)) \in Nat
        /\ Cardinality(HoldersIn(connection, d)) =
             Cardinality(HoldersIn(connection', d)) + IF d = connection[r] THEN 1 ELSE 0
    BY <2>1, OneMoreHolder
  <2>3. Cardinality(HoldersIn(connection, d)) = Cardinality(Places(acquired, {d}))
    BY DEF IInv, HeldIsAcquired, Holders, HoldersIn
  <2> QED BY <2>2, <2>3, <1>3
<1> QED BY <1>1, <1>3, <1>5, <1>6, <1>8, <1>9
-----------------------------------------------------------------------------
ContractStep == Contract!Next \/ UNCHANGED <<RunState, report>>

(* One runner's state and report are replaced. *)
LEMMA OneRunnerSteps ==
    ASSUME RunnerTypes, NEW r \in Runners, NEW s, NEW signal, NEW from,
           state' = [state EXCEPT ![r] = s],
           report' = [report EXCEPT ![r] = signal],
           Seen(state[r]) \in from
    PROVE  Contract!Step(r, from, Seen(s), signal)
<1>1. RunState' = [RunState EXCEPT ![r] = Seen(s)]
  <2>1. ASSUME NEW q \in Runners
        PROVE  Seen(state'[q]) = IF q = r THEN Seen(s) ELSE Seen(state[q])
    BY DEF RunnerTypes
  <2>2. RunState' = [q \in Runners |-> Seen(state'[q])]
    BY DEF RunState
  <2>3. [RunState EXCEPT ![r] = Seen(s)] =
            [q \in Runners |-> IF q = r THEN Seen(s) ELSE Seen(state[q])]
    BY DEF RunState
  <2> QED BY <2>1, <2>2, <2>3
<1>2. RunState[r] \in from
  BY DEF RunState
<1> QED BY <1>1, <1>2 DEF Contract!Step

(* The slot of one listener is over. *)
LEMMA FewerListeners ==
    ASSUME Listeners, NEW r \in Runners, NEW inSlot \in BOOLEAN,
           telling' = Without(telling, r) \/ (r \in telling.to /\ Heard(r, inSlot)),
           \A q \in Runners : q # r =>
                connection'[q] = connection[q] /\ state'[q] = state[q]
    PROVE  /\ Listeners'
           /\ telling'.to = telling.to \ {r}
           /\ telling'.to # {} => telling'.signal = telling.signal
<1>1. telling \in [signal : ConnectionSignals \union {"none"},
                   sender : Connections \union {NoConnection},
                   to : SUBSET Runners, inSlot : BOOLEAN]
  BY DEF Listeners
<1>2. CASE telling.to \subseteq {r}
  <2>1. telling' = Nothing
    <3>1. Without(telling, r) = Nothing
      BY <1>2 DEF Without
    <3>2. CASE r \in telling.to /\ Heard(r, inSlot)
      <4>1. telling' = [Nothing EXCEPT !.inSlot = inSlot /\ telling.to # {r}]
        BY <3>1, <3>2 DEF Heard
      <4>2. telling.to = {r}
        BY <1>2, <3>2
      <4> QED BY <4>1, <4>2 DEF Nothing
    <3> QED BY <3>1, <3>2
  <2>2. /\ Nothing.to = {}
        /\ Nothing \in [signal : ConnectionSignals \union {"none"},
                        sender : Connections \union {NoConnection},
                        to : SUBSET Runners, inSlot : BOOLEAN]
    BY DEF Nothing
  <2> QED BY <1>2, <2>1, <2>2 DEF Listeners
<1>3. CASE ~(telling.to \subseteq {r})
  <2>1. /\ telling' \in [signal : ConnectionSignals \union {"none"},
                         sender : Connections \union {NoConnection},
                         to : SUBSET Runners, inSlot : BOOLEAN]
        /\ telling'.to = telling.to \ {r}
        /\ telling'.signal = telling.signal
        /\ telling'.sender = telling.sender
    <3> DEFINE t == [telling EXCEPT !.to = telling.to \ {r}]
    <3>1. /\ t \in [signal : ConnectionSignals \union {"none"},
                    sender : Connections \union {NoConnection},
                    to : SUBSET Runners, inSlot : BOOLEAN]
          /\ t.to = telling.to \ {r} /\ t.signal = telling.signal
          /\ t.sender = telling.sender
      BY <1>1
    <3>2. Without(telling, r) = t
      BY <1>3 DEF Without
    <3> HIDE DEF t
    <3>3. CASE Heard(r, inSlot)
      <4> DEFINE b == inSlot /\ telling.to # {r}
      <4>1. telling' = [t EXCEPT !.inSlot = b]
        BY <3>2, <3>3 DEF Heard
      <4>2. b \in BOOLEAN
        OBVIOUS
      <4> HIDE DEF b
      <4> QED BY <3>1, <4>1, <4>2
    <3> QED BY <3>1, <3>2, <3>3
  <2>2. telling'.to # {}
    BY <1>3, <2>1
  <2>3. ASSUME NEW q \in telling'.to
        PROVE  /\ telling'.sender \in Connections
               /\ connection'[q] = telling'.sender
               /\ telling'.signal = "disconnected" => state'[q] # "ProcessRunning"
    BY <2>1, <1>1 DEF Listeners
  <2> QED BY <2>1, <2>2, <2>3 DEF Listeners
<1> QED BY <1>2, <1>3
-----------------------------------------------------------------------------
LEMMA TellingHolder ==
    ASSUME IInv, NEW r \in telling.to
    PROVE  /\ r \in Runners
           /\ connection[r] \in Connections
           /\ connection[r] = telling.sender
           /\ state[r] # "Inactive"
  BY RunnersAssumption DEF IInv, Listeners, RunnerTypes

LEMMA BusyHolder ==
    ASSUME IInv, NEW r \in Runners
    PROVE  state[r] # "Inactive" <=> connection[r] \in Connections
  BY RunnersAssumption DEF IInv, RunnerTypes

(* A run ends while the event loop is not the one who waits. *)
LEMMA EndedInside ==
    ASSUME IInv, NEW r \in Runners, state[r] # "Inactive", NEW inSlot \in BOOLEAN,
           NEW signal, SetInactive(r, signal, events),
           telling' = Without(telling, r) \/ (r \in telling.to /\ Heard(r, inSlot))
    PROVE  IInv'
<1>1. connection[r] \in Connections
  BY BusyHolder
<1>2. events \in Seq(Event) /\ Pieces(events) /\ Listeners /\ ErrorIsHeard
      /\ RunnerTypes
  BY DEF IInv, LinkTypes, InOnePiece
<1>3. /\ LinkTypes' /\ PoolTypes' /\ RunnerTypes'
      /\ OneCached' /\ HeldIsAcquired' /\ AliveExist' /\ InOnePiece'
      /\ \A c \in Connections : GoneIsNext(events', c) => GoneIsNext(events, c)
      /\ state' = [state EXCEPT ![r] = "Inactive"]
      /\ connection' = [connection EXCEPT ![r] = NoConnection]
  BY <1>1, <1>2, Deactivated
<1>4. \A q \in Runners : q # r =>
          connection'[q] = connection[q] /\ state'[q] = state[q]
  BY <1>2, <1>3 DEF RunnerTypes
<1>5. /\ Listeners'
      /\ telling'.to = telling.to \ {r}
      /\ telling'.to # {} => telling'.signal = telling.signal
  BY <1>2, <1>4, FewerListeners
<1>6. ErrorIsHeard'
  <2> SUFFICES ASSUME NEW c \in Connections, GoneIsNext(events', c), NEW q \in Runners,
                      connection'[q] = c, state'[q] = "ProcessRunning"
               PROVE  telling'.signal = "error" /\ q \in telling'.to
    BY DEF ErrorIsHeard
  <2>1. q # r
    BY <1>2, <1>3 DEF RunnerTypes
  <2>2. telling.signal = "error" /\ q \in telling.to
    BY <1>2, <1>3, <1>4, <2>1 DEF ErrorIsHeard
  <2> QED BY <1>5, <2>1, <2>2
<1> QED BY <1>3, <1>5, <1>6 DEF IInv

LEMMA ContractEnd ==
    ASSUME RunnerTypes, NEW r \in Runners, state[r] # "Inactive",
           NEW signal \in {"processClosed", "connectionError", "canceled"},
           NEW posted, SetInactive(r, signal, posted)
    PROVE  ContractStep
<1>1. Seen(state[r]) \in {"starting", "running"} /\ Seen("Inactive") = "idle"
  BY DEF Seen, RunnerTypes
<1>2. Contract!Step(r, {"starting", "running"}, "idle", signal)
  BY <1>1, OneRunnerSteps DEF SetInactive
<1> QED BY <1>2 DEF ContractStep, Contract!Next

LEMMA CancelGood ==
    ASSUME IInv, NEW r \in Runners, Cancel(r)
    PROVE  IInv' /\ ContractStep
<1>1. IInv'
  <2>1. /\ state[r] # "Inactive" /\ SetInactive(r, "canceled", events)
        /\ telling' = Without(telling, r)
    BY DEF Cancel
  <2> QED BY <2>1, FALSE \in BOOLEAN, EndedInside
<1>2. ContractStep
  BY ContractEnd DEF Cancel, IInv
<1> QED BY <1>1, <1>2

LEMMA HandleConnectionErrorGood ==
    ASSUME IInv, NEW r \in Runners, HandleConnectionError(r)
    PROVE  IInv' /\ ContractStep
<1>1. r \in telling.to /\ state[r] # "Inactive"
  BY TellingHolder DEF HandleConnectionError
<1>2. IInv'
  <2>1. SetInactive(r, "connectionError", events) /\ Heard(r, TRUE)
    BY DEF HandleConnectionError
  <2> QED BY <1>1, <2>1, TRUE \in BOOLEAN, EndedInside
<1>3. ContractStep
  BY <1>1, ContractEnd DEF HandleConnectionError, IInv
<1> QED BY <1>2, <1>3

(* The end without a signal is one before the process was started.         *)
LEMMA HandleDisconnectedGood ==
    ASSUME IInv, NEW r \in Runners, HandleDisconnected(r)
    PROVE  IInv' /\ ContractStep
<1>1. r \in telling.to /\ state[r] # "Inactive"
  BY TellingHolder DEF HandleDisconnected
<1>2. IInv'
  <2>1. SetInactive(r, "nothing", events) /\ Heard(r, FALSE)
    BY DEF HandleDisconnected
  <2> QED BY <1>1, <2>1, FALSE \in BOOLEAN, EndedInside
<1>3. ContractStep
  <2>1. state[r] # "ProcessRunning" /\ RunnerTypes
    BY <1>1 DEF HandleDisconnected, IInv, Listeners
  <2>2. Seen(state[r]) \in {"starting"} /\ Seen("Inactive") = "idle"
    BY <1>1, <2>1 DEF Seen, RunnerTypes
  <2>3. Contract!Step(r, {"starting"}, "idle", "nothing")
    BY <2>1, <2>2, OneRunnerSteps DEF HandleDisconnected, SetInactive
  <2> QED BY <2>3 DEF ContractStep, Contract!Next
<1> QED BY <1>2, <1>3

(* The next signal is one of a process: no connection is gone behind it.   *)
LEMMA ProcessSignalNext ==
    ASSUME IInv, NEW r \in Runners, NEW signal \in ProcessSignals,
           events # <<>>, Head(events) = <<signal, r>>
    PROVE  /\ Tail(events) \in Seq(Event) /\ Pieces(Tail(events))
           /\ \A c \in Connections : ~GoneIsNext(Tail(events), c)
<1>1. events \in Seq(Event) /\ Pieces(events)
  BY DEF IInv, LinkTypes, InOnePiece
<1>2. \A c \in Connections : Head(events) # <<"error", c>>
  BY DEF ProcessSignals
<1> QED BY <1>1, <1>2, TailPieces

LEMMA HandleProcessFinishedGood ==
    ASSUME IInv, NEW r \in Runners, HandleProcessFinished(r)
    PROVE  IInv' /\ ContractStep
<1>1. PICK signal \in {"failedToStart", "closed"} :
          /\ events # <<>> /\ Head(events) = <<signal, r>>
          /\ telling' = telling
          /\ state[r] # "Inactive"
          /\ SetInactive(r, "processClosed", Tail(events))
  BY DEF HandleProcessFinished, ProcessSignal
<1>2. telling = Nothing
  BY DEF HandleProcessFinished, ProcessSignal, InEventLoop
<1>3. /\ Tail(events) \in Seq(Event) /\ Pieces(Tail(events))
      /\ \A c \in Connections : ~GoneIsNext(Tail(events), c)
  BY <1>1, ProcessSignalNext DEF ProcessSignals
<1>4. connection[r] \in Connections
  BY <1>1, BusyHolder
<1>5. /\ LinkTypes' /\ PoolTypes' /\ RunnerTypes'
      /\ OneCached' /\ HeldIsAcquired' /\ AliveExist' /\ InOnePiece'
      /\ \A c \in Connections : GoneIsNext(events', c) => GoneIsNext(Tail(events), c)
  BY <1>1, <1>3, <1>4, Deactivated
<1>6. ErrorIsHeard'
  BY <1>3, <1>5 DEF ErrorIsHeard
<1>7. Listeners'
  BY <1>1, <1>2 DEF IInv, Listeners, Nothing
<1>8. ContractStep
  BY <1>1, ContractEnd DEF IInv
<1> QED BY <1>5, <1>6, <1>7, <1>8 DEF IInv

LEMMA HandleProcessStartedGood ==
    ASSUME IInv, NEW r \in Runners, HandleProcessStarted(r)
    PROVE  IInv' /\ ContractStep
<1>1. /\ events # <<>> /\ Head(events) = <<"started", r>>
      /\ telling = Nothing /\ telling' = telling
      /\ state[r] = "Connected"
      /\ state' = [state EXCEPT ![r] = "ProcessRunning"]
      /\ report' = [report EXCEPT ![r] = "processStarted"]
      /\ events' = Tail(events)
      /\ UNCHANGED <<link, managerVars, connection>>
  BY DEF HandleProcessStarted, ProcessSignal, InEventLoop
<1>2. /\ Tail(events) \in Seq(Event) /\ Pieces(Tail(events))
      /\ \A c \in Connections : ~GoneIsNext(Tail(events), c)
  BY <1>1, ProcessSignalNext DEF ProcessSignals
<1>3. LinkTypes' /\ InOnePiece' /\ ErrorIsHeard'
  BY <1>1, <1>2 DEF IInv, LinkTypes, InOnePiece, ErrorIsHeard
<1>4. PoolTypes' /\ OneCached' /\ HeldIsAcquired' /\ AliveExist'
  BY <1>1 DEF IInv, managerVars, PoolTypes, OneCached, HeldIsAcquired, Holders,
              AliveExist, Alive, Places
<1>5. RunnerTypes'
  BY <1>1 DEF IInv, RunnerTypes
<1>6. Listeners'
  BY <1>1 DEF IInv, Listeners, Nothing
<1>7. ContractStep
  <2>1. Seen(state[r]) \in {"starting"} /\ Seen("ProcessRunning") = "running"
    BY <1>1 DEF Seen
  <2>2. Contract!Step(r, {"starting"}, "running", "processStarted")
    BY <1>1, <2>1, OneRunnerSteps DEF IInv
  <2> QED BY <2>2 DEF ContractStep, Contract!Next
<1> QED BY <1>3, <1>4, <1>5, <1>6, <1>7 DEF IInv

LEMMA HandleConnectedGood ==
    ASSUME IInv, NEW r \in Runners, HandleConnected(r)
    PROVE  IInv' /\ ContractStep
<1>1. /\ r \in telling.to /\ telling.signal = "connected" /\ Heard(r, FALSE)
      /\ \/ state' = state
         \/ state[r] = "Connecting" /\ state' = [state EXCEPT ![r] = "Connected"]
      /\ UNCHANGED <<link, events, managerVars, connection, report>>
  BY DEF HandleConnected, StartProcess
<1>2. Listeners /\ RunnerTypes /\ ErrorIsHeard
  BY DEF IInv
<1>3. \A q \in Runners : q # r =>
          connection'[q] = connection[q] /\ state'[q] = state[q]
  BY <1>1, <1>2 DEF RunnerTypes
<1>4. Listeners'
  BY <1>1, <1>2, <1>3, FALSE \in BOOLEAN, FewerListeners
<1>5. /\ LinkTypes' /\ PoolTypes' /\ OneCached' /\ HeldIsAcquired'
      /\ AliveExist' /\ InOnePiece'
  BY <1>1 DEF IInv, LinkTypes, managerVars, PoolTypes, OneCached, HeldIsAcquired,
              Holders, AliveExist, Alive, Places, InOnePiece
<1>6. RunnerTypes'
  BY <1>1, <1>2 DEF RunnerTypes
<1>7. ErrorIsHeard'
  <2> SUFFICES ASSUME NEW c \in Connections, GoneIsNext(events', c), NEW q \in Runners,
                      connection'[q] = c, state'[q] = "ProcessRunning"
               PROVE  FALSE
    BY DEF ErrorIsHeard
  <2>1. state[q] = "ProcessRunning"
    BY <1>1, <1>2 DEF RunnerTypes
  <2> QED BY <1>1, <1>2, <2>1 DEF ErrorIsHeard
<1>8. ContractStep
  <2>1. ASSUME NEW q \in Runners
        PROVE  Seen(state'[q]) = Seen(state[q])
    <3>1. state'[q] = state[q] \/ (state'[q] = "Connected" /\ state[q] = "Connecting")
      BY <1>1, <1>2 DEF RunnerTypes
    <3> QED BY <3>1 DEF Seen
  <2>2. RunState' = [q \in Runners |-> Seen(state'[q])]
    BY DEF RunState
  <2>3. RunState' = RunState
    BY <2>1, <2>2 DEF RunState
  <2> QED BY <1>1, <2>3 DEF ContractStep
<1> QED BY <1>4, <1>5, <1>6, <1>7, <1>8 DEF IInv

(* A new run shares, takes over or opens a connection. *)
LEMMA RunGood ==
    ASSUME IInv, NEW r \in Runners, Run(r)
    PROVE  IInv' /\ ContractStep
<1>1. PICK c \in Connections :
          /\ AcquireConnection(c)
          /\ connection' = [connection EXCEPT ![r] = c]
          /\ \/ /\ link[c] = "Connected"
                /\ state' = [state EXCEPT ![r] = "Connected"]
                /\ UNCHANGED <<link, events>>
             \/ /\ link[c] # "Connected"
                /\ state' = [state EXCEPT ![r] = "Connecting"]
                /\ IF link[c] = "Connecting"
                   THEN UNCHANGED <<link, events>>
                   ELSE ConnectToHost(c)
  BY DEF Run, StartProcess
<1>2. /\ state[r] = "Inactive"
      /\ report' = [report EXCEPT ![r] = "none"]
      /\ telling' = telling
  BY DEF Run
<1>3. /\ LinkTypes /\ RunnerTypes /\ HeldIsAcquired /\ AliveExist
      /\ Listeners /\ ErrorIsHeard /\ Pieces(events)
  BY DEF IInv, InOnePiece
<1>4. /\ PoolTypes'
      /\ OneCached'
      /\ \A d \in Connections : d \in Alive' <=> d \in Alive \/ d = c
      /\ \A d \in Connections :
           /\ Cardinality(Places(acquired, {d})) \in Nat
           /\ Cardinality(Places(acquired', {d})) =
                Cardinality(Places(acquired, {d})) + IF d = c THEN 1 ELSE 0
  BY <1>1, Acquired
<1>5. PICK s \in {"Connecting", "Connected"} : state' = [state EXCEPT ![r] = s]
  BY <1>1
<1>6. /\ link' \in [Connections -> {"none", "Unconnected", "Connecting", "Connected"}]
      /\ link'[c] # "none"
      /\ \A d \in Connections : d # c => link'[d] = link[d]
  <2>1. CASE UNCHANGED link /\ link[c] \in {"Connected", "Connecting"}
    BY <2>1, <1>3 DEF LinkTypes
  <2>2. CASE link' = [link EXCEPT ![c] = "Connecting"]
    BY <2>2, <1>3 DEF LinkTypes
  <2>3. CASE link' = [link EXCEPT ![c] = "Unconnected"]
    BY <2>3, <1>3 DEF LinkTypes
  <2> QED BY <1>1, <2>1, <2>2, <2>3 DEF ConnectToHost
<1>7. /\ events' \in Seq(Event) /\ Pieces(events')
      /\ \A d \in Connections : GoneIsNext(events', d) => GoneIsNext(events, d)
  <2>1. CASE events' = events
    BY <2>1, <1>3 DEF LinkTypes
  <2>2. CASE events' = Append(events, <<"error", c>>)
    <3> DEFINE e == <<"error", c>>
    <3>1. e \in Event /\ e[1] # "disconnected"
      BY DEF Event, ConnectionSignals
    <3>2. events' = Append(events, e)
      BY <2>2
    <3> HIDE DEF e
    <3>3. events \in Seq(Event)
      BY <1>3 DEF LinkTypes
    <3>4. /\ Append(events, e) \in Seq(Event) /\ Pieces(Append(events, e))
          /\ \A d \in Connections : GoneIsNext(Append(events, e), d) => GoneIsNext(events, d)
      BY <1>3, <3>1, <3>3, AppendPieces
    <3> QED BY <3>2, <3>4
  <2> QED BY <1>1, <2>1, <2>2 DEF ConnectToHost
<1>8. LinkTypes' /\ InOnePiece'
  BY <1>6, <1>7 DEF LinkTypes, InOnePiece
<1>9. AliveExist'
  BY <1>3, <1>4, <1>6 DEF AliveExist
<1>10. RunnerTypes'
  BY <1>1, <1>3, <1>5, RunnersAssumption DEF RunnerTypes
<1>11. HeldIsAcquired'
  <2> SUFFICES ASSUME NEW d \in Connections
               PROVE  Cardinality(HoldersIn(connection', d)) =
                          Cardinality(Places(acquired', {d}))
    BY DEF HeldIsAcquired, Holders, HoldersIn
  <2>1. connection \in [Runners -> Connections \union {NoConnection}]
        /\ connection[r] = NoConnection
    BY <1>2, <1>3 DEF RunnerTypes
  <2>2. /\ Cardinality(HoldersIn(connection, d)) \in Nat
        /\ Cardinality(HoldersIn(connection', d)) =
             Cardinality(HoldersIn(connection, d)) + IF d = c THEN 1 ELSE 0
    <3>1. connection'[r] = c /\ \A q \in Runners : q # r => connection'[q] = connection[q]
      BY <1>1, <2>1
    <3> QED BY <2>1, <3>1, OneMoreHolder
  <2>3. Cardinality(HoldersIn(connection, d)) = Cardinality(Places(acquired, {d}))
    BY <1>3 DEF HeldIsAcquired, Holders, HoldersIn
  <2> QED BY <2>2, <2>3, <1>4
<1>12. \A q \in Runners : q # r =>
           connection'[q] = connection[q] /\ state'[q] = state[q]
  BY <1>1, <1>3, <1>5 DEF RunnerTypes
<1>13. r \notin telling.to
  BY <1>2, TellingHolder
<1>14. Listeners'
  <2>1. ASSUME NEW q \in telling.to
        PROVE  q \in Runners /\ q # r
    BY <1>13, TellingHolder
  <2> QED BY <1>2, <1>3, <1>12, <2>1 DEF Listeners
<1>15. ErrorIsHeard'
  <2> SUFFICES ASSUME NEW d \in Connections, GoneIsNext(events', d), NEW q \in Runners,
                      connection'[q] = d, state'[q] = "ProcessRunning"
               PROVE  telling'.signal = "error" /\ q \in telling'.to
    BY DEF ErrorIsHeard
  <2>1. q # r
    BY <1>3, <1>5 DEF RunnerTypes
  <2> QED BY <1>2, <1>3, <1>7, <1>12, <2>1 DEF ErrorIsHeard
<1>16. ContractStep
  <2>1. Seen(state[r]) \in {"idle"} /\ Seen(s) = "starting"
    BY <1>2 DEF Seen
  <2>2. Contract!Step(r, {"idle"}, "starting", "none")
    BY <1>2, <1>3, <1>5, <2>1, OneRunnerSteps
  <2> QED BY <2>2 DEF ContractStep, Contract!Next
<1> QED BY <1>4, <1>8, <1>9, <1>10, <1>11, <1>14, <1>15, <1>16 DEF IInv

LEMMA CallForceNewConnectionGood ==
    ASSUME IInv, CallForceNewConnection
    PROVE  IInv' /\ ContractStep
<1>1. /\ unacquired \o acquired # <<>>
      /\ deprecated' = deprecated \union {Head(unacquired \o acquired)}
      /\ UNCHANGED <<link, unacquired, acquired, events, state, connection, report, telling>>
  BY DEF CallForceNewConnection, ForceNewConnection, runnerVars
<1>2. PoolTypes /\ AliveExist
  BY DEF IInv
<1> DEFINE c == Head(unacquired \o acquired)
<1>3. c \in Connections /\ c \in Alive
  <2>1. acquired \in Seq(Connections) /\ unacquired \in Seq(Connections)
    BY <1>2 DEF PoolTypes
  <2>2. CASE unacquired # <<>>
    <3>1. c = unacquired[1] /\ 1 \in 1..Len(unacquired)
      BY <2>1, <2>2, <1>1
    <3> QED BY <1>2, <2>1, <3>1, AliveElements
  <2>3. CASE unacquired = <<>>
    <3>1. unacquired \o acquired = acquired
      BY <2>1, <2>3, ConcatEmptySeq
    <3>2. c = acquired[1] /\ 1 \in 1..Len(acquired)
      BY <2>1, <1>1, <3>1
    <3> QED BY <1>2, <2>1, <3>2, AliveElements
  <2> QED BY <2>2, <2>3
<1> HIDE DEF c
<1>4. deprecated' = deprecated \union {c}
  BY <1>1 DEF c
<1>5. PoolTypes' /\ AliveExist'
  BY <1>1, <1>2, <1>3, <1>4 DEF PoolTypes, AliveExist, Alive
<1>6. /\ LinkTypes' /\ RunnerTypes' /\ OneCached' /\ HeldIsAcquired' /\ Listeners'
      /\ InOnePiece' /\ ErrorIsHeard'
  BY <1>1 DEF IInv, LinkTypes, RunnerTypes, OneCached, HeldIsAcquired, Holders, Places,
              Listeners, InOnePiece, ErrorIsHeard
<1>7. ContractStep
  BY <1>1 DEF ContractStep, RunState
<1> QED BY <1>5, <1>6, <1>7 DEF IInv
-----------------------------------------------------------------------------
(* The event loop delivers a signal; the first slot may be cleanup().      *)
LEMMA EmitGood ==
    ASSUME IInv, NEW c \in Connections, Emit(c)
    PROVE  IInv' /\ ContractStep
<1> DEFINE signal == Head(events)[1]
           to == {r \in Runners : /\ connection[r] = c
                                  /\ signal = "connected" => r \in awaited}
<1>1. /\ telling = Nothing /\ events # <<>> /\ Head(events)[2] = c
      /\ telling' = IF to = {} THEN Nothing
                    ELSE [signal |-> signal, sender |-> c, to |-> to, inSlot |-> FALSE]
      /\ IF signal = "disconnected" THEN Cleanup(c) ELSE UNCHANGED managerVars
      /\ DeleteUnused(Tail(events))
      /\ UNCHANGED <<state, connection, process, report>>
  BY DEF Emit, InEventLoop, runnerVars
<1>2. /\ LinkTypes /\ PoolTypes /\ RunnerTypes /\ OneCached /\ HeldIsAcquired
      /\ ErrorIsHeard /\ Pieces(events) /\ events \in Seq(Event)
  BY DEF IInv, LinkTypes, InOnePiece
<1>3. signal \in ConnectionSignals /\ Head(events) = <<signal, c>> /\ Head(events) = events[1]
  <2>1. Head(events) \in Event /\ Head(events) = events[1]
    BY <1>1, <1>2
  <2> QED BY <1>1, <2>1, RunnersAssumption DEF Event
<1>4. /\ Tail(events) \in Seq(Event) /\ Pieces(Tail(events))
      /\ \A d \in Connections :
            GoneIsNext(Tail(events), d) => Head(events) = <<"error", d>>
  BY <1>1, <1>2, TailPieces
<1>5. /\ PoolTypes' /\ OneCached' /\ HeldIsAcquired'
      /\ \A d \in Connections : d \in Alive' => d \in Alive
  <2>1. CASE UNCHANGED managerVars
    BY <1>1, <1>2, <2>1 DEF managerVars, PoolTypes, OneCached, HeldIsAcquired, Holders,
                            Places, Alive
  <2>2. CASE Cleanup(c)
    <3> DEFINE P == Connections \ {c}
               t == Only(unacquired, P)
    <3>1. /\ unacquired' = t /\ acquired' = acquired /\ deprecated' = deprecated
          /\ unacquired \in Seq(Connections)
      BY <1>2, <2>2 DEF Cleanup, PoolTypes
    <3>2. /\ t \in Seq(Connections) /\ Len(t) <= Len(unacquired)
          /\ \A j \in 1..Len(t) : \E i \in 1..Len(unacquired) : t[j] = unacquired[i]
      <4> HIDE DEF P
      <4>1. t = Only(unacquired, P)
        OBVIOUS
      <4> HIDE DEF t
      <4> QED BY <3>1, <4>1, OnlyType
    <3> HIDE DEF t
    <3>3. PoolTypes'
      BY <1>2, <3>1, <3>2 DEF PoolTypes
    <3>4. OneCached'
      <4>1. Len(unacquired') <= 1
        BY <1>2, <3>1, <3>2 DEF OneCached
      <4>2. ASSUME NEW j \in 1..Len(unacquired'), NEW k \in 1..Len(acquired')
            PROVE  unacquired'[j] # acquired'[k]
        BY <1>2, <3>1, <3>2 DEF OneCached
      <4> QED BY <4>1, <4>2 DEF OneCached
    <3>5. HeldIsAcquired'
      BY <1>1, <1>2, <3>1 DEF HeldIsAcquired, Holders, Places
    <3>6. \A d \in Connections : d \in Range(t) => d \in Range(unacquired)
      <4>1. \A s \in Seq(Connections), d \in Connections :
                d \in Range(s) <=> \E i \in 1..Len(s) : s[i] = d
        BY RangeElements
      <4> TAKE d \in Connections
      <4> HAVE d \in Range(t)
      <4>2. PICK j \in 1..Len(t) : t[j] = d
        BY <3>2, <4>1
      <4>3. PICK i \in 1..Len(unacquired) : unacquired[i] = d
        BY <3>2, <4>2
      <4> QED BY <3>1, <4>1, <4>3
    <3>7. \A d \in Connections : d \in Alive' => d \in Alive
      BY <3>1, <3>6 DEF Alive
    <3> QED BY <3>3, <3>4, <3>5, <3>7
  <2> QED BY <1>1, <2>1, <2>2
<1>6. /\ LinkTypes' /\ AliveExist' /\ InOnePiece'
      /\ \A d \in Connections : GoneIsNext(events', d) => GoneIsNext(Tail(events), d)
  BY <1>1, <1>4, <1>5, UnusedDeleted
<1>7. RunnerTypes'
  BY <1>1, <1>2 DEF RunnerTypes
<1>8. Listeners'
  <2>1. CASE to = {}
    <3>1. telling' = telling
      BY <1>1, <2>1
    <3> QED BY <1>1, <3>1 DEF IInv, Listeners, Nothing
  <2>2. CASE to # {}
    <3>1. /\ telling' \in [signal : ConnectionSignals \union {"none"},
                           sender : Connections \union {NoConnection},
                           to : SUBSET Runners, inSlot : BOOLEAN]
          /\ telling'.to = to /\ telling'.sender = c /\ telling'.signal = signal
      <4>1. to \subseteq Runners
        OBVIOUS
      <4> HIDE DEF to, signal
      <4> QED BY <1>1, <1>3, <2>2, <4>1
    <3>2. ASSUME NEW r \in to, signal = "disconnected"
          PROVE  state[r] # "ProcessRunning"
      <4>1. GoneIsNext(events, c)
        BY <1>1, <1>3, <3>2 DEF GoneIsNext
      <4>2. telling.signal # "error"
        BY <1>1 DEF Nothing
      <4> QED BY <1>2, <4>1, <4>2 DEF ErrorIsHeard
    <3> QED BY <1>1, <2>2, <3>1, <3>2 DEF Listeners
  <2> QED BY <2>1, <2>2
<1>9. ErrorIsHeard'
  <2> SUFFICES ASSUME NEW d \in Connections, GoneIsNext(events', d), NEW q \in Runners,
                      connection'[q] = d, state'[q] = "ProcessRunning"
               PROVE  telling'.signal = "error" /\ q \in telling'.to
    BY DEF ErrorIsHeard
  <2>1. signal = "error" /\ d = c
    BY <1>3, <1>4, <1>6
  <2>2. q \in to
    BY <1>1, <2>1
  <2> HIDE DEF to, signal
  <2> QED BY <1>1, <2>1, <2>2
<1>10. ContractStep
  BY <1>1 DEF ContractStep, RunState
<1> QED BY <1>5, <1>6, <1>7, <1>8, <1>9, <1>10 DEF IInv

(* What happens to connections and processes meanwhile. *)
LEMMA PostedGood ==
    ASSUME IInv,
           link' \in [Connections -> {"none", "Unconnected", "Connecting", "Connected"}],
           \A c \in Connections : link'[c] = "none" <=> link[c] = "none",
           events' \in Seq(Event), Pieces(events'),
           \A c \in Connections : GoneIsNext(events', c) => GoneIsNext(events, c),
           UNCHANGED <<managerVars, state, connection, report, telling>>
    PROVE  IInv' /\ ContractStep
<1>1. LinkTypes' /\ InOnePiece' /\ ErrorIsHeard'
  BY DEF IInv, LinkTypes, InOnePiece, ErrorIsHeard
<1>2. PoolTypes' /\ OneCached' /\ HeldIsAcquired' /\ AliveExist'
  <2>1. UNCHANGED <<unacquired, acquired, deprecated, connection>>
    BY DEF managerVars
  <2>2. PoolTypes' /\ OneCached'
    BY <2>1 DEF IInv, PoolTypes, OneCached
  <2>3. HeldIsAcquired'
    BY <2>1 DEF IInv, HeldIsAcquired, Holders, Places
  <2>4. AliveExist'
    BY <2>1 DEF IInv, AliveExist, Alive
  <2> QED BY <2>2, <2>3, <2>4
<1>3. RunnerTypes' /\ Listeners'
  BY DEF IInv, RunnerTypes, Listeners
<1>4. ContractStep
  BY DEF ContractStep, RunState
<1> QED BY <1>1, <1>2, <1>3, <1>4 DEF IInv

LEMMA AttemptEndsGood ==
    ASSUME IInv, NEW c \in Connections, AttemptEnds(c)
    PROVE  IInv' /\ ContractStep
<1>1. PICK to \in {"Connected", "Unconnected"}, signal \in {"connected", "error"} :
          /\ link[c] = "Connecting"
          /\ link' = [link EXCEPT ![c] = to]
          /\ events' = Append(events, <<signal, c>>)
  BY DEF AttemptEnds, Established, AttemptFails
<1>2. UNCHANGED <<managerVars, state, connection, report, telling>>
  BY DEF AttemptEnds, runnerVars
<1>3. LinkTypes /\ Pieces(events) /\ events \in Seq(Event)
  BY DEF IInv, LinkTypes, InOnePiece
<1>4. /\ link' \in [Connections -> {"none", "Unconnected", "Connecting", "Connected"}]
      /\ \A d \in Connections : link'[d] = "none" <=> link[d] = "none"
  BY <1>1, <1>3 DEF LinkTypes
<1> DEFINE e == <<signal, c>>
<1>5. e \in Event /\ e[1] # "disconnected"
  BY DEF Event, ConnectionSignals
<1>6. events' = Append(events, e)
  BY <1>1
<1> HIDE DEF e
<1>7. /\ Append(events, e) \in Seq(Event) /\ Pieces(Append(events, e))
      /\ \A d \in Connections : GoneIsNext(Append(events, e), d) => GoneIsNext(events, d)
  BY <1>3, <1>5, AppendPieces
<1> QED BY <1>2, <1>4, <1>6, <1>7, PostedGood

LEMMA ConnectionIsLostGood ==
    ASSUME IInv, NEW c \in Connections, ConnectionIsLost(c)
    PROVE  IInv' /\ ContractStep
<1>1. /\ link[c] = "Connected" /\ link' = [link EXCEPT ![c] = "Unconnected"]
      /\ events' = events \o <<<<"error", c>>, <<"disconnected", c>>>>
  BY DEF ConnectionIsLost, Lost
<1>2. UNCHANGED <<managerVars, state, connection, report, telling>>
  BY DEF ConnectionIsLost
<1>3. LinkTypes /\ Pieces(events) /\ events \in Seq(Event)
  BY DEF IInv, LinkTypes, InOnePiece
<1>4. /\ link' \in [Connections -> {"none", "Unconnected", "Connecting", "Connected"}]
      /\ \A d \in Connections : link'[d] = "none" <=> link[d] = "none"
  BY <1>1, <1>3 DEF LinkTypes
<1>5. PICK t : t = events' /\ t = events \o <<<<"error", c>>, <<"disconnected", c>>>>
  BY <1>1
<1>6. /\ t \in Seq(Event) /\ Pieces(t)
      /\ \A d \in Connections : GoneIsNext(t, d) => GoneIsNext(events, d)
  BY <1>3, <1>5, LostPieces, Zenon
<1>7. events' = t
  BY <1>5
<1> QED BY <1>2, <1>4, <1>6, <1>7, PostedGood

LEMMA ProcessGood ==
    ASSUME IInv, NEW r \in Runners, NEW from, NEW to, NEW signal \in ProcessSignals,
           Process(r, from, to, signal)
    PROVE  IInv' /\ ContractStep
<1>1. /\ events' = Append(events, <<signal, r>>)
      /\ UNCHANGED <<link, managerVars, state, connection, report, telling>>
  BY DEF Process
<1>2. LinkTypes /\ Pieces(events) /\ events \in Seq(Event)
  BY DEF IInv, LinkTypes, InOnePiece
<1> DEFINE e == <<signal, r>>
<1>3. e \in Event /\ e[1] # "disconnected"
  BY DEF Event, ProcessSignals
<1>4. events' = Append(events, e)
  BY <1>1
<1> HIDE DEF e
<1>5. /\ Append(events, e) \in Seq(Event) /\ Pieces(Append(events, e))
      /\ \A d \in Connections : GoneIsNext(Append(events, e), d) => GoneIsNext(events, d)
  BY <1>2, <1>3, AppendPieces
<1>6. /\ link' \in [Connections -> {"none", "Unconnected", "Connecting", "Connected"}]
      /\ \A d \in Connections : link'[d] = "none" <=> link[d] = "none"
  BY <1>1, <1>2 DEF LinkTypes
<1>7. UNCHANGED <<managerVars, state, connection, report, telling>>
  BY <1>1
<1> QED BY <1>4, <1>5, <1>6, <1>7, PostedGood
-----------------------------------------------------------------------------
LEMMA InitGood ==
    Init => IInv /\ Contract!Init
<1> SUFFICES ASSUME Init
             PROVE  IInv /\ Contract!Init
  OBVIOUS
<1>1. /\ link = [c \in Connections |-> "none"]
      /\ unacquired = <<>> /\ acquired = <<>> /\ deprecated = {} /\ events = <<>>
      /\ state = [r \in Runners |-> "Inactive"]
      /\ connection = [r \in Runners |-> NoConnection]
      /\ report = [r \in Runners |-> "none"]
      /\ telling = Nothing
  BY DEF Init, ManagerInit
<1>2. LinkTypes /\ PoolTypes /\ RunnerTypes /\ OneCached /\ InOnePiece /\ ErrorIsHeard
  BY <1>1 DEF LinkTypes, PoolTypes, RunnerTypes, OneCached, InOnePiece, Pieces,
              ErrorIsHeard, GoneIsNext
<1>3. HeldIsAcquired
  <2> SUFFICES ASSUME NEW c \in Connections
               PROVE  Cardinality(Holders(c)) = Cardinality(Places(acquired, {c}))
    BY DEF HeldIsAcquired
  <2>1. Holders(c) = {} /\ Places(acquired, {c}) = {}
    BY <1>1, RunnersAssumption DEF Holders, Places
  <2> QED BY <2>1
<1>4. AliveExist
  BY <1>1 DEF AliveExist, Alive, Range
<1>5. Listeners
  BY <1>1 DEF Listeners, Nothing
<1>6. Contract!Init
  <2>1. RunState = [r \in Runners |-> "idle"]
    <3>1. Seen("Inactive") = "idle"
      BY DEF Seen
    <3> QED BY <1>1, <3>1 DEF RunState
  <2> QED BY <1>1, <2>1 DEF Contract!Init
<1> QED BY <1>2, <1>3, <1>4, <1>5, <1>6 DEF IInv

LEMMA NextGood ==
    IInv /\ [Next]_vars => IInv' /\ ContractStep
<1> SUFFICES ASSUME IInv, [Next]_vars
             PROVE  IInv' /\ ContractStep
  OBVIOUS
<1>1. ASSUME NEW c \in Connections, Emit(c)
      PROVE  IInv' /\ ContractStep
  BY <1>1, EmitGood
<1>2. ASSUME NEW r \in Runners,
             \/ HandleConnected(r) \/ HandleConnectionError(r) \/ HandleDisconnected(r)
             \/ HandleProcessStarted(r) \/ HandleProcessFinished(r)
      PROVE  IInv' /\ ContractStep
  BY <1>2, HandleConnectedGood, HandleConnectionErrorGood, HandleDisconnectedGood,
     HandleProcessStartedGood, HandleProcessFinishedGood
<1>3. CASE CallForceNewConnection
  BY <1>3, CallForceNewConnectionGood
<1>4. ASSUME NEW r \in Runners, Run(r) \/ Cancel(r)
      PROVE  IInv' /\ ContractStep
  BY <1>4, RunGood, CancelGood
<1>5. ASSUME NEW c \in Connections, AttemptEnds(c) \/ ConnectionIsLost(c)
      PROVE  IInv' /\ ContractStep
  BY <1>5, AttemptEndsGood, ConnectionIsLostGood
<1>6. ASSUME NEW r \in Runners, ProcessStartEnds(r) \/ ProcessEnds(r)
      PROVE  IInv' /\ ContractStep
  <2>1. {"started", "failedToStart", "closed"} = ProcessSignals
    BY DEF ProcessSignals
  <2> QED BY <1>6, <2>1, ProcessGood DEF ProcessStartEnds, ProcessEnds
<1>7. CASE UNCHANGED vars
  <2>1. UNCHANGED <<link, events, managerVars, state, connection, report, telling>>
    BY <1>7 DEF vars, runnerVars
  <2> QED BY <2>1, PostedGood DEF IInv, LinkTypes, InOnePiece
<1> QED BY <1>1, <1>2, <1>3, <1>4, <1>5, <1>6, <1>7
        DEF Next, EventLoop, User, Environment

(* The inductive invariant. *)
LEMMA RunnerInvariance == Spec => []IInv
<1> QED BY InitGood, NextGood, PTL DEF Spec
-----------------------------------------------------------------------------
LEMMA InvPools == IInv => PoolsAgree
<1> SUFFICES ASSUME IInv
             PROVE  PoolsAgree
  OBVIOUS
<1>0. PoolTypes /\ OneCached /\ HeldIsAcquired /\ AliveExist
  BY DEF IInv
<1>1. ASSUME NEW c \in Connections
      PROVE  /\ Cardinality({r \in Runners : connection[r] = c}) =
                    Cardinality({i \in DOMAIN acquired : acquired[i] = c})
             /\ {r \in Runners : connection[r] = c} # {}
                    => link[c] # "none" /\ c \notin Range(unacquired)
  <2>1. Cardinality(Holders(c)) = Cardinality(Places(acquired, {c}))
    BY <1>0 DEF HeldIsAcquired
  <2>2. Places(acquired, {c}) = {i \in DOMAIN acquired : acquired[i] = c}
    BY DEF Places
  <2>3. ASSUME NEW r \in Runners, connection[r] = c
        PROVE  link[c] # "none" /\ c \notin Range(unacquired)
    <3>1. PICK i \in 1..Len(acquired) : acquired[i] = c
      BY <2>3, HeldPlaces
    <3>2. c \in Alive
      BY <1>0, <3>1, AliveElements
    <3>3. c \notin Range(unacquired)
      BY <1>0, <3>1 DEF OneCached, PoolTypes, Range
    <3> QED BY <1>0, <3>2, <3>3 DEF AliveExist
  <2> QED BY <2>1, <2>2, <2>3 DEF Holders
<1>2. Cardinality({c \in Connections \ (Range(acquired) \union deprecated) :
                       link[c] = "Connected"}) <= 1
  <2> DEFINE kept == {c \in Connections \ (Range(acquired) \union deprecated) :
                          link[c] = "Connected"}
  <2>1. ASSUME NEW c \in kept
        PROVE  Len(unacquired) = 1 /\ c = unacquired[1]
    <3>1. c \in Range(unacquired)
      BY <1>0 DEF AliveExist, Alive
    <3>2. PICK i \in 1..Len(unacquired) : unacquired[i] = c
      BY <1>0, <3>1, RangeElements DEF PoolTypes
    <3>3. Len(unacquired) = 1 /\ i = 1
      <4>1. Len(unacquired) \in Nat /\ Len(unacquired) <= 1
        BY <1>0 DEF OneCached, PoolTypes
      <4> DEFINE n == Len(unacquired)
      <4>2. n \in Nat /\ n <= 1 /\ i \in 1..n
        BY <4>1
      <4> HIDE DEF n
      <4>3. n = 1 /\ i = 1
        BY <4>2
      <4> QED BY <4>3 DEF n
    <3> QED BY <3>2, <3>3
  <2>2. kept = {} \/ kept = {unacquired[1]}
    BY <2>1
  <2> HIDE DEF kept
  <2>3. Cardinality(kept) <= 1
    <3>1. CASE kept = {}
      BY <3>1, FS_EmptySet
    <3>2. CASE kept = {unacquired[1]}
      BY <3>2, FS_Singleton
    <3> QED BY <2>2, <3>1, <3>2
  <2> QED BY <2>3 DEF kept
<1> QED BY <1>1, <1>2 DEF PoolsAgree

(* Whatever ends the runs that share them, each connection is acquired as  *)
(* often as it is used, none that is used is in the cache or deleted, and  *)
(* one open connection at most is kept for later                           *)
(* (sshconnectionmanager.cpp).                                             *)
THEOREM Pools == Spec => []PoolsAgree
<1> QED BY RunnerInvariance, InvPools, PTL

(* Of each run at most one start and one end are reported, and a process   *)
(* that was started never ends in silence (sshremoteprocessrunner.cpp):    *)
(* disconnected() finds no running process, since all its hearers have     *)
(* heard error() before.                                                   *)
THEOREM RunnerRefinement == Spec => ContractSpec
<1>1. Init => Contract!Init
  BY InitGood
<1>2. IInv /\ [Next]_vars => [Contract!Next]_<<RunState, report>>
  BY NextGood DEF ContractStep
<1> QED BY <1>1, <1>2, RunnerInvariance, PTL DEF Spec, ContractSpec, Contract!Spec
===============================================================================
