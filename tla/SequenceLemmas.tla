--------------------------- MODULE SequenceLemmas ---------------------------
(***************************************************************************)
(* What the proofs need to know of the operators on sequences the models   *)
(* are built from: what FlattenSeq returns, how the number of places that  *)
(* hold one of some elements adds up, and what maps to sequences hold.     *)
(***************************************************************************)
EXTENDS SequencesExt, FiniteSetTheorems, SequenceTheorems, WellFoundedInduction, TLAPS

(* A set of numbers that has 0 and the successor of each of its members is *)
(* Nat: induction for a set, without an operator as its parameter.         *)
LEMMA NatSets ==
    ASSUME NEW T \in SUBSET Nat, 0 \in T, \A n \in T : n + 1 \in T
    PROVE  T = Nat
<1> DEFINE R == {ss \in Nat \X Nat : ss[1] < ss[2]}
<1>1. OpToRel(<, Nat) = R
  BY Zenon DEF OpToRel
<1>2. IsWellFoundedOn(R, Nat)
  BY <1>1, NatLessThanWellFounded, Zenon
<1>. HIDE DEF R
<1>3. SUFFICES ASSUME Nat \ T # {} PROVE FALSE
  OBVIOUS
<1>4. PICK x \in Nat \ T : \A y \in Nat \ T : ~ (<<y, x>> \in R)
  <2> Nat \ T \subseteq Nat OBVIOUS
  <2> QED BY <1>2, <1>3, WFMin, Zenon
<1>5. x # 0 /\ x - 1 \in Nat
  OBVIOUS
<1>6. x - 1 \in T
  <2> SUFFICES ASSUME x - 1 \in Nat \ T PROVE FALSE
    BY <1>5
  <2> <<x - 1, x>> \in R
    BY <1>5 DEF R
  <2> QED BY <1>4
<1> QED BY <1>5, <1>6

(* A function on 1..n is a sequence. *)
LEMMA SeqType ==
    ASSUME NEW S, NEW n \in Nat, NEW f \in [1..n -> S]
    PROVE  f \in Seq(S) /\ Len(f) = n
  OBVIOUS

(* A sequence is its head followed by its tail. *)
LEMMA HeadAndTail ==
    ASSUME NEW S, NEW s \in Seq(S), s # <<>>
    PROVE  s = <<Head(s)>> \o Tail(s)
<1>1. /\ Tail(s) \in Seq(S)
      /\ Len(s) \in Nat \ {0}
      /\ Len(Tail(s)) = Len(s) - 1
      /\ \A i \in 1..(Len(s) - 1) : Tail(s)[i] = s[i+1]
      /\ <<Head(s)>> \in Seq(S)
      /\ Head(s) = s[1]
  OBVIOUS
<1>2. /\ <<Head(s)>> \o Tail(s) \in Seq(S)
      /\ Len(<<Head(s)>> \o Tail(s)) = Len(s)
      /\ \A i \in 1..Len(s) : (<<Head(s)>> \o Tail(s))[i] = s[i]
  BY <1>1
<1> QED
  BY <1>2, SeqEqual

(* The recursive function of FlattenSeq exists (T, the places up to which  *)
(* it does): it is made step by step.                                      *)
LEMMA FlattenSteps ==
    ASSUME NEW S, NEW seqs \in Seq(Seq(S)), Len(seqs) # 0
    PROVE  \E F :
              /\ FlattenSeq(seqs) = F[Len(seqs)]
              /\ F[1] = seqs[1]
              /\ \A k \in Nat : k + 1 \in 1..Len(seqs) /\ k # 0
                                 => F[k+1] = F[k] \o seqs[k+1]
<1> DEFINE n == Len(seqs)
           Item(f, i) == IF i = 1 THEN seqs[i] ELSE f[i-1] \o seqs[i]
           Flat(f) == [i \in 1..n |-> Item(f, i)]
<1>0. n \in Nat /\ \A i \in 1..n : seqs[i] \in Seq(S)
  OBVIOUS
<1>1. \E f : f = Flat(f)
  <2> DEFINE Begins(k) == \E f : \A i \in 1..k : f[i] = Item(f, i)
             T == {k \in Nat : Begins(k)}
  <2>1. 0 \in T
    OBVIOUS
  <2>2. \A k \in T : k + 1 \in T
    <3> TAKE k \in T
    <3>1. PICK f : \A i \in 1..k : f[i] = Item(f, i)
      OBVIOUS
    <3> DEFINE g == [i \in 1..(k+1) |->
                          IF i <= k THEN f[i] ELSE Item(f, i)]
    <3>2. \A i \in 1..(k+1) : g[i] = Item(g, i)
      <4> TAKE i \in 1..(k+1)
      <4>1. CASE i <= k
        <5> /\ i \in 1..k
            /\ i # 1 => i-1 \in 1..k /\ i-1 <= k /\ i-1 \in 1..(k+1)
          BY <4>1
        <5>1. g[i] = f[i] /\ (i # 1 => g[i-1] = f[i-1])
          BY <4>1
        <5> HIDE DEF g
        <5> QED BY <3>1, <5>1
      <4>2. CASE i = k + 1
        <5> /\ ~(i <= k)
            /\ i # 1 => i-1 \in 1..k /\ i-1 <= k /\ i-1 \in 1..(k+1)
          BY <4>2
        <5>1. g[i] = Item(f, i) /\ (i # 1 => g[i-1] = f[i-1])
          BY <4>2
        <5> HIDE DEF g
        <5> QED BY <5>1
      <4> QED BY <4>1, <4>2
    <3> HIDE DEF g
    <3> QED BY <3>2
  <2>3. T = Nat
    <3> T \in SUBSET Nat OBVIOUS
    <3> HIDE DEF T
    <3> QED BY <2>1, <2>2, NatSets
  <2>4. PICK f : \A i \in 1..n : f[i] = Item(f, i)
    <3> n \in T BY <1>0, <2>3
    <3> QED OBVIOUS
  <2> DEFINE g == [i \in 1..n |-> f[i]]
  <2>5. g = Flat(g)
    <3> SUFFICES ASSUME NEW i \in 1..n
                 PROVE  f[i] = Item(g, i)
      OBVIOUS
    <3> i # 1 => i - 1 \in 1..n
      OBVIOUS
    <3> QED BY <2>4
  <2> HIDE DEF g
  <2> QED BY <2>5
<1> DEFINE F == CHOOSE f : f = Flat(f)
<1>2. F = Flat(F)
  <2> HIDE DEF Flat
  <2> QED BY <1>1
<1>3. FlattenSeq(seqs) = F[n]
  BY Zenon DEF FlattenSeq
<1>4. F[1] = seqs[1]
  <2> 1 \in 1..n BY <1>0
  <2> HIDE DEF F
  <2> QED BY <1>2
<1>5. ASSUME NEW k \in Nat, k + 1 \in 1..n, k # 0
      PROVE  F[k+1] = F[k] \o seqs[k+1]
  <2> DEFINE j == k + 1
  <2>1. j \in 1..n /\ j # 1 /\ j - 1 = k
    BY <1>0, <1>5
  <2> HIDE DEF F
  <2>2. F[j] = IF j = 1 THEN seqs[j] ELSE F[j-1] \o seqs[j]
    BY <1>2, <2>1
  <2> HIDE DEF j
  <2>3. F[j] = F[k] \o seqs[j]
    BY <2>1, <2>2
  <2> QED BY <2>3 DEF j
<1> HIDE DEF F
<1> QED BY <1>3, <1>4, <1>5

(* Flattening sequences of members of S yields a sequence of members of S: *)
(* what is computed up to a place is such a sequence (U).                  *)
LEMMA FlattenType ==
    ASSUME NEW S, NEW seqs \in Seq(Seq(S))
    PROVE  FlattenSeq(seqs) \in Seq(S)
<1> DEFINE n == Len(seqs)
<1>1. CASE n = 0
  BY <1>1 DEF FlattenSeq
<1>2. CASE n # 0
  <2>0. n \in Nat /\ \A i \in 1..n : seqs[i] \in Seq(S)
    OBVIOUS
  <2>1. PICK F : /\ FlattenSeq(seqs) = F[n]
                 /\ F[1] = seqs[1]
                 /\ \A k \in Nat : k + 1 \in 1..n /\ k # 0
                                    => F[k+1] = F[k] \o seqs[k+1]
    BY <1>2, FlattenSteps
  <2> DEFINE U == {k \in Nat : k + 1 <= n => F[k+1] \in Seq(S)}
  <2>4. 0 \in U
    BY <2>0, <2>1
  <2>5. \A k \in U : k + 1 \in U
    <3> SUFFICES ASSUME NEW k \in U, (k + 1) + 1 <= n
                 PROVE  F[(k+1)+1] \in Seq(S)
      OBVIOUS
    <3>1. F[(k+1)+1] = F[k+1] \o seqs[(k+1)+1]
      <4> k + 1 \in Nat /\ (k + 1) + 1 \in 1..n /\ k + 1 # 0
        BY <2>0
      <4> QED BY <2>1
    <3>2. F[k+1] \in Seq(S) /\ seqs[(k+1)+1] \in Seq(S)
      BY <2>0
    <3> QED BY <3>1, <3>2
  <2>6. U = Nat
    <3> U \in SUBSET Nat OBVIOUS
    <3> HIDE DEF U
    <3> QED BY <2>4, <2>5, NatSets
  <2>7. n - 1 \in U
    <3> n - 1 \in Nat BY <1>2, <2>0
    <3> HIDE DEF U
    <3> QED BY <2>6
  <2>8. F[n] \in Seq(S)
    BY <1>2, <2>0, <2>7
  <2> QED BY <2>1, <2>8
<1> QED BY <1>1, <1>2
-----------------------------------------------------------------------------
(* The places at which s holds a member of P. *)
Places(s, P) == {i \in DOMAIN s : s[i] \in P}

(* There are finitely many. *)
LEMMA PlacesFinite ==
    ASSUME NEW S, NEW s \in Seq(S), NEW P
    PROVE  IsFiniteSet(Places(s, P)) /\ Cardinality(Places(s, P)) \in Nat
<1>1. IsFiniteSet(1..Len(s))
  BY FS_Interval
<1>2. Places(s, P) \in SUBSET (1..Len(s))
  BY DEF Places
<1> QED
  BY <1>1, <1>2, FS_Subset, FS_CardinalityType

(* Concatenation adds them up. *)
LEMMA PlacesConcat ==
    ASSUME NEW S, NEW s \in Seq(S), NEW t \in Seq(S), NEW P
    PROVE  Cardinality(Places(s \o t, P)) =
               Cardinality(Places(s, P)) + Cardinality(Places(t, P))
<1> DEFINE A == Places(s, P)
           B == {i \in (Len(s) + 1)..(Len(s) + Len(t)) : t[i - Len(s)] \in P}
           f == [i \in Places(t, P) |-> i + Len(s)]
<1>1. Places(s \o t, P) = A \union B
  BY DEF Places
<1>2. A \intersect B = {}
  BY DEF Places
<1>3. Cardinality(B) = Cardinality(Places(t, P)) /\ IsFiniteSet(B)
  <2>1. f \in [Places(t, P) -> B]
    BY DEF Places
  <2>2. \A i, j \in Places(t, P) : f[i] = f[j] => i = j
    BY DEF Places
  <2>3. \A j \in B : \E i \in Places(t, P) : f[i] = j
    <3> TAKE j \in B
    <3>1. j - Len(s) \in Places(t, P) /\ (j - Len(s)) + Len(s) = j
      BY DEF Places
    <3> QED BY <3>1
  <2> HIDE DEF f, B
  <2>4. f \in Bijection(Places(t, P), B)
    BY <2>1, <2>2, <2>3, Zenon DEF Bijection, Injection, Surjection, IsInjective
  <2>5. IsFiniteSet(Places(t, P))
    BY PlacesFinite
  <2>6. ExistsBijection(Places(t, P), B)
    BY <2>4, Zenon DEF ExistsBijection
  <2> QED BY <2>5, <2>6, FS_Bijection, Zenon
<1>4. /\ IsFiniteSet(A)
      /\ Cardinality(A) \in Nat
      /\ Cardinality(Places(t, P)) \in Nat
  BY PlacesFinite
<1>5. Cardinality(A \union B) =
          Cardinality(A) + Cardinality(B) - Cardinality({})
  <2> HIDE DEF A, B
  <2> QED BY <1>2, <1>3, <1>4, FS_Union
<1> QED BY <1>1, <1>3, <1>4, <1>5, FS_EmptySet

(* The empty sequence has none. *)
LEMMA PlacesNone ==
    ASSUME NEW P
    PROVE  Cardinality(Places(<<>>, P)) = 0
BY FS_EmptySet DEF Places

(* A sequence of one element has one or none. *)
LEMMA PlacesOne ==
    ASSUME NEW a, NEW P
    PROVE  Cardinality(Places(<<a>>, P)) = IF a \in P THEN 1 ELSE 0
<1>1. CASE a \in P
  <2> Places(<<a>>, P) = {1}
    BY <1>1 DEF Places
  <2> QED BY <1>1, FS_Singleton
<1>2. CASE a \notin P
  <2> Places(<<a>>, P) = {}
    BY <1>2 DEF Places
  <2> QED BY <1>2, FS_EmptySet
<1> QED BY <1>1, <1>2

(* One element more. *)
LEMMA PlacesAppend ==
    ASSUME NEW S, NEW s \in Seq(S), NEW a \in S, NEW P
    PROVE  Cardinality(Places(Append(s, a), P)) =
               Cardinality(Places(s, P)) + IF a \in P THEN 1 ELSE 0
<1>1. Append(s, a) = s \o <<a>> /\ <<a>> \in Seq(S)
  OBVIOUS
<1>2. Cardinality(Places(s \o <<a>>, P)) =
          Cardinality(Places(s, P)) + Cardinality(Places(<<a>>, P))
  BY <1>1, PlacesConcat
<1> QED BY <1>1, <1>2, PlacesOne
-----------------------------------------------------------------------------
(* The elements of a sequence. *)
LEMMA RangeElements ==
    ASSUME NEW S, NEW s \in Seq(S), NEW a
    PROVE  a \in Range(s) <=> \E i \in 1..Len(s) : s[i] = a
  BY DEF Range
-----------------------------------------------------------------------------
(* What was emitted, of a map from ids to sequences.                       *)
Emitted(f) == {<<id, f[id]>> : id \in {i \in DOMAIN f : f[i] # <<>>}}

LEMMA OutcomeKept ==
    ASSUME NEW f, NEW g, NEW m \in Nat, NEW n \in Nat, m <= n,
           DOMAIN f = 1..m, DOMAIN g = 1..n,
           \A i \in 1..m : g[i] = f[i],
           \A i \in (1..n) \ (1..m) : g[i] = <<>>
    PROVE  Emitted(g) = Emitted(f)
<1>1. {i \in DOMAIN g : g[i] # <<>>} = {i \in DOMAIN f : f[i] # <<>>}
  OBVIOUS
<1>2. \A i \in {j \in DOMAIN f : f[j] # <<>>} : g[i] = f[i]
  OBVIOUS
<1> QED
  BY <1>1, <1>2 DEF Emitted

OneEnd(f, g, m, n, x, end) ==
    /\ m \in Nat /\ n \in Nat /\ m <= n
    /\ DOMAIN f = 1..m /\ DOMAIN g = 1..n
    /\ x \in 1..m /\ end \in {"ok", "failed"} /\ g[x] = <<end>>
    /\ f[x] = <<>> /\ \A i \in 1..m : i # x => g[i] = f[i]
    /\ \A i \in (1..n) \ (1..m) : g[i] = <<>>

OneMoreEnd(e, f, x, end) ==
    e = f \union {<<x, <<end>>>>} /\ x \notin {r[1] : r \in f}

LEMMA OutcomeAdded ==
    ASSUME NEW f, NEW g, NEW m, NEW n, NEW x, NEW end,
           OneEnd(f, g, m, n, x, end)
    PROVE  OneMoreEnd(Emitted(g), Emitted(f), x, end)
<1> USE DEF OneEnd
<1> DEFINE F == {i \in DOMAIN f : f[i] # <<>>}
           G == {i \in DOMAIN g : g[i] # <<>>}
<1>1. G = F \union {x} /\ x \notin F
  OBVIOUS
<1>2. \A i \in F : g[i] = f[i]
  OBVIOUS
<1>3. Emitted(g) = {<<i, g[i]>> : i \in G} /\ Emitted(f) = {<<i, f[i]>> : i \in F}
  BY DEF Emitted
<1> HIDE DEF F, G
<1>4. {<<i, g[i]>> : i \in G} = {<<i, g[i]>> : i \in F} \union {<<x, g[x]>>}
  BY <1>1
<1>5. {<<i, g[i]>> : i \in F} = {<<i, f[i]>> : i \in F}
  BY <1>2
<1>6. \A r \in Emitted(f) : r[1] \in F
  BY <1>3
<1> QED
  BY <1>1, <1>3, <1>4, <1>5, <1>6 DEF OneMoreEnd

(* The same without what was emitted for the ids in D.                     *)
Masked(f, D) == [i \in DOMAIN f |-> IF i \in D THEN <<>> ELSE f[i]]

LEMMA MaskedEnds ==
    ASSUME NEW f, NEW D
    PROVE  Emitted(Masked(f, D)) =
             {<<i, f[i]>> : i \in {j \in DOMAIN f : f[j] # <<>> /\ j \notin D}}
<1> DEFINE g == Masked(f, D)
           F == {j \in DOMAIN f : f[j] # <<>> /\ j \notin D}
<1>1. DOMAIN g = DOMAIN f /\ \A i \in DOMAIN f : g[i] = IF i \in D THEN <<>> ELSE f[i]
  BY DEF Masked
<1>2. {i \in DOMAIN g : g[i] # <<>>} = F /\ \A i \in F : g[i] = f[i]
  BY <1>1
<1>3. Emitted(g) = {<<i, g[i]>> : i \in F}
  BY <1>2 DEF Emitted
<1> HIDE DEF g, F
<1>4. {<<i, g[i]>> : i \in F} = {<<i, f[i]>> : i \in F}
  BY <1>2
<1> QED
  BY <1>3, <1>4 DEF g, F
=============================================================================
