---------------------------- MODULE CryptoProofs ----------------------------
(* Crypto's invariants, for any number of processes, loads and lengths.      *)
EXTENDS Crypto, TLAPS

USE CryptoAssumption

-----------------------------------------------------------------------------
(* One load.                                                                 *)

\* The bytes of n that the sink of a key takes.
Taken(k, n) == IF n < Size(k) THEN n ELSE Size(k)

\* What one load does to the key it is for; the others keep theirs.
Loaded(p, k, c, n) ==
  /\ key' = [key EXCEPT ![p][k] = Written(@, c, Taken(k, n))]
  /\ loads' = [loads EXCEPT ![p][k] = Append(@, [content |-> c, length |-> n])]

\* Every step loads one key of one process, from a file or an array.
LEMMA StepLoads ==
  ASSUME Next
  PROVE  \E p \in Parties, k \in Keys, c \in Contents, n \in Nat :
           Loaded(p, k, c, n)
<1>1. ASSUME NEW p \in Parties, NEW k \in Keys, NEW c \in Contents, NEW n \in Nat,
             NEW from, Load(p, k, c, n, from)
      PROVE  Loaded(p, k, c, n)
  BY <1>1 DEF Load, Loaded, Sink, Taken
<1>2. CASE LoadFile
  BY <1>1, <1>2 DEF LoadFile
<1>3. CASE LoadArray
  <2>1. \A k \in Keys : Size(k) \in Nat
    BY DEF Size
  <2> QED BY <1>1, <1>3, <2>1 DEF LoadArray
<1> QED BY <1>2, <1>3 DEF Next

\* A key keeps its size, its first n bytes are the new ones, the rest stays.
LEMMA WrittenKey ==
  ASSUME NEW old \in Seq(Byte), NEW c \in Contents, NEW n \in Nat
  PROVE  /\ Written(old, c, n) \in Seq(Byte)
         /\ Len(Written(old, c, n)) = Len(old)
         /\ \A i \in 1 .. Len(old) :
              Written(old, c, n)[i] =
                IF i <= n THEN [content |-> c, at |-> i] ELSE old[i]
<1> DEFINE W == Written(old, c, n)
<1>1. W = [i \in 1 .. Len(old) |->
             IF i <= n THEN [content |-> c, at |-> i] ELSE old[i]]
  BY DEF Written
<1>2. \A i \in 1 .. Len(old) : old[i] \in Byte
  OBVIOUS
<1>3. \A i \in 1 .. Len(old) : [content |-> c, at |-> i] \in Byte
  BY DEF Byte
<1>4. W \in [1 .. Len(old) -> Byte]
  BY <1>1, <1>2, <1>3
<1>5. Len(old) \in Nat
  OBVIOUS
<1>6. W \in Seq(Byte) /\ Len(W) = Len(old)
  BY <1>4, <1>5
<1> QED BY <1>1, <1>6

-----------------------------------------------------------------------------
(* Types.                                                                    *)

KeyTypes ==
  /\ key \in [Parties -> [Keys -> Seq(Byte)]]
  /\ \A p \in Parties, k \in Keys : Len(key[p][k]) = Size(k)
Record == [content : Contents, length : Nat]

LEMMA TypesInit == Init => TypeOK
<1> SUFFICES ASSUME Init PROVE TypeOK
  OBVIOUS
<1>1. Zero \in Byte
  BY DEF Zero, Byte
<1>2. ASSUME NEW k \in Keys
      PROVE  /\ [i \in 1 .. Size(k) |-> Zero] \in Seq(Byte)
             /\ Len([i \in 1 .. Size(k) |-> Zero]) = Size(k)
  <2>1. Size(k) \in Nat
    BY DEF Size
  <2> QED BY <1>1, <2>1
<1>3. key = [p \in Parties |-> [k \in Keys |-> [i \in 1 .. Size(k) |-> Zero]]]
  BY DEF Init
<1>4. loads \in [Parties -> [Keys -> Seq(Record)]]
  BY DEF Init, Record
<1>5. key \in [Parties -> [Keys -> Seq(Byte)]]
  BY <1>2, <1>3
<1>6. \A p \in Parties, k \in Keys : Len(key[p][k]) = Size(k)
  BY <1>2, <1>3
<1> QED BY <1>4, <1>5, <1>6 DEF TypeOK, Record

\* What a load leaves of a key and of what was loaded.
LEMMA LoadedPointwise ==
  ASSUME TypeOK, NEW p \in Parties, NEW k \in Keys, NEW c \in Contents,
         NEW n \in Nat, Loaded(p, k, c, n)
  PROVE  /\ key' \in [Parties -> [Keys -> Seq(Byte)]]
         /\ loads' \in [Parties -> [Keys -> Seq(Record)]]
         /\ key'[p][k] = Written(key[p][k], c, Taken(k, n))
         /\ loads'[p][k] = Append(loads[p][k], [content |-> c, length |-> n])
         /\ \A q \in Parties, l \in Keys : q # p \/ l # k =>
              key'[q][l] = key[q][l] /\ loads'[q][l] = loads[q][l]
<1> DEFINE W == Written(key[p][k], c, Taken(k, n))
           A == Append(loads[p][k], [content |-> c, length |-> n])
<1>1. Taken(k, n) \in Nat
  BY DEF Size, Taken
<1>2. key \in [Parties -> [Keys -> Seq(Byte)]]
      /\ loads \in [Parties -> [Keys -> Seq(Record)]]
  BY DEF TypeOK, Record
<1>3. W \in Seq(Byte)
  BY <1>1, <1>2, WrittenKey
<1>4. A \in Seq(Record)
  <2>1. [content |-> c, length |-> n] \in Record
    BY DEF Record
  <2>2. loads[p][k] \in Seq(Record)
    BY <1>2
  <2> QED BY <2>1, <2>2
<1>5. key' = [key EXCEPT ![p] = [key[p] EXCEPT ![k] = W]]
      /\ loads' = [loads EXCEPT ![p] = [loads[p] EXCEPT ![k] = A]]
  BY <1>2 DEF Loaded
<1> HIDE DEF W, A
<1>6. key[p] \in [Keys -> Seq(Byte)] /\ loads[p] \in [Keys -> Seq(Record)]
  BY <1>2
<1>7. [key[p] EXCEPT ![k] = W] \in [Keys -> Seq(Byte)]
      /\ [loads[p] EXCEPT ![k] = A] \in [Keys -> Seq(Record)]
  BY <1>3, <1>4, <1>6
<1>8. key' \in [Parties -> [Keys -> Seq(Byte)]]
      /\ loads' \in [Parties -> [Keys -> Seq(Record)]]
  BY <1>2, <1>5, <1>7
<1>9. key'[p][k] = W /\ loads'[p][k] = A
  BY <1>2, <1>5, <1>6
<1>10. \A q \in Parties, l \in Keys : q # p \/ l # k =>
         key'[q][l] = key[q][l] /\ loads'[q][l] = loads[q][l]
  BY <1>2, <1>5, <1>6
<1> QED BY <1>8, <1>9, <1>10 DEF W, A

LEMMA TypesStep ==
  ASSUME TypeOK, Next
  PROVE  TypeOK'
<1>1. PICK p \in Parties, k \in Keys, c \in Contents, n \in Nat :
        Loaded(p, k, c, n)
  BY StepLoads
<1>2. Taken(k, n) \in Nat
  BY DEF Size, Taken
<1>3. key[p][k] \in Seq(Byte)
  BY DEF TypeOK
<1>4. key'[p][k] = Written(key[p][k], c, Taken(k, n))
  BY <1>1, LoadedPointwise
<1>5. Len(key'[p][k]) = Len(key[p][k])
  BY <1>2, <1>3, <1>4, WrittenKey
<1>6. \A q \in Parties, l \in Keys : q # p \/ l # k =>
        key'[q][l] = key[q][l] /\ loads'[q][l] = loads[q][l]
  BY <1>1, LoadedPointwise
<1>7. \A q \in Parties, l \in Keys : Len(key'[q][l]) = Size(l)
  BY <1>5, <1>6 DEF TypeOK
<1>8. key' \in [Parties -> [Keys -> Seq(Byte)]]
      /\ loads' \in [Parties -> [Keys -> Seq(Record)]]
  BY <1>1, LoadedPointwise
<1> QED BY <1>7, <1>8 DEF TypeOK, Record

\* Whatever is loaded from whatever file, both keys keep their sizes
\* (crypto.cpp:18-36).
THEOREM CryptoTypeCorrect == Spec => []TypeOK
<1>1. TypeOK /\ UNCHANGED vars => TypeOK'
  BY DEF TypeOK, vars
<1> QED BY <1>1, TypesInit, TypesStep, PTL DEF Spec

-----------------------------------------------------------------------------
(* Layers.                                                                   *)

\* What Layered says of one byte.
Reached(ls, i) == {j \in 1 .. Len(ls) : ls[j].length >= i}
LayeredByte(ks, ls, i) ==
  /\ Reached(ls, i) = {} => ks[i] = Zero
  /\ \A j \in Reached(ls, i) : (\A h \in Reached(ls, i) : h <= j) =>
       ks[i] = [content |-> ls[j].content, at |-> i]

LEMMA LayeredBytes ==
  Layered <=> \A p \in Parties, k \in Keys : \A i \in 1 .. Size(k) :
                LayeredByte(key[p][k], loads[p][k], i)
BY DEF Layered, LayeredByte, Reached

\* The loads that reach a byte, when there is one more.
LEMMA ReachedAppend ==
  ASSUME NEW ls \in Seq(Record), NEW r \in Record, NEW i \in Nat
  PROVE  /\ r.length >= i =>
              /\ Len(ls) + 1 \in Reached(Append(ls, r), i)
              /\ \A h \in Reached(Append(ls, r), i) : h <= Len(ls) + 1
         /\ ~(r.length >= i) => Reached(Append(ls, r), i) = Reached(ls, i)
<1> DEFINE as == Append(ls, r)
           m == Len(ls)
<1>0. /\ m \in Nat /\ Len(ls) = m /\ Len(as) = m + 1 /\ as[m + 1] = r
      /\ \A j \in 1 .. m : as[j] = ls[j]
  OBVIOUS
<1> HIDE DEF as, m
<1>1. \A h : h \in Reached(as, i) <=> h \in 1 .. m + 1 /\ as[h].length >= i
  BY <1>0, ZenonT(20) DEF Reached
<1>2. \A h : h \in Reached(ls, i) <=> h \in 1 .. m /\ ls[h].length >= i
  BY <1>0, ZenonT(20) DEF Reached
<1> DEFINE A == Reached(as, i)
           L == Reached(ls, i)
<1>3. \A h : h \in 1 .. m + 1 <=> h \in 1 .. m \/ h = m + 1
  BY <1>0
<1>4. \A h \in 1 .. m + 1 : h <= m + 1
  BY <1>0
<1> HIDE DEF A, L
<1>5. ASSUME r.length >= i
      PROVE  m + 1 \in A /\ \A h \in A : h <= m + 1
  <2>1. as[m + 1].length >= i
    BY <1>0, <1>5
  <2> QED BY <1>1, <1>3, <1>4, <2>1, ZenonT(20) DEF A
<1>6. ASSUME ~(r.length >= i) PROVE A = L
  <2>1. ~(as[m + 1].length >= i)
    BY <1>0, <1>6
  <2>2. \A h : h \in A <=> h \in 1 .. m /\ as[h].length >= i
    BY <1>1, <1>3, <2>1, ZenonT(20) DEF A
  <2>3. \A h \in 1 .. m : as[h].length >= i <=> ls[h].length >= i
    BY <1>0
  <2>4. \A h : h \in A <=> h \in L
    BY <1>2, <2>2, <2>3, ZenonT(20) DEF L
  <2> QED BY <2>4
<1> QED BY <1>5, <1>6 DEF A, L, as, m

\* One more load: its bytes are the last to have come, the others are as before.
LEMMA LayeredAppend ==
  ASSUME NEW ls \in Seq(Record), NEW ks, NEW new, NEW c \in Contents,
         NEW n \in Nat, NEW i \in Nat, LayeredByte(ks, ls, i),
         new[i] = IF i <= n THEN [content |-> c, at |-> i] ELSE ks[i]
  PROVE  LayeredByte(new, Append(ls, [content |-> c, length |-> n]), i)
<1> DEFINE r == [content |-> c, length |-> n]
           as == Append(ls, r)
           m == Len(ls)
<1>1. r.content = c /\ r.length = n
  OBVIOUS
<1>2. r \in Record
  BY DEF Record
<1>3. /\ m \in Nat /\ Len(ls) = m /\ Len(as) = m + 1 /\ as[m + 1] = r
      /\ \A j \in 1 .. m : as[j] = ls[j]
  BY <1>2
<1>4. /\ r.length >= i => /\ m + 1 \in Reached(as, i)
                          /\ \A h \in Reached(as, i) : h <= m + 1
      /\ ~(r.length >= i) => Reached(as, i) = Reached(ls, i)
  <2> HIDE DEF Reached, r
  <2> QED BY <1>2, ReachedAppend
<1> HIDE DEF as, r, m
<1>5. \A h \in Reached(as, i) : h \in Nat
  BY <1>3 DEF Reached
<1>6. CASE n >= i
  <2>1. ASSUME NEW j \in Reached(as, i), \A h \in Reached(as, i) : h <= j
        PROVE  j = m + 1
    <3>1. m + 1 <= j /\ j <= m + 1
      BY <1>1, <1>4, <1>6, <2>1
    <3>2. j \in Nat /\ m \in Nat
      BY <1>3, <1>5
    <3> QED BY <3>1, <3>2
  <2>2. new[i] = [content |-> as[m + 1].content, at |-> i]
    BY <1>1, <1>3, <1>6
  <2>3. LayeredByte(new, as, i)
    BY <1>1, <1>4, <1>6, <2>1, <2>2 DEF LayeredByte
  <2> QED BY <2>3 DEF as, r
<1>7. CASE n < i
  <2>1. Reached(as, i) = Reached(ls, i)
    <3>1. ~(n >= i)
      BY <1>7
    <3>2. ~(r.length >= i)
      BY <1>1, <3>1, ZenonT(20)
    <3> QED BY <1>4, <3>2, ZenonT(20)
  <2>2. new[i] = ks[i]
    BY <1>7
  <2>3. \A j \in Reached(ls, i) : as[j] = ls[j]
    BY <1>3 DEF Reached
  <2>4. LayeredByte(new, as, i)
    BY <2>1, <2>2, <2>3 DEF LayeredByte
  <2> QED BY <2>4 DEF as, r
<1> QED BY <1>6, <1>7

LEMMA LayeredStep ==
  ASSUME TypeOK, Layered, Next
  PROVE  Layered'
<1>1. PICK p \in Parties, k \in Keys, c \in Contents, n \in Nat :
        Loaded(p, k, c, n)
  BY StepLoads
<1>2. Size(k) \in Nat /\ Taken(k, n) \in Nat
  BY DEF Size, Taken
<1>3. /\ key[p][k] \in Seq(Byte) /\ Len(key[p][k]) = Size(k)
      /\ loads[p][k] \in Seq(Record)
  BY DEF TypeOK, Record
<1>4. /\ key'[p][k] = Written(key[p][k], c, Taken(k, n))
      /\ loads'[p][k] = Append(loads[p][k], [content |-> c, length |-> n])
      /\ \A q \in Parties, l \in Keys : q # p \/ l # k =>
           key'[q][l] = key[q][l] /\ loads'[q][l] = loads[q][l]
  BY <1>1, LoadedPointwise
<1>5. \A q \in Parties, l \in Keys : \A i \in 1 .. Size(l) :
        LayeredByte(key[q][l], loads[q][l], i)
  BY LayeredBytes
<1>6. ASSUME NEW i \in 1 .. Size(k)
      PROVE  LayeredByte(key'[p][k], loads'[p][k], i)
  <2>1. i <= Taken(k, n) <=> i <= n
    BY <1>2 DEF Taken
  <2>2. Written(key[p][k], c, Taken(k, n))[i] =
          IF i <= Taken(k, n) THEN [content |-> c, at |-> i] ELSE key[p][k][i]
    BY <1>2, <1>3, WrittenKey
  <2>3. key'[p][k][i] = IF i <= n THEN [content |-> c, at |-> i] ELSE key[p][k][i]
    BY <1>4, <2>1, <2>2
  <2>4. LayeredByte(key[p][k], loads[p][k], i)
    BY <1>5
  <2>5. i \in Nat
    BY <1>2
  <2> QED BY <1>3, <1>4, <2>3, <2>4, <2>5, LayeredAppend
<1>7. \A q \in Parties, l \in Keys : \A i \in 1 .. Size(l) :
        LayeredByte(key'[q][l], loads'[q][l], i)
  BY <1>4, <1>5, <1>6
<1> QED BY <1>7 DEF Layered, LayeredByte, Reached

LEMMA LayeredInit == Init => Layered
<1> SUFFICES ASSUME Init, NEW p \in Parties, NEW k \in Keys, NEW i \in 1 .. Size(k)
             PROVE  LayeredByte(key[p][k], loads[p][k], i)
  BY LayeredBytes
<1>1. loads[p][k] = <<>> /\ key[p][k] = [j \in 1 .. Size(k) |-> Zero]
  BY DEF Init
<1>2. Reached(<<>>, i) = {}
  BY DEF Reached
<1>3. key[p][k][i] = Zero
  BY <1>1
<1> QED BY <1>1, <1>2, <1>3 DEF LayeredByte

\* Each byte of a key is of the last load that reached it, for any history of
\* files and arrays of any length (crypto.cpp:18-36).
THEOREM CryptoLayered == Spec => []Layered
<1>1. Layered /\ UNCHANGED vars => Layered'
  BY DEF Layered, vars
<1>2. TypeOK /\ Layered /\ [Next]_vars => Layered'
  BY <1>1, LayeredStep
<1> QED BY <1>2, LayeredInit, CryptoTypeCorrect, PTL DEF Spec

-----------------------------------------------------------------------------
(* Session keys.                                                             *)

\* A key whose last load was whole, or that was never loaded, is that load.
LEMMA WholeKey ==
  ASSUME TypeOK, Layered, NEW p \in Parties, NEW k \in Keys, LastWhole(p, k),
         NEW i \in 1 .. Size(k)
  PROVE  key[p][k][i] = IF loads[p][k] = <<>> THEN Zero
                        ELSE [content |-> LastContent(p, k), at |-> i]
<1> DEFINE ls == loads[p][k]
<1>1. ls \in Seq(Record) /\ Size(k) \in Nat
  BY DEF TypeOK, Record, Size
<1>2. LayeredByte(key[p][k], ls, i)
  BY LayeredBytes
<1>3. CASE ls = <<>>
  <2>1. Reached(ls, i) = {}
    BY <1>3 DEF Reached
  <2> QED BY <1>2, <1>3, <2>1 DEF LayeredByte
<1>4. CASE ls # <<>>
  <2>1. Len(ls) \in Nat \ {0} /\ ls[Len(ls)].length >= Size(k)
    BY <1>1, <1>4 DEF LastWhole
  <2>2. ls[Len(ls)].length \in Nat
    <3>1. \A e \in Record : e.length \in Nat
      BY DEF Record
    <3>2. ls[Len(ls)] \in Record
      BY <1>1, <2>1
    <3> QED BY <3>1, <3>2
  <2>3. Len(ls) \in Reached(ls, i) /\ \A h \in Reached(ls, i) : h <= Len(ls)
    BY <1>1, <2>1, <2>2 DEF Reached
  <2>4. key[p][k][i] = [content |-> ls[Len(ls)].content, at |-> i]
    BY <1>2, <2>3 DEF LayeredByte
  <2> QED BY <1>4, <2>4 DEF LastContent
<1> QED BY <1>3, <1>4

\* Only a key never loaded has zeros for content.
LEMMA ContentKnown ==
  ASSUME TypeOK, NEW p \in Parties, NEW k \in Keys
  PROVE  loads[p][k] = <<>> <=> LastContent(p, k) = "zero"
<1> DEFINE ls == loads[p][k]
<1>1. ls \in Seq(Record)
  BY DEF TypeOK, Record
<1>2. ASSUME ls # <<>> PROVE LastContent(p, k) # "zero"
  <2>1. ls[Len(ls)] \in Record
    BY <1>1, <1>2
  <2>2. ls[Len(ls)].content \in Contents
    <3>1. \A e \in Record : e.content \in Contents
      BY DEF Record
    <3> QED BY <2>1, <3>1
  <2> QED BY <1>2, <2>2 DEF LastContent
<1> QED BY <1>2 DEF LastContent

\* Processes whose keys were last loaded whole, with the same contents, or
\* never, derive the same session key from the same peers, after any history
\* of loads (crypto.cpp:38-63).
THEOREM CryptoAgreeOnceLoaded == Spec => []AgreeOnceLoaded
<1>1. ASSUME TypeOK, Layered PROVE AgreeOnceLoaded
  <2> SUFFICES ASSUME NEW p \in Parties, NEW q \in Parties,
                      \A k \in Keys : /\ LastWhole(p, k) /\ LastWhole(q, k)
                                      /\ LastContent(p, k) = LastContent(q, k),
                      NEW m \in Peers, NEW c \in Peers
               PROVE  CcmpKey(p, m, c) = CcmpKey(q, m, c)
    BY DEF AgreeOnceLoaded
  <2>1. ASSUME NEW k \in Keys PROVE key[p][k] = key[q][k]
    <3>1. /\ key[p][k] \in Seq(Byte) /\ Len(key[p][k]) = Size(k)
          /\ key[q][k] \in Seq(Byte) /\ Len(key[q][k]) = Size(k)
      BY <1>1 DEF TypeOK
    <3>2. ASSUME NEW i \in 1 .. Size(k)
          PROVE  key[p][k][i] = key[q][k][i]
      <4>1. key[p][k][i] = IF loads[p][k] = <<>> THEN Zero
                           ELSE [content |-> LastContent(p, k), at |-> i]
        BY <1>1, WholeKey
      <4>2. key[q][k][i] = IF loads[q][k] = <<>> THEN Zero
                           ELSE [content |-> LastContent(q, k), at |-> i]
        BY <1>1, WholeKey
      <4>3. loads[p][k] = <<>> <=> loads[q][k] = <<>>
        BY <1>1, ContentKnown
      <4> QED BY <4>1, <4>2, <4>3
    <3> QED BY <3>1, <3>2
  <2> QED BY <2>1 DEF CcmpKey, Keys
<1> QED BY <1>1, CryptoTypeCorrect, CryptoLayered, PTL

=============================================================================
