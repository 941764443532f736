------------------------- MODULE ModuleFilterProofs -------------------------
(* What ModuleFilter keeps for every width of its fields, every filter a     *)
(* caller builds and everything that may arrive.                             *)
EXTENDS ModuleFilter, SequenceTheorems, FiniteSetTheorems, WellFoundedInduction,
        TLAPS

-----------------------------------------------------------------------------
(* Induction, and functions defined by recursion.                            *)

LEMMA LeastNat ==
  ASSUME NEW T \in SUBSET Nat, T # {}
  PROVE  \E n \in T : \A m \in T : n <= m
  <1>1. IsWellFoundedOn(OpToRel(<, Nat), Nat)
    BY NatLessThanWellFounded
  <1>2. \E x \in T : \A y \in T : ~(<<y, x>> \in OpToRel(<, Nat))
    BY <1>1, WFMin
  <1>3. PICK x \in T : \A y \in T : ~(<<y, x>> \in OpToRel(<, Nat))
    BY <1>2
  <1>4. ASSUME NEW y \in T
        PROVE  x <= y
    <2>1. x \in Nat /\ y \in Nat /\ <<y, x>> \in Nat \X Nat
      OBVIOUS
    <2>2. ASSUME y < x
          PROVE  <<y, x>> \in OpToRel(<, Nat)
      BY <2>1, <2>2 DEF OpToRel
    <2>3. ~(y < x)
      BY <1>3, <2>2
    <2>4. QED
      BY <2>1, <2>3
  <1>5. QED
    BY <1>4

LEMMA Induction ==
  ASSUME NEW T, 0 \in T, \A n \in Nat : n \in T => n + 1 \in T
  PROVE  \A n \in Nat : n \in T
  <1>1. PICK U : U = {n \in Nat : n \notin T}
    OBVIOUS
  <1>2. SUFFICES ASSUME U # {}
                 PROVE  FALSE
    BY <1>1
  <1>3. PICK n \in U : \A m \in U : n <= m
    BY <1>1, <1>2, LeastNat
  <1>4. n \in Nat /\ n # 0 /\ n \notin T
    BY <1>1
  <1>5. n - 1 \in Nat /\ n - 1 \notin U /\ n - 1 + 1 = n
    BY <1>1, <1>3, <1>4
  <1>6. QED
    BY <1>1, <1>4, <1>5

\* A property of 0 that each number up to n passes on to the next.
LEMMA InductionUpTo ==
  ASSUME NEW n \in Nat, NEW T, 0 \in T,
         \A i \in 1 .. n : i - 1 \in T => i \in T
  PROVE  \A i \in 0 .. n : i \in T
  <1>1. PICK U : U = {i \in Nat : i <= n => i \in T}
    OBVIOUS
  <1>2. 0 \in U
    BY <1>1
  <1>3. ASSUME NEW i \in Nat, i \in U
        PROVE  i + 1 \in U
    <2>1. CASE i + 1 <= n
      <3>1. i + 1 \in 1 .. n /\ i + 1 - 1 = i /\ i <= n
        BY <2>1
      <3>2. QED
        BY <1>1, <1>3, <3>1
    <2>2. CASE ~(i + 1 <= n)
      BY <1>1, <2>2
    <2>3. QED
      BY <2>1, <2>2
  <1>4. \A i \in Nat : i \in U
    BY <1>2, <1>3, Induction
  <1>5. QED
    BY <1>1, <1>4

\* f is where the steps F lead from base on.
Steps(F, n, S) == F \in [1 .. n -> [S -> S]]
Iterates(f, F, base, n, S) ==
  f \in [0 .. n -> S] /\ f[0] = base /\ \A i \in 1 .. n : f[i] = F[i][f[i - 1]]

LEMMA Iteration ==
  ASSUME NEW n \in Nat, NEW S, NEW base, base \in S, NEW F, Steps(F, n, S)
  PROVE  \E f : Iterates(f, F, base, n, S)
  <1>1. PICK T : T = {m \in Nat : \E f : Iterates(f, F, base, m, S)}
    OBVIOUS
  <1>2. 0 \in T
    <2>1. PICK f : f = [i \in 0 .. 0 |-> base]
      OBVIOUS
    <2>2. f \in [0 .. 0 -> S] /\ f[0] = base
      BY <2>1
    <2>3. \A i \in 1 .. 0 : f[i] = F[i][f[i - 1]]
      OBVIOUS
    <2>4. QED
      BY <1>1, <2>2, <2>3 DEF Iterates
  <1>3. ASSUME NEW m \in 1 .. n, m - 1 \in T
        PROVE  m \in T
    <2>1. PICK f : Iterates(f, F, base, m - 1, S)
      BY <1>1, <1>3
    <2>2. PICK g : g = [i \in 0 .. m |-> IF i # m THEN f[i] ELSE F[m][f[m - 1]]]
      OBVIOUS
    <2>3. m \in Nat /\ m # 0 /\ m - 1 \in 0 .. m - 1
      OBVIOUS
    <2>4. F[m][f[m - 1]] \in S
      BY <2>1, <2>3 DEF Iterates, Steps
    <2>5. \A i \in 0 .. m : i # m => f[i] \in S
      BY <2>1, <2>3 DEF Iterates
    <2>6. g \in [0 .. m -> S]
      BY <2>2, <2>4, <2>5
    <2>7. g[0] = base
      BY <2>1, <2>2, <2>3 DEF Iterates
    <2>8. ASSUME NEW i \in 1 .. m
          PROVE  g[i] = F[i][g[i - 1]]
      <3>1. g[i - 1] = f[i - 1]
        BY <2>2, <2>3
      <3>2. CASE i = m
        BY <2>2, <2>3, <3>1, <3>2
      <3>3. CASE i # m
        <4>1. i \in 1 .. m - 1
          BY <2>3, <3>3
        <4>2. QED
          BY <2>1, <2>2, <3>1, <3>3, <4>1 DEF Iterates
      <3>4. QED
        BY <3>2, <3>3
    <2>9. QED
      BY <1>1, <2>3, <2>6, <2>7, <2>8 DEF Iterates
  <1>4. \A i \in 0 .. n : i \in T
    BY <1>2, <1>3, InductionUpTo
  <1>5. QED
    BY <1>1, <1>4

\* A function that satisfies the recursion stays in S.
LEMMA StaysIn ==
  ASSUME NEW n \in Nat, NEW S, NEW f, f[0] \in S,
         \A i \in 1 .. n : f[i - 1] \in S => f[i] \in S
  PROVE  \A i \in 0 .. n : f[i] \in S
  <1>1. PICK T : T = {m \in Nat : f[m] \in S}
    OBVIOUS
  <1>2. 0 \in T /\ \A i \in 1 .. n : i - 1 \in T => i \in T
    BY <1>1
  <1>3. \A i \in 0 .. n : i \in T
    BY <1>2, InductionUpTo
  <1>4. QED
    BY <1>1, <1>3

-----------------------------------------------------------------------------
(* Numbers and their bytes.                                                  *)

LEMMA Bytes ==
  /\ Nibble \in Nat /\ Nibble > 3 /\ ByteValues \in Nat /\ ByteValues > 3
  /\ ByteValues = Nibble * Nibble /\ Byte = 0 .. ByteValues - 1
  <1>1. Nibble \in Nat /\ Nibble > 3
    BY ModuleFilterAssumption DEF SEND_RECV
  <1>2. Nibble * Nibble \in Nat /\ Nibble * Nibble > 3
    BY <1>1
  <1>3. QED
    BY <1>1, <1>2 DEF ByteValues, Byte, MaxByte

\* The recursions that define Shifted and Values.
Shifts(left, v, w) ==
  left = [i \in 0 .. w |-> IF i = 0 THEN v ELSE left[i - 1] \div ByteValues]
Accumulates(value, bytes) ==
  value = [i \in 0 .. Len(bytes) |->
             IF i = 0 THEN 0 ELSE value[i - 1] * ByteValues + bytes[i]]

LEMMA ShiftedStep ==
  ASSUME NEW v \in Nat, NEW w \in Nat
  PROVE  /\ Shifted(v, w)[0] = v
         /\ \A i \in 1 .. w :
              Shifted(v, w)[i] = Shifted(v, w)[i - 1] \div ByteValues
         /\ \A i \in 0 .. w : Shifted(v, w)[i] \in Nat
  <1>1. ByteValues \in Nat /\ ByteValues > 3
    BY Bytes
  <1>2. \E f : Shifts(f, v, w)
    <2>1. PICK F : F = [i \in 1 .. w |-> [u \in Nat |-> u \div ByteValues]]
      OBVIOUS
    <2>2. \A u \in Nat : u \div ByteValues \in Nat
      BY <1>1
    <2>3. Steps(F, w, Nat)
      BY <2>1, <2>2 DEF Steps
    <2>4. PICK f : Iterates(f, F, v, w, Nat)
      BY <2>3, Iteration
    <2>5. f \in [0 .. w -> Nat] /\ f[0] = v
          /\ \A i \in 1 .. w : f[i] = F[i][f[i - 1]]
      BY <2>4 DEF Iterates
    <2>6. ASSUME NEW i \in 0 .. w
          PROVE  f[i] = IF i = 0 THEN v ELSE f[i - 1] \div ByteValues
      <3>1. CASE i = 0
        BY <2>5, <3>1
      <3>2. CASE i # 0
        <4>1. i \in 1 .. w /\ i - 1 \in 0 .. w
          BY <3>2
        <4>2. f[i - 1] \in Nat
          BY <2>5, <4>1
        <4>3. QED
          BY <2>1, <2>5, <3>2, <4>1, <4>2
      <3>3. QED
        BY <3>1, <3>2
    <2>7. f = [i \in 0 .. w |-> f[i]]
      BY <2>5
    <2>8. Shifts(f, v, w)
      BY <2>6, <2>7 DEF Shifts
    <2>9. QED
      BY <2>8
  <1>3. Shifted(v, w) = CHOOSE f : Shifts(f, v, w)
    BY DEF Shifted, Shifts
  <1>4. PICK f : f = Shifted(v, w) /\ Shifts(f, v, w)
    BY <1>2, <1>3
  <1>5. \A i \in 0 .. w : f[i] = IF i = 0 THEN v ELSE f[i - 1] \div ByteValues
    BY <1>4 DEF Shifts
  <1>6. f[0] = v /\ \A i \in 1 .. w : f[i] = f[i - 1] \div ByteValues
    BY <1>5
  <1>7. \A i \in 1 .. w : f[i - 1] \in Nat => f[i] \in Nat
    BY <1>1, <1>6
  <1>8. \A i \in 0 .. w : f[i] \in Nat
    BY <1>6, <1>7, StaysIn
  <1>9. QED
    BY <1>4, <1>6, <1>8

LEMMA ValuesStep ==
  ASSUME NEW bytes \in Seq(Byte)
  PROVE  /\ Values(bytes)[0] = 0
         /\ \A i \in 1 .. Len(bytes) :
              Values(bytes)[i] = Values(bytes)[i - 1] * ByteValues + bytes[i]
         /\ \A i \in 0 .. Len(bytes) : Values(bytes)[i] \in Nat
  <1>1. /\ ByteValues \in Nat /\ Len(bytes) \in Nat
        /\ \A i \in 1 .. Len(bytes) : bytes[i] \in Nat
    <2>1. \A i \in 1 .. Len(bytes) : bytes[i] \in Byte
      OBVIOUS
    <2>2. QED
      BY <2>1, Bytes
  <1>2. \E f : Accumulates(f, bytes)
    <2>1. PICK F : F = [i \in 1 .. Len(bytes) |->
                         [u \in Nat |-> u * ByteValues + bytes[i]]]
      OBVIOUS
    <2>2. \A i \in 1 .. Len(bytes) : \A u \in Nat :
            u * ByteValues + bytes[i] \in Nat
      BY <1>1
    <2>3. Steps(F, Len(bytes), Nat)
      BY <2>1, <2>2 DEF Steps
    <2>4. PICK f : Iterates(f, F, 0, Len(bytes), Nat)
      BY <1>1, <2>3, Iteration
    <2>5. f \in [0 .. Len(bytes) -> Nat] /\ f[0] = 0
          /\ \A i \in 1 .. Len(bytes) : f[i] = F[i][f[i - 1]]
      BY <2>4 DEF Iterates
    <2>6. ASSUME NEW i \in 0 .. Len(bytes)
          PROVE  f[i] = IF i = 0 THEN 0 ELSE f[i - 1] * ByteValues + bytes[i]
      <3>1. CASE i = 0
        BY <2>5, <3>1
      <3>2. CASE i # 0
        <4>1. i \in 1 .. Len(bytes) /\ i - 1 \in 0 .. Len(bytes)
          BY <1>1, <3>2
        <4>2. f[i - 1] \in Nat
          BY <2>5, <4>1
        <4>3. QED
          BY <2>1, <2>5, <3>2, <4>1, <4>2
      <3>3. QED
        BY <3>1, <3>2
    <2>7. f = [i \in 0 .. Len(bytes) |-> f[i]]
      BY <2>5
    <2>8. Accumulates(f, bytes)
      BY <2>6, <2>7 DEF Accumulates
    <2>9. QED
      BY <2>8
  <1>3. Values(bytes) = CHOOSE f : Accumulates(f, bytes)
    BY DEF Values, Accumulates
  <1>4. PICK f : f = Values(bytes) /\ Accumulates(f, bytes)
    BY <1>2, <1>3
  <1>5. \A i \in 0 .. Len(bytes) :
          f[i] = IF i = 0 THEN 0 ELSE f[i - 1] * ByteValues + bytes[i]
    BY <1>4 DEF Accumulates
  <1>6. /\ f[0] = 0
        /\ \A i \in 1 .. Len(bytes) : f[i] = f[i - 1] * ByteValues + bytes[i]
    BY <1>1, <1>5
  <1>7. ASSUME NEW i \in 1 .. Len(bytes), f[i - 1] \in Nat
        PROVE  f[i] \in Nat
    <2>1. PICK u : u = f[i - 1]
      OBVIOUS
    <2>2. u \in Nat /\ bytes[i] \in Nat
      BY <1>1, <1>7, <2>1
    <2>3. u * ByteValues + bytes[i] \in Nat
      BY <1>1, <2>2
    <2>4. QED
      BY <1>6, <2>1, <2>3
  <1>8. \A i \in 0 .. Len(bytes) : f[i] \in Nat
    <2>1. PICK S : S = Nat
      OBVIOUS
    <2>2. f[0] \in S /\ \A i \in 1 .. Len(bytes) : f[i - 1] \in S => f[i] \in S
      BY <1>6, <1>7, <2>1
    <2>3. \A i \in 0 .. Len(bytes) : f[i] \in S
      BY <1>1, <2>2, StaysIn
    <2>4. QED
      BY <2>1, <2>3, Zenon
  <1>9. QED
    BY <1>4, <1>6, <1>8

LEMMA ReverseProperties ==
  ASSUME NEW S, NEW s \in Seq(S)
  PROVE  /\ Reverse(s) \in Seq(S) /\ Len(Reverse(s)) = Len(s)
         /\ Reverse(Reverse(s)) = s
  <1>1. PICK r : r = [i \in 1 .. Len(s) |-> s[(Len(s) - i) + 1]]
    OBVIOUS
  <1>2. r \in Seq(S) /\ Len(r) = Len(s)
    BY <1>1
  <1>3. PICK q : q = [i \in 1 .. Len(r) |-> r[(Len(r) - i) + 1]]
    OBVIOUS
  <1>4. q \in Seq(S) /\ Len(q) = Len(s)
    BY <1>2, <1>3
  <1>5. \A i \in 1 .. Len(s) : q[i] = s[i]
    BY <1>1, <1>2, <1>3
  <1>6. q = s
    BY <1>4, <1>5
  <1>7. QED
    BY <1>1, <1>2, <1>3, <1>6 DEF Reverse

\* The bytes of a number are those it was made of,
LEMMA BytesOfNumber ==
  ASSUME NEW bytes \in Seq(Byte), NEW v, v = Values(bytes)[Len(bytes)]
  PROVE  v \in Words(Len(bytes)) /\ BigMemory(v, Len(bytes)) = bytes
  <1>1. PICK w : w = Len(bytes)
    OBVIOUS
  <1>2. PICK f : f = Values(bytes)
    OBVIOUS
  <1>3. /\ f[0] = 0 /\ \A i \in 1 .. w : f[i] = f[i - 1] * ByteValues + bytes[i]
        /\ \A i \in 0 .. w : f[i] \in Nat
    BY <1>1, <1>2, ValuesStep
  <1>4. w \in Nat /\ v \in Nat /\ v = f[w]
    BY <1>1, <1>2, <1>3
  <1>5. PICK g : g = Shifted(v, w)
    OBVIOUS
  <1>6. /\ g[0] = v /\ \A i \in 1 .. w : g[i] = g[i - 1] \div ByteValues
        /\ \A i \in 0 .. w : g[i] \in Nat
    BY <1>4, <1>5, ShiftedStep
  <1>7. \A i \in 1 .. w : bytes[i] \in Nat /\ bytes[i] < ByteValues
    <2>1. \A i \in 1 .. w : bytes[i] \in Byte
      BY <1>1
    <2>2. QED
      BY <2>1, Bytes
  <1>8. \A i \in 1 .. w : /\ f[i] \div ByteValues = f[i - 1]
                         /\ f[i] % ByteValues = bytes[i]
    <2>1. TAKE i \in 1 .. w
    <2>2. PICK a, b, n : a = f[i - 1] /\ b = bytes[i] /\ n = ByteValues
      OBVIOUS
    <2>3. a \in Nat /\ b \in Nat /\ n \in Nat \ {0} /\ b < n
      BY <1>3, <1>4, <1>7, <2>2, Bytes
    <2>4. (a * n + b) \div n = a /\ (a * n + b) % n = b
      BY <2>3
    <2>5. QED
      BY <1>3, <2>2, <2>4
  <1>9. \A i \in 0 .. w : g[i] = f[w - i]
    <2>1. PICK T : T = {i \in Nat : g[i] = f[w - i]}
      OBVIOUS
    <2>2. 0 \in T
      BY <1>4, <1>6, <2>1
    <2>3. ASSUME NEW i \in 1 .. w, i - 1 \in T
          PROVE  i \in T
      <3>1. w - i + 1 \in 1 .. w /\ w - (i - 1) = w - i + 1 /\ w - i + 1 - 1 = w - i
        BY <1>4
      <3>2. g[i - 1] = f[w - i + 1]
        BY <2>1, <2>3, <3>1
      <3>3. PICK j : j = w - i + 1
        OBVIOUS
      <3>a. j \in 1 .. w /\ g[i - 1] = f[j] /\ j - 1 = w - i
        BY <1>4, <3>1, <3>2, <3>3
      <3>b. f[j] \div ByteValues = f[w - i]
        BY <1>8, <3>a
      <3>c. g[i] = f[w - i]
        BY <1>6, <3>a, <3>b
      <3>4. QED
        BY <2>1, <3>c
    <2>4. \A i \in 0 .. w : i \in T
      BY <1>4, <2>2, <2>3, InductionUpTo
    <2>5. QED
      BY <2>1, <2>4
  <1>10. v \in Words(w)
    <2>1. g[w] = f[w - w] /\ w - w = 0
      BY <1>4, <1>9
    <2>2. QED
      BY <1>3, <1>4, <1>5, <2>1 DEF Words
  <1>11. \A i \in 1 .. w : g[w - i] % ByteValues = bytes[i]
    <2>1. TAKE i \in 1 .. w
    <2>2. w - i \in 0 .. w /\ w - (w - i) = i
      BY <1>4
    <2>3. QED
      BY <1>8, <1>9, <2>2
  <1>12. BigMemory(v, w) = bytes
    <2>1. BigMemory(v, w) = [i \in 1 .. w |-> bytes[i]]
      BY <1>5, <1>11 DEF BigMemory
    <2>2. QED
      BY <1>1, <2>1
  <1>13. QED
    BY <1>1, <1>10, <1>12

\* and the other way round.
LEMMA NumberOfBytes ==
  ASSUME NEW w \in Nat, NEW v \in Words(w)
  PROVE  /\ BigMemory(v, w) \in Seq(Byte) /\ Len(BigMemory(v, w)) = w
         /\ Values(BigMemory(v, w))[w] = v
  <1>1. v \in Nat /\ Shifted(v, w)[w] = 0
    BY DEF Words
  <1>2. PICK g : g = Shifted(v, w)
    OBVIOUS
  <1>3. /\ g[0] = v /\ \A i \in 1 .. w : g[i] = g[i - 1] \div ByteValues
        /\ \A i \in 0 .. w : g[i] \in Nat
    BY <1>1, <1>2, ShiftedStep
  <1>4. PICK bytes : bytes = [i \in 1 .. w |-> g[w - i] % ByteValues]
    OBVIOUS
  <1>5. \A i \in 1 .. w : g[w - i] \in Nat /\ g[w - i] % ByteValues \in Byte
    <2>1. \A n \in Nat : n % ByteValues \in Byte
      BY Bytes
    <2>2. \A i \in 1 .. w : w - i \in 0 .. w
      OBVIOUS
    <2>3. QED
      BY <1>3, <2>1, <2>2
  <1>6. bytes \in Seq(Byte) /\ Len(bytes) = w
    BY <1>4, <1>5
  <1>7. PICK f : f = Values(bytes)
    OBVIOUS
  <1>8. f[0] = 0 /\ \A i \in 1 .. w : f[i] = f[i - 1] * ByteValues + bytes[i]
    BY <1>6, <1>7, ValuesStep
  <1>9. \A i \in 0 .. w : f[i] = g[w - i]
    <2>1. PICK T : T = {i \in Nat : f[i] = g[w - i]}
      OBVIOUS
    <2>2. 0 \in T
      BY <1>1, <1>2, <1>8, <2>1
    <2>3. ASSUME NEW i \in 1 .. w, i - 1 \in T
          PROVE  i \in T
      <3>1. w - i + 1 \in 1 .. w /\ w - (i - 1) = w - i + 1 /\ w - i + 1 - 1 = w - i
        OBVIOUS
      <3>2. f[i - 1] = g[w - i] \div ByteValues
        BY <1>3, <2>1, <2>3, <3>1
      <3>3. PICK a, n, q, r : /\ a = g[w - i] /\ n = ByteValues
                              /\ q = a \div n /\ r = a % n
        OBVIOUS
      <3>4. f[i - 1] = q /\ bytes[i] = r
        BY <1>4, <3>2, <3>3
      <3>a. f[i] = q * n + r
        BY <1>8, <3>3, <3>4
      <3>b. a \in Nat /\ n \in Nat /\ n > 0
        BY <1>5, <3>3, Bytes
      <3>c. q = a \div n /\ r = a % n
        BY <3>3
      <3>d. q * n + r = a
        BY <3>b, <3>c, Z3
      <3>5. f[i] = g[w - i]
        BY <3>3, <3>a, <3>d
      <3>6. QED
        BY <2>1, <3>5
    <2>4. \A i \in 0 .. w : i \in T
      BY <2>2, <2>3, InductionUpTo
    <2>5. QED
      BY <2>1, <2>4
  <1>10. f[w] = v
    <2>1. f[w] = g[w - w] /\ w - w = 0
      BY <1>9
    <2>2. QED
      BY <1>3, <2>1
  <1>11. QED
    BY <1>2, <1>4, <1>6, <1>7, <1>10 DEF BigMemory

\* Whatever the machine, it keeps a big-endian integer in the same bytes,
LEMMA StoredBytes ==
  ASSUME NEW host \in Orders, NEW w \in Nat, NEW v \in Words(w)
  PROVE  Stored(host, "big", v, w) = BigMemory(v, w)
  <1>1. CASE host = "big"
    BY <1>1 DEF Stored, Memory, Converted
  <1>2. CASE host # "big"
    <2>1. PICK b : b = BigMemory(v, w)
      OBVIOUS
    <2>2. b \in Seq(Byte) /\ Len(b) = w
      BY <2>1, NumberOfBytes
    <2>3. PICK r : r = Reverse(b)
      OBVIOUS
    <2>4. r \in Seq(Byte) /\ Len(r) = w /\ Reverse(r) = b
      BY <2>2, <2>3, ReverseProperties
    <2>5. PICK u : u = Values(r)[w]
      OBVIOUS
    <2>6. BigMemory(u, w) = r
      BY <2>4, <2>5, BytesOfNumber
    <2>7. Converted(host, "big", v, w) = u
      BY <1>2, <2>1, <2>3, <2>4, <2>5 DEF Converted, Number, Memory
    <2>8. QED
      BY <1>2, <2>1, <2>4, <2>6, <2>7 DEF Stored, Memory
  <1>3. QED
    BY <1>1, <1>2

\* and reads it from them.
LEMMA LoadedWord ==
  ASSUME NEW host \in Orders, NEW bytes \in Seq(Byte)
  PROVE  Loaded(host, "big", bytes) = Values(bytes)[Len(bytes)]
  <1>1. CASE host = "big"
    BY <1>1 DEF Loaded, Number, Converted
  <1>2. CASE host # "big"
    <2>1. PICK w : w = Len(bytes)
      OBVIOUS
    <2>2. PICK r : r = Reverse(bytes)
      OBVIOUS
    <2>3. r \in Seq(Byte) /\ Len(r) = w /\ Reverse(r) = bytes
      BY <2>1, <2>2, ReverseProperties
    <2>4. PICK u : u = Values(r)[w]
      OBVIOUS
    <2>5. BigMemory(u, w) = r
      BY <2>3, <2>4, BytesOfNumber
    <2>6. Number(host, bytes) = u
      BY <1>2, <2>1, <2>2, <2>4 DEF Number
    <2>7. Memory("little", u, w) = bytes
      BY <2>3, <2>5 DEF Memory
    <2>8. QED
      BY <1>2, <2>1, <2>6, <2>7 DEF Loaded, Converted, Number
  <1>3. QED
    BY <1>1, <1>2

\* Either machine lays two fields out in the same way.
LEMMA Fields ==
  ASSUME NEW host \in Orders, NEW low, NEW high, NEW b
  PROVE  /\ Packed(host, low, high) = low + Nibble * high
         /\ Low(host, b) = b % Nibble /\ High(host, b) = b \div Nibble
  BY DEF Orders, Packed, Low, High, LowFirst, BitFields, First, Second

LEMMA FieldValues ==
  ASSUME NEW low \in 0 .. Nibble - 1, NEW high \in 0 .. Nibble - 1, NEW b \in Byte
  PROVE  /\ low + Nibble * high \in Byte
         /\ (low + Nibble * high) % Nibble = low
         /\ (low + Nibble * high) \div Nibble = high
         /\ b % Nibble \in 0 .. Nibble - 1 /\ b \div Nibble \in 0 .. Nibble - 1
  <1>1. PICK n : n = Nibble
    OBVIOUS
  <1>2. /\ n \in Nat \ {0} /\ low \in Nat /\ high \in Nat /\ low < n /\ high < n
        /\ b \in Nat /\ b < n * n /\ Byte = 0 .. n * n - 1
    BY <1>1, Bytes
  <1>3. /\ (low + n * high) % n = low /\ (low + n * high) \div n = high
        /\ low + n * high < n * n /\ low + n * high \in Nat
    BY <1>2
  <1>4. b % n \in 0 .. n - 1 /\ b \div n \in 0 .. n - 1
    BY <1>2
  <1>5. n * n \in Nat
    BY <1>2
  <1>6. QED
    BY <1>1, <1>2, <1>3, <1>4, <1>5

-----------------------------------------------------------------------------
(* Sequences one behind the other.                                           *)

\* The recursion of FlattenSeq, and what it reaches.
Flattening(f, seqs) ==
  f = [i \in 1 .. Len(seqs) |->
         IF i = 1 THEN seqs[i] ELSE f[i - 1] \o seqs[i]]
Flattens(p, seqs, S) ==
  /\ p \in [0 .. Len(seqs) -> Seq(S)]
  /\ p[0] = <<>> /\ \A i \in 1 .. Len(seqs) : p[i] = p[i - 1] \o seqs[i]
  /\ FlattenSeq(seqs) = p[Len(seqs)]

LEMMA FlattenSteps ==
  ASSUME NEW S, NEW seqs \in Seq(Seq(S))
  PROVE  \E p : Flattens(p, seqs, S)
  <1>1. Len(seqs) \in Nat /\ \A i \in 1 .. Len(seqs) : seqs[i] \in Seq(S)
    OBVIOUS
  <1>2. PICK n : n = Len(seqs)
    OBVIOUS
  <1>3. PICK Q : Q = Seq(S)
    OBVIOUS
  <1>4. <<>> \in Q /\ \A i \in 1 .. n : \A u \in Q : u \o seqs[i] \in Q
    BY <1>1, <1>2, <1>3
  <1>5. CASE n = 0
    <2>1. seqs = <<>>
      BY <1>2, <1>5, EmptySeq
    <2>2. PICK p : p = [i \in 0 .. 0 |-> <<>>]
      OBVIOUS
    <2>3. p \in [0 .. 0 -> Seq(S)] /\ p[0] = <<>>
      BY <2>2
    <2>4. Len(seqs) = 0 /\ \A i \in 1 .. 0 : p[i] = p[i - 1] \o seqs[i]
      BY <1>2, <1>5
    <2>5. FlattenSeq(seqs) = <<>>
      BY <2>1, <2>4 DEF FlattenSeq
    <2>6. Flattens(p, seqs, S)
      BY <2>3, <2>4, <2>5 DEF Flattens
    <2>7. QED
      BY <2>6
  <1>6. CASE n # 0
    <2>1. PICK F : F = [i \in 1 .. n |-> [u \in Q |-> u \o seqs[i]]]
      OBVIOUS
    <2>2. Steps(F, n, Q)
      BY <1>4, <2>1 DEF Steps
    <2>3. PICK h : Iterates(h, F, <<>>, n, Q)
      BY <1>1, <1>2, <1>4, <2>2, Iteration
    <2>4. /\ h \in [0 .. n -> Q] /\ h[0] = <<>>
          /\ \A i \in 1 .. n : h[i] = F[i][h[i - 1]]
      BY <2>3 DEF Iterates
    <2>5. ASSUME NEW i \in 1 .. n
          PROVE  h[i] = IF i = 1 THEN seqs[i] ELSE h[i - 1] \o seqs[i]
      <3>1. i - 1 \in 0 .. n
        BY <1>1, <1>2
      <3>2. h[i - 1] \in Q
        BY <2>4, <3>1
      <3>3. h[i] = h[i - 1] \o seqs[i]
        BY <2>1, <2>4, <3>2
      <3>4. ASSUME i = 1 PROVE h[i - 1] = <<>>
        <4>1. i - 1 = 0
          BY <3>4
        <4>2. QED
          BY <2>4, <4>1
      <3>5. <<>> \o seqs[i] = seqs[i]
        BY <1>1, <1>2
      <3>6. QED
        BY <3>3, <3>4, <3>5
    <2>6. PICK g : g = [i \in 1 .. n |-> h[i]]
      OBVIOUS
    <2>7. g = [i \in 1 .. n |-> IF i = 1 THEN seqs[i] ELSE g[i - 1] \o seqs[i]]
      <3>1. \A i \in 1 .. n : i # 1 => i - 1 \in 1 .. n
        BY <1>1, <1>2
      <3>2. \A i \in 1 .. n :
              g[i] = IF i = 1 THEN seqs[i] ELSE g[i - 1] \o seqs[i]
        BY <2>5, <2>6, <3>1
      <3>3. QED
        BY <2>6, <3>2
    <2>8. \E f : Flattening(f, seqs)
      BY <1>2, <2>7 DEF Flattening
    <2>9. PICK f : /\ f = CHOOSE e : Flattening(e, seqs)
                   /\ Flattening(f, seqs)
      BY <2>8
    <2>10. FlattenSeq(seqs) = f[n]
      BY <1>2, <1>6, <2>9 DEF FlattenSeq, Flattening
    <2>11. PICK p : p = [i \in 0 .. n |-> IF i = 0 THEN <<>> ELSE f[i]]
      OBVIOUS
    <2>12. ASSUME NEW i \in 1 .. n
           PROVE  p[i] = p[i - 1] \o seqs[i]
      <3>1. f[i] = IF i = 1 THEN seqs[i] ELSE f[i - 1] \o seqs[i]
        BY <1>2, <2>9 DEF Flattening
      <3>2. p[i] = f[i] /\ (i = 1 => p[i - 1] = <<>>)
            /\ (i # 1 => p[i - 1] = f[i - 1])
        BY <1>1, <1>2, <2>11
      <3>3. <<>> \o seqs[i] = seqs[i]
        BY <1>1, <1>2
      <3>4. QED
        BY <3>1, <3>2, <3>3
    <2>13. p[0] = <<>> /\ p[n] = f[n]
      BY <1>1, <1>2, <1>6, <2>11
    <2>14. \A i \in 1 .. n : p[i - 1] \in Q => p[i] \in Q
      BY <1>4, <2>12
    <2>15. \A i \in 0 .. n : p[i] \in Q
      BY <1>1, <1>2, <1>4, <2>13, <2>14, StaysIn
    <2>16. p \in [0 .. n -> Q]
      BY <2>11, <2>15
    <2>17. Flattens(p, seqs, S)
      BY <1>2, <1>3, <2>10, <2>12, <2>13, <2>16 DEF Flattens
    <2>18. QED
      BY <2>17
  <1>7. QED
    BY <1>5, <1>6

\* What has been put in front stays where it is.
InPlace(p, seqs, S) ==
  /\ FlattenSeq(seqs) \in Seq(S)
  /\ \A i \in 0 .. Len(seqs) : Len(p[i]) \in 0 .. Len(FlattenSeq(seqs))
  /\ \A i \in 1 .. Len(seqs) :
       /\ Len(p[i]) = Len(p[i - 1]) + Len(seqs[i])
       /\ \A x \in 1 .. Len(seqs[i]) :
            FlattenSeq(seqs)[Len(p[i - 1]) + x] = seqs[i][x]

LEMMA FlattenedAt ==
  ASSUME NEW S, NEW seqs \in Seq(Seq(S)), NEW p, Flattens(p, seqs, S)
  PROVE  InPlace(p, seqs, S)
  <1>1. PICK n : n = Len(seqs)
    OBVIOUS
  <1>2. PICK w : w = FlattenSeq(seqs)
    OBVIOUS
  <1>3. /\ n \in Nat /\ w = p[n] /\ p[0] = <<>>
        /\ \A i \in 0 .. n : p[i] \in Seq(S)
        /\ \A i \in 1 .. n : seqs[i] \in Seq(S) /\ p[i] = p[i - 1] \o seqs[i]
    <2>1. n \in Nat /\ \A i \in 1 .. n : seqs[i] \in Seq(S)
      BY <1>1
    <2>2. /\ w = p[n] /\ p[0] = <<>> /\ p \in [0 .. n -> Seq(S)]
          /\ \A i \in 1 .. n : p[i] = p[i - 1] \o seqs[i]
      BY <1>1, <1>2 DEF Flattens
    <2>3. \A i \in 0 .. n : p[i] \in Seq(S)
      BY <2>2
    <2>4. QED
      BY <2>1, <2>2, <2>3
  <1>4. ASSUME NEW i \in 1 .. n
        PROVE  /\ Len(p[i]) = Len(p[i - 1]) + Len(seqs[i])
               /\ \A x \in 1 .. Len(p[i - 1]) : p[i][x] = p[i - 1][x]
               /\ \A x \in 1 .. Len(seqs[i]) : p[i][Len(p[i - 1]) + x] = seqs[i][x]
    <2>1. PICK a, b, c : a = p[i - 1] /\ b = seqs[i] /\ c = p[i]
      OBVIOUS
    <2>2. a \in Seq(S) /\ b \in Seq(S) /\ c = a \o b
      <3>1. i - 1 \in 0 .. n
        BY <1>3
      <3>2. QED
        BY <1>3, <2>1, <3>1
    <2>3. /\ Len(c) = Len(a) + Len(b)
          /\ \A x \in 1 .. Len(a) + Len(b) :
               c[x] = IF x <= Len(a) THEN a[x] ELSE b[x - Len(a)]
      BY <2>2, ConcatProperties
    <2>4. Len(a) \in Nat /\ Len(b) \in Nat
      BY <2>2
    <2>5. \A x \in 1 .. Len(a) : c[x] = a[x]
      BY <2>3, <2>4
    <2>6. ASSUME NEW x \in 1 .. Len(b)
          PROVE  c[Len(a) + x] = b[x]
      <3>1. /\ Len(a) + x \in 1 .. Len(a) + Len(b) /\ ~(Len(a) + x <= Len(a))
            /\ Len(a) + x - Len(a) = x
        BY <2>4
      <3>2. QED
        BY <2>3, <3>1
    <2>7. QED
      BY <2>1, <2>3, <2>5, <2>6
  <1>5. ASSUME NEW i \in 0 .. n
        PROVE  /\ Len(p[i]) <= Len(w)
               /\ \A x \in 1 .. Len(p[i]) : w[x] = p[i][x]
    <2>1. PICK T : T = {j \in Nat : j <= i \/ j > n \/
                        /\ Len(p[i]) <= Len(p[j])
                        /\ \A x \in 1 .. Len(p[i]) : p[j][x] = p[i][x]}
      OBVIOUS
    <2>2. 0 \in T
      BY <1>3, <2>1
    <2>3. ASSUME NEW j \in 1 .. n, j - 1 \in T
          PROVE  j \in T
      <3>1. CASE j <= i
        BY <2>1, <3>1
      <3>2. CASE j > i
        <4>1. /\ Len(p[i]) <= Len(p[j - 1])
              /\ \A x \in 1 .. Len(p[i]) : p[j - 1][x] = p[i][x]
          <5>1. CASE j - 1 = i
            <6>1. p[j - 1] = p[i] /\ Len(p[i]) \in Nat
              BY <1>3, <5>1
            <6>2. QED
              BY <6>1
          <5>2. CASE j - 1 # i
            BY <1>3, <2>1, <2>3, <3>2, <5>2
          <5>3. QED
            BY <5>1, <5>2
        <4>2. /\ p[j] \in Seq(S) /\ p[i] \in Seq(S) /\ p[j - 1] \in Seq(S)
              /\ seqs[j] \in Seq(S)
          <5>1. j \in 0 .. n /\ j - 1 \in 0 .. n
            BY <1>3
          <5>2. QED
            BY <1>3, <5>1
        <4>3. /\ Len(p[j]) \in Nat /\ Len(p[i]) \in Nat /\ Len(p[j - 1]) \in Nat
              /\ Len(seqs[j]) \in Nat
          BY <4>2
        <4>4. Len(p[i]) <= Len(p[j])
          <5>1. Len(p[j]) = Len(p[j - 1]) + Len(seqs[j])
            BY <1>4
          <5>2. Len(p[i]) <= Len(p[j - 1])
            BY <4>1, Zenon
          <5>3. QED
            <6>1. PICK a, b, c, d : /\ a = Len(p[i]) /\ b = Len(p[j - 1])
                                    /\ c = Len(p[j]) /\ d = Len(seqs[j])
              OBVIOUS
            <6>2. a <= b /\ c = b + d
              BY <5>1, <5>2, <6>1
            <6>3. a \in Nat /\ b \in Nat /\ d \in Nat
              BY <4>3, <6>1
            <6>4. a <= c
              BY <6>2, <6>3
            <6>5. QED
              BY <6>1, <6>4
        <4>5. \A x \in 1 .. Len(p[i]) : x \in 1 .. Len(p[j - 1])
          BY <4>1, <4>3
        <4>6. \A x \in 1 .. Len(p[i]) : p[j][x] = p[i][x]
          BY <1>4, <4>1, <4>5
        <4>7. QED
          BY <1>3, <2>1, <4>4, <4>6
      <3>3. QED
        BY <1>3, <3>1, <3>2
    <2>4. n \in T
      BY <1>3, <2>2, <2>3, InductionUpTo
    <2>5. CASE i = n
      <3>1. w = p[i] /\ Len(p[i]) \in Nat
        BY <1>3, <2>5
      <3>2. QED
        BY <3>1
    <2>6. CASE i # n
      BY <1>3, <2>1, <2>4, <2>6
    <2>7. QED
      BY <2>5, <2>6
  <1>6. w \in Seq(S)
    BY <1>3
  <1>7. \A i \in 0 .. n : Len(p[i]) \in 0 .. Len(w)
    BY <1>3, <1>5, <1>6
  <1>8. ASSUME NEW i \in 1 .. n, NEW x \in 1 .. Len(seqs[i])
        PROVE  w[Len(p[i - 1]) + x] = seqs[i][x]
    <2>1. i \in 0 .. n /\ i - 1 \in 0 .. n
      BY <1>3
    <2>2. Len(p[i - 1]) \in Nat /\ Len(seqs[i]) \in Nat
      BY <1>3, <2>1
    <2>3. Len(p[i - 1]) + x \in 1 .. Len(p[i])
      <3>1. Len(p[i]) = Len(p[i - 1]) + Len(seqs[i])
        BY <1>4, Zenon
      <3>2. PICK a, b, c : /\ a = Len(p[i - 1]) /\ b = Len(seqs[i])
                           /\ c = Len(p[i])
        OBVIOUS
      <3>3. a \in Nat /\ b \in Nat /\ c = a + b /\ x \in 1 .. b
        BY <2>2, <3>1, <3>2
      <3>4. a + x \in 1 .. c
        BY <3>3
      <3>5. QED
        BY <3>2, <3>4
    <2>4. QED
      BY <1>4, <1>5, <2>1, <2>3
  <1>9. QED
    BY <1>1, <1>2, <1>4, <1>6, <1>7, <1>8 DEF InPlace

\* Three bytes each.
LEMMA MveBytes ==
  ASSUME NEW ms \in Seq(MVE)
  PROVE  /\ FlattenSeq(ms) \in Seq(Byte) /\ Len(FlattenSeq(ms)) = 3 * Len(ms)
         /\ \A i \in 1 .. Len(ms), x \in 1 .. 3 :
              FlattenSeq(ms)[3 * (i - 1) + x] = ms[i][x]
  <1>1. \A m \in MVE : m \in Seq(Byte) /\ Len(m) = 3
    <2>1. TAKE m \in MVE
    <2>2. m \in [1 .. 3 -> Byte] /\ 3 \in Nat
      BY DEF MVE
    <2>3. m \in Seq(Byte)
      <3>1. Seq(Byte) = UNION {[1 .. n -> Byte] : n \in Nat}
        BY SeqDef
      <3>2. QED
        BY <2>2, <3>1, Zenon
    <2>4. QED
      BY <2>2, <2>3
  <1>2. ms \in Seq(Seq(Byte)) /\ Len(ms) \in Nat
    BY <1>1
  <1>3. PICK p : Flattens(p, ms, Byte)
    BY <1>2, FlattenSteps
  <1>4. /\ FlattenSeq(ms) \in Seq(Byte)
        /\ \A i \in 1 .. Len(ms) :
             /\ Len(p[i]) = Len(p[i - 1]) + Len(ms[i])
             /\ \A x \in 1 .. Len(ms[i]) :
                  FlattenSeq(ms)[Len(p[i - 1]) + x] = ms[i][x]
    <2>1. InPlace(p, ms, Byte)
      BY <1>2, <1>3, FlattenedAt
    <2>2. QED
      BY <2>1 DEF InPlace
  <1>5. \A i \in 1 .. Len(ms) : Len(ms[i]) = 3
    BY <1>1
  <1>6. \A i \in 0 .. Len(ms) : Len(p[i]) = 3 * i
    <2>1. PICK T : T = {i \in Nat : Len(p[i]) = 3 * i}
      OBVIOUS
    <2>2. 0 \in T
      BY <1>3, <2>1, EmptySeq DEF Flattens
    <2>3. ASSUME NEW i \in 1 .. Len(ms), i - 1 \in T
          PROVE  i \in T
      <3>1. Len(p[i]) = 3 * (i - 1) + 3
        BY <1>4, <1>5, <2>1, <2>3
      <3>2. QED
        BY <2>1, <3>1
    <2>4. \A i \in 0 .. Len(ms) : i \in T
      BY <1>2, <2>2, <2>3, InductionUpTo
    <2>5. QED
      BY <2>1, <2>4
  <1>7. Len(FlattenSeq(ms)) = 3 * Len(ms)
    BY <1>2, <1>3, <1>6 DEF Flattens
  <1>8. ASSUME NEW i \in 1 .. Len(ms), NEW x \in 1 .. 3
        PROVE  FlattenSeq(ms)[3 * (i - 1) + x] = ms[i][x]
    <2>1. i - 1 \in 0 .. Len(ms)
      BY <1>2
    <2>2. Len(p[i - 1]) = 3 * (i - 1) /\ Len(ms[i]) = 3
      BY <1>5, <1>6, <2>1
    <2>3. QED
      BY <1>4, <2>2
  <1>9. QED
    BY <1>4, <1>7, <1>8

-----------------------------------------------------------------------------
(* The bytes of a filter.                                                    *)

LEMMA Widths ==
  /\ TidWidth \in Nat /\ RawWidth \in Nat /\ KeyWidth \in Nat
  /\ KeyWidth > 0 /\ KeyWidth < ByteValues
  /\ Sender \in Orders /\ Receiver \in Orders /\ SEND_RECV = 3
  <1>1. KeyWidth \in 1 .. ByteValues - 1
    BY ModuleFilterAssumption DEF MaxByte
  <1>2. QED
    BY <1>1, ModuleFilterAssumption, Bytes DEF SEND_RECV

LEMMA TupleSeq ==
  ASSUME NEW n \in Nat, NEW S, NEW t \in [1 .. n -> S]
  PROVE  t \in Seq(S) /\ Len(t) = n
  <1>1. t \in Seq(S)
    <2>1. Seq(S) = UNION {[1 .. m -> S] : m \in Nat}
      BY SeqDef
    <2>2. QED
      BY <2>1, Zenon
  <1>2. QED
    BY <1>1

LEMMA RawElement ==
  ASSUME NEW f \in RawFilter, NEW e, e = <<f.cmp_length>> \o f.raw_bytes
  PROVE  /\ e \in Seq(Byte) /\ Len(e) = 1 + RawWidth
         /\ e[1] = f.cmp_length
         /\ \A x \in 1 .. RawWidth : e[1 + x] = f.raw_bytes[x]
  <1>1. /\ f.cmp_length \in Byte /\ RawWidth \in Nat
        /\ f.raw_bytes \in [1 .. RawWidth -> Byte]
    BY Widths DEF RawFilter
  <1>2. PICK a, b : a = <<f.cmp_length>> /\ b = f.raw_bytes
    OBVIOUS
  <1>3. /\ a \in Seq(Byte) /\ Len(a) = 1 /\ a[1] = f.cmp_length
        /\ b \in Seq(Byte) /\ Len(b) = RawWidth
    <2>1. b \in Seq(Byte) /\ Len(b) = RawWidth
      BY <1>1, <1>2, TupleSeq
    <2>2. QED
      BY <1>1, <1>2, <2>1
  <1>4. /\ e \in Seq(Byte) /\ Len(e) = Len(a) + Len(b)
        /\ \A x \in 1 .. Len(a) + Len(b) :
             e[x] = IF x <= Len(a) THEN a[x] ELSE b[x - Len(a)]
    BY <1>2, <1>3, ConcatProperties
  <1>5. ASSUME NEW x \in 1 .. RawWidth
        PROVE  e[1 + x] = b[x]
    <2>1. 1 + x \in 1 .. 1 + RawWidth /\ ~(1 + x <= 1) /\ 1 + x - 1 = x
      BY <1>1
    <2>2. QED
      BY <1>3, <1>4, <2>1
  <1>6. e[1] = f.cmp_length
    <2>1. 1 \in 1 .. 1 + RawWidth
      BY <1>1
    <2>2. QED
      BY <1>3, <1>4, <2>1
  <1>7. QED
    BY <1>1, <1>2, <1>3, <1>4, <1>5, <1>6

\* A title filter's head on either machine.
TitleHead(f) == (Len(f.mve_list) % Nibble) + Nibble * f.send_mode

LEMMA TitleTypes ==
  ASSUME NEW f \in TitleFilter
  PROVE  /\ f.title_id \in Words(TidWidth) /\ f.mve_list \in Seq(MVE)
         /\ Len(f.mve_list) \in Nat /\ f.send_mode \in 0 .. Nibble - 1
         /\ Len(f.mve_list) % Nibble \in 0 .. Nibble - 1 /\ TitleHead(f) \in Byte
  <1>1. /\ f.title_id \in Words(TidWidth) /\ f.mve_list \in Seq(MVE)
        /\ f.send_mode \in 0 .. SEND_RECV
    BY DEF TitleFilter
  <1>2. Len(f.mve_list) \in Nat
    BY <1>1
  <1>3. f.send_mode \in 0 .. Nibble - 1
    BY <1>1, Bytes DEF SEND_RECV
  <1>4. Len(f.mve_list) % Nibble \in 0 .. Nibble - 1
    <2>1. PICK m, n : m = Len(f.mve_list) /\ n = Nibble
      OBVIOUS
    <2>2. m \in Nat /\ n \in Nat \ {0}
      BY <1>2, <2>1, Bytes
    <2>3. m % n \in 0 .. n - 1
      BY <2>2
    <2>4. QED
      BY <2>1, <2>3
  <1>5. TitleHead(f) \in Byte
    <2>1. 0 \in Byte
      BY Bytes
    <2>2. QED
      BY <1>3, <1>4, <2>1, FieldValues DEF TitleHead
  <1>6. QED
    BY <1>1, <1>2, <1>3, <1>4, <1>5

LEMMA TitleElement ==
  ASSUME NEW host \in Orders, NEW f \in TitleFilter, NEW e, e = TitleBytes(host, f)
  PROVE  /\ e \in Seq(Byte) /\ Len(e) = TidWidth + 1 + 3 * Len(f.mve_list)
         /\ \A x \in 1 .. TidWidth : e[x] = BigMemory(f.title_id, TidWidth)[x]
         /\ e[TidWidth + 1] = TitleHead(f)
         /\ \A i \in 1 .. Len(f.mve_list), x \in 1 .. 3 :
              e[TidWidth + 1 + (3 * (i - 1) + x)] = f.mve_list[i][x]
  <1>1. PICK w, n : w = TidWidth /\ n = Len(f.mve_list)
    OBVIOUS
  <1>2. PICK a, b, c, d :
          /\ a = BigMemory(f.title_id, TidWidth) /\ b = <<TitleHead(f)>>
          /\ c = a \o b /\ d = FlattenSeq(f.mve_list)
    OBVIOUS
  <1>3. e = c \o d
    BY <1>2, StoredBytes, Fields, Widths, TitleTypes DEF TitleBytes, TitleHead
  <1>4. a \in Seq(Byte) /\ Len(a) = w /\ w \in Nat /\ n \in Nat
    BY <1>1, <1>2, NumberOfBytes, Widths, TitleTypes
  <1>5. b \in Seq(Byte) /\ Len(b) = 1 /\ b[1] = TitleHead(f)
    BY <1>2, TitleTypes
  <1>6. /\ c \in Seq(Byte) /\ Len(c) = w + 1
        /\ \A x \in 1 .. w + 1 : c[x] = IF x <= w THEN a[x] ELSE b[x - w]
    BY <1>2, <1>4, <1>5, ConcatProperties
  <1>7. /\ d \in Seq(Byte) /\ Len(d) = 3 * n
        /\ \A i \in 1 .. n, x \in 1 .. 3 : d[3 * (i - 1) + x] = f.mve_list[i][x]
    BY <1>1, <1>2, MveBytes, TitleTypes
  <1>a. PICK u, m : u = w + 1 /\ m = 3 * n
    OBVIOUS
  <1>b. u \in Nat /\ m \in Nat /\ Len(c) = u /\ Len(d) = m
    BY <1>4, <1>6, <1>7, <1>a
  <1>8. /\ e \in Seq(Byte) /\ Len(e) = u + m
        /\ \A x \in 1 .. u + m : e[x] = IF x <= u THEN c[x] ELSE d[x - u]
    <2>1. /\ e \in Seq(Byte) /\ Len(e) = Len(c) + Len(d)
          /\ \A x \in 1 .. Len(c) + Len(d) :
               e[x] = IF x <= Len(c) THEN c[x] ELSE d[x - Len(c)]
      <3>1. c \in Seq(Byte) /\ d \in Seq(Byte)
        BY <1>6, <1>7
      <3>2. QED
        BY <1>3, <3>1, ConcatProperties
    <2>2. QED
      BY <1>b, <2>1
  <1>9. ASSUME NEW x \in 1 .. w
        PROVE  e[x] = a[x]
    <2>1. x \in 1 .. w + 1 /\ x \in 1 .. u + m /\ x <= u /\ x <= w
      BY <1>4, <1>a, <1>b
    <2>2. QED
      BY <1>6, <1>8, <2>1
  <1>10. e[w + 1] = TitleHead(f)
    <2>1. u \in 1 .. w + 1 /\ u \in 1 .. u + m /\ u - w = 1 /\ ~(u <= w)
      BY <1>4, <1>a, <1>b
    <2>2. e[u] = c[u] /\ c[u] = b[1]
      BY <1>b, <1>6, <1>8, <2>1
    <2>3. QED
      BY <1>5, <1>a, <2>2
  <1>11. ASSUME NEW i \in 1 .. n, NEW x \in 1 .. 3
         PROVE  e[w + 1 + (3 * (i - 1) + x)] = f.mve_list[i][x]
    <2>1. PICK y : y = 3 * (i - 1) + x
      OBVIOUS
    <2>2. y \in 1 .. m
      BY <1>4, <1>a, <2>1
    <2>a. PICK z : z = u + y
      OBVIOUS
    <2>b. z \in 1 .. u + m /\ ~(z <= u) /\ z - u = y
      BY <1>b, <2>2, <2>a
    <2>c. e[z] = d[y]
      BY <1>8, <2>b
    <2>4. e[u + y] = d[y]
      BY <2>a, <2>c
    <2>5. d[y] = f.mve_list[i][x]
      BY <1>7, <2>1
    <2>6. QED
      BY <1>a, <2>1, <2>4, <2>5
  <1>12. QED
    BY <1>1, <1>2, <1>a, <1>8, <1>9, <1>10, <1>11

LEMMA ElementSize ==
  ASSUME NEW host \in Orders, NEW k \in Kinds, NEW f \in Elements(k)
  PROVE  /\ ElementBytes(host, k, f) \in Seq(Byte)
         /\ Len(ElementBytes(host, k, f)) = ByteSize(k, f)
         /\ ByteSize(k, f) \in Nat
  <1>1. CASE k = "raw"
    <2>1. /\ f \in RawFilter /\ ByteSize(k, f) = 1 + RawWidth
          /\ ElementBytes(host, k, f) = <<f.cmp_length>> \o f.raw_bytes
      BY <1>1 DEF Elements, ByteSize, ElementBytes
    <2>2. PICK e : e = ElementBytes(host, k, f)
      OBVIOUS
    <2>3. e \in Seq(Byte) /\ Len(e) = 1 + RawWidth
      BY <2>1, <2>2, RawElement
    <2>4. QED
      BY <2>1, <2>2, <2>3, Widths
  <1>2. CASE k = "title"
    <2>1. /\ f \in TitleFilter
          /\ ByteSize(k, f) = TidWidth + 1 + 3 * Len(f.mve_list)
          /\ ElementBytes(host, k, f) = TitleBytes(host, f)
      BY <1>2 DEF Elements, ByteSize, ElementBytes
    <2>2. QED
      BY <2>1, TitleElement, TitleTypes, Widths
  <1>3. CASE k = "key"
    <2>1. /\ f \in [1 .. KeyWidth -> Byte] /\ ByteSize(k, f) = KeyWidth
          /\ ElementBytes(host, k, f) = f
      BY <1>3 DEF Elements, ByteSize, ElementBytes, Key
    <2>2. QED
      BY <2>1, TupleSeq, Widths
  <1>4. QED
    BY <1>1, <1>2, <1>3 DEF Kinds

\* The recursion of ElementsSize, and what it reaches.
Sizing(f, k, fs) ==
  f = [i \in 0 .. Len(fs) |-> IF i = 0 THEN 0 ELSE f[i - 1] + ByteSize(k, fs[i])]
SizeSteps(size, k, fs) ==
  /\ size[0] = 0 /\ \A i \in 0 .. Len(fs) : size[i] \in Nat
  /\ \A i \in 1 .. Len(fs) : size[i] = size[i - 1] + ByteSize(k, fs[i])

LEMMA ElementsSizeSteps ==
  ASSUME NEW k \in Kinds, NEW fs \in Seq(Elements(k))
  PROVE  \E size : SizeSteps(size, k, fs) /\ ElementsSize(k, fs) = size[Len(fs)]
  <1>1. PICK n : n = Len(fs)
    OBVIOUS
  <1>2. n \in Nat /\ \A i \in 1 .. n : ByteSize(k, fs[i]) \in Nat
    <2>1. \A i \in 1 .. n : fs[i] \in Elements(k)
      BY <1>1
    <2>2. QED
      BY <1>1, <2>1, ElementSize, Widths
  <1>3. \E f : Sizing(f, k, fs)
    <2>1. PICK F : F = [i \in 1 .. n |-> [u \in Nat |-> u + ByteSize(k, fs[i])]]
      OBVIOUS
    <2>2. \A i \in 1 .. n : \A u \in Nat : u + ByteSize(k, fs[i]) \in Nat
      BY <1>2
    <2>3. Steps(F, n, Nat)
      BY <2>1, <2>2 DEF Steps
    <2>4. PICK f : Iterates(f, F, 0, n, Nat)
      BY <1>2, <2>3, Iteration
    <2>5. f \in [0 .. n -> Nat] /\ f[0] = 0
          /\ \A i \in 1 .. n : f[i] = F[i][f[i - 1]]
      BY <2>4 DEF Iterates
    <2>6. ASSUME NEW i \in 0 .. n
          PROVE  f[i] = IF i = 0 THEN 0 ELSE f[i - 1] + ByteSize(k, fs[i])
      <3>1. CASE i = 0
        BY <2>5, <3>1
      <3>2. CASE i # 0
        <4>1. i \in 1 .. n /\ i - 1 \in 0 .. n
          BY <1>2, <3>2
        <4>2. f[i - 1] \in Nat
          BY <2>5, <4>1
        <4>3. QED
          BY <2>1, <2>5, <3>2, <4>1, <4>2
      <3>3. QED
        BY <3>1, <3>2
    <2>7. f = [i \in 0 .. n |-> f[i]]
      BY <2>5
    <2>8. Sizing(f, k, fs)
      BY <1>1, <2>6, <2>7 DEF Sizing
    <2>9. QED
      BY <2>8
  <1>4. PICK f : f = (CHOOSE g : Sizing(g, k, fs)) /\ Sizing(f, k, fs)
    BY <1>3
  <1>5. ElementsSize(k, fs) = f[n]
    BY <1>1, <1>4 DEF ElementsSize, Sizing
  <1>6. \A i \in 0 .. n : f[i] = IF i = 0 THEN 0 ELSE f[i - 1] + ByteSize(k, fs[i])
    BY <1>1, <1>4 DEF Sizing
  <1>7. f[0] = 0 /\ \A i \in 1 .. n : f[i] = f[i - 1] + ByteSize(k, fs[i])
    BY <1>2, <1>6
  <1>8. \A i \in 1 .. n : f[i - 1] \in Nat => f[i] \in Nat
    BY <1>2, <1>7
  <1>9. \A i \in 0 .. n : f[i] \in Nat
    <2>1. PICK S : S = Nat
      OBVIOUS
    <2>2. f[0] \in S /\ \A i \in 1 .. n : f[i - 1] \in S => f[i] \in S
      BY <1>7, <1>8, <2>1
    <2>3. \A i \in 0 .. n : f[i] \in S
      BY <1>2, <2>2, StaysIn
    <2>4. QED
      BY <2>1, <2>3, Zenon
  <1>10. SizeSteps(f, k, fs)
    BY <1>1, <1>7, <1>9 DEF SizeSteps
  <1>11. QED
    BY <1>1, <1>5, <1>10

\* Lists with the same beginning have the same sizes there.
SameUpTo(n, fs, gs) == \A i \in 1 .. n : fs[i] = gs[i]

LEMMA SizesAgree ==
  ASSUME NEW k, NEW fs, NEW gs, NEW n \in Nat, Len(fs) \in Nat, Len(gs) \in Nat,
         n <= Len(fs), n <= Len(gs), SameUpTo(n, fs, gs),
         NEW f, SizeSteps(f, k, fs), NEW g, SizeSteps(g, k, gs)
  PROVE  \A i \in 0 .. n : f[i] = g[i]
  <1>1. PICK T : T = {i \in Nat : f[i] = g[i]}
    OBVIOUS
  <1>2. 0 \in T
    BY <1>1 DEF SizeSteps
  <1>3. ASSUME NEW i \in 1 .. n, i - 1 \in T
        PROVE  i \in T
    <2>1. i \in 1 .. Len(fs) /\ i \in 1 .. Len(gs)
      OBVIOUS
    <2>2. /\ f[i] = f[i - 1] + ByteSize(k, fs[i])
          /\ g[i] = g[i - 1] + ByteSize(k, gs[i])
          /\ fs[i] = gs[i]
      BY <2>1 DEF SizeSteps, SameUpTo
    <2>3. QED
      BY <1>1, <1>3, <2>2
  <1>4. \A i \in 0 .. n : i \in T
    BY <1>2, <1>3, InductionUpTo
  <1>5. QED
    BY <1>1, <1>4

LEMMA ElementsSizeProperties ==
  ASSUME NEW k \in Kinds, NEW fs \in Seq(Elements(k))
  PROVE  /\ ElementsSize(k, fs) \in Nat
         /\ fs = <<>> => ElementsSize(k, fs) = 0
         /\ \A f \in Elements(k) :
              ElementsSize(k, Append(fs, f)) = ElementsSize(k, fs) + ByteSize(k, f)
  <1>1. PICK size : SizeSteps(size, k, fs) /\ ElementsSize(k, fs) = size[Len(fs)]
    BY ElementsSizeSteps
  <1>2. Len(fs) \in Nat
    OBVIOUS
  <1>3. ElementsSize(k, fs) \in Nat /\ (fs = <<>> => ElementsSize(k, fs) = 0)
    BY <1>1, <1>2 DEF SizeSteps
  <1>4. ASSUME NEW f \in Elements(k)
        PROVE  ElementsSize(k, Append(fs, f)) = ElementsSize(k, fs) + ByteSize(k, f)
    <2>1. PICK gs, n : gs = Append(fs, f) /\ n = Len(fs)
      OBVIOUS
    <2>2. /\ gs \in Seq(Elements(k)) /\ Len(gs) = n + 1 /\ gs[n + 1] = f
          /\ \A i \in 1 .. n : fs[i] = gs[i]
      BY <2>1
    <2>3. PICK g : SizeSteps(g, k, gs) /\ ElementsSize(k, gs) = g[Len(gs)]
      BY <2>2, ElementsSizeSteps
    <2>4. /\ n \in Nat /\ n <= Len(gs) /\ Len(gs) \in Nat
          /\ n <= Len(fs) /\ Len(fs) \in Nat /\ SameUpTo(n, fs, gs)
      BY <1>2, <2>1, <2>2 DEF SameUpTo
    <2>5. \A i \in 0 .. n : size[i] = g[i]
      BY <1>1, <2>3, <2>4, SizesAgree
    <2>6. n + 1 \in 1 .. Len(gs) /\ n + 1 - 1 = n /\ n \in 0 .. n
      BY <2>2, <2>4
    <2>7. g[n + 1] = g[n] + ByteSize(k, f)
      BY <2>2, <2>3, <2>6 DEF SizeSteps
    <2>8. QED
      BY <1>1, <2>1, <2>2, <2>3, <2>5, <2>6, <2>7
  <1>5. QED
    BY <1>3, <1>4

\* Where each filter's bytes are in a list's.
Located(w, host, k, fs, size) ==
  /\ w \in Seq(Byte) /\ Len(w) = ElementsSize(k, fs)
  /\ SizeSteps(size, k, fs)
  /\ \A i \in 0 .. Len(fs) : size[i] <= Len(w)
  /\ size[Len(fs)] = Len(w)
  /\ \A i \in 1 .. Len(fs) : \A x \in 1 .. ByteSize(k, fs[i]) :
       w[size[i - 1] + x] = ElementBytes(host, k, fs[i])[x]

LEMMA ContentAt ==
  ASSUME NEW host \in Orders, NEW k \in Kinds, NEW l,
         l.filters \in Seq(Elements(k))
  PROVE  \E size : Located(ContentBytes(host, k, l), host, k, l.filters, size)
  <1>1. PICK fs, n : fs = l.filters /\ n = Len(fs)
    OBVIOUS
  <1>2. /\ fs \in Seq(Elements(k)) /\ n \in Nat
        /\ \A i \in 1 .. n : fs[i] \in Elements(k)
    BY <1>1
  <1>3. PICK seqs : seqs = [i \in 1 .. n |-> ElementBytes(host, k, fs[i])]
    OBVIOUS
  <1>4. \A i \in 1 .. n : /\ seqs[i] \in Seq(Byte)
                         /\ Len(seqs[i]) = ByteSize(k, fs[i])
                         /\ ByteSize(k, fs[i]) \in Nat
    BY <1>2, <1>3, ElementSize
  <1>5. seqs \in Seq(Seq(Byte)) /\ Len(seqs) = n
    <2>1. seqs \in [1 .. n -> Seq(Byte)]
      BY <1>3, <1>4
    <2>2. QED
      BY <1>2, <2>1, TupleSeq
  <1>6. PICK p : Flattens(p, seqs, Byte)
    BY <1>5, FlattenSteps
  <1>7. InPlace(p, seqs, Byte)
    BY <1>5, <1>6, FlattenedAt
  <1>8. PICK w : w = FlattenSeq(seqs) /\ w = ContentBytes(host, k, l)
    BY <1>1, <1>3 DEF ContentBytes
  <1>9. /\ w \in Seq(Byte) /\ \A i \in 0 .. n : Len(p[i]) \in 0 .. Len(w)
        /\ \A i \in 1 .. n : /\ Len(p[i]) = Len(p[i - 1]) + Len(seqs[i])
                            /\ \A x \in 1 .. Len(seqs[i]) :
                                 w[Len(p[i - 1]) + x] = seqs[i][x]
    BY <1>5, <1>7, <1>8 DEF InPlace
  <1>10. PICK size : size = [i \in 0 .. n |-> Len(p[i])]
    OBVIOUS
  <1>11. \A i \in 1 .. n : i - 1 \in 0 .. n /\ i \in 0 .. n
    BY <1>2
  <1>12. Len(w) \in Nat /\ \A i \in 0 .. n : size[i] \in Nat /\ size[i] <= Len(w)
    BY <1>9, <1>10
  <1>13. SizeSteps(size, k, fs)
    <2>1. p[0] = <<>> /\ 0 \in 0 .. n
      BY <1>2, <1>6 DEF Flattens
    <2>2. size[0] = 0
      BY <1>10, <2>1, EmptySeq
    <2>3. \A i \in 1 .. n : size[i] = size[i - 1] + ByteSize(k, fs[i])
      BY <1>4, <1>9, <1>10, <1>11
    <2>4. QED
      BY <1>1, <1>12, <2>2, <2>3 DEF SizeSteps
  <1>14. size[n] = Len(w)
    <2>1. w = p[n]
      BY <1>5, <1>6, <1>8 DEF Flattens
    <2>2. n \in 0 .. n
      BY <1>2
    <2>3. QED
      BY <1>10, <2>1, <2>2
  <1>15. Len(w) = ElementsSize(k, fs)
    <2>1. PICK g : SizeSteps(g, k, fs) /\ ElementsSize(k, fs) = g[n]
      BY <1>1, <1>2, ElementsSizeSteps
    <2>2. /\ n \in Nat /\ n <= Len(fs) /\ Len(fs) \in Nat /\ n \in 0 .. n
          /\ SameUpTo(n, fs, fs)
      BY <1>1, <1>2 DEF SameUpTo
    <2>3. \A i \in 0 .. n : size[i] = g[i]
      BY <1>13, <2>1, <2>2, SizesAgree
    <2>4. QED
      BY <1>14, <2>1, <2>2, <2>3
  <1>16. \A i \in 1 .. n : \A x \in 1 .. ByteSize(k, fs[i]) :
           w[size[i - 1] + x] = ElementBytes(host, k, fs[i])[x]
    BY <1>3, <1>4, <1>9, <1>10, <1>11
  <1>17. Located(w, host, k, fs, size)
    BY <1>1, <1>9, <1>12, <1>13, <1>14, <1>15, <1>16 DEF Located
  <1>18. QED
    BY <1>1, <1>8, <1>17

-----------------------------------------------------------------------------
(* Lists, filters and their sizes.                                           *)

LEMMA ListSize ==
  ASSUME NEW host \in Orders, NEW k \in Kinds, NEW l \in ListOf(k)
  PROVE  /\ ContentBytes(host, k, l) \in Seq(Byte)
         /\ Len(ContentBytes(host, k, l)) = ElementsSize(k, l.filters)
         /\ ElementsSize(k, l.filters) \in Nat
         /\ ListBytes(host, k, l) \in Seq(Byte)
         /\ Len(ListBytes(host, k, l)) = 2 + ElementsSize(k, l.filters)
         /\ ListBytes(host, k, l)[1] = l.flags + Nibble * Marker(k)
         /\ ListBytes(host, k, l)[2] = l.length
         /\ \A x \in 1 .. ElementsSize(k, l.filters) :
              ListBytes(host, k, l)[2 + x] = ContentBytes(host, k, l)[x]
  <1>1. /\ l.flags \in 0 .. Nibble - 1 /\ l.length \in Byte
        /\ l.filters \in Seq(Elements(k))
    BY DEF ListOf
  <1>2. PICK c, n : c = ContentBytes(host, k, l) /\ n = ElementsSize(k, l.filters)
    OBVIOUS
  <1>3. PICK size : Located(c, host, k, l.filters, size)
    BY <1>1, <1>2, ContentAt
  <1>4. c \in Seq(Byte) /\ Len(c) = n /\ n \in Nat
    BY <1>2, <1>3 DEF Located
  <1>5. PICK h : h = l.flags + Nibble * Marker(k)
    OBVIOUS
  <1>6. h \in Byte
    <2>1. Marker(k) \in 0 .. Nibble - 1
      BY Bytes DEF Kinds, Marker
    <2>2. 0 \in Byte
      BY Bytes
    <2>3. QED
      BY <1>1, <1>5, <2>1, <2>2, FieldValues
  <1>7. PICK a : a = <<h, l.length>>
    OBVIOUS
  <1>8. a \in Seq(Byte) /\ Len(a) = 2 /\ a[1] = h /\ a[2] = l.length
    BY <1>1, <1>6, <1>7
  <1>9. PICK w : w = ListBytes(host, k, l)
    OBVIOUS
  <1>10. w = a \o c
    BY <1>2, <1>5, <1>7, <1>9, Fields DEF ListBytes
  <1>11. /\ w \in Seq(Byte) /\ Len(w) = Len(a) + Len(c)
         /\ \A x \in 1 .. Len(a) + Len(c) :
              w[x] = IF x <= Len(a) THEN a[x] ELSE c[x - Len(a)]
    BY <1>4, <1>8, <1>10, ConcatProperties
  <1>12. w[1] = h /\ w[2] = l.length
    BY <1>4, <1>8, <1>11
  <1>13. ASSUME NEW x \in 1 .. n
         PROVE  w[2 + x] = c[x]
    <2>1. 2 + x \in 1 .. 2 + n /\ ~(2 + x <= 2) /\ 2 + x - 2 = x
      BY <1>4
    <2>2. QED
      BY <1>4, <1>8, <1>11, <2>1
  <1>14. QED
    BY <1>2, <1>4, <1>5, <1>8, <1>9, <1>11, <1>12, <1>13

\* What a list takes in the whole, which leaves two of them out when empty.
OptionalSize(k, m) ==
  IF m[k].filters = <<>> THEN 0 ELSE 2 + ElementsSize(k, m[k].filters)

LEMMA OptionalBytes ==
  ASSUME NEW host \in Orders, NEW k \in Kinds, NEW m, m[k] \in ListOf(k)
  PROVE  /\ Optional(host, k, m) \in Seq(Byte)
         /\ Len(Optional(host, k, m)) = OptionalSize(k, m)
         /\ OptionalSize(k, m) \in Nat
  <1>1. CASE m[k].filters = <<>>
    BY <1>1, EmptySeq DEF Optional, OptionalSize
  <1>2. CASE m[k].filters # <<>>
    BY <1>2, ListSize DEF Optional, OptionalSize
  <1>3. QED
    BY <1>1, <1>2

\* Where each list begins.
Offset(k, m) ==
  CASE k = "raw" -> 0
    [] k = "title" -> OptionalSize("raw", m)
    [] k = "key" -> OptionalSize("raw", m) + OptionalSize("title", m)

Lists(m) == \A k \in Kinds : m[k] \in ListOf(k)
Sent(k, m) == k = "key" \/ m[k].filters # <<>>

LEMMA EncodingBytes ==
  ASSUME NEW host \in Orders, NEW m, Lists(m), NEW w, w = Encoding(host, m)
  PROVE  /\ w \in Seq(Byte) /\ Len(w) = FilterSize(m)
         /\ Len(w) = Offset("key", m) + 2 + ElementsSize("key", m["key"].filters)
         /\ \A k \in Kinds : Offset(k, m) \in Nat
         /\ \A k \in Kinds : Sent(k, m) =>
              /\ Offset(k, m) + 2 + ElementsSize(k, m[k].filters) <= Len(w)
              /\ \A x \in 1 .. 2 + ElementsSize(k, m[k].filters) :
                   w[Offset(k, m) + x] = ListBytes(host, k, m[k])[x]
  <1>1. PICK a, b, c, d :
          /\ a = Optional(host, "raw", m) /\ b = Optional(host, "title", m)
          /\ c = ListBytes(host, "key", m["key"]) /\ d = a \o b
    OBVIOUS
  <1>2. /\ "raw" \in Kinds /\ "title" \in Kinds /\ "key" \in Kinds
        /\ m["raw"] \in ListOf("raw") /\ m["title"] \in ListOf("title")
        /\ m["key"] \in ListOf("key")
    BY DEF Kinds, Lists
  <1>3. PICK i, j, n : /\ i = OptionalSize("raw", m) /\ j = OptionalSize("title", m)
                       /\ n = 2 + ElementsSize("key", m["key"].filters)
    OBVIOUS
  <1>4. /\ a \in Seq(Byte) /\ Len(a) = i /\ i \in Nat
        /\ b \in Seq(Byte) /\ Len(b) = j /\ j \in Nat
    BY <1>1, <1>2, <1>3, OptionalBytes
  <1>5. c \in Seq(Byte) /\ Len(c) = n /\ n \in Nat
    BY <1>1, <1>2, <1>3, ListSize
  <1>6. /\ d \in Seq(Byte) /\ Len(d) = i + j
        /\ \A x \in 1 .. i + j : d[x] = IF x <= i THEN a[x] ELSE b[x - i]
    BY <1>1, <1>4, ConcatProperties
  <1>7. /\ w \in Seq(Byte) /\ Len(w) = i + j + n
        /\ \A x \in 1 .. i + j + n : w[x] = IF x <= i + j THEN d[x] ELSE c[x - (i + j)]
    <2>1. w = d \o c
      BY <1>1 DEF Encoding
    <2>2. /\ w \in Seq(Byte) /\ Len(w) = Len(d) + Len(c)
          /\ \A x \in 1 .. Len(d) + Len(c) :
               w[x] = IF x <= Len(d) THEN d[x] ELSE c[x - Len(d)]
      <3>1. c \in Seq(Byte) /\ d \in Seq(Byte)
        BY <1>5, <1>6
      <3>2. QED
        BY <2>1, <3>1, ConcatProperties
    <2>3. QED
      BY <1>5, <1>6, <2>2
  <1>8. Offset("raw", m) = 0 /\ Offset("title", m) = i /\ Offset("key", m) = i + j
    BY <1>3 DEF Offset
  <1>9. \A k \in Kinds : Offset(k, m) \in Nat
    BY <1>4, <1>8 DEF Kinds
  <1>10. FilterSize(m) = n + i + j
    BY <1>3 DEF FilterSize, OptionalSize
  <1>11. Len(w) = FilterSize(m) /\ Len(w) = Offset("key", m) + n
    BY <1>4, <1>5, <1>7, <1>8, <1>10
  <1>12. ASSUME NEW k \in Kinds, Sent(k, m), NEW x \in 1 .. 2 + ElementsSize(k, m[k].filters)
         PROVE  w[Offset(k, m) + x] = ListBytes(host, k, m[k])[x]
    <2>1. CASE k = "raw"
      <3>1. a = ListBytes(host, k, m[k]) /\ x \in 1 .. i
        BY <1>1, <1>3, <1>12, <2>1 DEF Sent, Optional, OptionalSize
      <3>2. x \in 1 .. i + j /\ x \in 1 .. i + j + n /\ x <= i /\ x <= i + j /\ 0 + x = x
        BY <1>4, <1>5, <3>1
      <3>3. QED
        BY <1>6, <1>7, <1>8, <2>1, <3>1, <3>2
    <2>2. CASE k = "title"
      <3>1. b = ListBytes(host, k, m[k]) /\ x \in 1 .. j
        BY <1>1, <1>3, <1>12, <2>2 DEF Sent, Optional, OptionalSize
      <3>2. PICK y : y = i + x
        OBVIOUS
      <3>3. /\ y \in 1 .. i + j /\ y \in 1 .. i + j + n
            /\ ~(y <= i) /\ y <= i + j /\ y - i = x
        BY <1>4, <1>5, <3>1, <3>2
      <3>4. w[y] = d[y] /\ d[y] = b[x]
        BY <1>6, <1>7, <3>3
      <3>5. QED
        BY <1>8, <2>2, <3>1, <3>2, <3>4
    <2>3. CASE k = "key"
      <3>1. c = ListBytes(host, k, m[k]) /\ x \in 1 .. n
        BY <1>1, <1>3, <2>3
      <3>2. PICK y : y = i + j + x
        OBVIOUS
      <3>3. y \in 1 .. i + j + n /\ ~(y <= i + j) /\ y - (i + j) = x
        BY <1>4, <1>5, <3>1, <3>2
      <3>4. w[y] = c[x]
        BY <1>7, <3>3
      <3>5. QED
        BY <1>8, <2>3, <3>1, <3>2, <3>4
    <2>4. QED
      BY <2>1, <2>2, <2>3 DEF Kinds
  <1>13. Len(w) = Offset("key", m) + 2 + ElementsSize("key", m["key"].filters)
    <2>1. PICK e, o : e = ElementsSize("key", m["key"].filters) /\ o = Offset("key", m)
      OBVIOUS
    <2>2. e \in Nat /\ o \in Nat
      BY <1>2, <1>9, <2>1, ListSize
    <2>3. n = 2 + e /\ Len(w) = o + n
      BY <1>3, <1>11, <2>1
    <2>4. Len(w) = o + 2 + e
      BY <2>2, <2>3
    <2>5. QED
      BY <2>1, <2>4
  <1>14. ASSUME NEW k \in Kinds, Sent(k, m)
         PROVE  Offset(k, m) + 2 + ElementsSize(k, m[k].filters) <= Len(w)
    <2>1. PICK e : e = ElementsSize(k, m[k].filters)
      OBVIOUS
    <2>2. e \in Nat
      BY <2>1, ListSize DEF Lists
    <2>3. CASE k = "raw"
      <3>1. i = 2 + e
        BY <1>3, <1>14, <2>1, <2>3 DEF Sent, OptionalSize
      <3>2. 0 + 2 + e <= i + j + n
        BY <1>4, <1>5, <2>2, <3>1
      <3>3. QED
        BY <1>7, <1>8, <2>1, <2>3, <3>2
    <2>4. CASE k = "title"
      <3>1. j = 2 + e
        BY <1>3, <1>14, <2>1, <2>4 DEF Sent, OptionalSize
      <3>2. i + 2 + e <= i + j + n
        BY <1>4, <1>5, <2>2, <3>1
      <3>3. QED
        BY <1>7, <1>8, <2>1, <2>4, <3>2
    <2>5. CASE k = "key"
      <3>1. n = 2 + e
        BY <1>3, <2>1, <2>5
      <3>2. (i + j) + 2 + e <= i + j + n
        BY <1>4, <1>5, <2>2, <3>1
      <3>3. QED
        BY <1>7, <1>8, <2>1, <2>5, <3>2
    <2>6. QED
      BY <2>3, <2>4, <2>5 DEF Kinds
  <1>15. QED
    BY <1>7, <1>9, <1>11, <1>12, <1>13, <1>14

-----------------------------------------------------------------------------
(* Parsing one filter.                                                       *)

\* The b elements of s behind the first a.
IsCut(c, s, a, b) ==
  /\ a \in Nat /\ b \in Nat /\ a + b <= Len(s)
  /\ c = SubSeq(s, a + 1, a + b)

LEMMA Cut ==
  ASSUME NEW S, NEW s \in Seq(S), NEW a, NEW b, NEW c, IsCut(c, s, a, b)
  PROVE  /\ c \in Seq(S) /\ Len(c) = b /\ c \in [1 .. b -> S]
         /\ \A x \in 1 .. b : c[x] = s[a + x]
  <1>a. a \in Nat /\ b \in Nat /\ a + b <= Len(s) /\ c = SubSeq(s, a + 1, a + b)
    BY DEF IsCut
  <1>1. PICK n : n = Len(s)
    OBVIOUS
  <1>2. n \in Nat /\ \A i \in 1 .. n : s[i] \in S
    BY <1>1
  <1>3. \A i \in a + 1 .. a + b : s[i] \in S
    BY <1>1, <1>2, <1>a
  <1>4. PICK p, q : p = a + 1 /\ q = a + b
    OBVIOUS
  <1>5. p \in Int /\ q \in Int /\ c = SubSeq(s, p, q) /\ \A i \in p .. q : s[i] \in S
    BY <1>3, <1>4, <1>a
  <1>6. /\ c \in Seq(S) /\ Len(c) = IF p <= q THEN q - p + 1 ELSE 0
        /\ \A i \in 1 .. q - p + 1 : c[i] = s[p + i - 1]
    BY <1>5, SubSeqProperties
  <1>7. Len(c) = b /\ q - p + 1 = b
    BY <1>4, <1>6, <1>a
  <1>8. ASSUME NEW x \in 1 .. b
        PROVE  c[x] = s[a + x]
    <2>1. x \in 1 .. q - p + 1 /\ p + x - 1 = a + x
      BY <1>4, <1>7, <1>a
    <2>2. QED
      BY <1>6, <2>1
  <1>9. c \in [1 .. b -> S]
    <2>1. c \in [1 .. Len(c) -> S]
      BY <1>6, LenProperties
    <2>2. QED
      BY <1>7, <2>1
  <1>10. QED
    BY <1>6, <1>7, <1>8, <1>9

LEMMA Dropped ==
  ASSUME NEW S, NEW s \in Seq(S), NEW n \in Nat, n <= Len(s)
  PROVE  /\ Drop(s, n) \in Seq(S) /\ Len(Drop(s, n)) = Len(s) - n
         /\ \A x \in 1 .. Len(s) - n : Drop(s, n)[x] = s[n + x]
  <1>1. PICK d, b : d = Drop(s, n) /\ b = Len(s) - n
    OBVIOUS
  <1>2. b \in Nat /\ n + b = Len(s) /\ n + b <= Len(s)
    BY <1>1
  <1>3. IsCut(d, s, n, b)
    BY <1>1, <1>2 DEF Drop, IsCut
  <1>4. d \in Seq(S) /\ Len(d) = b /\ \A x \in 1 .. b : d[x] = s[n + x]
    BY <1>3, Cut
  <1>5. QED
    BY <1>1, <1>4

LEMMA SizePositive ==
  ASSUME NEW k \in Kinds, NEW f \in Elements(k)
  PROVE  ByteSize(k, f) \in Nat /\ ByteSize(k, f) > 0
  <1>1. CASE k = "raw"
    BY <1>1, Widths DEF ByteSize
  <1>2. CASE k = "title"
    <2>1. Len(f.mve_list) \in Nat
      BY <1>2, TitleTypes DEF Elements
    <2>2. PICK n, w : n = Len(f.mve_list) /\ w = TidWidth
      OBVIOUS
    <2>3. n \in Nat /\ w \in Nat /\ ByteSize(k, f) = w + 1 + 3 * n
      BY <1>2, <2>1, <2>2, Widths DEF ByteSize
    <2>4. QED
      BY <2>3
  <1>3. CASE k = "key"
    BY <1>3, Widths DEF ByteSize
  <1>4. QED
    BY <1>1, <1>2, <1>3 DEF Kinds

\* A title filter's parser in terms of its head.
TitleCut(s, w, n, m) ==
  /\ w = TidWidth /\ Len(s) >= w + 1
  /\ n = s[w + 1] % Nibble /\ m = s[w + 1] \div Nibble
TitleOf(s, w, n, m) ==
  [title_id |-> Values(SubSeq(s, 1, w))[w], send_mode |-> m,
   mve_list |-> [i \in 1 .. n |-> SubSeq(s, w + 1 + 3 * i - 2, w + 1 + 3 * i)]]

LEMMA ParseTitleSteps ==
  ASSUME NEW s \in Seq(Byte), NEW w, NEW n, NEW m, TitleCut(s, w, n, m)
  PROVE  /\ n \in 0 .. Nibble - 1 /\ m \in 0 .. Nibble - 1
         /\ (m > SEND_RECV \/ Len(s) < w + 1 + 3 * n) => ParseTitle(s) = {}
         /\ ~(m > SEND_RECV \/ Len(s) < w + 1 + 3 * n) =>
              ParseTitle(s) = {TitleOf(s, w, n, m)}
  <1>0. /\ w = TidWidth /\ Len(s) >= w + 1
        /\ n = s[w + 1] % Nibble /\ m = s[w + 1] \div Nibble
    BY DEF TitleCut
  <1>1. w \in Nat /\ Len(s) \in Nat
    BY <1>0, Widths
  <1>2. s[w + 1] \in Byte
    <2>1. w + 1 \in 1 .. Len(s)
      BY <1>0, <1>1
    <2>2. QED
      BY <2>1
  <1>3. 0 \in Byte /\ 0 \in 0 .. Nibble - 1
    BY Bytes
  <1>4. n \in 0 .. Nibble - 1 /\ m \in 0 .. Nibble - 1
    BY <1>0, <1>2, <1>3, FieldValues
  <1>5. Low(Receiver, s[w + 1]) = n /\ High(Receiver, s[w + 1]) = m
    BY <1>0, Fields, Widths
  <1>6. PICK b : b = SubSeq(s, 1, w)
    OBVIOUS
  <1>7. b \in Seq(Byte) /\ Len(b) = w
    <2>1. IsCut(b, s, 0, w)
      BY <1>0, <1>1, <1>6 DEF IsCut
    <2>2. QED
      BY <2>1, Cut
  <1>8. Loaded(Receiver, "big", b) = Values(b)[w]
    BY <1>7, LoadedWord, Widths
  <1>9. ~(Len(s) < w + 1)
    BY <1>0, <1>1
  <1>10. QED
    BY <1>0, <1>4, <1>5, <1>6, <1>8, <1>9 DEF ParseTitle, TitleOf

\* What a parser makes of any bytes is a filter, and it is as long as the bytes
\* that it was made of.
Fitting(k, f) == k = "title" => Len(f.mve_list) < Nibble

LEMMA ParsedElement ==
  ASSUME NEW k \in Kinds, NEW s \in Seq(Byte), NEW f \in Parse(k, s)
  PROVE  f \in Elements(k) /\ Fitting(k, f) /\ ByteSize(k, f) <= Len(s)
  <1>1. CASE k = "raw"
    <2>1. /\ ~(Len(s) < 1 + RawWidth)
          /\ f = [cmp_length |-> s[1], raw_bytes |-> SubSeq(s, 2, 1 + RawWidth)]
      BY <1>1 DEF Parse, ParseRaw
    <2>2. PICK c : c = SubSeq(s, 2, 1 + RawWidth)
      OBVIOUS
    <2>3. IsCut(c, s, 1, RawWidth)
      BY <2>1, <2>2, Widths DEF IsCut
    <2>4. c \in [1 .. RawWidth -> Byte]
      BY <2>3, Cut
    <2>5. s[1] \in Byte
      <3>1. 1 \in 1 .. Len(s)
        BY <2>1, Widths
      <3>2. QED
        BY <3>1
    <2>6. f \in RawFilter
      BY <2>1, <2>2, <2>4, <2>5 DEF RawFilter
    <2>7. 1 + RawWidth <= Len(s)
      BY <2>1, Widths
    <2>8. QED
      BY <1>1, <2>6, <2>7 DEF Elements, ByteSize, Fitting
  <1>2. CASE k = "title"
    <2>1. PICK w : w = TidWidth
      OBVIOUS
    <2>2. f \in ParseTitle(s)
      BY <1>2 DEF Parse
    <2>3. Len(s) >= w + 1 /\ w \in Nat /\ Len(s) \in Nat
      BY <2>1, <2>2, Widths DEF ParseTitle
    <2>4. PICK n, m : n = s[w + 1] % Nibble /\ m = s[w + 1] \div Nibble
      OBVIOUS
    <2>5. PICK c, ms : /\ c = SubSeq(s, 1, w)
                       /\ ms = [i \in 1 .. n |->
                                  SubSeq(s, w + 1 + 3 * i - 2, w + 1 + 3 * i)]
      OBVIOUS
    <2>6. /\ n \in 0 .. Nibble - 1 /\ m \in 0 .. Nibble - 1
          /\ ~(m > SEND_RECV \/ Len(s) < w + 1 + 3 * n)
          /\ f = [title_id |-> Values(c)[w], send_mode |-> m, mve_list |-> ms]
      <3>1. TitleCut(s, w, n, m)
        BY <2>1, <2>3, <2>4 DEF TitleCut
      <3>2. /\ n \in 0 .. Nibble - 1 /\ m \in 0 .. Nibble - 1
            /\ ~(m > SEND_RECV \/ Len(s) < w + 1 + 3 * n)
            /\ f = TitleOf(s, w, n, m)
        BY <2>2, <3>1, ParseTitleSteps
      <3>3. QED
        BY <2>5, <3>2 DEF TitleOf
    <2>7. n \in Nat /\ n < Nibble /\ w + 1 + 3 * n <= Len(s) /\ m \in 0 .. SEND_RECV
      BY <2>3, <2>6, Bytes DEF SEND_RECV
    <2>8. Values(c)[w] \in Words(w)
      <3>1. IsCut(c, s, 0, w)
        BY <2>3, <2>5 DEF IsCut
      <3>2. c \in Seq(Byte) /\ Len(c) = w
        BY <3>1, Cut
      <3>3. QED
        BY <3>2, BytesOfNumber
    <2>9. ms \in [1 .. n -> MVE]
      <3>1. ASSUME NEW i \in 1 .. n
            PROVE  ms[i] \in MVE
        <4>1. PICK a : a = w + 1 + 3 * (i - 1)
          OBVIOUS
        <4>2. /\ a \in Nat /\ a + 3 <= Len(s)
              /\ w + 1 + 3 * i - 2 = a + 1 /\ w + 1 + 3 * i = a + 3
          BY <2>3, <2>7, <4>1
        <4>3. ms[i] = SubSeq(s, a + 1, a + 3)
          BY <2>5, <4>2
        <4>4. IsCut(ms[i], s, a, 3)
          BY <4>2, <4>3 DEF IsCut
        <4>5. ms[i] \in [1 .. 3 -> Byte]
          BY <4>4, Cut
        <4>6. QED
          BY <4>5 DEF MVE
      <3>2. QED
        BY <2>5, <3>1
    <2>10. ms \in Seq(MVE) /\ Len(ms) = n
      BY <2>7, <2>9, TupleSeq
    <2>11. f \in TitleFilter
      BY <2>1, <2>6, <2>7, <2>8, <2>10 DEF TitleFilter
    <2>12. ByteSize(k, f) = w + 1 + 3 * n
      BY <1>2, <2>1, <2>6, <2>10 DEF ByteSize
    <2>13. QED
      BY <1>2, <2>6, <2>7, <2>10, <2>11, <2>12 DEF Elements, Fitting
  <1>3. CASE k = "key"
    <2>1. ~(Len(s) < KeyWidth) /\ f = SubSeq(s, 1, KeyWidth)
      BY <1>3 DEF Parse, ParseKey
    <2>2. IsCut(f, s, 0, KeyWidth)
      BY <2>1, Widths DEF IsCut
    <2>3. f \in [1 .. KeyWidth -> Byte]
      BY <2>2, Cut
    <2>4. KeyWidth <= Len(s)
      BY <2>1, Widths
    <2>5. QED
      BY <1>3, <2>3, <2>4 DEF Elements, Key, ByteSize, Fitting
  <1>4. QED
    BY <1>1, <1>2, <1>3 DEF Kinds

\* The bytes of a filter, whatever follows them, are parsed as that filter.
Begins(host, k, f, s) ==
  /\ ByteSize(k, f) <= Len(s)
  /\ \A x \in 1 .. ByteSize(k, f) : s[x] = ElementBytes(host, k, f)[x]

LEMMA RawParsed ==
  ASSUME NEW host \in Orders, NEW f \in RawFilter, NEW s \in Seq(Byte),
         Begins(host, "raw", f, s)
  PROVE  ParseRaw(s) = {f}
  <1>1. PICK e, w : e = <<f.cmp_length>> \o f.raw_bytes /\ w = RawWidth
    OBVIOUS
  <1>2. e[1] = f.cmp_length /\ \A x \in 1 .. w : e[1 + x] = f.raw_bytes[x]
    BY <1>1, RawElement
  <1>3. /\ w \in Nat /\ 1 + w <= Len(s) /\ Len(s) \in Nat
        /\ \A x \in 1 .. 1 + w : s[x] = e[x]
    <2>1. ByteSize("raw", f) = 1 + w /\ ElementBytes(host, "raw", f) = e
      BY <1>1 DEF ByteSize, ElementBytes
    <2>2. 1 + w <= Len(s) /\ \A x \in 1 .. 1 + w : s[x] = e[x]
      BY <2>1 DEF Begins
    <2>3. w \in Nat
      BY <1>1, Widths
    <2>4. QED
      BY <2>2, <2>3
  <1>4. s[1] = f.cmp_length
    BY <1>2, <1>3
  <1>5. PICK c : c = SubSeq(s, 2, 1 + w)
    OBVIOUS
  <1>6. IsCut(c, s, 1, w)
    BY <1>3, <1>5 DEF IsCut
  <1>7. c \in [1 .. w -> Byte] /\ \A x \in 1 .. w : c[x] = s[1 + x]
    BY <1>6, Cut
  <1>8. f.raw_bytes \in [1 .. w -> Byte]
    BY <1>1 DEF RawFilter
  <1>9. c = f.raw_bytes
    <2>1. \A x \in 1 .. w : c[x] = f.raw_bytes[x]
      <3>1. TAKE x \in 1 .. w
      <3>2. 1 + x \in 1 .. 1 + w
        BY <1>3
      <3>3. QED
        BY <1>2, <1>3, <1>7, <3>2
    <2>2. PICK r : r = f.raw_bytes
      OBVIOUS
    <2>3. c = [x \in 1 .. w |-> c[x]] /\ r = [x \in 1 .. w |-> r[x]]
      BY <1>7, <1>8, <2>2
    <2>4. [x \in 1 .. w |-> c[x]] = [x \in 1 .. w |-> r[x]]
      BY <2>1, <2>2
    <2>5. QED
      BY <2>2, <2>3, <2>4
  <1>10. ~(Len(s) < 1 + RawWidth)
    BY <1>1, <1>3
  <1>11. f = [cmp_length |-> f.cmp_length, raw_bytes |-> f.raw_bytes]
    BY DEF RawFilter
  <1>12. QED
    BY <1>1, <1>4, <1>5, <1>9, <1>10, <1>11 DEF ParseRaw

LEMMA TitleParsed ==
  ASSUME NEW host \in Orders, NEW f \in TitleFilter, NEW s \in Seq(Byte),
         Fitting("title", f), Begins(host, "title", f, s)
  PROVE  ParseTitle(s) = {f}
  <1>1. PICK e, w, n, ms : /\ e = TitleBytes(host, f) /\ w = TidWidth
                           /\ n = Len(f.mve_list) /\ ms = f.mve_list
    OBVIOUS
  <1>2. /\ \A x \in 1 .. w : e[x] = BigMemory(f.title_id, w)[x]
        /\ e[w + 1] = TitleHead(f)
        /\ \A i \in 1 .. n : \A x \in 1 .. 3 :
             e[w + 1 + (3 * (i - 1) + x)] = ms[i][x]
    BY <1>1, TitleElement
  <1>3. /\ f.title_id \in Words(w) /\ ms \in Seq(MVE) /\ n \in Nat
        /\ f.send_mode \in 0 .. Nibble - 1 /\ w \in Nat /\ Len(s) \in Nat
    BY <1>1, TitleTypes, Widths
  <1>4. w + 1 + 3 * n <= Len(s) /\ \A x \in 1 .. w + 1 + 3 * n : s[x] = e[x]
    BY <1>1 DEF Begins, ByteSize, ElementBytes
  <1>5. n \in 0 .. Nibble - 1 /\ n % Nibble = n
    <2>1. PICK d : d = Nibble
      OBVIOUS
    <2>2. d \in Nat /\ n < d
      BY <1>1, <2>1, Bytes DEF Fitting
    <2>3. n \in 0 .. d - 1 /\ n % d = n
      BY <1>3, <2>2
    <2>4. QED
      BY <2>1, <2>3
  <1>6. s[w + 1] = n + Nibble * f.send_mode
    <2>1. w + 1 \in 1 .. w + 1 + 3 * n
      BY <1>3
    <2>2. QED
      BY <1>1, <1>2, <1>4, <1>5, <2>1 DEF TitleHead
  <1>7. s[w + 1] % Nibble = n /\ s[w + 1] \div Nibble = f.send_mode
    <2>1. 0 \in Byte
      BY Bytes
    <2>2. QED
      BY <1>3, <1>5, <1>6, <2>1, FieldValues
  <1>8. TitleCut(s, w, n, f.send_mode)
    <2>1. Len(s) >= w + 1
      BY <1>3, <1>4
    <2>2. QED
      BY <1>1, <1>7, <2>1 DEF TitleCut
  <1>9. ~(f.send_mode > SEND_RECV \/ Len(s) < w + 1 + 3 * n)
    <2>1. f.send_mode \in 0 .. 3
      BY Widths DEF TitleFilter
    <2>2. QED
      BY <1>3, <1>4, <2>1, Widths
  <1>10. ParseTitle(s) = {TitleOf(s, w, n, f.send_mode)}
    BY <1>8, <1>9, ParseTitleSteps
  <1>11. Values(SubSeq(s, 1, w))[w] = f.title_id
    <2>1. PICK b, t : b = SubSeq(s, 1, w) /\ t = BigMemory(f.title_id, w)
      OBVIOUS
    <2>2. IsCut(b, s, 0, w)
      BY <1>3, <1>4, <2>1 DEF IsCut
    <2>3. b \in [1 .. w -> Byte] /\ \A x \in 1 .. w : b[x] = s[0 + x]
      BY <2>2, Cut
    <2>4. t \in Seq(Byte) /\ Len(t) = w /\ Values(t)[w] = f.title_id
      BY <1>3, <2>1, NumberOfBytes
    <2>5. t \in [1 .. w -> Byte]
      BY <2>4, LenProperties
    <2>6. \A x \in 1 .. w : b[x] = t[x]
      <3>1. TAKE x \in 1 .. w
      <3>2. x \in 1 .. w + 1 + 3 * n /\ 0 + x = x
        BY <1>3
      <3>3. QED
        BY <1>2, <1>4, <2>1, <2>3, <3>2
    <2>7. b = t
      <3>1. b = [x \in 1 .. w |-> b[x]] /\ t = [x \in 1 .. w |-> t[x]]
        BY <2>3, <2>5
      <3>2. [x \in 1 .. w |-> b[x]] = [x \in 1 .. w |-> t[x]]
        BY <2>6
      <3>3. QED
        BY <3>1, <3>2
    <2>8. QED
      BY <2>1, <2>4, <2>7
  <1>12. PICK ns : ns = [i \in 1 .. n |-> SubSeq(s, w + 1 + 3 * i - 2, w + 1 + 3 * i)]
    OBVIOUS
  <1>13. ASSUME NEW i \in 1 .. n
         PROVE  ns[i] = ms[i]
    <2>1. PICK a : a = w + 1 + 3 * (i - 1)
      OBVIOUS
    <2>2. /\ a \in Nat /\ a + 3 <= w + 1 + 3 * n /\ a + 3 <= Len(s)
          /\ w + 1 + 3 * i - 2 = a + 1 /\ w + 1 + 3 * i = a + 3
      BY <1>3, <1>4, <2>1
    <2>3. IsCut(ns[i], s, a, 3)
      BY <1>12, <2>2 DEF IsCut
    <2>4. ns[i] \in [1 .. 3 -> Byte] /\ \A x \in 1 .. 3 : ns[i][x] = s[a + x]
      <3>1. PICK c : c = ns[i]
        OBVIOUS
      <3>2. PICK q : q = 3
        OBVIOUS
      <3>3. IsCut(c, s, a, q)
        BY <2>3, <3>1, <3>2
      <3>4. c \in [1 .. q -> Byte] /\ \A x \in 1 .. q : c[x] = s[a + x]
        BY <3>3, Cut
      <3>5. QED
        BY <3>1, <3>2, <3>4
    <2>5. ms[i] \in [1 .. 3 -> Byte]
      <3>1. ms[i] \in MVE
        BY <1>1, <1>3
      <3>2. QED
        BY <3>1 DEF MVE
    <2>6. ASSUME NEW x \in 1 .. 3
          PROVE  ns[i][x] = ms[i][x]
      <3>1. PICK y : y = a + x
        OBVIOUS
      <3>2. y \in 1 .. w + 1 + 3 * n /\ y = w + 1 + (3 * (i - 1) + x)
        BY <1>3, <2>1, <2>2, <3>1
      <3>3. s[y] = e[y]
        BY <1>4, <3>2
      <3>4. e[y] = ms[i][x]
        BY <1>2, <3>2
      <3>5. QED
        BY <2>4, <3>1, <3>3, <3>4
    <2>7. QED
      BY <2>4, <2>5, <2>6
  <1>14. ns = ms
    <2>1. ms \in [1 .. n -> MVE]
      BY <1>1, <1>3, LenProperties
    <2>2. QED
      BY <1>12, <1>13, <2>1
  <1>15. f = [title_id |-> f.title_id, send_mode |-> f.send_mode, mve_list |-> ms]
    BY <1>1 DEF TitleFilter
  <1>16. QED
    BY <1>10, <1>11, <1>12, <1>14, <1>15 DEF TitleOf

LEMMA ElementParsed ==
  ASSUME NEW host \in Orders, NEW k \in Kinds, NEW f \in Elements(k),
         NEW s \in Seq(Byte), Fitting(k, f), Begins(host, k, f, s)
  PROVE  Parse(k, s) = {f}
  <1>1. CASE k = "raw"
    BY <1>1, RawParsed DEF Elements, Parse
  <1>2. CASE k = "title"
    BY <1>2, TitleParsed DEF Elements, Parse
  <1>3. CASE k = "key"
    <2>1. /\ f \in [1 .. KeyWidth -> Byte] /\ KeyWidth <= Len(s)
          /\ KeyWidth \in Nat /\ Len(s) \in Nat
          /\ \A x \in 1 .. KeyWidth : s[x] = f[x]
      BY <1>3, Widths DEF Elements, Key, Begins, ByteSize, ElementBytes
    <2>2. PICK c : c = SubSeq(s, 1, KeyWidth)
      OBVIOUS
    <2>3. IsCut(c, s, 0, KeyWidth)
      BY <2>1, <2>2 DEF IsCut
    <2>4. c \in [1 .. KeyWidth -> Byte] /\ \A x \in 1 .. KeyWidth : c[x] = s[0 + x]
      BY <2>3, Cut
    <2>5. c = f
      BY <2>1, <2>4
    <2>6. ~(Len(s) < KeyWidth)
      BY <2>1
    <2>7. ParseKey(s) = {f}
      BY <2>2, <2>5, <2>6 DEF ParseKey
    <2>8. QED
      BY <1>3, <2>7 DEF Parse
  <1>4. QED
    BY <1>1, <1>2, <1>3 DEF Kinds

-----------------------------------------------------------------------------
(* Filters as the caller and the parser make them.                           *)

AllFit(k, fs) == \A i \in 1 .. Len(fs) : Fitting(k, fs[i])
Typed(m) ==
  /\ m = [k \in Kinds |-> m[k]] /\ Lists(m)
  /\ \A k \in Kinds : AllFit(k, m[k].filters)

LEMMA TypedOK ==
  ASSUME NEW m, Typed(m)
  PROVE  FilterOK(m)
  <1>1. \A k \in Kinds : m[k] \in ListOf(k)
    BY DEF Typed, Lists
  <1>2. AllFit("title", m["title"].filters)
    BY DEF Typed, Kinds
  <1>3. QED
    BY <1>1, <1>2 DEF FilterOK, AllFit, Fitting

Replaces(g, m, k, l) == g = [m EXCEPT ![k] = l]

LEMMA Replaced ==
  ASSUME NEW m, Typed(m), NEW k \in Kinds, NEW l \in ListOf(k),
         AllFit(k, l.filters), NEW g, Replaces(g, m, k, l)
  PROVE  /\ Typed(g) /\ g[k] = l
         /\ \A j \in Kinds : j # k => g[j] = m[j]
  <1>1. m = [j \in Kinds |-> m[j]] /\ Lists(m) /\ \A j \in Kinds : AllFit(j, m[j].filters)
    BY DEF Typed
  <1>2. g = [j \in Kinds |-> IF j = k THEN l ELSE m[j]]
    BY <1>1 DEF Replaces
  <1>3. g[k] = l /\ \A j \in Kinds : j # k => g[j] = m[j]
    BY <1>2
  <1>4. g = [j \in Kinds |-> g[j]]
    BY <1>2
  <1>5. Lists(g)
    BY <1>1, <1>3 DEF Lists
  <1>6. \A j \in Kinds : AllFit(j, g[j].filters)
    BY <1>1, <1>3
  <1>7. QED
    BY <1>3, <1>4, <1>5, <1>6 DEF Typed

LEMMA NewList ==
  ASSUME NEW k \in Kinds, NEW flags \in 0 .. Nibble - 1, NEW length \in Byte,
         NEW l, l = List(flags, length, <<>>)
  PROVE  /\ l \in ListOf(k) /\ AllFit(k, l.filters) /\ l.length = length
         /\ l.flags = flags /\ l.filters = <<>> /\ <<>> \in Seq(Elements(k))
         /\ ElementsSize(k, <<>>) = 0
  <1>1. <<>> \in Seq(Elements(k)) /\ Len(<<>>) = 0
    BY EmptySeq
  <1>2. l = [flags |-> flags, length |-> length, filters |-> <<>>]
    BY DEF List
  <1>3. l \in ListOf(k)
    <2>1. PICK e : e = <<>>
      OBVIOUS
    <2>2. e \in Seq(Elements(k)) /\ l = [flags |-> flags, length |-> length, filters |-> e]
      BY <1>1, <1>2, <2>1
    <2>3. QED
      BY <2>2 DEF ListOf
  <1>4. ElementsSize(k, <<>>) = 0
    BY <1>1, ElementsSizeProperties
  <1>5. AllFit(k, l.filters)
    BY <1>1, <1>2 DEF AllFit
  <1>6. QED
    BY <1>1, <1>2, <1>3, <1>4, <1>5

LEMMA EmptyTyped ==
  /\ Typed(EmptyFilter)
  /\ \A k \in Kinds : /\ EmptyFilter[k] = EmptyList /\ EmptyList.length = 0
                      /\ EmptyList.filters = <<>> /\ ElementsSize(k, <<>>) = 0
  <1>1. 0 \in 0 .. Nibble - 1 /\ 0 \in Byte
    BY Bytes
  <1>2. \A k \in Kinds : EmptyFilter[k] = EmptyList
    BY DEF EmptyFilter
  <1>3. ASSUME NEW k \in Kinds
        PROVE  /\ EmptyList \in ListOf(k) /\ AllFit(k, EmptyList.filters)
               /\ EmptyList.length = 0 /\ EmptyList.filters = <<>>
               /\ ElementsSize(k, <<>>) = 0
    BY <1>1, NewList DEF EmptyList
  <1>4. Lists(EmptyFilter) /\ \A k \in Kinds : AllFit(k, EmptyFilter[k].filters)
    BY <1>2, <1>3 DEF Lists
  <1>5. EmptyFilter = [k \in Kinds |-> EmptyFilter[k]]
    BY DEF EmptyFilter
  <1>6. QED
    BY <1>2, <1>3, <1>4, <1>5 DEF Typed

Measured(m) == \A k \in Kinds : m[k].length = ElementsSize(k, m[k].filters)

\* What Put makes of a filter.
Puts(g, m, k, fs) ==
  g = [m EXCEPT ![k].filters = fs,
                ![k].length = ElementsSize(k, fs) % (MaxByte + 1)]

LEMMA Putting ==
  ASSUME NEW m, Typed(m), Measured(m), NEW k \in Kinds,
         NEW fs \in Seq(Elements(k)), AllFit(k, fs), ListFits(k, fs), NEW g,
         Puts(g, m, k, fs)
  PROVE  /\ Typed(g) /\ Measured(g) /\ g[k].filters = fs
         /\ \A j \in Kinds : j # k => g[j] = m[j]
  <1>1. PICK n : n = ElementsSize(k, fs)
    OBVIOUS
  <1>2. n \in Byte /\ n % (MaxByte + 1) = n
    <2>1. n \in Nat /\ n <= MaxByte
      BY <1>1, ElementsSizeProperties DEF ListFits
    <2>2. MaxByte \in Nat
      BY Bytes DEF MaxByte
    <2>3. PICK b : b = MaxByte
      OBVIOUS
    <2>4. n % (b + 1) = n /\ n \in 0 .. b
      BY <2>1, <2>2, <2>3
    <2>5. QED
      BY <2>3, <2>4 DEF Byte
  <1>3. m[k] \in ListOf(k) /\ m = [j \in Kinds |-> m[j]]
    BY DEF Typed, Lists
  <1>4. PICK l : l = [m[k] EXCEPT !.filters = fs, !.length = n]
    OBVIOUS
  <1>5. /\ l = [flags |-> m[k].flags, length |-> n, filters |-> fs]
        /\ m[k].flags \in 0 .. Nibble - 1
    BY <1>3, <1>4 DEF ListOf
  <1>6. l.length = n /\ l.filters = fs
    BY <1>5
  <1>a. l \in ListOf(k)
    BY <1>2, <1>5 DEF ListOf
  <1>b. AllFit(k, l.filters)
    BY <1>6
  <1>7. Replaces(g, m, k, l)
    BY <1>1, <1>2, <1>3, <1>4 DEF Replaces, Puts
  <1>8. Typed(g) /\ g[k] = l /\ \A j \in Kinds : j # k => g[j] = m[j]
    BY <1>7, <1>a, <1>b, Replaced
  <1>9. Measured(g)
    BY <1>1, <1>6, <1>8 DEF Measured
  <1>10. QED
    BY <1>6, <1>8, <1>9

\* One key is a list.
LEMMA OneKey ==
  ASSUME NEW key \in Key
  PROVE  /\ <<key>> \in Seq(Elements("key")) /\ Len(<<key>>) = 1
         /\ AllFit("key", <<key>>) /\ ElementsSize("key", <<key>>) = KeyWidth
         /\ ListFits("key", <<key>>) /\ KeyWidth \in Byte
  <1>1. "key" \in Kinds /\ Elements("key") = Key
    BY DEF Kinds, Elements
  <1>2. <<>> \in Seq(Elements("key")) /\ <<key>> = Append(<<>>, key)
    OBVIOUS
  <1>3. ElementsSize("key", <<>>) = 0
    BY <1>1, <1>2, ElementsSizeProperties
  <1>4. ElementsSize("key", <<key>>) = KeyWidth
    <2>1. ElementsSize("key", Append(<<>>, key)) = 0 + ByteSize("key", key)
      BY <1>1, <1>2, <1>3, ElementsSizeProperties
    <2>2. QED
      BY <1>2, <2>1, Widths DEF ByteSize
  <1>5. KeyWidth <= MaxByte /\ KeyWidth \in Byte
    BY Widths, Bytes DEF MaxByte
  <1>6. QED
    BY <1>1, <1>4, <1>5 DEF AllFit, Fitting, ListFits

-----------------------------------------------------------------------------
(* The caller's filter measures what it says, and so does what the parser    *)
(* has made of the bytes it has taken.                                       *)

Scalars ==
  /\ pc \in {"build", "sent", "header", "elements", "parsed", "rejected"}
  /\ damage \in {"none", "truncated", "extended", "changed"}
  /\ kind \in Kinds /\ found \subseteq Kinds /\ rounds \in 0 .. MaxRounds
Streams == wire \in Seq(Byte) /\ rest \in Seq(Byte) /\ inner \in Seq(Byte)

CallerInv ==
  Typed(filter) /\ Measured(filter) /\ Len(filter["key"].filters) = 1

\* What is missing from the list that is being read, what of the wire has been
\* taken for a list, and how much of it altogether.
Pending(k) == IF pc = "elements" /\ k = kind THEN Len(inner) ELSE 0
Taken(k) ==
  IF k \in found THEN 2 + ElementsSize(k, decoded[k].filters) ELSE 0
Position == Len(wire) - Len(rest)

HeardMeasured ==
  \A k \in Kinds :
    decoded[k].length = ElementsSize(k, decoded[k].filters) + Pending(k)
Accounted == Position = Taken("raw") + Taken("title") + Taken("key")
TailOfWire == \A x \in 1 .. Len(rest) : rest[x] = wire[Position + x]
InStep ==
  /\ kind \in found /\ Len(inner) <= Len(rest)
  /\ \A x \in 1 .. Len(inner) : inner[x] = rest[x]

Parsing == pc \in {"header", "elements", "parsed"}
ParserInv ==
  /\ Typed(decoded)
  /\ \A k \in Kinds : k \notin found => decoded[k] = EmptyList
  /\ Parsing => HeardMeasured /\ Accounted /\ TailOfWire
  /\ pc = "elements" => InStep
  /\ pc = "parsed" => Len(rest) < 2 /\ Len(decoded["key"].filters) = 1

FilterInv == Scalars /\ Streams /\ CallerInv /\ ParserInv

LEMMA InvTypeOK == FilterInv => TypeOK
  BY TypedOK DEF FilterInv, Scalars, Streams, CallerInv, ParserInv, TypeOK

LEMMA FilterInit == Init => FilterInv
  <1> SUFFICES ASSUME Init
               PROVE  FilterInv
    OBVIOUS
  <1>1. Scalars
    BY Widths, ModuleFilterAssumption DEF Init, Scalars, Kinds
  <1>2. Streams
    BY EmptySeq DEF Init, Streams
  <1>3. CallerInv
    <2>1. PICK key \in Keys :
            filter = [EmptyFilter EXCEPT !["key"] = List(0, KeyWidth, <<key>>)]
      BY DEF Init
    <2>2. key \in Key
      BY ModuleFilterAssumption
    <2>3. PICK l : l = List(0, KeyWidth, <<key>>)
      OBVIOUS
    <2>4. /\ l = [flags |-> 0, length |-> KeyWidth, filters |-> <<key>>]
          /\ l.length = KeyWidth /\ l.filters = <<key>>
      BY <2>3 DEF List
    <2>5. l \in ListOf("key")
      <3>1. PICK fs : fs = <<key>>
        OBVIOUS
      <3>2. fs \in Seq(Elements("key")) /\ KeyWidth \in Byte /\ 0 \in 0 .. Nibble - 1
        BY <2>2, <3>1, OneKey, Bytes
      <3>3. l = [flags |-> 0, length |-> KeyWidth, filters |-> fs]
        BY <2>4, <3>1
      <3>4. QED
        BY <3>2, <3>3 DEF ListOf
    <2>6. AllFit("key", l.filters)
      BY <2>2, <2>4, OneKey
    <2>7. Replaces(filter, EmptyFilter, "key", l) /\ "key" \in Kinds
      BY <2>1, <2>3 DEF Replaces, Kinds
    <2>8. /\ Typed(filter) /\ filter["key"] = l
          /\ \A j \in Kinds : j # "key" => filter[j] = EmptyFilter[j]
      BY <2>5, <2>6, <2>7, EmptyTyped, Replaced
    <2>9. Measured(filter)
      <3>1. ElementsSize("key", l.filters) = l.length
        BY <2>2, <2>4, OneKey
      <3>2. \A j \in Kinds : j # "key" =>
              filter[j].length = ElementsSize(j, filter[j].filters)
        BY <2>8, EmptyTyped
      <3>3. QED
        BY <2>8, <3>1, <3>2 DEF Measured
    <2>10. Len(filter["key"].filters) = 1
      BY <2>2, <2>4, <2>8, OneKey
    <2>11. QED
      BY <2>8, <2>9, <2>10 DEF CallerInv
  <1>4. ParserInv
    <2>1. decoded = EmptyFilter /\ pc = "build"
      BY DEF Init
    <2>2. QED
      BY <2>1, EmptyTyped DEF ParserInv, Parsing
  <1>5. QED
    BY <1>1, <1>2, <1>3, <1>4 DEF FilterInv

\* A step that leaves the parser's variables, and the bytes it reads, alone.
LEMMA ParserUntouched ==
  ASSUME ParserInv, UNCHANGED <<pc, wire, parserVars>>
  PROVE  ParserInv'
  BY DEF ParserInv, parserVars, Parsing, HeardMeasured, Accounted, TailOfWire, InStep,
         Pending, Taken, Position

LEMMA CallerSteps ==
  ASSUME FilterInv, SetRaw \/ SetTitles \/ SetKey \/ SetFlags
  PROVE  FilterInv'
  <1>1. Scalars /\ Streams /\ CallerInv /\ ParserInv
    BY DEF FilterInv
  <1>2. UNCHANGED <<pc, wire, damage, parserVars, rounds>>
    BY DEF SetRaw, SetTitles, SetKey, SetFlags
  <1>3. Scalars' /\ Streams'
    BY <1>1, <1>2 DEF Scalars, Streams, parserVars
  <1>4. ParserInv'
    BY <1>1, <1>2, ParserUntouched
  <1>5. Typed(filter) /\ Measured(filter) /\ Len(filter["key"].filters) = 1
    BY <1>1 DEF CallerInv
  <1>6. "raw" \in Kinds /\ "title" \in Kinds /\ "key" \in Kinds
    BY DEF Kinds
  <1>7. CASE SetRaw
    <2>1. PICK fs \in BoundedSeq({f \in RawFilters : Made(f)}, MaxList) :
            ListFits("raw", fs) /\ Puts(filter', filter, "raw", fs)
      BY <1>7 DEF SetRaw, Put, Puts
    <2>2. fs \in Seq(Elements("raw")) /\ AllFit("raw", fs)
      <3>1. PICK S : S = {f \in RawFilters : Made(f)}
        OBVIOUS
      <3>2. fs \in UNION {[1 .. n -> S] : n \in 0 .. MaxList}
        BY <2>1, <3>1 DEF BoundedSeq, SeqOf
      <3>3. PICK n \in 0 .. MaxList : fs \in [1 .. n -> S]
        BY <3>2
      <3>4. n \in Nat /\ S \subseteq RawFilter
        BY <3>1, ModuleFilterAssumption
      <3>5. fs \in [1 .. n -> Elements("raw")]
        BY <3>3, <3>4 DEF Elements
      <3>6. QED
        BY <3>4, <3>5, TupleSeq DEF AllFit, Fitting
    <2>3. /\ Typed(filter') /\ Measured(filter')
          /\ \A j \in Kinds : j # "raw" => filter'[j] = filter[j]
      BY <1>5, <1>6, <2>1, <2>2, Putting
    <2>4. CallerInv'
      BY <1>5, <1>6, <2>3 DEF CallerInv
    <2>5. QED
      BY <1>3, <1>4, <2>4 DEF FilterInv
  <1>8. CASE SetTitles
    <2>1. PICK fs \in BoundedSeq({t \in TitleFilters : MveListFits(t)}, MaxList) :
            ListFits("title", fs) /\ Puts(filter', filter, "title", fs)
      BY <1>8 DEF SetTitles, Put, Puts
    <2>2. fs \in Seq(Elements("title")) /\ AllFit("title", fs)
      <3>1. PICK S : S = {t \in TitleFilters : MveListFits(t)}
        OBVIOUS
      <3>2. fs \in UNION {[1 .. n -> S] : n \in 0 .. MaxList}
        BY <3>1 DEF BoundedSeq, SeqOf
      <3>3. PICK n \in 0 .. MaxList : fs \in [1 .. n -> S]
        BY <3>2
      <3>4. \A t \in S : t \in Elements("title") /\ Fitting("title", t)
        <4>1. TAKE t \in S
        <4>2. t \in TitleFilter /\ Len(t.mve_list) <= Nibble - 1
          BY <3>1, ModuleFilterAssumption DEF MveListFits
        <4>3. Len(t.mve_list) \in Nat
          BY <4>2, TitleTypes
        <4>4. Len(t.mve_list) < Nibble
          BY <4>2, <4>3, Bytes
        <4>5. QED
          BY <4>2, <4>4 DEF Elements, Fitting
      <3>5. n \in Nat
        BY ModuleFilterAssumption
      <3>6. fs \in [1 .. n -> Elements("title")]
        BY <3>3, <3>4
      <3>7. fs \in Seq(Elements("title")) /\ Len(fs) = n
        BY <3>5, <3>6, TupleSeq
      <3>8. QED
        BY <3>3, <3>4, <3>7 DEF AllFit
    <2>3. /\ Typed(filter') /\ Measured(filter')
          /\ \A j \in Kinds : j # "title" => filter'[j] = filter[j]
      BY <1>5, <1>6, <2>1, <2>2, Putting
    <2>4. CallerInv'
      BY <1>5, <1>6, <2>3 DEF CallerInv
    <2>5. QED
      BY <1>3, <1>4, <2>4 DEF FilterInv
  <1>9. CASE SetKey
    <2>1. PICK key \in Keys : Puts(filter', filter, "key", <<key>>)
      BY <1>9 DEF SetKey, Put, Puts
    <2>2. key \in Key
      BY ModuleFilterAssumption
    <2>3. PICK fs : fs = <<key>>
      OBVIOUS
    <2>a. fs \in Seq(Elements("key")) /\ AllFit("key", fs) /\ ListFits("key", fs)
      BY <2>2, <2>3, OneKey
    <2>b. Puts(filter', filter, "key", fs) /\ Len(fs) = 1
      BY <2>1, <2>2, <2>3, OneKey
    <2>c. Typed(filter') /\ Measured(filter') /\ filter'["key"].filters = fs
      BY <1>5, <1>6, <2>a, <2>b, Putting
    <2>4. CallerInv'
      BY <2>b, <2>c DEF CallerInv
    <2>5. QED
      BY <1>3, <1>4, <2>4 DEF FilterInv
  <1>10. CASE SetFlags
    <2>1. PICK k \in {"raw", "title"}, f \in Flags :
            filter' = [filter EXCEPT ![k].flags = f]
      BY <1>10 DEF SetFlags
    <2>2. PICK l : l = [filter[k] EXCEPT !.flags = f]
      OBVIOUS
    <2>3. filter[k] \in ListOf(k) /\ AllFit(k, filter[k].filters) /\ k \in Kinds
      BY <1>5, <1>6 DEF Typed, Lists
    <2>4. f \in 0 .. Nibble - 1
      BY ModuleFilterAssumption
    <2>5. /\ l \in ListOf(k) /\ l.filters = filter[k].filters
          /\ l.length = filter[k].length
      BY <2>2, <2>3, <2>4 DEF ListOf
    <2>6. AllFit(k, l.filters)
      BY <2>3, <2>5
    <2>7. Replaces(filter', filter, k, l)
      BY <2>1, <2>2 DEF Replaces
    <2>8. /\ Typed(filter') /\ filter'[k] = l
          /\ \A j \in Kinds : j # k => filter'[j] = filter[j]
      BY <1>5, <2>3, <2>5, <2>6, <2>7, Replaced
    <2>9. Measured(filter')
      BY <1>5, <2>5, <2>8 DEF Measured
    <2>10. CallerInv'
      BY <1>5, <1>6, <2>8, <2>9 DEF CallerInv
    <2>11. QED
      BY <1>3, <1>4, <2>10 DEF FilterInv
  <1>11. QED
    BY <1>7, <1>8, <1>9, <1>10

LEMMA SendSteps ==
  ASSUME FilterInv, Send \/ SendOn
  PROVE  FilterInv'
  <1>1. Scalars /\ Streams /\ CallerInv /\ ParserInv
    BY DEF FilterInv
  <1>2. pc' = "sent" /\ UNCHANGED <<damage, rest, inner, kind, found, decoded>>
    BY DEF Send, SendOn, parserVars
  <1>3. Scalars'
    <2>1. rounds' \in 0 .. MaxRounds
      <3>1. rounds \in 0 .. MaxRounds /\ MaxRounds \in Nat
        BY <1>1, ModuleFilterAssumption DEF Scalars
      <3>2. CASE Send
        BY <3>1, <3>2 DEF Send
      <3>3. CASE SendOn
        BY <3>1, <3>3 DEF SendOn
      <3>4. QED
        BY <3>2, <3>3
    <2>2. QED
      BY <1>1, <1>2, <2>1 DEF Scalars
  <1>4. ParserInv'
    BY <1>1, <1>2 DEF ParserInv, Parsing
  <1>5. CallerInv'
    <2>1. CASE Send
      BY <1>1, <2>1 DEF Send, CallerInv
    <2>2. CASE SendOn
      <3>1. filter' = decoded /\ pc = "parsed"
        BY <2>2 DEF SendOn
      <3>2. Typed(decoded) /\ HeardMeasured /\ Len(decoded["key"].filters) = 1
        BY <1>1, <3>1 DEF ParserInv, Parsing
      <3>3. \A k \in Kinds : ElementsSize(k, decoded[k].filters) \in Nat
        BY <3>2, ElementsSizeProperties DEF Typed, Lists, ListOf
      <3>4. Measured(decoded)
        BY <3>1, <3>2, <3>3 DEF Measured, HeardMeasured, Pending
      <3>5. QED
        BY <3>1, <3>2, <3>4 DEF CallerInv
    <2>3. QED
      BY <2>1, <2>2
  <1>6. Streams'
    <2>1. wire' \in Seq(Byte)
      <3>1. CASE Send
        BY <1>1, <3>1, EncodingBytes, Widths DEF Send, CallerInv, Typed
      <3>2. CASE SendOn
        BY <1>1, <3>2, EncodingBytes, Widths DEF SendOn, ParserInv, Typed
      <3>3. QED
        BY <3>1, <3>2
    <2>2. QED
      BY <1>1, <1>2, <2>1 DEF Streams
  <1>7. QED
    BY <1>3, <1>4, <1>5, <1>6 DEF FilterInv

LEMMA ArriveStep ==
  ASSUME FilterInv, Arrive
  PROVE  FilterInv'
  <1>1. Scalars /\ Streams /\ CallerInv /\ ParserInv
    BY DEF FilterInv
  <1>2. /\ pc' = "header" /\ rest' = wire' /\ inner' = <<>> /\ found' = {}
        /\ decoded' = EmptyFilter /\ UNCHANGED <<filter, kind, rounds>>
    BY DEF Arrive
  <1>3. damage' \in {"none", "truncated", "extended", "changed"}
    BY DEF Arrive
  <1>4. Scalars'
    BY <1>1, <1>2, <1>3 DEF Scalars
  <1>5. wire' \in Seq(Byte)
    <2>0. wire \in Seq(Byte)
      BY <1>1 DEF Streams
    <2>1. CASE wire' = wire
      BY <2>0, <2>1
    <2>2. ASSUME NEW n \in 0 .. Len(wire) - 1, wire' = SubSeq(wire, 1, n)
          PROVE  wire' \in Seq(Byte)
      <3>1. IsCut(wire', wire, 0, n)
        BY <2>0, <2>2 DEF IsCut
      <3>2. QED
        BY <2>0, <3>1, Cut
    <2>3. ASSUME NEW k \in Kinds, wire' = wire \o ListBytes(Sender, k, filter[k])
          PROVE  wire' \in Seq(Byte)
      <3>1. ListBytes(Sender, k, filter[k]) \in Seq(Byte)
        BY <1>1, ListSize, Widths DEF CallerInv, Typed, Lists
      <3>2. QED
        BY <2>0, <2>3, <3>1, ConcatProperties
    <2>4. ASSUME NEW b \in Noise, wire' = Append(wire, b)
          PROVE  wire' \in Seq(Byte)
      BY <2>0, <2>4, ModuleFilterAssumption
    <2>5. ASSUME NEW i \in 1 .. Len(wire), NEW b \in Noise,
                 wire' = ReplaceAt(wire, i, b)
          PROVE  wire' \in Seq(Byte)
      <3>1. b \in Byte
        BY ModuleFilterAssumption
      <3>2. QED
        BY <2>0, <2>5, <3>1 DEF ReplaceAt
    <2>6. QED
      BY <2>1, <2>2, <2>3, <2>4, <2>5 DEF Arrive
  <1>6. Streams'
    BY <1>2, <1>5, EmptySeq DEF Streams
  <1>7. CallerInv'
    BY <1>1, <1>2 DEF CallerInv
  <1>8. ParserInv'
    <2>1. Typed(decoded')
      BY <1>2, EmptyTyped
    <2>2. \A k \in Kinds : decoded'[k] = EmptyList
      BY <1>2, EmptyTyped
    <2>3. HeardMeasured'
      BY <1>2, <2>2, EmptyTyped DEF HeardMeasured, Pending
    <2>4. Len(wire') - Len(rest') = 0
      BY <1>2, <1>5
    <2>5. Accounted' /\ TailOfWire'
      BY <1>2, <2>4 DEF Accounted, TailOfWire, Position, Taken
    <2>6. QED
      BY <1>2, <2>1, <2>2, <2>3, <2>5 DEF ParserInv
  <1>9. QED
    BY <1>4, <1>6, <1>7, <1>8 DEF FilterInv

LEMMA RejectSteps ==
  ASSUME FilterInv, RejectHeader \/ RejectElement
  PROVE  FilterInv'
  <1>1. pc' = "rejected" /\ UNCHANGED <<filter, wire, damage, parserVars, rounds>>
    BY DEF RejectHeader, RejectElement
  <1>2. Scalars' /\ Streams' /\ CallerInv'
    BY <1>1 DEF FilterInv, Scalars, Streams, CallerInv, parserVars
  <1>3. ParserInv'
    BY <1>1 DEF FilterInv, ParserInv, Parsing, parserVars
  <1>4. QED
    BY <1>2, <1>3 DEF FilterInv

LEMMA EndListStep ==
  ASSUME FilterInv, EndList
  PROVE  FilterInv'
  <1>1. /\ pc = "elements" /\ pc' = "header" /\ inner = <<>>
        /\ UNCHANGED <<filter, wire, damage, rest, inner, kind, found, decoded, rounds>>
    BY DEF EndList, parserVars
  <1>2. Scalars' /\ Streams' /\ CallerInv'
    BY <1>1 DEF FilterInv, Scalars, Streams, CallerInv
  <1>3. ParserInv'
    <2>1. ParserInv /\ HeardMeasured /\ Accounted /\ TailOfWire
      BY <1>1 DEF FilterInv, ParserInv, Parsing
    <2>2. \A k \in Kinds : Pending(k) = 0 /\ Pending(k)' = 0
      BY <1>1, EmptySeq DEF Pending
    <2>3. HeardMeasured'
      BY <1>1, <2>1, <2>2 DEF HeardMeasured
    <2>4. Accounted' /\ TailOfWire'
      BY <1>1, <2>1 DEF Accounted, TailOfWire, Position, Taken
    <2>5. QED
      BY <1>1, <2>1, <2>3, <2>4 DEF ParserInv
  <1>4. QED
    BY <1>2, <1>3 DEF FilterInv

LEMMA FinishStep ==
  ASSUME FilterInv, Finish
  PROVE  FilterInv'
  <1>1. /\ pc = "header" /\ pc' \in {"parsed", "rejected"} /\ Len(rest) < 2
        /\ pc' = "parsed" => Len(decoded["key"].filters) = 1
        /\ UNCHANGED <<filter, wire, damage, rest, inner, kind, found, decoded, rounds>>
    BY DEF Finish, parserVars
  <1>2. Scalars' /\ Streams' /\ CallerInv'
    BY <1>1 DEF FilterInv, Scalars, Streams, CallerInv
  <1>3. ParserInv'
    <2>1. ParserInv /\ HeardMeasured /\ Accounted /\ TailOfWire
      BY <1>1 DEF FilterInv, ParserInv, Parsing
    <2>2. HeardMeasured'
      BY <1>1, <2>1 DEF HeardMeasured, Pending
    <2>3. Accounted' /\ TailOfWire'
      BY <1>1, <2>1 DEF Accounted, TailOfWire, Position, Taken
    <2>4. QED
      BY <1>1, <2>1, <2>2, <2>3 DEF ParserInv
  <1>4. QED
    BY <1>2, <1>3 DEF FilterInv

\* What a header says, and what is behind it.
LEMMA HeaderRead ==
  ASSUME FilterInv, ReadHeader
  PROVE  /\ kind' \in Kinds /\ Accepts(kind') /\ found' = found \cup {kind'}
         /\ Len(rest) >= 2 /\ rest[1] \in Byte /\ rest[2] \in Byte
         /\ rest[2] <= Len(rest) - 2
         /\ rest' \in Seq(Byte) /\ Len(rest') = Len(rest) - 2
         /\ \A x \in 1 .. Len(rest) - 2 : rest'[x] = rest[2 + x]
         /\ inner' \in Seq(Byte) /\ Len(inner') = rest[2]
         /\ \A x \in 1 .. rest[2] : inner'[x] = rest[2 + x]
         /\ Typed(decoded') /\ \A j \in Kinds : j # kind' => decoded'[j] = decoded[j]
         /\ decoded'[kind'].flags = rest[1] % Nibble
         /\ decoded'[kind'].length = rest[2] /\ decoded'[kind'].filters = <<>>
  <1>1. rest \in Seq(Byte) /\ Len(rest) \in Nat /\ Len(rest) >= 2
    BY DEF FilterInv, Streams, ReadHeader
  <1>2. PICK k \in Kinds :
          /\ Accepts(k) /\ kind' = k /\ found' = found \cup {k}
          /\ decoded' = [decoded EXCEPT ![k] =
                           List(Low(Receiver, rest[1]), rest[2], <<>>)]
    BY DEF ReadHeader
  <1>3. rest[1] \in Byte /\ rest[2] \in Byte
    <2>1. 1 \in 1 .. Len(rest) /\ 2 \in 1 .. Len(rest)
      BY <1>1
    <2>2. QED
      BY <1>1, <2>1
  <1>4. rest[2] <= Len(rest) - 2
    BY <1>2 DEF Accepts
  <1>5. PICK n : n = rest[2]
    OBVIOUS
  <1>6. n \in Nat /\ 2 + n <= Len(rest)
    BY <1>1, <1>3, <1>4, <1>5, Bytes
  <1>7. /\ rest' \in Seq(Byte) /\ Len(rest') = Len(rest) - 2
        /\ \A x \in 1 .. Len(rest) - 2 : rest'[x] = rest[2 + x]
    <2>1. rest' = Drop(rest, 2)
      BY DEF ReadHeader
    <2>2. PICK d, t : d = 2 /\ t = Drop(rest, d)
      OBVIOUS
    <2>3. d \in Nat /\ d <= Len(rest)
      BY <1>1, <2>2
    <2>4. /\ t \in Seq(Byte) /\ Len(t) = Len(rest) - d
          /\ \A x \in 1 .. Len(rest) - d : t[x] = rest[d + x]
      BY <1>1, <2>2, <2>3, Dropped
    <2>5. QED
      BY <2>1, <2>2, <2>4
  <1>8. /\ inner' \in Seq(Byte) /\ Len(inner') = n
        /\ \A x \in 1 .. n : inner'[x] = rest[2 + x]
    <2>1. IsCut(inner', rest, 2, n)
      BY <1>5, <1>6 DEF ReadHeader, IsCut
    <2>2. QED
      BY <1>1, <2>1, Cut
  <1>9. PICK l : l = List(Low(Receiver, rest[1]), n, <<>>)
    OBVIOUS
  <1>10. rest[1] % Nibble \in 0 .. Nibble - 1 /\ Low(Receiver, rest[1]) = rest[1] % Nibble
    <2>1. 0 \in 0 .. Nibble - 1
      BY Bytes
    <2>2. QED
      BY <1>3, <2>1, Fields, FieldValues, Widths
  <1>11. /\ l \in ListOf(k) /\ AllFit(k, l.filters) /\ l.length = n
         /\ l.flags = rest[1] % Nibble /\ l.filters = <<>>
    BY <1>3, <1>5, <1>9, <1>10, NewList
  <1>12. Replaces(decoded', decoded, k, l) /\ Typed(decoded)
    BY <1>2, <1>5, <1>9 DEF Replaces, FilterInv, ParserInv
  <1>13. /\ Typed(decoded') /\ decoded'[k] = l
         /\ \A j \in Kinds : j # k => decoded'[j] = decoded[j]
    BY <1>11, <1>12, Replaced
  <1>14. QED
    BY <1>1, <1>2, <1>3, <1>4, <1>5, <1>7, <1>8, <1>11, <1>13

LEMMA ReadHeaderStep ==
  ASSUME FilterInv, ReadHeader
  PROVE  FilterInv'
  <1>1. Scalars /\ Streams /\ CallerInv /\ ParserInv
    BY DEF FilterInv
  <1>2. /\ pc = "header" /\ pc' = "elements"
        /\ UNCHANGED <<filter, wire, damage, rounds>>
    BY DEF ReadHeader
  <1>3. PICK k : k = kind'
    OBVIOUS
  <1>4. /\ k \in Kinds /\ k \notin found /\ found' = found \cup {k}
        /\ Typed(decoded') /\ \A j \in Kinds : j # k => decoded'[j] = decoded[j]
        /\ decoded'[k].length = rest[2] /\ decoded'[k].filters = <<>>
    BY <1>3, HeaderRead DEF Accepts
  <1>5. PICK m, n : m = Len(rest) /\ n = rest[2]
    OBVIOUS
  <1>6. /\ m \in Nat /\ m >= 2 /\ n \in Nat /\ n <= m - 2
        /\ rest' \in Seq(Byte) /\ Len(rest') = m - 2
        /\ \A x \in 1 .. m - 2 : rest'[x] = rest[2 + x]
        /\ inner' \in Seq(Byte) /\ Len(inner') = n
        /\ \A x \in 1 .. n : inner'[x] = rest[2 + x]
    <2>1. rest[2] \in Nat
      BY HeaderRead, Bytes
    <2>2. QED
      BY <1>1, <1>5, <2>1, HeaderRead DEF Streams
  <1>7. Scalars'
    BY <1>1, <1>2, <1>3, <1>4 DEF Scalars
  <1>8. Streams'
    BY <1>1, <1>2, <1>6 DEF Streams
  <1>9. CallerInv'
    BY <1>1, <1>2 DEF CallerInv
  <1>10. HeardMeasured /\ Accounted /\ TailOfWire
    BY <1>1, <1>2 DEF ParserInv, Parsing
  <1>11. \A j \in Kinds : j \notin found' => decoded'[j] = EmptyList
    BY <1>1, <1>4 DEF ParserInv
  <1>12. HeardMeasured'
    <2>1. ASSUME NEW j \in Kinds
          PROVE  (decoded[j].length
                    = ElementsSize(j, decoded[j].filters) + Pending(j))'
      <3>1. CASE j = k
        <4>1. ElementsSize(j, decoded'[j].filters) = 0 /\ Pending(j)' = n
          BY <1>2, <1>3, <1>4, <1>6, <3>1, EmptyTyped DEF Pending
        <4>2. QED
          BY <1>4, <1>5, <1>6, <3>1, <4>1
      <3>2. CASE j # k
        BY <1>2, <1>3, <1>4, <1>10, <3>2 DEF HeardMeasured, Pending
      <3>3. QED
        BY <3>1, <3>2
    <2>2. QED
      BY <2>1 DEF HeardMeasured
  <1>13. Position' = Position + 2 /\ Position \in Int
    <2>1. Len(wire) \in Nat /\ wire' = wire
      BY <1>1, <1>2 DEF Streams
    <2>2. QED
      BY <1>5, <1>6, <2>1 DEF Position
  <1>14. Accounted'
    <2>1. \A j \in Kinds : Taken(j) \in Nat
      BY <1>1, ElementsSizeProperties DEF ParserInv, Typed, Lists, ListOf, Taken
    <2>2. Taken(k) = 0 /\ Taken(k)' = 2
      BY <1>4, EmptyTyped DEF Taken
    <2>3. \A j \in Kinds : j # k => Taken(j)' = Taken(j)
      BY <1>4 DEF Taken
    <2>4. QED
      BY <1>4, <1>10, <1>13, <2>1, <2>2, <2>3 DEF Accounted, Kinds
  <1>15. TailOfWire'
    <2>1. ASSUME NEW x \in 1 .. Len(rest')
          PROVE  rest'[x] = wire'[Position' + x]
      <3>1. /\ x \in 1 .. m - 2 /\ 2 + x \in 1 .. m
            /\ Position' + x = Position + (2 + x)
        BY <1>6, <1>13
      <3>2. rest'[x] = rest[2 + x] /\ rest[2 + x] = wire[Position + (2 + x)]
        BY <1>5, <1>6, <1>10, <3>1 DEF TailOfWire
      <3>3. QED
        BY <1>2, <3>1, <3>2
    <2>2. QED
      BY <2>1 DEF TailOfWire
  <1>16. InStep'
    <2>1. k \in found' /\ n <= m - 2
      BY <1>4, <1>6
    <2>2. \A x \in 1 .. n : x \in 1 .. m - 2
      BY <1>6
    <2>3. QED
      BY <1>3, <1>6, <2>1, <2>2 DEF InStep
  <1>17. ParserInv'
    BY <1>2, <1>4, <1>11, <1>12, <1>14, <1>15, <1>16 DEF ParserInv
  <1>18. QED
    BY <1>7, <1>8, <1>9, <1>17 DEF FilterInv

\* What a filter takes from both streams.
LEMMA ElementRead ==
  ASSUME FilterInv, ReadElement
  PROVE  \E f \in Parse(kind, inner), n \in Nat \ {0} :
           /\ f \in Elements(kind) /\ Fitting(kind, f) /\ n = ByteSize(kind, f)
           /\ n <= Len(inner) /\ Len(inner) <= Len(rest)
           /\ inner' \in Seq(Byte) /\ Len(inner') = Len(inner) - n
           /\ \A x \in 1 .. Len(inner) - n : inner'[x] = inner[n + x]
           /\ rest' \in Seq(Byte) /\ Len(rest') = Len(rest) - n
           /\ \A x \in 1 .. Len(rest) - n : rest'[x] = rest[n + x]
           /\ Typed(decoded')
           /\ \A j \in Kinds : j # kind => decoded'[j] = decoded[j]
           /\ decoded'[kind].flags = decoded[kind].flags
           /\ decoded'[kind].length = decoded[kind].length
           /\ decoded'[kind].filters = Append(decoded[kind].filters, f)
           /\ ElementsSize(kind, decoded'[kind].filters)
                = ElementsSize(kind, decoded[kind].filters) + n
  <1>1. PICK f \in Parse(kind, inner) :
          /\ inner' = Drop(inner, Len(ElementBytes(Receiver, kind, f)))
          /\ rest' = Drop(rest, ByteSize(kind, f))
          /\ decoded' = [decoded EXCEPT ![kind].filters =
                           Append(decoded[kind].filters, f)]
    BY DEF ReadElement
  <1>2. /\ kind \in Kinds /\ inner \in Seq(Byte) /\ rest \in Seq(Byte)
        /\ Typed(decoded) /\ Len(inner) <= Len(rest)
    BY DEF ReadElement, FilterInv, Scalars, Streams, ParserInv, InStep
  <1>3. /\ f \in Elements(kind) /\ Fitting(kind, f)
        /\ ByteSize(kind, f) <= Len(inner)
    BY <1>2, ParsedElement
  <1>4. PICK n : n = ByteSize(kind, f)
    OBVIOUS
  <1>5. /\ n \in Nat \ {0} /\ n <= Len(inner) /\ n <= Len(rest)
        /\ inner' = Drop(inner, n) /\ rest' = Drop(rest, n)
    <2>1. n \in Nat \ {0} /\ n <= Len(inner)
      BY <1>2, <1>3, <1>4, SizePositive
    <2>2. Len(ElementBytes(Receiver, kind, f)) = n
      BY <1>2, <1>3, <1>4, ElementSize, Widths
    <2>3. n <= Len(rest)
      BY <1>2, <2>1
    <2>4. QED
      BY <1>1, <1>4, <2>1, <2>2, <2>3
  <1>6. /\ inner' \in Seq(Byte) /\ Len(inner') = Len(inner) - n
        /\ \A x \in 1 .. Len(inner) - n : inner'[x] = inner[n + x]
    BY <1>2, <1>5, Dropped
  <1>7. /\ rest' \in Seq(Byte) /\ Len(rest') = Len(rest) - n
        /\ \A x \in 1 .. Len(rest) - n : rest'[x] = rest[n + x]
    BY <1>2, <1>5, Dropped
  <1>8. PICK fs, gs : fs = decoded[kind].filters /\ gs = Append(fs, f)
    OBVIOUS
  <1>9. fs \in Seq(Elements(kind)) /\ gs \in Seq(Elements(kind)) /\ AllFit(kind, fs)
    BY <1>2, <1>3, <1>8 DEF Typed, Lists, ListOf
  <1>10. AllFit(kind, gs)
    BY <1>3, <1>8, <1>9 DEF AllFit
  <1>11. ElementsSize(kind, gs) = ElementsSize(kind, fs) + n
    BY <1>2, <1>3, <1>4, <1>8, <1>9, ElementsSizeProperties
  <1>12. PICK l : l = [decoded[kind] EXCEPT !.filters = gs]
    OBVIOUS
  <1>13. decoded[kind] \in ListOf(kind)
    BY <1>2 DEF Typed, Lists
  <1>14. /\ l \in ListOf(kind) /\ l.filters = gs
         /\ l.flags = decoded[kind].flags /\ l.length = decoded[kind].length
    BY <1>9, <1>12, <1>13 DEF ListOf
  <1>15. AllFit(kind, l.filters)
    BY <1>10, <1>14
  <1>16. Replaces(decoded', decoded, kind, l)
    BY <1>1, <1>8, <1>12 DEF Replaces
  <1>17. /\ Typed(decoded') /\ decoded'[kind] = l
         /\ \A j \in Kinds : j # kind => decoded'[j] = decoded[j]
    BY <1>2, <1>14, <1>15, <1>16, Replaced
  <1>18. QED
    BY <1>2, <1>3, <1>4, <1>5, <1>6, <1>7, <1>8, <1>11, <1>14, <1>17

LEMMA ReadElementStep ==
  ASSUME FilterInv, ReadElement
  PROVE  FilterInv'
  <1>1. Scalars /\ Streams /\ CallerInv /\ ParserInv
    BY DEF FilterInv
  <1>2. /\ pc = "elements"
        /\ UNCHANGED <<pc, filter, wire, damage, kind, found, rounds>>
    BY DEF ReadElement
  <1>3. HeardMeasured /\ Accounted /\ TailOfWire /\ InStep
    BY <1>1, <1>2 DEF ParserInv, Parsing
  <1>4. PICK f \in Parse(kind, inner), n \in Nat \ {0} :
           /\ n <= Len(inner) /\ Len(inner) <= Len(rest)
           /\ inner' \in Seq(Byte) /\ Len(inner') = Len(inner) - n
           /\ \A x \in 1 .. Len(inner) - n : inner'[x] = inner[n + x]
           /\ rest' \in Seq(Byte) /\ Len(rest') = Len(rest) - n
           /\ \A x \in 1 .. Len(rest) - n : rest'[x] = rest[n + x]
           /\ Typed(decoded')
           /\ \A j \in Kinds : j # kind => decoded'[j] = decoded[j]
           /\ decoded'[kind].length = decoded[kind].length
           /\ ElementsSize(kind, decoded'[kind].filters)
                = ElementsSize(kind, decoded[kind].filters) + n
    BY ElementRead
  <1>5. PICK m, i : m = Len(rest) /\ i = Len(inner)
    OBVIOUS
  <1>6. m \in Nat /\ i \in Nat /\ n \in Nat /\ n <= i /\ i <= m
    BY <1>1, <1>4, <1>5 DEF Streams
  <1>7. Scalars'
    BY <1>1, <1>2 DEF Scalars
  <1>8. Streams'
    BY <1>1, <1>2, <1>4 DEF Streams
  <1>9. CallerInv'
    BY <1>1, <1>2 DEF CallerInv
  <1>10. kind \in Kinds /\ kind \in found
    BY <1>1, <1>3 DEF Scalars, InStep
  <1>11. \A j \in Kinds : j \notin found' => decoded'[j] = EmptyList
    BY <1>1, <1>2, <1>4, <1>10 DEF ParserInv
  <1>12. \A j \in Kinds : ElementsSize(j, decoded[j].filters) \in Nat
    BY <1>1, ElementsSizeProperties DEF ParserInv, Typed, Lists, ListOf
  <1>13. HeardMeasured'
    <2>1. ASSUME NEW j \in Kinds
          PROVE  (decoded[j].length
                    = ElementsSize(j, decoded[j].filters) + Pending(j))'
      <3>1. CASE j = kind
        <4>1. PICK e : e = ElementsSize(kind, decoded[kind].filters)
          OBVIOUS
        <4>2. e \in Nat /\ decoded[kind].length = e + i
          BY <1>2, <1>3, <1>5, <1>10, <1>12, <4>1 DEF HeardMeasured, Pending
        <4>3. Pending(j)' = i - n
          BY <1>2, <1>4, <1>5, <3>1 DEF Pending
        <4>4. ElementsSize(kind, decoded'[kind].filters) = e + n
          BY <1>4, <4>1
        <4>5. e + i = e + n + (i - n)
          BY <1>6, <4>2
        <4>6. QED
          BY <1>2, <1>4, <3>1, <4>2, <4>3, <4>4, <4>5
      <3>2. CASE j # kind
        BY <1>2, <1>3, <1>4, <3>2 DEF HeardMeasured, Pending
      <3>3. QED
        BY <3>1, <3>2
    <2>2. QED
      BY <2>1 DEF HeardMeasured
  <1>14. Position' = Position + n /\ Position \in Int
    <2>1. Len(wire) \in Nat /\ wire' = wire
      BY <1>1, <1>2 DEF Streams
    <2>2. QED
      BY <1>4, <1>5, <1>6, <2>1 DEF Position
  <1>15. Accounted'
    <2>1. \A j \in Kinds : Taken(j) \in Nat
      BY <1>12 DEF Taken
    <2>2. PICK k : k = kind
      OBVIOUS
    <2>3. Taken(k)' = Taken(k) + n
      <3>1. PICK e : e = ElementsSize(k, decoded[k].filters)
        OBVIOUS
      <3>2. e \in Nat /\ Taken(k) = 2 + e
        BY <1>10, <1>12, <2>2, <3>1 DEF Taken
      <3>3. Taken(k)' = 2 + (e + n)
        BY <1>2, <1>4, <1>10, <2>2, <3>1 DEF Taken
      <3>4. QED
        BY <1>6, <3>2, <3>3
    <2>a. \A j \in Kinds : j # k => Taken(j)' = Taken(j)
      BY <1>2, <1>4, <2>2 DEF Taken
    <2>4. Taken("raw")' + Taken("title")' + Taken("key")'
            = Taken("raw") + Taken("title") + Taken("key") + n
      <3>1. "raw" \in Kinds /\ "title" \in Kinds /\ "key" \in Kinds
        BY DEF Kinds
      <3>2. /\ Taken("raw") \in Nat /\ Taken("title") \in Nat
            /\ Taken("key") \in Nat /\ n \in Nat
        BY <1>6, <2>1, <3>1
      <3>3. CASE k = "raw"
        BY <2>3, <2>a, <3>1, <3>2, <3>3
      <3>4. CASE k = "title"
        BY <2>3, <2>a, <3>1, <3>2, <3>4
      <3>5. CASE k = "key"
        BY <2>3, <2>a, <3>1, <3>2, <3>5
      <3>6. QED
        BY <1>10, <2>2, <3>3, <3>4, <3>5 DEF Kinds
    <2>5. QED
      BY <1>3, <1>14, <2>4 DEF Accounted
  <1>16. TailOfWire'
    <2>1. ASSUME NEW x \in 1 .. Len(rest')
          PROVE  rest'[x] = wire'[Position' + x]
      <3>1. /\ x \in 1 .. m - n /\ n + x \in 1 .. m
            /\ Position' + x = Position + (n + x)
        BY <1>4, <1>5, <1>6, <1>14
      <3>2. rest'[x] = rest[n + x] /\ rest[n + x] = wire[Position + (n + x)]
        BY <1>3, <1>4, <1>5, <3>1 DEF TailOfWire
      <3>3. QED
        BY <1>2, <3>1, <3>2
    <2>2. QED
      BY <2>1 DEF TailOfWire
  <1>17. InStep'
    <2>1. Len(inner') <= Len(rest')
      BY <1>4, <1>5, <1>6
    <2>2. ASSUME NEW x \in 1 .. Len(inner')
          PROVE  inner'[x] = rest'[x]
      <3>1. x \in 1 .. i - n /\ x \in 1 .. m - n /\ n + x \in 1 .. i
        BY <1>4, <1>5, <1>6
      <3>2. inner'[x] = inner[n + x] /\ inner[n + x] = rest[n + x]
        BY <1>3, <1>4, <1>5, <3>1 DEF InStep
      <3>3. rest'[x] = rest[n + x]
        BY <1>4, <1>5, <3>1
      <3>4. QED
        BY <3>2, <3>3
    <2>3. QED
      BY <1>2, <1>10, <2>1, <2>2 DEF InStep
  <1>18. ParserInv'
    BY <1>2, <1>4, <1>11, <1>13, <1>15, <1>16, <1>17 DEF ParserInv
  <1>19. QED
    BY <1>7, <1>8, <1>9, <1>18 DEF FilterInv

LEMMA FilterStep == FilterInv /\ [Next]_vars => FilterInv'
  <1> SUFFICES ASSUME FilterInv, [Next]_vars
               PROVE  FilterInv'
    OBVIOUS
  <1>1. CASE Caller
    BY <1>1, CallerSteps, SendSteps DEF Caller
  <1>2. CASE Arrive
    BY <1>2, ArriveStep
  <1>3. CASE Parser
    BY <1>3, ReadHeaderStep, ReadElementStep, RejectSteps, EndListStep, FinishStep
       DEF Parser
  <1>4. CASE UNCHANGED vars
    <2>1. UNCHANGED <<pc, filter, wire, damage, parserVars, rounds>>
      BY <1>4 DEF vars
    <2>2. Scalars' /\ Streams' /\ CallerInv'
      BY <2>1 DEF FilterInv, Scalars, Streams, CallerInv, parserVars
    <2>3. ParserInv'
      BY <2>1, ParserUntouched DEF FilterInv
    <2>4. QED
      BY <2>2, <2>3 DEF FilterInv
  <1>5. QED
    BY <1>1, <1>2, <1>3, <1>4 DEF Next

\* The invariant that the properties follow from.
THEOREM FilterInvariant == Spec => []FilterInv
  <1>1. Init => FilterInv
    BY FilterInit
  <1>2. FilterInv /\ [Next]_vars => FilterInv'
    BY FilterStep
  <1>3. QED
    BY <1>1, <1>2, PTL DEF Spec

\* Each field keeps to its width, in what a caller builds and in what is heard.
THEOREM FilterTypeCorrect == Spec => []TypeOK
  BY FilterInvariant, InvTypeOK, PTL

LEMMA MeasuredFits ==
  ASSUME NEW m, Typed(m), Measured(m)
  PROVE  /\ \A k \in Kinds : m[k].length = Len(ContentBytes(Sender, k, m[k]))
         /\ FilterSize(m) = Len(Encoding(Sender, m))
  BY ListSize, EncodingBytes, Widths DEF Typed, Lists, Measured

LEMMA InvEncodingFits == FilterInv => EncodingFits
  <1> SUFFICES ASSUME FilterInv
               PROVE  EncodingFits
    OBVIOUS
  <1>1. Typed(filter) /\ Measured(filter)
    BY DEF FilterInv, CallerInv
  <1>2. ASSUME pc = "parsed"
        PROVE  Typed(decoded) /\ Measured(decoded)
    <2>1. Typed(decoded) /\ HeardMeasured
      BY <1>2 DEF FilterInv, ParserInv, Parsing
    <2>2. \A k \in Kinds : ElementsSize(k, decoded[k].filters) \in Nat
      BY <2>1, ElementsSizeProperties DEF Typed, Lists, ListOf
    <2>3. QED
      BY <1>2, <2>1, <2>2 DEF Measured, HeardMeasured, Pending
  <1>3. QED
    BY <1>1, <1>2, MeasuredFits DEF EncodingFits

\* Whatever a caller has set, or the parser made of what arrived, each header
\* says the length of its list and byte_size that of the whole.
THEOREM FilterEncodingFits == Spec => []EncodingFits
  BY FilterInvariant, InvEncodingFits, PTL

LEMMA InvStreamsInStep == FilterInv => StreamsInStep
  <1> SUFFICES ASSUME FilterInv, pc = "elements"
               PROVE  IsPrefix(inner, rest)
    BY DEF StreamsInStep
  <1>1. InStep /\ inner \in Seq(Byte) /\ rest \in Seq(Byte)
    BY DEF FilterInv, ParserInv, Streams
  <1>2. PICK n : n = Len(inner)
    OBVIOUS
  <1>3. n \in Nat /\ n <= Len(rest) /\ \A x \in 1 .. n : inner[x] = rest[x]
    BY <1>1, <1>2 DEF InStep
  <1>4. inner = SubSeq(rest, 1, n)
    <2>1. PICK c : c = SubSeq(rest, 1, n)
      OBVIOUS
    <2>2. IsCut(c, rest, 0, n)
      BY <1>3, <2>1 DEF IsCut
    <2>3. c \in [1 .. n -> Byte] /\ \A x \in 1 .. n : c[x] = rest[0 + x]
      BY <1>1, <2>2, Cut
    <2>4. inner \in [1 .. n -> Byte]
      BY <1>1, <1>2, LenProperties
    <2>5. c = [x \in 1 .. n |-> c[x]] /\ inner = [x \in 1 .. n |-> inner[x]]
      BY <2>3, <2>4
    <2>6. \A x \in 1 .. n : c[x] = inner[x]
      BY <1>3, <2>3
    <2>7. [x \in 1 .. n |-> c[x]] = [x \in 1 .. n |-> inner[x]]
      BY <2>6
    <2>8. QED
      BY <2>1, <2>5, <2>7
  <1>5. QED
    BY <1>2, <1>3, <1>4 DEF IsPrefix

\* The stream of a list is always the front of the whole.
THEOREM FilterStreamsInStep == Spec => []StreamsInStep
  BY FilterInvariant, InvStreamsInStep, PTL

\* Of what is accepted, the headers of empty lists are not in FilterSize.
LEMMA HeadersOfEmpty ==
  ASSUME NEW E \in SUBSET {"raw", "title"}
  PROVE  Cardinality(E) = (IF "raw" \in E THEN 1 ELSE 0)
                            + (IF "title" \in E THEN 1 ELSE 0)
  <1>1. IsFiniteSet({}) /\ Cardinality({}) = 0
    BY FS_EmptySet
  <1>2. \A x : Cardinality({x}) = 1 /\ IsFiniteSet({x})
    BY FS_Singleton
  <1>3. Cardinality({"raw", "title"}) = 2
    <2>1. {"raw", "title"} = {"raw"} \cup {"title"} /\ "title" \notin {"raw"}
      OBVIOUS
    <2>2. Cardinality({"raw"} \cup {"title"}) = Cardinality({"raw"}) + 1
      BY <1>2, <2>1, FS_AddElement
    <2>3. QED
      BY <1>2, <2>1, <2>2
  <1>4. E = {} \/ E = {"raw"} \/ E = {"title"} \/ E = {"raw", "title"}
    OBVIOUS
  <1>5. CASE E = {}
    BY <1>1, <1>5
  <1>6. CASE E = {"raw"}
    BY <1>2, <1>6
  <1>7. CASE E = {"title"}
    BY <1>2, <1>7
  <1>8. CASE E = {"raw", "title"}
    BY <1>3, <1>8
  <1>9. QED
    BY <1>4, <1>5, <1>6, <1>7, <1>8

LEMMA InvAllAccounted == FilterInv => AllAccounted
  <1> SUFFICES ASSUME FilterInv, pc = "parsed",
                      NEW E, E = {k \in found : decoded[k].filters = <<>>}
               PROVE  Len(wire) - (FilterSize(decoded) + 2 * Cardinality(E)) \in 0 .. 1
    BY DEF AllAccounted
  <1>1. /\ Typed(decoded) /\ Accounted /\ Len(rest) < 2
        /\ Len(decoded["key"].filters) = 1 /\ found \subseteq Kinds
        /\ \A k \in Kinds : k \notin found => decoded[k] = EmptyList
    BY DEF FilterInv, ParserInv, Parsing, Scalars
  <1>2. Len(wire) \in Nat /\ Len(rest) \in Nat
    BY DEF FilterInv, Streams
  <1>3. "raw" \in Kinds /\ "title" \in Kinds /\ "key" \in Kinds
    BY DEF Kinds
  <1>4. \A k \in Kinds : ElementsSize(k, decoded[k].filters) \in Nat
    BY <1>1, ElementsSizeProperties DEF Typed, Lists, ListOf
  <1>5. decoded["key"].filters # <<>>
    BY <1>1, EmptySeq
  <1>6. "key" \in found
    BY <1>1, <1>3, <1>5, EmptyTyped
  <1>7. PICK e : e = [k \in Kinds |-> IF k \in E THEN 1 ELSE 0]
    OBVIOUS
  <1>8. ASSUME NEW k \in Kinds
        PROVE  Taken(k) = OptionalSize(k, decoded) + 2 * e[k]
    <2>1. CASE k \notin found
      BY <1>1, <1>7, <2>1, EmptyTyped DEF Taken, OptionalSize
    <2>2. CASE k \in found /\ decoded[k].filters = <<>>
      <3>1. ElementsSize(k, decoded[k].filters) = 0
        BY <2>2, EmptyTyped
      <3>2. Taken(k) = 2 /\ OptionalSize(k, decoded) = 0 /\ e[k] = 1
        BY <1>7, <2>2, <3>1 DEF Taken, OptionalSize
      <3>3. QED
        BY <3>2
    <2>3. CASE k \in found /\ decoded[k].filters # <<>>
      BY <1>4, <1>7, <2>3 DEF Taken, OptionalSize
    <2>4. QED
      BY <2>1, <2>2, <2>3
  <1>9. E \in SUBSET {"raw", "title"}
    BY <1>1, <1>5 DEF Kinds
  <1>10. Cardinality(E) = e["raw"] + e["title"] /\ e["key"] = 0
    BY <1>3, <1>7, <1>9, HeadersOfEmpty
  <1>11. PICK a, b, c : /\ a = OptionalSize("raw", decoded)
                        /\ b = OptionalSize("title", decoded)
                        /\ c = OptionalSize("key", decoded)
    OBVIOUS
  <1>12. a \in Nat /\ b \in Nat /\ c \in Nat
    BY <1>3, <1>4, <1>11 DEF OptionalSize
  <1>13. FilterSize(decoded) = c + a + b
    BY <1>5, <1>11 DEF FilterSize, OptionalSize
  <1>14. e["raw"] \in Nat /\ e["title"] \in Nat
    BY <1>3, <1>7
  <1>15. Len(wire) - Len(rest) = (a + 2 * e["raw"]) + (b + 2 * e["title"]) + c
    BY <1>1, <1>3, <1>8, <1>10, <1>11, <1>12 DEF Accounted, Position
  <1>16. PICK r, t, m, n : /\ r = e["raw"] /\ t = e["title"]
                           /\ m = Len(wire) /\ n = Len(rest)
    OBVIOUS
  <1>17. m - (c + a + b + 2 * (r + t)) \in 0 .. 1
    <2>1. /\ m \in Nat /\ n \in Nat /\ n < 2 /\ r \in Nat /\ t \in Nat
          /\ m - n = (a + 2 * r) + (b + 2 * t) + c
      BY <1>1, <1>2, <1>14, <1>15, <1>16
    <2>2. QED
      BY <1>12, <2>1
  <1>18. QED
    BY <1>10, <1>13, <1>16, <1>17

\* Nothing that is accepted is ignored but a byte at the end.
THEOREM FilterAllAccounted == Spec => []AllAccounted
  BY FilterInvariant, InvAllAccounted, PTL

-----------------------------------------------------------------------------
(* What arrives unharmed comes out as it went in, and what is cut short does *)
(* not come out.                                                             *)

LEMMA SameElement ==
  ASSUME NEW g \in Orders, NEW h \in Orders, NEW k \in Kinds, NEW f \in Elements(k)
  PROVE  ElementBytes(g, k, f) = ElementBytes(h, k, f)
  <1>1. CASE k = "title"
    <2>1. f \in TitleFilter
      BY <1>1 DEF Elements
    <2>2. Stored(g, "big", f.title_id, TidWidth) = Stored(h, "big", f.title_id, TidWidth)
      BY <2>1, StoredBytes, TitleTypes, Widths
    <2>3. TitleBytes(g, f) = TitleBytes(h, f)
      BY <2>2, Fields DEF TitleBytes
    <2>4. QED
      BY <1>1, <2>3 DEF ElementBytes
  <1>2. CASE k # "title"
    BY <1>2 DEF ElementBytes, Kinds
  <1>3. QED
    BY <1>1, <1>2

\* Two machines, whatever the order of their bytes, send a filter as the same
\* bytes (the _le and _be structures of module_filter.hpp:131-193).
THEOREM SameEncoding ==
  ASSUME NEW g \in Orders, NEW h \in Orders, NEW m, Lists(m)
  PROVE  Encoding(g, m) = Encoding(h, m)
  <1>1. ASSUME NEW k \in Kinds
        PROVE  ListBytes(g, k, m[k]) = ListBytes(h, k, m[k])
    <2>1. PICK fs : fs = m[k].filters
      OBVIOUS
    <2>2. fs \in Seq(Elements(k))
      BY <2>1 DEF Lists, ListOf
    <2>3. \A i \in 1 .. Len(fs) : ElementBytes(g, k, fs[i]) = ElementBytes(h, k, fs[i])
      BY <2>2, SameElement
    <2>4. [i \in 1 .. Len(fs) |-> ElementBytes(g, k, fs[i])]
            = [i \in 1 .. Len(fs) |-> ElementBytes(h, k, fs[i])]
      BY <2>3
    <2>5. ContentBytes(g, k, m[k]) = ContentBytes(h, k, m[k])
      BY <2>1, <2>4 DEF ContentBytes
    <2>6. Packed(g, m[k].flags, Marker(k)) = Packed(h, m[k].flags, Marker(k))
      BY Fields
    <2>7. QED
      BY <2>5, <2>6 DEF ListBytes
  <1>2. QED
    BY <1>1 DEF Encoding, Optional, Kinds

Whole == Encoding(Sender, filter)
Earlier(k) == CASE k = "raw" -> {} [] k = "title" -> {"raw"}
                [] k = "key" -> {"raw", "title"}

\* What has arrived is the bytes sent, or the first of them.
OnTheWire ==
  /\ damage = "none" => Len(wire) = Len(Whole)
  /\ damage = "truncated" => Len(wire) < Len(Whole) /\ "key" \notin found
  /\ \A x \in 1 .. Len(wire) : wire[x] = Whole[x]

\* The lists that are found were sent, and so have been those before them, which
\* are found as well; all are as they were but the last, which has a beginning.
InOrder ==
  \A k \in found :
    Sent(k, filter) /\ \A j \in Earlier(k) : Sent(j, filter) => j \in found
Copied == \A k \in found : (pc = "elements" /\ k = kind) \/ decoded[k] = filter[k]
Copying ==
  pc = "elements" =>
    /\ \A k \in found : kind \notin Earlier(k)
    /\ decoded[kind].flags = filter[kind].flags
    /\ decoded[kind].length = filter[kind].length
    /\ Len(decoded[kind].filters) <= Len(filter[kind].filters)
    /\ SameUpTo(Len(decoded[kind].filters), decoded[kind].filters, filter[kind].filters)

Uncut == damage \in {"none", "truncated"}
PassInv ==
  /\ pc = "sent" => wire = Whole
  /\ Parsing /\ Uncut => OnTheWire /\ InOrder /\ Copied /\ Copying
  /\ damage = "none" => pc # "rejected"
  /\ damage = "truncated" => pc # "parsed"

\* What the lists that are done with have taken.
LEMMA TakenAll ==
  ASSUME FilterInv, InOrder, NEW k \in Kinds, k \notin found \/ decoded[k] = filter[k]
  PROVE  /\ OptionalSize(k, filter) \in Nat
         /\ k \notin found => Taken(k) = 0
         /\ k \in found => Taken(k) = 2 + ElementsSize(k, filter[k].filters)
         /\ (k # "key" /\ (Sent(k, filter) => k \in found)) =>
              Taken(k) = OptionalSize(k, filter)
  <1>1. filter[k] \in ListOf(k)
    BY DEF FilterInv, CallerInv, Typed, Lists
  <1>2. OptionalSize(k, filter) \in Nat
    BY <1>1, OptionalBytes, Widths
  <1>3. k \in found => Sent(k, filter)
    BY DEF InOrder
  <1>4. QED
    BY <1>2, <1>3 DEF Taken, OptionalSize, Sent

\* The list that is next on the wire.
Upcoming(k) ==
  /\ k \in Kinds /\ k \notin found /\ Sent(k, filter)
  /\ \A j \in Earlier(k) : Sent(j, filter) => j \in found
  /\ \A j \in found : k \notin Earlier(j)
  /\ Position = Offset(k, filter)

LEMMA HeaderPosition ==
  ASSUME FilterInv, PassInv, pc = "header", Uncut
  PROVE  \/ "key" \in found /\ Position = Len(Whole)
         \/ \E k \in Kinds : Upcoming(k)
  <1>1. InOrder /\ Copied /\ Accounted
    BY DEF PassInv, FilterInv, ParserInv, Parsing
  <1>2. \A k \in Kinds : k \notin found \/ decoded[k] = filter[k]
    BY <1>1 DEF Copied
  <1>3. "raw" \in Kinds /\ "title" \in Kinds /\ "key" \in Kinds /\ found \subseteq Kinds
    BY DEF Kinds, FilterInv, Scalars
  <1>4. PICK a, b, e : /\ a = OptionalSize("raw", filter)
                       /\ b = OptionalSize("title", filter)
                       /\ e = ElementsSize("key", filter["key"].filters)
    OBVIOUS
  <1>5. a \in Nat /\ b \in Nat /\ e \in Nat
    BY <1>1, <1>2, <1>3, <1>4, TakenAll, ListSize, Widths
       DEF FilterInv, CallerInv, Typed, Lists
  <1>6. /\ Offset("raw", filter) = 0 /\ Offset("title", filter) = a
        /\ Offset("key", filter) = a + b
    BY <1>4 DEF Offset
  <1>7. /\ "raw" \notin found => Taken("raw") = 0
        /\ (Sent("raw", filter) => "raw" \in found) => Taken("raw") = a
        /\ "title" \notin found => Taken("title") = 0
        /\ (Sent("title", filter) => "title" \in found) => Taken("title") = b
        /\ "key" \notin found => Taken("key") = 0
        /\ "key" \in found => Taken("key") = 2 + e
    BY <1>1, <1>2, <1>3, <1>4, TakenAll
  <1>8. /\ "title" \in found => (Sent("raw", filter) => "raw" \in found)
        /\ "key" \in found => /\ Sent("raw", filter) => "raw" \in found
                              /\ Sent("title", filter) => "title" \in found
    BY <1>1 DEF InOrder, Earlier
  <1>9. Position = Taken("raw") + Taken("title") + Taken("key")
    BY <1>1 DEF Accounted
  <1>10. CASE "key" \in found
    <2>1. Position = a + b + (2 + e)
      BY <1>7, <1>8, <1>9, <1>10
    <2>2. Len(Whole) = a + b + 2 + e
      BY <1>4, <1>6, EncodingBytes, Widths DEF Whole, FilterInv, CallerInv, Typed
    <2>3. QED
      BY <1>5, <1>10, <2>1, <2>2
  <1>11. CASE "key" \notin found /\ "raw" \notin found /\ Sent("raw", filter)
    <2>1. "title" \notin found
      BY <1>8, <1>11
    <2>2. Position = 0
      BY <1>7, <1>9, <1>11, <2>1
    <2>3. Upcoming("raw")
      <3>1. found = {}
        BY <1>3, <1>11, <2>1 DEF Kinds
      <3>2. QED
        BY <1>3, <1>6, <1>11, <2>2, <3>1 DEF Upcoming, Earlier
    <2>4. QED
      BY <1>3, <2>3
  <1>12. CASE /\ "key" \notin found /\ "title" \notin found /\ Sent("title", filter)
              /\ Sent("raw", filter) => "raw" \in found
    <2>1. Position = a
      BY <1>5, <1>7, <1>9, <1>12
    <2>2. Upcoming("title")
      <3>1. \A j \in found : j = "raw"
        BY <1>3, <1>12 DEF Kinds
      <3>2. QED
        BY <1>3, <1>6, <1>12, <2>1, <3>1 DEF Upcoming, Earlier
    <2>3. QED
      BY <1>3, <2>2
  <1>13. CASE /\ "key" \notin found
              /\ Sent("title", filter) => "title" \in found
              /\ Sent("raw", filter) => "raw" \in found
    <2>1. Position = a + b
      BY <1>5, <1>7, <1>9, <1>13
    <2>2. Upcoming("key")
      <3>1. \A j \in found : j = "raw" \/ j = "title"
        BY <1>3, <1>13 DEF Kinds
      <3>2. QED
        BY <1>3, <1>6, <1>13, <2>1, <3>1 DEF Upcoming, Earlier, Sent
    <2>3. QED
      BY <1>3, <2>2
  <1>14. QED
    BY <1>8, <1>10, <1>11, <1>12, <1>13

LEMMA WholeBytes ==
  ASSUME FilterInv
  PROVE  /\ Len(Whole) \in Nat /\ Len(wire) \in Nat /\ Len(rest) \in Nat
         /\ Len(Whole)
              = Offset("key", filter) + 2 + ElementsSize("key", filter["key"].filters)
         /\ \A k \in Kinds : /\ Offset(k, filter) \in Nat
                             /\ ElementsSize(k, filter[k].filters) \in Nat
                             /\ filter[k] \in ListOf(k)
                             /\ filter[k].length = ElementsSize(k, filter[k].filters)
         /\ \A k \in Kinds : Sent(k, filter) =>
              /\ Offset(k, filter) + 2 + ElementsSize(k, filter[k].filters) <= Len(Whole)
              /\ \A x \in 1 .. 2 + ElementsSize(k, filter[k].filters) :
                   Whole[Offset(k, filter) + x] = ListBytes(Sender, k, filter[k])[x]
  <1>1. Lists(filter) /\ Measured(filter)
    BY DEF FilterInv, CallerInv, Typed
  <1>2. PICK w : w = Whole
    OBVIOUS
  <1>3. /\ w \in Seq(Byte)
        /\ Len(w) = Offset("key", filter) + 2
                      + ElementsSize("key", filter["key"].filters)
        /\ \A k \in Kinds : Offset(k, filter) \in Nat
        /\ \A k \in Kinds : Sent(k, filter) =>
             /\ Offset(k, filter) + 2 + ElementsSize(k, filter[k].filters) <= Len(w)
             /\ \A x \in 1 .. 2 + ElementsSize(k, filter[k].filters) :
                  w[Offset(k, filter) + x] = ListBytes(Sender, k, filter[k])[x]
    BY <1>1, <1>2, EncodingBytes, Widths DEF Whole
  <1>4. \A k \in Kinds : /\ filter[k] \in ListOf(k)
                         /\ ElementsSize(k, filter[k].filters) \in Nat
                         /\ filter[k].length = ElementsSize(k, filter[k].filters)
    BY <1>1, ListSize, Widths DEF Lists, Measured
  <1>5. Len(w) \in Nat /\ Len(wire) \in Nat /\ Len(rest) \in Nat
    BY <1>3 DEF FilterInv, Streams
  <1>6. QED
    BY <1>2, <1>3, <1>4, <1>5

LEMMA HeaderBytes ==
  ASSUME FilterInv, PassInv, pc = "header", Uncut, NEW k, Upcoming(k), Len(rest) >= 2
  PROVE  /\ rest[1] % Nibble = filter[k].flags /\ rest[2] = filter[k].length
         /\ \A j \in Kinds : Marker(j) = High(Receiver, rest[1]) => j = k
         /\ Marker(k) = High(Receiver, rest[1])
  <1>1. OnTheWire /\ TailOfWire
    BY DEF PassInv, FilterInv, ParserInv, Parsing
  <1>2. k \in Kinds /\ Sent(k, filter) /\ Position = Offset(k, filter)
    BY DEF Upcoming
  <1>3. PICK o, e : o = Offset(k, filter) /\ e = ElementsSize(k, filter[k].filters)
    OBVIOUS
  <1>4. /\ o \in Nat /\ e \in Nat /\ filter[k] \in ListOf(k)
        /\ \A x \in 1 .. 2 + e : Whole[o + x] = ListBytes(Sender, k, filter[k])[x]
    BY <1>2, <1>3, WholeBytes
  <1>5. ASSUME NEW x \in {1, 2}
        PROVE  rest[x] = ListBytes(Sender, k, filter[k])[x]
    <2>1. x \in 1 .. Len(rest) /\ x \in 1 .. 2 + e
      BY <1>4, WholeBytes
    <2>2. rest[x] = wire[o + x]
      BY <1>1, <1>2, <1>3, <2>1 DEF TailOfWire
    <2>3. o + x \in 1 .. Len(wire)
      <3>1. o = Len(wire) - Len(rest)
        BY <1>2, <1>3 DEF Position
      <3>2. QED
        BY <1>4, <2>1, <3>1, WholeBytes
    <2>4. QED
      BY <1>1, <1>4, <2>1, <2>2, <2>3 DEF OnTheWire
  <1>6. /\ rest[1] = filter[k].flags + Nibble * Marker(k)
        /\ rest[2] = filter[k].length
    BY <1>2, <1>4, <1>5, ListSize, Widths
  <1>7. /\ filter[k].flags \in 0 .. Nibble - 1
        /\ \A j \in Kinds : Marker(j) \in 0 .. Nibble - 1
    BY <1>4, Bytes DEF ListOf, Kinds, Marker
  <1>8. rest[1] % Nibble = filter[k].flags /\ rest[1] \div Nibble = Marker(k)
    <2>1. 0 \in Byte
      BY Bytes
    <2>2. QED
      BY <1>2, <1>6, <1>7, <2>1, FieldValues
  <1>9. High(Receiver, rest[1]) = Marker(k)
    BY <1>8, Fields, Widths
  <1>10. \A j \in Kinds : Marker(j) = Marker(k) => j = k
    BY <1>2, Bytes DEF Kinds, Marker
  <1>11. QED
    BY <1>6, <1>8, <1>9, <1>10

\* All of the next list is there if nothing is missing, and not the key if
\* something is.
LEMMA HeaderRoom ==
  ASSUME FilterInv, PassInv, pc = "header", Uncut, NEW k, Upcoming(k)
  PROVE  /\ damage = "none" => Len(rest) >= 2 /\ filter[k].length <= Len(rest) - 2
         /\ (damage = "truncated" /\ k = "key") => ~(filter[k].length <= Len(rest) - 2)
  <1>1. OnTheWire
    BY DEF PassInv, Parsing
  <1>2. k \in Kinds /\ Sent(k, filter) /\ Position = Offset(k, filter)
    BY DEF Upcoming
  <1>3. PICK o, e, m, n, r :
          /\ o = Offset(k, filter) /\ e = ElementsSize(k, filter[k].filters)
          /\ m = Len(Whole) /\ n = Len(wire) /\ r = Len(rest)
    OBVIOUS
  <1>4. /\ o \in Nat /\ e \in Nat /\ m \in Nat /\ n \in Nat /\ r \in Nat
        /\ o + 2 + e <= m /\ filter[k].length = e /\ n - r = o
        /\ k = "key" => m = o + 2 + e
    BY <1>2, <1>3, WholeBytes DEF Position
  <1>5. CASE damage = "none"
    <2>1. n = m
      BY <1>1, <1>3, <1>5 DEF OnTheWire
    <2>2. r >= 2 /\ e <= r - 2
      BY <1>4, <2>1
    <2>3. QED
      BY <1>3, <1>4, <1>5, <2>2
  <1>6. CASE damage = "truncated" /\ k = "key"
    <2>1. n < m
      BY <1>1, <1>3, <1>6 DEF OnTheWire
    <2>2. ~(e <= r - 2)
      BY <1>4, <1>6, <2>1
    <2>3. QED
      BY <1>3, <1>4, <1>6, <2>2
  <1>7. QED
    BY <1>5, <1>6

LEMMA ReadHeaderPass ==
  ASSUME FilterInv, PassInv, ReadHeader
  PROVE  PassInv'
  <1>1. /\ pc = "header" /\ pc' = "elements"
        /\ UNCHANGED <<filter, wire, damage, rounds>>
    BY DEF ReadHeader
  <1>2. SUFFICES ASSUME Uncut
                 PROVE  (OnTheWire /\ InOrder /\ Copied /\ Copying)'
    BY <1>1 DEF PassInv, Uncut
  <1>3. OnTheWire /\ InOrder /\ Copied /\ Len(rest) >= 2
    BY <1>1, <1>2 DEF PassInv, Parsing, ReadHeader
  <1>4. /\ Accepts(kind') /\ kind' \in Kinds /\ found' = found \cup {kind'}
        /\ rest[2] <= Len(rest) - 2
        /\ \A j \in Kinds : j # kind' => decoded'[j] = decoded[j]
        /\ decoded'[kind'].flags = rest[1] % Nibble
        /\ decoded'[kind'].length = rest[2] /\ decoded'[kind'].filters = <<>>
    BY HeaderRead
  <1>5. PICK k \in Kinds : Upcoming(k)
    <2>1. CASE "key" \in found /\ Position = Len(Whole)
      <3>1. PICK m, n, r : m = Len(Whole) /\ n = Len(wire) /\ r = Len(rest)
        OBVIOUS
      <3>2. m \in Nat /\ n \in Nat /\ r \in Nat /\ n - r = m /\ n <= m /\ r >= 2
        BY <1>2, <1>3, <2>1, <3>1, WholeBytes DEF OnTheWire, Uncut, Position
      <3>3. FALSE
        BY <3>2
      <3>4. QED
        BY <3>3
    <2>2. QED
      BY <1>1, <1>2, <2>1, HeaderPosition
  <1>6. /\ rest[1] % Nibble = filter[k].flags /\ rest[2] = filter[k].length
        /\ kind' = k
    BY <1>1, <1>2, <1>3, <1>4, <1>5, HeaderBytes DEF Accepts
  <1>7. OnTheWire'
    <2>1. damage = "truncated" => "key" \notin found'
      BY <1>1, <1>2, <1>3, <1>4, <1>5, <1>6, HeaderRoom DEF OnTheWire
    <2>2. QED
      BY <1>1, <1>3, <2>1 DEF OnTheWire, Whole
  <1>8. InOrder'
    <2>1. /\ Sent(k, filter) /\ \A j \in Earlier(k) : Sent(j, filter) => j \in found
      BY <1>5 DEF Upcoming
    <2>2. QED
      BY <1>1, <1>3, <1>4, <1>6, <2>1 DEF InOrder
  <1>9. Copied'
    <2>1. found \subseteq Kinds
      BY DEF FilterInv, Scalars
    <2>2. QED
      BY <1>1, <1>3, <1>4, <2>1 DEF Copied
  <1>10. Copying'
    <2>1. \A j \in found' : kind' \notin Earlier(j)
      <3>1. \A j \in found : k \notin Earlier(j)
        BY <1>5 DEF Upcoming
      <3>2. k \notin Earlier(k)
        BY DEF Kinds, Earlier
      <3>3. QED
        BY <1>4, <1>6, <3>1, <3>2
    <2>2. /\ decoded'[kind'].flags = filter'[kind'].flags
          /\ decoded'[kind'].length = filter'[kind'].length
      BY <1>1, <1>4, <1>6
    <2>3. Len(decoded'[kind'].filters) = 0
      BY <1>4, EmptySeq
    <2>4. Len(filter'[kind'].filters) \in Nat
      BY <1>1, <1>4, WholeBytes DEF ListOf
    <2>5. Len(decoded'[kind'].filters) <= Len(filter'[kind'].filters)
      BY <2>3, <2>4
    <2>6. SameUpTo(Len(decoded'[kind'].filters), decoded'[kind'].filters,
                   filter'[kind'].filters)
      BY <2>3 DEF SameUpTo
    <2>7. QED
      BY <2>1, <2>2, <2>5, <2>6 DEF Copying
  <1>11. QED
    BY <1>7, <1>8, <1>9, <1>10

\* Where the parser is in the list that it reads.
LEMMA ElementsPosition ==
  ASSUME FilterInv, PassInv, pc = "elements", Uncut
  PROVE  Position = Offset(kind, filter) + 2
                      + ElementsSize(kind, decoded[kind].filters)
  <1>1. InOrder /\ Copied /\ Copying /\ Accounted /\ InStep
    BY DEF PassInv, FilterInv, ParserInv, Parsing
  <1>2. kind \in Kinds /\ kind \in found
    BY <1>1 DEF FilterInv, Scalars, InStep
  <1>3. \A k \in Kinds : k # kind => (k \notin found \/ decoded[k] = filter[k])
    BY <1>1 DEF Copied
  <1>4. "raw" \in Kinds /\ "title" \in Kinds /\ "key" \in Kinds
    BY DEF Kinds
  <1>5. PICK a, b, e : /\ a = OptionalSize("raw", filter)
                       /\ b = OptionalSize("title", filter)
                       /\ e = ElementsSize(kind, decoded[kind].filters)
    OBVIOUS
  <1>6. a \in Nat /\ b \in Nat
    BY <1>4, <1>5, OptionalBytes, WholeBytes, Widths
  <1>7. e \in Nat
    BY <1>2, <1>5, ElementsSizeProperties
       DEF FilterInv, ParserInv, Typed, Lists, ListOf
  <1>8. /\ Offset("raw", filter) = 0 /\ Offset("title", filter) = a
        /\ Offset("key", filter) = a + b
    BY <1>5 DEF Offset
  <1>9. Position = Taken("raw") + Taken("title") + Taken("key")
    BY <1>1 DEF Accounted
  <1>10. Taken(kind) = 2 + e
    BY <1>2, <1>5 DEF Taken
  <1>11. \A j \in found : kind \notin Earlier(j)
    BY <1>1 DEF Copying
  <1>12. CASE kind = "raw"
    <2>1. "title" \notin found /\ "key" \notin found
      BY <1>11, <1>12 DEF Earlier
    <2>2. Taken("title") = 0 /\ Taken("key") = 0
      BY <2>1 DEF Taken
    <2>3. QED
      BY <1>5, <1>7, <1>8, <1>9, <1>10, <1>12, <2>2
  <1>13. CASE kind = "title"
    <2>1. "key" \notin found /\ (Sent("raw", filter) => "raw" \in found)
      BY <1>1, <1>2, <1>11, <1>13 DEF Earlier, InOrder
    <2>2. Taken("raw") = a
      BY <1>1, <1>3, <1>4, <1>5, <1>13, <2>1, TakenAll
    <2>3. Taken("key") = 0
      BY <2>1 DEF Taken
    <2>4. QED
      BY <1>5, <1>6, <1>7, <1>8, <1>9, <1>10, <1>13, <2>2, <2>3
  <1>14. CASE kind = "key"
    <2>1. /\ Sent("raw", filter) => "raw" \in found
          /\ Sent("title", filter) => "title" \in found
      BY <1>1, <1>2, <1>14 DEF Earlier, InOrder
    <2>2. Taken("raw") = a /\ Taken("title") = b
      BY <1>1, <1>3, <1>4, <1>5, <1>14, <2>1, TakenAll
    <2>3. QED
      BY <1>5, <1>6, <1>7, <1>8, <1>9, <1>10, <1>14, <2>2
  <1>15. QED
    BY <1>2, <1>12, <1>13, <1>14 DEF Kinds

\* The list's own stream is the rest of the list's bytes.
Remaining(size, n) ==
  LET fs == filter[kind].filters
      content == ContentBytes(Sender, kind, filter[kind])
  IN  /\ Located(content, Sender, kind, fs, size)
      /\ n = Len(decoded[kind].filters) /\ n \in 0 .. Len(fs)
      /\ Len(inner) = Len(content) - size[n]
      /\ \A x \in 1 .. Len(inner) : inner[x] = content[size[n] + x]

LEMMA InnerRemains ==
  ASSUME FilterInv, PassInv, pc = "elements", Uncut
  PROVE  \E size, n : Remaining(size, n)
  <1>1. /\ OnTheWire /\ InOrder /\ Copying /\ HeardMeasured /\ TailOfWire /\ InStep
        /\ kind \in Kinds
    BY DEF PassInv, FilterInv, ParserInv, Parsing, Scalars
  <1>2. PICK fs, gs, n, c : /\ fs = filter[kind].filters
                            /\ gs = decoded[kind].filters /\ n = Len(gs)
                            /\ c = ContentBytes(Sender, kind, filter[kind])
    OBVIOUS
  <1>3. fs \in Seq(Elements(kind)) /\ gs \in Seq(Elements(kind))
    BY <1>1, <1>2, WholeBytes DEF ListOf, FilterInv, ParserInv, Typed, Lists
  <1>4. PICK size : Located(c, Sender, kind, fs, size)
    BY <1>1, <1>2, <1>3, ContentAt, Widths
  <1>5. /\ n \in Nat /\ Len(fs) \in Nat /\ n <= Len(fs) /\ n <= Len(gs)
        /\ Len(gs) \in Nat /\ n \in 0 .. n /\ n \in 0 .. Len(fs)
        /\ SameUpTo(n, gs, fs)
    BY <1>1, <1>2, <1>3 DEF Copying
  <1>6. ElementsSize(kind, gs) = size[n]
    <2>1. PICK g : SizeSteps(g, kind, gs) /\ ElementsSize(kind, gs) = g[Len(gs)]
      BY <1>1, <1>3, ElementsSizeSteps
    <2>2. SizeSteps(size, kind, fs)
      BY <1>4 DEF Located
    <2>3. \A i \in 0 .. n : g[i] = size[i]
      BY <1>5, <2>1, <2>2, SizesAgree
    <2>4. QED
      BY <1>2, <1>5, <2>1, <2>3
  <1>7. PICK o, s, e, i : /\ o = Offset(kind, filter) /\ s = size[n]
                          /\ e = ElementsSize(kind, fs) /\ i = Len(inner)
    OBVIOUS
  <1>8. /\ o \in Nat /\ e \in Nat /\ s \in Nat /\ s <= e /\ i \in Nat
        /\ Len(c) = e /\ Position = o + 2 + s
    <2>1. s \in Nat /\ s <= Len(c) /\ Len(c) = e
      BY <1>4, <1>5, <1>7 DEF Located, SizeSteps
    <2>2. o \in Nat /\ e \in Nat
      BY <1>1, <1>2, <1>7, WholeBytes
    <2>3. i \in Nat
      BY <1>7 DEF FilterInv, Streams
    <2>4. Position = o + 2 + s
      BY <1>2, <1>6, <1>7, ElementsPosition
    <2>5. QED
      BY <2>1, <2>2, <2>3, <2>4
  <1>9. i = e - s
    <2>1. decoded[kind].length = s + i
      BY <1>1, <1>2, <1>6, <1>7 DEF HeardMeasured, Pending
    <2>2. decoded[kind].length = e
      BY <1>1, <1>2, <1>7, WholeBytes DEF Copying
    <2>3. QED
      BY <1>8, <2>1, <2>2
  <1>10. ASSUME NEW x \in 1 .. i
         PROVE  inner[x] = c[s + x]
    <2>1. x \in 1 .. Len(rest) /\ Len(rest) \in Nat /\ Len(wire) \in Nat
      BY <1>1, <1>7, <1>8, WholeBytes DEF InStep
    <2>2. inner[x] = rest[x] /\ rest[x] = wire[Position + x]
      BY <1>1, <1>7, <2>1 DEF InStep, TailOfWire
    <2>3. PICK y, z : y = Position + x /\ z = s + x
      OBVIOUS
    <2>4. y \in 1 .. Len(wire) /\ z \in 1 .. e /\ y = o + (2 + z)
      <3>1. Position = Len(wire) - Len(rest)
        BY DEF Position
      <3>2. QED
        BY <1>8, <1>9, <2>1, <2>3, <3>1
    <2>5. wire[y] = Whole[o + (2 + z)]
      BY <1>1, <2>4 DEF OnTheWire
    <2>6. kind \in found
      BY <1>1 DEF InStep
    <2>7. Sent(kind, filter)
      BY <1>1, <2>6 DEF InOrder
    <2>8. 2 + z \in 1 .. 2 + e
      BY <1>8, <2>4
    <2>9. Whole[o + (2 + z)] = ListBytes(Sender, kind, filter[kind])[2 + z]
      BY <1>1, <1>2, <1>7, <2>7, <2>8, WholeBytes
    <2>10. ListBytes(Sender, kind, filter[kind])[2 + z] = c[z]
      BY <1>1, <1>2, <1>7, <2>4, ListSize, WholeBytes, Widths
    <2>11. QED
      BY <2>2, <2>3, <2>5, <2>9, <2>10
  <1>11. Remaining(size, n)
    BY <1>2, <1>4, <1>5, <1>7, <1>8, <1>9, <1>10 DEF Remaining
  <1>12. QED
    BY <1>11

\* It is not empty while there are filters to come, and then begins with one.
LEMMA NextParsed ==
  ASSUME FilterInv, PassInv, pc = "elements", Uncut,
         NEW fs, fs = filter[kind].filters, NEW n, n = Len(decoded[kind].filters)
  PROVE  /\ inner = <<>> => n = Len(fs)
         /\ inner # <<>> =>
              /\ n + 1 \in 1 .. Len(fs) /\ Parse(kind, inner) = {fs[n + 1]}
              /\ ByteSize(kind, fs[n + 1]) <= Len(inner)
  <1>1. PICK size, m : Remaining(size, m)
    BY InnerRemains
  <1>2. PICK c : c = ContentBytes(Sender, kind, filter[kind])
    OBVIOUS
  <1>3. /\ m = n /\ n \in 0 .. Len(fs) /\ Located(c, Sender, kind, fs, size)
        /\ Len(inner) = Len(c) - size[n]
        /\ \A x \in 1 .. Len(inner) : inner[x] = c[size[n] + x]
    BY <1>1, <1>2 DEF Remaining
  <1>4. /\ kind \in Kinds /\ inner \in Seq(Byte) /\ filter[kind] \in ListOf(kind)
        /\ AllFit(kind, fs)
    BY DEF FilterInv, Scalars, Streams, CallerInv, Typed, Lists
  <1>5. fs \in Seq(Elements(kind)) /\ Len(fs) \in Nat /\ n \in Nat
    BY <1>3, <1>4 DEF ListOf
  <1>6. PICK p, i, l, t : /\ p = n + 1 /\ i = Len(inner) /\ l = Len(c) /\ t = Len(fs)
    OBVIOUS
  <1>7. /\ i \in Nat /\ l \in Nat /\ t \in Nat /\ size[n] \in Nat
        /\ i = l - size[n] /\ size[t] = l /\ n <= t
    BY <1>3, <1>4, <1>5, <1>6 DEF Located, SizeSteps
  <1>8. CASE n = t
    <2>1. i = 0
      BY <1>7, <1>8
    <2>2. inner = <<>>
      BY <1>4, <1>6, <2>1, EmptySeq
    <2>3. QED
      BY <1>6, <1>8, <2>2
  <1>9. CASE n # t
    <2>1. p \in 1 .. t /\ p - 1 = n /\ p \in 0 .. t
      BY <1>5, <1>6, <1>7, <1>9
    <2>2. PICK f, b : f = fs[p] /\ b = ByteSize(kind, f)
      OBVIOUS
    <2>3. f \in Elements(kind) /\ Fitting(kind, f) /\ b \in Nat /\ b > 0
      BY <1>4, <1>5, <1>6, <2>1, <2>2, SizePositive DEF AllFit
    <2>4. size[p] = size[n] + b /\ size[p] <= l
      BY <1>3, <1>6, <2>1, <2>2 DEF Located, SizeSteps
    <2>5. b <= i /\ i # 0
      BY <1>7, <2>3, <2>4
    <2>6. inner # <<>>
      BY <1>4, <1>6, <2>5, EmptySeq
    <2>7. Begins(Sender, kind, f, inner)
      <3>1. ASSUME NEW x \in 1 .. b
            PROVE  inner[x] = ElementBytes(Sender, kind, f)[x]
        <4>1. x \in 1 .. i
          BY <1>7, <2>3, <2>5
        <4>2. c[size[p - 1] + x] = ElementBytes(Sender, kind, f)[x]
          BY <1>3, <1>6, <2>1, <2>2 DEF Located
        <4>3. QED
          BY <1>3, <1>6, <2>1, <4>1, <4>2
      <3>2. QED
        BY <1>6, <2>2, <2>5, <3>1 DEF Begins
    <2>8. Parse(kind, inner) = {f}
      BY <1>4, <2>3, <2>7, ElementParsed, Widths
    <2>9. QED
      BY <1>6, <2>1, <2>2, <2>5, <2>6, <2>8
  <1>10. QED
    BY <1>8, <1>9

LEMMA ReadElementPass ==
  ASSUME FilterInv, PassInv, ReadElement
  PROVE  PassInv'
  <1>1. /\ pc = "elements" /\ inner # <<>>
        /\ UNCHANGED <<pc, filter, wire, damage, kind, found, rounds>>
    BY DEF ReadElement
  <1>2. SUFFICES ASSUME Uncut
                 PROVE  (OnTheWire /\ InOrder /\ Copied /\ Copying)'
    BY <1>1 DEF PassInv, Uncut
  <1>3. OnTheWire /\ InOrder /\ Copied /\ Copying
    BY <1>1, <1>2 DEF PassInv, Parsing
  <1>4. PICK f \in Parse(kind, inner) :
           /\ \A j \in Kinds : j # kind => decoded'[j] = decoded[j]
           /\ decoded'[kind].flags = decoded[kind].flags
           /\ decoded'[kind].length = decoded[kind].length
           /\ decoded'[kind].filters = Append(decoded[kind].filters, f)
    BY ElementRead
  <1>5. PICK fs, gs, n : /\ fs = filter[kind].filters
                         /\ gs = decoded[kind].filters /\ n = Len(gs)
    OBVIOUS
  <1>6. n + 1 \in 1 .. Len(fs) /\ f = fs[n + 1]
    BY <1>1, <1>2, <1>4, <1>5, NextParsed
  <1>7. kind \in Kinds /\ gs \in Seq(Elements(kind)) /\ fs \in Seq(Elements(kind))
    BY <1>5 DEF FilterInv, Scalars, CallerInv, ParserInv, Typed, Lists, ListOf
  <1>8. PICK hs : hs = Append(gs, f)
    OBVIOUS
  <1>9. f \in Elements(kind)
    BY <1>6, <1>7
  <1>10. /\ Len(hs) = n + 1 /\ hs[n + 1] = f /\ n \in Nat
         /\ \A i \in 1 .. n : hs[i] = gs[i]
    BY <1>5, <1>7, <1>8, <1>9
  <1>11. OnTheWire' /\ InOrder'
    BY <1>1, <1>3 DEF OnTheWire, InOrder, Whole
  <1>12. Copied'
    <2>1. found \subseteq Kinds
      BY DEF FilterInv, Scalars
    <2>2. QED
      BY <1>1, <1>3, <1>4, <2>1 DEF Copied
  <1>13. Copying'
    <2>1. SameUpTo(n, gs, fs) /\ \A k \in found : kind \notin Earlier(k)
      BY <1>1, <1>3, <1>5 DEF Copying
    <2>2. SameUpTo(n + 1, hs, fs)
      <3>1. \A i \in 1 .. n + 1 : i \in 1 .. n \/ i = n + 1
        BY <1>10
      <3>2. QED
        BY <1>6, <1>10, <2>1, <3>1 DEF SameUpTo
    <2>3. n + 1 <= Len(fs)
      BY <1>6
    <2>4. decoded'[kind].filters = hs
      BY <1>4, <1>5, <1>8
    <2>5. /\ decoded'[kind].flags = filter[kind].flags
          /\ decoded'[kind].length = filter[kind].length
      BY <1>1, <1>3, <1>4 DEF Copying
    <2>6. QED
      BY <1>1, <1>5, <1>10, <2>1, <2>2, <2>3, <2>4, <2>5 DEF Copying
  <1>14. QED
    BY <1>11, <1>12, <1>13

LEMMA RejectPass ==
  ASSUME FilterInv, PassInv, RejectHeader \/ RejectElement
  PROVE  PassInv'
  <1>1. pc' = "rejected" /\ UNCHANGED <<filter, wire, damage, parserVars, rounds>>
    BY DEF RejectHeader, RejectElement
  <1>2. SUFFICES ASSUME damage = "none"
                 PROVE  FALSE
    BY <1>1 DEF PassInv, Parsing
  <1>3. Uncut
    BY <1>2 DEF Uncut
  <1>4. CASE RejectHeader
    <2>1. pc = "header" /\ Len(rest) >= 2 /\ \A k \in Kinds : ~Accepts(k)
      BY <1>4 DEF RejectHeader
    <2>2. CASE "key" \in found /\ Position = Len(Whole)
      <3>1. PICK m, n, r : m = Len(Whole) /\ n = Len(wire) /\ r = Len(rest)
        OBVIOUS
      <3>2. OnTheWire
        BY <1>3, <2>1 DEF PassInv, Parsing
      <3>3. m \in Nat /\ n \in Nat /\ r \in Nat /\ n - r = m /\ n = m /\ r >= 2
        BY <1>2, <2>1, <2>2, <3>1, <3>2, WholeBytes DEF OnTheWire, Position
      <3>4. QED
        BY <3>3
    <2>3. ASSUME NEW k \in Kinds, Upcoming(k)
          PROVE  FALSE
      <3>1. /\ Marker(k) = High(Receiver, rest[1]) /\ rest[2] = filter[k].length
            /\ filter[k].length <= Len(rest) - 2
        BY <1>2, <1>3, <2>1, <2>3, HeaderBytes, HeaderRoom
      <3>2. Accepts(k)
        BY <2>3, <3>1 DEF Accepts, Upcoming
      <3>3. QED
        BY <2>1, <3>2
    <2>4. QED
      BY <1>3, <2>1, <2>2, <2>3, HeaderPosition
  <1>5. CASE RejectElement
    <2>1. /\ pc = "elements" /\ inner # <<>>
          /\ \A f \in Parse(kind, inner) : ByteSize(kind, f) > Len(rest)
      BY <1>5 DEF RejectElement
    <2>2. PICK f : f \in Parse(kind, inner) /\ ByteSize(kind, f) <= Len(inner)
      BY <1>3, <2>1, NextParsed
    <2>3. /\ Len(inner) <= Len(rest) /\ Len(inner) \in Nat /\ Len(rest) \in Nat
          /\ kind \in Kinds /\ inner \in Seq(Byte)
      BY <2>1 DEF FilterInv, ParserInv, InStep, Streams, Scalars
    <2>4. ByteSize(kind, f) \in Nat
      BY <2>2, <2>3, ParsedElement, SizePositive
    <2>5. QED
      BY <2>1, <2>2, <2>3, <2>4
  <1>6. QED
    BY <1>4, <1>5

LEMMA EndListPass ==
  ASSUME FilterInv, PassInv, EndList
  PROVE  PassInv'
  <1>1. /\ pc = "elements" /\ pc' = "header" /\ inner = <<>>
        /\ UNCHANGED <<filter, wire, damage, rest, inner, kind, found, decoded, rounds>>
    BY DEF EndList, parserVars
  <1>2. SUFFICES ASSUME Uncut
                 PROVE  (OnTheWire /\ InOrder /\ Copied /\ Copying)'
    BY <1>1 DEF PassInv, Uncut
  <1>3. OnTheWire /\ InOrder /\ Copied /\ Copying
    BY <1>1, <1>2 DEF PassInv, Parsing
  <1>4. OnTheWire' /\ InOrder' /\ Copying'
    BY <1>1, <1>3 DEF OnTheWire, InOrder, Copying, Whole
  <1>5. decoded[kind] = filter[kind]
    <2>1. /\ kind \in Kinds /\ filter[kind] \in ListOf(kind)
          /\ decoded[kind] \in ListOf(kind)
      BY DEF FilterInv, Scalars, CallerInv, ParserInv, Typed, Lists
    <2>2. PICK fs, gs, n : /\ fs = filter[kind].filters
                           /\ gs = decoded[kind].filters /\ n = Len(gs)
      OBVIOUS
    <2>3. n = Len(fs) /\ SameUpTo(n, gs, fs)
      BY <1>1, <1>2, <1>3, <2>2, NextParsed DEF Copying
    <2>4. fs \in Seq(Elements(kind)) /\ gs \in Seq(Elements(kind))
      BY <2>1, <2>2 DEF ListOf
    <2>5. fs \in [1 .. n -> Elements(kind)] /\ gs \in [1 .. n -> Elements(kind)]
      <3>1. fs \in [1 .. Len(fs) -> Elements(kind)]
        BY <2>4, LenProperties
      <3>2. gs \in [1 .. Len(gs) -> Elements(kind)]
        BY <2>4, LenProperties
      <3>3. QED
        BY <2>2, <2>3, <3>1, <3>2
    <2>6. fs = [i \in 1 .. n |-> fs[i]] /\ gs = [i \in 1 .. n |-> gs[i]]
      BY <2>5
    <2>7. [i \in 1 .. n |-> fs[i]] = [i \in 1 .. n |-> gs[i]]
      BY <2>3 DEF SameUpTo
    <2>8. gs = fs
      BY <2>6, <2>7
    <2>9. PICK d, l : d = decoded[kind] /\ l = filter[kind]
      OBVIOUS
    <2>10. d.flags = l.flags /\ d.length = l.length /\ d.filters = l.filters
      BY <1>1, <1>3, <2>2, <2>8, <2>9 DEF Copying
    <2>11. /\ d = [flags |-> d.flags, length |-> d.length, filters |-> d.filters]
           /\ l = [flags |-> l.flags, length |-> l.length, filters |-> l.filters]
      BY <2>1, <2>9 DEF ListOf
    <2>12. d = l
      BY <2>10, <2>11
    <2>13. QED
      BY <2>9, <2>12
  <1>6. Copied'
    BY <1>1, <1>3, <1>5 DEF Copied
  <1>7. QED
    BY <1>4, <1>6

LEMMA FinishPass ==
  ASSUME FilterInv, PassInv, Finish
  PROVE  PassInv'
  <1>1. /\ pc = "header" /\ pc' \in {"parsed", "rejected"} /\ Len(rest) < 2
        /\ pc' = "parsed" <=> Len(decoded["key"].filters) = 1
        /\ UNCHANGED <<filter, wire, damage, rest, inner, kind, found, decoded, rounds>>
    BY DEF Finish, parserVars
  <1>2. "key" \in Kinds /\ Len(filter["key"].filters) = 1
    BY DEF Kinds, FilterInv, CallerInv
  <1>3. ASSUME Uncut
        PROVE  /\ (OnTheWire /\ InOrder /\ Copied /\ Copying)'
               /\ "key" \in found => decoded["key"] = filter["key"]
    <2>1. OnTheWire /\ InOrder /\ Copied
      BY <1>1, <1>3 DEF PassInv, Parsing
    <2>2. (OnTheWire /\ InOrder /\ Copied /\ Copying)'
      BY <1>1, <2>1 DEF OnTheWire, InOrder, Copied, Copying, Whole
    <2>3. QED
      BY <1>1, <2>1, <2>2 DEF Copied
  <1>4. ASSUME damage = "none"
        PROVE  pc' = "parsed"
    <2>1. Uncut
      BY <1>4 DEF Uncut
    <2>2. "key" \in found
      <3>1. ASSUME NEW k \in Kinds, Upcoming(k)
            PROVE  FALSE
        <4>1. Len(rest) >= 2
          BY <1>1, <1>4, <2>1, <3>1, HeaderRoom
        <4>2. QED
          BY <1>1, <4>1, WholeBytes
      <3>2. QED
        BY <1>1, <2>1, <3>1, HeaderPosition
    <2>3. QED
      BY <1>1, <1>2, <1>3, <2>1, <2>2
  <1>5. ASSUME damage = "truncated"
        PROVE  pc' # "parsed"
    <2>1. "key" \notin found
      BY <1>1, <1>5 DEF PassInv, Parsing, Uncut, OnTheWire
    <2>2. decoded["key"].filters = <<>>
      BY <1>2, <2>1, EmptyTyped DEF FilterInv, ParserInv
    <2>3. Len(decoded["key"].filters) # 1
      BY <2>2, EmptySeq
    <2>4. QED
      BY <1>1, <2>3
  <1>6. QED
    BY <1>1, <1>3, <1>4, <1>5 DEF PassInv, Uncut

LEMMA SendPass ==
  ASSUME FilterInv, PassInv, Send \/ SendOn
  PROVE  PassInv'
  <1>1. pc' = "sent" /\ UNCHANGED damage
    BY DEF Send, SendOn
  <1>2. wire' = Whole'
    <2>1. CASE Send
      BY <2>1 DEF Send, Whole
    <2>2. CASE SendOn
      <3>1. wire' = Encoding(Receiver, decoded) /\ filter' = decoded
        BY <2>2 DEF SendOn
      <3>2. Lists(decoded)
        BY DEF FilterInv, ParserInv, Typed
      <3>3. Encoding(Receiver, decoded) = Encoding(Sender, decoded)
        BY <3>2, SameEncoding, Widths
      <3>4. QED
        BY <3>1, <3>3 DEF Whole
    <2>3. QED
      BY <2>1, <2>2
  <1>3. QED
    BY <1>1, <1>2 DEF PassInv, Parsing

LEMMA ArrivePass ==
  ASSUME FilterInv, PassInv, Arrive
  PROVE  PassInv'
  <1>1. /\ pc = "sent" /\ pc' = "header" /\ found' = {} /\ UNCHANGED filter
    BY DEF Arrive
  <1>2. wire = Whole /\ wire \in Seq(Byte) /\ Whole' = Whole
    BY <1>1 DEF PassInv, FilterInv, Streams, Whole
  <1>3. ASSUME Uncut'
        PROVE  OnTheWire'
    <2>1. CASE damage' = "none"
      <3>1. wire' = wire
        BY <2>1 DEF Arrive
      <3>2. QED
        BY <1>2, <2>1, <3>1 DEF OnTheWire
    <2>2. CASE damage' = "truncated"
      <3>1. PICK n \in 0 .. Len(wire) - 1 : wire' = SubSeq(wire, 1, n)
        BY <2>2 DEF Arrive
      <3>2. PICK c, m : c = wire' /\ m = Len(wire)
        OBVIOUS
      <3>3. m \in Nat /\ n \in Nat /\ n < m
        BY <1>2, <3>1, <3>2
      <3>4. IsCut(c, wire, 0, n)
        BY <3>1, <3>2, <3>3 DEF IsCut
      <3>5. Len(c) = n /\ \A x \in 1 .. n : c[x] = wire[0 + x]
        BY <1>2, <3>4, Cut
      <3>6. \A x \in 1 .. n : c[x] = Whole[x]
        BY <1>2, <3>3, <3>5
      <3>7. QED
        BY <1>1, <1>2, <2>2, <3>2, <3>3, <3>5, <3>6 DEF OnTheWire
    <2>3. QED
      BY <1>3, <2>1, <2>2 DEF Uncut
  <1>4. InOrder' /\ Copied' /\ Copying'
    BY <1>1 DEF InOrder, Copied, Copying
  <1>5. QED
    BY <1>1, <1>3, <1>4 DEF PassInv

PassedInv == FilterInv /\ PassInv

LEMMA PassStep == PassedInv /\ [Next]_vars => PassedInv'
  <1> SUFFICES ASSUME FilterInv, PassInv, [Next]_vars
               PROVE  FilterInv' /\ PassInv'
    BY DEF PassedInv
  <1>1. FilterInv'
    BY FilterStep
  <1>2. CASE SetRaw \/ SetTitles \/ SetKey \/ SetFlags
    <2>1. pc = "build" /\ pc' = "build"
      BY <1>2 DEF SetRaw, SetTitles, SetKey, SetFlags
    <2>2. PassInv'
      BY <2>1 DEF PassInv, Parsing
    <2>3. QED
      BY <1>1, <2>2
  <1>3. CASE Send \/ SendOn
    BY <1>1, <1>3, SendPass
  <1>4. CASE Arrive
    BY <1>1, <1>4, ArrivePass
  <1>5. CASE Parser
    BY <1>1, <1>5, ReadHeaderPass, ReadElementPass, RejectPass, EndListPass, FinishPass
       DEF Parser
  <1>6. CASE UNCHANGED vars
    <2>1. PassInv'
      BY <1>6 DEF vars, parserVars, PassInv, Parsing, Uncut, OnTheWire, InOrder,
                  Copied, Copying, Whole
    <2>2. QED
      BY <1>1, <2>1
  <1>7. QED
    BY <1>2, <1>3, <1>4, <1>5, <1>6 DEF Next, Caller

LEMMA PassedInvariant == Spec => []PassedInv
  <1>1. Init => PassedInv
    BY FilterInit DEF Init, PassInv, Parsing, PassedInv
  <1>2. PassedInv /\ [Next]_vars => PassedInv'
    BY PassStep
  <1>3. QED
    BY <1>1, <1>2, PTL DEF Spec

LEMMA InvRoundTrip == PassedInv => RoundTrip
  <1> SUFFICES ASSUME FilterInv, PassInv, damage = "none"
               PROVE  pc # "rejected" /\ (pc = "parsed" => decoded = Normal(filter))
    BY DEF PassedInv, RoundTrip
  <1>1. pc # "rejected"
    BY DEF PassInv
  <1>2. ASSUME pc = "parsed"
        PROVE  decoded = Normal(filter)
    <2>1. InOrder /\ Copied /\ Typed(decoded) /\ Len(decoded["key"].filters) = 1
      BY <1>2 DEF PassInv, Parsing, Uncut, FilterInv, ParserInv
    <2>2. \A k \in Kinds : k \notin found => decoded[k] = EmptyList
      BY DEF FilterInv, ParserInv
    <2>3. "key" \in found
      <3>1. "key" \in Kinds
        BY DEF Kinds
      <3>2. QED
        BY <2>1, <2>2, <3>1, EmptyTyped, EmptySeq
    <2>4. ASSUME NEW k \in Kinds
          PROVE  decoded[k] = IF filter[k].filters = <<>> THEN EmptyList ELSE filter[k]
      <3>1. CASE k \in found
        <4>1. decoded[k] = filter[k]
          BY <1>2, <2>1, <3>1 DEF Copied
        <4>2. filter[k].filters # <<>>
          <5>1. CASE k = "key"
            <6>1. Len(filter[k].filters) = 1
              BY <2>1, <4>1, <5>1
            <6>2. QED
              BY <6>1, EmptySeq
          <5>2. CASE k # "key"
            BY <2>1, <3>1, <5>2 DEF InOrder, Sent
          <5>3. QED
            BY <5>1, <5>2
        <4>3. QED
          BY <4>1, <4>2
      <3>2. CASE k \notin found
        <4>1. decoded[k] = EmptyList
          BY <2>2, <3>2
        <4>2. ~Sent(k, filter)
          BY <2>1, <2>3, <3>2 DEF InOrder, Kinds, Earlier
        <4>3. QED
          BY <4>1, <4>2 DEF Sent
      <3>3. QED
        BY <3>1, <3>2
    <2>5. decoded = [k \in Kinds |-> decoded[k]]
      BY <2>1 DEF Typed
    <2>6. QED
      BY <2>4, <2>5 DEF Normal
  <1>3. QED
    BY <1>1, <1>2

\* A filter whose bytes arrive unharmed is accepted and is the one that was sent,
\* for every width, every pair of byte orders and every filter: the parser
\* (module_filter.cpp:32-63, 405-422) undoes the writer (105-120, 480-490).
THEOREM FilterRoundTrip == Spec => []RoundTrip
  BY PassedInvariant, InvRoundTrip, PTL

\* One that arrives cut short is rejected wherever the cut is: the key, without
\* which there is no filter, is the last to be written (module_filter.cpp:59, 116).
THEOREM FilterTruncatedRejected == Spec => []TruncatedRejected
  <1>1. PassedInv => TruncatedRejected
    BY DEF PassedInv, PassInv, TruncatedRejected
  <1>2. QED
    BY <1>1, PassedInvariant, PTL
=============================================================================
