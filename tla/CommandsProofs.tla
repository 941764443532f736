--------------------------- MODULE CommandsProofs ---------------------------
(* What Commands keeps for every set of messages, every number of devices    *)
(* and every choice of the kernel.                                           *)
EXTENDS Commands, FiniteSetTheorems, SequenceTheorems, WellFoundedInduction,
        TLAPS

-----------------------------------------------------------------------------
(* The invariant.                                                            *)

Structure == [index : 0 .. MaxDevices + 1, caps : SUBSET Requirements]

\* An answer is awaited exactly while the channel is busy, a list with a dump.
PhaseInv ==
  /\ phase = "busy" <=> pc = "receive"
  /\ pc = "receive" => asked = IF call \in Lists THEN "dump" ELSE "get"
  /\ received \in Seq(Nat)
  /\ pc \in {"socket", "request"} =>
       /\ at = 0 /\ fetched = <<>> /\ result = <<>> /\ ~ended
       /\ removed = 0 /\ added = 0 /\ ~burst /\ ~cut
  /\ pc # "done" => thrown = "none"

\* The newest device is in front.
ListInv ==
  /\ Len(devices) <= born
  /\ \A i \in 1 .. Len(devices) : devices[i] \in 1 .. born
  /\ \A i, j \in 1 .. Len(devices) : i < j => devices[i] > devices[j]
  /\ \A i \in 1 .. Len(fetched) : fetched[i] \in 1 .. born

\* What has been made of the messages so far is what they say; the structure
\* of a single device may still wait for its message.
SingleInv ==
  pc = "receive" /\ call \in Singles =>
    Len(result) = 1 /\ (received # <<>> => result[1].index \in 1 .. born)

EntriesInv ==
  pc # "socket" /\ call \in Lists =>
    \A i \in 1 .. Len(result) :
      /\ result[i].index \in 1 .. born
      /\ result[i].caps = shape[result[i].index].caps

\* Nothing below f has been fetched, and all that is still to be fetched is
\* below it, but for the last entry of the last piece when devices have come.
Fetched(f) ==
  /\ \A i \in 1 .. Len(fetched) : fetched[i] >= f
  /\ \A i \in 1 .. Len(result) : result[i].index >= f
  /\ \A i \in 1 .. Len(devices) :
       /\ i >= at + added => devices[i] <= f
       /\ i > at + added => devices[i] < f

OrderInv ==
  pc = "receive" /\ call \in Lists /\ ~burst =>
    /\ IF at = 0 THEN fetched = <<>> /\ result = <<>>
                 ELSE \E f \in Int : Fetched(f)
    /\ \A i, j \in 1 .. Len(fetched) : i < j => fetched[i] >= fetched[j]
    /\ \A i, j \in 1 .. Len(result) :
         i < j => result[i].index > result[j].index
    /\ \A i \in 1 .. Len(result), j \in 1 .. Len(fetched) :
         result[i].index >= fetched[j]

\* The devices that the dump has passed without giving them to the socket:
\* each took the place of one that was removed.
Overlooked ==
  {d \in stayed : /\ Has(d, IndexAttr)
                  /\ d \notin Listed \cup ToSet(fetched)
                  /\ \E i \in 1 .. Len(devices) : i <= at /\ devices[i] = d}

MissingInv ==
  pc = "receive" /\ call \in Lists =>
    /\ stayed \subseteq ToSet(devices)
    /\ Cardinality(Overlooked) <= removed
    /\ ended /\ granted /\ ~cut => at >= Len(devices)

CommandsInv ==
  /\ TypeOK /\ PhaseInv /\ ListInv /\ SingleInv /\ EntriesInv
  /\ OrderInv /\ MissingInv
  /\ MissingBounded /\ NoRepeats /\ OnlySupported /\ Described

-----------------------------------------------------------------------------
(* Sequences, and what is left of a list of radios.                          *)

LEMMA LeastNat ==
  ASSUME NEW T \in SUBSET Nat, T # {}
  PROVE  \E n \in T : \A m \in T : n <= m
  <1>1. IsWellFoundedOn(OpToRel(<, Nat), Nat)
    BY NatLessThanWellFounded
  <1>2. \E x \in T : \A y \in T : ~(<<y, x>> \in OpToRel(<, Nat))
    BY <1>1, WFMin
  <1>3. PICK x \in T : \A y \in T : ~(<<y, x>> \in OpToRel(<, Nat))
    BY <1>2
  <1>4. ASSUME NEW y \in T
        PROVE  x <= y
    <2>1. x \in Nat /\ y \in Nat /\ <<y, x>> \in Nat \X Nat
      OBVIOUS
    <2>2. ASSUME y < x
          PROVE  <<y, x>> \in OpToRel(<, Nat)
      BY <2>1, <2>2 DEF OpToRel
    <2>3. ~(y < x)
      BY <1>3, <2>2
    <2>4. QED
      BY <2>1, <2>3
  <1>5. QED
    BY <1>4

LEMMA RemoveAtProperties ==
  ASSUME NEW S, NEW s \in Seq(S), NEW k \in 1 .. Len(s)
  PROVE  /\ RemoveAt(s, k) \in Seq(S)
         /\ Len(RemoveAt(s, k)) = Len(s) - 1
         /\ \A i \in 1 .. Len(s) - 1 :
              RemoveAt(s, k)[i] = IF i < k THEN s[i] ELSE s[i + 1]
  <1>1. Len(s) \in Nat /\ k \in Nat
    OBVIOUS
  <1>2. /\ SubSeq(s, 1, k - 1) \in Seq(S)
        /\ SubSeq(s, k + 1, Len(s)) \in Seq(S)
        /\ Len(SubSeq(s, 1, k - 1)) = k - 1
        /\ Len(SubSeq(s, k + 1, Len(s))) = Len(s) - k
    BY <1>1
  <1>3. /\ \A i \in 1 .. k - 1 : SubSeq(s, 1, k - 1)[i] = s[i]
        /\ \A i \in 1 .. Len(s) - k :
             SubSeq(s, k + 1, Len(s))[i] = s[i + k]
    BY <1>1
  <1>4. PICK a, b : a = SubSeq(s, 1, k - 1) /\ b = SubSeq(s, k + 1, Len(s))
    OBVIOUS
  <1>5. RemoveAt(s, k) = a \o b
    BY <1>4 DEF RemoveAt
  <1>6. /\ a \in Seq(S) /\ b \in Seq(S)
        /\ Len(a) = k - 1 /\ Len(b) = Len(s) - k
        /\ \A i \in 1 .. k - 1 : a[i] = s[i]
        /\ \A i \in 1 .. Len(s) - k : b[i] = s[i + k]
    BY <1>2, <1>3, <1>4
  <1>7. /\ a \o b \in Seq(S) /\ Len(a \o b) = Len(s) - 1
        /\ \A i \in 1 .. Len(s) - 1 :
             (a \o b)[i] = IF i <= k - 1 THEN a[i] ELSE b[i - (k - 1)]
    <2>1. /\ a \o b \in Seq(S) /\ Len(a \o b) = Len(a) + Len(b)
          /\ \A i \in 1 .. Len(a) + Len(b) :
               (a \o b)[i] = IF i <= Len(a) THEN a[i] ELSE b[i - Len(a)]
      BY <1>6, ConcatProperties
    <2>2. Len(a) + Len(b) = Len(s) - 1
      BY <1>1, <1>6
    <2>3. QED
      BY <1>6, <2>1, <2>2
  <1>8. ASSUME NEW i \in 1 .. Len(s) - 1
        PROVE  (a \o b)[i] = IF i < k THEN s[i] ELSE s[i + 1]
    <2>1. CASE i < k
      BY <1>1, <1>6, <1>7, <2>1
    <2>2. CASE ~(i < k)
      <3>1. /\ i - (k - 1) \in 1 .. Len(s) - k /\ ~(i <= k - 1)
            /\ i - (k - 1) + k = i + 1
        BY <1>1, <2>2
      <3>2. QED
        BY <1>6, <1>7, <2>2, <3>1
    <2>3. QED
      BY <2>1, <2>2
  <1>9. QED
    BY <1>5, <1>7, <1>8

LEMMA InFront ==
  ASSUME NEW S, NEW s \in Seq(S), NEW e \in S
  PROVE  /\ <<e>> \o s \in Seq(S)
         /\ Len(<<e>> \o s) = Len(s) + 1
         /\ (<<e>> \o s)[1] = e
         /\ \A i \in 2 .. Len(s) + 1 : (<<e>> \o s)[i] = s[i - 1]
  OBVIOUS

\* The recursion that defines SupportedOf.
LeftOf(r, left, k) ==
  left = [n \in 0 .. k |->
            IF n = 0 THEN <<>>
            ELSE IF Supported(r[n].caps) THEN Append(left[n - 1], r[n])
            ELSE left[n - 1]]

LEMMA LeftOfExists ==
  ASSUME NEW r, NEW k \in Nat
  PROVE  \E left : LeftOf(r, left, k)
  <1>1. PICK T : T = {n \in Nat : ~\E left : LeftOf(r, left, n)}
    OBVIOUS
  <1>2. SUFFICES ASSUME T # {}
                 PROVE  FALSE
    BY <1>1
  <1>3. PICK n \in T : \A m \in T : n <= m
    BY <1>1, <1>2, LeastNat
  <1>4. CASE n = 0
    <2>1. LeftOf(r, [i \in 0 .. 0 |-> <<>>], 0)
      BY DEF LeftOf
    <2>2. QED
      BY <1>1, <1>4, <2>1
  <1>5. CASE n # 0
    <2>1. n \in Nat /\ n - 1 \in Nat /\ n - 1 \notin T
      BY <1>1, <1>3, <1>5
    <2>2. PICK g : LeftOf(r, g, n - 1)
      BY <1>1, <2>1
    <2>3. PICK h : h = [i \in 0 .. n |->
                          IF i # n THEN g[i]
                          ELSE IF Supported(r[n].caps)
                               THEN Append(g[n - 1], r[n]) ELSE g[n - 1]]
      OBVIOUS
    <2>4. ASSUME NEW i \in 0 .. n
          PROVE  h[i] = IF i = 0 THEN <<>>
                        ELSE IF Supported(r[i].caps)
                             THEN Append(h[i - 1], r[i]) ELSE h[i - 1]
      <3>1. CASE i = n
        <4>1. h[n] = IF Supported(r[n].caps)
                     THEN Append(g[n - 1], r[n]) ELSE g[n - 1]
          BY <2>1, <2>3
        <4>2. h[n - 1] = g[n - 1]
          BY <2>1, <2>3
        <4>3. QED
          BY <1>5, <3>1, <4>1, <4>2
      <3>2. CASE i # n
        <4>1. i \in 0 .. n - 1
          BY <2>1, <3>2
        <4>2. h[i] = g[i] /\ (i # 0 => h[i - 1] = g[i - 1])
          BY <2>1, <2>3, <3>2, <4>1
        <4>3. g[i] = IF i = 0 THEN <<>>
                     ELSE IF Supported(r[i].caps)
                          THEN Append(g[i - 1], r[i]) ELSE g[i - 1]
          BY <2>2, <4>1 DEF LeftOf
        <4>4. QED
          BY <4>2, <4>3
      <3>3. QED
        BY <3>1, <3>2
    <2>5. h = [i \in 0 .. n |-> h[i]]
      BY <2>3
    <2>6. LeftOf(r, h, n)
      BY <2>4, <2>5 DEF LeftOf
    <2>7. QED
      BY <1>1, <2>6
  <1>6. QED
    BY <1>4, <1>5

LEMMA SupportedOfStep ==
  ASSUME NEW S, NEW r \in Seq(S)
  PROVE  /\ SupportedOf(r)[0] = <<>>
         /\ \A n \in 1 .. Len(r) :
              SupportedOf(r)[n] =
                IF Supported(r[n].caps)
                THEN Append(SupportedOf(r)[n - 1], r[n])
                ELSE SupportedOf(r)[n - 1]
  <1>1. Len(r) \in Nat
    OBVIOUS
  <1>2. SupportedOf(r) = CHOOSE left : LeftOf(r, left, Len(r))
    BY DEF SupportedOf, LeftOf
  <1>3. LeftOf(r, SupportedOf(r), Len(r))
    BY <1>1, <1>2, LeftOfExists
  <1>4. PICK f : f = SupportedOf(r)
    OBVIOUS
  <1>5. \A n \in 0 .. Len(r) :
          f[n] = IF n = 0 THEN <<>>
                 ELSE IF Supported(r[n].caps) THEN Append(f[n - 1], r[n])
                 ELSE f[n - 1]
    BY <1>3, <1>4 DEF LeftOf
  <1>6. 0 \in 0 .. Len(r) /\ \A n \in 1 .. Len(r) : n \in 0 .. Len(r) /\ n # 0
    BY <1>1
  <1>7. f[0] = <<>>
    BY <1>5, <1>6
  <1>8. \A n \in 1 .. Len(r) :
          f[n] = IF Supported(r[n].caps) THEN Append(f[n - 1], r[n])
                 ELSE f[n - 1]
    BY <1>5, <1>6
  <1>9. QED
    BY <1>4, <1>7, <1>8

\* k holds, in their order, those of the first n structures of r that are of
\* a supported radio.
Supports(r, k, n) ==
  /\ k \in Seq(Structure)
  /\ \A i \in 1 .. Len(k) :
       \E j \in 1 .. n : k[i] = r[j] /\ Supported(r[j].caps)
  /\ \A j \in 1 .. n :
       Supported(r[j].caps) => \E i \in 1 .. Len(k) : k[i] = r[j]
  /\ (\A i, j \in 1 .. Len(r) : i < j => r[i].index > r[j].index) =>
       \A i, j \in 1 .. Len(k) : i < j => k[i].index > k[j].index

LEMMA SupportsNext ==
  ASSUME NEW r \in Seq(Structure), NEW k, NEW n \in 1 .. Len(r),
         Supports(r, k, n - 1)
  PROVE  Supports(r, IF Supported(r[n].caps) THEN Append(k, r[n]) ELSE k, n)
  <1>1. /\ k \in Seq(Structure) /\ r[n] \in Structure /\ n \in Nat /\ n >= 1
        /\ Len(k) \in Nat /\ Len(r) \in Nat
    BY DEF Supports
  <1>2. CASE ~Supported(r[n].caps)
    <2>1. \A j \in 1 .. n : j \in 1 .. n - 1 \/ j = n
      BY <1>1
    <2>2. \A j \in 1 .. n - 1 : j \in 1 .. n
      BY <1>1
    <2>3. QED
      BY <1>2, <2>1, <2>2 DEF Supports
  <1>3. CASE Supported(r[n].caps)
    <2>1. PICK m : m = Append(k, r[n])
      OBVIOUS
    <2>2. /\ m \in Seq(Structure) /\ Len(m) = Len(k) + 1
          /\ m[Len(k) + 1] = r[n]
          /\ \A i \in 1 .. Len(k) : m[i] = k[i]
      BY <1>1, <2>1
    <2>3. \A i \in 1 .. Len(m) : i \in 1 .. Len(k) \/ i = Len(k) + 1
      BY <1>1, <2>2
    <2>4. ASSUME NEW i \in 1 .. Len(m)
          PROVE  \E j \in 1 .. n : m[i] = r[j] /\ Supported(r[j].caps)
      <3>1. CASE i = Len(k) + 1
        <4>1. n \in 1 .. n
          BY <1>1
        <4>2. QED
          BY <1>3, <2>2, <3>1, <4>1
      <3>2. CASE i \in 1 .. Len(k)
        <4>1. PICK j \in 1 .. n - 1 : k[i] = r[j] /\ Supported(r[j].caps)
          BY <3>2 DEF Supports
        <4>2. j \in 1 .. n
          BY <1>1
        <4>3. QED
          BY <2>2, <3>2, <4>1, <4>2
      <3>3. QED
        BY <2>3, <3>1, <3>2
    <2>5. ASSUME NEW j \in 1 .. n, Supported(r[j].caps)
          PROVE  \E i \in 1 .. Len(m) : m[i] = r[j]
      <3>1. CASE j = n
        <4>1. Len(k) + 1 \in 1 .. Len(m)
          BY <1>1, <2>2
        <4>2. QED
          BY <2>2, <3>1, <4>1
      <3>2. CASE j # n
        <4>1. j \in 1 .. n - 1
          BY <1>1, <3>2
        <4>2. PICK i \in 1 .. Len(k) : k[i] = r[j]
          BY <2>5, <4>1 DEF Supports
        <4>3. i \in 1 .. Len(m)
          BY <1>1, <2>2
        <4>4. QED
          BY <2>2, <4>2, <4>3
      <3>3. QED
        BY <3>1, <3>2
    <2>6. ASSUME \A i, j \in 1 .. Len(r) : i < j => r[i].index > r[j].index,
                 NEW i \in 1 .. Len(m), NEW j \in 1 .. Len(m), i < j
          PROVE  m[i].index > m[j].index
      <3>1. i \in 1 .. Len(k)
        BY <1>1, <2>2, <2>6
      <3>2. CASE j = Len(k) + 1
        <4>1. PICK q \in 1 .. n - 1 : k[i] = r[q]
          BY <3>1 DEF Supports
        <4>2. q \in 1 .. Len(r) /\ q < n
          BY <1>1
        <4>3. r[q].index > r[n].index
          BY <2>6, <4>2
        <4>4. QED
          BY <2>2, <3>1, <3>2, <4>1, <4>3
      <3>3. CASE j \in 1 .. Len(k)
        <4>1. k[i].index > k[j].index
          BY <2>6, <3>1, <3>3 DEF Supports
        <4>2. QED
          BY <2>2, <3>1, <3>3, <4>1
      <3>4. QED
        BY <2>3, <3>2, <3>3
    <2>7. Supports(r, m, n)
      BY <2>2, <2>4, <2>5, <2>6 DEF Supports
    <2>8. QED
      BY <1>3, <2>1, <2>7
  <1>4. QED
    BY <1>2, <1>3

LEMMA SupportedOfProperties ==
  ASSUME NEW r \in Seq(Structure)
  PROVE  Supports(r, SupportedOf(r)[Len(r)], Len(r))
  <1>1. Len(r) \in Nat
    OBVIOUS
  <1>2. PICK T : T = {n \in Nat : n <= Len(r)
                                  /\ ~Supports(r, SupportedOf(r)[n], n)}
    OBVIOUS
  <1>3. SUFFICES ASSUME T # {}
                 PROVE  FALSE
    BY <1>1, <1>2
  <1>4. PICK n \in T : \A m \in T : n <= m
    BY <1>2, <1>3, LeastNat
  <1>5. CASE n = 0
    <2>1. SupportedOf(r)[0] = <<>>
      BY SupportedOfStep
    <2>2. Supports(r, <<>>, 0)
      BY DEF Supports
    <2>3. QED
      BY <1>2, <1>5, <2>1, <2>2
  <1>6. CASE n # 0
    <2>1. n \in 1 .. Len(r) /\ n - 1 \in Nat /\ n - 1 <= Len(r)
          /\ n - 1 \notin T
      BY <1>1, <1>2, <1>4, <1>6
    <2>2. Supports(r, SupportedOf(r)[n - 1], n - 1)
      BY <1>2, <2>1
    <2>3. Supports(r, SupportedOf(r)[n], n)
      BY <2>1, <2>2, SupportedOfStep, SupportsNext
    <2>4. QED
      BY <1>2, <2>3
  <1>7. QED
    BY <1>5, <1>6

-----------------------------------------------------------------------------
(* Steps that end the call, or do not touch what it has.                     *)

\* What a function that has not returned has to keep.
GoingOn ==
  /\ TypeOK /\ PhaseInv /\ ListInv /\ SingleInv /\ EntriesInv
  /\ OrderInv /\ MissingInv

LEMMA NotReturned ==
  ASSUME GoingOn', ~Returned'
  PROVE  CommandsInv'
  BY DEF GoingOn, CommandsInv, MissingBounded, NoRepeats, OnlySupported,
         Described

LEMMA CommandsInvInit == Init => CommandsInv
  <1> SUFFICES ASSUME Init
               PROVE  CommandsInv
    OBVIOUS
  <1>1. /\ born \in Nat /\ born <= MaxDevices /\ MaxDevices \in Nat
    BY CommandsAssumption DEF Init
  <1>2. /\ devices = [i \in 1 .. born |-> born + 1 - i]
        /\ shape \in [1 .. born -> Shapes]
    BY DEF Init
  <1>3. /\ shape \in Seq(Shapes) /\ Len(shape) = born
    BY <1>1, <1>2
  <1>4. /\ devices \in Seq(Devices) /\ Len(devices) = born
    <2>1. \A i \in 1 .. born : born + 1 - i \in 1 .. MaxDevices
      BY <1>1
    <2>2. devices \in [1 .. born -> Devices]
      BY <1>2, <2>1 DEF Devices
    <2>3. QED
      BY <1>1, <2>2
  <1>5. /\ phase = "idle" /\ received = <<>> /\ pc = "socket"
        /\ at = 0 /\ fetched = <<>> /\ ended = FALSE
        /\ call \in Lists \cup Singles
        /\ result = <<>> /\ thrown = "none" /\ code = 0
        /\ stayed = {} /\ removed = 0 /\ added = 0 /\ burst = FALSE
        /\ cut = FALSE
    BY DEF Init, Channel!Init
  <1>6. TypeOK
    <2>1. /\ ended \in BOOLEAN /\ burst \in BOOLEAN /\ cut \in BOOLEAN
          /\ stayed \subseteq Devices
      BY <1>5
    <2>2. /\ fetched \in Seq(Devices)
          /\ result \in Seq([index : 0 .. MaxDevices + 1,
                             caps : SUBSET Requirements])
      BY <1>5
    <2>3. /\ at \in 0 .. MaxDevices /\ removed \in Nat /\ added \in Nat
          /\ code \in Nat /\ born \in 0 .. MaxDevices
      BY <1>1, <1>5
    <2>4. QED
      BY <1>3, <1>4, <1>5, <2>1, <2>2, <2>3 DEF TypeOK
  <1>7. PhaseInv
    BY <1>5 DEF PhaseInv
  <1>8. ListInv
    <2>1. \A i \in 1 .. born : devices[i] = born + 1 - i
      BY <1>2
    <2>2. QED
      BY <1>1, <1>4, <1>5, <2>1 DEF ListInv
  <1>9. SingleInv /\ EntriesInv /\ OrderInv /\ MissingInv
    BY <1>5 DEF SingleInv, EntriesInv, OrderInv, MissingInv
  <1>10. ~Returned
    BY <1>5 DEF Returned
  <1>11. QED
    BY <1>6, <1>7, <1>8, <1>9, <1>10 DEF CommandsInv, MissingBounded,
       NoRepeats, OnlySupported, Described

LEMMA ThrownStep ==
  ASSUME CommandsInv, NEW what, NEW e \in Int, e <= 0, Throw(what, e),
         what \in {"bad_alloc", "connect", "resolve", "send", "receive",
                   "invalid_argument"},
         UNCHANGED <<listVars, answerVars, history>>,
         phase' # "busy", received' \in Seq(Nat)
  PROVE  CommandsInv'
  <1>1. /\ pc' = "done" /\ thrown' = what /\ code' = Code(e)
        /\ result' = <<>> /\ call' = call
    BY DEF Throw
  <1>2. Code(e) \in Nat
    BY DEF Code
  <1>3. UNCHANGED <<devices, born, shape, at, fetched, ended, stayed, removed,
                    added, burst, cut>>
    BY DEF listVars, answerVars, history
  <1>4. TypeOK /\ ListInv
    BY DEF CommandsInv
  <1>5. TypeOK'
    BY <1>1, <1>2, <1>3, <1>4 DEF TypeOK
  <1>6. ListInv'
    BY <1>3, <1>4 DEF ListInv
  <1>7. PhaseInv'
    BY <1>1 DEF PhaseInv
  <1>8. SingleInv' /\ EntriesInv' /\ OrderInv' /\ MissingInv'
    BY <1>1 DEF SingleInv, EntriesInv, OrderInv, MissingInv
  <1>9. ~Returned'
    BY <1>1 DEF Returned
  <1>10. QED
    BY <1>5, <1>6, <1>7, <1>8, <1>9, NotReturned DEF GoingOn

LEMMA ThrowingSteps ==
  ASSUME CommandsInv,
         SocketFails \/ RequestFails \/ HandleThrows \/ Refused
  PROVE  CommandsInv'
  <1>0. /\ phase = "busy" <=> pc = "receive"
        /\ received \in Seq(Nat)
    BY DEF CommandsInv, PhaseInv
  <1>1. CASE SocketFails
    <2>1. /\ UNCHANGED <<listVars, answerVars, history>> /\ pc = "socket"
          /\ UNCHANGED channelVars
      BY <1>1 DEF SocketFails
    <2>2. phase' # "busy" /\ received' \in Seq(Nat)
      BY <1>0, <2>1 DEF channelVars
    <2>3. PICK what \in {"bad_alloc", "connect", "resolve"}, e \in Int :
            e <= 0 /\ Throw(what, e)
      BY <1>1, CommandsAssumption DEF SocketFails
    <2>4. QED
      BY <2>1, <2>2, <2>3, ThrownStep
  <1>2. CASE RequestFails
    <2>1. /\ UNCHANGED <<listVars, answerVars, history>> /\ phase' = "broken"
          /\ received' = <<>>
      BY <1>2 DEF RequestFails, Channel!Break
    <2>2. PICK e \in Int : e <= 0 /\ Throw("send", e)
      BY <1>2, CommandsAssumption DEF RequestFails
    <2>3. QED
      BY <2>1, <2>2, ThrownStep
  <1>3. CASE HandleThrows
    <2>1. /\ UNCHANGED <<listVars, answerVars, history>> /\ phase' = "broken"
          /\ received' = <<>> /\ Throw("invalid_argument", 0)
      BY <1>3 DEF HandleThrows, Channel!Break
    <2>2. QED
      BY <2>1, ThrownStep
  <1>4. CASE Refused
    <2>1. /\ UNCHANGED <<listVars, answerVars, history>> /\ phase' = "idle"
          /\ received' = received
      BY <1>4 DEF Refused, Channel!Conclude
    <2>2. PICK e \in Int : e <= 0 /\ Throw("receive", e)
      BY <1>4, CommandsAssumption DEF Refused
    <2>3. QED
      BY <1>0, <2>1, <2>2, ThrownStep
  <1>5. QED
    BY <1>1, <1>2, <1>3, <1>4

LEMMA OpenSocketStep ==
  ASSUME CommandsInv, OpenSocket
  PROVE  CommandsInv'
  <1>1. /\ pc = "socket" /\ pc' = "request"
        /\ UNCHANGED <<phase, asked, granted, received, verdict, devices, born,
                       shape, at, fetched, ended, call, result, thrown, code,
                       stayed, removed, added, burst, cut>>
    BY DEF OpenSocket, channelVars, listVars, answerVars, history
  <1>2. TypeOK /\ PhaseInv /\ ListInv
    BY DEF CommandsInv
  <1>3. TypeOK'
    BY <1>1, <1>2 DEF TypeOK
  <1>4. PhaseInv' /\ ListInv'
    BY <1>1, <1>2 DEF PhaseInv, ListInv
  <1>5. result' = <<>>
    BY <1>1, <1>2 DEF PhaseInv
  <1>6. SingleInv' /\ EntriesInv' /\ OrderInv' /\ MissingInv' /\ ~Returned'
    BY <1>1, <1>5 DEF SingleInv, EntriesInv, OrderInv, MissingInv, Returned
  <1>7. QED
    BY <1>3, <1>4, <1>6, NotReturned DEF GoingOn

LEMMA StutterStep ==
  ASSUME CommandsInv, UNCHANGED vars
  PROVE  CommandsInv'
  <1>1. UNCHANGED <<phase, asked, granted, received, verdict, devices, born,
                    shape, at, fetched, ended, pc, call, result, thrown, code,
                    stayed, removed, added, burst, cut>>
    BY DEF vars, channelVars, listVars, answerVars, callVars, history
  <1>2. TypeOK' /\ PhaseInv' /\ ListInv' /\ SingleInv' /\ EntriesInv'
    BY <1>1 DEF CommandsInv, TypeOK, PhaseInv, ListInv, SingleInv, EntriesInv
  <1>3. /\ \A d, a : Has(d, a)' = Has(d, a)
        /\ IndexAttr' = IndexAttr /\ Listed' = Listed
    BY <1>1 DEF Has, IndexAttr, Listed
  <1>4. Overlooked' = Overlooked /\ Expected' = Expected
    BY <1>1, <1>3 DEF Overlooked, Expected
  <1>5. OrderInv' /\ MissingInv'
    BY <1>1, <1>4 DEF CommandsInv, OrderInv, Fetched, MissingInv
  <1>6. MissingBounded' /\ NoRepeats' /\ OnlySupported' /\ Described'
    BY <1>1, <1>3, <1>4
       DEF CommandsInv, MissingBounded, NoRepeats, OnlySupported, Described,
           Returned
  <1>7. QED
    BY <1>2, <1>5, <1>6 DEF CommandsInv

-----------------------------------------------------------------------------
(* The requests.                                                             *)

\* A device more: those there are keep their ids and their messages.
LEMMA DeviceAdded ==
  ASSUME TypeOK, ListInv, NewDevice
  PROVE  /\ born' = born + 1 /\ born' \in 1 .. MaxDevices
         /\ devices' \in Seq(Devices) /\ Len(devices') = Len(devices) + 1
         /\ devices'[1] = born'
         /\ \A i \in 2 .. Len(devices) + 1 : devices'[i] = devices[i - 1]
         /\ shape' \in Seq(Shapes) /\ Len(shape') = born'
         /\ \A d \in 1 .. born : shape'[d] = shape[d]
         /\ Len(devices') <= born'
         /\ \A i \in 1 .. Len(devices') : devices'[i] \in 1 .. born'
         /\ \A i, j \in 1 .. Len(devices') : i < j => devices'[i] > devices'[j]
  <1>1. /\ born < MaxDevices /\ born' = born + 1
        /\ devices' = <<born'>> \o devices
        /\ \E t \in Shapes : shape' = Append(shape, t)
    BY DEF NewDevice
  <1>2. /\ born \in Nat /\ MaxDevices \in Nat /\ devices \in Seq(Devices)
        /\ shape \in Seq(Shapes) /\ Len(shape) = born
        /\ Len(devices) \in Nat
    BY CommandsAssumption DEF TypeOK
  <1>3. born' \in 1 .. MaxDevices
    BY <1>1, <1>2
  <1>4. /\ devices' \in Seq(Devices) /\ Len(devices') = Len(devices) + 1
        /\ devices'[1] = born'
        /\ \A i \in 2 .. Len(devices) + 1 : devices'[i] = devices[i - 1]
    BY <1>1, <1>2, <1>3, InFront DEF Devices
  <1>5. /\ shape' \in Seq(Shapes) /\ Len(shape') = born'
        /\ \A d \in 1 .. born : shape'[d] = shape[d]
    BY <1>1, <1>2
  <1>6. /\ Len(devices) <= born
        /\ \A i \in 1 .. Len(devices) : devices[i] \in 1 .. born
        /\ \A i, j \in 1 .. Len(devices) : i < j => devices[i] > devices[j]
    BY DEF ListInv
  <1>7. \A i \in 1 .. Len(devices') :
          i = 1 \/ (/\ i \in 2 .. Len(devices) + 1
                    /\ i - 1 \in 1 .. Len(devices))
    BY <1>2, <1>4
  <1>8. ASSUME NEW i \in 1 .. Len(devices'), NEW j \in 1 .. Len(devices'),
               i < j
        PROVE  devices'[i] > devices'[j]
    <2>1. /\ j \in 2 .. Len(devices) + 1 /\ j - 1 \in 1 .. Len(devices)
          /\ devices'[j] = devices[j - 1]
      BY <1>4, <1>7, <1>8
    <2>2. CASE i = 1
      BY <1>1, <1>2, <1>4, <1>6, <2>1, <2>2
    <2>3. CASE i # 1
      <3>1. /\ i - 1 \in 1 .. Len(devices) /\ devices'[i] = devices[i - 1]
        BY <1>4, <1>7, <2>3
      <3>2. i - 1 < j - 1
        BY <1>8
      <3>3. QED
        BY <1>6, <2>1, <3>1, <3>2
    <2>4. QED
      BY <2>2, <2>3
  <1>9. ASSUME NEW i \in 1 .. Len(devices')
        PROVE  devices'[i] \in 1 .. born'
    <2>1. CASE i = 1
      BY <1>1, <1>2, <1>4, <2>1
    <2>2. CASE i # 1
      <3>1. devices'[i] = devices[i - 1] /\ devices[i - 1] \in 1 .. born
        BY <1>4, <1>6, <1>7, <2>2
      <3>2. QED
        BY <1>1, <1>2, <3>1
    <2>3. QED
      BY <2>1, <2>2
  <1>10. QED
    BY <1>1, <1>2, <1>3, <1>4, <1>5, <1>6, <1>8, <1>9

LEMMA Asked ==
  ASSUME Channel!Ask
  PROVE  phase' = "busy" /\ received' = <<>> /\ received' \in Seq(Nat)
  BY DEF Channel!Ask

LEMMA RequestListStep ==
  ASSUME CommandsInv, RequestList
  PROVE  CommandsInv'
  <1>1. /\ pc = "request" /\ pc' = "receive" /\ call \in Lists
        /\ asked' = "dump" /\ stayed' = ToSet(devices)
        /\ phase' = "busy" /\ received' \in Seq(Nat)
        /\ UNCHANGED <<devices, born, shape, at, fetched, ended, call, result,
                       thrown, code, removed, added, burst, cut>>
    BY Asked DEF RequestList, listVars, answerVars
  <1>2. TypeOK /\ PhaseInv /\ ListInv
    BY DEF CommandsInv
  <1>3. /\ at = 0 /\ fetched = <<>> /\ result = <<>> /\ ~ended /\ removed = 0
        /\ thrown = "none"
    BY <1>1, <1>2 DEF PhaseInv
  <1>4. ToSet(devices) \subseteq Devices
    BY <1>2 DEF TypeOK, ToSet
  <1>5. TypeOK'
    BY <1>1, <1>2, <1>4 DEF TypeOK
  <1>6. PhaseInv' /\ ListInv'
    BY <1>1, <1>2, <1>3 DEF PhaseInv, ListInv
  <1>7. SingleInv' /\ EntriesInv' /\ OrderInv'
    BY <1>1, <1>3 DEF SingleInv, EntriesInv, OrderInv, Lists, Singles
  <1>8. MissingInv'
    <2>1. Overlooked' = {}
      <3>1. \A i \in 1 .. Len(devices) : ~(i <= at)
        BY <1>3
      <3>2. QED
        BY <1>1, <3>1 DEF Overlooked
    <2>2. Cardinality(Overlooked') <= removed'
      BY <1>1, <1>3, <2>1, FS_EmptySet
    <2>3. QED
      BY <1>1, <1>3, <2>2 DEF MissingInv
  <1>9. ~Returned'
    BY <1>1 DEF Returned
  <1>10. QED
    BY <1>5, <1>6, <1>7, <1>8, <1>9, NotReturned DEF GoingOn

LEMMA RequestSingleStep ==
  ASSUME CommandsInv, RequestOne \/ RequestNew
  PROVE  CommandsInv'
  <1>1. /\ pc = "request" /\ pc' = "receive" /\ call \in Singles
        /\ asked' = "get" /\ phase' = "busy" /\ received' = <<>>
        /\ received' \in Seq(Nat) /\ ended' = TRUE
        /\ \E w \in {Blank, Uninitialized} : result' = <<w>>
        /\ UNCHANGED <<at, call, thrown, code, stayed, removed, added, burst,
                       cut>>
    BY Asked DEF RequestOne, RequestNew, Singles, history
  <1>2. TypeOK /\ PhaseInv /\ ListInv
    BY DEF CommandsInv
  <1>3. fetched = <<>> /\ thrown = "none"
    BY <1>1, <1>2 DEF PhaseInv
  <1>4. /\ born \in Nat /\ MaxDevices \in Nat
        /\ devices \in Seq(Devices)
    BY <1>2, CommandsAssumption DEF TypeOK
  <1>5. /\ devices' \in Seq(Devices) /\ born' \in 0 .. MaxDevices
        /\ shape' \in Seq(Shapes) /\ Len(shape') = born'
        /\ Len(devices') <= born'
        /\ \A i \in 1 .. Len(devices') : devices'[i] \in 1 .. born'
        /\ \A i, j \in 1 .. Len(devices') : i < j => devices'[i] > devices'[j]
        /\ fetched' \in Seq(Devices)
        /\ \A i \in 1 .. Len(fetched') : fetched'[i] \in 1 .. born'
    <2>1. CASE RequestOne
      <3>1. UNCHANGED <<devices, born, shape>>
        BY <2>1 DEF RequestOne, listVars
      <3>2. fetched' = <<>> \/ \E d \in ToSet(devices) : fetched' = <<d>>
        BY <1>3, <2>1 DEF RequestOne
      <3>3. \A d \in ToSet(devices) : d \in 1 .. born /\ d \in Devices
        BY <1>2, <1>4 DEF ListInv, ToSet
      <3>4. /\ fetched' \in Seq(Devices)
            /\ \A i \in 1 .. Len(fetched') : fetched'[i] \in 1 .. born
        <4>1. CASE fetched' = <<>>
          <5>1. fetched' \in Seq(Devices) /\ Len(fetched') = 0
            BY <4>1
          <5>2. QED
            BY <5>1
        <4>2. CASE \E d \in ToSet(devices) : fetched' = <<d>>
          <5>1. PICK d \in ToSet(devices) : fetched' = <<d>>
            BY <4>2
          <5>2. d \in Devices /\ d \in 1 .. born
            BY <3>3
          <5>3. /\ fetched' \in Seq(Devices) /\ Len(fetched') = 1
                /\ fetched'[1] = d
            BY <5>1, <5>2
          <5>4. QED
            BY <5>2, <5>3
        <4>3. QED
          BY <3>2, <4>1, <4>2
      <3>5. QED
        BY <1>2, <3>1, <3>4 DEF TypeOK, ListInv
    <2>2. CASE RequestNew
      <3>1. CASE NewDevice /\ fetched' = <<born'>>
        <4>1. born' \in 1 .. MaxDevices
          BY <1>2, <3>1, DeviceAdded
        <4>2. /\ fetched' \in Seq(Devices)
              /\ \A i \in 1 .. Len(fetched') : fetched'[i] \in 1 .. born'
          BY <3>1, <4>1 DEF Devices
        <4>3. QED
          BY <1>2, <3>1, <4>1, <4>2, DeviceAdded
      <3>2. CASE UNCHANGED <<listVars, fetched>>
        BY <1>2, <3>2 DEF TypeOK, ListInv, listVars
      <3>3. QED
        BY <2>2, <3>1, <3>2 DEF RequestNew
    <2>3. QED
      BY <2>1, <2>2
  <1>6. result' \in Seq([index : 0 .. MaxDevices + 1,
                         caps : SUBSET Requirements])
        /\ Len(result') = 1
    BY <1>1, <1>4 DEF Blank, Uninitialized
  <1>7. TypeOK'
    BY <1>1, <1>2, <1>5, <1>6 DEF TypeOK
  <1>8. call' \notin Lists
    BY <1>1 DEF Lists, Singles
  <1>9. PhaseInv' /\ ListInv'
    BY <1>1, <1>3, <1>5, <1>8 DEF PhaseInv, ListInv
  <1>10. SingleInv' /\ EntriesInv' /\ OrderInv' /\ MissingInv' /\ ~Returned'
    BY <1>1, <1>6, <1>8
       DEF SingleInv, EntriesInv, OrderInv, MissingInv, Returned
  <1>11. QED
    BY <1>7, <1>9, <1>10, NotReturned DEF GoingOn

-----------------------------------------------------------------------------
(* The kernel fills the dump, and devices come and go.                       *)

\* While a dump runs, a list is being received.
LEMMA DumpRuns ==
  ASSUME TypeOK, PhaseInv, Dumping
  PROVE  pc = "receive" /\ call \in Lists /\ ~(call \in Singles) /\ ~ended
         /\ granted
  BY DEF Dumping, PhaseInv, TypeOK, Lists, Singles

LEMMA OverlookedFinite ==
  ASSUME TypeOK
  PROVE  /\ IsFiniteSet(Overlooked) /\ Cardinality(Overlooked) \in Nat
         /\ IsFiniteSet(stayed)
  <1>1. IsFiniteSet(Devices)
    BY CommandsAssumption, FS_Interval DEF Devices
  <1>2. IsFiniteSet(stayed)
    BY <1>1, FS_Subset DEF TypeOK
  <1>3. IsFiniteSet(Overlooked)
    BY <1>2, FS_Subset DEF Overlooked
  <1>4. QED
    BY <1>2, <1>3, FS_CardinalityType

LEMMA EndDumpStep ==
  ASSUME CommandsInv, EndDump
  PROVE  CommandsInv'
  <1>1. /\ ended' = TRUE /\ cut' = (at < Len(devices))
        /\ UNCHANGED <<phase, asked, granted, received, verdict, devices, born,
                       shape, at, fetched, pc, call, result, thrown, code,
                       stayed, removed, added, burst>>
    BY DEF EndDump, channelVars, listVars, callVars
  <1>2. TypeOK /\ PhaseInv /\ ListInv /\ SingleInv /\ EntriesInv /\ OrderInv
        /\ MissingInv
    BY DEF CommandsInv
  <1>3. pc = "receive" /\ call \in Lists
    BY <1>2, DumpRuns DEF EndDump
  <1>4. TypeOK'
    BY <1>1, <1>2 DEF TypeOK
  <1>5. PhaseInv' /\ ListInv' /\ SingleInv' /\ EntriesInv'
    BY <1>1, <1>2, <1>3 DEF PhaseInv, ListInv, SingleInv, EntriesInv
  <1>6. OrderInv'
    BY <1>1, <1>2 DEF OrderInv, Fetched
  <1>7. Overlooked' = Overlooked
    BY <1>1 DEF Overlooked, Has, IndexAttr, Listed
  <1>8. MissingInv'
    <2>1. at \in Nat /\ Len(devices) \in Nat
      BY <1>2, CommandsAssumption DEF TypeOK
    <2>2. ~cut' => at >= Len(devices)
      <3>1. ~cut' => ~(at < Len(devices))
        BY <1>1
      <3>2. QED
        BY <2>1, <3>1
    <2>3. QED
      BY <1>1, <1>2, <1>3, <1>7, <2>2 DEF MissingInv
  <1>9. ~Returned'
    BY <1>1, <1>3 DEF Returned
  <1>10. QED
    BY <1>4, <1>5, <1>6, <1>8, <1>9, NotReturned DEF GoingOn

\* A piece continues below what has been fetched; it may begin with the last
\* entry again, if one device has come.
LEMMA FetchStep ==
  ASSUME CommandsInv, Fetch
  PROVE  CommandsInv'
  <1>1. /\ added' = 0
        /\ burst' = (burst \/ (at > 0 /\ added >= 2))
        /\ UNCHANGED <<phase, asked, granted, received, verdict, devices, born,
                       shape, ended, pc, call, result, thrown, code,
                       stayed, removed, cut>>
    BY DEF Fetch, channelVars, listVars, callVars
  <1>2. TypeOK /\ PhaseInv /\ ListInv /\ SingleInv /\ EntriesInv /\ OrderInv
        /\ MissingInv
    BY DEF CommandsInv
  <1>3. pc = "receive" /\ call \in Lists /\ ~ended
    BY <1>2, DumpRuns DEF Fetch
  <1>4. /\ devices \in Seq(Devices) /\ fetched \in Seq(Devices)
        /\ at \in Nat /\ born \in Nat /\ born <= MaxDevices
        /\ MaxDevices \in Nat /\ added \in Nat
        /\ Len(devices) \in Nat /\ Len(fetched) \in Nat
    BY <1>2, CommandsAssumption DEF TypeOK
  <1>5. /\ Len(devices) <= born
        /\ \A i \in 1 .. Len(devices) : devices[i] \in 1 .. born
        /\ \A i, j \in 1 .. Len(devices) : i < j => devices[i] > devices[j]
        /\ \A i \in 1 .. Len(fetched) : fetched[i] \in 1 .. born
    BY <1>2 DEF ListInv
  <1>6. PICK n \in at + 1 .. Len(devices) :
          /\ fetched' = fetched \o SubSeq(devices, at + 1, n)
          /\ at' = n
    BY DEF Fetch
  <1>7. PICK piece : piece = SubSeq(devices, at + 1, n)
    OBVIOUS
  <1>8. /\ piece \in Seq(Devices) /\ Len(piece) = n - at
        /\ \A i \in 1 .. n - at : piece[i] = devices[at + i]
    BY <1>4, <1>7, SMTT(40)
  <1>9. /\ fetched' \in Seq(Devices)
        /\ Len(fetched') = Len(fetched) + (n - at)
        /\ \A i \in 1 .. Len(fetched') :
             fetched'[i] = IF i <= Len(fetched) THEN fetched[i]
                           ELSE piece[i - Len(fetched)]
    BY <1>4, <1>6, <1>7, <1>8, ConcatProperties
  <1>10. \A i \in 1 .. Len(fetched') :
           \/ i \in 1 .. Len(fetched) /\ fetched'[i] = fetched[i]
           \/ /\ i > Len(fetched)
              /\ at + (i - Len(fetched)) \in at + 1 .. n
              /\ at + (i - Len(fetched)) \in 1 .. Len(devices)
              /\ fetched'[i] = devices[at + (i - Len(fetched))]
    BY <1>4, <1>8, <1>9
  <1>a. \A i \in 1 .. Len(fetched) :
          i \in 1 .. Len(fetched') /\ fetched'[i] = fetched[i]
    BY <1>4, <1>9
  <1>11. TypeOK'
    <2>1. burst' \in BOOLEAN
      BY <1>1
    <2>2. n \in 0 .. MaxDevices
      BY <1>4, <1>5
    <2>3. QED
      BY <1>1, <1>2, <1>6, <1>9, <2>1, <2>2 DEF TypeOK
  <1>12. PhaseInv' /\ SingleInv' /\ EntriesInv'
    BY <1>1, <1>2, <1>3 DEF PhaseInv, SingleInv, EntriesInv
  <1>13. ListInv'
    BY <1>1, <1>5, <1>10 DEF ListInv
  <1>14. OrderInv'
    <2> SUFFICES ASSUME ~burst'
                 PROVE  /\ \E f \in Int : Fetched(f)'
                        /\ \A i, j \in 1 .. Len(fetched') :
                             i < j => fetched'[i] >= fetched'[j]
                        /\ \A i, j \in 1 .. Len(result) :
                             i < j => result[i].index > result[j].index
                        /\ \A i \in 1 .. Len(result), j \in 1 .. Len(fetched') :
                             result[i].index >= fetched'[j]
      <3>1. at' # 0
        BY <1>4, <1>6
      <3>2. QED
        BY <1>1, <3>1 DEF OrderInv
    <2>1. /\ ~burst /\ (at = 0 \/ added <= 1)
      <3>1. ~burst /\ ~(at > 0 /\ added >= 2)
        BY <1>1
      <3>2. QED
        BY <1>4, <3>1
    <2>2. /\ IF at = 0 THEN fetched = <<>> /\ result = <<>>
                       ELSE \E f \in Int : Fetched(f)
          /\ \A i, j \in 1 .. Len(fetched) : i < j => fetched[i] >= fetched[j]
          /\ \A i, j \in 1 .. Len(result) :
               i < j => result[i].index > result[j].index
          /\ \A i \in 1 .. Len(result), j \in 1 .. Len(fetched) :
               result[i].index >= fetched[j]
      BY <1>2, <1>3, <2>1 DEF OrderInv
    <2>3. PICK f \in Int :
            /\ \A i \in 1 .. Len(fetched) : fetched[i] >= f
            /\ \A i \in 1 .. Len(result) : result[i].index >= f
            /\ \A i \in at + 1 .. Len(devices) : devices[i] <= f
      <3>1. CASE at = 0
        <4>1. Len(fetched) = 0 /\ Len(result) = 0
          BY <2>2, <3>1
        <4>2. \A i \in at + 1 .. Len(devices) : devices[i] <= born
          BY <1>4, <1>5
        <4>3. PICK f \in Int : f = born
          BY <1>4
        <4>4. \A i \in at + 1 .. Len(devices) : devices[i] <= f
          BY <4>2, <4>3
        <4>5. /\ \A i \in 1 .. Len(fetched) : fetched[i] >= f
              /\ \A i \in 1 .. Len(result) : result[i].index >= f
          BY <4>1
        <4>6. QED
          BY <4>4, <4>5
      <3>2. CASE at # 0
        <4>1. PICK f \in Int : Fetched(f)
          BY <2>2, <3>2
        <4>2. ASSUME NEW i \in at + 1 .. Len(devices)
              PROVE  devices[i] <= f
          <5>1. i \in 1 .. Len(devices) /\ i >= at + added
            BY <1>4, <2>1, <3>2
          <5>2. QED
            BY <4>1, <5>1 DEF Fetched
        <4>3. QED
          BY <4>1, <4>2 DEF Fetched
      <3>3. QED
        BY <3>1, <3>2
    <2>4. result \in Seq(Structure) /\ \A i \in 1 .. Len(result) :
                                         result[i].index \in Int
      <3>1. result \in Seq(Structure)
        BY <1>2 DEF TypeOK, Structure
      <3>2. \A w \in Structure : w.index \in Int
        BY <1>4 DEF Structure
      <3>3. QED
        BY <3>1, <3>2
    <2>5. n \in 1 .. Len(devices) /\ devices[n] \in Int /\ devices[n] <= f
      BY <1>4, <1>5, <2>3
    <2>6. \A i \in at + 1 .. n : devices[i] >= devices[n]
      BY <1>4, <1>5
    <2>7. \A i \in 1 .. Len(fetched') : fetched'[i] >= devices[n]
      <3>1. ASSUME NEW i \in 1 .. Len(fetched)
            PROVE  fetched[i] >= devices[n]
        BY <1>5, <2>3, <2>5
      <3>2. QED
        BY <1>10, <2>6, <3>1
    <2>8. \A i \in 1 .. Len(result) : result[i].index >= devices[n]
      BY <2>3, <2>4, <2>5
    <2>9. \A i \in 1 .. Len(devices) :
            /\ i >= n => devices[i] <= devices[n]
            /\ i > n => devices[i] < devices[n]
      BY <1>5, <2>5
    <2>11. ASSUME NEW i \in 1 .. Len(fetched'), NEW j \in 1 .. Len(fetched'),
                  i < j
           PROVE  fetched'[i] >= fetched'[j]
      <3>1. CASE j \in 1 .. Len(fetched)
        BY <1>10, <2>2, <2>11, <3>1
      <3>2. CASE j > Len(fetched)
        <4>1. PICK q : q = at + (j - Len(fetched))
          OBVIOUS
        <4>2. /\ q \in at + 1 .. n /\ q \in 1 .. Len(devices)
              /\ fetched'[j] = devices[q]
          BY <1>4, <1>10, <3>2, <4>1
        <4>3. CASE i \in 1 .. Len(fetched)
          <5>1. fetched[i] >= f /\ devices[q] <= f
            BY <2>3, <4>2, <4>3
          <5>2. fetched'[i] = fetched[i]
            BY <1>a, <4>3
          <5>3. fetched[i] \in Int /\ devices[q] \in Int
            BY <1>4, <1>5, <4>2, <4>3
          <5>4. QED
            BY <4>2, <5>1, <5>2, <5>3
        <4>4. CASE i > Len(fetched)
          <5>1. PICK p : p = at + (i - Len(fetched))
            OBVIOUS
          <5>2. p \in 1 .. Len(devices) /\ fetched'[i] = devices[p]
            BY <1>4, <1>10, <4>4, <5>1
          <5>3. p < q
            BY <1>4, <2>11, <4>1, <5>1
          <5>4. QED
            BY <1>5, <4>2, <5>2, <5>3
        <4>5. QED
          BY <1>4, <4>3, <4>4
      <3>3. QED
        BY <1>10, <3>1, <3>2
    <2>12. ASSUME NEW i \in 1 .. Len(result), NEW j \in 1 .. Len(fetched')
           PROVE  result[i].index >= fetched'[j]
      <3>1. CASE j \in 1 .. Len(fetched)
        BY <1>10, <2>2, <3>1
      <3>2. CASE j > Len(fetched)
        <4>1. PICK q : q = at + (j - Len(fetched))
          OBVIOUS
        <4>2. /\ q \in at + 1 .. Len(devices) /\ q \in 1 .. Len(devices)
              /\ fetched'[j] = devices[q]
          <5>1. j > Len(fetched) /\ j \notin 1 .. Len(fetched)
            BY <1>4, <3>2
          <5>2. /\ at + (j - Len(fetched)) \in at + 1 .. n
                /\ at + (j - Len(fetched)) \in 1 .. Len(devices)
                /\ fetched'[j] = devices[at + (j - Len(fetched))]
            BY <1>10, <5>1, Zenon
          <5>3. q \in at + 1 .. n /\ q \in 1 .. Len(devices)
                /\ fetched'[j] = devices[q]
            BY <4>1, <5>2, Zenon
          <5>4. QED
            BY <1>4, <5>3
        <4>3. /\ result[i].index >= f /\ devices[q] <= f
              /\ result[i].index \in Int /\ devices[q] \in Int
          BY <1>4, <1>5, <2>3, <2>4, <4>2
        <4>4. QED
          BY <4>2, <4>3
      <3>3. QED
        BY <1>10, <3>1, <3>2
    <2>13. \E g \in Int : Fetched(g)'
      <3>1. PICK g \in Int : g = devices[n]
        BY <2>5
      <3>2. /\ \A i \in 1 .. Len(fetched') : fetched'[i] >= g
            /\ \A i \in 1 .. Len(result') : result'[i].index >= g
        BY <1>1, <2>7, <2>8, <3>1
      <3>3. at' + added' = n
        BY <1>1, <1>4, <1>6
      <3>4. \A i \in 1 .. Len(devices') :
              /\ i >= at' + added' => devices'[i] <= g
              /\ i > at' + added' => devices'[i] < g
        BY <1>1, <2>9, <3>1, <3>3
      <3>5. Fetched(g)'
        BY <3>2, <3>4 DEF Fetched
      <3>6. QED
        BY <3>5
    <2>14. QED
      BY <2>2, <2>11, <2>12, <2>13
  <1>15. MissingInv'
    <2>1. Overlooked' \subseteq Overlooked
      <3>1. SUFFICES ASSUME NEW d \in Overlooked'
                     PROVE  d \in Overlooked
        OBVIOUS
      <3>2. /\ d \in stayed /\ Has(d, IndexAttr) /\ d \notin Listed
            /\ d \notin ToSet(fetched')
        BY <1>1 DEF Overlooked, Has, IndexAttr, Listed
      <3>3. PICK i \in 1 .. Len(devices) : i <= n /\ devices[i] = d
        BY <1>1, <1>6 DEF Overlooked
      <3>4. \A k \in 1 .. Len(fetched') : fetched'[k] # d
        BY <1>9, <3>2 DEF ToSet
      <3>5. i <= at
        <4>1. SUFFICES ASSUME i > at
                       PROVE  FALSE
          BY <1>4
        <4>2. PICK k : k = Len(fetched) + (i - at)
          OBVIOUS
        <4>3. /\ k \in 1 .. Len(fetched') /\ k > Len(fetched)
              /\ at + (k - Len(fetched)) = i
          BY <1>4, <1>9, <3>3, <4>1, <4>2
        <4>4. fetched'[k] = devices[i]
          BY <1>4, <1>10, <4>3
        <4>5. QED
          BY <3>3, <3>4, <4>3, <4>4
      <3>6. d \notin ToSet(fetched)
        <4>1. \A k \in 1 .. Len(fetched) : fetched[k] # d
          <5>1. \A k \in 1 .. Len(fetched) :
                  k \in 1 .. Len(fetched') /\ fetched'[k] = fetched[k]
            BY <1>4, <1>9
          <5>2. QED
            BY <3>4, <5>1
        <4>2. QED
          BY <1>4, <4>1 DEF ToSet
      <3>7. QED
        BY <3>2, <3>3, <3>5, <3>6 DEF Overlooked
    <2>2. Cardinality(Overlooked') <= Cardinality(Overlooked)
      BY <1>2, <2>1, OverlookedFinite, FS_Subset
    <2>3. Cardinality(Overlooked) <= removed /\ stayed \subseteq ToSet(devices)
      BY <1>2, <1>3 DEF MissingInv
    <2>4. /\ Cardinality(Overlooked) \in Nat /\ removed \in Nat
          /\ Cardinality(Overlooked') \in Nat
      <3>1. TypeOK'
        BY <1>11
      <3>2. IsFiniteSet(Overlooked')
        BY <1>2, <2>1, OverlookedFinite, FS_Subset
      <3>3. QED
        BY <1>2, <3>2, OverlookedFinite, FS_CardinalityType DEF TypeOK
    <2>5. Cardinality(Overlooked') <= removed'
      BY <1>1, <2>2, <2>3, <2>4
    <2>6. QED
      BY <1>1, <1>3, <2>3, <2>5 DEF MissingInv
  <1>16. ~Returned'
    BY <1>1, <1>3 DEF Returned
  <1>17. QED
    BY <1>11, <1>12, <1>13, <1>14, <1>15, <1>16, NotReturned DEF GoingOn

LEMMA PlugStep ==
  ASSUME CommandsInv, Plug
  PROVE  CommandsInv'
  <1>1. /\ NewDevice /\ added' = added + 1
        /\ UNCHANGED <<phase, asked, granted, received, verdict, at, fetched,
                       ended, pc, call, result, thrown, code, stayed, removed,
                       burst, cut>>
    BY DEF Plug, channelVars, answerVars, callVars
  <1>2. TypeOK /\ PhaseInv /\ ListInv /\ SingleInv /\ EntriesInv /\ OrderInv
        /\ MissingInv
    BY DEF CommandsInv
  <1>3. pc = "receive" /\ call \in Lists /\ ~(call \in Singles) /\ ~ended
    BY <1>2, DumpRuns DEF Plug
  <1>4. /\ born' = born + 1 /\ born' \in 1 .. MaxDevices
        /\ devices' \in Seq(Devices) /\ Len(devices') = Len(devices) + 1
        /\ devices'[1] = born'
        /\ \A i \in 2 .. Len(devices) + 1 : devices'[i] = devices[i - 1]
        /\ shape' \in Seq(Shapes) /\ Len(shape') = born'
        /\ \A d \in 1 .. born : shape'[d] = shape[d]
        /\ Len(devices') <= born'
        /\ \A i \in 1 .. Len(devices') : devices'[i] \in 1 .. born'
        /\ \A i, j \in 1 .. Len(devices') : i < j => devices'[i] > devices'[j]
    BY <1>1, <1>2, DeviceAdded
  <1>5. /\ born \in Nat /\ added \in Nat /\ at \in Nat /\ MaxDevices \in Nat
        /\ devices \in Seq(Devices) /\ Len(devices) \in Nat
    BY <1>2, CommandsAssumption DEF TypeOK
  <1>6. \A d \in 1 .. born : d \in 1 .. born'
    BY <1>4, <1>5
  <1>7. TypeOK'
    <2>1. born' \in 0 .. MaxDevices /\ added' \in Nat
      BY <1>1, <1>4, <1>5
    <2>2. QED
      BY <1>1, <1>2, <1>4, <2>1 DEF TypeOK
  <1>8. PhaseInv' /\ ListInv' /\ SingleInv' /\ EntriesInv'
    <2>1. PhaseInv'
      BY <1>1, <1>2, <1>3 DEF PhaseInv
    <2>2. ListInv'
      BY <1>1, <1>2, <1>4, <1>6 DEF ListInv
    <2>3. SingleInv'
      BY <1>1, <1>3 DEF SingleInv
    <2>4. EntriesInv'
      BY <1>1, <1>2, <1>3, <1>4, <1>6 DEF EntriesInv
    <2>5. QED
      BY <2>1, <2>2, <2>3, <2>4
  <1>9. \A i \in 1 .. Len(devices') :
          i = 1 \/ (/\ i - 1 \in 1 .. Len(devices)
                    /\ devices'[i] = devices[i - 1])
    BY <1>4, <1>5
  <1>10. OrderInv'
    <2>1. ASSUME at # 0, NEW f \in Int, Fetched(f)
          PROVE  Fetched(f)'
      <3>1. ASSUME NEW i \in 1 .. Len(devices')
            PROVE  /\ i >= at' + added' => devices'[i] <= f
                   /\ i > at' + added' => devices'[i] < f
        <4>1. CASE i = 1
          <5>1. ~(i >= at' + added') /\ ~(i > at' + added')
            BY <1>1, <1>5, <2>1, <4>1
          <5>2. QED
            BY <5>1
        <4>2. CASE i # 1
          <5>1. i - 1 \in 1 .. Len(devices) /\ devices'[i] = devices[i - 1]
            BY <1>9, <4>2
          <5>2. /\ i >= at' + added' => i - 1 >= at + added
                /\ i > at' + added' => i - 1 > at + added
            BY <1>1, <1>5
          <5>3. QED
            BY <2>1, <5>1, <5>2 DEF Fetched
        <4>3. QED
          BY <4>1, <4>2
      <3>2. QED
        BY <1>1, <2>1, <3>1 DEF Fetched
    <2>2. QED
      BY <1>1, <1>2, <1>3, <2>1 DEF OrderInv
  <1>11. MissingInv'
    <2>1. /\ stayed \subseteq ToSet(devices) /\ Cardinality(Overlooked) <= removed
      BY <1>2, <1>3 DEF MissingInv
    <2>2. ASSUME NEW d \in stayed
          PROVE  d \in 1 .. born /\ \E i \in 1 .. Len(devices) : devices[i] = d
      <3>1. PICK i \in 1 .. Len(devices) : devices[i] = d
        BY <1>5, <2>1 DEF ToSet
      <3>2. QED
        BY <1>2, <3>1 DEF ListInv
    <2>3. stayed' \subseteq ToSet(devices')
      <3>1. SUFFICES ASSUME NEW d \in stayed
                     PROVE  \E i \in 1 .. Len(devices') : devices'[i] = d
        BY <1>1, <1>4 DEF ToSet
      <3>2. PICK i \in 1 .. Len(devices) : devices[i] = d
        BY <2>2
      <3>3. PICK k : k = i + 1
        OBVIOUS
      <3>4. k \in 2 .. Len(devices) + 1 /\ k - 1 = i /\ k \in 1 .. Len(devices')
        BY <1>4, <1>5, <3>3
      <3>5. QED
        BY <1>4, <3>2, <3>4
    <2>4. Overlooked' \subseteq Overlooked
      <3>1. SUFFICES ASSUME NEW d \in Overlooked'
                     PROVE  d \in Overlooked
        OBVIOUS
      <3>2. /\ d \in stayed /\ Has(d, IndexAttr)' /\ d \notin Listed'
            /\ d \notin ToSet(fetched)
        BY <1>1 DEF Overlooked
      <3>3. Has(d, IndexAttr) /\ d \notin Listed
        BY <1>1, <1>4, <2>2, <3>2 DEF Has, IndexAttr, Listed
      <3>4. PICK i \in 1 .. Len(devices') : i <= at /\ devices'[i] = d
        BY <1>1 DEF Overlooked
      <3>5. i # 1
        <4>1. d <= born /\ born' > born
          BY <1>4, <1>5, <2>2, <3>2
        <4>2. QED
          BY <1>4, <1>5, <2>2, <3>2, <3>4, <4>1
      <3>6. /\ i - 1 \in 1 .. Len(devices) /\ devices[i - 1] = d
            /\ i - 1 <= at
        BY <1>5, <1>9, <3>4, <3>5
      <3>7. QED
        BY <3>2, <3>3, <3>6 DEF Overlooked
    <2>5. /\ Cardinality(Overlooked') <= Cardinality(Overlooked)
          /\ Cardinality(Overlooked) \in Nat
          /\ Cardinality(Overlooked') \in Nat
      BY <1>2, <2>4, OverlookedFinite, FS_Subset, FS_CardinalityType
    <2>6. Cardinality(Overlooked') <= removed'
      BY <1>1, <1>2, <2>1, <2>5 DEF TypeOK
    <2>7. QED
      BY <1>1, <1>3, <2>3, <2>6 DEF MissingInv
  <1>12. ~Returned'
    BY <1>1, <1>3 DEF Returned
  <1>13. QED
    BY <1>7, <1>8, <1>10, <1>11, <1>12, NotReturned DEF GoingOn

\* When a device goes, at most one slips by: that which takes the last of the
\* places the dump has passed.
LEMMA UnplugStep ==
  ASSUME CommandsInv, Unplug
  PROVE  CommandsInv'
  <1>1. /\ removed' = removed + 1
        /\ UNCHANGED <<phase, asked, granted, received, verdict, born, shape,
                       at, fetched, ended, pc, call, result, thrown, code,
                       added, burst, cut>>
    BY DEF Unplug, channelVars, answerVars, callVars
  <1>2. TypeOK /\ PhaseInv /\ ListInv /\ SingleInv /\ EntriesInv /\ OrderInv
        /\ MissingInv
    BY DEF CommandsInv
  <1>3. pc = "receive" /\ call \in Lists /\ ~(call \in Singles) /\ ~ended
    BY <1>2, DumpRuns DEF Unplug
  <1>4. /\ devices \in Seq(Devices) /\ Len(devices) \in Nat /\ born \in Nat
        /\ at \in Nat /\ added \in Nat /\ removed \in Nat
        /\ MaxDevices \in Nat
    BY <1>2, CommandsAssumption DEF TypeOK
  <1>5. PICK k \in 1 .. Len(devices) :
          /\ devices' = RemoveAt(devices, k)
          /\ stayed' = stayed \ {devices[k]}
    BY DEF Unplug
  <1>6. /\ devices' \in Seq(Devices) /\ Len(devices') = Len(devices) - 1
        /\ \A i \in 1 .. Len(devices') :
             devices'[i] = IF i < k THEN devices[i] ELSE devices[i + 1]
    BY <1>4, <1>5, RemoveAtProperties
  <1>7. \A i \in 1 .. Len(devices') :
          /\ i \in 1 .. Len(devices) /\ i + 1 \in 1 .. Len(devices)
          /\ \/ devices'[i] = devices[i]
             \/ devices'[i] = devices[i + 1]
    BY <1>4, <1>6
  <1>8. /\ Len(devices) <= born
        /\ \A i \in 1 .. Len(devices) : devices[i] \in 1 .. born
        /\ \A i, j \in 1 .. Len(devices) : i < j => devices[i] > devices[j]
    BY <1>2 DEF ListInv
  <1>9. TypeOK'
    BY <1>1, <1>2, <1>4, <1>5, <1>6 DEF TypeOK
  <1>10. PhaseInv' /\ SingleInv' /\ EntriesInv'
    BY <1>1, <1>2, <1>3 DEF PhaseInv, SingleInv, EntriesInv
  <1>11. ListInv'
    <2>1. ASSUME NEW i \in 1 .. Len(devices'), NEW j \in 1 .. Len(devices'),
                 i < j
          PROVE  devices'[i] > devices'[j]
      <3>1. CASE i < k
        <4>1. devices'[i] = devices[i]
          BY <1>6, <3>1
        <4>2. devices'[j] = devices[j] \/ devices'[j] = devices[j + 1]
          BY <1>7
        <4>3. i < j /\ i < j + 1
          BY <2>1
        <4>4. QED
          BY <1>7, <1>8, <4>1, <4>2, <4>3
      <3>2. CASE ~(i < k)
        <4>1. devices'[i] = devices[i + 1] /\ ~(j < k) /\ i + 1 < j + 1
          BY <1>4, <1>6, <2>1, <3>2
        <4>2. devices'[j] = devices[j + 1]
          BY <1>6, <4>1
        <4>3. QED
          BY <1>7, <1>8, <4>1, <4>2
      <3>3. QED
        BY <3>1, <3>2
    <2>2. Len(devices') <= born
      BY <1>4, <1>6, <1>8
    <2>3. \A i \in 1 .. Len(devices') : devices'[i] \in 1 .. born
      BY <1>7, <1>8
    <2>4. QED
      BY <1>1, <1>2, <2>1, <2>2, <2>3 DEF ListInv
  <1>12. OrderInv'
    <2>1. ASSUME NEW f \in Int, Fetched(f)
          PROVE  Fetched(f)'
      <3>1. ASSUME NEW i \in 1 .. Len(devices')
            PROVE  /\ i >= at + added => devices'[i] <= f
                   /\ i > at + added => devices'[i] < f
        <4>1. /\ i >= at + added => i + 1 >= at + added /\ i + 1 > at + added
              /\ i > at + added => i + 1 > at + added
          BY <1>4
        <4>2. /\ i >= at + added => devices[i] <= f /\ devices[i + 1] <= f
              /\ i > at + added => devices[i] < f /\ devices[i + 1] < f
          BY <1>7, <2>1, <4>1 DEF Fetched
        <4>3. QED
          BY <1>7, <4>2
      <3>2. QED
        BY <1>1, <2>1, <3>1 DEF Fetched
    <2>2. QED
      BY <1>1, <1>2, <1>3, <2>1 DEF OrderInv
  <1>13. MissingInv'
    <2>1. /\ stayed \subseteq ToSet(devices)
          /\ Cardinality(Overlooked) <= removed
      BY <1>2, <1>3 DEF MissingInv
    <2>2. stayed' \subseteq ToSet(devices')
      <3>1. SUFFICES ASSUME NEW d \in stayed'
                     PROVE  \E i \in 1 .. Len(devices') : devices'[i] = d
        BY <1>6 DEF ToSet
      <3>2. PICK j \in 1 .. Len(devices) : devices[j] = d
        BY <1>4, <1>5, <2>1 DEF ToSet
      <3>3. j # k
        BY <1>5, <3>2
      <3>4. CASE j < k
        <4>1. j \in 1 .. Len(devices')
          BY <1>4, <1>6, <3>4
        <4>2. QED
          BY <1>6, <3>2, <3>4, <4>1
      <3>5. CASE j > k
        <4>1. PICK i : i = j - 1
          OBVIOUS
        <4>2. i \in 1 .. Len(devices') /\ ~(i < k) /\ i + 1 = j
          BY <1>4, <1>6, <3>5, <4>1
        <4>3. QED
          BY <1>6, <3>2, <4>2
      <3>6. QED
        BY <1>4, <3>3, <3>4, <3>5
    <2>3. Overlooked' \subseteq Overlooked \cup {devices[at + 1]}
      <3>1. SUFFICES ASSUME NEW d \in Overlooked', d # devices[at + 1]
                     PROVE  d \in Overlooked
        OBVIOUS
      <3>2. /\ d \in stayed' /\ Has(d, IndexAttr) /\ d \notin Listed
            /\ d \notin ToSet(fetched)
        BY <1>1 DEF Overlooked, Has, IndexAttr, Listed
      <3>3. PICK i \in 1 .. Len(devices') : i <= at /\ devices'[i] = d
        BY <1>1 DEF Overlooked
      <3>4. \E j \in 1 .. Len(devices) : j <= at /\ devices[j] = d
        <4>1. CASE devices'[i] = devices[i]
          BY <1>7, <3>3, <4>1
        <4>2. CASE devices'[i] = devices[i + 1]
          <5>1. i + 1 # at + 1
            BY <3>1, <3>3, <4>2
          <5>2. i + 1 <= at
            BY <1>4, <3>3, <5>1
          <5>3. QED
            BY <1>7, <3>3, <4>2, <5>2
        <4>3. QED
          BY <1>7, <4>1, <4>2
      <3>5. QED
        BY <1>5, <3>2, <3>4 DEF Overlooked
    <2>4. /\ IsFiniteSet(Overlooked) /\ Cardinality(Overlooked) \in Nat
      BY <1>2, OverlookedFinite
    <2>5. PICK S : S = Overlooked \cup {devices[at + 1]}
      OBVIOUS
    <2>6. /\ IsFiniteSet(S) /\ Cardinality(S) \in Nat
          /\ Cardinality(S) <= Cardinality(Overlooked) + 1
      <3>1. /\ IsFiniteSet(S)
            /\ \/ Cardinality(S) = Cardinality(Overlooked)
               \/ Cardinality(S) = Cardinality(Overlooked) + 1
        BY <2>4, <2>5, FS_AddElement
      <3>2. QED
        BY <2>4, <3>1
    <2>7. /\ Cardinality(Overlooked') <= Cardinality(S)
          /\ Cardinality(Overlooked') \in Nat
      BY <2>3, <2>5, <2>6, FS_Subset, FS_CardinalityType
    <2>8. Cardinality(Overlooked') <= removed'
      BY <1>1, <1>4, <2>1, <2>4, <2>6, <2>7
    <2>9. QED
      BY <1>1, <1>3, <2>2, <2>8 DEF MissingInv
  <1>14. ~Returned'
    BY <1>1, <1>3 DEF Returned
  <1>15. QED
    BY <1>9, <1>10, <1>11, <1>12, <1>13, <1>14, NotReturned DEF GoingOn

-----------------------------------------------------------------------------
(* A message is handled.                                                     *)

LEMMA HandleStep ==
  ASSUME CommandsInv, Handle
  PROVE  CommandsInv'
  <1>1. /\ fetched # <<>> /\ phase = "busy"
        /\ received' = Append(received, Len(received) + 1)
        /\ fetched' = Tail(fetched)
        /\ UNCHANGED <<phase, asked, granted, verdict, devices, born, shape, at,
                       ended, pc, call, thrown, code, stayed, removed, added,
                       burst, cut>>
    BY DEF Handle, Channel!HandOver, listVars, history
  <1>2. TypeOK /\ PhaseInv /\ ListInv /\ SingleInv /\ EntriesInv /\ OrderInv
        /\ MissingInv
    BY DEF CommandsInv
  <1>3. /\ pc = "receive" /\ received \in Seq(Nat)
    BY <1>1, <1>2 DEF PhaseInv
  <1>4. /\ fetched \in Seq(Devices) /\ Len(fetched) \in Nat
        /\ result \in Seq(Structure) /\ Len(result) \in Nat
        /\ born \in Nat /\ born <= MaxDevices /\ MaxDevices \in Nat
        /\ shape \in Seq(Shapes) /\ Len(shape) = born
        /\ at \in Nat /\ added \in Nat /\ devices \in Seq(Devices)
    BY <1>2, CommandsAssumption DEF TypeOK, Structure
  <1>5. PICK d : d = Head(fetched)
    OBVIOUS
  <1>6. result' = IF Skipped(d) THEN result
                  ELSE IF call \in Lists THEN Append(result, Entry(d))
                  ELSE <<Filled(Head(result), d)>>
    BY <1>5 DEF Handle
  <1>7. /\ Len(fetched) >= 1 /\ d = fetched[1]
        /\ fetched' \in Seq(Devices) /\ Len(fetched') = Len(fetched) - 1
        /\ \A i \in 1 .. Len(fetched') :
             i + 1 \in 1 .. Len(fetched) /\ fetched'[i] = fetched[i + 1]
    BY <1>1, <1>4, <1>5
  <1>8. d \in 1 .. born /\ d \in Nat
    BY <1>2, <1>4, <1>7 DEF ListInv
  <1>9. /\ shape[d].caps \subseteq Requirements
        /\ \A w \in Structure : Filled(w, d) \in Structure
        /\ \A w : Filled(w, d).index = d
        /\ Entry(d) \in Structure /\ Entry(d).index = d
        /\ Entry(d).caps = shape[d].caps
    <2>1. shape[d].caps \subseteq Requirements
      BY <1>4, <1>8, CommandsAssumption
    <2>2. d \in 0 .. MaxDevices + 1
      BY <1>4, <1>8
    <2>3. ASSUME NEW w \in Structure
          PROVE  Filled(w, d) \in Structure
      BY <2>1, <2>2 DEF Filled, Structure
    <2>4. Blank \in Structure
      BY <1>4 DEF Blank, Structure
    <2>5. Entry(d).caps = shape[d].caps
      BY DEF Entry, Filled, Blank
    <2>6. QED
      BY <2>1, <2>3, <2>4, <2>5 DEF Entry, Filled
  <1>10. ListInv'
    <2>1. \A i \in 1 .. Len(fetched') : fetched'[i] \in 1 .. born
      BY <1>2, <1>7 DEF ListInv
    <2>2. QED
      BY <1>1, <1>2, <2>1 DEF ListInv
  <1>11. PhaseInv'
    BY <1>1, <1>2, <1>3 DEF PhaseInv
  <1>12. ~Returned'
    BY <1>1, <1>3 DEF Returned
  <1>13. CASE call \in Singles
    <2>1. call \notin Lists /\ ~Skipped(d)
      BY <1>13 DEF Skipped, Lists, Singles
    <2>2. Len(result) = 1 /\ Head(result) \in Structure
      <3>1. Len(result) = 1
        BY <1>2, <1>3, <1>13 DEF SingleInv
      <3>2. Head(result) = result[1] /\ 1 \in 1 .. Len(result)
        BY <1>4, <3>1
      <3>3. result[1] \in Structure
        <4>1. \A i \in 1 .. Len(result) : result[i] \in Structure
          BY <1>4
        <4>2. QED
          BY <3>2, <4>1
      <3>4. QED
        BY <3>1, <3>2, <3>3
    <2>3. PICK w \in Structure : result' = <<w>> /\ w.index = d
      BY <1>6, <1>9, <2>1, <2>2
    <2>4. result' \in Seq(Structure) /\ Len(result') = 1 /\ result'[1] = w
      BY <2>3
    <2>5. TypeOK'
      BY <1>1, <1>2, <1>7, <2>4 DEF TypeOK, Structure
    <2>6. SingleInv' /\ EntriesInv' /\ OrderInv' /\ MissingInv'
      BY <1>1, <1>8, <2>1, <2>3, <2>4
         DEF SingleInv, EntriesInv, OrderInv, MissingInv
    <2>7. QED
      BY <1>10, <1>11, <1>12, <2>5, <2>6, NotReturned DEF GoingOn
  <1>14. CASE call \in Lists
    <2>1. call \notin Singles
      BY <1>14 DEF Lists, Singles
    <2>2. \/ Skipped(d) /\ result' = result
          \/ ~Skipped(d) /\ result' = Append(result, Entry(d))
      BY <1>6, <1>14
    <2>3. /\ result' \in Seq(Structure) /\ Len(result') \in Nat
          /\ \A i \in 1 .. Len(result) :
               i \in 1 .. Len(result') /\ result'[i] = result[i]
          /\ \A i \in 1 .. Len(result') :
               \/ i \in 1 .. Len(result)
               \/ /\ ~Skipped(d) /\ i = Len(result) + 1
                  /\ result'[i] = Entry(d)
          /\ ~Skipped(d) => /\ Len(result) + 1 \in 1 .. Len(result')
                            /\ result'[Len(result) + 1] = Entry(d)
      <3>1. CASE result' = result
        BY <1>4, <2>2, <3>1
      <3>2. CASE ~Skipped(d) /\ result' = Append(result, Entry(d))
        BY <1>4, <1>9, <3>2
      <3>3. QED
        BY <2>2, <3>1, <3>2
    <2>4. TypeOK'
      BY <1>1, <1>2, <1>7, <2>3 DEF TypeOK, Structure
    <2>5. EntriesInv'
      <3>1. \A i \in 1 .. Len(result) :
              /\ result[i].index \in 1 .. born
              /\ result[i].caps = shape[result[i].index].caps
        BY <1>2, <1>3, <1>14 DEF EntriesInv
      <3>2. \A i \in 1 .. Len(result') :
              /\ result'[i].index \in 1 .. born
              /\ result'[i].caps = shape[result'[i].index].caps
        BY <1>8, <1>9, <2>3, <3>1
      <3>3. QED
        BY <1>1, <3>2 DEF EntriesInv
    <2>6. SingleInv'
      BY <1>1, <2>1 DEF SingleInv
    <2>7. OrderInv'
      <3> SUFFICES ASSUME ~burst
                   PROVE  /\ at # 0 /\ \E f \in Int : Fetched(f)'
                          /\ \A i, j \in 1 .. Len(fetched') :
                               i < j => fetched'[i] >= fetched'[j]
                          /\ \A i, j \in 1 .. Len(result') :
                               i < j => result'[i].index > result'[j].index
                          /\ \A i \in 1 .. Len(result'),
                                j \in 1 .. Len(fetched') :
                               result'[i].index >= fetched'[j]
        BY <1>1 DEF OrderInv
      <3>1. /\ at # 0
            /\ \E f \in Int : Fetched(f)
            /\ \A i, j \in 1 .. Len(fetched) :
                 i < j => fetched[i] >= fetched[j]
            /\ \A i, j \in 1 .. Len(result) :
                 i < j => result[i].index > result[j].index
            /\ \A i \in 1 .. Len(result), j \in 1 .. Len(fetched) :
                 result[i].index >= fetched[j]
        BY <1>1, <1>2, <1>3, <1>14 DEF OrderInv
      <3>2. PICK f \in Int : Fetched(f)
        BY <3>1
      <3>3. d >= f /\ 1 \in 1 .. Len(fetched)
        BY <1>7, <3>2 DEF Fetched
      <3>4. Fetched(f)'
        <4>1. \A i \in 1 .. Len(fetched') : fetched'[i] >= f
          BY <1>7, <3>2 DEF Fetched
        <4>2. \A i \in 1 .. Len(result') : result'[i].index >= f
          BY <1>9, <2>3, <3>2, <3>3 DEF Fetched
        <4>3. QED
          BY <1>1, <3>2, <4>1, <4>2 DEF Fetched
      <3>5. \A j \in 1 .. Len(fetched') : d >= fetched'[j]
        <4>1. ASSUME NEW j \in 1 .. Len(fetched')
              PROVE  d >= fetched'[j]
          <5>1. j + 1 \in 1 .. Len(fetched) /\ fetched'[j] = fetched[j + 1]
                /\ 1 < j + 1
            BY <1>7
          <5>2. QED
            BY <1>7, <3>1, <3>3, <5>1
        <4>2. QED
          BY <4>1
      <3>6. ASSUME NEW i \in 1 .. Len(fetched'), NEW j \in 1 .. Len(fetched'),
                   i < j
            PROVE  fetched'[i] >= fetched'[j]
        <4>1. i + 1 < j + 1
          BY <3>6
        <4>2. QED
          BY <1>7, <3>1, <4>1
      <3>7. ASSUME NEW i \in 1 .. Len(result'), NEW j \in 1 .. Len(fetched')
            PROVE  result'[i].index >= fetched'[j]
        <4>1. CASE i \in 1 .. Len(result)
          BY <1>7, <2>3, <3>1, <4>1
        <4>2. CASE result'[i] = Entry(d)
          BY <1>9, <3>5, <4>2
        <4>3. QED
          BY <2>3, <4>1, <4>2
      <3>8. ~Skipped(d) => \A i \in 1 .. Len(result) : result[i].index > d
        <4>1. SUFFICES ASSUME ~Skipped(d), NEW i \in 1 .. Len(result)
                       PROVE  result[i].index > d
          OBVIOUS
        <4>2. /\ Len(result) \in 1 .. Len(result)
              /\ Last(result) = result[Len(result)]
          BY <1>4 DEF Last
        <4>3. result # <<>> /\ result[Len(result)].index # d
          BY <1>14, <4>1, <4>2 DEF Skipped, Repeated
        <4>4. /\ result[Len(result)].index >= d
              /\ result[Len(result)].index \in Int
              /\ result[i].index \in Int
          <5>1. \A w \in Structure : w.index \in Int
            BY <1>4 DEF Structure
          <5>2. result[Len(result)] \in Structure /\ result[i] \in Structure
            BY <1>4, <4>2
          <5>3. QED
            BY <1>7, <3>1, <3>3, <4>2, <5>1, <5>2
        <4>5. result[Len(result)].index > d
          BY <1>8, <4>3, <4>4
        <4>6. CASE i = Len(result)
          BY <4>5, <4>6
        <4>7. CASE i < Len(result)
          <5>1. result[i].index > result[Len(result)].index
            BY <3>1, <4>2, <4>7
          <5>2. QED
            BY <1>8, <4>4, <4>5, <5>1
        <4>8. QED
          BY <1>4, <4>6, <4>7
      <3>9. ASSUME NEW i \in 1 .. Len(result'), NEW j \in 1 .. Len(result'),
                   i < j
            PROVE  result'[i].index > result'[j].index
        <4>1. i \in 1 .. Len(result)
          BY <1>4, <2>3, <3>9
        <4>2. CASE j \in 1 .. Len(result)
          BY <2>3, <3>1, <3>9, <4>1, <4>2
        <4>3. CASE ~Skipped(d) /\ result'[j] = Entry(d)
          BY <1>9, <2>3, <3>8, <4>1, <4>3
        <4>4. QED
          BY <2>3, <4>2, <4>3
      <3>10. QED
        BY <3>1, <3>4, <3>6, <3>7, <3>9
    <2>8. MissingInv'
      <3>1. Listed \subseteq Listed'
        <4>1. SUFFICES ASSUME NEW e \in Listed
                       PROVE  e \in Listed'
          OBVIOUS
        <4>2. PICK i \in 1 .. Len(result) : result[i].index = e
          BY <1>4 DEF Listed, ToSet
        <4>3. i \in DOMAIN result' /\ result'[i].index = e
          BY <2>3, <4>2
        <4>4. QED
          BY <4>3 DEF Listed, ToSet
      <3>2. Has(d, IndexAttr) => d \in Listed'
        <4>1. CASE Skipped(d)
          <5>1. SUFFICES ASSUME Repeated(d)
                         PROVE  d \in Listed
            BY <3>1, <4>1 DEF Skipped
          <5>2. /\ Len(result) \in DOMAIN result
                /\ result[Len(result)].index = d
            BY <1>4, <5>1 DEF Repeated, Last
          <5>3. QED
            BY <5>2 DEF Listed, ToSet
        <4>2. CASE ~Skipped(d)
          <5>1. PICK i \in DOMAIN result' : result'[i].index = d
            BY <1>9, <2>3, <4>2
          <5>2. QED
            BY <5>1 DEF Listed, ToSet
        <4>3. QED
          BY <4>1, <4>2
      <3>3. \A e \in ToSet(fetched) : e = d \/ e \in ToSet(fetched')
        <4>1. ASSUME NEW e \in ToSet(fetched), e # d
              PROVE  e \in ToSet(fetched')
          <5>1. PICK i \in 1 .. Len(fetched) : fetched[i] = e
            BY <1>4 DEF ToSet
          <5>2. i # 1
            BY <1>7, <4>1, <5>1
          <5>3. PICK k : k = i - 1
            OBVIOUS
          <5>4. k \in DOMAIN fetched' /\ k \in 1 .. Len(fetched') /\ k + 1 = i
            BY <1>4, <1>7, <5>2, <5>3
          <5>5. fetched'[k] = e
            BY <1>7, <5>1, <5>4
          <5>6. QED
            BY <5>4, <5>5 DEF ToSet
        <4>2. QED
          BY <4>1
      <3>4. /\ \A e, a : Has(e, a)' = Has(e, a)
            /\ IndexAttr' = IndexAttr
        BY <1>1 DEF Has, IndexAttr
      <3>5. Overlooked' \subseteq Overlooked
        <4>1. SUFFICES ASSUME NEW e \in Overlooked'
                       PROVE  e \in Overlooked
          OBVIOUS
        <4>2. /\ e \in stayed /\ Has(e, IndexAttr) /\ e \notin Listed'
              /\ e \notin ToSet(fetched')
              /\ \E i \in 1 .. Len(devices) : i <= at /\ devices[i] = e
          BY <1>1, <3>4 DEF Overlooked
        <4>3. e \notin Listed /\ e \notin ToSet(fetched)
          BY <3>1, <3>2, <3>3, <4>2
        <4>4. QED
          BY <4>2, <4>3 DEF Overlooked
      <3>6. /\ Cardinality(Overlooked) <= removed
            /\ stayed \subseteq ToSet(devices)
            /\ ended /\ granted /\ ~cut => at >= Len(devices)
        BY <1>2, <1>3, <1>14 DEF MissingInv
      <3>7. /\ Cardinality(Overlooked') <= Cardinality(Overlooked)
            /\ Cardinality(Overlooked) \in Nat
            /\ Cardinality(Overlooked') \in Nat
        BY <1>2, <3>5, OverlookedFinite, FS_Subset, FS_CardinalityType
      <3>8. Cardinality(Overlooked') <= removed'
        BY <1>1, <1>2, <3>6, <3>7 DEF TypeOK
      <3>9. QED
        BY <1>1, <3>6, <3>8 DEF MissingInv
    <2>9. QED
      BY <1>10, <1>11, <1>12, <2>4, <2>5, <2>6, <2>7, <2>8, NotReturned
         DEF GoingOn
  <1>15. QED
    BY <1>2, <1>13, <1>14 DEF TypeOK

-----------------------------------------------------------------------------
(* The function returns.                                                     *)

\* A list whose indices fall has as many indices as entries.
LEMMA FallingCardinality ==
  ASSUME NEW r \in Seq(Structure),
         \A i, j \in 1 .. Len(r) : i < j => r[i].index > r[j].index
  PROVE  Cardinality({w.index : w \in ToSet(r)}) = Len(r)
  <1>1. Len(r) \in Nat /\ DOMAIN r = 1 .. Len(r)
    OBVIOUS
  <1>2. PICK S : S = {w.index : w \in ToSet(r)}
    OBVIOUS
  <1>3. PICK f : f = [i \in 1 .. Len(r) |-> r[i].index]
    OBVIOUS
  <1>4. \A i \in 1 .. Len(r) : r[i].index \in S /\ r[i].index \in Int
    <2>1. \A w \in Structure : w.index \in Int
      BY CommandsAssumption DEF Structure
    <2>2. QED
      BY <1>1, <1>2, <2>1 DEF ToSet
  <1>5. f \in [1 .. Len(r) -> S]
    BY <1>3, <1>4
  <1>6. ASSUME NEW i \in 1 .. Len(r), NEW j \in 1 .. Len(r), f[i] = f[j]
        PROVE  i = j
    <2>1. r[i].index = r[j].index
      BY <1>3, <1>6
    <2>2. ~(i < j) /\ ~(j < i)
      BY <1>4, <2>1
    <2>3. QED
      BY <1>1, <2>2
  <1>7. ASSUME NEW e \in S
        PROVE  \E i \in 1 .. Len(r) : f[i] = e
    BY <1>1, <1>2, <1>3 DEF ToSet
  <1>8. f \in Bijection(1 .. Len(r), S)
    BY <1>5, <1>6, <1>7 DEF Bijection, Injection, IsInjective, Surjection
  <1>9. /\ IsFiniteSet(1 .. Len(r)) /\ Cardinality(1 .. Len(r)) = Len(r)
    BY <1>1, FS_Interval
  <1>10. ExistsBijection(1 .. Len(r), S)
    BY <1>8 DEF ExistsBijection
  <1>11. QED
    BY <1>2, <1>9, <1>10, FS_Bijection

LEMMA KeptProperties ==
  ASSUME NEW r \in Seq(Structure)
  PROVE  /\ Kept(r) \in Seq(Structure)
         /\ \A i \in 1 .. Len(Kept(r)) :
              \E j \in 1 .. Len(r) :
                /\ Kept(r)[i] = r[j]
                /\ call = "find_all_supported" => Supported(r[j].caps)
         /\ \A j \in 1 .. Len(r) :
              (call = "find_all_supported" => Supported(r[j].caps)) =>
                \E i \in 1 .. Len(Kept(r)) : Kept(r)[i] = r[j]
         /\ (\A i, j \in 1 .. Len(r) : i < j => r[i].index > r[j].index) =>
              \A i, j \in 1 .. Len(Kept(r)) :
                i < j => Kept(r)[i].index > Kept(r)[j].index
         /\ call # "find_all_supported" => Kept(r) = r
  <1>1. CASE call # "find_all_supported"
    <2>1. Kept(r) = r
      BY <1>1 DEF Kept
    <2>2. QED
      BY <1>1, <2>1
  <1>2. CASE call = "find_all_supported"
    <2>1. PICK k : k = Kept(r)
      OBVIOUS
    <2>2. Supports(r, k, Len(r))
      BY <1>2, <2>1, SupportedOfProperties DEF Kept
    <2>3. QED
      BY <1>2, <2>1, <2>2 DEF Supports
  <1>3. QED
    BY <1>1, <1>2

LEMMA ReturnStep ==
  ASSUME CommandsInv, Return
  PROVE  CommandsInv'
  <1>1. /\ pc = "receive" /\ granted /\ ended /\ fetched = <<>>
        /\ asked = "get" => Len(received) = 1
        /\ phase' = "idle" /\ pc' = "done" /\ result' = Kept(result)
        /\ UNCHANGED <<asked, granted, received, devices, born, shape, at,
                       fetched, ended, call, thrown, code, stayed, removed,
                       added, burst, cut>>
    BY DEF Return, Channel!Conclude, listVars, answerVars, history
  <1>2. TypeOK /\ PhaseInv /\ ListInv /\ SingleInv /\ EntriesInv /\ OrderInv
        /\ MissingInv
    BY DEF CommandsInv
  <1>3. result \in Seq(Structure) /\ Len(result) \in Nat
    BY <1>2 DEF TypeOK, Structure
  <1>4. PICK k : k = Kept(result)
    OBVIOUS
  <1>5. /\ result' = k /\ k \in Seq(Structure) /\ Len(k) \in Nat
        /\ \A i \in 1 .. Len(k) :
             \E j \in 1 .. Len(result) :
               /\ k[i] = result[j]
               /\ call = "find_all_supported" => Supported(result[j].caps)
        /\ \A j \in 1 .. Len(result) :
             (call = "find_all_supported" => Supported(result[j].caps)) =>
               \E i \in 1 .. Len(k) : k[i] = result[j]
        /\ (\A i, j \in 1 .. Len(result) :
              i < j => result[i].index > result[j].index) =>
             \A i, j \in 1 .. Len(k) : i < j => k[i].index > k[j].index
        /\ call # "find_all_supported" => k = result
    <2>1. PICK r \in Seq(Structure) : r = result
      BY <1>3
    <2>2. k = Kept(r) /\ result' = k
      BY <1>1, <1>4, <2>1
    <2>3. /\ k \in Seq(Structure)
          /\ \A i \in 1 .. Len(k) :
               \E j \in 1 .. Len(r) :
                 /\ k[i] = r[j]
                 /\ call = "find_all_supported" => Supported(r[j].caps)
          /\ \A j \in 1 .. Len(r) :
               (call = "find_all_supported" => Supported(r[j].caps)) =>
                 \E i \in 1 .. Len(k) : k[i] = r[j]
          /\ (\A i, j \in 1 .. Len(r) : i < j => r[i].index > r[j].index) =>
               \A i, j \in 1 .. Len(k) : i < j => k[i].index > k[j].index
          /\ call # "find_all_supported" => k = r
      BY <2>2, KeptProperties
    <2>4. Len(k) \in Nat
      BY <2>3
    <2>5. QED
      BY <2>1, <2>2, <2>3, <2>4
  <1>6. TypeOK' /\ PhaseInv' /\ ListInv'
    <2>1. TypeOK'
      BY <1>1, <1>2, <1>5 DEF TypeOK, Structure
    <2>2. PhaseInv' /\ ListInv'
      BY <1>1, <1>2 DEF PhaseInv, ListInv
    <2>3. QED
      BY <2>1, <2>2
  <1>7. SingleInv' /\ OrderInv' /\ MissingInv'
    BY <1>1 DEF SingleInv, OrderInv, MissingInv
  <1>8. ASSUME call \in Lists
        PROVE  \A i \in 1 .. Len(result) :
                 /\ result[i].index \in 1 .. born
                 /\ result[i].caps = shape[result[i].index].caps
    BY <1>1, <1>2, <1>8 DEF EntriesInv
  <1>9. ASSUME call \in Singles
        PROVE  /\ k = result /\ Len(result) = 1
               /\ result[1].index \in 1 .. born
    <2>1. asked = "get" /\ received \in Seq(Nat) /\ call \notin Lists
      BY <1>1, <1>2, <1>9 DEF PhaseInv, Lists, Singles
    <2>2. received # <<>>
      BY <1>1, <2>1
    <2>3. Len(result) = 1 /\ result[1].index \in 1 .. born
      BY <1>1, <1>2, <1>9, <2>2 DEF SingleInv
    <2>4. QED
      BY <1>5, <1>9, <2>3 DEF Singles
  <1>10. \A e \in Listed' : \E i \in 1 .. Len(k) : k[i].index = e
    BY <1>5 DEF Listed, ToSet
  <1>11. \A i \in 1 .. Len(k) : k[i].index \in Listed'
    BY <1>5 DEF Listed, ToSet
  <1>12. EntriesInv'
    <2>1. ASSUME call \in Lists, NEW i \in 1 .. Len(k)
          PROVE  /\ k[i].index \in 1 .. born
                 /\ k[i].caps = shape[k[i].index].caps
      BY <1>5, <1>8, <2>1
    <2>2. QED
      BY <1>1, <1>5, <2>1 DEF EntriesInv
  <1>13. Described'
    <2>1. CASE call \in Lists
      <3>1. \A e \in Listed' : e \in 1 .. born
        BY <1>5, <1>8, <1>10, <2>1
      <3>2. call \notin Singles
        BY <2>1 DEF Lists, Singles
      <3>3. QED
        BY <1>1, <3>1, <3>2 DEF Described
    <2>2. CASE call \in Singles
      <3>1. \A e \in Listed' : e \in 1 .. born
        <4>1. \A i \in 1 .. Len(k) : i = 1
          BY <1>9, <2>2
        <4>2. k[1].index \in 1 .. born
          BY <1>9, <2>2
        <4>3. QED
          BY <1>10, <4>1, <4>2
      <3>2. Len(result') = 1
        BY <1>5, <1>9, <2>2
      <3>3. QED
        BY <1>1, <3>1, <3>2 DEF Described
    <2>3. QED
      BY <1>2, <2>1, <2>2 DEF TypeOK
  <1>14. OnlySupported'
    <2>1. SUFFICES ASSUME call = "find_all_supported", NEW e \in Listed'
                   PROVE  Supported(shape[e].caps)
      BY <1>1 DEF OnlySupported
    <2>2. call \in Lists
      BY <2>1 DEF Lists
    <2>3. PICK i \in 1 .. Len(k) : k[i].index = e
      BY <1>10
    <2>4. PICK j \in 1 .. Len(result) :
            k[i] = result[j] /\ Supported(result[j].caps)
      BY <1>5, <2>1
    <2>5. QED
      BY <1>8, <2>2, <2>3, <2>4
  <1>15. NoRepeats'
    <2>1. SUFFICES ASSUME ~burst
                   PROVE  Cardinality(Listed') = Len(k)
      BY <1>1, <1>5 DEF NoRepeats
    <2>2. \A i, j \in 1 .. Len(k) : i < j => k[i].index > k[j].index
      <3>1. CASE call \in Lists
        <4>1. \A i, j \in 1 .. Len(result) :
                i < j => result[i].index > result[j].index
          BY <1>1, <1>2, <2>1, <3>1 DEF OrderInv
        <4>2. QED
          BY <1>5, <4>1
      <3>2. CASE call \in Singles
        <4>1. Len(k) = 1
          BY <1>9, <3>2
        <4>2. \A i, j \in 1 .. Len(k) : ~(i < j)
          BY <4>1
        <4>3. QED
          BY <4>2
      <3>3. QED
        BY <1>2, <3>1, <3>2 DEF TypeOK
    <2>3. Cardinality({w.index : w \in ToSet(k)}) = Len(k)
      BY <1>5, <2>2, FallingCardinality
    <2>4. QED
      BY <1>5, <2>3 DEF Listed
  <1>16. MissingBounded'
    <2>1. SUFFICES ASSUME call \in Lists, ~cut
                   PROVE  Cardinality((Expected \ Listed)') <= removed
      BY <1>1 DEF MissingBounded
    <2>2. /\ stayed \subseteq ToSet(devices)
          /\ Cardinality(Overlooked) <= removed
          /\ at >= Len(devices)
      BY <1>1, <1>2, <2>1 DEF MissingInv
    <2>3. (Expected \ Listed)' \subseteq Overlooked
      <3>1. SUFFICES ASSUME NEW d \in Expected', d \notin Listed'
                     PROVE  d \in Overlooked
        OBVIOUS
      <3>2. /\ d \in stayed /\ Has(d, IndexAttr)
            /\ call = "find_all_supported" => Supported(shape[d].caps)
        BY <1>1 DEF Expected, Has, IndexAttr
      <3>3. d \notin Listed
        <4>1. SUFFICES ASSUME d \in Listed
                       PROVE  FALSE
          OBVIOUS
        <4>2. PICK j \in 1 .. Len(result) : result[j].index = d
          BY <1>3, <4>1 DEF Listed, ToSet
        <4>3. result[j].caps = shape[d].caps
          BY <1>8, <2>1, <4>2
        <4>4. PICK i \in 1 .. Len(k) : k[i] = result[j]
          BY <1>5, <3>2, <4>2, <4>3
        <4>5. QED
          BY <1>11, <3>1, <4>2, <4>4
      <3>4. d \notin ToSet(fetched)
        BY <1>1 DEF ToSet
      <3>5. \E i \in 1 .. Len(devices) : i <= at /\ devices[i] = d
        <4>1. devices \in Seq(Devices) /\ Len(devices) \in Nat /\ at \in Nat
          BY <1>2, CommandsAssumption DEF TypeOK
        <4>2. PICK i \in 1 .. Len(devices) : devices[i] = d
          BY <2>2, <3>2, <4>1 DEF ToSet
        <4>3. i <= at
          BY <2>2, <4>1
        <4>4. QED
          BY <4>2, <4>3
      <3>6. QED
        BY <3>2, <3>3, <3>4, <3>5 DEF Overlooked
    <2>4. PICK S : S = (Expected \ Listed)'
      OBVIOUS
    <2>5. /\ Cardinality(S) <= Cardinality(Overlooked)
          /\ Cardinality(Overlooked) \in Nat
          /\ Cardinality(S) \in Nat
      BY <1>2, <2>3, <2>4, OverlookedFinite, FS_Subset, FS_CardinalityType
    <2>6. removed \in Nat
      BY <1>2 DEF TypeOK
    <2>7. QED
      BY <2>2, <2>4, <2>5, <2>6
  <1>17. QED
    BY <1>6, <1>7, <1>12, <1>13, <1>14, <1>15, <1>16 DEF CommandsInv

-----------------------------------------------------------------------------
(* The theorems.                                                             *)

LEMMA CommandsInvStep ==
  ASSUME CommandsInv, [Next]_vars
  PROVE  CommandsInv'
  <1>1. CASE UNCHANGED vars
    BY <1>1, StutterStep
  <1>2. CASE OpenSocket
    BY <1>2, OpenSocketStep
  <1>3. CASE SocketFails \/ RequestFails \/ HandleThrows \/ Refused
    BY <1>3, ThrowingSteps
  <1>4. CASE RequestList
    BY <1>4, RequestListStep
  <1>5. CASE RequestOne \/ RequestNew
    BY <1>5, RequestSingleStep
  <1>6. CASE Handle
    BY <1>6, HandleStep
  <1>7. CASE Return
    BY <1>7, ReturnStep
  <1>8. CASE Fetch
    BY <1>8, FetchStep
  <1>9. CASE EndDump
    BY <1>9, EndDumpStep
  <1>10. CASE Plug
    BY <1>10, PlugStep
  <1>11. CASE Unplug
    BY <1>11, UnplugStep
  <1>12. QED
    BY <1>1, <1>2, <1>3, <1>4, <1>5, <1>6, <1>7, <1>8, <1>9, <1>10, <1>11
       DEF Next, Library, Kernel

LEMMA CommandsInvariant == Spec => []CommandsInv
  <1>1. Init => CommandsInv
    BY CommandsInvInit
  <1>2. CommandsInv /\ [Next]_vars => CommandsInv'
    BY CommandsInvStep
  <1>3. QED
    BY <1>1, <1>2, PTL DEF Spec

\* The variables of the kernel, the library and the caller keep to their
\* ranges; no NlError has a negative code (TypeOK, error.cpp:7-12).
THEOREM CommandsTypeCorrect == Spec => []TypeOK
  <1>1. CommandsInv => TypeOK
    BY DEF CommandsInv
  <1>2. QED
    BY <1>1, CommandsInvariant, PTL

\* A list lacks no more devices than were removed while it was made
\* (MissingBounded, commands.cpp:194-259).
THEOREM CommandsMissingBounded == Spec => []MissingBounded
  <1>1. CommandsInv => MissingBounded
    BY DEF CommandsInv
  <1>2. QED
    BY <1>1, CommandsInvariant, PTL

\* To compare with the last structure is enough to list no device twice, as
\* long as one device at a time comes (NoRepeats, commands.cpp:200, 239).
THEOREM CommandsNoRepeats == Spec => []NoRepeats
  <1>1. CommandsInv => NoRepeats
    BY DEF CommandsInv
  <1>2. QED
    BY <1>1, CommandsInvariant, PTL

\* A radio is listed as supported for what its own message says
\* (OnlySupported, physical.cpp:104-111).
THEOREM CommandsOnlySupported == Spec => []OnlySupported
  <1>1. CommandsInv => OnlySupported
    BY DEF CommandsInv
  <1>2. QED
    BY <1>1, CommandsInvariant, PTL

\* Nothing a function returns is as it was before a message came (Described,
\* commands.cpp:168-171, 188-191, 227-230).
THEOREM CommandsDescribed == Spec => []Described
  <1>1. CommandsInv => Described
    BY DEF CommandsInv
  <1>2. QED
    BY <1>1, CommandsInvariant, PTL
=============================================================================
