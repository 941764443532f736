------------------------------- MODULE Crypto -------------------------------
(* The two keys of src/crypto/crypto.cpp and the session key made of them.   *)
(* Both are global to a process and loaded any number of times, from an      *)
(* array of the key's size or from a file of any length; nothing says whether*)
(* they have been.  Each party of a session is a process of its own.  HMAC   *)
(* and AES are functions: what they compute is known by what they are given. *)
EXTENDS Naturals, Sequences

CONSTANTS
  Parties,     \* processes that take part in Streetpass
  Peers,       \* what they are known by: filter key and address
  Contents,    \* what a file or an array holds
  Lengths,     \* bytes there are in a file
  NormalSize,  \* bytes of normal_key (16)
  CecdSize,    \* and of cecd_key (17)
  MaxLoads     \* bound: loads of a party

Keys == {"normal", "cecd"}
Size(k) == IF k = "normal" THEN NormalSize ELSE CecdSize
Zero == [content |-> "zero", at |-> 0]

ASSUME CryptoAssumption ==
  /\ NormalSize \in Nat \ {0} /\ CecdSize \in Nat \ {0}
  /\ Lengths \subseteq Nat /\ MaxLoads \in Nat /\ "zero" \notin Contents

VARIABLES
  key,         \* of each party: each byte of its keys, and where it is from
  loads        \* history: what was loaded into each key, and how long it was

vars == <<key, loads>>

Init ==
  /\ key = [p \in Parties |-> [k \in Keys |-> [i \in 1 .. Size(k) |-> Zero]]]
  /\ loads = [p \in Parties |-> [k \in Keys |-> <<>>]]

-----------------------------------------------------------------------------
\* Variants: the sink of any file has the size of normal_key; what a short file
\* leaves is cleared; the key is resized.
SinkNormal(k, from) == IF from = "file" THEN NormalSize ELSE Size(k)
WrittenCleared(old, c, n) ==
  [i \in DOMAIN old |-> IF i <= n THEN [content |-> c, at |-> i] ELSE Zero]
WrittenPast(old, c, n) ==
  [i \in 1 .. n |-> [content |-> c, at |-> i]]

\* ArraySink(key.begin(), key.size()): what is longer is dropped.
Sink(k, from) == Size(k)

\* The first n bytes of the key become those of c.
Written(old, c, n) ==
  [i \in DOMAIN old |-> IF i <= n THEN [content |-> c, at |-> i] ELSE old[i]]

Load(p, k, c, n, from) ==
  /\ Len(loads[p]["normal"]) + Len(loads[p]["cecd"]) < MaxLoads
  /\ key' = [key EXCEPT ![p][k] =
               Written(@, c, IF n < Sink(k, from) THEN n ELSE Sink(k, from))]
  /\ loads' = [loads EXCEPT ![p][k] = Append(@, [content |-> c, length |-> n])]

\* load_normal_key(filepath), load_cecd_key(filepath).  A file that cannot be
\* opened throws and changes nothing; one that is too short loads what it has.
LoadFile ==
  \E p \in Parties, k \in Keys, c \in Contents, n \in Lengths :
    Load(p, k, c, n, "file")

\* load_normal_key(key), load_cecd_key(key)
LoadArray ==
  \E p \in Parties, k \in Keys, c \in Contents :
    Load(p, k, c, Size(k), "array")

Next == LoadFile \/ LoadArray

Spec == Init /\ [][Next]_vars

-----------------------------------------------------------------------------
(* streetpass_ccmp_key changes nothing.                                      *)

\* hash_block, of the master m and the client c
HashBlock(m, c) == <<m.key, c.key, m.mac, c.mac>>

\* The counter is the HMAC, under cecd_key, of the block; what it encrypts
\* under normal_key is zeros.
CcmpKey(p, m, c) ==
  [normal |-> key[p]["normal"], cecd |-> key[p]["cecd"], block |-> HashBlock(m, c)]

-----------------------------------------------------------------------------
(* Properties.                                                               *)

\* Each key keeps its size, whatever is loaded.
Byte == [content : Contents \cup {"zero"}, at : Nat]
TypeOK ==
  /\ key \in [Parties -> [Keys -> Seq(Byte)]]
  /\ \A p \in Parties, k \in Keys : Len(key[p][k]) = Size(k)
  /\ loads \in [Parties -> [Keys -> Seq([content : Contents, length : Nat])]]

\* Each byte of a key is that of the last load that reached it, or zero if
\* none did: a short file changes the beginning of a key and keeps the rest
\* (crypto.cpp:18-36).
Layered ==
  \A p \in Parties, k \in Keys : \A i \in 1 .. Size(k) :
    LET reached == {j \in 1 .. Len(loads[p][k]) : loads[p][k][j].length >= i}
    IN  /\ reached = {} => key[p][k][i] = Zero
        /\ \A j \in reached : (\A h \in reached : h <= j) =>
             key[p][k][i] = [content |-> loads[p][k][j].content, at |-> i]

\* Parties each of whose keys was last loaded whole, with the same content, or
\* never, derive the same session key, whatever was loaded before; in
\* particular a file longer than the key and an array agree (crypto.cpp:38-63).
LastWhole(p, k) ==
  loads[p][k] # <<>> => loads[p][k][Len(loads[p][k])].length >= Size(k)
LastContent(p, k) ==
  IF loads[p][k] = <<>> THEN "zero" ELSE loads[p][k][Len(loads[p][k])].content
AgreeOnceLoaded ==
  \A p, q \in Parties :
    (\A k \in Keys : LastWhole(p, k) /\ LastWhole(q, k)
                       /\ LastContent(p, k) = LastContent(q, k)) =>
      \A m, c \in Peers : CcmpKey(p, m, c) = CcmpKey(q, m, c)
=============================================================================
