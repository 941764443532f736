---------------------------- MODULE EndianTypes ----------------------------
(* How a machine of either byte order keeps an integer, EndianType           *)
(* (src/include/cec/endian_types.hpp), which converts on the way in and out, *)
(* and two bit fields of half a byte each.  A host is known by its order.    *)
EXTENDS Naturals, SequencesExt

CONSTANT Nibble        \* values of a four-bit field (16)

Orders == {"little", "big"}
ByteValues == Nibble * Nibble
MaxByte == ByteValues - 1

\* v without its last bytes, from none of them to w.
Shifted(v, w) ==
  LET left[i \in 0 .. w] == IF i = 0 THEN v ELSE left[i - 1] \div ByteValues
  IN  left

\* The first bytes of a big-endian number as numbers, from none to all of them.
Values(bytes) ==
  LET value[i \in 0 .. Len(bytes)] ==
        IF i = 0 THEN 0 ELSE value[i - 1] * ByteValues + bytes[i]
  IN  value

\* The integers of w bytes.
Words(w) == {v \in Nat : Shifted(v, w)[w] = 0}

\* The w bytes of v in the memory of a host, and the integer some bytes are.
BigMemory(v, w) == [i \in 1 .. w |-> Shifted(v, w)[w - i] % ByteValues]
Memory(host, v, w) ==
  IF host = "big" THEN BigMemory(v, w) ELSE Reverse(BigMemory(v, w))
Number(host, bytes) ==
  Values(IF host = "big" THEN bytes ELSE Reverse(bytes))[Len(bytes)]

\* host_to_le, le_to_host and the other two: the bytes are swapped if the
\* host's order is not the one wanted.
Converted(host, order, v, w) ==
  IF host = order THEN v ELSE Number("big", Memory("little", v, w))

\* m_value as it lies in memory, made of a T, and the T made of it.
Stored(host, order, v, w) == Memory(host, Converted(host, order, v, w), w)
Loaded(host, order, bytes) ==
  Converted(host, order, Number(host, bytes), Len(bytes))

\* Two bit fields in the order they are declared: the first one has the low
\* bits where bytes are little-endian, and the high ones elsewhere.
BitFields(host, first, second) ==
  IF host = "little" THEN first + Nibble * second ELSE second + Nibble * first
First(host, b) == IF host = "little" THEN b % Nibble ELSE b \div Nibble
Second(host, b) == IF host = "little" THEN b \div Nibble ELSE b % Nibble
=============================================================================
