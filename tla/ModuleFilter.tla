---------------------------- MODULE ModuleFilter ----------------------------
(* A module filter (src/cec/module_filter.cpp): its three lists as a caller  *)
(* builds them, the bytes they are sent as, and the parser of what arrives,  *)
(* which walks two streams at once: the whole, and the bytes of one list.    *)
EXTENDS EndianTypes

CONSTANTS
  Sender,        \* byte order of the machine that sends
  Receiver,      \* and of the one that receives
  TidWidth,      \* bytes of a title id (4),
  RawWidth,      \* of a raw bytes filter (16)
  KeyWidth,      \* and of a key (8)
  RawBytes,      \* the bytes of raw filters,
  RawFilters,    \* what a raw filter may be in memory,
  TitleFilters,  \* title filters,
  Keys,          \* keys and
  Flags,         \* flags a caller uses
  Noise,         \* values a byte may be changed to on the way
  MaxList,       \* bound: entries a caller puts in a list
  MaxRounds      \* bound: filters heard that are sent on

Byte == 0 .. MaxByte

SEND_RECV == 3
Kinds == {"raw", "title", "key"}
Marker(k) == CASE k = "raw" -> 0 [] k = "title" -> 1 [] k = "key" -> Nibble - 1

MVE == [1 .. 3 -> Byte]
RawFilter == [cmp_length : Byte, raw_bytes : [1 .. RawWidth -> Byte]]
TitleFilter ==
  [title_id : Words(TidWidth), send_mode : 0 .. SEND_RECV,
   mve_list : Seq(MVE)]
Key == [1 .. KeyWidth -> Byte]

ASSUME ModuleFilterAssumption ==
  /\ Nibble \in Nat /\ Nibble > SEND_RECV
  /\ TidWidth \in Nat /\ RawWidth \in Nat /\ KeyWidth \in 1 .. MaxByte
  /\ MaxList \in Nat /\ MaxRounds \in Nat /\ {Sender, Receiver} \subseteq Orders
  /\ RawBytes \subseteq Seq(Byte) /\ RawFilters \subseteq RawFilter
  /\ TitleFilters \subseteq TitleFilter
  /\ Keys \subseteq Key /\ Flags \subseteq 0 .. Nibble - 1
  /\ Noise \subseteq Byte

-----------------------------------------------------------------------------
(* Filters, lists and their bytes.                                           *)

\* Variant: the _le structures on every machine.
LayoutLe(host) == TRUE

\* std::conditional: the structures with the low field first are those of a
\* little-endian machine.
LowFirst(host) == host = "little"

Packed(host, low, high) ==
  IF LowFirst(host) THEN BitFields(host, low, high)
                    ELSE BitFields(host, high, low)
Low(host, b) == IF LowFirst(host) THEN First(host, b) ELSE Second(host, b)
High(host, b) == IF LowFirst(host) THEN Second(host, b) ELSE First(host, b)

TitleBytes(host, t) ==
  Stored(host, "big", t.title_id, TidWidth)
    \o <<Packed(host, Len(t.mve_list) % Nibble, t.send_mode)>>
    \o FlattenSeq(t.mve_list)

ElementBytes(host, k, f) ==
  CASE k = "raw" -> <<f.cmp_length>> \o f.raw_bytes
    [] k = "title" -> TitleBytes(host, f)
    [] k = "key" -> f

\* Variant: the size of a title filter without its MVE list.
ByteSizeNoMves(k, f) ==
  CASE k = "raw" -> 1 + RawWidth
    [] k = "title" -> TidWidth + 1
    [] k = "key" -> KeyWidth

\* byte_size() of a filter
ByteSize(k, f) ==
  CASE k = "raw" -> 1 + RawWidth
    [] k = "title" -> TidWidth + 1 + 3 * Len(f.mve_list)
    [] k = "key" -> KeyWidth

\* byte_size() of a list without its header
ElementsSize(k, filters) ==
  LET size[i \in 0 .. Len(filters)] ==
        IF i = 0 THEN 0 ELSE size[i - 1] + ByteSize(k, filters[i])
  IN  size[Len(filters)]

List(flags, length, filters) ==
  [flags |-> flags, length |-> length, filters |-> filters]
EmptyList == List(0, 0, <<>>)
EmptyFilter == [k \in Kinds |-> EmptyList]

\* The elements of a list, and the whole of it.
ContentBytes(host, k, l) ==
  FlattenSeq([i \in 1 .. Len(l.filters) |-> ElementBytes(host, k, l.filters[i])])
ListBytes(host, k, l) ==
  <<Packed(host, l.flags, Marker(k)), l.length>> \o ContentBytes(host, k, l)

\* Raw bytes and titles only when there are some.
Optional(host, k, m) ==
  IF m[k].filters = <<>> THEN <<>> ELSE ListBytes(host, k, m[k])

\* Variant: the key, which is always there, first.
EncodingKeyFirst(host, m) ==
  ListBytes(host, "key", m["key"])
    \o Optional(host, "raw", m) \o Optional(host, "title", m)

Encoding(host, m) ==
  Optional(host, "raw", m) \o Optional(host, "title", m)
    \o ListBytes(host, "key", m["key"])

\* ModuleFilter::byte_size, the size of the buffer Encoding is written to.
FilterSize(m) ==
  LET size(k) == 2 + ElementsSize(k, m[k].filters)
      optional(k) == IF m[k].filters = <<>> THEN 0 ELSE size(k)
  IN  size("key") + optional("raw") + optional("title")

-----------------------------------------------------------------------------
(* Parsing one filter: a set that is empty when from_stream throws.          *)

ParseRaw(s) ==
  IF Len(s) < 1 + RawWidth THEN {}
  ELSE {[cmp_length |-> s[1], raw_bytes |-> SubSeq(s, 2, 1 + RawWidth)]}

ParseTitle(s) ==
  LET head == TidWidth + 1
      count == Low(Receiver, s[head])
      mode == High(Receiver, s[head])
  IN  IF Len(s) < head \/ mode > SEND_RECV \/ Len(s) < head + 3 * count
      THEN {}
      ELSE {[title_id |-> Loaded(Receiver, "big", SubSeq(s, 1, TidWidth)),
             send_mode |-> mode,
             mve_list |-> [i \in 1 .. count |->
                             SubSeq(s, head + 3 * i - 2, head + 3 * i)]]}

ParseKey(s) == IF Len(s) < KeyWidth THEN {} ELSE {SubSeq(s, 1, KeyWidth)}

Parse(k, s) == CASE k = "raw" -> ParseRaw(s)
                 [] k = "title" -> ParseTitle(s)
                 [] k = "key" -> ParseKey(s)

Drop(s, n) == SubSeq(s, n + 1, Len(s))

-----------------------------------------------------------------------------
VARIABLES
  pc,        \* "build", "sent", "header", "elements", "parsed", "rejected"
  filter,    \* the caller's filter: flags, length and filters of each list
  wire,      \* its bytes, as they arrive
  damage,    \* history: what happened to them on the way
  rest,      \* what is left of the stream
  inner,     \* what is left of elt_steam, the stream of the current list
  kind,      \* the current list
  found,     \* the lists found so far
  decoded,   \* the filter being parsed
  rounds     \* filters heard that have been sent on (bounded)

parserVars == <<rest, inner, kind, found, decoded>>
vars == <<pc, filter, wire, damage, parserVars, rounds>>

Init ==
  /\ pc = "build"
  /\ \E key \in Keys :
       filter = [EmptyFilter EXCEPT !["key"] = List(0, KeyWidth, <<key>>)]
  /\ wire = <<>> /\ damage = "none"
  /\ rest = <<>> /\ inner = <<>> /\ kind = "raw"
  /\ found = {} /\ decoded = EmptyFilter
  /\ rounds = 0

(* ---- the caller ------------------------------------------------------------ *)

\* Variant: no limit on the number of MVEs.
AnyNumberOfMves(t) == TRUE

\* mve_list throws when number_mve would not hold the count.
MveListFits(t) == Len(t.mve_list) <= Nibble - 1

\* Variant: no limit on the size of a list.
AnySize(k, fs) == TRUE

\* filters throws when length would not hold the size.
ListFits(k, fs) == ElementsSize(k, fs) <= MaxByte

Put(k, fs) ==
  filter' = [filter EXCEPT ![k].filters = fs,
                           ![k].length = ElementsSize(k, fs) % (MaxByte + 1)]

\* The constructor throws when the bytes do not fit, and leaves the rest of them
\* and cmp_length uninitialized: they may be anything.
Made(f) == \E rb \in RawBytes : Len(rb) <= RawWidth /\ IsPrefix(rb, f.raw_bytes)

\* raw_bytes_filters().filters(...)
SetRaw ==
  /\ pc = "build"
  /\ \E fs \in BoundedSeq({f \in RawFilters : Made(f)}, MaxList) :
       ListFits("raw", fs) /\ Put("raw", fs)
  /\ UNCHANGED <<pc, wire, damage, parserVars, rounds>>

SetTitles ==
  /\ pc = "build"
  /\ \E fs \in BoundedSeq({t \in TitleFilters : MveListFits(t)}, MaxList) :
       ListFits("title", fs) /\ Put("title", fs)
  /\ UNCHANGED <<pc, wire, damage, parserVars, rounds>>

SetKey ==
  /\ pc = "build"
  /\ \E key \in Keys : Put("key", <<key>>)
  /\ UNCHANGED <<pc, wire, damage, parserVars, rounds>>

SetFlags ==
  /\ pc = "build"
  /\ \E k \in {"raw", "title"}, f \in Flags :
       filter' = [filter EXCEPT ![k].flags = f]
  /\ UNCHANGED <<pc, wire, damage, parserVars, rounds>>

\* operator bytes
Send ==
  /\ pc = "build"
  /\ pc' = "sent"
  /\ wire' = Encoding(Sender, filter)
  /\ UNCHANGED <<filter, damage, parserVars, rounds>>

(* ---- the air --------------------------------------------------------------- *)

\* What arrives: the bytes sent, a part of them, some more, others.  A vendor
\* element counts its bytes in one, with four of its own: a filter that is
\* too long for it is received as its beginning.
Arrive ==
  /\ pc = "sent"
  /\ \/ damage' = "none" /\ UNCHANGED wire
     \/ /\ damage' = "truncated"
        /\ \E n \in 0 .. Len(wire) - 1 : wire' = SubSeq(wire, 1, n)
     \/ /\ damage' = "extended"
        /\ \/ \E k \in Kinds : wire' = wire \o ListBytes(Sender, k, filter[k])
           \/ \E b \in Noise : wire' = Append(wire, b)
     \/ /\ damage' = "changed"
        /\ \E i \in 1 .. Len(wire), b \in Noise : wire' = ReplaceAt(wire, i, b)
  /\ pc' = "header"
  /\ rest' = wire'
  /\ inner' = <<>> /\ found' = {} /\ decoded' = EmptyFilter
  /\ UNCHANGED <<filter, kind, rounds>>

(* ---- ModuleFilter::from_stream --------------------------------------------- *)

\* Variant: a second list of a kind replaces the first.
AcceptsAgain(k) ==
  Marker(k) = High(Receiver, rest[1]) /\ rest[2] <= Len(rest) - 2

\* A list of a kind that has not been found, all of it there.
Accepts(k) ==
  /\ Marker(k) = High(Receiver, rest[1])
  /\ k \notin found
  /\ rest[2] <= Len(rest) - 2

ReadHeader ==
  /\ pc = "header"
  /\ Len(rest) >= 2
  /\ \E k \in Kinds :
       /\ Accepts(k)
       /\ kind' = k
       /\ found' = found \cup {k}
       /\ decoded' = [decoded EXCEPT ![k] = List(Low(Receiver, rest[1]), rest[2], <<>>)]
  /\ rest' = Drop(rest, 2)
  /\ inner' = SubSeq(rest, 3, 2 + rest[2])
  /\ pc' = "elements"
  /\ UNCHANGED <<filter, wire, damage, rounds>>

RejectHeader ==
  /\ pc = "header"
  /\ Len(rest) >= 2
  /\ \A k \in Kinds : ~Accepts(k)
  /\ pc' = "rejected"
  /\ UNCHANGED <<filter, wire, damage, parserVars, rounds>>

\* The list's own stream loses what the filter has read, the whole stream what
\* the filter says is its size; skip throws when that is not there.
ReadElement ==
  /\ pc = "elements"
  /\ inner # <<>>
  /\ \E f \in Parse(kind, inner) :
       /\ ByteSize(kind, f) <= Len(rest)
       /\ inner' = Drop(inner, Len(ElementBytes(Receiver, kind, f)))
       /\ rest' = Drop(rest, ByteSize(kind, f))
       /\ decoded' = [decoded EXCEPT ![kind].filters = Append(decoded[kind].filters, f)]
  /\ UNCHANGED <<pc, filter, wire, damage, kind, found, rounds>>

RejectElement ==
  /\ pc = "elements"
  /\ inner # <<>>
  /\ \A f \in Parse(kind, inner) : ByteSize(kind, f) > Len(rest)
  /\ pc' = "rejected"
  /\ UNCHANGED <<filter, wire, damage, parserVars, rounds>>

EndList ==
  /\ pc = "elements"
  /\ inner = <<>>
  /\ pc' = "header"
  /\ UNCHANGED <<filter, wire, damage, parserVars, rounds>>

\* Not enough left for a header: a byte that is left over is not looked at.
Finish ==
  /\ pc = "header"
  /\ Len(rest) < 2
  /\ pc' = IF Len(decoded["key"].filters) = 1 THEN "parsed" ELSE "rejected"
  /\ UNCHANGED <<filter, wire, damage, parserVars, rounds>>

\* A filter that was heard is a filter like any other: it may be sent.
SendOn ==
  /\ pc = "parsed"
  /\ rounds < MaxRounds
  /\ rounds' = rounds + 1
  /\ filter' = decoded
  /\ wire' = Encoding(Receiver, decoded)
  /\ pc' = "sent"
  /\ UNCHANGED <<damage, parserVars>>

-----------------------------------------------------------------------------
Caller == SetRaw \/ SetTitles \/ SetKey \/ SetFlags \/ Send \/ SendOn
Parser == ReadHeader \/ RejectHeader \/ ReadElement \/ RejectElement
          \/ EndList \/ Finish

Next == Caller \/ Arrive \/ Parser

Spec == Init /\ [][Next]_vars

-----------------------------------------------------------------------------
(* Properties.                                                               *)

\* Each field keeps to its width: no MVE count, length or byte that a bit
\* field or a u8 could not hold.
Elements(k) == CASE k = "raw" -> RawFilter [] k = "title" -> TitleFilter
                 [] k = "key" -> Key
ListOf(k) == [flags : 0 .. Nibble - 1, length : Byte, filters : Seq(Elements(k))]
FilterOK(m) ==
  /\ \A k \in Kinds : m[k] \in ListOf(k)
  /\ \A i \in 1 .. Len(m["title"].filters) :
       Len(m["title"].filters[i].mve_list) < Nibble
TypeOK ==
  /\ pc \in {"build", "sent", "header", "elements", "parsed", "rejected"}
  /\ FilterOK(filter) /\ FilterOK(decoded)
  /\ wire \in Seq(Byte) /\ rest \in Seq(Byte) /\ inner \in Seq(Byte)
  /\ damage \in {"none", "truncated", "extended", "changed"}
  /\ kind \in Kinds /\ found \subseteq Kinds /\ rounds \in 0 .. MaxRounds

\* Whatever has been set, or heard, a filter fills exactly the buffers its
\* bytes are written to: the length in each header is that of the list, and
\* byte_size that of the whole (module_filter.cpp:97-119, 452-462, 480-490).
EncodingFits ==
  \A m \in (CASE pc = "build" -> {filter} [] pc = "parsed" -> {decoded}
              [] OTHER -> {}) :
    /\ \A k \in Kinds : m[k].length = Len(ContentBytes(Sender, k, m[k]))
    /\ FilterSize(m) = Len(Encoding(Sender, m))

\* While a list is read, its own stream is the front of what is left of the
\* whole: the two, which advance by different measures, never part
\* (module_filter.cpp:414-419).
StreamsInStep ==
  pc = "elements" => IsPrefix(inner, rest)

\* A filter whose bytes arrive unharmed is accepted and comes out as it went
\* in, but for the flags of an empty list, which is not sent, whatever the
\* byte orders of the two machines (module_filter.hpp:131-147, 177-193).
Normal(m) == [k \in Kinds |-> IF m[k].filters = <<>> THEN EmptyList ELSE m[k]]
RoundTrip ==
  damage = "none" =>
    /\ pc # "rejected"
    /\ pc = "parsed" => decoded = Normal(filter)

\* A filter that arrives cut short, wherever the cut is, is not accepted: the
\* key comes last (module_filter.cpp:59, 116-117).
TruncatedRejected == damage = "truncated" => pc # "parsed"

\* Of a filter that is accepted no byte but a last one is ignored: the rest
\* are the lists that it now holds, and the headers of empty ones.
AllAccounted ==
  pc = "parsed" =>
    LET empty == {k \in found : decoded[k].filters = <<>>}
    IN  Len(wire) - (FilterSize(decoded) + 2 * Cardinality(empty)) \in 0 .. 1

\* No raw bytes filter that is accepted is to be compared over more bytes than
\* it has.  "raw bytes filter length cannot exceed 16 bytes"
\* (module_filter.cpp:154) is tested of the bytes a caller sets; from_stream
\* tests nothing, and match compares cmp_length bytes (139, 163-167).
RawLengthBounded ==
  pc = "parsed" =>
    \A i \in 1 .. Len(decoded["raw"].filters) :
      decoded["raw"].filters[i].cmp_length <= RawWidth
=============================================================================
