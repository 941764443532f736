----------------------------- MODULE FilterMatch -----------------------------
(* ModuleFilter::match (src/cec/module_filter.cpp): how a filter of ours is  *)
(* compared with one that was heard, down to the loops of FilterList::match, *)
(* which test the lists' sizes and not their indices, so that a comparison   *)
(* that finds nothing runs off the end of a list.  What a program does then  *)
(* is not defined: here it may return anything, or not return.               *)
EXTENDS Naturals, Sequences

CONSTANTS
  Ids,           \* title ids
  Bits,          \* bit positions of a mask, value or expectation byte
  Octets,        \* the values of a raw byte
  RawSize,       \* bytes in a raw bytes filter (16)
  TitleFilters,  \* the title filters and
  RawFilters,    \* raw bytes filters that lists are made of
  MaxList        \* bound: entries of a list

EXCHANGE == 0
RECV_ONLY == 1
SEND_ONLY == 2
SEND_RECV == 3
SendModes == {EXCHANGE, RECV_ONLY, SEND_ONLY, SEND_RECV}

\* A byte is the set of its bits that are 1.
MVE == [mask : SUBSET Bits, value : SUBSET Bits, expectation : SUBSET Bits]
TitleFilter == [title_id : Ids, send_mode : SendModes, mve_list : Seq(MVE)]
\* cmp_length is whatever was received, or never set (module_filter.cpp:144).
RawBytesFilter == [cmp_length : Nat, raw_bytes : [1 .. RawSize -> Octets]]

ASSUME FilterAssumption ==
  /\ TitleFilters \subseteq TitleFilter
  /\ RawFilters \subseteq RawBytesFilter
  /\ RawSize \in Nat /\ MaxList \in Nat

-----------------------------------------------------------------------------
(* Matching of two entries.                                                  *)

\* SendMode::match
SendModeMatch(a, b) ==
  \/ a = EXCHANGE /\ b = EXCHANGE
  \/ a = RECV_ONLY /\ b \in {SEND_ONLY, SEND_RECV}
  \/ a = SEND_ONLY /\ b \in {RECV_ONLY, SEND_RECV}
  \/ a = SEND_RECV /\ b # EXCHANGE

\* What the one expects under its mask is what the other has, both ways.
MVEMatch(a, b) ==
  /\ a.mask \cap a.expectation = a.mask \cap b.value
  /\ b.mask \cap b.expectation = b.mask \cap a.value

TitleMatch(a, b) ==
  /\ a.title_id = b.title_id
  /\ SendModeMatch(a.send_mode, b.send_mode)
  /\ Len(a.mve_list) = Len(b.mve_list)
  /\ \A k \in 1 .. Len(a.mve_list) : MVEMatch(a.mve_list[k], b.mve_list[k])

\* std::equal over the first cmp_length bytes, when they are all there.
SamePrefix(a, b) ==
  \A k \in 1 .. RawSize :
    k <= a.cmp_length => a.raw_bytes[k] = b.raw_bytes[k]
RawMatch(a, b) == a.cmp_length = b.cmp_length /\ SamePrefix(a, b)

\* Bytes alike to the end and a length beyond it: std::equal reads on.
RawOverrun(a, b) == RawMatch(a, b) /\ a.cmp_length > RawSize

\* What match is for: some entry of the one matches some entry of the other.
Matches(own, other) ==
  \/ \E i \in 1 .. Len(own.title), j \in 1 .. Len(other.title) :
       TitleMatch(own.title[i], other.title[j])
  \/ \E i \in 1 .. Len(own.raw), j \in 1 .. Len(other.raw) :
       RawMatch(own.raw[i], other.raw[j])

-----------------------------------------------------------------------------
(* The loops.                                                                *)

VARIABLES
  own, other,    \* the two filters, each a list of titles and one of raw bytes
  pc,            \* the list being compared: "title", "raw"; or "done", "lost"
  i, j,          \* the loops' indices, from 0
  result,        \* what match returned
  undefined      \* history: the behaviour has become undefined

vars == <<own, other, pc, i, j, result, undefined>>

Lists(S) == UNION {[1 .. n -> S] : n \in 0 .. MaxList}

\* Variant: the inner loop leaves the first entry out.
InitPastFirst ==
  /\ own \in [title : Lists(TitleFilters), raw : Lists(RawFilters)]
  /\ other \in [title : Lists(TitleFilters), raw : Lists(RawFilters)]
  /\ pc = "title" /\ i = 0 /\ j = 1
  /\ result = FALSE /\ undefined = FALSE

Init ==
  /\ own \in [title : Lists(TitleFilters), raw : Lists(RawFilters)]
  /\ other \in [title : Lists(TitleFilters), raw : Lists(RawFilters)]
  /\ pc = "title" /\ i = 0 /\ j = 0
  /\ result = FALSE /\ undefined = FALSE

Mine == IF pc = "title" THEN own.title ELSE own.raw
Theirs == IF pc = "title" THEN other.title ELSE other.raw

Comparing == pc \in {"title", "raw"}
InBounds == i < Len(Mine) /\ j < Len(Theirs)
EntryMatch(a, b) == IF pc = "title" THEN TitleMatch(a, b) ELSE RawMatch(a, b)
Overrun(a, b) == pc = "raw" /\ RawOverrun(a, b)

\* Variant: title filters of ours are asked for before raw bytes count.
NothingOfMineEnds ==
  /\ Comparing
  /\ Mine = <<>>
  /\ pc' = "done"
  /\ UNCHANGED <<own, other, i, j, result, undefined>>

\* this->count() is 0: return false, and || goes on to the raw bytes.
NothingOfMine ==
  /\ Comparing
  /\ Mine = <<>>
  /\ pc' = IF pc = "title" THEN "raw" ELSE "done"
  /\ UNCHANGED <<own, other, i, j, result, undefined>>

\* return true
Found ==
  /\ Comparing
  /\ InBounds
  /\ EntryMatch(Mine[i + 1], Theirs[j + 1])
  /\ ~Overrun(Mine[i + 1], Theirs[j + 1])
  /\ pc' = "done"
  /\ result' = TRUE
  /\ UNCHANGED <<own, other, i, j, undefined>>

\* Variant: an index beyond the end is one more entry that does not match.
NextBeyondTheEnd ==
  /\ Comparing
  /\ Mine # <<>>
  /\ InBounds => ~EntryMatch(Mine[i + 1], Theirs[j + 1])
  /\ j' = j + 1
  /\ UNCHANGED <<own, other, pc, i, result, undefined>>

\* j++, as long as other.count() is not 0
NextOfTheirs ==
  /\ Comparing
  /\ InBounds
  /\ ~EntryMatch(Mine[i + 1], Theirs[j + 1])
  /\ j' = j + 1
  /\ UNCHANGED <<own, other, pc, i, result, undefined>>

\* An index beyond the end of a vector, the bytes beyond the end of a filter,
\* or the outer loop going round for ever with an empty list heard.
OffTheEnd ==
  /\ Mine # <<>>
  /\ InBounds => Overrun(Mine[i + 1], Theirs[j + 1])

Undefined ==
  /\ Comparing
  /\ OffTheEnd
  /\ undefined' = TRUE
  /\ \/ pc' = "done" /\ result' \in BOOLEAN
     \/ pc' = "lost" /\ UNCHANGED result
  /\ UNCHANGED <<own, other, i, j>>

Next == NothingOfMine \/ Found \/ NextOfTheirs \/ Undefined

Spec == Init /\ [][Next]_vars

-----------------------------------------------------------------------------
(* Properties.                                                               *)

\* The indices and the result keep to their ranges, however the comparison
\* goes: j stops one past the end at most, and i does not move as long as
\* nothing is undefined (with an empty list heard it runs away: OffTheEnd).
TypeOK ==
  /\ own \in [title : Lists(TitleFilters), raw : Lists(RawFilters)]
  /\ other \in [title : Lists(TitleFilters), raw : Lists(RawFilters)]
  /\ pc \in {"title", "raw", "done", "lost"}
  /\ i = 0 /\ j \in 0 .. MaxList
  /\ result \in BOOLEAN /\ undefined \in BOOLEAN

\* As long as nothing undefined has happened, match returns true exactly when
\* some entry matches some entry (module_filter.cpp:92-95, 464-473).
RightWhenDefined ==
  pc = "done" /\ ~undefined => (result <=> Matches(own, other))

\* The first entry of ours, the only one that is ever compared, matches
\* nothing that was heard.
FirstTitleFails ==
  /\ own.title # <<>>
  /\ \A k \in 1 .. Len(other.title) : ~TitleMatch(own.title[1], other.title[k])
FirstRawFails ==
  /\ own.raw # <<>>
  /\ \A k \in 1 .. Len(other.raw) : ~RawMatch(own.raw[1], other.raw[k])
ClaimsTooMuch ==
  \E k \in 1 .. Len(own.raw) : own.raw[k].cmp_length > RawSize

\* "return false;" (module_filter.cpp:472): a comparison that finds nothing is
\* over and has returned false.  The code reaches that line only when the list
\* of ours is empty.
NoMatchReturnsFalse ==
  ~Matches(own, other) =>
    ~undefined /\ (pc = "done" => result = FALSE)

\* Nothing undefined happens but for one of three reasons (the loops of
\* module_filter.cpp:464-473): the first title filter of ours matches none
\* heard, or the first raw bytes filter none, or one claims bytes it has not.
UndefinedOnlyThen ==
  undefined => FirstTitleFails \/ FirstRawFails \/ ClaimsTooMuch
=============================================================================
