-------------------------- MODULE FilterMatchProofs --------------------------
(* The relation that match is meant to compute is symmetric, for all filters *)
(* and not only those of a run, and as long as the behaviour is defined the  *)
(* loops compute it.                                                         *)
EXTENDS FilterMatch, SequenceTheorems, TLAPS

-----------------------------------------------------------------------------
(* The relation.                                                             *)

LEMMA SendModeSymmetric ==
  ASSUME NEW a \in SendModes, NEW b \in SendModes, SendModeMatch(a, b)
  PROVE  SendModeMatch(b, a)
BY DEF SendModeMatch, SendModes, EXCHANGE, RECV_ONLY, SEND_ONLY, SEND_RECV

LEMMA MVESymmetric ==
  ASSUME NEW a, NEW b, MVEMatch(a, b)
  PROVE  MVEMatch(b, a)
BY DEF MVEMatch

LEMMA TitleSymmetric ==
  ASSUME NEW a \in TitleFilter, NEW b \in TitleFilter, TitleMatch(a, b)
  PROVE  TitleMatch(b, a)
<1>1. a.title_id = b.title_id /\ Len(a.mve_list) = Len(b.mve_list)
  BY DEF TitleMatch
<1>2. SendModeMatch(b.send_mode, a.send_mode)
  <2>1. a.send_mode \in SendModes /\ b.send_mode \in SendModes
    BY DEF TitleFilter
  <2> QED
    BY <2>1, SendModeSymmetric DEF TitleMatch
<1>3. ASSUME NEW k \in 1 .. Len(b.mve_list)
      PROVE  MVEMatch(b.mve_list[k], a.mve_list[k])
  BY <1>1, MVESymmetric DEF TitleMatch
<1> QED
  BY <1>1, <1>2, <1>3 DEF TitleMatch

LEMMA RawSymmetric ==
  ASSUME NEW a, NEW b, RawMatch(a, b)
  PROVE  RawMatch(b, a)
BY DEF RawMatch, SamePrefix

\* Two programs that hear each other agree on whether they match: what
\* ModuleFilter::match (module_filter.cpp:92-95) is meant to return does not
\* depend on which of the two filters is ours.
THEOREM MatchesSymmetric ==
  ASSUME NEW a \in [title : Seq(TitleFilter), raw : Seq(RawBytesFilter)],
         NEW b \in [title : Seq(TitleFilter), raw : Seq(RawBytesFilter)]
  PROVE  Matches(a, b) <=> Matches(b, a)
<1>1. ASSUME NEW c \in [title : Seq(TitleFilter), raw : Seq(RawBytesFilter)],
             NEW d \in [title : Seq(TitleFilter), raw : Seq(RawBytesFilter)],
             Matches(c, d)
      PROVE  Matches(d, c)
  <2>1. CASE \E m \in 1 .. Len(c.title), n \in 1 .. Len(d.title) :
               TitleMatch(c.title[m], d.title[n])
    <3>1. PICK m \in 1 .. Len(c.title), n \in 1 .. Len(d.title) :
                 TitleMatch(c.title[m], d.title[n])
      BY <2>1
    <3>2. c.title \in Seq(TitleFilter) /\ d.title \in Seq(TitleFilter)
      OBVIOUS
    <3>3. c.title[m] \in TitleFilter /\ d.title[n] \in TitleFilter
      BY <3>1, <3>2, ElementOfSeq
    <3>4. TitleMatch(d.title[n], c.title[m])
      BY <3>1, <3>3, TitleSymmetric
    <3> QED
      BY <3>1, <3>4 DEF Matches
  <2>2. CASE \E m \in 1 .. Len(c.raw), n \in 1 .. Len(d.raw) :
               RawMatch(c.raw[m], d.raw[n])
    <3>1. PICK m \in 1 .. Len(c.raw), n \in 1 .. Len(d.raw) :
                 RawMatch(c.raw[m], d.raw[n])
      BY <2>2
    <3>2. RawMatch(d.raw[n], c.raw[m])
      BY <3>1, RawSymmetric
    <3> QED
      BY <3>1, <3>2 DEF Matches
  <2> QED
    BY <1>1, <2>1, <2>2 DEF Matches
<1> QED
  BY <1>1

-----------------------------------------------------------------------------
(* The loops.                                                                *)

LEMMA ListsAreSequences ==
  ASSUME NEW S, NEW l \in Lists(S)
  PROVE  Len(l) \in 0 .. MaxList /\ (l = <<>> <=> Len(l) = 0)
<1>1. PICK n \in 0 .. MaxList : l \in [1 .. n -> S]
  BY DEF Lists
<1>2. n \in Nat
  BY <1>1, FilterAssumption
<1>3. l \in Seq(S)
  BY <1>1, <1>2, IsASeq
<1>4. Len(l) = n
  BY <1>1, <1>2, <1>3, LenProperties
<1> QED
  BY <1>1, <1>2, <1>3, <1>4, EmptySeq

\* Where the loops are: nothing is compared but the first entry of ours, with
\* those of theirs in turn, and no title filter of ours is left behind.
Progress ==
  /\ pc = "raw" => own.title = <<>>
  /\ pc = "title" => \A k \in 1 .. j : ~TitleMatch(own.title[1], other.title[k])
  /\ pc = "raw" => \A k \in 1 .. j : ~RawMatch(own.raw[1], other.raw[k])

\* The inductive invariant: the above, where j may be, and the properties.
Loops ==
  /\ TypeOK
  /\ j > 0 /\ pc = "title" => own.title # <<>> /\ j <= Len(other.title)
  /\ j > 0 /\ pc = "raw" => own.raw # <<>> /\ j <= Len(other.raw)
  /\ Comparing => ~result /\ ~undefined
  /\ Progress
  /\ RightWhenDefined
  /\ UndefinedOnlyThen

LEMMA LoopsInit == Init => Loops
<1> SUFFICES ASSUME Init PROVE Loops
  OBVIOUS
<1>1. TypeOK
  <2>1. /\ own \in [title : Lists(TitleFilters), raw : Lists(RawFilters)]
        /\ other \in [title : Lists(TitleFilters), raw : Lists(RawFilters)]
    BY DEF Init
  <2>2. /\ pc \in {"title", "raw", "done", "lost"}
        /\ i = 0 /\ j \in 0 .. MaxList
    BY FilterAssumption DEF Init
  <2>3. result \in BOOLEAN /\ undefined \in BOOLEAN
    BY DEF Init
  <2> QED
    BY <2>1, <2>2, <2>3 DEF TypeOK
<1>2. Progress /\ RightWhenDefined /\ UndefinedOnlyThen
  BY DEF Init, Progress, RightWhenDefined, UndefinedOnlyThen
<1> QED
  BY <1>1, <1>2 DEF Init, Loops, Comparing

LEMMA Sizes ==
  ASSUME TypeOK
  PROVE  /\ Len(own.title) \in 0 .. MaxList /\ Len(other.title) \in 0 .. MaxList
         /\ Len(own.raw) \in 0 .. MaxList /\ Len(other.raw) \in 0 .. MaxList
         /\ own.title = <<>> <=> Len(own.title) = 0
         /\ own.raw = <<>> <=> Len(own.raw) = 0
         /\ MaxList \in Nat /\ j \in Nat /\ i = 0
<1>1. /\ own.title \in Lists(TitleFilters) /\ other.title \in Lists(TitleFilters)
      /\ own.raw \in Lists(RawFilters) /\ other.raw \in Lists(RawFilters)
  BY DEF TypeOK
<1>2. MaxList \in Nat /\ j \in Nat /\ i = 0
  BY FilterAssumption DEF TypeOK
<1> QED
  BY <1>1, <1>2, ListsAreSequences

LEMMA NothingOfMineStep ==
  ASSUME Loops, NothingOfMine
  PROVE  Loops'
<1> USE DEF Loops, NothingOfMine, Mine, Theirs, Comparing
<1>1. TypeOK' /\ j = 0
  BY DEF TypeOK
<1>2. Progress'
  BY <1>1 DEF Progress
<1>3. UndefinedOnlyThen'
  BY DEF UndefinedOnlyThen
<1>4. RightWhenDefined'
  <2>1. CASE pc = "title"
    BY <2>1 DEF RightWhenDefined
  <2>2. CASE pc = "raw"
    <3>1. Len(own.title) = 0 /\ Len(own.raw) = 0
      BY <2>2, Sizes DEF Progress
    <3>2. ~Matches(own, other)
      BY <3>1 DEF Matches
    <3> QED
      BY <2>2, <3>2 DEF RightWhenDefined
  <2> QED
    BY <2>1, <2>2
<1> QED
  BY <1>1, <1>2, <1>3, <1>4

LEMMA FoundStep ==
  ASSUME Loops, Found
  PROVE  Loops'
<1> USE DEF Loops, Found, Mine, Theirs, Comparing, InBounds, EntryMatch
<1>1. TypeOK'
  BY DEF TypeOK
<1>2. Progress' /\ UndefinedOnlyThen'
  BY DEF Progress, UndefinedOnlyThen
<1>3. Matches(own, other)
  <2>1. i + 1 = 1 /\ j + 1 \in Nat /\ j + 1 >= 1
    BY Sizes
  <2>2. CASE pc = "title"
    <3>1. 1 \in 1 .. Len(own.title) /\ j + 1 \in 1 .. Len(other.title)
      BY <2>1, <2>2, Sizes
    <3> QED
      BY <2>1, <2>2, <3>1 DEF Matches
  <2>3. CASE pc = "raw"
    <3>1. 1 \in 1 .. Len(own.raw) /\ j + 1 \in 1 .. Len(other.raw)
      BY <2>1, <2>3, Sizes
    <3> QED
      BY <2>1, <2>3, <3>1 DEF Matches
  <2> QED
    BY <2>2, <2>3
<1>4. RightWhenDefined'
  BY <1>3 DEF RightWhenDefined
<1> QED
  BY <1>1, <1>2, <1>4

LEMMA NextOfTheirsStep ==
  ASSUME Loops, NextOfTheirs
  PROVE  Loops'
<1> USE DEF Loops, NextOfTheirs, Mine, Theirs, Comparing, InBounds, EntryMatch
<1>1. TypeOK'
  BY Sizes DEF TypeOK
<1>2. i + 1 = 1 /\ j \in Nat /\ \A k \in 1 .. j + 1 : k \in 1 .. j \/ k = j + 1
  BY Sizes
<1>3. Progress'
  BY <1>2 DEF Progress
<1>4. UndefinedOnlyThen' /\ RightWhenDefined'
  BY DEF UndefinedOnlyThen, RightWhenDefined
<1>5. /\ pc = "title" => own.title # <<>> /\ j + 1 <= Len(other.title)
      /\ pc = "raw" => own.raw # <<>> /\ j + 1 <= Len(other.raw)
  BY Sizes
<1> QED
  BY <1>1, <1>3, <1>4, <1>5

LEMMA UndefinedStep ==
  ASSUME Loops, Undefined
  PROVE  Loops'
<1>0. own' = own /\ other' = other
  BY DEF Undefined
<1> USE DEF Loops, Undefined, Mine, Theirs, Comparing
<1>1. TypeOK'
  BY DEF TypeOK
<1>2. Progress' /\ RightWhenDefined'
  BY DEF Progress, RightWhenDefined
<1>3. ASSUME ~InBounds PROVE UndefinedOnlyThen'
  <2>1. CASE pc = "title"
    <3>1. j >= Len(other.title) /\ own.title # <<>>
      BY <1>3, <2>1, Sizes DEF InBounds, OffTheEnd
    <3>2. \A k \in 1 .. Len(other.title) : k \in 1 .. j
      BY <3>1, Sizes
    <3>3. FirstTitleFails
      BY <2>1, <3>1, <3>2 DEF FirstTitleFails, Progress
    <3>4. FirstTitleFails'
      BY <3>3, <1>0 DEF FirstTitleFails
    <3> QED
      BY <3>4 DEF UndefinedOnlyThen
  <2>2. CASE pc = "raw"
    <3>1. j >= Len(other.raw) /\ own.raw # <<>>
      BY <1>3, <2>2, Sizes DEF InBounds, OffTheEnd
    <3>2. \A k \in 1 .. Len(other.raw) : k \in 1 .. j
      BY <3>1, Sizes
    <3>3. FirstRawFails
      BY <2>2, <3>1, <3>2 DEF FirstRawFails, Progress
    <3>4. FirstRawFails'
      BY <3>3, <1>0 DEF FirstRawFails
    <3> QED
      BY <3>4 DEF UndefinedOnlyThen
  <2> QED
    BY <2>1, <2>2
<1>4. ASSUME InBounds PROVE UndefinedOnlyThen'
  <2>1. pc = "raw" /\ own.raw[i + 1].cmp_length > RawSize
    BY <1>4 DEF OffTheEnd, Overrun, RawOverrun
  <2>2. i + 1 = 1 /\ 1 \in 1 .. Len(own.raw)
    BY <1>4, <2>1, Sizes DEF InBounds
  <2>3. ClaimsTooMuch
    BY <2>1, <2>2 DEF ClaimsTooMuch
  <2>4. ClaimsTooMuch'
    BY <2>3, <1>0 DEF ClaimsTooMuch
  <2> QED
    BY <2>4 DEF UndefinedOnlyThen
<1>5. UndefinedOnlyThen'
  BY <1>3, <1>4
<1> QED
  BY <1>1, <1>2, <1>5

\* The conjunction the runs check in parts is inductive: every step of the
\* loops of FilterList::match keeps it.
THEOREM LoopsInvariant == Spec => []Loops
<1>1. Loops /\ [Next]_vars => Loops'
  <2> SUFFICES ASSUME Loops, [Next]_vars PROVE Loops'
    OBVIOUS
  <2>1. CASE UNCHANGED vars
    BY <2>1 DEF vars, Loops, TypeOK, Progress, Comparing, RightWhenDefined,
      UndefinedOnlyThen, FirstTitleFails, FirstRawFails, ClaimsTooMuch
  <2> QED
    BY <2>1, NothingOfMineStep, FoundStep, NextOfTheirsStep, UndefinedStep
    DEF Next
<1> QED
  BY <1>1, LoopsInit, PTL DEF Spec

\* As far as the behaviour is defined, the outer index of FilterList::match is 0
\* and the inner one at most one past an end, for lists of any length.
THEOREM MatchTypeCorrect == Spec => []TypeOK
<1>1. Loops => TypeOK
  BY DEF Loops
<1> QED
  BY <1>1, LoopsInvariant, PTL

\* Whatever the filters are, as long as nothing undefined has happened match
\* returns true exactly when some entry matches some entry.
THEOREM MatchRightWhenDefined == Spec => []RightWhenDefined
<1>1. Loops => RightWhenDefined
  BY DEF Loops
<1> QED
  BY <1>1, LoopsInvariant, PTL

\* Whatever the filters are, match does nothing undefined unless the first entry
\* of a list of ours matches none heard, or a raw filter of ours claims too many
\* bytes (module_filter.cpp:464-473).
THEOREM MatchUndefinedOnlyThen == Spec => []UndefinedOnlyThen
<1>1. Loops => UndefinedOnlyThen
  BY DEF Loops
<1> QED
  BY <1>1, LoopsInvariant, PTL
=============================================================================
