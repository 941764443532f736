------------------------ MODULE StreetpassScanProofs ------------------------
(* Theorems about the scans, for any peers, filters, timeouts and bounds.    *)
EXTENDS StreetpassScan, TLAPS

-----------------------------------------------------------------------------
(* Type correctness.                                                         *)

LEMMA FlagTypesStep ==
  /\ Init => FlagTypes
  /\ FlagTypes /\ [Next]_vars => FlagTypes'
  BY DEF Init, FlagTypes, Next, Library, World, Handle, Start, RegisterFails,
         Register, FrameArrives, Tick, SetClock, Recv, RecvError, Handling,
         HandleIgnored, HandleMalformed, HandleScan, HandleAssociate,
         HandleCallback, HandleThrowing, Collect, LoopAgain, Return, vars,
         callVars, socketVars, clockVars, resultVars

\* The fields of a frame are those the handler takes it apart into.
LEMMA FrameFields ==
  /\ NoFrame \in Frame
  /\ \A f \in Frame :
       /\ f.kind \in Ignored \cup {"malformed", "probe"}
       /\ f.kind = "probe" => f.peer \in Peers /\ f.filter \in Filters
  <1>1. NoFrame \in Frame
    BY DEF NoFrame, Frame, Ignored
  <1>2. ASSUME NEW f \in Frame
        PROVE  /\ f.kind \in Ignored \cup {"malformed", "probe"}
               /\ f.kind = "probe" => f.peer \in Peers /\ f.filter \in Filters
    BY DEF Frame, Ignored
  <1>3. QED
    BY <1>1, <1>2

LEMMA InitDataTypes == Init => DataTypes
  BY FrameFields DEF Init, DataTypes, Modes, Collecting

\* emplace keeps the map a map.
LEMMA EmplacedType ==
  ASSUME results \in [Peers -> Filters \cup {None}],
         NEW p \in Peers, NEW f \in Filters
  PROVE  Emplaced(p, f) \in [Peers -> Filters \cup {None}]
  BY DEF Emplaced

LEMMA CollectTypes ==
  ASSUME DataTypes, NEW a \in BOOLEAN, Collect(a), frame.kind = "probe"
  PROVE  /\ results' \in [Peers -> Filters \cup {None}]
         /\ accepted' \in Seq([peer : Peers, filter : Filters])
         /\ err' = err
  <1>1. frame.peer \in Peers /\ frame.filter \in Filters
    BY FrameFields DEF DataTypes
  <1>2. results \in [Peers -> Filters \cup {None}]
    BY DEF DataTypes
  <1>3. Emplaced(frame.peer, frame.filter) \in [Peers -> Filters \cup {None}]
    BY <1>1, <1>2, EmplacedType
  <1>4. accepted \in Seq([peer : Peers, filter : Filters])
    BY DEF DataTypes
  <1>5. Append(accepted, [peer |-> frame.peer, filter |-> frame.filter])
          \in Seq([peer : Peers, filter : Filters])
    BY <1>1, <1>4
  <1>6. QED
    BY <1>2, <1>3, <1>4, <1>5 DEF Collect

LEMMA DataTypesStep == DataTypes /\ [Next]_vars => DataTypes'
  <1> SUFFICES ASSUME DataTypes, [Next]_vars
               PROVE  DataTypes'
    OBVIOUS
  <1>1. CASE Start
    <2>1. PICK m \in Modes, t \in Timeouts :
            /\ mode' = m /\ timeout' = t
            /\ pc' = IF EmptyScan(m, t) THEN "done" ELSE "register"
            /\ outcome' = IF EmptyScan(m, t) THEN "returned" ELSE outcome
      BY <1>1 DEF Start
    <2>2. QED
      BY <1>1, <2>1 DEF Start, DataTypes, socketVars, resultVars, clockVars
  <1>2. CASE RegisterFails
    BY <1>2 DEF RegisterFails, DataTypes, callVars, socketVars, resultVars,
                clockVars
  <1>3. CASE Register
    BY <1>3 DEF Register, DataTypes, callVars, socketVars, resultVars,
                clockVars
  <1>4. CASE FrameArrives
    <2>1. inbox' \in Seq(Frame)
      BY <1>4 DEF FrameArrives, DataTypes
    <2>2. QED
      BY <1>4, <2>1 DEF FrameArrives, DataTypes, callVars, resultVars,
                        clockVars
  <1>5. CASE Tick
    BY <1>5 DEF Tick, DataTypes, callVars, socketVars, resultVars
  <1>6. CASE SetClock
    BY <1>6 DEF SetClock, DataTypes, callVars, socketVars, resultVars
  <1>7. CASE Recv
    <2>1. inbox' \in Seq(Frame) /\ frame' \in Frame
      BY <1>7 DEF Recv, DataTypes
    <2>2. QED
      BY <1>7, <2>1 DEF Recv, DataTypes, callVars, resultVars, clockVars
  <1>8. CASE RecvError
    BY <1>8 DEF RecvError, DataTypes, callVars, resultVars, clockVars
  <1>9. ASSUME Handling, err' \in {-1, 0, 1},
               results' \in [Peers -> Filters \cup {None}],
               accepted' \in Seq([peer : Peers, filter : Filters])
        PROVE  DataTypes'
    <2>1. lastKind' \in Ignored \cup {"malformed", "probe", "none"}
      BY <1>9, FrameFields DEF Handling, DataTypes
    <2>2. late' \in Nat
      BY <1>9 DEF Handling, DataTypes
    <2>3. QED
      BY <1>9, <2>1, <2>2 DEF Handling, DataTypes, callVars, socketVars,
                              clockVars
  <1>10. CASE HandleIgnored
    BY <1>9, <1>10 DEF HandleIgnored, DataTypes, resultVars
  <1>11. CASE HandleMalformed
    BY <1>9, <1>11 DEF HandleMalformed, DataTypes, resultVars
  <1>12. CASE HandleScan
    <2>1. CASE mode = "all" /\ Collect(TRUE)
      BY <1>9, <1>12, <2>1, CollectTypes DEF HandleScan, DataTypes
    <2>2. CASE mode = "match" /\ Collect(frame.filter \in Matching)
      <3>1. (frame.filter \in Matching) \in BOOLEAN
        OBVIOUS
      <3>2. QED
        BY <1>9, <1>12, <2>2, <3>1, CollectTypes DEF HandleScan, DataTypes
    <2>3. CASE mode = "filter" /\ \E a \in BOOLEAN : Collect(a)
      BY <1>9, <1>12, <2>3, CollectTypes DEF HandleScan, DataTypes
    <2>4. QED
      BY <1>12, <2>1, <2>2, <2>3 DEF HandleScan
  <1>13. CASE HandleAssociate
    <2>1. PICK a \in BOOLEAN : Collect(a)
      BY <1>13 DEF HandleAssociate
    <2>2. QED
      BY <1>9, <1>13, <2>1, CollectTypes DEF HandleAssociate, DataTypes
  <1>14. CASE HandleCallback
    BY <1>9, <1>14 DEF HandleCallback, DataTypes, resultVars
  <1>15. CASE HandleThrowing
    BY <1>9, <1>15 DEF HandleThrowing, DataTypes, resultVars
  <1>16. CASE LoopAgain
    BY <1>16 DEF LoopAgain, DataTypes, callVars, socketVars, resultVars,
                 clockVars
  <1>17. CASE Return
    BY <1>17 DEF Return, DataTypes, callVars, socketVars, resultVars, clockVars
  <1>18. CASE UNCHANGED vars
    BY <1>18 DEF vars, DataTypes, callVars, socketVars, resultVars, clockVars
  <1>19. QED
    BY <1>1, <1>2, <1>3, <1>4, <1>5, <1>6, <1>7, <1>8, <1>10, <1>11, <1>12,
       <1>13, <1>14, <1>15, <1>16, <1>17, <1>18
       DEF Next, Library, World, Handle

\* TypeOK holds in every reachable state of a scan.
THEOREM ScanTypeCorrect == Spec => []TypeOK
  <1>1. Init => TypeOK
    BY InitDataTypes, FlagTypesStep DEF TypeOK
  <1>2. TypeOK /\ [Next]_vars => TypeOK'
    BY DataTypesStep, FlagTypesStep DEF TypeOK
  <1>3. QED
    BY <1>1, <1>2, PTL DEF Spec

-----------------------------------------------------------------------------
(* When a scan ends, and how.                                                *)

\* A frame is only waited for while nothing has stopped the loop; on a clock
\* nobody has set, a frame handled late is the last one.
LoopInv ==
  /\ pc \in {"idle", "register"} => lastKind = "none" /\ ~ex /\ arrived = 0
  /\ pc \in {"idle", "register", "recv", "handle"} => err = 1
  /\ err = 0 => stopped
  /\ err = -1 <=> ex
  /\ ex => lastKind = "malformed"
  /\ outcome # "none" => pc = "done"

ClockInv ==
  ~stepped =>
    /\ skew = 0 /\ ticks < Word
    /\ late <= 1
    /\ late = 1 => pc \in {"test", "done"} /\ timeout > 0 /\ ticks >= timeout
    /\ pc = "idle" => late = 0

EndInv ==
  /\ LoopInv
  /\ ClockInv
  /\ NotEarly
  /\ ThrowsOnlyOnMalformed

\* Below the wrap-around the difference of two readings is the time elapsed.
LEMMA ElapsedIsTicks ==
  ASSUME NEW t \in Nat, NEW w \in Nat \ {0}, t < w
  PROVE  t % w = t
  OBVIOUS

LEMMA EndInvInit == Init => EndInv
  BY ScanAssumption DEF Init, EndInv, LoopInv, ClockInv, NotEarly,
                        ThrowsOnlyOnMalformed

LEMMA EndInvStep == TypeOK /\ EndInv /\ [Next]_vars => EndInv'
  <1> SUFFICES ASSUME TypeOK, EndInv, [Next]_vars
               PROVE  EndInv'
    OBVIOUS
  <1>0. /\ timeout \in Nat /\ timeout < Word /\ ticks \in Nat
        /\ skew \in Int /\ late \in Nat
        /\ err \in {-1, 0, 1} /\ Word \in Nat \ {0}
        /\ pc \in {"idle", "register", "recv", "handle", "test", "done"}
        /\ outcome \in {"none", "returned", "threw"}
    BY ScanAssumption DEF TypeOK, DataTypes
  <1> USE <1>0 DEF EndInv, LoopInv, ClockInv, NotEarly, ThrowsOnlyOnMalformed
  <1>1. CASE Start
    <2>1. PICK m \in Modes, t \in Timeouts :
            /\ timeout' = t /\ mode' = m
            /\ pc' = IF EmptyScan(m, t) THEN "done" ELSE "register"
            /\ outcome' = IF EmptyScan(m, t) THEN "returned" ELSE outcome
      BY <1>1 DEF Start
    <2>2. EmptyScan(m, t) => t = 0 /\ m \in Collecting
      BY DEF EmptyScan
    <2>3. QED
      BY <1>1, <2>1, <2>2 DEF Start, clockVars, socketVars
  <1>2. CASE RegisterFails
    BY <1>2 DEF RegisterFails, callVars, clockVars
  <1>3. CASE Register
    BY <1>3 DEF Register, callVars, clockVars
  <1>4. CASE FrameArrives
    BY <1>4 DEF FrameArrives, Scanning, callVars, clockVars
  <1>5. CASE Tick
    <2>1. /\ ticks' = ticks + 1
          /\ stepped' = (stepped \/ ticks' >= Word)
          /\ Scanning
          /\ UNCHANGED <<pc, timeout, err, ex, outcome, skew, lastKind, late,
                         stopped, mode, arrived>>
      BY <1>5 DEF Tick, callVars, socketVars
    <2>2. ~stepped' => ~stepped /\ ticks' < Word
      <3>1. ~stepped' => ~stepped /\ ~(ticks' >= Word)
        BY <2>1, Zenon
      <3>2. ticks' \in Nat /\ Word \in Nat
        BY <2>1
      <3>3. QED
        BY <3>1, <3>2
    <2>3. ClockInv'
      BY <2>1, <2>2 DEF Scanning
    <2>4. LoopInv' /\ ThrowsOnlyOnMalformed'
      BY <2>1
    <2>5. NotEarly'
      BY <2>1, <2>2 DEF Scanning
    <2>6. QED
      BY <2>3, <2>4, <2>5
  <1>6. CASE SetClock
    BY <1>6 DEF SetClock, Scanning, callVars
  <1>7. CASE Recv
    BY <1>7 DEF Recv, callVars, clockVars
  <1>8. CASE RecvError
    BY <1>8 DEF RecvError, callVars, clockVars
  \* Before a frame is handled none has been handled late.
  <1>9. ASSUME Handling
        PROVE  /\ ClockInv'
               /\ pc = "handle" /\ pc' = "test" /\ lastKind' = frame.kind
               /\ outcome' = outcome /\ outcome = "none"
               /\ err = 1 /\ ~ex
    BY <1>9 DEF Handling, callVars, clockVars
  <1>10. CASE HandleIgnored
    BY <1>9, <1>10 DEF HandleIgnored
  <1>11. CASE HandleMalformed
    BY <1>9, <1>11 DEF HandleMalformed
  <1>12. CASE HandleScan
    BY <1>9, <1>12 DEF HandleScan, Collect
  <1>13. CASE HandleAssociate
    BY <1>9, <1>13 DEF HandleAssociate, Collect
  <1>14. CASE HandleCallback
    <2>1. PICK goOn \in BOOLEAN : /\ err' = IF goOn THEN err ELSE 0
                                  /\ stopped' = ~goOn
      BY <1>14 DEF HandleCallback
    <2>2. ex' = ex /\ Handling
      BY <1>14 DEF HandleCallback
    <2>3. CASE goOn
      BY <1>9, <2>1, <2>2, <2>3
    <2>4. CASE ~goOn
      <3>1. err' = 0 /\ stopped'
        BY <2>1, <2>4
      <3>2. QED
        BY <1>9, <2>2, <3>1
    <2>5. QED
      BY <2>3, <2>4
  <1>15. CASE HandleThrowing
    BY <1>9, <1>15 DEF HandleThrowing
  <1>16. ASSUME ~stepped
         PROVE  Elapsed = ticks
    BY <1>16, ElapsedIsTicks DEF Elapsed
  <1>17. ticks + skew \in 0 .. timeout - 1 => Elapsed < timeout
    BY ElapsedIsTicks DEF Elapsed
  <1>18. CASE LoopAgain
    BY <1>16, <1>18 DEF LoopAgain, GoOn, callVars, clockVars
  <1>19. CASE Return
    <2>1. /\ UNCHANGED <<err, ex, ticks, skew, stepped, late, lastKind, timeout,
                         mode, arrived, stopped>>
          /\ pc = "test" /\ pc' = "done" /\ ~GoOn
          /\ outcome' = IF ex \/ err < 0 THEN "threw" ELSE "returned"
      BY <1>19 DEF Return, callVars, clockVars, socketVars
    <2>2. LoopInv' /\ ThrowsOnlyOnMalformed'
      BY <2>1
    <2>3. ClockInv'
      BY <2>1
    <2>4. NotEarly'
      <3>1. SUFFICES ASSUME outcome' = "returned", ~stopped
                     PROVE  timeout # 0 /\ ticks + skew \notin 0 .. timeout - 1
        BY <2>1
      <3>2. err = 1
        BY <2>1, <3>1
      <3>3. timeout # 0 /\ ~(Elapsed < timeout)
        BY <2>1, <3>2 DEF GoOn
      <3>4. QED
        BY <1>17, <3>3
    <2>5. QED
      BY <2>2, <2>3, <2>4
  <1>20. CASE UNCHANGED vars
    BY <1>20 DEF vars, callVars, clockVars, socketVars
  <1>21. QED
    BY <1>1, <1>2, <1>3, <1>4, <1>5, <1>6, <1>7, <1>8, <1>10, <1>11, <1>12,
       <1>13, <1>14, <1>15, <1>18, <1>19, <1>20
       DEF Next, Library, World, Handle

LEMMA EndInvHolds == Spec => []EndInv
  <1>1. Init => TypeOK /\ EndInv
    BY InitDataTypes, FlagTypesStep, EndInvInit DEF TypeOK
  <1>2. TypeOK /\ EndInv /\ [Next]_vars => (TypeOK /\ EndInv)'
    BY DataTypesStep, FlagTypesStep, EndInvStep DEF TypeOK
  <1>3. QED
    BY <1>1, <1>2, PTL DEF Spec

\* On a steady clock a scan handles one frame too many at most.
THEOREM ScanOneLateFrame == Spec => []OneLateFrame
  <1>1. EndInv => OneLateFrame
    BY DEF EndInv, ClockInv, OneLateFrame
  <1>2. QED
    BY <1>1, EndInvHolds, PTL

\* A scan that nobody stopped and that does not throw lasts its timeout by the
\* system clock, unless that was set to before the start; with a timeout of 0 it
\* is one of those that return at once.
THEOREM ScanNotEarly == Spec => []NotEarly
  <1>1. EndInv => NotEarly
    BY DEF EndInv
  <1>2. QED
    BY <1>1, EndInvHolds, PTL

\* A scan loses its results to a frame that libtins rejects, and to nothing
\* else.
THEOREM ScanThrowsOnlyOnMalformed == Spec => []ThrowsOnlyOnMalformed
  <1>1. EndInv => ThrowsOnlyOnMalformed
    BY DEF EndInv
  <1>2. QED
    BY <1>1, EndInvHolds, PTL

-----------------------------------------------------------------------------
(* What a scan returns.                                                      *)

LEMMA ElementOfSeq ==
  ASSUME NEW S, NEW s \in Seq(S), NEW i \in 1 .. Len(s)
  PROVE  s[i] \in S
  OBVIOUS

\* One more accepted probe request leaves every other peer's entry alone, and
\* its own unless it is the peer's first.
LEMMA CollectKeepsFirst ==
  ASSUME TypeOK, FirstAcceptedWins, frame.kind = "probe",
         results' = Emplaced(frame.peer, frame.filter),
         accepted' = Append(accepted, [peer |-> frame.peer,
                                       filter |-> frame.filter])
  PROVE  FirstAcceptedWins'
  <1> DEFINE q == frame.peer
             n == Len(accepted) + 1
  <1>1. /\ q \in Peers /\ frame.filter \in Filters
        /\ results \in [Peers -> Filters \cup {None}]
        /\ accepted \in Seq([peer : Peers, filter : Filters])
    BY FrameFields DEF TypeOK, DataTypes
  <1>2. /\ Len(accepted') = n /\ n \in Nat
        /\ \A i \in 1 .. Len(accepted) : accepted'[i] = accepted[i]
        /\ accepted'[n].peer = q /\ accepted'[n].filter = frame.filter
    BY <1>1
  <1>3. SUFFICES ASSUME NEW p \in Peers
                 PROVE  /\ From(p)' = {} => results'[p] = None
                        /\ From(p)' # {} =>
                             \E i \in From(p)' :
                               /\ \A j \in From(p)' : i <= j
                               /\ results'[p] = accepted'[i].filter
    BY DEF FirstAcceptedWins
  <1>4. CASE p # q
    <2>1. From(p)' = From(p)
      BY <1>1, <1>2, <1>4 DEF From
    <2>2. results'[p] = results[p]
      BY <1>1, <1>4 DEF Emplaced
    <2>3. \A i \in From(p) : accepted'[i] = accepted[i]
      BY <1>2 DEF From
    <2>4. QED
      BY <2>1, <2>2, <2>3 DEF FirstAcceptedWins
  <1>5. CASE p = q
    <2>1. From(p)' = From(p) \cup {n}
      BY <1>1, <1>2, <1>5 DEF From
    <2>2. CASE From(p) = {}
      <3>1. results[p] = None
        BY <2>2 DEF FirstAcceptedWins
      <3>2. results'[p] = frame.filter
        BY <1>1, <1>5, <3>1 DEF Emplaced
      <3>3. From(p)' = {n}
        BY <2>1, <2>2
      <3>4. QED
        BY <1>2, <3>2, <3>3
    <2>3. CASE From(p) # {}
      <3>1. PICK i \in From(p) : /\ \A j \in From(p) : i <= j
                                 /\ results[p] = accepted[i].filter
        BY <2>3 DEF FirstAcceptedWins
      <3>2. i \in 1 .. Len(accepted) /\ accepted[i].filter \in Filters
        <4>1. i \in 1 .. Len(accepted)
          BY <3>1 DEF From
        <4>2. accepted[i] \in [peer : Peers, filter : Filters]
          BY <1>1, <4>1, ElementOfSeq
        <4>3. QED
          BY <4>1, <4>2
      <3>3. results[p] # None
        BY <3>1, <3>2, ScanAssumption
      <3>4. results'[p] = accepted'[i].filter
        BY <1>2, <1>5, <3>1, <3>2, <3>3 DEF Emplaced
      <3>5. \A j \in From(p)' : i <= j
        <4>1. i <= n
          BY <1>1, <3>2
        <4>2. QED
          BY <2>1, <3>1, <4>1
      <3>6. QED
        BY <2>1, <3>4, <3>5
    <2>4. QED
      BY <2>2, <2>3
  <1>6. QED
    BY <1>4, <1>5

LEMMA FirstAcceptedWinsStep ==
  TypeOK /\ FirstAcceptedWins /\ [Next]_vars => FirstAcceptedWins'
  <1> SUFFICES ASSUME TypeOK, FirstAcceptedWins, [Next]_vars
               PROVE  FirstAcceptedWins'
    OBVIOUS
  <1>1. ASSUME UNCHANGED <<results, accepted>>
        PROVE  FirstAcceptedWins'
    BY <1>1 DEF FirstAcceptedWins, From
  <1>2. ASSUME NEW a, Collect(a), frame.kind = "probe"
        PROVE  FirstAcceptedWins'
    BY <1>1, <1>2, CollectKeepsFirst DEF Collect
  <1>3. CASE HandleScan
    BY <1>2, <1>3 DEF HandleScan
  <1>4. CASE HandleAssociate
    BY <1>2, <1>4 DEF HandleAssociate
  <1>5. CASE HandleIgnored \/ HandleMalformed \/ HandleCallback
             \/ HandleThrowing
    BY <1>1, <1>5 DEF HandleIgnored, HandleMalformed, HandleCallback,
                      HandleThrowing, resultVars
  <1>6. CASE Start \/ World
    BY <1>1, <1>6 DEF Start, World, FrameArrives, Tick, SetClock, resultVars
  <1>7. CASE Register \/ RegisterFails \/ Recv \/ RecvError \/ LoopAgain
             \/ Return
    BY <1>1, <1>7 DEF Register, RegisterFails, Recv, RecvError, LoopAgain,
                      Return, resultVars
  <1>8. CASE UNCHANGED vars
    BY <1>1, <1>8 DEF vars, resultVars
  <1>9. QED
    BY <1>3, <1>4, <1>5, <1>6, <1>7, <1>8 DEF Next, Library, Handle

\* A scan's result holds, for each peer, the first filter accepted from it.
THEOREM ScanFirstAcceptedWins == Spec => []FirstAcceptedWins
  <1>1. Init => TypeOK /\ FirstAcceptedWins
    BY InitDataTypes, FlagTypesStep
       DEF TypeOK, Init, FirstAcceptedWins, From
  <1>2. TypeOK /\ FirstAcceptedWins /\ [Next]_vars =>
          (TypeOK /\ FirstAcceptedWins)'
    BY DataTypesStep, FlagTypesStep, FirstAcceptedWinsStep DEF TypeOK
  <1>3. QED
    BY <1>1, <1>2, PTL DEF Spec

-----------------------------------------------------------------------------
(* What a callback that returned false has ended.                            *)

\* From then on there is only the test to come, which err does not pass.
StopInv == stopped => pc \in {"test", "done"} /\ err <= 0

LEMMA StopInvStep ==
  ASSUME TypeOK, StopInv, [Next]_vars
  PROVE  /\ StopInv'
         /\ stopped => stopped' /\ UNCHANGED <<frame, lastKind, late>>
  <1>1. CASE Handle
    <2>1. pc = "handle" /\ pc' = "test" /\ ~stopped
      BY <1>1 DEF Handle, HandleIgnored, HandleMalformed, HandleScan,
         HandleAssociate, HandleCallback, HandleThrowing, Handling, StopInv
    <2>2. CASE HandleCallback
      <3>1. PICK goOn \in BOOLEAN :
              /\ stopped' = ~goOn
              /\ err' = IF goOn THEN err ELSE 0
        BY <2>2 DEF HandleCallback
      <3>2. CASE goOn
        BY <2>1, <3>1, <3>2, Zenon DEF StopInv
      <3>3. CASE ~goOn
        <4>1. err' = 0
          BY <3>1, <3>3, Zenon
        <4>2. err' <= 0
          BY <4>1, SMT
        <4> QED BY <2>1, <4>2, Zenon DEF StopInv
      <3> QED BY <3>2, <3>3
    <2>3. CASE HandleIgnored \/ HandleMalformed \/ HandleScan
               \/ HandleAssociate \/ HandleThrowing
      BY <2>1, <2>3 DEF HandleIgnored, HandleMalformed, HandleScan,
         HandleAssociate, HandleThrowing, Collect, StopInv
    <2>4. QED
      BY <1>1, <2>2, <2>3, <2>1 DEF Handle
  <1>2. CASE LoopAgain
    BY <1>2 DEF LoopAgain, GoOn, StopInv, TypeOK, DataTypes
  <1>3. CASE Recv \/ RecvError \/ Register \/ RegisterFails \/ Start
    BY <1>3 DEF Recv, RecvError, Register, RegisterFails, Start, StopInv
  <1>4. CASE Return
    BY <1>4 DEF Return, StopInv
  <1>5. CASE World
    BY <1>5 DEF World, FrameArrives, Tick, SetClock, StopInv
  <1>6. CASE UNCHANGED vars
    BY <1>6 DEF vars, StopInv
  <1>7. QED
    BY <1>1, <1>2, <1>3, <1>4, <1>5, <1>6 DEF Next, Library

\* A callback that returned false is the last to be called, and the frame it
\* was given the last to be read (StopIsFinal, socket.cpp:97-100).
THEOREM ScanStopIsFinal == Spec => StopIsFinal
  <1>1. Init => TypeOK /\ StopInv
    BY InitDataTypes, FlagTypesStep DEF TypeOK, Init, StopInv
  <1>2. TypeOK /\ StopInv /\ [Next]_vars => (TypeOK /\ StopInv)'
    BY DataTypesStep, FlagTypesStep, StopInvStep DEF TypeOK
  <1>3. TypeOK /\ StopInv /\ [Next]_vars =>
          [stopped => stopped' /\ UNCHANGED <<frame, lastKind, late>>]_vars
    BY StopInvStep
  <1>4. QED
    BY <1>1, <1>2, <1>3, PTL DEF Spec, StopIsFinal
=============================================================================
