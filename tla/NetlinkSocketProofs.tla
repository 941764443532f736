------------------------- MODULE NetlinkSocketProofs -------------------------
(* Theorems about nl80211::Socket, for any number of requests, frames and    *)
(* dump entries and any receive buffer.                                      *)
EXTENDS NetlinkSocket, TLAPS

-----------------------------------------------------------------------------
(* Type correctness.                                                         *)

\* A datagram built by the kernel has the fields libnl reads.
LEMMA DatagramTypes ==
  /\ \A n \in Nat : Event(n) \in Datagram
  /\ \A s \in Nat : Reply(s) \in Datagram
  /\ \A s, m, n \in Nat : Parts(s, m, n) \in Datagram
  /\ \A t \in Final, s \in Nat : Closing(t, s) \in Datagram
  BY DEF Event, Reply, Parts, Closing, Datagram, Handled, Final

\* Delivery, even to a full buffer, keeps the buffer a sequence of datagrams.
LEMMA DeliverType ==
  ASSUME NEW box \in Seq(Datagram), NEW m \in Datagram
  PROVE  Deliver(box, m) \in Seq(Datagram)
  BY DEF Deliver

\* The callback has been given nothing when a call starts.
LEMMA NothingGot == <<>> \in Seq([seq : Nat, part : Nat])
  OBVIOUS

\* Walking a datagram, or filling in a dump, keeps the records' fields.
LEMMA UpdateTypes ==
  /\ \A m \in Datagram : [m EXCEPT !.first = m.first + 1] \in Datagram
  /\ \A d \in [seq : Nat, next : Nat], n \in Nat :
       [d EXCEPT !.next = n] \in [seq : Nat, next : Nat]
  BY DEF Datagram

LEMMA InitDataTypes == Init => DataTypes
  <1>1. NoBuf \in Datagram
    BY DatagramTypes DEF NoBuf, Final
  <1>2. <<>> \in Seq(Datagram)
    OBVIOUS
  <1>3. QED
    BY <1>1, <1>2, NothingGot DEF Init, DataTypes, NoDump, NoCall, NoPromise, Commands

LEMMA FlagTypesStep ==
  /\ Init => FlagTypes
  /\ FlagTypes /\ [Next]_vars => FlagTypes'
  BY DEF Init, FlagTypes, Next, Send, Kernel, Recv, SendAct, SendGet, SendDump,
         SendRefused, SendRegister, SendFails, StartCall, Answered, Listen,
         FrameEvent, AckRegister, DumpEntries, DumpDone, ReadDatagram,
         ReadError, RejectSequence, HandleFinal, HandleIgnored,
         HandleContinue, HandleStop, HandleThrow, LoopAgain, Return,
         vars, kernelVars, libnlVars, callVars, history

LEMMA DataTypesStep == DataTypes /\ [Next]_vars => DataTypes'
  <1> SUFFICES ASSUME DataTypes, [Next]_vars
               PROVE  DataTypes'
    OBVIOUS
  <1> USE DEF DataTypes
  <1>0. seqNext \in Nat /\ call.seq \in Nat /\ dump.seq \in Nat
    OBVIOUS
  <1>1. CASE SendAct
    <2>1. Deliver(inbox, Closing("ack", seqNext)) \in Seq(Datagram)
      BY DatagramTypes, DeliverType DEF Final
    <2>2. QED
      BY <1>1, <2>1, NothingGot DEF SendAct, StartCall, Answered, Room, Commands
  <1>2. CASE SendGet
    <2>1. Deliver(inbox, Reply(seqNext)) \in Seq(Datagram)
      BY DatagramTypes, DeliverType
    <2>2. Deliver(Deliver(inbox, Reply(seqNext)), Closing("ack", seqNext))
            \in Seq(Datagram)
      BY <2>1, DatagramTypes, DeliverType DEF Final
    <2>3. QED
      BY <1>2, <2>2, NothingGot DEF SendGet, StartCall, Answered, Room, Commands
  <1>3. CASE SendDump
    BY <1>3, NothingGot DEF SendDump, StartCall, Commands
  <1>4. CASE SendRefused
    <2>1. Deliver(inbox, Closing("error", seqNext)) \in Seq(Datagram)
      BY DatagramTypes, DeliverType DEF Final
    <2>2. QED
      BY <1>4, <2>1, NothingGot DEF SendRefused, StartCall, Answered, Room, Commands
  <1>5. CASE SendRegister
    BY <1>5, NothingGot DEF SendRegister, StartCall, Commands
  <1>6. CASE SendFails
    BY <1>6 DEF SendFails, kernelVars
  <1>7. CASE Listen
    BY <1>7, NothingGot DEF Listen, kernelVars, libnlVars, history
  <1>8. CASE FrameEvent
    <2>1. Deliver(inbox, Event(events + 1)) \in Seq(Datagram)
      BY DatagramTypes, DeliverType
    <2>2. QED
      BY <1>8, <2>1 DEF FrameEvent, Room, libnlVars, callVars
  <1>9. CASE AckRegister
    <2>1. Deliver(inbox, Closing("ack", call.seq)) \in Seq(Datagram)
      BY DatagramTypes, DeliverType DEF Final
    <2>2. QED
      BY <1>9, <2>1 DEF AckRegister, Answered, Room, libnlVars
  <1>10. CASE DumpEntries
    <2>1. PICK n \in dump.next .. MaxParts :
            /\ inbox' = Append(inbox, Parts(dump.seq, dump.next, n))
            /\ dump' = [dump EXCEPT !.next = n + 1]
            /\ promise' = IF dump.seq = call.seq
                          THEN [promise EXCEPT !.parts = n] ELSE promise
      BY <1>10 DEF DumpEntries
    <2>2. n \in Nat /\ n + 1 \in Nat
      BY BoundsAssumption
    <2>3. Parts(dump.seq, dump.next, n) \in Datagram
      BY <2>2, DatagramTypes
    <2>4. dump' \in [seq : Nat, next : Nat]
      <3>1. dump' = [dump EXCEPT !.next = n + 1]
        BY <2>1
      <3>2. QED
        BY <2>2, <3>1, UpdateTypes
    <2>5. promise' \in [granted : BOOLEAN, parts : Nat]
      BY <2>1, <2>2
    <2>6. inbox' \in Seq(Datagram)
      BY <2>1, <2>3
    <2>7. QED
      BY <1>10, <2>4, <2>5, <2>6 DEF DumpEntries, libnlVars, callVars
  <1>11. CASE DumpDone
    <2>1. Closing("done", dump.seq) \in Datagram
      BY DatagramTypes DEF Final
    <2>2. QED
      BY <1>11, <2>1 DEF DumpDone, NoDump, libnlVars, callVars, history
  <1>12. CASE ReadDatagram
    BY <1>12 DEF ReadDatagram, libnlVars, history
  <1>13. CASE ReadError
    BY <1>13 DEF ReadError, libnlVars, history
  <1>14. CASE RejectSequence
    BY <1>14 DEF RejectSequence, kernelVars, libnlVars, history
  <1>15. CASE HandleFinal
    BY <1>15 DEF HandleFinal, Verdict, kernelVars, history
  <1>16. ASSUME Advance
         PROVE  pc' \in {"parse", "recv", "test"} /\ buf' \in Datagram
    <2>2. [buf EXCEPT !.first = buf.first + 1] \in Datagram
      BY UpdateTypes
    <2>3. CASE buf.first < buf.last
      BY <1>16, <2>2, <2>3 DEF Advance
    <2>4. CASE ~(buf.first < buf.last)
      BY <1>16, <2>4 DEF Advance
    <2>5. QED
      BY <2>3, <2>4
  <1>17. CASE HandleIgnored
    BY <1>16, <1>17 DEF HandleIgnored, kernelVars, libnlVars, history
  <1>18. ASSUME HandOver
         PROVE  got' \in Seq([seq : Nat, part : Nat]) /\ heard' \in SUBSET Nat
    <2>1. buf.seq \in Nat /\ buf.first \in Nat
      BY DEF Datagram
    <2>2. got' \in Seq([seq : Nat, part : Nat])
      BY <1>18, <2>1 DEF HandOver
    <2>3. heard' \in SUBSET Nat
      BY <1>18, <2>1 DEF HandOver
    <2>4. QED
      BY <2>2, <2>3
  <1>19. CASE HandleContinue
    BY <1>16, <1>18, <1>19 DEF HandleContinue, kernelVars, libnlVars
  <1>20. CASE HandleStop
    BY <1>18, <1>20 DEF HandleStop, kernelVars, libnlVars
  <1>21. CASE HandleThrow
    BY <1>18, <1>21 DEF HandleThrow, kernelVars, libnlVars
  <1>22. CASE LoopAgain
    BY <1>22 DEF LoopAgain, kernelVars, libnlVars, history
  <1>23. CASE Return
    BY <1>23 DEF Return, Result, kernelVars, libnlVars, history
  <1>24. CASE UNCHANGED vars
    BY <1>24 DEF vars, kernelVars, libnlVars, callVars, history
  <1>25. QED
    BY <1>1, <1>2, <1>3, <1>4, <1>5, <1>6, <1>7, <1>8, <1>9, <1>10, <1>11,
       <1>12, <1>13, <1>14, <1>15, <1>17, <1>19, <1>20, <1>21, <1>22, <1>23,
       <1>24
       DEF Next, Send, Kernel, Recv

\* TypeOK holds in every reachable state of the socket.
THEOREM SocketTypeCorrect == Spec => []TypeOK
  <1>1. Init => TypeOK
    BY InitDataTypes, FlagTypesStep DEF TypeOK
  <1>2. TypeOK /\ [Next]_vars => TypeOK'
    BY DataTypesStep, FlagTypesStep DEF TypeOK
  <1>3. QED
    BY <1>1, <1>2, PTL DEF Spec

-----------------------------------------------------------------------------
(* How far libnl's numbers can drift apart.                                  *)

\* The lag of the expected number behind the numbers sent is bounded by the
\* failures, plus the request being answered as long as err is positive: each
\* of ACK, error and DONE both advances the expected number and ends the loop.
Lag == seqNext - seqExpect
LagInv ==
  /\ pc \in {"registering", "recv", "parse"} => err = 1
  /\ pc = "registering" => call.op = "register"
  /\ Lag <= failures + (IF Requesting /\ err = 1 THEN 1 ELSE 0)

LEMMA LagInvInit == Init => LagInv
  BY DEF Init, LagInv, Lag, Requesting, NoCall

LEMMA LagInvStep == TypeOK /\ LagInv /\ [Next]_vars => LagInv'
  <1> SUFFICES ASSUME TypeOK, LagInv, [Next]_vars
               PROVE  LagInv'
    OBVIOUS
  <1>0. /\ seqNext \in Nat /\ seqExpect \in Nat /\ failures \in Nat
        /\ err \in {-1, 0, 1}
        /\ pc \in {"idle", "registering", "recv", "parse", "test"}
    BY DEF TypeOK, DataTypes
  <1> USE <1>0 DEF LagInv, Lag, Requesting
  <1>1. ASSUME NEW op \in Commands, NEW where, StartCall(op, where),
               where = "registering" => op = "register",
               where \in {"recv", "registering"}
        PROVE  LagInv'
    BY <1>1 DEF StartCall, Commands
  <1>2. CASE SendAct
    BY <1>1, <1>2 DEF SendAct, Commands
  <1>3. CASE SendGet
    BY <1>1, <1>3 DEF SendGet, Commands
  <1>4. CASE SendDump
    BY <1>1, <1>4 DEF SendDump, Commands
  <1>5. CASE SendRefused
    <2>1. PICK op \in Commands : StartCall(op, "recv")
      BY <1>5 DEF SendRefused
    <2>2. QED
      BY <1>1, <2>1
  <1>6. CASE SendRegister
    BY <1>1, <1>6 DEF SendRegister, Commands
  <1>7. CASE SendFails
    BY <1>7 DEF SendFails
  <1>8. CASE Listen
    BY <1>8 DEF Listen, libnlVars, history
  <1>9. CASE FrameEvent
    BY <1>9 DEF FrameEvent, libnlVars, callVars
  <1>10. CASE AckRegister
    BY <1>10 DEF AckRegister, libnlVars
  <1>11. CASE DumpEntries
    BY <1>11 DEF DumpEntries, libnlVars, callVars
  <1>12. CASE DumpDone
    BY <1>12 DEF DumpDone, libnlVars, callVars, history
  <1>13. CASE ReadDatagram
    BY <1>13 DEF ReadDatagram, libnlVars, history
  <1>14. CASE ReadError
    BY <1>14 DEF ReadError, libnlVars, history
  <1>15. CASE RejectSequence
    BY <1>15 DEF RejectSequence, libnlVars, history
  <1>16. CASE HandleFinal
    BY <1>16 DEF HandleFinal, Verdict, history
  <1>17. ASSUME Advance
         PROVE  pc' \in {"parse", "recv", "test"}
    BY <1>17 DEF Advance
  <1>18. CASE HandleIgnored
    BY <1>17, <1>18 DEF HandleIgnored, libnlVars, history
  <1>19. CASE HandleContinue
    BY <1>17, <1>19 DEF HandleContinue, HandOver, libnlVars
  <1>20. CASE HandleStop
    BY <1>20 DEF HandleStop, HandOver, libnlVars
  <1>21. CASE HandleThrow
    BY <1>21 DEF HandleThrow, HandOver, libnlVars
  <1>22. CASE LoopAgain
    BY <1>22 DEF LoopAgain, MayLoop, libnlVars, history
  <1>23. CASE Return
    BY <1>23 DEF Return, MayLoop, libnlVars, history
  <1>24. CASE UNCHANGED vars
    BY <1>24 DEF vars, libnlVars, callVars, history
  <1>25. QED
    BY <1>2, <1>3, <1>4, <1>5, <1>6, <1>7, <1>8, <1>9, <1>10, <1>11, <1>12,
       <1>13, <1>14, <1>15, <1>16, <1>18, <1>19, <1>20, <1>21, <1>22, <1>23,
       <1>24
       DEF Next, Send, Kernel, Recv

-----------------------------------------------------------------------------
(* The expected number never runs ahead.                                     *)

\* `new` is `old`, with m behind it if there was room.
Extends(new, old, m) ==
  /\ new \in Seq(Datagram)
  /\ Len(new) \in {Len(old), Len(old) + 1}
  /\ \A i \in 1 .. Len(old) : new[i] = old[i]
  /\ Len(new) = Len(old) + 1 => new[Len(old) + 1] = m

\* Delivery adds at most the new message, at the end.
LEMMA Delivered ==
  ASSUME NEW box \in Seq(Datagram), NEW m \in Datagram
  PROVE  Extends(Deliver(box, m), box, m)
  BY DEF Deliver, Extends

\* Every closing message that is read takes a number, so that from low to high
\* there is one for each in the box: due[i] is the number that libnl expects,
\* at most, when box[i] has its turn.
One(b) == IF b THEN 1 ELSE 0
Closes(m) == One(m.type \in Final)
Numbered(box, low, high) ==
  \E due \in [1 .. Len(box) + 1 -> low .. high] :
    \A i \in 1 .. Len(box) : \A j \in i + 1 .. Len(box) + 1 :
      due[i] + Closes(box[i]) <= due[j]

LEMMA ClosesNat == \A m : Closes(m) \in {0, 1}
  BY DEF Closes, One

\* There may be more numbers than are needed.
LEMMA NumberedMore ==
  ASSUME NEW box \in Seq(Datagram), NEW low \in Int, NEW high \in Int,
         Numbered(box, low, high),
         NEW lower \in Int, NEW higher \in Int,
         lower <= low, high <= higher
  PROVE  Numbered(box, lower, higher)
  <1>1. PICK due \in [1 .. Len(box) + 1 -> low .. high] :
          \A i \in 1 .. Len(box) : \A j \in i + 1 .. Len(box) + 1 :
            due[i] + Closes(box[i]) <= due[j]
    BY DEF Numbered
  <1>2. due \in [1 .. Len(box) + 1 -> lower .. higher]
    OBVIOUS
  <1>3. QED
    BY <1>1, <1>2 DEF Numbered

LEMMA NumberedBounds ==
  ASSUME NEW box \in Seq(Datagram), NEW low \in Int, NEW high \in Int,
         Numbered(box, low, high)
  PROVE  low <= high
  <1>1. PICK due \in [1 .. Len(box) + 1 -> low .. high] : TRUE
    BY DEF Numbered
  <1>2. 1 \in 1 .. Len(box) + 1
    OBVIOUS
  <1>3. due[1] \in low .. high
    BY <1>2
  <1>4. QED
    BY <1>3

\* A message put behind the rest takes the next number if it closes an answer.
LEMMA NumberedGrows ==
  ASSUME NEW box \in Seq(Datagram), NEW low \in Int, NEW high \in Int,
         Numbered(box, low, high),
         NEW new, NEW m, Extends(new, box, m),
         NEW top \in Int, high + Closes(m) <= top
  PROVE  Numbered(new, low, top)
  <1>1. PICK due \in [1 .. Len(box) + 1 -> low .. high] :
          \A i \in 1 .. Len(box) : \A j \in i + 1 .. Len(box) + 1 :
            due[i] + Closes(box[i]) <= due[j]
    BY DEF Numbered
  <1>2. /\ Len(box) \in Nat /\ Len(new) \in {Len(box), Len(box) + 1}
        /\ \A i \in 1 .. Len(box) : new[i] = box[i]
        /\ Len(new) = Len(box) + 1 => new[Len(box) + 1] = m
    BY DEF Extends
  <1>3. Closes(m) \in {0, 1} /\ high <= top
    BY ClosesNat
  <1>4. CASE Len(new) = Len(box)
    <2>1. due \in [1 .. Len(new) + 1 -> low .. top]
      BY <1>3, <1>4
    <2>2. \A i \in 1 .. Len(new) : \A j \in i + 1 .. Len(new) + 1 :
            due[i] + Closes(new[i]) <= due[j]
      BY <1>1, <1>2, <1>4
    <2>3. QED
      BY <2>1, <2>2 DEF Numbered
  <1>5. CASE Len(new) = Len(box) + 1
    <2>1. PICK q : q = [i \in 1 .. Len(new) + 1 |->
                          IF i <= Len(box) + 1 THEN due[i] ELSE top]
      OBVIOUS
    <2>2. low <= high
      BY NumberedBounds
    <2>3. q \in [1 .. Len(new) + 1 -> low .. top]
      BY <1>2, <1>3, <1>5, <2>1, <2>2
    <2>4. /\ \A i \in 1 .. Len(box) + 1 :
               q[i] = due[i] /\ due[i] \in low .. high
          /\ q[Len(box) + 2] = top
      <3>1. \A i \in 1 .. Len(box) + 1 : i \in 1 .. Len(new) + 1
        BY <1>2, <1>5
      <3>2. \A i \in 1 .. Len(box) + 1 : q[i] = due[i]
        BY <1>2, <2>1, <3>1
      <3>3. Len(box) + 2 \in 1 .. Len(new) + 1
        BY <1>2, <1>5
      <3>4. q[Len(box) + 2] = top
        BY <1>2, <2>1, <3>3
      <3>5. QED
        BY <3>2, <3>4
    <2>5. ASSUME NEW i \in 1 .. Len(new), NEW j \in i + 1 .. Len(new) + 1
          PROVE  q[i] + Closes(new[i]) <= q[j]
      <3>1. CASE i \in 1 .. Len(box) /\ j \in 1 .. Len(box) + 1
        <4>1. due[i] + Closes(box[i]) <= due[j]
          BY <1>1, <2>5, <3>1
        <4>2. new[i] = box[i] /\ q[i] = due[i] /\ q[j] = due[j]
          BY <1>2, <2>4, <3>1
        <4>3. QED
          BY <4>1, <4>2
      <3>2. CASE i \in 1 .. Len(box) /\ j = Len(box) + 2
        <4>1. due[i] + Closes(box[i]) <= due[Len(box) + 1]
          BY <1>1, <1>2, <3>2
        <4>2. due[Len(box) + 1] <= high
          BY <1>2, <2>4
        <4>3. new[i] = box[i] /\ q[i] = due[i] /\ q[j] = top
          BY <1>2, <2>4, <3>2
        <4>4. due[i] \in Int /\ due[Len(box) + 1] \in Int
          BY <1>2, <2>4, <3>2
        <4>5. Closes(box[i]) \in {0, 1}
          BY ClosesNat
        <4>6. QED
          BY <1>3, <4>1, <4>2, <4>3, <4>4, <4>5
      <3>3. CASE i = Len(box) + 1
        <4>1. new[i] = m /\ j = Len(box) + 2
          BY <1>2, <1>5, <3>3
        <4>2. q[i] \in low .. high /\ q[j] = top
          BY <1>2, <2>4, <3>3, <4>1
        <4>3. QED
          BY <1>3, <4>1, <4>2
      <3>4. QED
        BY <1>2, <1>5, <3>1, <3>2, <3>3
    <2>6. QED
      BY <2>3, <2>5 DEF Numbered
  <1>6. QED
    BY <1>2, <1>4, <1>5

\* What is read first has the lowest number.
LEMMA NumberedRead ==
  ASSUME NEW box \in Seq(Datagram), box # <<>>,
         NEW low \in Int, NEW high \in Int, Numbered(box, low, high)
  PROVE  Numbered(Tail(box), low + Closes(Head(box)), high)
  <1>1. PICK due \in [1 .. Len(box) + 1 -> low .. high] :
          \A i \in 1 .. Len(box) : \A j \in i + 1 .. Len(box) + 1 :
            due[i] + Closes(box[i]) <= due[j]
    BY DEF Numbered
  <1>2. PICK rest : rest = Tail(box)
    OBVIOUS
  <1>3. /\ Len(box) \in Nat \ {0} /\ Len(rest) = Len(box) - 1
        /\ \A i \in 1 .. Len(box) - 1 : rest[i] = box[i + 1]
        /\ Head(box) = box[1]
    BY <1>2
  <1>4. PICK q : q = [i \in 1 .. Len(rest) + 1 |-> due[i + 1]]
    OBVIOUS
  <1>5. \A i \in 1 .. Len(box) : q[i] = due[i + 1] /\ i + 1 \in 1 .. Len(box) + 1
    BY <1>3, <1>4
  <1>6. \A j \in 2 .. Len(box) + 1 :
          /\ due[j] \in Int
          /\ due[1] + Closes(box[1]) <= due[j]
          /\ low <= due[1] /\ due[j] <= high
          /\ due[1] \in Int
    <2> SUFFICES ASSUME NEW j \in 2 .. Len(box) + 1
                 PROVE  /\ due[j] \in Int
                        /\ due[1] + Closes(box[1]) <= due[j]
                        /\ low <= due[1] /\ due[j] <= high
                        /\ due[1] \in Int
      OBVIOUS
    <2>1. 1 \in 1 .. Len(box) /\ j \in 1 + 1 .. Len(box) + 1
          /\ 1 \in 1 .. Len(box) + 1 /\ j \in 1 .. Len(box) + 1
      BY <1>3
    <2>2. due[1] \in low .. high /\ due[j] \in low .. high
      BY <2>1
    <2>3. due[1] + Closes(box[1]) <= due[j]
      BY <1>1, <2>1
    <2>4. QED
      BY <2>2, <2>3
  <1>7. \A i \in 1 .. Len(box) : q[i] \in low + Closes(box[1]) .. high
    <2> SUFFICES ASSUME NEW i \in 1 .. Len(box)
                 PROVE  q[i] \in low + Closes(box[1]) .. high
      OBVIOUS
    <2>1. PICK j \in 2 .. Len(box) + 1 : j = i + 1
      BY <1>3
    <2>2. q[i] = due[j]
      BY <1>5, <2>1
    <2>3. Closes(box[1]) \in {0, 1}
      BY ClosesNat
    <2>4. QED
      BY <1>6, <2>2, <2>3
  <1>8. q \in [1 .. Len(rest) + 1 -> low + Closes(box[1]) .. high]
    BY <1>3, <1>4, <1>7
  <1>9. ASSUME NEW i \in 1 .. Len(rest), NEW j \in i + 1 .. Len(rest) + 1
        PROVE  q[i] + Closes(rest[i]) <= q[j]
    <2>1. PICK a \in 1 .. Len(box) : a = i + 1
      BY <1>3
    <2>2. PICK b \in a + 1 .. Len(box) + 1 : b = j + 1
      BY <1>3, <2>1
    <2>3. due[a] + Closes(box[a]) <= due[b]
      BY <1>1
    <2>4. q[i] = due[a] /\ rest[i] = box[a]
      BY <1>3, <1>5, <2>1
    <2>5. q[j] = due[b]
      BY <1>3, <1>5, <2>2
    <2>6. QED
      BY <2>3, <2>4, <2>5
  <1>10. Numbered(rest, low + Closes(box[1]), high)
    BY <1>8, <1>9 DEF Numbered
  <1>11. QED
    BY <1>2, <1>3, <1>10

\* Numbers have been given out for every closing message that is on its way,
\* that a dump will end with, or that a registration waits for.
Low  == seqExpect + One(pc = "parse" /\ buf.type \in Final)
High == seqNext - One(dump.seq # 0) - One(pc = "registering")
AheadInv ==
  /\ Numbered(inbox, Low, High)
  /\ Open => seqExpect < seqNext

LEMMA AheadInvInit == Init => AheadInv
  <1> SUFFICES ASSUME Init
               PROVE  AheadInv
    OBVIOUS
  <1>1. inbox = <<>> /\ Low = 1 /\ High = 1 /\ ~Open
    BY DEF Init, Low, High, One, NoDump, Open, Requesting, Final
  <1>2. PICK due : due = [i \in 1 .. Len(inbox) + 1 |-> 1]
    OBVIOUS
  <1>3. due \in [1 .. Len(inbox) + 1 -> Low .. High]
    BY <1>1, <1>2
  <1>4. Len(inbox) = 0
    BY <1>1
  <1>5. Numbered(inbox, Low, High)
    BY <1>3, <1>4 DEF Numbered
  <1>6. QED
    BY <1>1, <1>5 DEF AheadInv

LEMMA AheadInvStep ==
  ASSUME TypeOK, LagInv, AheadInv, [Next]_vars
  PROVE  AheadInv'
  <1>0. /\ inbox \in Seq(Datagram) /\ buf \in Datagram
        /\ seqNext \in Nat /\ seqExpect \in Nat /\ dump.seq \in Nat
        /\ call.seq \in Nat /\ events \in Nat
        /\ err \in {-1, 0, 1}
        /\ pc \in {"idle", "registering", "recv", "parse", "test"}
        /\ Low \in Int /\ High \in Int
        /\ Numbered(inbox, Low, High) /\ Low <= High
    <2>1. Low \in Int /\ High \in Int
      BY DEF TypeOK, DataTypes, Low, High, One
    <2>2. Numbered(inbox, Low, High) /\ inbox \in Seq(Datagram)
      BY DEF AheadInv, TypeOK, DataTypes
    <2>3. Low <= High
      BY <2>1, <2>2, NumberedBounds
    <2>4. QED
      BY <2>1, <2>2, <2>3 DEF TypeOK, DataTypes
  <1>1. seqExpect <= seqNext
    BY <1>0 DEF Low, High, One
  <1>2. Low' \in Int /\ High' \in Int
    <2>1. DataTypes'
      BY DataTypesStep DEF TypeOK
    <2>2. seqExpect' \in Nat /\ seqNext' \in Nat
      BY <2>1 DEF DataTypes
    <2>3. \A b : One(b) \in {0, 1}
      BY DEF One
    <2>4. QED
      BY <2>2, <2>3 DEF Low, High
  \* The call that a request begins is open, and has the number that was next.
  <1>3. ASSUME NEW op, NEW where, StartCall(op, where), where # "parse"
        PROVE  /\ Low' = Low
               /\ Open' => seqExpect' < seqNext'
               /\ pc = "idle" /\ pc' = where /\ seqNext' = seqNext + 1
    BY <1>0, <1>1, <1>3 DEF StartCall, Low, One
  <1>4. ASSUME NEW op, NEW where, StartCall(op, where), where # "parse",
               inbox' = inbox, High' >= High
        PROVE  AheadInv'
    <2>1. Numbered(inbox, Low', High')
      BY <1>0, <1>2, <1>3, <1>4, NumberedMore
    <2>2. QED
      BY <1>3, <1>4, <2>1 DEF AheadInv
  <1>5. ASSUME NEW op, StartCall(op, "recv"), dump' = dump,
               NEW m, Extends(inbox', inbox, m)
        PROVE  AheadInv'
    <2>1. High' = High + 1 /\ Low' = Low
      BY <1>0, <1>3, <1>5 DEF High, One
    <2>2. High + Closes(m) <= High'
      BY <1>0, <2>1, ClosesNat
    <2>3. Numbered(inbox', Low, High')
      BY <1>0, <1>2, <1>5, <2>2, NumberedGrows
    <2>4. QED
      BY <1>3, <1>5, <2>1, <2>3 DEF AheadInv
  <1>6. CASE SendAct
    <2>1. Closing("ack", seqNext) \in Datagram
      BY <1>0, DatagramTypes DEF Final
    <2>2. Extends(inbox', inbox, Closing("ack", seqNext))
      BY <1>0, <1>6, <2>1, Delivered DEF SendAct, Answered
    <2>3. StartCall("act", "recv") /\ dump' = dump
      BY <1>6 DEF SendAct
    <2>4. QED
      BY <1>5, <2>2, <2>3
  <1>7. CASE SendGet
    <2>1. PICK D : D = Deliver(inbox, Reply(seqNext))
      OBVIOUS
    <2>2. Extends(D, inbox, Reply(seqNext))
      BY <1>0, <2>1, DatagramTypes, Delivered
    <2>3. D \in Seq(Datagram)
      BY <2>2 DEF Extends
    <2>4. Closes(Reply(seqNext)) = 0
      BY DEF Closes, One, Reply, Final
    <2>5. Numbered(D, Low, High)
      BY <1>0, <2>2, <2>4, NumberedGrows
    <2>6. Closing("ack", seqNext) \in Datagram
      BY <1>0, DatagramTypes DEF Final
    <2>7. Extends(inbox', D, Closing("ack", seqNext))
      BY <1>7, <2>1, <2>3, <2>6, Delivered DEF SendGet, Answered
    <2>8. StartCall("get", "recv") /\ dump' = dump
      BY <1>7 DEF SendGet
    <2>9. High' = High + 1 /\ Low' = Low
      BY <1>0, <1>3, <2>8 DEF High, One
    <2>10. High + Closes(Closing("ack", seqNext)) <= High'
      BY <1>0, <2>9, ClosesNat
    <2>11. Numbered(inbox', Low, High')
      BY <1>0, <1>2, <2>3, <2>5, <2>7, <2>10, NumberedGrows
    <2>12. QED
      BY <1>3, <2>8, <2>9, <2>11 DEF AheadInv
  <1>8. CASE SendDump
    <2>1. /\ StartCall("dump", "recv") /\ inbox' = inbox /\ dump.seq = 0
      BY <1>8 DEF SendDump
    <2>2. High' >= High
      BY <1>0, <1>3, <2>1, <1>2 DEF High, One
    <2>3. QED
      BY <1>4, <2>1, <2>2
  <1>9. CASE SendRefused
    <2>1. Closing("error", seqNext) \in Datagram
      BY <1>0, DatagramTypes DEF Final
    <2>2. PICK op \in Commands :
            /\ StartCall(op, "recv") /\ dump' = dump
            /\ Extends(inbox', inbox, Closing("error", seqNext))
      BY <1>0, <1>9, <2>1, Delivered DEF SendRefused, Answered
    <2>3. QED
      BY <1>5, <2>2
  <1>10. CASE SendRegister
    <2>1. /\ StartCall("register", "registering") /\ inbox' = inbox
          /\ dump' = dump
      BY <1>10 DEF SendRegister
    <2>2. High' >= High
      BY <1>0, <1>3, <2>1 DEF High, One
    <2>3. QED
      BY <1>4, <2>1, <2>2
  \* Steps that leave the receive buffer and the numbers alone, unless they
  \* give out another.
  <1>11. ASSUME inbox' = inbox, Low' <= Low, High' >= High,
                Open' => seqExpect' < seqNext'
         PROVE  AheadInv'
    <2>1. Numbered(inbox, Low', High')
      BY <1>0, <1>2, <1>11, NumberedMore
    <2>2. QED
      BY <1>11, <2>1 DEF AheadInv
  <1>12. CASE SendFails
    <2>1. /\ UNCHANGED <<inbox, dump, seqExpect, pc, buf>>
          /\ seqNext' = seqNext + 1
      BY <1>12 DEF SendFails, kernelVars
    <2>2. Low' <= Low /\ High' >= High /\ seqExpect' < seqNext'
      BY <1>0, <1>1, <2>1 DEF Low, High, One
    <2>3. QED
      BY <1>11, <2>1, <2>2
  <1>13. CASE Listen
    <2>1. /\ UNCHANGED <<inbox, dump, seqExpect, seqNext, buf>>
          /\ pc = "idle" /\ pc' = "recv" /\ ~Open'
      BY <1>13 DEF Listen, kernelVars, libnlVars, Open, Requesting
    <2>2. Low' <= Low /\ High' >= High
      BY <1>0, <2>1 DEF Low, High, One
    <2>3. QED
      BY <1>11, <2>1, <2>2
  <1>14. ASSUME UNCHANGED <<seqExpect, seqNext, call, err>>,
                pc # "idle" \/ pc' = pc
         PROVE  Open' => seqExpect' < seqNext'
    BY <1>14 DEF AheadInv, Open, Requesting
  <1>15. CASE FrameEvent
    <2>1. Event(events + 1) \in Datagram
      BY <1>0, DatagramTypes
    <2>2. Extends(inbox', inbox, Event(events + 1))
      BY <1>0, <1>15, <2>1, Delivered DEF FrameEvent
    <2>3. Closes(Event(events + 1)) = 0
      BY DEF Closes, One, Event, Final
    <2>4. UNCHANGED <<seqExpect, seqNext, call, err, pc, dump, buf>>
      BY <1>15 DEF FrameEvent, libnlVars, callVars
    <2>5. Low' = Low /\ High' = High
      BY <2>4 DEF Low, High
    <2>6. Numbered(inbox', Low, High)
      BY <1>0, <2>2, <2>3, NumberedGrows
    <2>7. QED
      BY <1>14, <2>4, <2>5, <2>6 DEF AheadInv
  \* A closing message that was waited for is on its way.
  <1>16. ASSUME NEW m, Extends(inbox', inbox, m), High' = High + 1, Low' = Low,
                UNCHANGED <<seqExpect, seqNext, call, err>>, pc # "idle"
         PROVE  AheadInv'
    <2>1. High + Closes(m) <= High'
      BY <1>0, <1>16, ClosesNat
    <2>2. Numbered(inbox', Low, High')
      BY <1>0, <1>2, <1>16, <2>1, NumberedGrows
    <2>3. QED
      BY <1>14, <1>16, <2>2 DEF AheadInv
  <1>17. CASE AckRegister
    <2>1. Closing("ack", call.seq) \in Datagram
      BY <1>0, DatagramTypes DEF Final
    <2>2. Extends(inbox', inbox, Closing("ack", call.seq))
      BY <1>0, <1>17, <2>1, Delivered DEF AckRegister, Answered
    <2>3. /\ UNCHANGED <<seqExpect, seqNext, call, err, dump, buf>>
          /\ pc = "registering" /\ pc' = "recv"
      BY <1>17 DEF AckRegister, libnlVars
    <2>4. High' = High + 1 /\ Low' = Low
      BY <1>0, <2>3 DEF Low, High, One
    <2>5. QED
      BY <1>16, <2>2, <2>3, <2>4
  <1>18. CASE DumpEntries
    <2>1. PICK n \in dump.next .. MaxParts :
            /\ inbox' = Append(inbox, Parts(dump.seq, dump.next, n))
            /\ dump' = [dump EXCEPT !.next = n + 1]
      BY <1>18 DEF DumpEntries
    <2>2. dump'.seq = dump.seq
      BY <2>1 DEF TypeOK, DataTypes
    <2>3. PICK m : m = Parts(dump.seq, dump.next, n)
      OBVIOUS
    <2>4. m \in Datagram /\ Closes(m) = 0
      <3>1. dump.next \in Nat /\ n \in Nat
        BY BoundsAssumption DEF TypeOK, DataTypes
      <3>2. m \in Datagram
        BY <1>0, <2>3, <3>1, DatagramTypes
      <3>3. m.type = "part"
        BY <2>3 DEF Parts
      <3>4. QED
        BY <3>2, <3>3 DEF Closes, One, Final
    <2>5. Extends(inbox', inbox, m)
      <3>1. inbox' = Append(inbox, m)
        BY <2>1, <2>3
      <3>2. QED
        BY <1>0, <2>4, <3>1 DEF Extends
    <2>6. /\ UNCHANGED <<seqExpect, seqNext, call, err, pc, buf>>
      BY <1>18 DEF DumpEntries, libnlVars, callVars
    <2>7. Low' = Low /\ High' = High
      BY <2>2, <2>6 DEF Low, High
    <2>8. Numbered(inbox', Low, High)
      BY <1>0, <2>4, <2>5, NumberedGrows
    <2>9. QED
      BY <1>14, <2>6, <2>7, <2>8 DEF AheadInv
  <1>19. CASE DumpDone
    <2>1. PICK m : m = Closing("done", dump.seq)
      OBVIOUS
    <2>2. m \in Datagram
      BY <1>0, <2>1, DatagramTypes DEF Final
    <2>3. Extends(inbox', inbox, m)
      <3>1. inbox' = Append(inbox, m)
        BY <1>19, <2>1 DEF DumpDone
      <3>2. QED
        BY <1>0, <2>2, <3>1 DEF Extends
    <2>4. /\ UNCHANGED <<seqExpect, seqNext, call, err, pc, buf>>
          /\ dump.seq # 0 /\ dump'.seq = 0 /\ pc = "recv"
      BY <1>19 DEF DumpDone, libnlVars, callVars, NoDump
    <2>5. Low' = Low /\ High' = High + 1
      BY <1>0, <2>4 DEF Low, High, One
    <2>6. QED
      BY <1>16, <2>3, <2>4, <2>5
  <1>20. CASE ReadDatagram
    <2>1. /\ inbox # <<>> /\ buf' = Head(inbox) /\ inbox' = Tail(inbox)
          /\ UNCHANGED <<seqExpect, seqNext, call, err, dump>>
          /\ pc = "recv" /\ pc' = "parse"
      BY <1>20 DEF ReadDatagram, libnlVars
    <2>2. Numbered(inbox', Low + Closes(Head(inbox)), High)
      BY <1>0, <2>1, NumberedRead
    <2>3. Low' = Low + Closes(Head(inbox)) /\ High' = High
      BY <1>0, <2>1 DEF Low, High, Closes, One
    <2>4. QED
      BY <1>14, <2>1, <2>2, <2>3 DEF AheadInv
  <1>21. ASSUME UNCHANGED <<inbox, seqExpect, seqNext, call, dump>>,
                err' = err \/ err' # 1,
                pc # "idle", pc' # "registering",
                pc' = "parse" => pc = "parse" /\ buf'.type = buf.type
         PROVE  AheadInv'
    <2>1. Low' <= Low /\ High' >= High
      BY <1>0, <1>2, <1>21 DEF Low, High, One
    <2>2. Open' => seqExpect' < seqNext'
      BY <1>21 DEF AheadInv, Open, Requesting
    <2>3. QED
      BY <1>11, <1>21, <2>1, <2>2
  <1>22. CASE ReadError \/ RejectSequence \/ LoopAgain \/ Return
    BY <1>21, <1>22 DEF ReadError, RejectSequence, LoopAgain, Return,
                        kernelVars, libnlVars
  \* The closing message that libnl takes had its number.
  <1>23. CASE HandleFinal
    <2>1. /\ UNCHANGED <<inbox, seqNext, call, dump>>
          /\ pc = "parse" /\ buf.type \in Final /\ pc' = "test"
          /\ seqExpect' = seqExpect + 1 /\ err' # 1
      BY <1>23 DEF HandleFinal, Verdict, kernelVars
    <2>2. Low' <= Low /\ High' >= High
      BY <1>0, <2>1 DEF Low, High, One
    <2>3. ~Open'
      BY <2>1 DEF Open
    <2>4. QED
      BY <1>11, <2>1, <2>2, <2>3
  <1>24. ASSUME Advance
         PROVE  pc' \in {"parse", "recv", "test"} /\ buf'.type = buf.type
    BY <1>0, <1>24 DEF Advance, Datagram
  <1>25. CASE HandleIgnored \/ HandleContinue
    BY <1>21, <1>24, <1>25 DEF HandleIgnored, HandleContinue, HandOver,
                               kernelVars, libnlVars
  <1>26. CASE HandleStop \/ HandleThrow
    BY <1>21, <1>26 DEF HandleStop, HandleThrow, HandOver, kernelVars,
                        libnlVars
  <1>27. CASE UNCHANGED vars
    <2>1. UNCHANGED <<inbox, seqExpect, seqNext, call, dump, err, pc, buf>>
      BY <1>27 DEF vars, kernelVars, libnlVars, callVars
    <2>2. Low' <= Low /\ High' >= High
      BY <1>0, <2>1 DEF Low, High
    <2>3. QED
      BY <1>11, <1>14, <2>1, <2>2
  <1>28. QED
    BY <1>6, <1>7, <1>8, <1>9, <1>10, <1>12, <1>13, <1>15, <1>17, <1>18,
       <1>19, <1>20, <1>22, <1>23, <1>25, <1>26, <1>27
       DEF Next, Send, Kernel, Recv

\* However a socket is reused after exceptions, the number that libnl expects
\* is none that is still to be given out, and lags behind those that were by at
\* most one per failure, besides the open command's own.
THEOREM SocketLagBounded == Spec => []LagBounded
  <1>1. Init => TypeOK /\ LagInv /\ AheadInv
    BY InitDataTypes, FlagTypesStep, LagInvInit, AheadInvInit DEF TypeOK
  <1>2. TypeOK /\ LagInv /\ AheadInv /\ [Next]_vars =>
          (TypeOK /\ LagInv /\ AheadInv)'
    BY DataTypesStep, FlagTypesStep, LagInvStep, AheadInvStep DEF TypeOK
  <1>3. TypeOK /\ LagInv /\ AheadInv => LagBounded
    <2> SUFFICES ASSUME TypeOK, LagInv, AheadInv
                 PROVE  LagBounded
      OBVIOUS
    <2>1. seqNext \in Nat /\ seqExpect \in Nat /\ failures \in Nat
          /\ inbox \in Seq(Datagram) /\ Low \in Int /\ High \in Int
      BY DEF TypeOK, DataTypes, Low, High, One
    <2>2. Low <= High
      BY <2>1, NumberedBounds DEF AheadInv
    <2>3. seqExpect <= seqNext
      BY <2>1, <2>2 DEF Low, High, One
    <2>4. QED
      BY <2>1, <2>3 DEF LagInv, AheadInv, LagBounded, Lag, Open, Requesting
  <1>4. QED
    BY <1>1, <1>2, <1>3, PTL DEF Spec

-----------------------------------------------------------------------------
(* A socket that has seen no failure is ready for the next command.          *)

OnlyFrames == \A i \in 1 .. Len(inbox) : inbox[i].type = "event"

\* Nothing is owed to anybody.
Quiet == seqExpect = seqNext /\ dump.seq = 0 /\ OnlyFrames

\* The call is still waiting for the ACK, error or DONE of its request.
Awaiting == Requesting /\ err = 1

\* What is on its way belongs to the request, and its last message is behind
\* everything else the kernel has to say about it.
Ours(m) == m.type # "event" => m.seq = call.seq
AnswerOnItsWay ==
  /\ seqExpect = call.seq /\ seqNext = call.seq + 1
  /\ dump.seq \in {0, call.seq}
  /\ \A i \in 1 .. Len(inbox) : Ours(inbox[i])
  /\ \A i \in 1 .. Len(inbox) : inbox[i].type \in Final =>
       /\ dump.seq = 0
       /\ \A j \in i + 1 .. Len(inbox) : inbox[j].type = "event"
  /\ pc = "parse" => Ours(buf)
  /\ pc = "registering" \/ (pc = "parse" /\ buf.type \in Final) =>
       dump.seq = 0 /\ OnlyFrames

SessionInv ==
  failures = 0 =>
    /\ Awaiting => AnswerOnItsWay
    /\ ~Awaiting => Quiet /\ (pc = "parse" => buf.type = "event")

LEMMA SessionInvInit == Init => SessionInv
  BY DEF Init, SessionInv, Awaiting, Requesting, Quiet, OnlyFrames, NoDump

LEMMA SessionInvStep ==
  TypeOK /\ LagInv /\ SessionInv /\ [Next]_vars => SessionInv'
  <1> SUFFICES ASSUME TypeOK, LagInv, SessionInv, [Next]_vars, failures' = 0
               PROVE  /\ Awaiting' => AnswerOnItsWay'
                      /\ ~Awaiting' => /\ Quiet'
                                       /\ pc' = "parse" =>
                                            buf'.type = "event"
    BY DEF SessionInv
  <1>0. /\ inbox \in Seq(Datagram) /\ buf \in Datagram
        /\ seqNext \in Nat /\ seqExpect \in Nat /\ failures \in Nat
        /\ dump.seq \in Nat /\ call.seq \in Nat
        /\ err \in {-1, 0, 1}
        /\ pc \in {"idle", "registering", "recv", "parse", "test"}
    BY DEF TypeOK, DataTypes
  <1>1. /\ pc \in {"registering", "recv", "parse"} => err = 1
        /\ pc = "registering" => call.op = "register"
    BY DEF LagInv
  <1> USE <1>0
  \* A request is sent from a quiet socket; m is the first message of its
  \* answer and n, where there is one, the second.
  <1>2. ASSUME pc = "idle", failures = 0
        PROVE  Quiet
    BY <1>2 DEF SessionInv, Awaiting, Requesting
  <1>3. ASSUME NEW op \in Commands, NEW where, StartCall(op, where),
               where = "registering" \/ where = "recv"
        PROVE  /\ Quiet /\ Awaiting' /\ pc' # "parse"
               /\ seqExpect' = call'.seq /\ seqNext' = call'.seq + 1
               /\ call'.seq = seqNext /\ pc' = where /\ failures = 0
    BY <1>2, <1>3 DEF StartCall, Quiet, Awaiting, Requesting, Commands
  <1>4. CASE SendAct
    <2>1. StartCall("act", "recv") /\ "act" \in Commands
      BY <1>4 DEF SendAct, Commands
    <2>2. Closing("ack", seqNext) \in Datagram
      BY DatagramTypes DEF Final
    <2>3. Extends(inbox', inbox, Closing("ack", seqNext)) /\ dump' = dump
      BY <1>4, <2>2, Delivered DEF SendAct, Answered
    <2>4. QED
      BY <1>3, <2>1, <2>3
         DEF Extends, AnswerOnItsWay, Quiet, OnlyFrames, Ours, Closing, Final
  <1>5. CASE SendGet
    <2>1. StartCall("get", "recv") /\ "get" \in Commands
      BY <1>5 DEF SendGet, Commands
    <2>2. PICK D : D = Deliver(inbox, Reply(seqNext))
      OBVIOUS
    <2>3. Extends(D, inbox, Reply(seqNext))
      BY <2>2, DatagramTypes, Delivered
    <2>4. /\ D \in Seq(Datagram)
          /\ \A i \in 1 .. Len(D) :
               \/ D[i].type = "event"
               \/ D[i].type = "reply" /\ D[i].seq = seqNext
      BY <1>3, <2>1, <2>3 DEF Extends, Quiet, OnlyFrames, Reply
    <2>5. Closing("ack", seqNext) \in Datagram
      BY DatagramTypes DEF Final
    <2>6. Extends(inbox', D, Closing("ack", seqNext)) /\ dump' = dump
      BY <1>5, <2>2, <2>4, <2>5, Delivered DEF SendGet, Answered
    <2>7. \A i \in 1 .. Len(inbox') :
             /\ inbox'[i].type # "event" => inbox'[i].seq = seqNext
             /\ inbox'[i].type \in Final => i = Len(inbox')
      BY <2>4, <2>6 DEF Extends, Closing, Final
    <2>8. dump'.seq = 0
      BY <1>3, <2>1, <2>6 DEF Quiet
    <2>9. Len(inbox') \in Nat
      BY <2>6 DEF Extends
    <2>10. QED
      BY <1>3, <2>1, <2>7, <2>8, <2>9 DEF AnswerOnItsWay, Ours
  <1>6. CASE SendDump
    <2>1. StartCall("dump", "recv") /\ "dump" \in Commands
      BY <1>6 DEF SendDump, Commands
    <2>2. QED
      BY <1>3, <1>6, <2>1
         DEF SendDump, AnswerOnItsWay, Quiet, OnlyFrames, Ours, Final
  <1>7. CASE SendRefused
    <2>1. Closing("error", seqNext) \in Datagram
      BY DatagramTypes DEF Final
    <2>2. PICK op \in Commands :
            /\ StartCall(op, "recv")
            /\ Extends(inbox', inbox, Closing("error", seqNext))
            /\ dump' = dump
      BY <1>7, <2>1, Delivered DEF SendRefused, Answered
    <2>3. QED
      BY <1>3, <2>2
         DEF Extends, AnswerOnItsWay, Quiet, OnlyFrames, Ours, Closing, Final
  <1>8. CASE SendRegister
    <2>1. StartCall("register", "registering") /\ "register" \in Commands
      BY <1>8 DEF SendRegister, Commands
    <2>2. QED
      BY <1>3, <1>8, <2>1
         DEF SendRegister, AnswerOnItsWay, Quiet, OnlyFrames, Ours, Final
  <1>9. CASE SendFails
    BY <1>9 DEF SendFails
  <1>10. CASE Listen
    BY <1>2, <1>10
       DEF Listen, Awaiting, Requesting, Quiet, OnlyFrames, kernelVars,
           libnlVars, history
  \* A frame, wherever it lands among the answers, is not one of them.
  <1>11. CASE FrameEvent
    <2>1. Event(events + 1) \in Datagram
      BY DatagramTypes DEF TypeOK, DataTypes
    <2>2. Extends(inbox', inbox, Event(events + 1))
      BY <1>11, <2>1, Delivered DEF FrameEvent
    <2>3. /\ Len(inbox') \in {Len(inbox), Len(inbox) + 1}
          /\ \A i \in 1 .. Len(inbox) : inbox'[i] = inbox[i]
          /\ Len(inbox') = Len(inbox) + 1 =>
               inbox'[Len(inbox) + 1].type = "event"
      BY <2>2 DEF Extends, Event
    <2>4. UNCHANGED <<dump, seqNext, seqExpect, pc, call, buf, err, failures>>
      BY <1>11 DEF FrameEvent, libnlVars, callVars
    <2>5. QED
      BY <2>3, <2>4
         DEF SessionInv, Awaiting, Requesting, AnswerOnItsWay, Quiet,
             OnlyFrames, Ours, Final
  <1>12. CASE AckRegister
    <2>1. Closing("ack", call.seq) \in Datagram
      BY DatagramTypes DEF Final
    <2>2. Extends(inbox', inbox, Closing("ack", call.seq))
      BY <1>12, <2>1, Delivered DEF AckRegister, Answered
    <2>3. /\ UNCHANGED <<dump, seqNext, seqExpect, call, err, failures>>
          /\ pc = "registering" /\ pc' = "recv"
      BY <1>12 DEF AckRegister, libnlVars
    <2>4. Awaiting /\ Awaiting' /\ AnswerOnItsWay
      BY <1>1, <2>3 DEF SessionInv, Awaiting, Requesting
    <2>5. QED
      BY <2>2, <2>3, <2>4, SMTT(40)
         DEF Extends, AnswerOnItsWay, OnlyFrames, Ours, Closing, Final
  \* While a dump is running nothing has closed the answer yet.
  <1>13. ASSUME pc = "recv", dump.seq # 0, failures = 0
         PROVE  /\ Awaiting /\ AnswerOnItsWay /\ dump.seq = call.seq
                /\ \A i \in 1 .. Len(inbox) : inbox[i].type \notin Final
    <2>1. Awaiting /\ AnswerOnItsWay
      BY <1>1, <1>13 DEF SessionInv, Quiet
    <2>2. QED
      BY <1>13, <2>1 DEF AnswerOnItsWay
  <1>14. CASE DumpEntries
    <2>1. PICK n \in dump.next .. MaxParts :
            /\ inbox' = Append(inbox, Parts(dump.seq, dump.next, n))
            /\ dump' = [dump EXCEPT !.next = n + 1]
      BY <1>14 DEF DumpEntries
    <2>2. dump'.seq = dump.seq
      BY <2>1 DEF TypeOK, DataTypes
    <2>3. PICK m : m = Parts(dump.seq, dump.next, n)
      OBVIOUS
    <2>4. m.type = "part" /\ m.seq = dump.seq
      BY <2>3 DEF Parts
    <2>5. /\ UNCHANGED <<seqNext, seqExpect, pc, call, buf, err, failures>>
          /\ pc = "recv" /\ dump.seq # 0
      BY <1>14 DEF DumpEntries, libnlVars, callVars
    <2>6. /\ Len(inbox') = Len(inbox) + 1
          /\ \A i \in 1 .. Len(inbox) : inbox'[i] = inbox[i]
          /\ inbox'[Len(inbox) + 1] = m
      BY <2>1, <2>3
    <2>7. \A i \in 1 .. Len(inbox') :
             /\ inbox'[i].type \notin Final
             /\ inbox'[i].type # "event" => inbox'[i].seq = call.seq
      <3>1. SUFFICES ASSUME NEW i \in 1 .. Len(inbox')
                     PROVE  /\ inbox'[i].type \notin Final
                            /\ inbox'[i].type # "event" =>
                                 inbox'[i].seq = call.seq
        OBVIOUS
      <3>2. failures = 0 /\ dump.seq = call.seq /\ AnswerOnItsWay
        BY <1>13, <2>5
      <3>3. CASE i \in 1 .. Len(inbox)
        BY <1>13, <2>5, <2>6, <3>2, <3>3 DEF AnswerOnItsWay, Ours
      <3>4. CASE i = Len(inbox) + 1
        BY <2>4, <2>6, <3>2, <3>4 DEF Final
      <3>5. QED
        BY <2>6, <3>3, <3>4
    <2>8. failures = 0 /\ Awaiting /\ Awaiting' /\ AnswerOnItsWay
      BY <1>13, <2>5 DEF Awaiting, Requesting
    <2>9. QED
      BY <2>2, <2>5, <2>7, <2>8 DEF AnswerOnItsWay, Ours
  <1>15. CASE DumpDone
    <2>1. PICK m : m = Closing("done", dump.seq)
      OBVIOUS
    <2>2. m.type = "done" /\ m.seq = dump.seq
      BY <2>1 DEF Closing
    <2>3. /\ UNCHANGED <<seqNext, seqExpect, pc, call, buf, err, failures>>
          /\ pc = "recv" /\ dump.seq # 0 /\ dump'.seq = 0
      BY <1>15 DEF DumpDone, NoDump, libnlVars, callVars, history
    <2>4. /\ Len(inbox') = Len(inbox) + 1
          /\ \A i \in 1 .. Len(inbox) : inbox'[i] = inbox[i]
          /\ inbox'[Len(inbox) + 1] = m
      BY <1>15, <2>1 DEF DumpDone
    <2>5. QED
      BY <1>13, <2>2, <2>3, <2>4
         DEF Awaiting, Requesting, AnswerOnItsWay, Ours, Final
  \* Reading a closing message: only frames are behind it.
  <1>16. CASE ReadDatagram
    <2>1. /\ inbox # <<>> /\ buf' = Head(inbox) /\ inbox' = Tail(inbox)
          /\ pc = "recv" /\ pc' = "parse"
          /\ UNCHANGED <<dump, seqNext, seqExpect, call, err, failures>>
      BY <1>16 DEF ReadDatagram, libnlVars, history
    <2>2. /\ Len(inbox) \in Nat \ {0} /\ buf' = inbox[1]
          /\ Len(inbox') = Len(inbox) - 1
          /\ \A i \in 1 .. Len(inbox') : inbox'[i] = inbox[i + 1]
      BY <2>1
    <2>3. CASE Awaiting
      <3>1. Awaiting' /\ AnswerOnItsWay
        BY <2>1, <2>3 DEF SessionInv, Awaiting, Requesting
      <3>2. \A i \in 1 .. Len(inbox') : i + 1 \in 1 .. Len(inbox)
        BY <2>2
      <3>3. buf'.type \in Final => dump.seq = 0 /\ OnlyFrames'
        BY <2>2, <3>1, <3>2 DEF AnswerOnItsWay, OnlyFrames
      <3>4. \A i \in 1 .. Len(inbox') : inbox'[i].type \in Final =>
              /\ dump.seq = 0
              /\ \A j \in i + 1 .. Len(inbox') : inbox'[j].type = "event"
        <4> SUFFICES ASSUME NEW i \in 1 .. Len(inbox'),
                            inbox'[i].type \in Final
                     PROVE  /\ dump.seq = 0
                            /\ \A j \in i + 1 .. Len(inbox') :
                                 inbox'[j].type = "event"
          OBVIOUS
        <4>1. /\ i + 1 \in 1 .. Len(inbox)
              /\ inbox[i + 1].type \in Final
          BY <2>2
        <4>2. /\ dump.seq = 0
              /\ \A j \in (i + 1) + 1 .. Len(inbox) :
                   inbox[j].type = "event"
          BY <3>1, <4>1 DEF AnswerOnItsWay
        <4>3. ASSUME NEW j \in i + 1 .. Len(inbox')
              PROVE  inbox'[j].type = "event"
          <5>1. /\ j + 1 \in (i + 1) + 1 .. Len(inbox)
                /\ j \in 1 .. Len(inbox')
            BY <2>2
          <5>2. QED
            BY <2>2, <4>2, <5>1
        <4>4. QED
          BY <4>2, <4>3
      <3>5. QED
        BY <2>1, <2>2, <3>1, <3>2, <3>3, <3>4 DEF AnswerOnItsWay, Ours
    <2>4. CASE ~Awaiting
      BY <2>1, <2>2, <2>4
         DEF SessionInv, Awaiting, Requesting, Quiet, OnlyFrames
    <2>5. QED
      BY <2>3, <2>4
  \* Steps that leave the kernel, libnl's numbers and the call alone.
  <1>17. ASSUME UNCHANGED <<inbox, dump, seqNext, seqExpect, call, buf, err,
                            failures>>,
                pc # "idle", pc' \in {"recv", "test"}
         PROVE  /\ Awaiting' => AnswerOnItsWay'
                /\ ~Awaiting' => Quiet' /\ pc' # "parse"
    BY <1>17 DEF SessionInv, Awaiting, Requesting, AnswerOnItsWay, Quiet,
                 OnlyFrames, Ours
  <1>18. CASE ReadError
    BY <1>17, <1>18 DEF ReadError, libnlVars, history
  <1>19. CASE RejectSequence
    BY <1>17, <1>19 DEF RejectSequence, kernelVars, libnlVars, history
  <1>20. CASE HandleFinal
    <2>1. /\ UNCHANGED <<inbox, dump, seqNext, call, failures>>
          /\ pc = "parse" /\ pc' = "test" /\ buf.type \in Final
          /\ seqExpect' = seqExpect + 1 /\ err' # 1
      BY <1>20 DEF HandleFinal, Verdict, kernelVars, history
    <2>2. Awaiting /\ AnswerOnItsWay
      BY <2>1 DEF SessionInv, Final
    <2>3. QED
      BY <2>1, <2>2
         DEF Awaiting, Requesting, AnswerOnItsWay, Quiet, OnlyFrames
  <1>21. CASE LoopAgain
    BY <1>17, <1>21 DEF LoopAgain, kernelVars, libnlVars, history
  <1>22. CASE Return
    <2>1. ~Awaiting /\ pc' = "idle"
      BY <1>22 DEF Return, MayLoop, Awaiting, Requesting
    <2>2. QED
      BY <1>22, <2>1
         DEF Return, SessionInv, Awaiting, Requesting, Quiet, OnlyFrames,
             kernelVars, libnlVars, history
  \* Handling a message moves `first` on in the same datagram at most.
  <1>23. ASSUME Advance, pc = "parse", err' = err,
                UNCHANGED <<inbox, dump, seqNext, seqExpect, call, failures>>
         PROVE  /\ Awaiting' => AnswerOnItsWay'
                /\ ~Awaiting' => Quiet' /\ (pc' = "parse" =>
                                              buf'.type = "event")
    <2>1. /\ pc' \in {"parse", "recv", "test"}
          /\ buf'.type = buf.type /\ buf'.seq = buf.seq
      BY <1>23 DEF Advance, Datagram
    <2>2. QED
      BY <1>23, <2>1 DEF SessionInv, Awaiting, Requesting, AnswerOnItsWay,
                         Quiet, OnlyFrames, Ours
  <1>24. CASE HandleIgnored
    BY <1>23, <1>24 DEF HandleIgnored, kernelVars, libnlVars, history
  <1>25. CASE HandleContinue
    BY <1>23, <1>25 DEF HandleContinue, HandOver, kernelVars, libnlVars
  <1>26. CASE HandleStop
    BY <1>26 DEF HandleStop, HandOver, SessionInv, Awaiting, Requesting,
                 Quiet, OnlyFrames, kernelVars, libnlVars
  <1>27. CASE HandleThrow
    <2>1. call.op = "listen" /\ failures = 0
      BY <1>27 DEF HandleThrow
    <2>2. QED
      BY <1>27, <2>1
         DEF HandleThrow, HandOver, SessionInv, Awaiting, Requesting, Quiet,
             OnlyFrames, kernelVars, libnlVars
  <1>28. CASE UNCHANGED vars
    BY <1>28 DEF SessionInv, Awaiting, Requesting, AnswerOnItsWay, Quiet,
                 OnlyFrames, Ours, vars, kernelVars, libnlVars, callVars,
                 history
  <1>29. QED
    BY <1>4, <1>5, <1>6, <1>7, <1>8, <1>9, <1>10, <1>11, <1>12, <1>14, <1>15,
       <1>16, <1>18, <1>19, <1>20, <1>21, <1>22, <1>24, <1>25, <1>26, <1>27,
       <1>28
       DEF Next, Send, Kernel, Recv

\* A call that is back on a socket without failures has consumed its whole
\* answer: the next command starts from a clean socket.
THEOREM SocketReadyForNext == Spec => []ReadyForNext
  <1>1. Init => TypeOK /\ LagInv /\ SessionInv
    BY InitDataTypes, FlagTypesStep, LagInvInit, SessionInvInit DEF TypeOK
  <1>2. TypeOK /\ LagInv /\ SessionInv /\ [Next]_vars =>
          (TypeOK /\ LagInv /\ SessionInv)'
    BY DataTypesStep, FlagTypesStep, LagInvStep, SessionInvStep DEF TypeOK
  <1>3. SessionInv => ReadyForNext
    BY DEF SessionInv, ReadyForNext, Awaiting, Requesting, Quiet, OnlyFrames
  <1>4. QED
    BY <1>1, <1>2, <1>3, PTL DEF Spec
=============================================================================
