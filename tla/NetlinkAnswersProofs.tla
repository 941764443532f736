------------------------ MODULE NetlinkAnswersProofs ------------------------
(* Theorems about the answers that nl80211::Socket gives to commands, and    *)
(* that it implements CommandChannel, for any number of requests, frames and *)
(* dump entries and any receive buffer.                                      *)
EXTENDS NetlinkSocketProofs

-----------------------------------------------------------------------------
(* The inductive invariant.                                                  *)

Content == {"reply", "part"}

\* Frames alone are not numbered, and so never look like an answer.
NumberInv ==
  /\ seqNext >= 1
  /\ call.op = "none" => pc = "idle" /\ got = <<>>
  /\ call.op \in Commands => call.seq >= 1
  /\ \A i \in 1 .. Len(inbox) : inbox[i].type = "event" => inbox[i].seq = 0
  /\ pc = "parse" /\ buf.type = "event" => buf.seq = 0

\* The last entry the caller has been given or is being given now.
Upto == IF pc = "parse" /\ buf.type \in Content THEN buf.last ELSE Len(got)

\* pos[i] is the entry that has its turn when inbox[i] is read: the entries of
\* the answer lie in the receive buffer in order and without a gap, whatever
\* lies between them, and a closing message comes after the last.
InOrder(pos) ==
  /\ pos[1] = Upto + 1
  /\ \A i \in 1 .. Len(inbox) :
       IF inbox[i].type \in Content
       THEN /\ inbox[i].first = pos[i] /\ inbox[i].first <= inbox[i].last
            /\ pos[i + 1] = inbox[i].last + 1
       ELSE pos[i + 1] = pos[i]
  /\ \A i \in 1 .. Len(inbox) :
       inbox[i].type \in Final => pos[i] = promise.parts + 1
  /\ pc = "registering" \/ dump.seq # 0 =>
       pos[Len(inbox) + 1] = promise.parts + 1

Positions == [1 .. Len(inbox) + 1 -> 1 .. promise.parts + 1]

\* A closing message says what the kernel decided.
Truthful(m) ==
  m.type \in Final => (m.type = "error" <=> ~promise.granted)

AnswerInOrder ==
  /\ \E pos \in Positions : InOrder(pos)
  /\ \A i \in 1 .. Len(inbox) : Truthful(inbox[i])
  /\ dump.seq # 0 => promise.granted /\ dump.next = promise.parts + 1
  /\ pc = "registering" => promise.granted
  /\ ~HasCallback => \A i \in 1 .. Len(inbox) : inbox[i].type \notin Content
  /\ pc = "parse" =>
       /\ Truthful(buf)
       /\ buf.type \in Content =>
            HasCallback /\ buf.first = Len(got) + 1 /\ buf.first <= buf.last
       /\ buf.type \in Final => Len(got) = promise.parts

\* What the kernel can have decided about each kind of request.
Promised ==
  /\ call.op \in {"act", "register"} => promise.parts = 0
  /\ call.op = "get" /\ promise.granted => promise.parts = 1
  /\ call.op = "dump" => promise.parts <= MaxParts
  /\ ~promise.granted => promise.parts = 0
  /\ call.op = "dump" \/ dump.seq = 0

Concluded(ok, failed) ==
  \/ ok /\ promise.granted /\ Len(got) = promise.parts
  \/ failed /\ ~promise.granted /\ got = <<>>

\* The state of a call with a request of its own.
InAnswer ==
  /\ \A i \in 1 .. Len(got) : got[i] = [seq |-> call.seq, part |-> i]
  /\ ~ex
  /\ Promised
  /\ Awaiting => AnswerInOrder
  /\ ~Awaiting /\ pc # "idle" => Concluded(err = 0, err = -1)
  /\ pc # "idle" => outcome = "none"
  /\ pc = "idle" => Concluded(outcome = "ok", outcome = "error")

AnswerInv == failures = 0 /\ call.op \in Commands => InAnswer

SocketInv == TypeOK /\ LagInv /\ SessionInv /\ NumberInv /\ AnswerInv

-----------------------------------------------------------------------------
(* Numbers.                                                                  *)

LEMMA NumberInvStep ==
  ASSUME TypeOK, LagInv, NumberInv, [Next]_vars
  PROVE  NumberInv'
  <1>0. /\ inbox \in Seq(Datagram) /\ buf \in Datagram
        /\ seqNext \in Nat /\ call.seq \in Nat /\ dump.seq \in Nat
        /\ events \in Nat
        /\ pc \in {"idle", "registering", "recv", "parse", "test"}
    BY DEF TypeOK, DataTypes
  <1> USE <1>0 DEF NumberInv
  \* What is put behind the rest of the receive buffer is a frame or no event.
  <1>1. ASSUME NEW m, Extends(inbox', inbox, m),
               m.type = "event" => m.seq = 0
        PROVE  \A i \in 1 .. Len(inbox') :
                 inbox'[i].type = "event" => inbox'[i].seq = 0
    BY <1>1 DEF Extends
  <1>2. ASSUME NEW op \in Commands, NEW where, StartCall(op, where),
               where # "parse",
               \A i \in 1 .. Len(inbox') :
                 inbox'[i].type = "event" => inbox'[i].seq = 0
        PROVE  NumberInv'
    BY <1>2 DEF StartCall, Commands
  <1>3. CASE SendAct
    <2>1. Closing("ack", seqNext) \in Datagram
      BY DatagramTypes DEF Final
    <2>2. Extends(inbox', inbox, Closing("ack", seqNext))
      BY <1>3, <2>1, Delivered DEF SendAct, Answered
    <2>3. StartCall("act", "recv") /\ "act" \in Commands
      BY <1>3 DEF SendAct, Commands
    <2>4. Closing("ack", seqNext).type # "event"
      BY DEF Closing
    <2>5. QED
      BY <1>1, <1>2, <2>2, <2>3, <2>4
  <1>4. CASE SendGet
    <2>1. PICK D : D = Deliver(inbox, Reply(seqNext))
      OBVIOUS
    <2>2. Extends(D, inbox, Reply(seqNext))
      BY <2>1, DatagramTypes, Delivered
    <2>3. /\ D \in Seq(Datagram)
          /\ \A i \in 1 .. Len(D) : D[i].type = "event" => D[i].seq = 0
      BY <2>2 DEF Extends, Reply
    <2>4. Closing("ack", seqNext) \in Datagram
      BY DatagramTypes DEF Final
    <2>5. Extends(inbox', D, Closing("ack", seqNext))
      BY <1>4, <2>1, <2>3, <2>4, Delivered DEF SendGet, Answered
    <2>6. \A i \in 1 .. Len(inbox') :
            inbox'[i].type = "event" => inbox'[i].seq = 0
      BY <2>3, <2>5 DEF Extends, Closing
    <2>7. StartCall("get", "recv") /\ "get" \in Commands
      BY <1>4 DEF SendGet, Commands
    <2>8. QED
      BY <1>2, <2>6, <2>7
  <1>5. CASE SendDump
    <2>1. StartCall("dump", "recv") /\ inbox' = inbox /\ "dump" \in Commands
      BY <1>5 DEF SendDump, Commands
    <2>2. QED
      BY <1>2, <2>1
  <1>6. CASE SendRefused
    <2>1. Closing("error", seqNext) \in Datagram
      BY DatagramTypes DEF Final
    <2>2. PICK op \in Commands :
            /\ StartCall(op, "recv")
            /\ Extends(inbox', inbox, Closing("error", seqNext))
      BY <1>6, <2>1, Delivered DEF SendRefused, Answered
    <2>3. Closing("error", seqNext).type # "event"
      BY DEF Closing
    <2>4. QED
      BY <1>1, <1>2, <2>2, <2>3
  <1>7. CASE SendRegister
    <2>1. /\ StartCall("register", "registering") /\ inbox' = inbox
          /\ "register" \in Commands
      BY <1>7 DEF SendRegister, Commands
    <2>2. QED
      BY <1>2, <2>1
  <1>8. CASE SendFails
    BY <1>8 DEF SendFails, kernelVars
  <1>9. CASE Listen
    BY <1>9 DEF Listen, kernelVars, libnlVars, Commands
  <1>10. CASE FrameEvent
    <2>1. Event(events + 1) \in Datagram
      BY DatagramTypes
    <2>2. Extends(inbox', inbox, Event(events + 1))
      BY <1>10, <2>1, Delivered DEF FrameEvent
    <2>3. Event(events + 1).seq = 0
      BY DEF Event
    <2>4. QED
      BY <1>1, <1>10, <2>2, <2>3 DEF FrameEvent, libnlVars, callVars
  <1>11. CASE AckRegister
    <2>1. Closing("ack", call.seq) \in Datagram
      BY DatagramTypes DEF Final
    <2>2. Extends(inbox', inbox, Closing("ack", call.seq))
      BY <1>11, <2>1, Delivered DEF AckRegister, Answered
    <2>3. Closing("ack", call.seq).type # "event"
      BY DEF Closing
    <2>4. QED
      BY <1>1, <1>11, <2>2, <2>3 DEF AckRegister, libnlVars
  <1>12. CASE DumpEntries
    <2>1. PICK n \in dump.next .. MaxParts :
            inbox' = Append(inbox, Parts(dump.seq, dump.next, n))
      BY <1>12 DEF DumpEntries
    <2>2. PICK m : m = Parts(dump.seq, dump.next, n)
      OBVIOUS
    <2>3. m.type # "event"
      BY <2>2 DEF Parts
    <2>4. \A i \in 1 .. Len(inbox') :
            inbox'[i].type = "event" => inbox'[i].seq = 0
      BY <2>1, <2>2, <2>3
    <2>5. QED
      BY <1>12, <2>4 DEF DumpEntries, libnlVars, callVars
  <1>13. CASE DumpDone
    <2>1. PICK m : m = Closing("done", dump.seq)
      OBVIOUS
    <2>2. m.type # "event"
      BY <2>1 DEF Closing
    <2>3. inbox' = Append(inbox, m)
      BY <1>13, <2>1 DEF DumpDone
    <2>4. \A i \in 1 .. Len(inbox') :
            inbox'[i].type = "event" => inbox'[i].seq = 0
      BY <2>2, <2>3
    <2>5. QED
      BY <1>13, <2>4 DEF DumpDone, libnlVars, callVars
  <1>14. CASE ReadDatagram
    BY <1>14 DEF ReadDatagram, libnlVars
  <1>15. CASE ReadError \/ RejectSequence \/ HandleFinal \/ LoopAgain \/ Return
    BY <1>15 DEF ReadError, RejectSequence, HandleFinal, LoopAgain, Return,
                 kernelVars, libnlVars
  <1>16. ASSUME Advance, pc = "parse", UNCHANGED <<inbox, seqNext, call>>
         PROVE  NumberInv'
    <2>1. buf'.type = buf.type /\ buf'.seq = buf.seq
      BY <1>16 DEF Advance, Datagram
    <2>2. QED
      BY <1>16, <2>1
  <1>17. CASE HandleIgnored \/ HandleContinue
    BY <1>16, <1>17 DEF HandleIgnored, HandleContinue, HandOver, kernelVars,
                        libnlVars
  <1>18. CASE HandleStop \/ HandleThrow
    BY <1>18 DEF HandleStop, HandleThrow, HandOver, kernelVars, libnlVars
  <1>19. CASE UNCHANGED vars
    BY <1>19 DEF vars, kernelVars, libnlVars, callVars
  <1>20. QED
    BY <1>3, <1>4, <1>5, <1>6, <1>7, <1>8, <1>9, <1>10, <1>11, <1>12, <1>13,
       <1>14, <1>15, <1>17, <1>18, <1>19 DEF Next, Send, Kernel, Recv

-----------------------------------------------------------------------------
(* The order of the answer.                                                  *)

\* What is put behind the rest and is no entry leaves the order as it was.
LEMMA GrowOrder ==
  ASSUME TypeOK, NEW m, Extends(inbox', inbox, m), m.type \notin Content,
         NEW pos \in Positions, InOrder(pos),
         m.type \in Final => pos[Len(inbox) + 1] = promise.parts + 1,
         promise'.parts = promise.parts, Upto' = Upto,
         pc' = "registering" \/ dump'.seq # 0 =>
           pc = "registering" \/ dump.seq # 0
  PROVE  \E q \in Positions' : InOrder(q)'
  <1> DEFINE L == Len(inbox)
  <1>0. PICK q : q = [i \in 1 .. Len(inbox') + 1 |->
                        IF i <= L + 1 THEN pos[i] ELSE pos[L + 1]]
    OBVIOUS
  <1>1. /\ L \in Nat /\ Len(inbox') \in {L, L + 1}
        /\ \A i \in 1 .. L : inbox'[i] = inbox[i]
        /\ Len(inbox') = L + 1 => inbox'[L + 1] = m
    BY DEF Extends, TypeOK, DataTypes
  <1>2. pos \in [1 .. L + 1 -> 1 .. promise.parts + 1]
    BY DEF Positions
  <1>3. q \in Positions'
    BY <1>0, <1>1, <1>2 DEF Positions
  <1>4. /\ \A i \in 1 .. L + 1 : q[i] = pos[i]
        /\ Len(inbox') = L + 1 => q[L + 2] = pos[L + 1]
    BY <1>0, <1>1
  <1>5. q[1] = Upto' + 1
    BY <1>1, <1>4 DEF InOrder
  <1>6. ASSUME NEW i \in 1 .. Len(inbox')
        PROVE  /\ IF inbox'[i].type \in Content
                  THEN /\ inbox'[i].first = q[i]
                       /\ inbox'[i].first <= inbox'[i].last
                       /\ q[i + 1] = inbox'[i].last + 1
                  ELSE q[i + 1] = q[i]
               /\ inbox'[i].type \in Final => q[i] = promise'.parts + 1
    <2>1. CASE i \in 1 .. L
      <3>1. i \in 1 .. L + 1 /\ i + 1 \in 1 .. L + 1
        BY <1>1, <2>1
      <3>3. inbox'[i] = inbox[i] /\ q[i] = pos[i] /\ q[i + 1] = pos[i + 1]
        BY <1>1, <1>4, <2>1, <3>1
      <3>2. QED
        BY <2>1, <3>3 DEF InOrder
    <2>2. CASE i = L + 1
      <3>1. inbox'[i] = m /\ q[i] = pos[L + 1] /\ q[i + 1] = pos[L + 1]
        BY <1>1, <1>4, <2>2
      <3>2. QED
        BY <3>1
    <2>3. QED
      BY <1>1, <2>1, <2>2
  <1>7. pc' = "registering" \/ dump'.seq # 0 =>
          q[Len(inbox') + 1] = promise'.parts + 1
    <2>1. q[Len(inbox') + 1] = pos[L + 1]
      BY <1>1, <1>4
    <2>2. QED
      BY <2>1 DEF InOrder
  <1>8. InOrder(q)'
    BY <1>5, <1>6, <1>7 DEF InOrder
  <1>9. QED
    BY <1>3, <1>8

\* Before an answer begins nothing has its turn but the first entry.
LEMMA FreshOrder ==
  ASSUME inbox' \in Seq(Datagram), promise'.parts = 0, got' = <<>>,
         pc' # "parse",
         \A i \in 1 .. Len(inbox') : inbox'[i].type \notin Content
  PROVE  \E q \in Positions' : InOrder(q)'
  <1>0. PICK q : q = [i \in 1 .. Len(inbox') + 1 |-> 1]
    OBVIOUS
  <1>1. Len(inbox') \in Nat /\ Upto' = 0
    BY DEF Upto
  <1>2. q \in Positions'
    BY <1>0, <1>1 DEF Positions
  <1>3. \A i \in 1 .. Len(inbox') + 1 : q[i] = 1
    BY <1>0
  <1>4. q[1] = 1 /\ q[Len(inbox') + 1] = 1
    BY <1>1, <1>3
  <1>5. \A i \in 1 .. Len(inbox') : q[i] = 1 /\ q[i + 1] = 1
    BY <1>1, <1>3
  <1>6. InOrder(q)'
    BY <1>1, <1>4, <1>5 DEF InOrder
  <1>7. QED
    BY <1>2, <1>6

\* Steps that do not touch the receive buffer and hand nothing over.
LEMMA SameOrder ==
  ASSUME NEW pos \in Positions, InOrder(pos),
         inbox' = inbox, promise' = promise, dump' = dump, Upto' = Upto,
         pc' # "registering"
  PROVE  \E q \in Positions' : InOrder(q)'
  <1>1. pos \in Positions'
    BY DEF Positions
  <1>2. InOrder(pos)'
    BY DEF InOrder
  <1>3. QED
    BY <1>1, <1>2

\* Reading takes the entry whose turn it is, or something that is no entry; a
\* closing message is read when the caller has had everything.
LEMMA ReadOrder ==
  ASSUME TypeOK, NEW pos \in Positions, InOrder(pos),
         inbox # <<>>, buf' = Head(inbox), inbox' = Tail(inbox),
         pc = "recv", pc' = "parse", promise' = promise, dump' = dump,
         got' = got
  PROVE  /\ \E q \in Positions' : InOrder(q)'
         /\ buf'.type \in Content =>
              buf'.first = Len(got) + 1 /\ buf'.first <= buf'.last
         /\ buf'.type \in Final => Len(got) = promise.parts
  <1> DEFINE L == Len(inbox)
  <1>1. /\ L \in Nat \ {0} /\ buf' = inbox[1] /\ buf' \in Datagram
        /\ Len(inbox') = L - 1
        /\ \A i \in 1 .. L - 1 : inbox'[i] = inbox[i + 1]
        /\ Len(got) \in Nat /\ promise.parts \in Nat
    BY DEF TypeOK, DataTypes
  <1>2. PICK q : q = [i \in 1 .. L |-> pos[i + 1]]
    OBVIOUS
  <1>3. pos \in [1 .. L + 1 -> 1 .. promise.parts + 1]
    BY DEF Positions
  <1>4. \A i \in 1 .. L : q[i] = pos[i + 1] /\ q[i] \in 1 .. promise.parts + 1
    BY <1>1, <1>2, <1>3
  <1>5. q \in Positions'
    <2>1. q \in [1 .. L -> 1 .. promise.parts + 1]
      BY <1>2, <1>4
    <2>2. (L - 1) + 1 = L
      BY <1>1
    <2>3. QED
      BY <1>1, <2>1, <2>2 DEF Positions
  <1>6. Upto = Len(got) /\ pos[1] = Len(got) + 1
    BY DEF Upto, InOrder
  <1>7. /\ 1 \in 1 .. L
        /\ IF buf'.type \in Content
           THEN /\ buf'.first = pos[1] /\ buf'.first <= buf'.last
                /\ pos[2] = buf'.last + 1
           ELSE pos[2] = pos[1]
        /\ buf'.type \in Final => pos[1] = promise.parts + 1
    <2>1. 1 \in 1 .. L /\ 1 + 1 = 2
      BY <1>1
    <2>2. QED
      BY <1>1, <2>1 DEF InOrder
  <1>8. q[1] = pos[2] /\ q[L] = pos[L + 1]
    BY <1>1, <1>4
  <1>9. q[1] = Upto' + 1
    BY <1>6, <1>7, <1>8 DEF Upto
  <1>10. ASSUME NEW i \in 1 .. L - 1
         PROVE  /\ i + 1 \in 1 .. L
                /\ inbox'[i] = inbox[i + 1] /\ q[i] = pos[i + 1]
                /\ q[i + 1] = pos[(i + 1) + 1]
    BY <1>1, <1>4
  <1>11. ASSUME NEW i \in 1 .. L - 1
         PROVE  /\ IF inbox'[i].type \in Content
                   THEN /\ inbox'[i].first = q[i]
                        /\ inbox'[i].first <= inbox'[i].last
                        /\ q[i + 1] = inbox'[i].last + 1
                   ELSE q[i + 1] = q[i]
                /\ inbox'[i].type \in Final => q[i] = promise'.parts + 1
    BY <1>10 DEF InOrder
  <1>12. dump.seq # 0 => q[(L - 1) + 1] = promise.parts + 1
    <2>1. (L - 1) + 1 = L
      BY <1>1
    <2>2. QED
      BY <1>8, <2>1 DEF InOrder
  <1>13. InOrder(q)'
    BY <1>1, <1>9, <1>11, <1>12 DEF InOrder
  <1>14. QED
    BY <1>1, <1>5, <1>6, <1>7, <1>13

\* The next piece of a dump goes on where the last one ended.
LEMMA DumpOrder ==
  ASSUME TypeOK, NEW pos \in Positions, InOrder(pos),
         dump.seq # 0, dump.next = promise.parts + 1,
         \A i \in 1 .. Len(inbox) : inbox[i].type \notin Final,
         NEW n \in dump.next .. MaxParts,
         inbox' = Append(inbox, Parts(dump.seq, dump.next, n)),
         promise'.parts = n, Upto' = Upto
  PROVE  \E q \in Positions' : InOrder(q)'
  <1> DEFINE L == Len(inbox)
  <1>1. PICK m : m = Parts(dump.seq, dump.next, n)
    OBVIOUS
  <1>2. m.type = "part" /\ m.first = promise.parts + 1 /\ m.last = n
    BY <1>1 DEF Parts
  <1>3. /\ L \in Nat /\ promise.parts \in Nat /\ n \in Nat
        /\ promise.parts + 1 <= n
        /\ Len(inbox') = L + 1 /\ inbox'[L + 1] = m
        /\ \A i \in 1 .. L : inbox'[i] = inbox[i]
    BY <1>1, BoundsAssumption DEF TypeOK, DataTypes
  <1>4. PICK q : q = [i \in 1 .. L + 2 |-> IF i <= L + 1 THEN pos[i] ELSE n + 1]
    OBVIOUS
  <1>5. pos \in [1 .. L + 1 -> 1 .. promise.parts + 1]
    BY DEF Positions
  <1>6. q \in Positions'
    <2>1. q \in [1 .. L + 2 -> 1 .. n + 1]
      BY <1>3, <1>4, <1>5
    <2>2. L + 2 = Len(inbox') + 1
      BY <1>3
    <2>3. QED
      BY <2>1, <2>2 DEF Positions
  <1>7. q[L + 2] = n + 1 /\ \A i \in 1 .. L + 1 : q[i] = pos[i]
    BY <1>3, <1>4
  <1>8. q[1] = Upto' + 1 /\ q[L + 1] = promise.parts + 1
    BY <1>3, <1>7 DEF InOrder
  <1>9. ASSUME NEW i \in 1 .. Len(inbox')
        PROVE  /\ IF inbox'[i].type \in Content
                  THEN /\ inbox'[i].first = q[i]
                       /\ inbox'[i].first <= inbox'[i].last
                       /\ q[i + 1] = inbox'[i].last + 1
                  ELSE q[i + 1] = q[i]
               /\ inbox'[i].type \notin Final
    <2>1. CASE i \in 1 .. L
      <3>1. /\ i \in 1 .. L + 1 /\ i + 1 \in 1 .. L + 1
            /\ inbox'[i] = inbox[i]
        BY <1>3, <2>1
      <3>2. q[i] = pos[i] /\ q[i + 1] = pos[i + 1]
        BY <1>7, <3>1
      <3>3. QED
        BY <2>1, <3>1, <3>2 DEF InOrder
    <2>2. CASE i = L + 1
      <3>1. inbox'[i] = m /\ q[i] = promise.parts + 1 /\ q[i + 1] = n + 1
        BY <1>3, <1>7, <1>8, <2>2
      <3>2. QED
        BY <1>2, <1>3, <3>1 DEF Content, Final
    <2>3. QED
      BY <1>3, <2>1, <2>2
  <1>10. q[Len(inbox') + 1] = promise'.parts + 1
    BY <1>3, <1>7
  <1>11. InOrder(q)'
    BY <1>8, <1>9, <1>10 DEF InOrder
  <1>12. QED
    BY <1>6, <1>11

\* The answer to a "get" and its acknowledgement, as far as they fit.
LEMMA GetOrder ==
  ASSUME TypeOK, OnlyFrames, got' = <<>>, pc' = "recv", dump'.seq = 0,
         promise'.parts = 1,
         inbox' = Deliver(Deliver(inbox, Reply(seqNext)),
                          Closing("ack", seqNext))
  PROVE  /\ \E q \in Positions' : InOrder(q)'
         /\ \A i \in 1 .. Len(inbox') :
              inbox'[i].type \in Final => inbox'[i].type = "ack"
  <1> DEFINE L == Len(inbox)
  <1>1. PICK r, a : r = Reply(seqNext) /\ a = Closing("ack", seqNext)
    OBVIOUS
  <1>2. /\ r.type = "reply" /\ r.first = 1 /\ r.last = 1 /\ a.type = "ack"
        /\ r \in Datagram /\ a \in Datagram
    <2>1. seqNext \in Nat
      BY DEF TypeOK, DataTypes
    <2>2. r \in Datagram /\ a \in Datagram
      BY <1>1, <2>1, DatagramTypes DEF Final
    <2>3. QED
      BY <1>1, <2>2 DEF Reply, Closing
  <1>3. inbox \in Seq(Datagram) /\ L \in Nat
    BY DEF TypeOK, DataTypes
  <1>4. /\ Len(inbox') \in {L, L + 1, L + 2}
        /\ \A i \in 1 .. L : inbox'[i] = inbox[i]
        /\ Len(inbox') # L => inbox'[L + 1] = r
        /\ Len(inbox') = L + 2 => inbox'[L + 2] = a
    <2>1. CASE L < Capacity
      <3>1. inbox' = Deliver(Append(inbox, r), a)
        BY <1>1, <2>1 DEF Deliver
      <3>2. CASE inbox' = Append(inbox, r)
        BY <1>2, <1>3, <3>2
      <3>3. CASE inbox' = Append(Append(inbox, r), a)
        BY <1>2, <1>3, <3>3
      <3>4. QED
        BY <3>1, <3>2, <3>3 DEF Deliver
    <2>2. CASE ~(L < Capacity)
      <3>1. inbox' = inbox
        BY <2>2 DEF Deliver
      <3>2. QED
        BY <1>3, <3>1
    <2>3. QED
      BY <2>1, <2>2
  <1>5. PICK q : q = [i \in 1 .. Len(inbox') + 1 |->
                        IF i <= L + 1 THEN 1 ELSE 2]
    OBVIOUS
  <1>6. Len(inbox') \in Nat /\ Upto' = 0
    BY <1>3, <1>4 DEF Upto
  <1>7. q \in Positions'
    BY <1>5, <1>6 DEF Positions
  <1>8. /\ \A i \in 1 .. L + 1 : q[i] = 1
        /\ \A i \in 1 .. Len(inbox') + 1 : i > L + 1 => q[i] = 2
    BY <1>3, <1>4, <1>5
  <1>9. ASSUME NEW i \in 1 .. Len(inbox')
        PROVE  /\ IF inbox'[i].type \in Content
                  THEN /\ inbox'[i].first = q[i]
                       /\ inbox'[i].first <= inbox'[i].last
                       /\ q[i + 1] = inbox'[i].last + 1
                  ELSE q[i + 1] = q[i]
               /\ inbox'[i].type \in Final =>
                    q[i] = 2 /\ inbox'[i].type = "ack"
    <2>1. CASE i \in 1 .. L
      <3>1. q[i] = 1 /\ q[i + 1] = 1
        BY <1>3, <1>8, <2>1
      <3>2. inbox'[i].type = "event"
        BY <1>4, <2>1 DEF OnlyFrames
      <3>3. QED
        BY <3>1, <3>2 DEF Content, Final
    <2>2. CASE i = L + 1
      <3>1. q[i] = 1 /\ q[i + 1] = 2
        BY <1>3, <1>6, <1>8, <2>2
      <3>2. inbox'[i] = r
        BY <1>3, <1>4, <2>2
      <3>3. QED
        BY <1>2, <3>1, <3>2 DEF Content, Final
    <2>3. CASE i = L + 2
      <3>1. q[i] = 2 /\ q[i + 1] = 2
        BY <1>3, <1>4, <1>6, <1>8, <2>3
      <3>2. inbox'[i] = a
        BY <1>3, <1>4, <2>3
      <3>3. QED
        BY <1>2, <3>1, <3>2 DEF Content, Final
    <2>4. QED
      BY <1>3, <1>4, <2>1, <2>2, <2>3
  <1>10. q[1] = Upto' + 1
    BY <1>3, <1>6, <1>8
  <1>11. InOrder(q)'
    BY <1>9, <1>10 DEF InOrder
  <1>12. QED
    BY <1>7, <1>9, <1>11

-----------------------------------------------------------------------------
(* Every step keeps the invariant.                                           *)

\* A command begins on a socket in which nothing but frames waits.
LEMMA AnswerBegins ==
  ASSUME TypeOK, SessionInv, failures = 0,
         NEW op \in Commands, NEW where \in {"recv", "registering"},
         StartCall(op, where)
  PROVE  /\ call'.op = op /\ pc' = where /\ got' = <<>> /\ OnlyFrames
         /\ dump.seq = 0 /\ (HasCallback' <=> op \notin {"act", "register"})
         /\ Promised' /\ AnswerInOrder' => InAnswer'
  <1>1. Quiet
    BY DEF SessionInv, Awaiting, Requesting, StartCall
  <1>2. /\ call'.op = op /\ pc' = where /\ got' = <<>> /\ err' = 1
        /\ ex' = FALSE /\ outcome' = "none"
    BY DEF StartCall
  <1>3. Awaiting'
    BY <1>2 DEF Awaiting, Requesting, Commands
  <1>4. Promised' /\ AnswerInOrder' => InAnswer'
    BY <1>2, <1>3 DEF InAnswer
  <1>5. QED
    BY <1>1, <1>2, <1>4 DEF Quiet, HasCallback

\* The kernel decides at once: an acknowledgement, a refusal, or nothing yet.
LEMMA AnswerDecided ==
  ASSUME TypeOK, SessionInv, failures = 0,
         NEW op \in Commands, NEW where \in {"recv", "registering"},
         StartCall(op, where),
         NEW m, Extends(inbox', inbox, m), m.type \in {"ack", "error"},
         promise'.parts = 0, m.type = "error" <=> ~promise'.granted,
         dump' = dump, where = "registering" => promise'.granted,
         op = "get" => m.type = "error"
  PROVE  InAnswer'
  <1>1. /\ call'.op = op /\ pc' = where /\ got' = <<>> /\ OnlyFrames
        /\ dump.seq = 0 /\ (HasCallback' <=> op \notin {"act", "register"})
        /\ Promised' /\ AnswerInOrder' => InAnswer'
    BY AnswerBegins
  <1>2. Promised'
    BY <1>1, BoundsAssumption DEF Promised
  <1>3. \A i \in 1 .. Len(inbox') : inbox'[i].type = "event" \/ inbox'[i] = m
    BY <1>1 DEF Extends, OnlyFrames, TypeOK, DataTypes
  <1>4. \A i \in 1 .. Len(inbox') : inbox'[i].type \notin Content
    BY <1>3 DEF Content
  <1>5. \E q \in Positions' : InOrder(q)'
    BY <1>1, <1>4, FreshOrder DEF Extends
  <1>6. \A i \in 1 .. Len(inbox') : Truthful(inbox[i])'
    BY <1>3 DEF Truthful, Final
  <1>7. AnswerInOrder'
    BY <1>1, <1>4, <1>5, <1>6 DEF AnswerInOrder
  <1>8. QED
    BY <1>1, <1>2, <1>7

LEMMA AnswerSent ==
  ASSUME TypeOK, SessionInv, failures = 0,
         SendAct \/ SendGet \/ SendDump \/ SendRefused \/ SendRegister
  PROVE  InAnswer'
  <1>0. inbox \in Seq(Datagram) /\ seqNext \in Nat
    BY DEF TypeOK, DataTypes
  <1>1. CASE SendAct
    <2>1. PICK m : m = Closing("ack", seqNext)
      OBVIOUS
    <2>2. m \in Datagram /\ m.type = "ack"
      BY <1>0, <2>1, DatagramTypes DEF Final, Closing
    <2>3. /\ Extends(inbox', inbox, m) /\ dump' = dump
          /\ promise'.parts = 0 /\ promise'.granted
          /\ StartCall("act", "recv") /\ "act" \in Commands
      BY <1>0, <1>1, <2>1, <2>2, Delivered DEF SendAct, Answered, Commands
    <2>4. QED
      BY <2>2, <2>3, AnswerDecided
  <1>2. CASE SendGet
    <2>1. /\ StartCall("get", "recv") /\ "get" \in Commands
          /\ dump' = dump /\ promise'.parts = 1 /\ promise'.granted
          /\ inbox' = Deliver(Deliver(inbox, Reply(seqNext)),
                              Closing("ack", seqNext))
      BY <1>2 DEF SendGet, Answered, Commands
    <2>2. /\ call'.op = "get" /\ pc' = "recv" /\ got' = <<>> /\ OnlyFrames
          /\ dump.seq = 0 /\ HasCallback'
          /\ Promised' /\ AnswerInOrder' => InAnswer'
      BY <2>1, AnswerBegins
    <2>3. /\ \E q \in Positions' : InOrder(q)'
          /\ \A i \in 1 .. Len(inbox') :
               inbox'[i].type \in Final => inbox'[i].type = "ack"
      BY <2>1, <2>2, GetOrder
    <2>4. Promised'
      BY <2>1, <2>2 DEF Promised
    <2>5. \A i \in 1 .. Len(inbox') : Truthful(inbox[i])'
      BY <2>1, <2>3 DEF Truthful
    <2>6. AnswerInOrder'
      BY <2>1, <2>2, <2>3, <2>5 DEF AnswerInOrder
    <2>7. QED
      BY <2>2, <2>4, <2>6
  <1>3. CASE SendDump
    <2>1. /\ StartCall("dump", "recv") /\ "dump" \in Commands
          /\ inbox' = inbox /\ dump'.next = 1 /\ promise'.granted
          /\ promise'.parts = 0
      BY <1>3 DEF SendDump, Commands
    <2>2. /\ call'.op = "dump" /\ pc' = "recv" /\ got' = <<>> /\ OnlyFrames
          /\ HasCallback' /\ (Promised' /\ AnswerInOrder' => InAnswer')
      BY <2>1, AnswerBegins
    <2>3. \A i \in 1 .. Len(inbox') :
            inbox'[i].type \notin Content /\ inbox'[i].type \notin Final
      BY <2>1, <2>2 DEF OnlyFrames, Content, Final
    <2>4. \E q \in Positions' : InOrder(q)'
      BY <1>0, <2>1, <2>2, <2>3, FreshOrder
    <2>5. Promised'
      BY <2>1, <2>2, BoundsAssumption DEF Promised
    <2>6. AnswerInOrder'
      BY <2>1, <2>2, <2>3, <2>4 DEF AnswerInOrder, Truthful
    <2>7. QED
      BY <2>2, <2>5, <2>6
  <1>4. CASE SendRefused
    <2>1. PICK m : m = Closing("error", seqNext)
      OBVIOUS
    <2>2. m \in Datagram /\ m.type = "error"
      BY <1>0, <2>1, DatagramTypes DEF Final, Closing
    <2>3. PICK op \in Commands :
            /\ Extends(inbox', inbox, m) /\ dump' = dump
            /\ promise'.parts = 0 /\ ~promise'.granted
            /\ StartCall(op, "recv")
      BY <1>0, <1>4, <2>1, <2>2, Delivered DEF SendRefused, Answered
    <2>4. QED
      BY <2>2, <2>3, AnswerDecided
  <1>5. CASE SendRegister
    <2>1. /\ StartCall("register", "registering") /\ "register" \in Commands
          /\ inbox' = inbox /\ dump' = dump /\ promise'.granted
          /\ promise'.parts = 0
      BY <1>5 DEF SendRegister, Commands
    <2>2. /\ call'.op = "register" /\ pc' = "registering" /\ got' = <<>>
          /\ OnlyFrames /\ dump.seq = 0
          /\ Promised' /\ AnswerInOrder' => InAnswer'
      BY <2>1, AnswerBegins
    <2>3. \A i \in 1 .. Len(inbox') :
            inbox'[i].type \notin Content /\ inbox'[i].type \notin Final
      BY <2>1, <2>2 DEF OnlyFrames, Content, Final
    <2>4. \E q \in Positions' : InOrder(q)'
      BY <1>0, <2>1, <2>2, <2>3, FreshOrder
    <2>5. Promised'
      BY <2>1, <2>2 DEF Promised
    <2>6. AnswerInOrder'
      BY <2>1, <2>2, <2>3, <2>4 DEF AnswerInOrder, Truthful
    <2>7. QED
      BY <2>2, <2>5, <2>6
  <1>6. QED
    BY <1>1, <1>2, <1>3, <1>4, <1>5

\* What the kernel appends while the call is under way.
LEMMA AnswerGrows ==
  ASSUME TypeOK, LagInv, SessionInv, AnswerInv, failures = 0,
         call.op \in Commands, FrameEvent \/ AckRegister \/ DumpDone
  PROVE  InAnswer'
  <1>0. /\ inbox \in Seq(Datagram) /\ events \in Nat /\ call.seq \in Nat
        /\ dump.seq \in Nat
    BY DEF TypeOK, DataTypes
  <1>1. InAnswer
    BY DEF AnswerInv
  <1>2. /\ UNCHANGED <<call, buf, err, ex, got, outcome, failures>>
        /\ promise'.parts = promise.parts /\ promise'.granted = promise.granted
        /\ pc' = pc \/ AckRegister
    <2>1. CASE FrameEvent \/ DumpDone
      BY <2>1 DEF FrameEvent, DumpDone, callVars, history
    <2>2. CASE AckRegister
      <3>1. Awaiting /\ AnswerInOrder
        BY <1>1, <2>2
           DEF InAnswer, Awaiting, Requesting, AckRegister, LagInv, Commands
      <3>2. promise.granted /\ promise.parts = 0
        BY <1>1, <2>2, <3>1
           DEF AckRegister, AnswerInOrder, InAnswer, Promised, LagInv
      <3>3. promise' = [granted |-> TRUE, parts |-> 0]
        BY <2>2 DEF AckRegister, Answered
      <3>4. promise.granted = TRUE
        BY <3>2 DEF TypeOK, DataTypes
      <3>5. QED
        BY <2>2, <3>2, <3>3, <3>4 DEF AckRegister
    <2>3. QED
      BY <2>1, <2>2
  <1>3. PICK m :
          /\ Extends(inbox', inbox, m) /\ m.type \notin Content
          /\ m.type \in Final => pc = "registering" \/ dump.seq # 0
          /\ Truthful(m) \/ ~Awaiting
    <2>1. CASE FrameEvent
      <3>1. PICK m : m = Event(events + 1)
        OBVIOUS
      <3>2. m \in Datagram /\ m.type = "event"
        BY <1>0, <3>1, DatagramTypes DEF Event
      <3>3. Extends(inbox', inbox, m)
        BY <1>0, <2>1, <3>1, <3>2, Delivered DEF FrameEvent
      <3>4. QED
        BY <3>2, <3>3 DEF Content, Final, Truthful
    <2>2. CASE AckRegister
      <3>1. PICK m : m = Closing("ack", call.seq)
        OBVIOUS
      <3>2. m \in Datagram /\ m.type = "ack"
        BY <1>0, <3>1, DatagramTypes DEF Closing, Final
      <3>3. Extends(inbox', inbox, m) /\ pc = "registering"
        BY <1>0, <2>2, <3>1, <3>2, Delivered DEF AckRegister, Answered
      <3>4. Awaiting => promise.granted
        BY <1>1, <3>3 DEF InAnswer, AnswerInOrder
      <3>5. QED
        BY <3>2, <3>3, <3>4 DEF Content, Final, Truthful
    <2>3. CASE DumpDone
      <3>1. PICK m : m = Closing("done", dump.seq)
        OBVIOUS
      <3>2. m \in Datagram /\ m.type = "done"
        BY <1>0, <3>1, DatagramTypes DEF Closing, Final
      <3>3. inbox' = Append(inbox, m) /\ dump.seq # 0
        BY <2>3, <3>1 DEF DumpDone
      <3>4. Extends(inbox', inbox, m)
        BY <1>0, <3>2, <3>3 DEF Extends
      <3>5. Awaiting => promise.granted
        BY <1>1, <3>3 DEF InAnswer, AnswerInOrder
      <3>6. QED
        BY <3>2, <3>3, <3>4, <3>5 DEF Content, Final, Truthful
    <2>4. QED
      BY <2>1, <2>2, <2>3
  <1>4. /\ dump' = dump \/ dump'.seq = 0
        /\ pc' = pc \/ (pc = "registering" /\ pc' = "recv")
    <2>1. CASE FrameEvent
      BY <2>1 DEF FrameEvent, callVars
    <2>2. CASE AckRegister
      BY <2>2 DEF AckRegister
    <2>3. CASE DumpDone
      BY <2>3 DEF DumpDone, NoDump, callVars
    <2>4. QED
      BY <2>1, <2>2, <2>3
  <1>5. Upto' = Upto
    BY <1>2, <1>4 DEF Upto
  <1>6. ASSUME Awaiting
        PROVE  AnswerInOrder'
    <2>1. AnswerInOrder
      BY <1>1, <1>6 DEF InAnswer
    <2>2. PICK pos \in Positions : InOrder(pos)
      BY <2>1 DEF AnswerInOrder
    <2>3. m.type \in Final => pos[Len(inbox) + 1] = promise.parts + 1
      BY <1>3, <2>2 DEF InOrder
    <2>4. \E q \in Positions' : InOrder(q)'
      BY <1>2, <1>3, <1>4, <1>5, <2>2, <2>3, GrowOrder
    <2>5. \A i \in 1 .. Len(inbox') :
            inbox'[i] = m \/ \E j \in 1 .. Len(inbox) : inbox'[i] = inbox[j]
      BY <1>0, <1>3 DEF Extends
    <2>6. \A i \in 1 .. Len(inbox') : Truthful(inbox[i])'
      BY <1>2, <1>3, <1>6, <2>1, <2>5 DEF AnswerInOrder, Truthful
    <2>7. ~HasCallback' => \A i \in 1 .. Len(inbox') :
                             inbox'[i].type \notin Content
      BY <1>2, <1>3, <2>1, <2>5 DEF AnswerInOrder, HasCallback
    <2>8. /\ dump'.seq # 0 => promise'.granted /\ dump'.next = promise'.parts + 1
          /\ pc' = "registering" => promise'.granted
      BY <1>2, <1>4, <2>1 DEF AnswerInOrder
    <2>9. pc' = "parse" =>
            /\ Truthful(buf)'
            /\ buf'.type \in Content =>
                 /\ HasCallback' /\ buf'.first = Len(got') + 1
                 /\ buf'.first <= buf'.last
            /\ buf'.type \in Final => Len(got') = promise'.parts
      BY <1>2, <1>4, <2>1 DEF AnswerInOrder, Truthful, HasCallback
    <2>10. QED
      BY <2>4, <2>6, <2>7, <2>8, <2>9 DEF AnswerInOrder
  <1>7. Promised'
    BY <1>0, <1>1, <1>2, <1>4 DEF InAnswer, Promised
  <1>8. (Awaiting' <=> Awaiting) /\ (pc' = "idle" <=> pc = "idle")
    BY <1>2, <1>4 DEF Awaiting, Requesting
  <1>9. QED
    BY <1>1, <1>2, <1>6, <1>7, <1>8 DEF InAnswer, Concluded

LEMMA AnswerContinues ==
  ASSUME TypeOK, LagInv, SessionInv, AnswerInv, failures = 0,
         call.op \in Commands, DumpEntries
  PROVE  InAnswer'
  <1>0. /\ inbox \in Seq(Datagram) /\ dump.seq \in Nat /\ dump.next \in Nat
        /\ promise.parts \in Nat /\ promise \in [granted : BOOLEAN, parts : Nat]
        /\ dump \in [seq : Nat, next : Nat]
    BY DEF TypeOK, DataTypes
  <1>1. PICK n \in dump.next .. MaxParts :
          /\ inbox' = Append(inbox, Parts(dump.seq, dump.next, n))
          /\ dump' = [dump EXCEPT !.next = n + 1]
          /\ promise' = IF dump.seq = call.seq
                        THEN [promise EXCEPT !.parts = n] ELSE promise
    BY DEF DumpEntries
  <1>2. /\ UNCHANGED <<call, buf, err, ex, got, outcome, pc>>
        /\ pc = "recv" /\ dump.seq # 0
    BY DEF DumpEntries, callVars
  <1>3. InAnswer
    BY DEF AnswerInv
  <1>4. Awaiting /\ AnswerOnItsWay
    BY <1>2 DEF SessionInv, Awaiting, Requesting, LagInv, Commands
  <1>5. AnswerInOrder /\ dump.seq = call.seq /\ call.op = "dump"
    BY <1>0, <1>2, <1>3, <1>4 DEF InAnswer, AnswerOnItsWay, Promised
  <1>6. /\ promise'.parts = n /\ promise'.granted = promise.granted
        /\ dump'.next = n + 1
    BY <1>0, <1>1, <1>5
  <1>7. n \in Nat /\ n <= MaxParts
    BY <1>0, <1>1, BoundsAssumption
  <1>8. promise.granted /\ dump.next = promise.parts + 1
    BY <1>2, <1>5 DEF AnswerInOrder
  <1>9. \A i \in 1 .. Len(inbox) : inbox[i].type \notin Final
    BY <1>2, <1>4 DEF AnswerOnItsWay
  <1>10. Upto' = Upto
    BY <1>2 DEF Upto
  <1>11. \E q \in Positions' : InOrder(q)'
    <2>1. PICK pos \in Positions : InOrder(pos)
      BY <1>5 DEF AnswerInOrder
    <2>2. QED
      BY <1>1, <1>2, <1>6, <1>8, <1>9, <1>10, <2>1, DumpOrder
  <1>12. PICK m : m = Parts(dump.seq, dump.next, n)
    OBVIOUS
  <1>13. m.type = "part"
    BY <1>12 DEF Parts
  <1>14. \A i \in 1 .. Len(inbox') : inbox'[i].type \notin Final
    <2>1. \A i \in 1 .. Len(inbox') :
            inbox'[i] = m \/ \E j \in 1 .. Len(inbox) : inbox'[i] = inbox[j]
      BY <1>0, <1>1, <1>12
    <2>2. QED
      BY <1>9, <1>13, <2>1 DEF Final
  <1>15. HasCallback'
    BY <1>2, <1>5 DEF HasCallback
  <1>16. AnswerInOrder'
    BY <1>2, <1>6, <1>8, <1>11, <1>14, <1>15 DEF AnswerInOrder, Truthful
  <1>17. Promised'
    BY <1>2, <1>5, <1>6, <1>7, <1>8 DEF Promised
  <1>18. Awaiting'
    BY <1>2, <1>4 DEF Awaiting, Requesting
  <1>19. QED
    BY <1>2, <1>3, <1>16, <1>17, <1>18 DEF InAnswer

\* Reading, and what comes back from nl_recvmsgs with nothing handed over.
LEMMA AnswerRead ==
  ASSUME TypeOK, LagInv, SessionInv, NumberInv, AnswerInv, failures = 0,
         call.op \in Commands,
         ReadDatagram \/ ReadError \/ RejectSequence \/ LoopAgain
  PROVE  InAnswer'
  <1>0. /\ inbox \in Seq(Datagram)
        /\ pc \in {"idle", "registering", "recv", "parse", "test"}
        /\ err \in {-1, 0, 1}
    BY DEF TypeOK, DataTypes
  <1>1. InAnswer
    BY DEF AnswerInv
  <1>2. /\ UNCHANGED <<call, err, ex, got, outcome, promise, dump>>
        /\ pc \in {"recv", "parse", "test"} /\ pc' \in {"recv", "parse", "test"}
    BY DEF ReadDatagram, ReadError, RejectSequence, LoopAgain, kernelVars,
           libnlVars, history
  <1>3. Awaiting' <=> Awaiting
    BY <1>2 DEF Awaiting, Requesting
  <1>4. ASSUME Awaiting
        PROVE  AnswerInOrder'
    <2>1. AnswerInOrder /\ AnswerOnItsWay
      BY <1>1, <1>4 DEF InAnswer, SessionInv
    <2>2. PICK pos \in Positions : InOrder(pos)
      BY <2>1 DEF AnswerInOrder
    <2>3. CASE ReadDatagram
      <3>1. /\ inbox # <<>> /\ buf' = Head(inbox) /\ inbox' = Tail(inbox)
            /\ pc = "recv" /\ pc' = "parse"
        BY <2>3 DEF ReadDatagram
      <3>2. /\ \E q \in Positions' : InOrder(q)'
            /\ buf'.type \in Content =>
                 buf'.first = Len(got) + 1 /\ buf'.first <= buf'.last
            /\ buf'.type \in Final => Len(got) = promise.parts
        BY <1>2, <2>2, <3>1, ReadOrder
      <3>3. /\ 1 \in 1 .. Len(inbox) /\ buf' = inbox[1]
            /\ \A i \in 1 .. Len(inbox') :
                 i + 1 \in 1 .. Len(inbox) /\ inbox'[i] = inbox[i + 1]
        BY <1>0, <3>1
      <3>4. Truthful(buf)' /\ \A i \in 1 .. Len(inbox') : Truthful(inbox[i])'
        BY <1>2, <2>1, <3>3 DEF AnswerInOrder, Truthful
      <3>5. ~HasCallback' =>
              /\ buf'.type \notin Content
              /\ \A i \in 1 .. Len(inbox') : inbox'[i].type \notin Content
        BY <1>2, <2>1, <3>3 DEF AnswerInOrder, HasCallback
      <3>6. QED
        BY <1>2, <2>1, <3>1, <3>2, <3>4, <3>5 DEF AnswerInOrder
    <2>4. CASE ReadError \/ RejectSequence \/ LoopAgain
      <3>1. inbox' = inbox /\ buf' = buf /\ pc' \in {"recv", "test"}
        BY <2>4 DEF ReadError, RejectSequence, LoopAgain, kernelVars
      <3>2. pc = "parse" => buf.type \notin Content
        <4>1. SUFFICES ASSUME RejectSequence
                       PROVE  buf.type = "event"
          BY <2>4 DEF ReadError, LoopAgain, Content
        <4>2. buf.seq # call.seq /\ Ours(buf)
          BY <2>1, <4>1 DEF RejectSequence, SeqAccepted, AnswerOnItsWay
        <4>3. QED
          BY <4>2 DEF Ours
      <3>3. Upto' = Upto
        BY <1>2, <3>1, <3>2 DEF Upto
      <3>4. \E q \in Positions' : InOrder(q)'
        BY <1>2, <2>2, <3>1, <3>3, SameOrder
      <3>5. QED
        BY <1>2, <2>1, <3>1, <3>4 DEF AnswerInOrder, Truthful, HasCallback
    <2>5. QED
      BY <2>3, <2>4
  <1>5. Promised'
    BY <1>1, <1>2 DEF InAnswer, Promised
  <1>6. QED
    BY <1>1, <1>2, <1>3, <1>4, <1>5 DEF InAnswer, Concluded

\* The closing message: err says what it says.
LEMMA AnswerEnds ==
  ASSUME TypeOK, LagInv, SessionInv, AnswerInv, failures = 0,
         call.op \in Commands, HandleFinal
  PROVE  InAnswer'
  <1>1. InAnswer
    BY DEF AnswerInv
  <1>2. /\ UNCHANGED <<call, ex, got, outcome, promise, dump>>
        /\ pc = "parse" /\ pc' = "test" /\ buf.type \in Final
        /\ err' = Verdict(buf.type)
    BY DEF HandleFinal, kernelVars, history
  <1>3. AnswerInOrder
    BY <1>1, <1>2 DEF InAnswer, Awaiting, Requesting, LagInv, Commands
  <1>4. /\ Len(got) = promise.parts
        /\ buf.type = "error" <=> ~promise.granted
    BY <1>2, <1>3 DEF AnswerInOrder, Truthful
  <1>5. err' = IF promise.granted THEN 0 ELSE -1
    BY <1>2, <1>4 DEF Verdict
  <1>6. ~promise.granted => got = <<>>
    <2>1. got \in Seq([seq : Nat, part : Nat])
      BY DEF TypeOK, DataTypes
    <2>2. ~promise.granted => Len(got) = 0
      BY <1>1, <1>4 DEF InAnswer, Promised
    <2>3. QED
      BY <2>1, <2>2
  <1>7. Concluded(err = 0, err = -1)'
    BY <1>2, <1>4, <1>5, <1>6 DEF Concluded
  <1>8. ~Awaiting'
    BY <1>5 DEF Awaiting
  <1>9. Promised'
    BY <1>1, <1>2 DEF InAnswer, Promised
  <1>10. QED
    BY <1>1, <1>2, <1>7, <1>8, <1>9 DEF InAnswer

LEMMA AnswerReturns ==
  ASSUME TypeOK, AnswerInv, failures = 0, call.op \in Commands, Return
  PROVE  InAnswer'
  <1>1. InAnswer
    BY DEF AnswerInv
  <1>2. /\ UNCHANGED <<call, err, ex, got, promise, dump>>
        /\ pc = "test" /\ pc' = "idle" /\ outcome' = Result /\ ~(err > 0)
    BY DEF Return, MayLoop, kernelVars, history, Commands
  <1>3. Concluded(err = 0, err = -1) /\ ~ex
    BY <1>1, <1>2 DEF InAnswer, Awaiting
  <1>4. /\ err = 0 => outcome' = "ok"
        /\ err = -1 => outcome' = "error"
    BY <1>2, <1>3 DEF Result
  <1>5. Concluded(outcome = "ok", outcome = "error")'
    BY <1>2, <1>3, <1>4 DEF Concluded
  <1>6. ~Awaiting'
    BY <1>2 DEF Awaiting, Requesting
  <1>7. Promised'
    BY <1>1, <1>2 DEF InAnswer, Promised
  <1>8. QED
    BY <1>1, <1>2, <1>5, <1>6, <1>7 DEF InAnswer

\* What the sequence check lets through while an answer is awaited is the
\* next entry of that answer.
LEMMA NextEntry ==
  ASSUME TypeOK, LagInv, SessionInv, NumberInv, AnswerInv, failures = 0,
         call.op \in Commands, pc = "parse", SeqAccepted, buf.type \in Handled
  PROVE  /\ Awaiting /\ AnswerInOrder /\ buf.type \in Content
         /\ HasCallback /\ buf.seq = call.seq
         /\ buf.first = Len(got) + 1 /\ buf.first <= buf.last
  <1>1. Awaiting
    BY DEF LagInv, Awaiting, Requesting, Commands
  <1>2. AnswerInOrder /\ AnswerOnItsWay
    BY <1>1 DEF AnswerInv, InAnswer, SessionInv
  <1>3. buf.seq = call.seq
    BY <1>2 DEF AnswerOnItsWay, SeqAccepted, Commands
  <1>4. call.seq # 0
    BY DEF NumberInv, TypeOK, DataTypes
  <1>5. buf.type \in Content
    BY <1>3, <1>4 DEF NumberInv, Handled, Content
  <1>6. QED
    BY <1>1, <1>2, <1>3, <1>5 DEF AnswerInOrder

LEMMA AnswerGiven ==
  ASSUME TypeOK, LagInv, SessionInv, NumberInv, AnswerInv, failures = 0,
         call.op \in Commands, HandleContinue
  PROVE  InAnswer'
  <1>0. /\ got \in Seq([seq : Nat, part : Nat]) /\ buf \in Datagram
        /\ buf.first \in Nat /\ buf.last \in Nat
    BY DEF TypeOK, DataTypes, Datagram
  <1>1. InAnswer
    BY DEF AnswerInv
  <1>2. /\ UNCHANGED <<call, err, ex, outcome, promise, dump, inbox>>
        /\ got' = Append(got, [seq |-> buf.seq, part |-> buf.first])
        /\ pc = "parse" /\ SeqAccepted /\ buf.type \in Handled /\ Advance
    BY DEF HandleContinue, HandOver, kernelVars, libnlVars
  <1>3. /\ Awaiting /\ AnswerInOrder /\ buf.type \in Content
        /\ HasCallback /\ buf.seq = call.seq
        /\ buf.first = Len(got) + 1 /\ buf.first <= buf.last
    BY <1>2, NextEntry
  <1>4. Len(got') = Len(got) + 1 /\ Len(got) \in Nat
    BY <1>0, <1>2
  <1>5. \A i \in 1 .. Len(got') : got'[i] = [seq |-> call'.seq, part |-> i]
    <2>1. \A i \in 1 .. Len(got) : got'[i] = got[i]
      BY <1>0, <1>2
    <2>2. got'[Len(got) + 1] = [seq |-> call.seq, part |-> Len(got) + 1]
      BY <1>0, <1>2, <1>3
    <2>3. QED
      BY <1>1, <1>2, <1>4, <2>1, <2>2 DEF InAnswer
  <1>6. /\ pc' \in {"parse", "recv", "test"}
        /\ buf'.type = buf.type /\ buf'.last = buf.last
        /\ pc' = "parse" => buf'.first = buf.first + 1 /\ buf.first < buf.last
        /\ pc' # "parse" => ~(buf.first < buf.last)
    BY <1>0, <1>2 DEF Advance, Datagram
  <1>7. Upto' = Upto
    BY <1>0, <1>2, <1>3, <1>4, <1>6 DEF Upto
  <1>8. \E q \in Positions' : InOrder(q)'
    <2>1. PICK pos \in Positions : InOrder(pos)
      BY <1>3 DEF AnswerInOrder
    <2>2. QED
      BY <1>2, <1>6, <1>7, <2>1, SameOrder
  <1>9. pc' = "parse" => buf'.first = Len(got') + 1 /\ buf'.first <= buf'.last
    BY <1>0, <1>3, <1>4, <1>6
  <1>10. HasCallback'
    BY <1>2, <1>3 DEF HasCallback
  <1>11. buf'.type \notin Final
    BY <1>3, <1>6 DEF Content, Final
  <1>12. AnswerInOrder'
    BY <1>2, <1>3, <1>6, <1>8, <1>9, <1>10, <1>11 DEF AnswerInOrder, Truthful
  <1>13. Promised'
    BY <1>1, <1>2 DEF InAnswer, Promised
  <1>14. Awaiting'
    BY <1>2, <1>3, <1>6 DEF Awaiting, Requesting
  <1>15. QED
    BY <1>1, <1>2, <1>5, <1>6, <1>12, <1>13, <1>14 DEF InAnswer

LEMMA AnswerInvStep ==
  ASSUME SocketInv, [Next]_vars
  PROVE  AnswerInv'
  <1> SUFFICES ASSUME failures' = 0, call'.op \in Commands
               PROVE  InAnswer'
    BY DEF AnswerInv
  <1> USE DEF SocketInv
  <1>0. failures \in Nat
    BY DEF TypeOK, DataTypes
  <1>1. CASE SendAct \/ SendGet \/ SendDump \/ SendRefused \/ SendRegister
    <2>1. failures' = failures
      BY <1>1 DEF SendAct, SendGet, SendDump, SendRefused, SendRegister,
                  StartCall
    <2>2. QED
      BY <1>1, <2>1, AnswerSent
  <1>2. CASE SendFails
    BY <1>0, <1>2 DEF SendFails
  <1>3. CASE Listen
    BY <1>3 DEF Listen, Commands
  <1>4. CASE FrameEvent \/ AckRegister \/ DumpDone
    <2>1. UNCHANGED <<failures, call>>
      BY <1>4 DEF FrameEvent, AckRegister, DumpDone, callVars, history
    <2>2. QED
      BY <1>4, <2>1, AnswerGrows
  <1>5. CASE DumpEntries
    <2>1. UNCHANGED <<failures, call>>
      BY <1>5 DEF DumpEntries, callVars
    <2>2. QED
      BY <1>5, <2>1, AnswerContinues
  <1>6. CASE ReadDatagram \/ ReadError \/ RejectSequence \/ LoopAgain
    <2>1. UNCHANGED <<failures, call>>
      BY <1>6 DEF ReadDatagram, ReadError, RejectSequence, LoopAgain, history
    <2>2. QED
      BY <1>6, <2>1, AnswerRead
  <1>7. CASE HandleFinal
    <2>1. UNCHANGED <<failures, call>>
      BY <1>7 DEF HandleFinal, history
    <2>2. QED
      BY <1>7, <2>1, AnswerEnds
  <1>8. CASE HandleIgnored
    <2>1. UNCHANGED <<failures, call>>
      BY <1>8 DEF HandleIgnored, history
    <2>2. QED
      BY <1>8, <2>1, NextEntry DEF HandleIgnored
  <1>9. CASE HandleContinue
    <2>1. UNCHANGED <<failures, call>>
      BY <1>9 DEF HandleContinue
    <2>2. QED
      BY <1>9, <2>1, AnswerGiven
  <1>10. CASE HandleStop
    BY <1>10 DEF HandleStop, Commands
  <1>11. CASE HandleThrow
    BY <1>0, <1>11 DEF HandleThrow, Commands
  <1>12. CASE Return
    <2>1. UNCHANGED <<failures, call>>
      BY <1>12 DEF Return, history
    <2>2. QED
      BY <1>12, <2>1, AnswerReturns
  <1>13. CASE UNCHANGED vars
    <2>1. InAnswer
      BY <1>13 DEF AnswerInv, vars, callVars, history
    <2>2. QED
      BY <1>13, <2>1
         DEF vars, kernelVars, callVars, history, InAnswer, Promised, Awaiting,
             Requesting, AnswerInOrder, Concluded, Positions, InOrder, Upto,
             Truthful, HasCallback
  <1>14. QED
    BY <1>1, <1>2, <1>3, <1>4, <1>5, <1>6, <1>7, <1>8, <1>9, <1>10, <1>11,
       <1>12, <1>13 DEF Next, Send, Kernel, Recv

LEMMA SocketInvInit == Init => SocketInv
  <1> SUFFICES ASSUME Init PROVE SocketInv
    OBVIOUS
  <1>1. TypeOK /\ LagInv /\ SessionInv
    BY InitDataTypes, FlagTypesStep, LagInvInit, SessionInvInit DEF TypeOK
  <1>2. NumberInv
    BY DEF Init, NumberInv, NoCall, Commands
  <1>3. AnswerInv
    BY DEF Init, AnswerInv, NoCall, Commands
  <1>4. QED
    BY <1>1, <1>2, <1>3 DEF SocketInv

LEMMA SocketInvStep == SocketInv /\ [Next]_vars => SocketInv'
  BY DataTypesStep, FlagTypesStep, LagInvStep, SessionInvStep, NumberInvStep,
     AnswerInvStep DEF TypeOK, SocketInv

LEMMA SocketInvariant == Spec => []SocketInv
  BY SocketInvInit, SocketInvStep, PTL DEF Spec

-----------------------------------------------------------------------------
(* The answers.                                                              *)

LEMMA InvOwnAnswers == SocketInv => OwnAnswers
  <1> SUFFICES ASSUME SocketInv, failures = 0, call.op # "listen"
               PROVE  \A i \in 1 .. Len(got) :
                        got[i] = [seq |-> call.seq, part |-> i]
    BY DEF OwnAnswers
  <1>1. CASE call.op \in Commands
    BY <1>1 DEF SocketInv, AnswerInv, InAnswer
  <1>2. CASE call.op \notin Commands
    <2>1. got = <<>>
      BY <1>2 DEF SocketInv, NumberInv, TypeOK, DataTypes
    <2>2. QED
      BY <2>1
  <1>3. QED
    BY <1>1, <1>2

\* On a socket without failures a command's callback is given that command's
\* own answer, from its first entry on and without a gap (OwnAnswers,
\* commands.cpp:182-219).
THEOREM SocketOwnAnswers == Spec => []OwnAnswers
  BY InvOwnAnswers, SocketInvariant, PTL

\* On a socket without failures a command that returns was granted and has
\* given everything, and one that throws NlError was refused and gave nothing
\* (CompleteAnswers, socket.cpp:80-81, 138-140).
THEOREM SocketCompleteAnswers == Spec => []CompleteAnswers
  <1>1. SocketInv => CompleteAnswers
    BY DEF SocketInv, AnswerInv, InAnswer, Concluded, CompleteAnswers
  <1>2. QED
    BY <1>1, SocketInvariant, PTL

-----------------------------------------------------------------------------
(* The socket implements the channel: its initial states are initial states  *)
(* of the channel, and each of its steps is a step of the channel or none.   *)

LEMMA ChannelInit == Init => Channel!Init
  BY DEF Init, Channel!Init, Broken, Requesting, Asked, Received, NoCall

\* Once something has failed the channel promises nothing more.
LEMMA ChannelBroken ==
  ASSUME TypeOK, TypeOK', failures' > 0
  PROVE  Channel!Break \/ UNCHANGED Channel!channelVars
  <1>1. Broken' /\ Asked' = "none"
    BY DEF Broken, Asked
  <1>2. CASE Broken
    <2>1. Asked = "none"
      BY <1>2 DEF Asked
    <2>2. QED
      BY <1>1, <1>2, <2>1 DEF Channel!channelVars
  <1>3. CASE ~Broken
    BY <1>1, <1>3 DEF Channel!Break
  <1>4. QED
    BY <1>2, <1>3

\* While frames are listened for the channel rests.
LEMMA ChannelListens ==
  ASSUME failures = 0, failures' = 0, call.op = "listen", call' = call
  PROVE  UNCHANGED Channel!channelVars
  <1>1. ~Broken /\ ~Broken' /\ ~Requesting /\ ~Requesting'
    BY DEF Broken, Requesting
  <1>2. Asked = "none" /\ Asked' = "none"
    BY DEF Asked
  <1>3. QED
    BY <1>1, <1>2 DEF Channel!channelVars

\* So it does while nothing that a command can see happens.
LEMMA ChannelRests ==
  ASSUME failures = 0, failures' = 0, Requesting' <=> Requesting,
         call' = call, got' = got, outcome' = outcome,
         promise'.granted = promise.granted
  PROVE  UNCHANGED Channel!channelVars
  <1>1. ~Broken /\ ~Broken'
    BY DEF Broken
  <1>2. Asked' = Asked
    BY <1>1 DEF Asked
  <1>3. Received' = Received
    BY DEF Received
  <1>4. QED
    BY <1>1, <1>2, <1>3 DEF Channel!channelVars

LEMMA ChannelAsked ==
  ASSUME TypeOK', failures = 0, failures' = 0, NEW op \in Commands, NEW where,
         where \in {"recv", "registering"}, StartCall(op, where)
  PROVE  Channel!Ask
  <1>1. /\ ~Broken /\ ~Broken' /\ ~Requesting /\ Requesting'
        /\ outcome' = "none" /\ got' = <<>> /\ call'.op = op
    BY DEF Broken, Requesting, StartCall, Commands
  <1>2. Asked' \in {"act", "get", "dump"}
    BY <1>1 DEF Asked, Commands
  <1>3. Received' = <<>>
    BY <1>1 DEF Received
  <1>4. promise'.granted \in BOOLEAN
    BY DEF TypeOK, DataTypes
  <1>5. QED
    BY <1>1, <1>2, <1>3, <1>4 DEF Channel!Ask

\* The entries given so far, as the channel numbers them.
LEMMA OwnReceived ==
  ASSUME OwnAnswers, failures = 0, call.op \in Commands
  PROVE  Received = [i \in 1 .. Len(got) |-> i]
  <1>1. \A i \in 1 .. Len(got) : got[i].seq = call.seq /\ got[i].part = i
    <2>1. call.op # "listen"
      BY DEF Commands
    <2>2. \A i \in 1 .. Len(got) : got[i] = [seq |-> call.seq, part |-> i]
      BY <2>1 DEF OwnAnswers
    <2>3. ASSUME NEW i \in 1 .. Len(got)
          PROVE  got[i].seq = call.seq /\ got[i].part = i
      <3>1. got[i] = [seq |-> call.seq, part |-> i]
        BY <2>2
      <3>2. QED
        BY ONLY <3>1
    <2>4. QED
      BY <2>3
  <1>2. QED
    BY <1>1 DEF Received

LEMMA OneMore ==
  ASSUME NEW n \in Nat, NEW s, s = [i \in 1 .. n |-> i]
  PROVE  /\ Len(s) = n
         /\ Append(s, Len(s) + 1) = [i \in 1 .. n + 1 |-> i]
  <1>1. s \in Seq(Nat) /\ Len(s) = n
    OBVIOUS
  <1>2. PICK t : t = Append(s, n + 1)
    OBVIOUS
  <1>3. /\ t \in Seq(Nat) /\ Len(t) = n + 1 /\ t[n + 1] = n + 1
        /\ \A i \in 1 .. n : t[i] = s[i]
    BY <1>1, <1>2
  <1>4. \A i \in 1 .. n + 1 : t[i] = i
    BY <1>3
  <1>5. t = [i \in 1 .. n + 1 |-> t[i]]
    BY <1>3
  <1>6. t = [i \in 1 .. n + 1 |-> i]
    BY <1>4, <1>5
  <1>7. QED
    BY <1>1, <1>2, <1>6

LEMMA ChannelHandsOver ==
  ASSUME SocketInv, SocketInv', failures = 0, failures' = 0,
         call.op \in Commands, HandleContinue
  PROVE  Channel!HandOver
  <1>0. TypeOK /\ LagInv /\ SessionInv /\ NumberInv /\ AnswerInv
    BY DEF SocketInv
  <1>1. /\ UNCHANGED <<call, outcome, promise>>
        /\ got' = Append(got, [seq |-> buf.seq, part |-> buf.first])
        /\ pc = "parse" /\ SeqAccepted /\ buf.type \in Handled /\ Advance
    BY DEF HandleContinue, HandOver
  <1>2. /\ Awaiting /\ AnswerInOrder /\ buf.type \in Content
        /\ HasCallback /\ buf.first = Len(got) + 1 /\ buf.first <= buf.last
    BY <1>0, <1>1, NextEntry
  <1>3. /\ got \in Seq([seq : Nat, part : Nat]) /\ Len(got) \in Nat
        /\ promise.parts \in Nat /\ buf.last \in Nat /\ buf.first \in Nat
    BY <1>0 DEF TypeOK, DataTypes, Datagram
  <1>4. Len(got) < promise.parts
    <2>1. PICK pos \in Positions : InOrder(pos)
      BY <1>2 DEF AnswerInOrder
    <2>2. 1 \in 1 .. Len(inbox) + 1
      BY <1>0 DEF TypeOK, DataTypes
    <2>3. pos[1] \in 1 .. promise.parts + 1
      BY <2>1, <2>2 DEF Positions
    <2>4. pos[1] = buf.last + 1
      BY <1>1, <1>2, <2>1 DEF InOrder, Upto
    <2>5. QED
      BY <1>2, <1>3, <2>3, <2>4
  <1>5. Promised
    BY <1>0 DEF AnswerInv, InAnswer
  <1>6. /\ promise.granted /\ call.op \in {"get", "dump"}
        /\ call.op = "get" => Len(got) < 1
        /\ call.op = "dump" => Len(got) < MaxParts
    BY <1>2, <1>3, <1>4, <1>5, BoundsAssumption
       DEF Promised, HasCallback, Commands
  <1>7. ~Broken /\ ~Broken' /\ Requesting /\ Requesting'
    BY <1>1, <1>2 DEF Broken, Awaiting, Requesting, Advance
  <1>8. Asked = call.op /\ Asked' = call.op
    BY <1>1, <1>6, <1>7 DEF Asked
  <1>9. Received = [i \in 1 .. Len(got) |-> i]
    BY InvOwnAnswers, OwnReceived
  <1>10. Received' = [i \in 1 .. Len(got) + 1 |-> i]
    <2>1. \A i \in 1 .. Len(got') : got'[i] = [seq |-> call'.seq, part |-> i]
      BY <1>1 DEF SocketInv, AnswerInv, InAnswer
    <2>2. Len(got') = Len(got) + 1
      BY <1>1, <1>3
    <2>3. ASSUME NEW i \in 1 .. Len(got')
          PROVE  got'[i].seq = call'.seq /\ got'[i].part = i
      <3>1. got'[i] = [seq |-> call'.seq, part |-> i]
        BY <2>1
      <3>2. QED
        BY ONLY <3>1
    <2>4. Received' = [i \in 1 .. Len(got') |-> i]
      BY <2>3 DEF Received
    <2>5. QED
      BY <2>2, <2>4
  <1>11. /\ Len(Received) = Len(got)
         /\ Received' = Append(Received, Len(Received) + 1)
    BY <1>3, <1>9, <1>10, OneMore
  <1>12. /\ promise'.granted = promise.granted /\ outcome' = outcome
    BY <1>1
  <1>13. QED
    BY <1>6, <1>7, <1>8, <1>11, <1>12 DEF Channel!HandOver

LEMMA ChannelConcludes ==
  ASSUME SocketInv, SocketInv', failures = 0, failures' = 0,
         call.op \in Commands, Return
  PROVE  Channel!Conclude
  <1>1. /\ UNCHANGED <<call, got, promise, err, ex>>
        /\ pc = "test" /\ pc' = "idle" /\ ~(err > 0) /\ outcome' = Result
    BY DEF Return, MayLoop, history, Commands
  <1>2. InAnswer
    BY DEF SocketInv, AnswerInv
  <1>3. ~Awaiting
    BY <1>1 DEF Awaiting
  <1>4. /\ Concluded(err = 0, err = -1) /\ ~ex
    BY <1>1, <1>2, <1>3 DEF InAnswer
  <1>5. /\ promise.granted => outcome' = "ok" /\ Len(got) = promise.parts
        /\ ~promise.granted => outcome' = "error"
    BY <1>1, <1>4 DEF Concluded, Result
  <1>6. ~Broken /\ ~Broken' /\ Requesting /\ ~Requesting'
    BY <1>1 DEF Broken, Requesting, Commands
  <1>7. Asked' = Asked /\ Asked # "none" /\ (Asked = "get" => call.op = "get")
    BY <1>1, <1>6 DEF Asked, Commands
  <1>8. Received' = Received
    BY <1>1 DEF Received
  <1>9. promise.granted /\ call.op = "get" => Len(Received) = 1
    <2>1. Received = [i \in 1 .. Len(got) |-> i]
      BY InvOwnAnswers, OwnReceived
    <2>2. Len(got) \in Nat
      BY DEF SocketInv, TypeOK, DataTypes
    <2>3. Len(Received) = Len(got)
      BY <2>1, <2>2, OneMore
    <2>4. QED
      BY <1>2, <1>5, <2>3 DEF InAnswer, Promised
  <1>10. QED
    BY <1>1, <1>5, <1>6, <1>7, <1>8, <1>9 DEF Channel!Conclude

LEMMA ChannelForgets ==
  ASSUME failures = 0, failures' = 0, Listen
  PROVE  Channel!Forget
  <1>1. ~Broken /\ ~Broken' /\ ~Requesting /\ ~Requesting'
    BY DEF Broken, Requesting, Listen
  <1>2. Asked' = "none"
    BY DEF Asked, Listen
  <1>3. QED
    BY <1>1, <1>2 DEF Channel!Forget

\* What has failed stays failed.
LEMMA FailuresStay ==
  ASSUME failures \in Nat, [Next]_vars
  PROVE  failures' \in {failures, failures + 1}
  <1>1. CASE Send
    BY <1>1 DEF Send, SendAct, SendGet, SendDump, SendRefused, SendRegister,
                SendFails, StartCall
  <1>2. CASE Listen \/ FrameEvent
    BY <1>2 DEF Listen, FrameEvent, history
  <1>3. CASE Kernel
    BY <1>3 DEF Kernel, AckRegister, DumpEntries, DumpDone, history
  <1>4. CASE HandleContinue \/ HandleStop \/ HandleThrow
    BY <1>4 DEF HandleContinue, HandleStop, HandleThrow
  <1>5. CASE \/ ReadDatagram \/ ReadError \/ RejectSequence \/ HandleFinal
             \/ HandleIgnored \/ LoopAgain \/ Return \/ UNCHANGED vars
    BY <1>5 DEF ReadDatagram, ReadError, RejectSequence, HandleFinal,
                HandleIgnored, LoopAgain, Return, vars, history
  <1>6. QED
    BY <1>1, <1>2, <1>3, <1>4, <1>5 DEF Next, Recv

LEMMA ChannelStep ==
  ASSUME SocketInv, SocketInv', [Next]_vars
  PROVE  [Channel!Next]_Channel!channelVars
  <1>0. failures \in Nat /\ failures' \in Nat /\ TypeOK /\ TypeOK'
    BY DEF SocketInv, TypeOK, DataTypes
  <1>1. CASE failures' # 0
    BY <1>0, <1>1, ChannelBroken DEF Channel!Next
  <1>2. ASSUME failures' = 0
        PROVE  [Channel!Next]_Channel!channelVars
    <2>1. failures = 0
      BY <1>0, <1>2, FailuresStay
    <2>2. CASE SendAct \/ SendGet \/ SendDump \/ SendRefused \/ SendRegister
      <3>1. PICK op \in Commands, where \in {"recv", "registering"} :
              StartCall(op, where)
        BY <2>2 DEF SendAct, SendGet, SendDump, SendRefused, SendRegister,
                    Commands
      <3>2. QED
        BY <1>0, <1>2, <2>1, <3>1, ChannelAsked DEF Channel!Next
    <2>3. CASE SendFails
      BY <1>2, <2>1, <2>3 DEF SendFails
    <2>4. CASE Listen
      BY <1>2, <2>1, <2>4, ChannelForgets DEF Channel!Next
    <2>5. CASE HandleContinue \/ HandleStop \/ HandleThrow \/ Return
      <3>1. call' = call /\ pc # "idle"
        BY <2>5 DEF HandleContinue, HandleStop, HandleThrow, HandOver, Return
      <3>2. CASE call.op = "listen"
        BY <1>2, <2>1, <3>1, <3>2, ChannelListens
      <3>3. CASE call.op # "listen"
        <4>1. call.op \in Commands
          BY <1>0, <3>1, <3>3 DEF TypeOK, DataTypes, SocketInv, NumberInv
        <4>2. HandleContinue \/ Return
          BY <1>2, <2>1, <2>5, <3>3 DEF HandleStop, HandleThrow
        <4>3. QED
          BY <1>2, <2>1, <4>1, <4>2, ChannelHandsOver, ChannelConcludes
             DEF Channel!Next
      <3>4. QED
        BY <3>2, <3>3
    <2>6. ASSUME call' = call, got' = got, outcome' = outcome,
                 promise'.granted = promise.granted, pc' = "idle" <=> pc = "idle"
          PROVE  [Channel!Next]_Channel!channelVars
      <3>1. Requesting' <=> Requesting
        BY <2>6 DEF Requesting
      <3>2. QED
        BY <1>2, <2>1, <2>6, <3>1, ChannelRests
    <2>7. CASE FrameEvent \/ DumpDone \/ UNCHANGED vars
      BY <2>6, <2>7 DEF FrameEvent, DumpDone, callVars, history, vars
    <2>8. CASE DumpEntries
      <3>1. promise'.granted = promise.granted
        BY <1>0, <2>8 DEF DumpEntries, TypeOK, DataTypes
      <3>2. QED
        BY <2>6, <2>8, <3>1 DEF DumpEntries, callVars
    <2>9. CASE AckRegister
      <3>1. pc = "registering" /\ call.op = "register" /\ err = 1
        BY <2>9 DEF AckRegister, SocketInv, LagInv
      <3>2. promise.granted
        BY <2>1, <3>1 DEF SocketInv, AnswerInv, InAnswer, AnswerInOrder,
                          Awaiting, Requesting, Commands
      <3>3. promise'.granted = promise.granted
        <4>1. promise' = [granted |-> TRUE, parts |-> 0]
          BY <2>9 DEF AckRegister, Answered
        <4>2. promise.granted = TRUE
          BY <1>0, <3>2 DEF TypeOK, DataTypes
        <4>3. QED
          BY <4>1, <4>2
      <3>4. QED
        BY <2>6, <2>9, <3>3 DEF AckRegister
    <2>10. CASE ReadDatagram \/ ReadError \/ RejectSequence \/ HandleFinal
      BY <2>6, <2>10 DEF ReadDatagram, ReadError, RejectSequence, HandleFinal,
                         history
    <2>11. CASE HandleIgnored
      BY <2>6, <2>11 DEF HandleIgnored, Advance, history
    <2>12. CASE LoopAgain
      BY <2>6, <2>12 DEF LoopAgain, history
    <2>13. QED
      BY <2>2, <2>3, <2>4, <2>5, <2>7, <2>8, <2>9, <2>10, <2>11, <2>12
         DEF Next, Send, Kernel, Recv
  <1>3. QED
    BY <1>1, <1>2

\* The commands see the socket as a channel that gives each of them its own
\* answer, in order and whole, until a send fails or a callback throws
\* (ImplementsChannel, socket.cpp:39-82).
THEOREM SocketImplementsChannel == Spec => ImplementsChannel
  <1>1. Init => Channel!Init
    BY ChannelInit
  <1>2. SocketInv /\ SocketInv' /\ [Next]_vars =>
          [Channel!Next]_Channel!channelVars
    BY ChannelStep
  <1>3. QED
    BY <1>1, <1>2, SocketInvariant, PTL
       DEF Spec, ImplementsChannel, Channel!Spec

-----------------------------------------------------------------------------
(* The frames.                                                               *)

\* Nothing has been asked of the socket but to register for frames, and the
\* acknowledgement did not get lost.
OnlyRegistered == seqNext = 2 /\ registered /\ failures = 0

\* Every frame after the acknowledgement is accounted for by S.
Kept(S) == \A e \in ackedAt + 1 .. events : e \in heard \cup missed \cup S

\* The frames that wait behind the i-th datagram, and the one being handled.
Behind(i) ==
  {inbox[j].first : j \in {k \in i + 1 .. Len(inbox) : inbox[k].type = "event"}}
InHand == IF pc = "parse" /\ buf.type = "event" THEN {buf.first} ELSE {}

\* As long as the acknowledgement has not been handled, the frames that came
\* after it are behind it, where the sequence check does not reach them.
FramesInv ==
  /\ registered => seqNext >= 2
  /\ OnlyRegistered => call.op \in {"register", "listen"}
  /\ OnlyRegistered /\ ~lost /\ pc # "registering" =>
       IF call.op = "register" /\ Awaiting
       THEN \/ \E i \in 1 .. Len(inbox) :
                 inbox[i].type = "ack" /\ Kept(Behind(i))
            \/ pc = "parse" /\ buf.type = "ack" /\ Kept(Waiting)
       ELSE Kept(Waiting \cup InHand)

LEMMA InWaiting ==
  ASSUME NEW e
  PROVE  e \in Waiting <=> \E j \in 1 .. Len(inbox) :
                             inbox[j].type = "event" /\ inbox[j].first = e
  BY DEF Waiting

LEMMA InWaitingNext ==
  ASSUME NEW e
  PROVE  e \in Waiting' <=> \E j \in 1 .. Len(inbox') :
                              inbox'[j].type = "event" /\ inbox'[j].first = e
  BY DEF Waiting

\* On a socket that has only registered no dump runs, the registering call
\* has no callback, and what a listening call handles is a frame.
LEMMA OnlyFramesHandled ==
  ASSUME SocketInv, FramesInv, OnlyRegistered
  PROVE  /\ call.op \in {"register", "listen"} /\ failures = 0
         /\ dump.seq = 0
         /\ call.op = "listen" => ~Awaiting
         /\ ~Awaiting /\ pc = "parse" => buf.type = "event"
         /\ pc = "parse" /\ SeqAccepted /\ buf.type \in Handled =>
              call.op = "listen"
  <1>1. /\ call.op \in {"register", "listen"} /\ failures = 0
        /\ TypeOK /\ LagInv /\ SessionInv /\ NumberInv /\ AnswerInv
    BY DEF FramesInv, OnlyRegistered, SocketInv
  <1>2. call.op = "listen" => ~Awaiting
    BY DEF Awaiting, Requesting
  <1>3. ~Awaiting => dump.seq = 0 /\ (pc = "parse" => buf.type = "event")
    BY <1>1 DEF SessionInv, Quiet
  <1>4. call.op = "register" => dump.seq = 0
    BY <1>1 DEF AnswerInv, InAnswer, Promised, Commands
  <1>5. ASSUME pc = "parse", SeqAccepted, buf.type \in Handled,
               call.op = "register"
        PROVE  FALSE
    BY <1>1, <1>5, NextEntry DEF HasCallback, Commands
  <1>6. QED
    BY <1>1, <1>2, <1>3, <1>4, <1>5

\* Only the first request can leave the socket with nothing but a
\* registration behind it.
LEMMA FramesSent ==
  ASSUME SocketInv, FramesInv, Send
  PROVE  FramesInv'
  <1>1. seqNext \in Nat /\ failures \in Nat /\ seqNext >= 1
    BY DEF SocketInv, TypeOK, DataTypes, NumberInv
  <1>2. CASE SendFails
    BY <1>1, <1>2 DEF SendFails, FramesInv, OnlyRegistered, kernelVars
  <1>3. CASE SendRegister
    BY <1>1, <1>3 DEF SendRegister, StartCall, FramesInv, OnlyRegistered
  <1>4. CASE SendAct \/ SendGet \/ SendDump \/ SendRefused
    <2>1. registered' = registered /\ seqNext' = seqNext + 1
      BY <1>4 DEF SendAct, SendGet, SendDump, SendRefused, StartCall
    <2>2. ~OnlyRegistered'
      BY <1>1, <2>1 DEF OnlyRegistered, FramesInv
    <2>3. QED
      BY <1>1, <2>1, <2>2 DEF FramesInv
  <1>5. QED
    BY <1>2, <1>3, <1>4 DEF Send

LEMMA FramesArrive ==
  ASSUME SocketInv, FramesInv, FrameEvent
  PROVE  FramesInv'
  <1>0. inbox \in Seq(Datagram) /\ events \in Nat /\ ackedAt \in Nat
    BY DEF SocketInv, TypeOK, DataTypes
  <1>1. /\ UNCHANGED <<seqNext, registered, failures, lost, pc, call, err, buf,
                       heard, ackedAt>>
        /\ events' = events + 1 /\ inbox' = Deliver(inbox, Event(events + 1))
        /\ missed' = IF Room(1) THEN missed ELSE missed \cup {events + 1}
    BY DEF FrameEvent, libnlVars, callVars
  <1>2. PICK m : m = Event(events + 1)
    OBVIOUS
  <1>3. m \in Datagram /\ m.type = "event" /\ m.first = events + 1
    BY <1>0, <1>2, DatagramTypes DEF Event
  <1>4. \/ inbox' = Append(inbox, m)
        \/ inbox' = inbox /\ events + 1 \in missed'
    BY <1>0, <1>1, <1>2, BoundsAssumption DEF Deliver, Room
  <1>5. /\ Len(inbox) \in Nat /\ Len(inbox') \in Nat
        /\ Len(inbox') >= Len(inbox)
        /\ \A i \in 1 .. Len(inbox) : inbox'[i] = inbox[i]
        /\ \/ /\ Len(inbox') = Len(inbox) + 1 /\ inbox'[Len(inbox) + 1] = m
           \/ events + 1 \in missed'
    BY <1>0, <1>3, <1>4
  <1>6. missed \subseteq missed'
    BY <1>1
  <1>7. \A e \in Waiting : e \in Waiting'
    BY <1>5, InWaiting, InWaitingNext
  <1>8. events + 1 \in Waiting' \cup missed'
    BY <1>3, <1>5, InWaitingNext
  <1>9. ASSUME NEW i \in 1 .. Len(inbox)
        PROVE  /\ \A e \in Behind(i) : e \in Behind(i)'
               /\ events + 1 \in Behind(i)' \cup missed'
    <2>1. ASSUME NEW e \in Behind(i)
          PROVE  e \in Behind(i)'
      <3>1. PICK j \in i + 1 .. Len(inbox) :
              inbox[j].type = "event" /\ inbox[j].first = e
        BY DEF Behind
      <3>2. /\ j \in i + 1 .. Len(inbox') /\ inbox'[j].type = "event"
            /\ inbox'[j].first = e
        BY <1>5, <3>1
      <3>3. QED
        BY <3>2 DEF Behind
    <2>2. CASE events + 1 \in missed'
      BY <2>1, <2>2
    <2>3. CASE Len(inbox') = Len(inbox) + 1 /\ inbox'[Len(inbox) + 1] = m
      <3>1. PICK j : j = Len(inbox) + 1
        OBVIOUS
      <3>2. /\ j \in i + 1 .. Len(inbox') /\ inbox'[j].type = "event"
            /\ inbox'[j].first = events + 1
        BY <1>3, <1>5, <2>3, <3>1
      <3>3. QED
        BY <2>1, <3>2 DEF Behind
    <2>4. QED
      BY <1>5, <2>1, <2>2, <2>3
  <1>10. Awaiting' <=> Awaiting
    BY <1>1 DEF Awaiting, Requesting
  <1>11. InHand' = InHand
    BY <1>1 DEF InHand
  <1>12. OnlyRegistered' <=> OnlyRegistered
    BY <1>1 DEF OnlyRegistered
  <1>13. \A e \in ackedAt + 1 .. events + 1 :
           e \in ackedAt + 1 .. events \/ e = events + 1
    BY <1>0
  <1>14. Kept(Waiting) => Kept(Waiting)'
    BY <1>1, <1>6, <1>7, <1>8, <1>13 DEF Kept
  <1>15. Kept(Waiting \cup InHand) => Kept(Waiting \cup InHand)'
    BY <1>1, <1>6, <1>7, <1>8, <1>11, <1>13 DEF Kept
  <1>16. ASSUME NEW i \in 1 .. Len(inbox), Kept(Behind(i)),
                inbox[i].type = "ack"
         PROVE  /\ i \in 1 .. Len(inbox') /\ inbox'[i].type = "ack"
                /\ Kept(Behind(i))'
    <2>1. Kept(Behind(i))'
      BY <1>1, <1>6, <1>9, <1>13, <1>16 DEF Kept
    <2>2. QED
      BY <1>5, <1>16, <2>1
  <1>17. QED
    BY <1>1, <1>10, <1>12, <1>14, <1>15, <1>16 DEF FramesInv

LEMMA FramesAcked ==
  ASSUME SocketInv, FramesInv, AckRegister
  PROVE  FramesInv'
  <1>0. inbox \in Seq(Datagram) /\ call.seq \in Nat /\ events \in Nat
    BY DEF SocketInv, TypeOK, DataTypes
  <1>1. /\ UNCHANGED <<seqNext, registered, failures, call, err, events>>
        /\ pc = "registering" /\ pc' = "recv" /\ ackedAt' = events
        /\ inbox' = Deliver(inbox, Closing("ack", call.seq))
        /\ lost' = (lost \/ ~Room(1))
    BY DEF AckRegister, Answered, libnlVars
  <1>2. call.op = "register" /\ err = 1
    BY <1>1 DEF SocketInv, LagInv
  <1>3. Awaiting'
    BY <1>1, <1>2 DEF Awaiting, Requesting
  <1>4. \A S : Kept(S)'
    BY <1>0, <1>1 DEF Kept
  <1>5. ~lost' => \E i \in 1 .. Len(inbox') : inbox'[i].type = "ack"
    <2>1. PICK m : m = Closing("ack", call.seq)
      OBVIOUS
    <2>2. m \in Datagram /\ m.type = "ack"
      BY <1>0, <2>1, DatagramTypes DEF Closing, Final
    <2>3. ~lost' => inbox' = Append(inbox, m)
      <3>1. ~lost' => Room(1)
        BY <1>1
      <3>2. Room(1) => inbox' = Append(inbox, m)
        BY <1>0, <1>1, <2>1, BoundsAssumption DEF Deliver, Room
      <3>3. QED
        BY <3>1, <3>2
    <2>4. ~lost' => /\ Len(inbox) + 1 \in 1 .. Len(inbox')
                    /\ inbox'[Len(inbox) + 1] = m
      BY <1>0, <2>2, <2>3
    <2>5. QED
      BY <2>2, <2>4
  <1>6. ~lost' => \E i \in 1 .. Len(inbox') :
                    inbox'[i].type = "ack" /\ Kept(Behind(i))'
    <2>1. \A i : Kept(Behind(i))'
      BY <1>0, <1>1 DEF Kept
    <2>2. QED
      BY <1>5, <2>1
  <1>7. QED
    BY <1>1, <1>2, <1>3, <1>6 DEF FramesInv, OnlyRegistered

\* Reading a frame takes it in hand; reading what is before the
\* acknowledgement, or the acknowledgement, leaves all that is behind it.
LEMMA FramesRead ==
  ASSUME SocketInv, FramesInv, ReadDatagram
  PROVE  FramesInv'
  <1>0. inbox \in Seq(Datagram)
    BY DEF SocketInv, TypeOK, DataTypes
  <1>1. /\ UNCHANGED <<seqNext, registered, failures, lost, call, err, heard,
                       missed, events, ackedAt>>
        /\ pc = "recv" /\ pc' = "parse"
        /\ inbox # <<>> /\ buf' = Head(inbox) /\ inbox' = Tail(inbox)
    BY DEF ReadDatagram, libnlVars, history
  <1>2. /\ Len(inbox) \in Nat \ {0} /\ buf' = inbox[1]
        /\ Len(inbox') = Len(inbox) - 1
        /\ \A i \in 1 .. Len(inbox') : inbox'[i] = inbox[i + 1]
    BY <1>0, <1>1
  <1>3. (Awaiting' <=> Awaiting) /\ InHand = {}
    BY <1>1 DEF Awaiting, Requesting, InHand
  <1>4. \A j \in 1 .. Len(inbox) :
          j = 1 \/ (j - 1 \in 1 .. Len(inbox') /\ inbox'[j - 1] = inbox[j])
    BY <1>2
  <1>5. \A e \in Waiting : e \in Waiting' \cup InHand'
    <2> SUFFICES ASSUME NEW e \in Waiting
                 PROVE  e \in Waiting' \cup InHand'
      OBVIOUS
    <2>1. PICK j \in 1 .. Len(inbox) :
            inbox[j].type = "event" /\ inbox[j].first = e
      BY InWaiting
    <2>2. CASE j = 1
      BY <1>1, <1>2, <2>1, <2>2 DEF InHand
    <2>3. CASE j # 1
      <3>1. j - 1 \in 1 .. Len(inbox') /\ inbox'[j - 1] = inbox[j]
        BY <1>4, <2>3
      <3>2. QED
        BY <2>1, <3>1, InWaitingNext
    <2>4. QED
      BY <2>2, <2>3
  <1>6. ASSUME NEW i \in 1 .. Len(inbox), NEW e \in Behind(i)
        PROVE  /\ i = 1 => e \in Waiting'
               /\ i # 1 => e \in Behind(i - 1)'
    <2>1. PICK j \in i + 1 .. Len(inbox) :
            inbox[j].type = "event" /\ inbox[j].first = e
      BY DEF Behind
    <2>2. PICK k : k = j - 1
      OBVIOUS
    <2>3. /\ k \in 1 .. Len(inbox') /\ k \in (i - 1) + 1 .. Len(inbox')
          /\ inbox'[k] = inbox[j]
      BY <1>2, <2>2
    <2>4. e \in Waiting'
      BY <2>1, <2>3, InWaitingNext
    <2>5. e \in Behind(i - 1)'
      <3>1. k \in {n \in (i - 1) + 1 .. Len(inbox') : inbox'[n].type = "event"}
        BY <2>1, <2>3
      <3>2. inbox'[k].first = e
        BY <2>1, <2>3
      <3>3. QED
        BY <3>1, <3>2 DEF Behind
    <2>6. QED
      BY <2>4, <2>5
  <1>7. Kept(Waiting \cup InHand) => Kept(Waiting \cup InHand)'
    BY <1>1, <1>3, <1>5 DEF Kept
  <1>8. ASSUME NEW i \in 1 .. Len(inbox), inbox[i].type = "ack",
               Kept(Behind(i))
        PROVE  \/ \E k \in 1 .. Len(inbox') :
                    inbox'[k].type = "ack" /\ Kept(Behind(k))'
               \/ pc' = "parse" /\ buf'.type = "ack" /\ Kept(Waiting)'
    <2>1. CASE i = 1
      <3>1. Kept(Waiting)'
        BY <1>1, <1>6, <1>8, <2>1 DEF Kept
      <3>2. QED
        BY <1>1, <1>2, <1>8, <2>1, <3>1
    <2>2. CASE i # 1
      <3>1. PICK k : k = i - 1
        OBVIOUS
      <3>2. k \in 1 .. Len(inbox') /\ inbox'[k] = inbox[i]
        BY <1>4, <2>2, <3>1
      <3>3. \A e \in Behind(i) : e \in Behind(k)'
        BY <1>6, <2>2, <3>1
      <3>4. Kept(Behind(k))'
        BY <1>1, <1>8, <3>3 DEF Kept
      <3>5. QED
        BY <1>8, <3>2, <3>4
    <2>3. QED
      BY <2>1, <2>2
  <1>9. OnlyRegistered' <=> OnlyRegistered
    BY <1>1 DEF OnlyRegistered
  <1>10. QED
    BY <1>1, <1>3, <1>7, <1>8, <1>9 DEF FramesInv

\* What is left of a message after the sequence check, the handlers and the
\* loop: the frame in hand has been heard, or was not after the
\* acknowledgement.
LEMMA FramesHandled ==
  ASSUME SocketInv, FramesInv,
         \/ ReadError \/ RejectSequence \/ HandleFinal \/ HandleIgnored
         \/ HandleContinue \/ HandleStop \/ HandleThrow \/ LoopAgain \/ Return
  PROVE  FramesInv'
  <1>0. /\ TypeOK /\ LagInv /\ SessionInv /\ NumberInv /\ AnswerInv
        /\ failures \in Nat /\ err \in {-1, 0, 1}
        /\ pc \in {"idle", "registering", "recv", "parse", "test"}
    BY DEF SocketInv, TypeOK, DataTypes
  <1>1. /\ UNCHANGED <<seqNext, registered, lost, call, inbox, missed, events,
                       ackedAt>>
        /\ failures' \in {failures, failures + 1}
    <2>1. CASE ReadError \/ RejectSequence \/ HandleFinal \/ HandleIgnored
      BY <2>1 DEF ReadError, RejectSequence, HandleFinal, HandleIgnored,
                  kernelVars, libnlVars, history
    <2>2. CASE HandleContinue \/ HandleStop
      BY <2>2 DEF HandleContinue, HandleStop, HandOver, kernelVars, libnlVars
    <2>3. CASE HandleThrow
      BY <2>3 DEF HandleThrow, HandOver, kernelVars, libnlVars
    <2>4. CASE LoopAgain \/ Return
      BY <2>4 DEF LoopAgain, Return, kernelVars, libnlVars, history
    <2>5. QED
      BY <2>1, <2>2, <2>3, <2>4
  <1>2. OnlyRegistered' => OnlyRegistered
    BY <1>0, <1>1 DEF OnlyRegistered
  <1> SUFFICES ASSUME OnlyRegistered', ~lost', pc' # "registering"
               PROVE  IF call'.op = "register" /\ Awaiting'
                      THEN \/ \E i \in 1 .. Len(inbox') :
                                inbox'[i].type = "ack" /\ Kept(Behind(i))'
                           \/ /\ pc' = "parse" /\ buf'.type = "ack"
                              /\ Kept(Waiting)'
                      ELSE Kept(Waiting \cup InHand)'
    BY <1>1, <1>2 DEF FramesInv
  <1>3. /\ call.op \in {"register", "listen"} /\ failures = 0
        /\ call.op = "listen" => ~Awaiting
        /\ ~Awaiting /\ pc = "parse" => buf.type = "event"
        /\ pc = "parse" /\ SeqAccepted /\ buf.type \in Handled =>
             call.op = "listen"
    BY <1>2, OnlyFramesHandled
  <1>4. pc # "registering"
    BY DEF ReadError, RejectSequence, HandleFinal, HandleIgnored,
           HandleContinue, HandleStop, HandleThrow, HandOver, LoopAgain, Return
  <1>5. /\ Waiting' = Waiting
        /\ \A i : Behind(i)' = Behind(i)
    BY <1>1 DEF Waiting, Behind
  <1>6. IF call.op = "register" /\ Awaiting
        THEN \/ \E i \in 1 .. Len(inbox) :
                  inbox[i].type = "ack" /\ Kept(Behind(i))
             \/ pc = "parse" /\ buf.type = "ack" /\ Kept(Waiting)
        ELSE Kept(Waiting \cup InHand)
    BY <1>1, <1>2, <1>4 DEF FramesInv
  <1>7. ASSUME call.op = "listen", heard \subseteq heard',
               InHand \subseteq heard' \cup InHand'
        PROVE  Kept(Waiting \cup InHand)' /\ ~Awaiting'
    <2>1. Kept(Waiting \cup InHand)
      BY <1>6, <1>7
    <2>2. QED
      BY <1>1, <1>5, <1>7, <2>1 DEF Kept, Awaiting, Requesting
  <1>8. CASE HandleContinue \/ HandleStop \/ HandleThrow
    <2>1. HandOver /\ pc = "parse"
      BY <1>8 DEF HandleContinue, HandleStop, HandleThrow, HandOver
    <2>2. call.op = "listen"
      BY <1>3, <2>1 DEF HandOver
    <2>3. heard \subseteq heard' /\ InHand \subseteq heard'
      BY <2>1 DEF HandOver, InHand
    <2>4. QED
      BY <1>1, <1>7, <2>2, <2>3
  <1>9. CASE HandleIgnored
    BY <1>3, <1>9 DEF HandleIgnored, HasCallback
  <1>10. CASE HandleFinal
    <2>1. /\ pc = "parse" /\ pc' = "test" /\ buf.type \in Final /\ err' # 1
          /\ heard' = heard
      BY <1>10 DEF HandleFinal, Verdict, history
    <2>2. Awaiting /\ call.op = "register"
      BY <1>3, <2>1 DEF Final
    <2>3. OnlyFrames
      BY <1>0, <1>3, <2>1, <2>2 DEF SessionInv, AnswerOnItsWay
    <2>4. Kept(Waiting)
      BY <1>6, <2>2, <2>3 DEF OnlyFrames
    <2>5. Kept(Waiting \cup InHand)'
      BY <1>1, <1>5, <2>1, <2>4 DEF Kept
    <2>6. ~Awaiting'
      BY <2>1 DEF Awaiting
    <2>7. QED
      BY <2>5, <2>6
  <1>11. CASE ReadError \/ RejectSequence \/ LoopAgain
    <2>1. /\ UNCHANGED <<err, buf, heard>> /\ pc # "idle" /\ pc' # "idle"
          /\ pc' # "parse"
      BY <1>11 DEF ReadError, RejectSequence, LoopAgain, history
    <2>2. Awaiting' <=> Awaiting
      BY <1>1, <2>1 DEF Awaiting, Requesting
    <2>3. CASE Awaiting
      <3>1. call.op = "register"
        BY <1>3, <2>3
      <3>2. ~(pc = "parse" /\ buf.type = "ack")
        <4>1. SUFFICES ASSUME RejectSequence
                       PROVE  buf.type # "ack"
          BY <1>11 DEF ReadError, LoopAgain
        <4>2. AnswerOnItsWay
          BY <1>0, <1>3, <2>3 DEF SessionInv
        <4>3. QED
          BY <4>1, <4>2 DEF RejectSequence, SeqAccepted, AnswerOnItsWay, Ours
      <3>3. PICK i \in 1 .. Len(inbox) :
              inbox[i].type = "ack" /\ Kept(Behind(i))
        BY <1>6, <2>3, <3>1, <3>2
      <3>4. Kept(Behind(i))'
        BY <1>1, <1>5, <2>1, <3>3 DEF Kept
      <3>5. QED
        BY <1>1, <2>2, <2>3, <3>1, <3>3, <3>4
    <2>4. CASE ~Awaiting
      <3>1. pc = "parse" => FALSE
        <4>1. pc = "parse" => RejectSequence /\ err = 1
          BY <1>0, <1>11 DEF ReadError, LoopAgain, LagInv
        <4>2. pc = "parse" => call.op = "listen"
          BY <1>3, <2>4, <4>1 DEF Awaiting, Requesting
        <4>3. QED
          BY <4>1, <4>2 DEF RejectSequence, SeqAccepted
      <3>2. Kept(Waiting)
        BY <1>6, <2>4, <3>1 DEF InHand
      <3>3. Kept(Waiting \cup InHand)'
        BY <1>1, <1>5, <2>1, <3>2 DEF Kept
      <3>4. QED
        BY <2>2, <2>4, <3>3
    <2>5. QED
      BY <2>3, <2>4
  <1>12. CASE Return
    <2>1. /\ UNCHANGED <<err, heard>> /\ pc = "test" /\ pc' = "idle"
          /\ ~(err > 0) \/ call.op = "listen"
      BY <1>12 DEF Return, MayLoop, history
    <2>2. ~Awaiting /\ ~Awaiting'
      BY <1>3, <2>1 DEF Awaiting, Requesting
    <2>3. Kept(Waiting)
      BY <1>6, <2>1, <2>2 DEF InHand
    <2>4. Kept(Waiting \cup InHand)'
      BY <1>1, <1>5, <2>1, <2>3 DEF Kept
    <2>5. QED
      BY <2>2, <2>4
  <1>13. QED
    BY <1>8, <1>9, <1>10, <1>11, <1>12

\* Only a dump's own call feeds a dump, and nothing but frames is listened to.
LEMMA FramesListened ==
  ASSUME SocketInv, FramesInv, Listen
  PROVE  FramesInv'
  <1>1. /\ UNCHANGED <<seqNext, registered, failures, lost, inbox, heard, missed,
                       events, ackedAt>>
        /\ pc = "idle" /\ pc' = "recv" /\ call'.op = "listen"
    BY DEF Listen, kernelVars, libnlVars, history
  <1>2. InHand = {} /\ ~Awaiting /\ ~(call'.op = "register")
    BY <1>1 DEF InHand, Awaiting, Requesting
  <1>3. OnlyRegistered' <=> OnlyRegistered
    BY <1>1 DEF OnlyRegistered
  <1>4. OnlyRegistered /\ ~lost => Kept(Waiting)
    BY <1>1, <1>2 DEF FramesInv
  <1>5. Waiting' = Waiting
    BY <1>1 DEF Waiting
  <1>6. OnlyRegistered /\ ~lost => Kept(Waiting \cup InHand)'
    BY <1>1, <1>4, <1>5 DEF Kept
  <1>7. QED
    BY <1>1, <1>2, <1>3, <1>6 DEF FramesInv

LEMMA FramesDumped ==
  ASSUME SocketInv, FramesInv, DumpEntries \/ DumpDone
  PROVE  FramesInv'
  <1>1. /\ UNCHANGED <<seqNext, registered, failures>> /\ dump.seq # 0
    BY DEF DumpEntries, DumpDone, libnlVars, callVars, history
  <1>2. ~OnlyRegistered
    BY <1>1, OnlyFramesHandled
  <1>3. ~OnlyRegistered'
    BY <1>1, <1>2 DEF OnlyRegistered
  <1>4. QED
    BY <1>1, <1>3 DEF FramesInv

LEMMA FramesInvInit == Init => FramesInv
  BY DEF Init, FramesInv, OnlyRegistered

LEMMA FramesInvStep ==
  ASSUME SocketInv, FramesInv, [Next]_vars
  PROVE  FramesInv'
  <1>1. CASE UNCHANGED vars
    BY <1>1 DEF vars, kernelVars, libnlVars, callVars, history, FramesInv,
                OnlyRegistered, Kept, Waiting, Behind, InHand, Awaiting,
                Requesting
  <1>2. CASE Send
    BY <1>2, FramesSent
  <1>3. CASE Listen
    BY <1>3, FramesListened
  <1>4. CASE FrameEvent
    BY <1>4, FramesArrive
  <1>5. CASE AckRegister
    BY <1>5, FramesAcked
  <1>6. CASE DumpEntries \/ DumpDone
    BY <1>6, FramesDumped
  <1>7. CASE ReadDatagram
    BY <1>7, FramesRead
  <1>8. CASE ReadError \/ RejectSequence \/ HandleFinal \/ HandleIgnored
             \/ HandleContinue \/ HandleStop \/ HandleThrow \/ LoopAgain
             \/ Return
    BY <1>8, FramesHandled
  <1>9. QED
    BY <1>1, <1>2, <1>3, <1>4, <1>5, <1>6, <1>7, <1>8 DEF Next, Kernel, Recv

\* On a socket that has only registered, a frame that comes after the
\* acknowledgement is heard, is missed for want of room, or is still to be
\* handed to a callback (FramesKept, streetpass.cpp:56-99).
THEOREM SocketFramesKept == Spec => []FramesKept
  <1>1. Init => FramesInv
    BY FramesInvInit
  <1>2. SocketInv /\ FramesInv /\ [Next]_vars => FramesInv'
    BY FramesInvStep
  <1>3. SocketInv /\ FramesInv => FramesKept
    <2> SUFFICES ASSUME SocketInv, FramesInv, OnlyRegistered, ~lost,
                        pc # "registering",
                        NEW e \in ackedAt + 1 .. events
                 PROVE  \/ e \in heard \cup missed \cup Waiting
                        \/ e \in InHand
      BY DEF FramesKept, OnlyRegistered, InHand
    <2>1. CASE call.op = "register" /\ Awaiting
      <3>1. ASSUME NEW i \in 1 .. Len(inbox), NEW f \in Behind(i)
            PROVE  f \in Waiting
        <4>1. PICK j \in i + 1 .. Len(inbox) :
                inbox[j].type = "event" /\ inbox[j].first = f
          BY DEF Behind
        <4>2. inbox \in Seq(Datagram)
          BY DEF SocketInv, TypeOK, DataTypes
        <4>3. j \in 1 .. Len(inbox)
          BY <4>1, <4>2
        <4>4. QED
          BY <4>1, <4>3, InWaiting
      <3>2. QED
        BY <2>1, <3>1 DEF FramesInv, Kept
    <2>2. CASE ~(call.op = "register" /\ Awaiting)
      BY <2>2 DEF FramesInv, Kept
    <2>3. QED
      BY <2>1, <2>2
  <1>4. QED
    BY <1>1, <1>2, <1>3, SocketInvariant, PTL DEF Spec

-----------------------------------------------------------------------------
(* The entries of one answer, in order, whatever has failed before.          *)

OfAnswer(m, s) == m.type \in Content /\ m.seq = s

\* An entry of answer s among box[i] .. box[j] is the one before entry f.
EndsBefore(box, s, i, j, f) ==
  \E k \in i .. j : OfAnswer(box[k], s) /\ box[k].last + 1 = f

\* Where an answer has several datagrams each follows on from one before it,
\* and so does the entry f that comes next.
Chain(box) ==
  \A i \in 1 .. Len(box) : \A j \in i + 1 .. Len(box) :
    box[j].type \in Content /\ OfAnswer(box[i], box[j].seq) =>
      EndsBefore(box, box[j].seq, i, j - 1, box[j].first)
ChainEnd(box, s, f) ==
  \A i \in 1 .. Len(box) :
    OfAnswer(box[i], s) => EndsBefore(box, s, i, Len(box), f)

\* The same when entry n of the answer has been taken out of the box.
From(box, s, n) ==
  \A j \in 1 .. Len(box) : OfAnswer(box[j], s) =>
    \/ box[j].first = n + 1
    \/ EndsBefore(box, s, 1, j - 1, box[j].first)
NextIs(box, s, n, f) == f = n + 1 \/ EndsBefore(box, s, 1, Len(box), f)

\* `new` has the datagrams of `old`, and one behind them that is no entry.
LEMMA ChainGrows ==
  ASSUME NEW box \in Seq(Datagram), NEW new, NEW m, Extends(new, box, m),
         m.type \notin Content
  PROVE  /\ Chain(box) => Chain(new)
         /\ \A s, f : ChainEnd(box, s, f) => ChainEnd(new, s, f)
         /\ \A s, n : From(box, s, n) => From(new, s, n)
         /\ \A s, n, f : NextIs(box, s, n, f) => NextIs(new, s, n, f)
  <1>1. /\ Len(box) \in Nat /\ Len(new) \in {Len(box), Len(box) + 1}
        /\ \A i \in 1 .. Len(box) : new[i] = box[i]
        /\ Len(new) = Len(box) + 1 => new[Len(box) + 1].type \notin Content
    BY DEF Extends
  <1>2. \A i \in 1 .. Len(new) : new[i].type \in Content =>
          i \in 1 .. Len(box) /\ new[i] = box[i]
    BY <1>1
  <1>3. ASSUME NEW s, NEW f, NEW i \in 1 .. Len(box) + 1,
               NEW j \in 0 .. Len(box), NEW l \in j .. Len(new),
               EndsBefore(box, s, i, j, f)
        PROVE  EndsBefore(new, s, i, l, f)
    <2>1. PICK k \in i .. j : OfAnswer(box[k], s) /\ box[k].last + 1 = f
      BY <1>3 DEF EndsBefore
    <2>2. k \in i .. l /\ new[k] = box[k]
      BY <1>1, <1>3, <2>1
    <2>3. QED
      BY <2>1, <2>2 DEF EndsBefore
  <1>4. ASSUME Chain(box)
        PROVE  Chain(new)
    <2> SUFFICES ASSUME NEW i \in 1 .. Len(new), NEW j \in i + 1 .. Len(new),
                        new[j].type \in Content, OfAnswer(new[i], new[j].seq)
                 PROVE  EndsBefore(new, new[j].seq, i, j - 1, new[j].first)
      BY DEF Chain
    <2>1. /\ i \in 1 .. Len(box) /\ j \in i + 1 .. Len(box)
          /\ new[i] = box[i] /\ new[j] = box[j]
      BY <1>1, <1>2 DEF OfAnswer
    <2>2. EndsBefore(box, new[j].seq, i, j - 1, new[j].first)
      BY <1>4, <2>1 DEF Chain
    <2>3. j - 1 \in 0 .. Len(box) /\ j - 1 \in j - 1 .. Len(new)
          /\ i \in 1 .. Len(box) + 1
      BY <1>1, <2>1
    <2>4. QED
      BY <1>3, <2>2, <2>3
  <1>5. Len(box) \in 0 .. Len(box) /\ Len(new) \in Len(box) .. Len(new)
        /\ 1 \in 1 .. Len(box) + 1
    BY <1>1
  <1>6. ASSUME NEW s, NEW f, ChainEnd(box, s, f)
        PROVE  ChainEnd(new, s, f)
    <2> SUFFICES ASSUME NEW i \in 1 .. Len(new), OfAnswer(new[i], s)
                 PROVE  EndsBefore(new, s, i, Len(new), f)
      BY DEF ChainEnd
    <2>1. i \in 1 .. Len(box) /\ i \in 1 .. Len(box) + 1 /\ new[i] = box[i]
      BY <1>1, <1>2 DEF OfAnswer
    <2>2. EndsBefore(box, s, i, Len(box), f)
      BY <1>6, <2>1 DEF ChainEnd
    <2>3. QED
      BY <1>3, <1>5, <2>1, <2>2
  <1>7. ASSUME NEW s, NEW n, From(box, s, n)
        PROVE  From(new, s, n)
    <2> SUFFICES ASSUME NEW j \in 1 .. Len(new), OfAnswer(new[j], s),
                        new[j].first # n + 1
                 PROVE  EndsBefore(new, s, 1, j - 1, new[j].first)
      BY DEF From
    <2>1. j \in 1 .. Len(box) /\ new[j] = box[j]
      BY <1>1, <1>2 DEF OfAnswer
    <2>2. EndsBefore(box, s, 1, j - 1, new[j].first)
      BY <1>7, <2>1 DEF From
    <2>3. j - 1 \in 0 .. Len(box) /\ j - 1 \in j - 1 .. Len(new)
      BY <1>1, <2>1
    <2>4. QED
      BY <1>3, <1>5, <2>2, <2>3
  <1>8. ASSUME NEW s, NEW n, NEW f, NextIs(box, s, n, f)
        PROVE  NextIs(new, s, n, f)
    BY <1>3, <1>5, <1>8 DEF NextIs
  <1>9. QED
    BY <1>4, <1>6, <1>7, <1>8

\* The first datagram of an answer nothing of which has been sent before.
LEMMA ChainBegins ==
  ASSUME NEW box \in Seq(Datagram), NEW new, NEW m, Extends(new, box, m),
         \A i \in 1 .. Len(box) : ~OfAnswer(box[i], m.seq)
  PROVE  /\ Chain(box) => Chain(new)
         /\ \A s, f : s # m.seq /\ ChainEnd(box, s, f) => ChainEnd(new, s, f)
  <1>1. /\ Len(box) \in Nat /\ Len(new) \in {Len(box), Len(box) + 1}
        /\ \A i \in 1 .. Len(box) : new[i] = box[i]
        /\ Len(new) = Len(box) + 1 => new[Len(box) + 1] = m
    BY DEF Extends
  <1>2. ASSUME NEW s, NEW f, NEW i \in 1 .. Len(box),
               NEW j \in 0 .. Len(box), NEW l \in j .. Len(new),
               EndsBefore(box, s, i, j, f)
        PROVE  EndsBefore(new, s, i, l, f)
    <2>1. PICK k \in i .. j : OfAnswer(box[k], s) /\ box[k].last + 1 = f
      BY <1>2 DEF EndsBefore
    <2>2. k \in i .. l /\ new[k] = box[k]
      BY <1>1, <1>2, <2>1
    <2>3. QED
      BY <2>1, <2>2 DEF EndsBefore
  <1>3. ASSUME Chain(box)
        PROVE  Chain(new)
    <2> SUFFICES ASSUME NEW i \in 1 .. Len(new), NEW j \in i + 1 .. Len(new),
                        new[j].type \in Content, OfAnswer(new[i], new[j].seq)
                 PROVE  EndsBefore(new, new[j].seq, i, j - 1, new[j].first)
      BY DEF Chain
    <2>1. i \in 1 .. Len(box) /\ new[i] = box[i]
      BY <1>1
    <2>2. j \in i + 1 .. Len(box)
      BY <1>1, <2>1
    <2>3. new[j] = box[j] /\ j \in 1 .. Len(box)
      BY <1>1, <2>2
    <2>4. EndsBefore(box, new[j].seq, i, j - 1, new[j].first)
      BY <1>3, <2>1, <2>2, <2>3 DEF Chain
    <2>5. j - 1 \in 0 .. Len(box) /\ j - 1 \in j - 1 .. Len(new)
      BY <1>1, <2>2
    <2>6. QED
      BY <1>2, <2>1, <2>4, <2>5
  <1>4. ASSUME NEW s, NEW f, s # m.seq, ChainEnd(box, s, f)
        PROVE  ChainEnd(new, s, f)
    <2> SUFFICES ASSUME NEW i \in 1 .. Len(new), OfAnswer(new[i], s)
                 PROVE  EndsBefore(new, s, i, Len(new), f)
      BY DEF ChainEnd
    <2>1. i \in 1 .. Len(box) /\ new[i] = box[i]
      BY <1>1, <1>4 DEF OfAnswer
    <2>2. EndsBefore(box, s, i, Len(box), f)
      BY <1>4, <2>1 DEF ChainEnd
    <2>3. Len(box) \in 0 .. Len(box) /\ Len(new) \in Len(box) .. Len(new)
      BY <1>1
    <2>4. QED
      BY <1>2, <2>1, <2>2, <2>3
  <1>5. QED
    BY <1>3, <1>4

\* The next piece of a dump.
LEMMA ChainContinues ==
  ASSUME NEW box \in Seq(Datagram), NEW new, NEW m, Extends(new, box, m),
         Len(new) = Len(box) + 1, m.type \in Content,
         Chain(box), ChainEnd(box, m.seq, m.first)
  PROVE  /\ Chain(new)
         /\ ChainEnd(new, m.seq, m.last + 1)
         /\ \A s, n : /\ From(box, s, n)
                      /\ s = m.seq => NextIs(box, s, n, m.first)
                      => From(new, s, n)
         /\ \A n : NextIs(new, m.seq, n, m.last + 1)
  <1>1. /\ Len(box) \in Nat /\ Len(new) = Len(box) + 1
        /\ \A i \in 1 .. Len(box) : new[i] = box[i]
        /\ new[Len(box) + 1] = m
    BY DEF Extends
  <1>2. ASSUME NEW s, NEW f, NEW i \in 1 .. Len(box) + 1,
               NEW j \in 0 .. Len(box), EndsBefore(box, s, i, j, f)
        PROVE  EndsBefore(new, s, i, j, f)
    <2>1. PICK k \in i .. j : OfAnswer(box[k], s) /\ box[k].last + 1 = f
      BY <1>2 DEF EndsBefore
    <2>2. new[k] = box[k]
      BY <1>1, <1>2, <2>1
    <2>3. QED
      BY <2>1, <2>2 DEF EndsBefore
  <1>3. Chain(new)
    <2> SUFFICES ASSUME NEW i \in 1 .. Len(new), NEW j \in i + 1 .. Len(new),
                        new[j].type \in Content, OfAnswer(new[i], new[j].seq)
                 PROVE  EndsBefore(new, new[j].seq, i, j - 1, new[j].first)
      BY DEF Chain
    <2>1. i \in 1 .. Len(box) /\ new[i] = box[i]
      BY <1>1
    <2>2. j - 1 \in 0 .. Len(box) /\ i \in 1 .. Len(box) + 1
      BY <1>1, <2>1
    <2>3. EndsBefore(box, new[j].seq, i, j - 1, new[j].first)
      <3>1. CASE j \in 1 .. Len(box)
        <4>1. new[j] = box[j] /\ j \in i + 1 .. Len(box)
          BY <1>1, <3>1
        <4>2. QED
          BY <2>1, <4>1 DEF Chain
      <3>2. CASE j = Len(box) + 1
        <4>1. new[j] = m /\ j - 1 = Len(box)
          BY <1>1, <3>2
        <4>2. QED
          BY <2>1, <4>1 DEF ChainEnd
      <3>3. QED
        BY <1>1, <3>1, <3>2
    <2>4. QED
      BY <1>2, <2>2, <2>3
  <1>4. \A i \in 1 .. Len(new) : EndsBefore(new, m.seq, i, Len(new), m.last + 1)
    <2>1. OfAnswer(new[Len(new)], m.seq) /\ new[Len(new)].last + 1 = m.last + 1
      BY <1>1 DEF OfAnswer
    <2>2. \A i \in 1 .. Len(new) : Len(new) \in i .. Len(new)
      BY <1>1
    <2>3. QED
      BY <2>1, <2>2 DEF EndsBefore
  <1>5. ChainEnd(new, m.seq, m.last + 1)
    BY <1>4 DEF ChainEnd
  <1>6. ASSUME NEW s, NEW n, From(box, s, n),
               s = m.seq => NextIs(box, s, n, m.first)
        PROVE  From(new, s, n)
    <2> SUFFICES ASSUME NEW j \in 1 .. Len(new), OfAnswer(new[j], s),
                        new[j].first # n + 1
                 PROVE  EndsBefore(new, s, 1, j - 1, new[j].first)
      BY DEF From
    <2>1. j - 1 \in 0 .. Len(box) /\ 1 \in 1 .. Len(box) + 1
      BY <1>1
    <2>2. EndsBefore(box, s, 1, j - 1, new[j].first)
      <3>1. CASE j \in 1 .. Len(box)
        BY <1>1, <1>6, <3>1 DEF From
      <3>2. CASE j = Len(box) + 1
        <4>1. new[j] = m /\ j - 1 = Len(box) /\ s = m.seq
          BY <1>1, <3>2 DEF OfAnswer
        <4>2. QED
          BY <1>6, <4>1 DEF NextIs
      <3>3. QED
        BY <1>1, <3>1, <3>2
    <2>3. QED
      BY <1>2, <2>1, <2>2
  <1>7. \A n : NextIs(new, m.seq, n, m.last + 1)
    <2>1. 1 \in 1 .. Len(new)
      BY <1>1
    <2>2. QED
      BY <1>4, <2>1 DEF NextIs
  <1>8. QED
    BY <1>3, <1>5, <1>6, <1>7

\* What is read first, if it is an entry, follows on from the one taken out
\* before it, and the rest follows on from it.
LEMMA ChainRead ==
  ASSUME NEW box \in Seq(Datagram), box # <<>>, NEW rest, rest = Tail(box),
         NEW m, m = Head(box)
  PROVE  /\ Chain(box) => Chain(rest)
         /\ \A s, f : ChainEnd(box, s, f) => ChainEnd(rest, s, f)
         /\ m.type \in Content =>
              /\ Chain(box) => From(rest, m.seq, m.last)
              /\ \A f : ChainEnd(box, m.seq, f) => NextIs(rest, m.seq, m.last, f)
         /\ \A s, n : ~OfAnswer(m, s) /\ From(box, s, n) => From(rest, s, n)
         /\ \A s, n, f : ~OfAnswer(m, s) /\ NextIs(box, s, n, f) =>
              NextIs(rest, s, n, f)
         /\ \A s, n : OfAnswer(m, s) /\ From(box, s, n) => m.first = n + 1
  <1>1. /\ Len(box) \in Nat \ {0} /\ Len(rest) = Len(box) - 1 /\ m = box[1]
        /\ \A i \in 1 .. Len(box) - 1 : rest[i] = box[i + 1]
    OBVIOUS
  <1>2. ASSUME NEW s, NEW f, NEW i \in 1 .. Len(box), NEW j \in 1 .. Len(box),
               EndsBefore(box, s, i + 1, j, f)
        PROVE  EndsBefore(rest, s, i, j - 1, f)
    <2>1. PICK k \in i + 1 .. j : OfAnswer(box[k], s) /\ box[k].last + 1 = f
      BY <1>2 DEF EndsBefore
    <2>2. PICK l : l = k - 1
      OBVIOUS
    <2>3. l \in i .. j - 1 /\ l \in 1 .. Len(box) - 1 /\ l + 1 = k
      BY <1>1, <2>1, <2>2
    <2>4. rest[l] = box[k]
      BY <1>1, <2>3
    <2>5. QED
      BY <2>1, <2>3, <2>4 DEF EndsBefore
  <1>3. ASSUME NEW i \in 1 .. Len(rest)
        PROVE  /\ rest[i] = box[i + 1] /\ i + 1 \in 1 .. Len(box)
               /\ i \in 1 .. Len(box)
    BY <1>1
  <1>4. ASSUME Chain(box)
        PROVE  Chain(rest)
    <2> SUFFICES ASSUME NEW i \in 1 .. Len(rest), NEW j \in i + 1 .. Len(rest),
                        rest[j].type \in Content, OfAnswer(rest[i], rest[j].seq)
                 PROVE  EndsBefore(rest, rest[j].seq, i, j - 1, rest[j].first)
      BY DEF Chain
    <2>1. j \in 1 .. Len(rest)
      BY <1>1
    <2>2. PICK a \in 1 .. Len(box) : a = i + 1
      BY <1>3
    <2>3. PICK b \in a + 1 .. Len(box) : b = j + 1
      BY <1>1, <2>1, <2>2
    <2>4. rest[i] = box[a] /\ rest[j] = box[b]
      BY <1>3, <2>1, <2>2, <2>3
    <2>5. EndsBefore(box, rest[j].seq, a, b - 1, rest[j].first)
      BY <1>4, <2>4 DEF Chain
    <2>6. b - 1 = j /\ j \in 1 .. Len(box) /\ i \in 1 .. Len(box)
      BY <1>1, <2>1, <2>3
    <2>7. EndsBefore(box, rest[j].seq, i + 1, j, rest[j].first)
      BY <2>2, <2>5, <2>6
    <2>8. QED
      BY <1>2, <2>6, <2>7
  <1>5. Len(box) \in 1 .. Len(box) /\ Len(box) - 1 = Len(rest)
        /\ 1 \in 1 .. Len(box) /\ 1 + 1 = 2
    BY <1>1
  <1>6. ASSUME NEW s, NEW f, ChainEnd(box, s, f)
        PROVE  ChainEnd(rest, s, f)
    <2> SUFFICES ASSUME NEW i \in 1 .. Len(rest), OfAnswer(rest[i], s)
                 PROVE  EndsBefore(rest, s, i, Len(rest), f)
      BY DEF ChainEnd
    <2>1. EndsBefore(box, s, i + 1, Len(box), f)
      BY <1>3, <1>6 DEF ChainEnd
    <2>2. QED
      BY <1>2, <1>3, <1>5, <2>1
  \* An entry that was not followed by the one read is followed by one behind.
  <1>7. ASSUME NEW s, NEW f, NEW j \in 1 .. Len(box), EndsBefore(box, s, 1, j, f),
               ~(OfAnswer(m, s) /\ m.last + 1 = f)
        PROVE  EndsBefore(rest, s, 1, j - 1, f)
    <2>1. PICK k \in 1 .. j : OfAnswer(box[k], s) /\ box[k].last + 1 = f
      BY <1>7 DEF EndsBefore
    <2>2. k # 1
      BY <1>1, <1>7, <2>1
    <2>3. k \in 1 + 1 .. j
      BY <2>2
    <2>4. EndsBefore(box, s, 1 + 1, j, f)
      BY <2>1, <2>3 DEF EndsBefore
    <2>5. QED
      BY <1>2, <1>5, <2>4
  <1>8. ASSUME m.type \in Content, Chain(box)
        PROVE  From(rest, m.seq, m.last)
    <2> SUFFICES ASSUME NEW j \in 1 .. Len(rest), OfAnswer(rest[j], m.seq),
                        rest[j].first # m.last + 1
                 PROVE  EndsBefore(rest, m.seq, 1, j - 1, rest[j].first)
      BY DEF From
    <2>1. PICK b \in 1 + 1 .. Len(box) : b = j + 1
      BY <1>1
    <2>2. rest[j] = box[b] /\ b - 1 = j
      BY <1>3, <2>1
    <2>3. OfAnswer(box[1], box[b].seq) /\ box[b].type \in Content
          /\ box[b].seq = m.seq
      BY <1>1, <1>8, <2>2 DEF OfAnswer
    <2>4. EndsBefore(box, m.seq, 1, j, rest[j].first)
      BY <1>5, <1>8, <2>2, <2>3 DEF Chain
    <2>5. m.last + 1 # rest[j].first
      OBVIOUS
    <2>6. QED
      BY <1>3, <1>7, <2>4, <2>5
  <1>9. ASSUME m.type \in Content, NEW f, ChainEnd(box, m.seq, f)
        PROVE  NextIs(rest, m.seq, m.last, f)
    <2>1. OfAnswer(box[1], m.seq)
      BY <1>1, <1>9 DEF OfAnswer
    <2>2. EndsBefore(box, m.seq, 1, Len(box), f)
      BY <1>5, <1>9, <2>1 DEF ChainEnd
    <2>3. CASE f = m.last + 1
      BY <2>3 DEF NextIs
    <2>4. CASE f # m.last + 1
      <3>1. EndsBefore(rest, m.seq, 1, Len(box) - 1, f)
        BY <1>5, <1>7, <2>2, <2>4
      <3>2. QED
        BY <1>5, <3>1 DEF NextIs
    <2>5. QED
      BY <2>3, <2>4
  <1>10. ASSUME NEW s, NEW n, ~OfAnswer(m, s), From(box, s, n)
         PROVE  From(rest, s, n)
    <2> SUFFICES ASSUME NEW j \in 1 .. Len(rest), OfAnswer(rest[j], s),
                        rest[j].first # n + 1
                 PROVE  EndsBefore(rest, s, 1, j - 1, rest[j].first)
      BY DEF From
    <2>1. PICK b \in 1 .. Len(box) : b = j + 1
      BY <1>3
    <2>2. rest[j] = box[b] /\ b - 1 = j
      BY <1>3, <2>1
    <2>3. EndsBefore(box, s, 1, j, rest[j].first)
      BY <1>10, <2>2 DEF From
    <2>4. QED
      BY <1>3, <1>7, <1>10, <2>3
  <1>11. ASSUME NEW s, NEW n, NEW f, ~OfAnswer(m, s), NextIs(box, s, n, f)
         PROVE  NextIs(rest, s, n, f)
    <2>1. CASE f = n + 1
      BY <2>1 DEF NextIs
    <2>2. CASE f # n + 1
      <3>1. EndsBefore(box, s, 1, Len(box), f)
        BY <1>11, <2>2 DEF NextIs
      <3>2. EndsBefore(rest, s, 1, Len(box) - 1, f)
        BY <1>5, <1>7, <1>11, <3>1
      <3>3. QED
        BY <1>5, <3>2 DEF NextIs
    <2>3. QED
      BY <2>1, <2>2
  <1>12. ASSUME NEW s, NEW n, OfAnswer(m, s), From(box, s, n)
         PROVE  m.first = n + 1
    <2>1. OfAnswer(box[1], s)
      BY <1>1, <1>12
    <2>2. box[1].first = n + 1 \/ EndsBefore(box, s, 1, 1 - 1, box[1].first)
      BY <1>5, <1>12, <2>1 DEF From
    <2>3. ~EndsBefore(box, s, 1, 1 - 1, box[1].first)
      BY DEF EndsBefore
    <2>4. QED
      BY <1>1, <2>2, <2>3
  <1>13. QED
    BY <1>4, <1>6, <1>8, <1>9, <1>10, <1>11, <1>12

-----------------------------------------------------------------------------
(* One answer.                                                               *)

\* Whatever the receive buffer, and the dump still to come, have of answer s
\* follows on from entry n.
Resumes(s, n) ==
  /\ From(inbox, s, n)
  /\ dump.seq # 0 /\ dump.seq = s => NextIs(inbox, s, n, dump.next)

\* Every answer waits in order; the datagram being walked is followed by the
\* rest of its answer, and so is what the command has been given.
Told == got[Len(got)].part
Waits ==
  /\ Chain(inbox)
  /\ dump.seq # 0 => ChainEnd(inbox, dump.seq, dump.next)
Issued ==
  /\ dump.seq < seqNext
  /\ \A i \in 1 .. Len(inbox) : inbox[i].type \in Content =>
       inbox[i].seq < seqNext /\ inbox[i].first <= inbox[i].last
Walked ==
  pc = "parse" /\ buf.type \in Content =>
    buf.first <= buf.last /\ Resumes(buf.seq, buf.last)
Follows ==
  call.op \in Commands /\ err = 1 /\ got # <<>> =>
    IF pc = "parse" /\ OfAnswer(buf, seqExpect)
    THEN buf.first = Told + 1
    ELSE Resumes(seqExpect, Told)
Given ==
  call.op \in Commands =>
    /\ ~HasCallback => got = <<>>
    /\ \A i \in 1 .. Len(got) :
         got[i] = [seq |-> Serving, part |-> got[1].part + i - 1]
Turn ==
  /\ seqExpect >= 1
  /\ err = 1 => ~ex
  /\ call.op \in Commands =>
       /\ Serving <= call.seq
       /\ pc # "idle" => seqNext = call.seq + 1
OneInv == Waits /\ Issued /\ Walked /\ Follows /\ Given /\ Turn

LEMMA OneInvInit == Init => OneInv
  BY DEF Init, OneInv, Waits, Issued, Walked, Follows, Given, Turn, Chain,
         NoDump, NoCall, Commands

LEMMA SeqTypes ==
  ASSUME NEW box \in Seq(Datagram), NEW i \in 1 .. Len(box)
  PROVE  box[i].seq \in Nat
  <1>1. box[i] \in Datagram
    OBVIOUS
  <1>2. QED
    BY <1>1 DEF Datagram

\* What has been put behind the rest, if it is no entry, changes nothing.
LEMMA OneGrows ==
  ASSUME TypeOK, OneInv, NEW m, Extends(inbox', inbox, m), m.type \notin Content,
         dump'.seq # 0 => dump' = dump,
         seqNext' \in {seqNext, seqNext + 1}
  PROVE  /\ Waits' /\ Issued'
         /\ \A s, n : Resumes(s, n) => Resumes(s, n)'
  <1>0. /\ inbox \in Seq(Datagram) /\ seqNext \in Nat /\ dump.seq \in Nat
    BY DEF TypeOK, DataTypes
  <1>1. /\ Chain(inbox) => Chain(inbox')
        /\ \A s, f : ChainEnd(inbox, s, f) => ChainEnd(inbox', s, f)
        /\ \A s, n : From(inbox, s, n) => From(inbox', s, n)
        /\ \A s, n, f : NextIs(inbox, s, n, f) => NextIs(inbox', s, n, f)
    BY <1>0, ChainGrows
  <1>2. Waits'
    BY <1>1 DEF OneInv, Waits
  <1>3. \A i \in 1 .. Len(inbox') : inbox'[i].type \in Content =>
          i \in 1 .. Len(inbox) /\ inbox'[i] = inbox[i]
    BY <1>0 DEF Extends
  <1>4. \A i \in 1 .. Len(inbox) : inbox[i].seq \in Nat
    BY <1>0, SeqTypes
  <1>5. dump'.seq < seqNext'
    <2>1. dump.seq < seqNext
      BY DEF OneInv, Issued
    <2>2. seqNext' >= seqNext /\ seqNext' \in Nat /\ seqNext' > 0
      BY <1>0, <2>1
    <2>3. CASE dump'.seq = 0
      BY <2>2, <2>3
    <2>4. CASE dump'.seq # 0
      BY <1>0, <2>1, <2>2, <2>4
    <2>5. QED
      BY <2>3, <2>4
  <1>6. Issued'
    BY <1>0, <1>3, <1>4, <1>5 DEF OneInv, Issued
  <1>7. ASSUME NEW s, NEW n, Resumes(s, n)
        PROVE  Resumes(s, n)'
    BY <1>1, <1>7 DEF Resumes
  <1>8. QED
    BY <1>2, <1>6, <1>7

\* A step that neither begins a call, reads, nor hands over.
LEMMA OneCarried ==
  ASSUME TypeOK, OneInv, Waits', Issued',
         \A s, n : Resumes(s, n) => Resumes(s, n)',
         UNCHANGED <<seqExpect, call, err, ex, got>>,
         pc' = "parse" => pc = "parse" /\ buf' = buf,
         pc = "parse" /\ pc' # "parse" /\ call.op \in Commands =>
           ~OfAnswer(buf, seqExpect),
         pc' # "idle" => pc # "idle" /\ seqNext' = seqNext
  PROVE  OneInv'
  <1>1. Walked'
    BY DEF OneInv, Walked
  <1>2. Follows'
    <2> SUFFICES ASSUME call.op \in Commands, err = 1, got # <<>>
                 PROVE  IF pc' = "parse" /\ OfAnswer(buf', seqExpect)
                        THEN buf'.first = Told + 1
                        ELSE Resumes(seqExpect, Told)'
      BY DEF Follows, Told
    <2>1. Told' = Told
      BY DEF Told
    <2>2. CASE pc' = "parse"
      BY <2>1, <2>2 DEF OneInv, Follows
    <2>3. CASE pc' # "parse"
      <3>1. Resumes(seqExpect, Told)
        BY <2>3 DEF OneInv, Follows
      <3>2. \A s, n : s = seqExpect /\ n = Told =>
               (Resumes(s, n)' <=> Resumes(seqExpect, Told)')
        BY <2>1 DEF Resumes
      <3>3. QED
        BY <2>3, <3>1, <3>2
    <2>4. QED
      BY <2>2, <2>3
  <1>3. Given' /\ Turn'
    BY DEF OneInv, Given, Turn, Serving, HasCallback
  <1>4. QED
    BY <1>1, <1>2, <1>3 DEF OneInv

\* A call begins with nothing given; its number is not behind the expected one.
LEMMA OneStarts ==
  ASSUME TypeOK, LagInv, AheadInv, OneInv, Waits', Issued',
         NEW op \in Commands, NEW where, StartCall(op, where), where # "parse"
  PROVE  OneInv'
  <1>0. /\ seqNext \in Nat /\ seqExpect \in Nat /\ inbox \in Seq(Datagram)
        /\ Low \in Int /\ High \in Int
    BY DEF TypeOK, DataTypes, Low, High, One
  <1>1. Low <= High
    BY <1>0, NumberedBounds DEF AheadInv
  <1>2. seqExpect <= seqNext
    BY <1>0, <1>1 DEF Low, High, One
  <1>3. /\ seqNext' = seqNext + 1 /\ call'.seq = seqNext /\ pc' = where
        /\ err' = 1 /\ ex' = FALSE /\ got' = <<>> /\ seqExpect' = seqExpect
    BY DEF StartCall
  <1>4. Turn'
    BY <1>0, <1>2, <1>3 DEF Turn, Serving, OneInv
  <1>5. Walked' /\ Follows' /\ Given'
    BY <1>3 DEF Walked, Follows, Given
  <1>6. QED
    BY <1>4, <1>5 DEF OneInv

LEMMA OneSent ==
  ASSUME TypeOK, LagInv, AheadInv, OneInv, Send
  PROVE  OneInv'
  <1>0. /\ inbox \in Seq(Datagram) /\ seqNext \in Nat /\ dump.seq \in Nat
        /\ dump \in [seq : Nat, next : Nat]
    BY DEF TypeOK, DataTypes
  \* Nothing has the number that is given out now.
  <1>1. /\ dump.seq < seqNext
        /\ \A i \in 1 .. Len(inbox) : ~OfAnswer(inbox[i], seqNext)
    <2>1. dump.seq < seqNext
      BY DEF OneInv, Issued
    <2>2. ASSUME NEW i \in 1 .. Len(inbox), OfAnswer(inbox[i], seqNext)
          PROVE  FALSE
      BY <1>0, <2>2 DEF OneInv, Issued, OfAnswer
    <2>3. QED
      BY <2>1, <2>2
  <1>2. ASSUME NEW t \in Final
        PROVE  /\ Closing(t, seqNext) \in Datagram
               /\ Closing(t, seqNext).type \notin Content
    BY <1>0, <1>2, DatagramTypes DEF Closing, Final, Content
  <1>3. ASSUME NEW op \in Commands, StartCall(op, "recv"), dump' = dump,
               NEW t \in Final,
               inbox' = Deliver(inbox, Closing(t, seqNext))
        PROVE  OneInv'
    <2>1. Extends(inbox', inbox, Closing(t, seqNext))
      BY <1>0, <1>2, <1>3, Delivered
    <2>2. seqNext' \in {seqNext, seqNext + 1}
      BY <1>3 DEF StartCall
    <2>3. Waits' /\ Issued'
      BY <1>2, <1>3, <2>1, <2>2, OneGrows
    <2>4. QED
      BY <1>3, <2>3, OneStarts
  <1>4. CASE SendAct
    BY <1>3, <1>4 DEF SendAct, Answered, Commands, Final
  <1>5. CASE SendRefused
    BY <1>3, <1>5 DEF SendRefused, Answered, Final
  <1>6. CASE SendGet
    <2>1. PICK D : D = Deliver(inbox, Reply(seqNext))
      OBVIOUS
    <2>2. Extends(D, inbox, Reply(seqNext)) /\ Reply(seqNext).seq = seqNext
      BY <1>0, <2>1, DatagramTypes, Delivered DEF Reply
    <2>3. D \in Seq(Datagram)
      BY <2>2 DEF Extends
    <2>4. /\ Chain(D)
          /\ dump.seq # 0 => ChainEnd(D, dump.seq, dump.next)
      BY <1>0, <1>1, <2>2, ChainBegins DEF OneInv, Waits
    <2>5. Extends(inbox', D, Closing("ack", seqNext)) /\ dump' = dump
      BY <1>2, <1>6, <2>1, <2>3, Delivered DEF SendGet, Answered, Final
    <2>6. Waits'
      <3>1. Closing("ack", seqNext).type \notin Content
        BY <1>2 DEF Final
      <3>2. /\ Chain(D) => Chain(inbox')
            /\ \A s, f : ChainEnd(D, s, f) => ChainEnd(inbox', s, f)
        BY <2>3, <2>5, <3>1, ChainGrows
      <3>3. QED
        BY <2>4, <2>5, <3>2 DEF Waits
    <2>7. StartCall("get", "recv") /\ "get" \in Commands
      BY <1>6 DEF SendGet, Commands
    <2>8. seqNext' = seqNext + 1
      BY <2>7 DEF StartCall
    <2>9. \A i \in 1 .. Len(D) : D[i].type \in Content =>
            D[i].seq < seqNext' /\ D[i].first <= D[i].last
      <3> SUFFICES ASSUME NEW i \in 1 .. Len(D), D[i].type \in Content
                   PROVE  D[i].seq < seqNext' /\ D[i].first <= D[i].last
        OBVIOUS
      <3>1. CASE i \in 1 .. Len(inbox)
        <4>1. D[i] = inbox[i] /\ inbox[i] \in Datagram
          BY <1>0, <2>2, <3>1 DEF Extends
        <4>2. D[i].seq \in Nat
          BY <4>1 DEF Datagram
        <4>3. QED
          BY <1>0, <2>8, <3>1, <4>1, <4>2 DEF OneInv, Issued
      <3>2. CASE i = Len(inbox) + 1
        <4>1. D[i] = Reply(seqNext)
          BY <1>0, <2>2, <3>2 DEF Extends
        <4>2. QED
          BY <1>0, <2>8, <4>1 DEF Reply
      <3>3. QED
        BY <1>0, <2>2, <3>1, <3>2 DEF Extends
    <2>10. \A i \in 1 .. Len(inbox') : inbox'[i].type \in Content =>
             i \in 1 .. Len(D) /\ inbox'[i] = D[i]
      <3>1. Closing("ack", seqNext).type \notin Content
        BY <1>2 DEF Final
      <3>2. QED
        BY <2>3, <2>5, <3>1 DEF Extends
    <2>11. Issued'
      BY <1>0, <1>1, <2>5, <2>8, <2>9, <2>10 DEF Issued
    <2>12. QED
      BY <2>6, <2>7, <2>11, OneStarts
  <1>7. CASE SendDump
    <2>1. /\ StartCall("dump", "recv") /\ "dump" \in Commands
          /\ inbox' = inbox /\ dump' = [seq |-> seqNext, next |-> 1]
          /\ seqNext' = seqNext + 1
      BY <1>7 DEF SendDump, StartCall, Commands
    <2>2. Waits'
      BY <1>1, <2>1 DEF OneInv, Waits, ChainEnd
    <2>3. \A i \in 1 .. Len(inbox) : inbox[i].seq \in Nat
      BY <1>0, SeqTypes
    <2>4. Issued'
      BY <1>0, <2>1, <2>3 DEF OneInv, Issued
    <2>5. QED
      BY <2>1, <2>2, <2>4, OneStarts
  <1>8. CASE SendRegister
    <2>1. /\ StartCall("register", "registering") /\ "register" \in Commands
          /\ inbox' = inbox /\ dump' = dump /\ seqNext' = seqNext + 1
      BY <1>8 DEF SendRegister, StartCall, Commands
    <2>2. \A i \in 1 .. Len(inbox) : inbox[i].seq \in Nat
      BY <1>0, SeqTypes
    <2>3. Waits' /\ Issued'
      BY <1>0, <1>1, <2>1, <2>2 DEF OneInv, Waits, Issued
    <2>4. QED
      BY <2>1, <2>3, OneStarts
  <1>9. CASE SendFails
    <2>1. /\ UNCHANGED <<inbox, dump, seqExpect, call, err, ex, got, buf, pc>>
          /\ seqNext' = seqNext + 1 /\ pc = "idle"
      BY <1>9 DEF SendFails, kernelVars
    <2>2. \A i \in 1 .. Len(inbox) : inbox[i].seq \in Nat
      BY <1>0, SeqTypes
    <2>3. Waits' /\ Issued'
      BY <1>0, <1>1, <2>1, <2>2 DEF OneInv, Waits, Issued
    <2>4. \A s, n : Resumes(s, n) => Resumes(s, n)'
      BY <2>1 DEF Resumes
    <2>5. QED
      BY <2>1, <2>3, <2>4, OneCarried
  <1>10. QED
    BY <1>4, <1>5, <1>6, <1>7, <1>8, <1>9 DEF Send

\* The kernel's own steps: a frame, an ACK or a DONE is no entry, and the next
\* entries of a dump follow on from those before.
LEMMA OneFed ==
  ASSUME TypeOK, OneInv, FrameEvent \/ AckRegister \/ DumpEntries \/ DumpDone
  PROVE  OneInv'
  <1>0. /\ inbox \in Seq(Datagram) /\ seqNext \in Nat /\ dump.seq \in Nat
        /\ dump \in [seq : Nat, next : Nat] /\ dump.next \in Nat
        /\ call.seq \in Nat /\ events \in Nat
    BY DEF TypeOK, DataTypes
  <1>1. ASSUME NEW m, Extends(inbox', inbox, m), m.type \notin Content,
               dump'.seq # 0 => dump' = dump,
               UNCHANGED <<seqNext, seqExpect, call, err, ex, got, buf>>,
               pc' = pc \/ (pc = "registering" /\ pc' = "recv")
        PROVE  OneInv'
    <2>1. Waits' /\ Issued' /\ \A s, n : Resumes(s, n) => Resumes(s, n)'
      BY <1>1, OneGrows
    <2>2. QED
      BY <1>1, <2>1, OneCarried
  <1>2. CASE FrameEvent
    <2>1. Event(events + 1) \in Datagram
      BY <1>0, DatagramTypes
    <2>2. Extends(inbox', inbox, Event(events + 1))
      BY <1>0, <1>2, <2>1, Delivered DEF FrameEvent
    <2>3. Event(events + 1).type \notin Content
      BY DEF Event, Content
    <2>4. UNCHANGED <<seqNext, seqExpect, call, err, ex, got, buf, pc, dump>>
      BY <1>2 DEF FrameEvent, libnlVars, callVars
    <2>5. QED
      BY <1>1, <2>2, <2>3, <2>4
  <1>3. CASE AckRegister
    <2>1. Closing("ack", call.seq) \in Datagram
      BY <1>0, DatagramTypes DEF Final
    <2>2. Extends(inbox', inbox, Closing("ack", call.seq))
      BY <1>0, <1>3, <2>1, Delivered DEF AckRegister, Answered
    <2>3. Closing("ack", call.seq).type \notin Content
      BY DEF Closing, Content
    <2>4. /\ UNCHANGED <<seqNext, seqExpect, call, err, ex, got, buf, dump>>
          /\ pc = "registering" /\ pc' = "recv"
      BY <1>3 DEF AckRegister, libnlVars
    <2>5. QED
      BY <1>1, <2>2, <2>3, <2>4
  <1>4. CASE DumpDone
    <2>1. PICK m : m = Closing("done", dump.seq)
      OBVIOUS
    <2>2. m \in Datagram /\ m.type \notin Content
      BY <1>0, <2>1, DatagramTypes DEF Final, Closing, Content
    <2>3. Extends(inbox', inbox, m)
      <3>1. inbox' = Append(inbox, m)
        BY <1>4, <2>1 DEF DumpDone
      <3>2. QED
        BY <1>0, <2>2, <3>1 DEF Extends
    <2>4. /\ UNCHANGED <<seqNext, seqExpect, call, err, ex, got, buf, pc>>
          /\ dump'.seq = 0
      BY <1>4 DEF DumpDone, libnlVars, callVars, NoDump
    <2>5. QED
      BY <1>1, <2>2, <2>3, <2>4
  <1>5. CASE DumpEntries
    <2>1. PICK n \in dump.next .. MaxParts :
            /\ inbox' = Append(inbox, Parts(dump.seq, dump.next, n))
            /\ dump' = [dump EXCEPT !.next = n + 1]
      BY <1>5 DEF DumpEntries
    <2>2. n \in Nat /\ dump.next <= n
      BY <1>0, <2>1, BoundsAssumption
    <2>3. dump'.seq = dump.seq /\ dump'.next = n + 1
      BY <1>0, <2>1
    <2>4. PICK m : m = Parts(dump.seq, dump.next, n)
      OBVIOUS
    <2>5. /\ m \in Datagram /\ m.type \in Content /\ m.seq = dump.seq
          /\ m.first = dump.next /\ m.last = n
      BY <1>0, <2>2, <2>4, DatagramTypes DEF Parts, Content
    <2>6. inbox' = Append(inbox, m)
      BY <2>1, <2>4
    <2>7. Extends(inbox', inbox, m) /\ Len(inbox') = Len(inbox) + 1
      BY <1>0, <2>5, <2>6 DEF Extends
    <2>8. /\ UNCHANGED <<seqNext, seqExpect, call, err, ex, got, buf, pc>>
          /\ dump.seq # 0 /\ pc = "recv"
      BY <1>5 DEF DumpEntries, libnlVars, callVars
    <2>9. Chain(inbox) /\ ChainEnd(inbox, m.seq, m.first)
      BY <2>5, <2>8 DEF OneInv, Waits
    <2>10. /\ Chain(inbox')
           /\ ChainEnd(inbox', m.seq, m.last + 1)
           /\ \A s, k : /\ From(inbox, s, k)
                        /\ s = m.seq => NextIs(inbox, s, k, m.first)
                        => From(inbox', s, k)
           /\ \A k : NextIs(inbox', m.seq, k, m.last + 1)
      BY <1>0, <2>5, <2>7, <2>9, ChainContinues
    <2>11. Waits'
      BY <2>3, <2>5, <2>10 DEF Waits
    <2>12. ASSUME NEW i \in 1 .. Len(inbox'), inbox'[i].type \in Content
           PROVE  inbox'[i].seq < seqNext /\ inbox'[i].first <= inbox'[i].last
      <3>1. CASE i \in 1 .. Len(inbox)
        <4>1. inbox'[i] = inbox[i]
          BY <2>7, <3>1 DEF Extends
        <4>2. QED
          BY <2>12, <3>1, <4>1 DEF OneInv, Issued
      <3>2. CASE i = Len(inbox) + 1
        <4>1. inbox'[i] = m
          BY <2>7, <3>2 DEF Extends
        <4>2. QED
          BY <2>2, <2>5, <4>1 DEF OneInv, Issued
      <3>3. QED
        BY <1>0, <2>7, <3>1, <3>2
    <2>13. Issued'
      BY <2>3, <2>8, <2>12 DEF OneInv, Issued
    <2>14. ASSUME NEW s, NEW k, Resumes(s, k)
           PROVE  Resumes(s, k)'
      <3>1. From(inbox', s, k)
        BY <2>5, <2>8, <2>10, <2>14 DEF Resumes
      <3>2. dump'.seq = s => NextIs(inbox', s, k, dump'.next)
        BY <2>3, <2>5, <2>10
      <3>3. QED
        BY <3>1, <3>2 DEF Resumes
    <2>15. QED
      BY <2>8, <2>11, <2>13, <2>14, OneCarried
  <1>6. QED
    BY <1>2, <1>3, <1>4, <1>5

\* The datagram read either is of another answer, or goes on with this one.
LEMMA OneRead ==
  ASSUME TypeOK, OneInv, ReadDatagram
  PROVE  OneInv'
  <1>1. /\ UNCHANGED <<dump, seqNext, seqExpect, call, err, ex, got>>
        /\ pc = "recv" /\ pc' = "parse" /\ inbox # <<>>
        /\ buf' = Head(inbox) /\ inbox' = Tail(inbox)
        /\ inbox \in Seq(Datagram)
    BY DEF ReadDatagram, libnlVars, TypeOK, DataTypes
  <1>2. /\ Chain(inbox) => Chain(inbox')
        /\ \A s, f : ChainEnd(inbox, s, f) => ChainEnd(inbox', s, f)
        /\ buf'.type \in Content =>
             /\ Chain(inbox) => From(inbox', buf'.seq, buf'.last)
             /\ \A f : ChainEnd(inbox, buf'.seq, f) =>
                  NextIs(inbox', buf'.seq, buf'.last, f)
        /\ \A s, n : ~OfAnswer(buf', s) /\ From(inbox, s, n) =>
             From(inbox', s, n)
        /\ \A s, n, f : ~OfAnswer(buf', s) /\ NextIs(inbox, s, n, f) =>
             NextIs(inbox', s, n, f)
        /\ \A s, n : OfAnswer(buf', s) /\ From(inbox, s, n) =>
             buf'.first = n + 1
    BY <1>1, ChainRead
  <1>3. Waits'
    BY <1>1, <1>2 DEF OneInv, Waits
  <1>4. /\ 1 \in 1 .. Len(inbox) /\ buf' = inbox[1]
        /\ \A i \in 1 .. Len(inbox') :
             inbox'[i] = inbox[i + 1] /\ i + 1 \in 1 .. Len(inbox)
    BY <1>1
  <1>5. Issued'
    BY <1>1, <1>4 DEF OneInv, Issued
  <1>6. Walked'
    <2> SUFFICES ASSUME buf'.type \in Content
                 PROVE  /\ buf'.first <= buf'.last
                        /\ Resumes(buf.seq, buf.last)'
      BY DEF Walked
    <2>1. buf'.first <= buf'.last
      BY <1>4 DEF OneInv, Issued
    <2>2. From(inbox', buf'.seq, buf'.last)
      BY <1>2 DEF OneInv, Waits
    <2>3. dump'.seq # 0 /\ dump'.seq = buf'.seq =>
            NextIs(inbox', buf'.seq, buf'.last, dump'.next)
      BY <1>1, <1>2 DEF OneInv, Waits
    <2>4. QED
      BY <2>1, <2>2, <2>3 DEF Resumes
  <1>7. Follows'
    <2> SUFFICES ASSUME call.op \in Commands, err = 1, got # <<>>
                 PROVE  IF OfAnswer(buf', seqExpect)
                        THEN buf'.first = Told + 1
                        ELSE Resumes(seqExpect, Told)'
      BY <1>1 DEF Follows, Told
    <2>1. Resumes(seqExpect, Told)
      BY <1>1 DEF OneInv, Follows
    <2>2. CASE OfAnswer(buf', seqExpect)
      BY <1>2, <2>1, <2>2 DEF Resumes
    <2>3. CASE ~OfAnswer(buf', seqExpect)
      <3>1. From(inbox', seqExpect, Told)
        BY <1>2, <2>1, <2>3 DEF Resumes
      <3>2. dump.seq # 0 /\ dump.seq = seqExpect =>
              NextIs(inbox', seqExpect, Told, dump.next)
        BY <1>2, <2>1, <2>3 DEF Resumes
      <3>3. Told' = Told
        BY <1>1 DEF Told
      <3>4. Resumes(seqExpect, Told)'
        BY <1>1, <3>1, <3>2, <3>3 DEF Resumes
      <3>5. QED
        BY <2>3, <3>4
    <2>4. QED
      BY <2>2, <2>3
  <1>8. Given' /\ Turn'
    BY <1>1 DEF OneInv, Given, Turn, Serving, HasCallback
  <1>9. QED
    BY <1>3, <1>5, <1>6, <1>7, <1>8 DEF OneInv

LEMMA PartTypes ==
  ASSUME NEW list \in Seq([seq : Nat, part : Nat]), NEW i \in 1 .. Len(list)
  PROVE  list[i].part \in Nat
  <1>1. ASSUME NEW S, NEW l \in Seq(S), NEW k \in 1 .. Len(l)
        PROVE  l[k] \in S
    OBVIOUS
  <1>2. list[i] \in [seq : Nat, part : Nat]
    BY <1>1
  <1>3. QED
    BY <1>2

\* A command is handed nothing but the next entry of the answer expected.
LEMMA OneHanded ==
  ASSUME TypeOK, LagInv, NumberInv, OneInv, HandOver, call.op \in Commands,
         UNCHANGED <<seqExpect, call>>, err' = err \/ (err' # 1 /\ ex')
  PROVE  /\ OfAnswer(buf, seqExpect) /\ Given'
         /\ got' # <<>> /\ Told' = buf.first
  <1>0. /\ got \in Seq([seq : Nat, part : Nat]) /\ buf \in Datagram
        /\ buf.seq \in Nat /\ buf.first \in Nat /\ seqExpect \in Nat
    BY DEF TypeOK, DataTypes, Datagram
  <1>1. /\ pc = "parse" /\ err = 1 /\ buf.seq = seqExpect /\ HasCallback
        /\ buf.type \in Handled
        /\ got' = Append(got, [seq |-> buf.seq, part |-> buf.first])
    BY DEF HandOver, SeqAccepted, LagInv, Commands
  <1>2. OfAnswer(buf, seqExpect)
    <2>1. seqExpect >= 1
      BY DEF OneInv, Turn
    <2>2. buf.type # "event"
      BY <1>0, <1>1, <2>1 DEF NumberInv
    <2>3. QED
      BY <1>1, <2>2 DEF OfAnswer, Handled, Content
  <1>3. PICK e \in [seq : Nat, part : Nat] :
          /\ e = [seq |-> seqExpect, part |-> buf.first]
          /\ got' = Append(got, e)
    BY <1>0, <1>1
  <1>4. /\ Len(got) \in Nat /\ Len(got') = Len(got) + 1
        /\ \A i \in 1 .. Len(got) : got'[i] = got[i]
        /\ got'[Len(got) + 1] = e
    BY <1>0, <1>3
  <1>5. got' # <<>>
    BY <1>0, <1>3
  <1>6. Told' = buf.first
    BY <1>3, <1>4 DEF Told
  <1>7. Serving = seqExpect /\ Serving' = seqExpect
    BY <1>1 DEF Serving
  <1>8. \A i \in 1 .. Len(got) :
          got[i] = [seq |-> seqExpect, part |-> got[1].part + i - 1]
    BY <1>7 DEF OneInv, Given
  <1>9. ASSUME NEW i \in 1 .. Len(got')
        PROVE  got'[i] = [seq |-> seqExpect, part |-> got'[1].part + i - 1]
    <2>1. CASE Len(got) = 0
      <3>1. i = 1 /\ got'[1] = e
        BY <1>4, <2>1
      <3>2. e.part = e.part + 1 - 1 /\ e.part = buf.first
        BY <1>0, <1>3
      <3>3. QED
        BY <1>3, <3>1, <3>2
    <2>2. CASE Len(got) # 0
      <3>1. 1 \in 1 .. Len(got) /\ Len(got) \in 1 .. Len(got)
            /\ got'[1] = got[1]
        BY <1>4, <2>2
      <3>2. got[1].part \in Nat
        BY <1>0, <3>1, PartTypes
      <3>3. CASE i \in 1 .. Len(got)
        BY <1>4, <1>8, <3>1, <3>3
      <3>4. CASE i = Len(got) + 1
        <4>1. got # <<>>
          BY <1>0, <2>2
        <4>2. buf.first = Told + 1
          BY <1>1, <1>2, <4>1 DEF OneInv, Follows
        <4>3. Told = got[1].part + Len(got) - 1
          <5>1. PICK l \in 1 .. Len(got) : l = Len(got)
            BY <3>1
          <5>2. got[l] = [seq |-> seqExpect, part |-> got[1].part + l - 1]
            BY <1>8
          <5>3. got[l].part = got[1].part + l - 1
            BY <5>2
          <5>4. QED
            BY <5>1, <5>3 DEF Told
        <4>4. buf.first = got'[1].part + i - 1
          BY <1>4, <3>1, <3>2, <3>4, <4>2, <4>3
        <4>5. QED
          BY <1>3, <1>4, <3>4, <4>4
      <3>5. QED
        BY <1>4, <3>3, <3>4
    <2>3. QED
      BY <2>1, <2>2
  <1>10. Given'
    BY <1>1, <1>7, <1>9 DEF Given, HasCallback
  <1>11. QED
    BY <1>2, <1>5, <1>6, <1>10

\* The rest of the datagram follows on from its entry in hand, and the rest of
\* the answer from the datagram.
LEMMA OneAdvances ==
  ASSUME TypeOK, LagInv, NumberInv, OneInv, pc = "parse", Advance,
         SeqAccepted, buf.type \in Handled,
         UNCHANGED <<inbox, dump, seqNext, seqExpect, call, err, ex>>,
         \/ ~HasCallback /\ got' = got
         \/ HandOver
  PROVE  OneInv'
  <1>0. /\ buf \in Datagram /\ buf.first \in Nat /\ buf.last \in Nat
    BY DEF TypeOK, DataTypes, Datagram
  <1>1. Waits' /\ Issued'
    BY DEF OneInv, Waits, Issued
  <1>2. \A s, n : Resumes(s, n)' <=> Resumes(s, n)
    BY DEF Resumes
  <1>3. \/ /\ buf.first < buf.last /\ pc' = "parse"
           /\ buf'.first = buf.first + 1 /\ buf'.last = buf.last
           /\ buf'.seq = buf.seq /\ buf'.type = buf.type
        \/ ~(buf.first < buf.last) /\ pc' \in {"recv", "test"} /\ buf' = buf
    BY <1>0 DEF Advance, Datagram
  <1>4. Walked'
    <2>1. SUFFICES ASSUME pc' = "parse", buf'.type \in Content
                   PROVE  buf'.first <= buf'.last /\ Resumes(buf.seq, buf.last)'
      BY DEF Walked
    <2>2. /\ buf.first < buf.last /\ buf'.first = buf.first + 1
          /\ buf'.last = buf.last /\ buf'.seq = buf.seq
          /\ buf.type \in Content
      BY <1>3, <2>1
    <2>3. Resumes(buf.seq, buf.last)
      BY <2>2 DEF OneInv, Walked
    <2>4. Resumes(buf.seq, buf.last)'
      BY <2>2, <2>3 DEF Resumes
    <2>5. QED
      BY <1>0, <2>2, <2>4
  <1>5. Turn'
    BY <1>3 DEF OneInv, Turn, Serving
  <1>6. CASE call.op \notin Commands
    BY <1>1, <1>4, <1>5, <1>6 DEF OneInv, Follows, Given
  <1>7. CASE call.op \in Commands /\ ~HasCallback /\ got' = got
    <2>1. got' = <<>>
      BY <1>7 DEF OneInv, Given
    <2>2. Given' /\ Follows'
      BY <2>1 DEF Given, Follows
    <2>3. QED
      BY <1>1, <1>4, <1>5, <2>2 DEF OneInv
  <1>8. CASE call.op \in Commands /\ HandOver
    <2>1. /\ OfAnswer(buf, seqExpect) /\ Given'
          /\ got' # <<>> /\ Told' = buf.first
      BY <1>8, OneHanded
    <2>2. Follows'
      <3>1. SUFFICES ASSUME TRUE
                     PROVE  IF pc' = "parse" /\ OfAnswer(buf', seqExpect)
                            THEN buf'.first = Told' + 1
                            ELSE Resumes(seqExpect, Told)'
        BY DEF Follows
      <3>2. CASE pc' = "parse"
        BY <1>3, <2>1, <3>2 DEF OfAnswer
      <3>3. CASE pc' # "parse"
        <4>1. buf.first <= buf.last /\ Resumes(buf.seq, buf.last)
          BY <2>1 DEF OneInv, Walked, OfAnswer
        <4>2. buf.first = buf.last /\ buf.seq = seqExpect
          BY <1>0, <1>3, <2>1, <3>3, <4>1 DEF OfAnswer
        <4>3. Resumes(seqExpect, buf.first)
          BY <4>1, <4>2
        <4>4. Resumes(seqExpect, Told)'
          BY <2>1, <4>3 DEF Resumes
        <4>5. QED
          BY <3>3, <4>4
      <3>4. QED
        BY <3>2, <3>3
    <2>3. QED
      BY <1>1, <1>4, <1>5, <2>1, <2>2 DEF OneInv
  <1>9. QED
    BY <1>6, <1>7, <1>8

LEMMA OneInvStep ==
  ASSUME TypeOK, LagInv, AheadInv, NumberInv, OneInv, [Next]_vars
  PROVE  OneInv'
  <1>0. /\ seqExpect \in Nat /\ call.seq \in Nat /\ err \in {-1, 0, 1}
    BY DEF TypeOK, DataTypes
  <1>1. ASSUME UNCHANGED <<inbox, dump, seqNext>>
        PROVE  /\ Waits' /\ Issued'
               /\ \A s, n : Resumes(s, n) => Resumes(s, n)'
    BY <1>1 DEF OneInv, Waits, Issued, Resumes
  <1>2. CASE Send
    BY <1>2, OneSent
  <1>3. CASE Listen
    <2>1. /\ UNCHANGED <<inbox, dump, seqNext, seqExpect>>
          /\ pc' = "recv" /\ call'.op = "listen" /\ ~ex'
      BY <1>3 DEF Listen, kernelVars, libnlVars
    <2>2. Walked' /\ Follows' /\ Given' /\ Turn'
      BY <2>1 DEF OneInv, Walked, Follows, Given, Turn, Commands
    <2>3. QED
      BY <1>1, <2>1, <2>2 DEF OneInv
  <1>4. CASE FrameEvent \/ AckRegister \/ DumpEntries \/ DumpDone
    BY <1>4, OneFed
  <1>5. CASE ReadDatagram
    BY <1>5, OneRead
  <1>6. CASE ReadError \/ RejectSequence \/ LoopAgain \/ Return
    <2>1. /\ UNCHANGED <<inbox, dump, seqNext, seqExpect, call, err, ex, got,
                         buf>>
          /\ pc # "idle" /\ pc' # "parse"
      BY <1>6 DEF ReadError, RejectSequence, LoopAgain, Return, kernelVars,
                  libnlVars
    <2>2. pc = "parse" /\ call.op \in Commands => ~OfAnswer(buf, seqExpect)
      BY <1>6 DEF ReadError, RejectSequence, LoopAgain, Return, SeqAccepted,
                  OfAnswer
    <2>3. QED
      BY <1>1, <2>1, <2>2, OneCarried
  \* The answer is over: what has been given is all of the number before.
  <1>7. CASE HandleFinal
    <2>1. /\ UNCHANGED <<inbox, dump, seqNext, call, ex, got>>
          /\ pc = "parse" /\ pc' = "test"
          /\ seqExpect' = seqExpect + 1 /\ err' # 1
      BY <1>7 DEF HandleFinal, Verdict, kernelVars
    <2>2. err = 1 /\ ~ex
      BY <2>1 DEF LagInv, OneInv, Turn
    <2>3. Serving = seqExpect /\ Serving' = seqExpect
      BY <1>0, <2>1, <2>2 DEF Serving
    <2>4. Given' /\ Turn'
      BY <1>0, <2>1, <2>2, <2>3 DEF OneInv, Given, Turn, HasCallback
    <2>5. Walked' /\ Follows'
      BY <2>1 DEF Walked, Follows
    <2>6. QED
      BY <1>1, <2>1, <2>4, <2>5 DEF OneInv
  <1>8. CASE HandleIgnored \/ HandleContinue
    <2>1. /\ pc = "parse" /\ Advance /\ SeqAccepted /\ buf.type \in Handled
          /\ UNCHANGED <<inbox, dump, seqNext, seqExpect, call, err, ex>>
          /\ (~HasCallback /\ got' = got) \/ HandOver
      BY <1>8 DEF HandleIgnored, HandleContinue, HandOver, kernelVars,
                  libnlVars
    <2>2. QED
      BY <2>1, OneAdvances
  <1>9. CASE HandleStop
    <2>1. /\ UNCHANGED <<inbox, dump, seqNext, seqExpect, call, ex>>
          /\ pc' = "test" /\ call.op = "listen" /\ err' # 1
      BY <1>9 DEF HandleStop, kernelVars, libnlVars
    <2>2. Walked' /\ Follows' /\ Given' /\ Turn'
      BY <2>1 DEF OneInv, Walked, Follows, Given, Turn, Commands
    <2>3. QED
      BY <1>1, <2>1, <2>2 DEF OneInv
  <1>10. CASE HandleThrow
    <2>1. /\ UNCHANGED <<inbox, dump, seqNext, seqExpect, call>>
          /\ pc' = "test" /\ HandOver /\ err' # 1 /\ ex' /\ pc = "parse"
      BY <1>10 DEF HandleThrow, HandOver, kernelVars, libnlVars
    <2>2. Given'
      <3>1. CASE call.op \in Commands
        BY <2>1, <3>1, OneHanded
      <3>2. CASE call.op \notin Commands
        BY <2>1, <3>2 DEF Given
      <3>3. QED
        BY <3>1, <3>2
    <2>3. err = 1
      BY <2>1 DEF LagInv
    <2>4. Serving = seqExpect /\ Serving' = seqExpect
      BY <2>1, <2>3 DEF Serving
    <2>5. Walked' /\ Follows' /\ Turn'
      BY <2>1, <2>3, <2>4 DEF OneInv, Walked, Follows, Turn
    <2>6. QED
      BY <1>1, <2>1, <2>2, <2>5 DEF OneInv
  <1>11. CASE UNCHANGED vars
    <2>1. UNCHANGED <<inbox, dump, seqNext, seqExpect, call, err, ex, got, buf,
                      pc>>
      BY <1>11 DEF vars, kernelVars, libnlVars, callVars
    <2>2. QED
      BY <2>1 DEF OneInv, Waits, Issued, Walked, Follows, Given, Turn, Resumes,
                  Told, Serving, HasCallback
  <1>12. QED
    BY <1>2, <1>3, <1>4, <1>5, <1>6, <1>7, <1>8, <1>9, <1>10, <1>11
       DEF Next, Kernel, Recv

\* Whatever has failed on a socket, what a command's callback has been given
\* are entries of one answer, in order and without a gap, and of none that was
\* not asked for yet.
THEOREM SocketOneAnswer == Spec => []OneAnswer
  <1> DEFINE Inv == TypeOK /\ LagInv /\ AheadInv /\ NumberInv /\ OneInv
  <1>1. Init => Inv
    <2>1. Init => NumberInv
      BY DEF Init, NumberInv, NoCall, Commands
    <2>2. QED
      BY <2>1, InitDataTypes, FlagTypesStep, LagInvInit, AheadInvInit,
         OneInvInit DEF TypeOK
  <1>2. Inv /\ [Next]_vars => Inv'
    <2>1. TypeOK /\ [Next]_vars => TypeOK'
      BY DataTypesStep, FlagTypesStep DEF TypeOK
    <2>2. QED
      BY <2>1, LagInvStep, AheadInvStep, NumberInvStep, OneInvStep
  <1>3. Inv => OneAnswer
    BY DEF OneInv, Given, Turn, OneAnswer
  <1> HIDE DEF Inv
  <1>4. Spec => []Inv
    BY <1>1, <1>2, PTL DEF Spec
  <1>5. QED
    BY <1>3, <1>4, PTL
=============================================================================
