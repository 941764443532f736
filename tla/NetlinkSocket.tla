---------------------------- MODULE NetlinkSocket ----------------------------
(* nl80211::Socket (src/nl80211/socket.cpp) over libnl and the kernel: one   *)
(* request at a time is sent and its answer is read by nl_recvmsgs in a loop *)
(* that only looks at `err`.  The kernel answers do-requests inside sendmsg, *)
(* feeds a dump as the caller reads, and interleaves the frames the socket   *)
(* registered for, which carry sequence number 0.  libnl gives each request  *)
(* the number s_seq_next, accepts only messages numbered s_seq_expect, and   *)
(* advances s_seq_expect at each ACK, error and DONE.                        *)
EXTENDS Integers, Sequences

CONSTANTS
  MaxRequests,   \* bound: requests sent on this socket
  MaxEvents,     \* bound: frames received for this socket
  MaxParts,      \* bound: entries of one dump
  Capacity       \* datagrams the socket's receive buffer holds

ASSUME BoundsAssumption ==
  /\ MaxRequests \in Nat
  /\ MaxEvents \in Nat
  /\ MaxParts \in Nat
  /\ Capacity \in Nat \ {0}

VARIABLES
  inbox,         \* the socket's receive buffer in the kernel
  overrun,       \* ENOBUFS is pending on the socket
  dump,          \* the dump in progress: its request (0: none), next entry
  registered,    \* REGISTER_FRAME has been carried out for this socket
  events,        \* frames received so far; a frame is known by its rank
  seqNext,       \* nl_sock.s_seq_next
  seqExpect,     \* nl_sock.s_seq_expect
  pc,            \* where recv_messages is
  call,          \* the command being carried out and its sequence number
  buf,           \* the datagram nl_recvmsgs is walking, `first` onwards
  err,           \* recv_messages' err: 1 go on, 0 stop, -1 failed
  ex,            \* recv_messages' captured exception
  got,           \* messages handed to the callback by this call
  outcome,       \* how the last call ended
  promise,       \* history: what the kernel decided about the last request
  failures,      \* history: requests not sent, plus answers a throw cut short
  lost,          \* history: an answer did not fit in the receive buffer
  heard,         \* history: the frames handed to a callback
  missed,        \* history: the frames that did not fit in the receive buffer
  ackedAt        \* history: value of `events` when the registration was acked

kernelVars == <<inbox, overrun, dump, registered, events>>
libnlVars  == <<seqNext, seqExpect>>
callVars   == <<pc, call, buf, err, ex, got, outcome>>
history    == <<promise, failures, lost, heard, missed, ackedAt>>
vars == <<kernelVars, libnlVars, callVars, history>>

-----------------------------------------------------------------------------
(* Messages.  A datagram carries entries first..last of one kind; a reply,   *)
(* a frame, an ACK, an error and a DONE come alone in theirs.                *)

Handled  == {"reply", "part", "event"}
Final    == {"ack", "error", "done"}
Datagram == [type : Handled \cup Final, seq : Nat, first : Nat, last : Nat]
Commands == {"act", "register", "get", "dump"}

Event(n)       == [type |-> "event", seq |-> 0, first |-> n, last |-> n]
Reply(s)       == [type |-> "reply", seq |-> s, first |-> 1, last |-> 1]
Parts(s, m, n) == [type |-> "part", seq |-> s, first |-> m, last |-> n]
Closing(t, s)  == [type |-> t, seq |-> s, first |-> 0, last |-> 0]

NoDump    == [seq |-> 0, next |-> 1]
NoCall    == [op |-> "none", seq |-> 0]
NoBuf     == Closing("ack", 0)
NoPromise == [granted |-> FALSE, parts |-> 0]

\* A kernel unicast to a full socket is dropped and reported as ENOBUFS.
Room(n) == Len(inbox) + n <= Capacity
Deliver(box, m) == IF Len(box) < Capacity THEN Append(box, m) ELSE box

-----------------------------------------------------------------------------
Init ==
  /\ inbox = <<>> /\ overrun = FALSE
  /\ dump = NoDump
  /\ registered = FALSE /\ events = 0
  /\ seqNext = 1 /\ seqExpect = 1
  /\ pc = "idle" /\ call = NoCall /\ buf = NoBuf
  /\ err = 1 /\ ex = FALSE /\ got = <<>>
  /\ outcome = "none"
  /\ promise = NoPromise
  /\ failures = 0 /\ lost = FALSE
  /\ heard = {} /\ missed = {} /\ ackedAt = 0

(* ---- the caller: send_message, then one of the two recv_messages ------- *)

\* nl_send_auto numbers the request and asks for an ACK; recv_messages starts
\* with err = 1 and no exception.
StartCall(op, where) ==
  /\ pc = "idle"
  /\ seqNext <= MaxRequests
  /\ seqNext' = seqNext + 1
  /\ call' = [op |-> op, seq |-> seqNext]
  /\ pc' = where
  /\ err' = 1 /\ ex' = FALSE /\ got' = <<>>
  /\ outcome' = "none"
  /\ UNCHANGED <<seqExpect, buf, failures, heard, missed>>

\* The kernel answers n datagrams, the last of them in `box`.
Answered(box, n, granted, parts) ==
  /\ inbox' = box
  /\ overrun' = (overrun \/ ~Room(n))
  /\ lost' = (lost \/ ~Room(n))
  /\ promise' = [granted |-> granted, parts |-> parts]

\* new_key, del_key, set_interface_mode, send_frame, join_ibss, del_interface:
\* the kernel acknowledges.
SendAct ==
  /\ StartCall("act", "recv")
  /\ Answered(Deliver(inbox, Closing("ack", seqNext)), 1, TRUE, 0)
  /\ UNCHANGED <<dump, registered, events, ackedAt>>

\* new_interface, get_interface, get_wiphy: an answer, then the ACK.
SendGet ==
  /\ StartCall("get", "recv")
  /\ Answered(Deliver(Deliver(inbox, Reply(seqNext)), Closing("ack", seqNext)),
              2, TRUE, 1)
  /\ UNCHANGED <<dump, registered, events, ackedAt>>

\* get_wiphy_list, get_interface_list: the kernel starts a dump.
SendDump ==
  /\ dump.seq = 0
  /\ StartCall("dump", "recv")
  /\ dump' = [seq |-> seqNext, next |-> 1]
  /\ promise' = [granted |-> TRUE, parts |-> 0]
  /\ UNCHANGED <<inbox, overrun, registered, events, lost, ackedAt>>

\* Any command may be refused; a second dump is, while one is running (EBUSY).
SendRefused ==
  \E op \in Commands :
    /\ StartCall(op, "recv")
    /\ Answered(Deliver(inbox, Closing("error", seqNext)), 1, FALSE, 0)
    /\ UNCHANGED <<dump, registered, events, ackedAt>>

\* register_frame: the kernel adds the registration first and acknowledges
\* afterwards, so that frames may be queued ahead of the ACK.
SendRegister ==
  /\ StartCall("register", "registering")
  /\ registered' = TRUE
  /\ promise' = [granted |-> TRUE, parts |-> 0]
  /\ UNCHANGED <<inbox, overrun, dump, events, lost, ackedAt>>

AckRegister ==
  /\ pc = "registering"
  /\ pc' = "recv"
  /\ Answered(Deliver(inbox, Closing("ack", call.seq)), 1, TRUE, 0)
  /\ ackedAt' = events
  /\ UNCHANGED <<dump, registered, events, libnlVars, call, buf, err, ex, got,
                 outcome, failures, heard, missed>>

\* nl_send_auto fails: libnl has consumed a sequence number, send_message
\* throws NlError and no answer will come.
SendFails ==
  /\ pc = "idle"
  /\ seqNext <= MaxRequests
  /\ seqNext' = seqNext + 1
  /\ failures' = failures + 1
  /\ outcome' = "not_sent"
  /\ UNCHANGED <<kernelVars, seqExpect, pc, call, buf, err, ex, got, promise,
                 lost, heard, missed, ackedAt>>

\* The scan's recv_messages(callback, arg, true, timeout): no request, no
\* sequence check.
Listen ==
  /\ pc = "idle"
  /\ registered
  /\ pc' = "recv"
  /\ call' = [op |-> "listen", seq |-> 0]
  /\ err' = 1 /\ ex' = FALSE /\ got' = <<>>
  /\ outcome' = "none"
  /\ UNCHANGED <<kernelVars, libnlVars, buf, history>>

(* ---- the kernel ---------------------------------------------------------- *)

\* A registered frame arrives.
FrameEvent ==
  /\ registered
  /\ events < MaxEvents
  /\ events' = events + 1
  /\ inbox' = Deliver(inbox, Event(events + 1))
  /\ overrun' = (overrun \/ ~Room(1))
  /\ missed' = IF Room(1) THEN missed ELSE missed \cup {events + 1}
  /\ UNCHANGED <<dump, registered, libnlVars, callVars, promise, failures, lost,
                 heard, ackedAt>>

\* A dump is filled in by recvmsg and never dropped; it ends with a DONE of
\* its own, which also ends a dump that failed half-way (the code in the DONE
\* is looked at by nobody).
DumpEntries ==
  /\ pc = "recv"
  /\ dump.seq # 0
  /\ Room(1)
  /\ \E n \in dump.next .. MaxParts :
       /\ inbox' = Append(inbox, Parts(dump.seq, dump.next, n))
       /\ dump' = [dump EXCEPT !.next = n + 1]
       /\ promise' = IF dump.seq = call.seq THEN [promise EXCEPT !.parts = n]
                                            ELSE promise
  /\ UNCHANGED <<overrun, registered, events, libnlVars, callVars, failures,
                 lost, heard, missed, ackedAt>>

DumpDone ==
  /\ pc = "recv"
  /\ dump.seq # 0
  /\ Room(1)
  /\ inbox' = Append(inbox, Closing("done", dump.seq))
  /\ dump' = NoDump
  /\ UNCHANGED <<overrun, registered, events, libnlVars, callVars, history>>

(* ---- nl_recvmsgs --------------------------------------------------------- *)

ReadDatagram ==
  /\ pc = "recv"
  /\ ~overrun
  /\ inbox # <<>>
  /\ buf' = Head(inbox)
  /\ inbox' = Tail(inbox)
  /\ pc' = "parse"
  /\ UNCHANGED <<overrun, dump, registered, events, libnlVars, call, err, ex,
                 got, outcome, history>>

\* nl_recvmsgs fails (ENOBUFS): its result is not looked at.
ReadError ==
  /\ pc = "recv"
  /\ overrun
  /\ overrun' = FALSE
  /\ pc' = "test"
  /\ UNCHANGED <<inbox, dump, registered, events, libnlVars, call, buf, err, ex,
                 got, outcome, history>>

\* Variants, for the mutation runs: no check at all; a check in scans too.
NoSeqCheck == TRUE
SeqAlwaysChecked == buf.seq = seqExpect

\* no_seq_check replaces libnl's check when the caller asks for it.
SeqAccepted == call.op = "listen" \/ buf.seq = seqExpect

\* NLE_SEQ_MISMATCH: nl_recvmsgs drops the datagram and returns an error,
\* which is not looked at either.
RejectSequence ==
  /\ pc = "parse"
  /\ ~SeqAccepted
  /\ pc' = "test"
  /\ UNCHANGED <<kernelVars, libnlVars, call, buf, err, ex, got, outcome,
                 history>>

\* Variants: error_handler without the minus sign; finish_handler that leaves
\* err alone; error_handler treated as an acknowledgement.
VerdictUnnegated(type) == IF type = "error" THEN 2 ELSE 0
VerdictNoFinish(type)  == CASE type = "error" -> -1 [] type = "done" -> 1
                            [] OTHER -> 0
VerdictErrorIsAck(type) == 0

\* ack_handler, finish_handler (0) and error_handler (a negative code).
Verdict(type) == IF type = "error" THEN -1 ELSE 0

HandleFinal ==
  /\ pc = "parse"
  /\ SeqAccepted
  /\ buf.type \in Final
  /\ seqExpect' = seqExpect + 1
  /\ err' = Verdict(buf.type)
  /\ pc' = "test"
  /\ UNCHANGED <<kernelVars, seqNext, call, buf, ex, got, outcome, history>>

\* recv_messages() without a callback sets no valid handler.
HasCallback == call.op \notin {"act", "register"}

\* After a message: the rest of the datagram; then, in a dump, the next
\* datagram without going back to the loop's test.
Advance ==
  IF buf.first < buf.last
  THEN pc' = "parse" /\ buf' = [buf EXCEPT !.first = @ + 1]
  ELSE pc' = (IF buf.type = "part" THEN "recv" ELSE "test") /\ UNCHANGED buf

HandleIgnored ==
  /\ pc = "parse"
  /\ SeqAccepted
  /\ buf.type \in Handled
  /\ ~HasCallback
  /\ Advance
  /\ UNCHANGED <<kernelVars, libnlVars, call, err, ex, got, outcome, history>>

\* The callback is given the message.
HandOver ==
  /\ pc = "parse"
  /\ SeqAccepted
  /\ buf.type \in Handled
  /\ HasCallback
  /\ got' = Append(got, [seq |-> buf.seq, part |-> buf.first])
  /\ heard' = IF buf.type = "event" THEN heard \cup {buf.first} ELSE heard

\* It returns true: NL_OK.
HandleContinue ==
  /\ HandOver
  /\ Advance
  /\ UNCHANGED <<kernelVars, libnlVars, call, err, ex, outcome, promise,
                 failures, lost, missed, ackedAt>>

\* It returns false, which only a caller's scan callback does: NL_STOP.
HandleStop ==
  /\ call.op = "listen"
  /\ HandOver
  /\ err' = 0
  /\ pc' = "test"
  /\ UNCHANGED <<kernelVars, libnlVars, call, buf, ex, outcome, promise,
                 failures, lost, missed, ackedAt>>

\* It throws: the exception is kept, NL_STOP drops the rest of the datagram
\* and leaves the rest of the answer in the socket.
HandleThrow ==
  /\ HandOver
  /\ err' = -1
  /\ ex' = TRUE
  /\ pc' = "test"
  /\ failures' = IF call.op = "listen" THEN failures ELSE failures + 1
  /\ UNCHANGED <<kernelVars, libnlVars, call, buf, outcome, promise, lost,
                 missed, ackedAt>>

(* ---- the loop of recv_messages ------------------------------------------ *)

\* Variant: one nl_recvmsgs and no loop.
NoLoop == FALSE

MayLoop == err > 0

LoopAgain ==
  /\ pc = "test"
  /\ MayLoop
  /\ pc' = "recv"
  /\ UNCHANGED <<kernelVars, libnlVars, call, buf, err, ex, got, outcome,
                 history>>

\* Variant: the code of a negative err is not turned into an exception.
ResultIgnoresErr == IF ex THEN "threw" ELSE "ok"

\* The result: the exception first, then the error, then a normal return.
Result == IF ex THEN "threw" ELSE IF err < 0 THEN "error" ELSE "ok"

\* err <= 0, or, in a scan, the timeout has elapsed.
Return ==
  /\ pc = "test"
  /\ ~MayLoop \/ call.op = "listen"
  /\ pc' = "idle"
  /\ outcome' = Result
  /\ UNCHANGED <<kernelVars, libnlVars, call, buf, err, ex, got, history>>

-----------------------------------------------------------------------------
Send == SendAct \/ SendGet \/ SendDump \/ SendRefused \/ SendRegister
        \/ SendFails

Kernel == AckRegister \/ DumpEntries \/ DumpDone

Recv == \/ ReadDatagram \/ ReadError \/ RejectSequence \/ HandleFinal
        \/ HandleIgnored \/ HandleContinue \/ HandleStop \/ HandleThrow
        \/ LoopAgain \/ Return

Next == Send \/ Listen \/ FrameEvent \/ Kernel \/ Recv

Spec == Init /\ [][Next]_vars

\* The calling thread runs, and the kernel finishes the system call it is in;
\* nobody has to call, and no frame has to arrive.
Fairness == WF_vars(Recv) /\ WF_vars(Kernel)

FairSpec == Spec /\ Fairness

-----------------------------------------------------------------------------
(* Properties.                                                               *)

\* Every variable of the kernel, of libnl and of recv_messages keeps to its
\* range; in particular err is the 1, 0 or negative that the loop tests.
FlagTypes ==
  /\ overrun \in BOOLEAN
  /\ registered \in BOOLEAN
  /\ ex \in BOOLEAN
  /\ lost \in BOOLEAN

DataTypes ==
  /\ inbox \in Seq(Datagram)
  /\ dump \in [seq : Nat, next : Nat]
  /\ events \in Nat
  /\ seqNext \in Nat /\ seqExpect \in Nat
  /\ pc \in {"idle", "registering", "recv", "parse", "test"}
  /\ call \in [op : Commands \cup {"listen", "none"}, seq : Nat]
  /\ buf \in Datagram
  /\ err \in {-1, 0, 1}
  /\ got \in Seq([seq : Nat, part : Nat])
  /\ outcome \in {"none", "not_sent", "ok", "error", "threw"}
  /\ promise \in [granted : BOOLEAN, parts : Nat]
  /\ failures \in Nat
  /\ heard \in SUBSET Nat /\ missed \in SUBSET Nat
  /\ ackedAt \in Nat

TypeOK == FlagTypes /\ DataTypes

Requesting == pc # "idle" /\ call.op # "listen"

\* While no call has thrown half-way and no send has failed, what a command's
\* callback is given is that command's own answer, from its first entry on,
\* without a gap: parse_wiphy_message never fills a wiphy from the messages of
\* another request (commands.cpp:182-219), and never from a frame.
OwnAnswers ==
  failures = 0 /\ call.op # "listen" =>
    \A i \in 1 .. Len(got) : got[i] = [seq |-> call.seq, part |-> i]

\* While no call has thrown half-way and no send has failed, a call that is
\* back leaves the socket ready for the next: libnl expects the number it will
\* send, no dump is running and nothing but frames waits to be read.
ReadyForNext ==
  failures = 0 /\ pc = "idle" =>
    /\ seqExpect = seqNext
    /\ dump.seq = 0
    /\ \A i \in 1 .. Len(inbox) : inbox[i].type = "event"

\* A command that returns normally was granted and has given its caller every
\* entry the kernel produced for it; one that throws NlError was refused and
\* gave nothing (socket.cpp:80-81, 138-140).
CompleteAnswers ==
  failures = 0 /\ pc = "idle" /\ call.op \in Commands =>
    /\ outcome = "ok" => promise.granted /\ Len(got) = promise.parts
    /\ outcome = "error" => ~promise.granted /\ got = <<>>

\* A command whose closing message has not been handled.
Open == Requesting /\ err = 1

\* However often the socket is used again after failures, the number that libnl
\* expects is never ahead of those it has given out: it is that of the open
\* command or, for each request that was not sent and each answer that a throw
\* cut short, at most one further behind (socket.cpp:33-38, 101-105).
LagBounded ==
  LET open == IF Open THEN 1 ELSE 0
  IN  seqNext - seqExpect \in open .. failures + open

\* Whatever has failed on a socket, the entries that a command is given are a
\* run, without a gap, of one answer: the one libnl expects, its own or that of
\* an earlier command, and never parts of two.  A list may begin in the middle
\* of an old answer; what is made of two answers there is not
\* (socket.cpp:72, 97-105, commands.cpp:194-259).
Serving == IF err = 1 \/ ex THEN seqExpect ELSE seqExpect - 1
OneAnswer ==
  call.op \in Commands =>
    /\ Serving <= call.seq
    /\ \A i \in 1 .. Len(got) :
         got[i] = [seq |-> Serving, part |-> got[1].part + i - 1]

\* When registering for frames was the only request on the socket, as on the
\* scan's, a frame that arrives after the acknowledgement and fits in the
\* receive buffer waits for a listening call and is given to its callback;
\* those that overtake the acknowledgement are dropped by the sequence check
\* (streetpass.cpp:56-99).  If there was no room for the acknowledgement
\* itself the registering call does not come back and drops every frame.
Waiting == {inbox[i].first : i \in {j \in 1 .. Len(inbox) :
                                        inbox[j].type = "event"}}
FramesKept ==
  seqNext = 2 /\ registered /\ failures = 0 /\ ~lost /\ pc # "registering" =>
    \A e \in ackedAt + 1 .. events :
      \/ e \in heard \cup missed \cup Waiting
      \/ pc = "parse" /\ buf.type = "event" /\ buf.first = e

\* A command whose answer reaches the socket comes back, whatever frames
\* arrive meanwhile: the loop of recv_messages ends (socket.cpp:72, 124-130).
CallReturns ==
  Requesting ~> (pc = "idle" \/ failures > 0 \/ lost)

(* The commands see the socket as a channel that gives each of them its own  *)
(* answer: the mapping forgets datagrams, frames and sequence numbers.       *)
Broken == failures > 0
Asked ==
  CASE Broken \/ call.op \in {"listen", "none"} -> "none"
    [] ~Broken /\ call.op \in {"act", "register"} -> "act"
    [] ~Broken /\ call.op \in {"get", "dump"} -> call.op
Received == [i \in 1 .. Len(got) |->
               IF got[i].seq = call.seq THEN got[i].part ELSE 0]

Channel == INSTANCE CommandChannel WITH
  phase    <- IF Broken THEN "broken" ELSE IF Requesting THEN "busy"
              ELSE "idle",
  asked    <- Asked,
  granted  <- Asked # "none" /\ promise.granted,
  received <- IF Asked # "none" THEN Received ELSE <<>>,
  verdict  <- IF Asked # "none" /\ outcome \in {"ok", "error"} THEN outcome
              ELSE "none"

\* Every step of the socket is a step of the channel, or none.
ImplementsChannel == Channel!Spec
=============================================================================
