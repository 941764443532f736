--------------------------- MODULE StreetpassScan ---------------------------
(* StreetpassInterface::scan_with_cb, the scans built on it and associate    *)
(* (src/iface/streetpass.cpp), down to the loop of Socket::recv_messages     *)
(* with its timeout: the calling thread, the frames that arrive, and the     *)
(* system clock, which can be set while a scan is running.  What happens     *)
(* between the registration and its ACK is the subject of NetlinkSocket.     *)
EXTENDS Integers, Sequences

CONSTANTS
  Peers,         \* hardware addresses heard
  Filters,       \* module filters sent in probe requests
  Matching,      \* those the caller's own filter matches
  Target,        \* the peer associate looks for
  None,          \* no entry
  Timeouts,      \* timeouts asked for, in ticks; 0 is "none"
  Word,          \* elapsed_ms wraps here (2^32 ms)
  MaxTicks,      \* bound: ticks a scan is watched for
  MaxFrames,     \* bound: frames that arrive
  Capacity       \* frames the socket's receive buffer holds

ASSUME ScanAssumption ==
  /\ Matching \subseteq Filters
  /\ Target \in Peers
  /\ None \notin Filters
  /\ Timeouts \subseteq Nat
  /\ Word \in Nat \ {0}
  /\ \A t \in Timeouts : t < Word
  /\ MaxTicks \in Nat /\ MaxFrames \in Nat /\ Capacity \in Nat \ {0}

VARIABLES
  pc,            \* "idle", "register", "recv", "handle", "test", "done"
  mode,          \* which entry point is running
  timeout,
  inbox,         \* frames in the scan socket's receive buffer
  overrun,       \* ENOBUFS is pending
  arrived,       \* frames that have arrived (bounded)
  frame,         \* the frame being handled
  err, ex,       \* recv_messages' err and captured exception
  results,       \* the map scan returns
  foundPeer,     \* associate's found_peer
  outcome,       \* how the entry point ended
  ticks,         \* time since recv_messages read `start`
  skew,          \* how far the system clock has been set since then
  accepted,      \* history: what the filter accepted, in order
  lastKind,      \* history: the kind of the last frame handled
  late,          \* history: frames handled after the timeout had elapsed
  stopped,       \* history: the caller's callback has returned false
  stepped        \* history: the clock was set, or elapsed_ms wrapped

callVars   == <<mode, timeout>>
socketVars == <<inbox, overrun, arrived>>
clockVars  == <<ticks, skew, stepped>>
resultVars == <<results, foundPeer, accepted>>
vars == <<pc, callVars, socketVars, frame, err, ex, resultVars, outcome,
          clockVars, lastKind, late, stopped>>

-----------------------------------------------------------------------------
(* What the handler distinguishes in a frame, in the order it looks: a       *)
(* message without a frame; a frame libtins rejects, as a whole or in its    *)
(* vendor element; a frame of somebody else, or whose vendor data does not   *)
(* start with 0x01; one whose module filter does not parse; a probe request. *)
Ignored == {"noframe", "foreign", "unmarked", "unparsable"}
Frame ==
  [kind : Ignored \cup {"malformed"}, peer : {None}, filter : {None}]
    \cup [kind : {"probe"}, peer : Peers, filter : Filters]
NoFrame == [kind |-> "noframe", peer |-> None, filter |-> None]

Collecting == {"all", "filter", "match", "associate"}
Modes == Collecting \cup {"callback"}

Init ==
  /\ pc = "idle" /\ mode = "all" /\ timeout = 0
  /\ inbox = <<>> /\ overrun = FALSE /\ arrived = 0
  /\ frame = NoFrame /\ err = 1 /\ ex = FALSE
  /\ results = [p \in Peers |-> None] /\ foundPeer = FALSE
  /\ outcome = "none"
  /\ ticks = 0 /\ skew = 0 /\ stepped = FALSE
  /\ accepted = <<>> /\ lastKind = "none" /\ late = 0 /\ stopped = FALSE

(* ---- entering ------------------------------------------------------------ *)

\* scan and associate return at once when the timeout is 0; scan_with_cb
\* takes it for "for ever".
EmptyScan(m, t) == t = 0 /\ m \in Collecting

Start ==
  /\ pc = "idle"
  /\ \E m \in Modes, t \in Timeouts :
       /\ mode' = m
       /\ timeout' = t
       /\ pc' = IF EmptyScan(m, t) THEN "done" ELSE "register"
       /\ outcome' = IF EmptyScan(m, t) THEN "returned" ELSE outcome
  /\ UNCHANGED <<socketVars, frame, err, ex, resultVars, clockVars, lastKind,
                 late, stopped>>

\* Opening the socket or registering for probe requests throws...
RegisterFails ==
  /\ pc = "register"
  /\ pc' = "done"
  /\ outcome' = "threw"
  /\ UNCHANGED <<callVars, socketVars, frame, err, ex, resultVars, clockVars,
                 lastKind, late, stopped>>

\* ... or the loop starts and reads the clock.
Register ==
  /\ pc = "register"
  /\ pc' = "recv"
  /\ UNCHANGED <<callVars, socketVars, frame, err, ex, resultVars, outcome,
                 clockVars, lastKind, late, stopped>>

(* ---- the world ----------------------------------------------------------- *)

Scanning == pc \in {"recv", "handle", "test"}

FrameArrives ==
  /\ Scanning
  /\ arrived < MaxFrames
  /\ arrived' = arrived + 1
  /\ IF Len(inbox) < Capacity
     THEN /\ \E f \in Frame : inbox' = Append(inbox, f)
          /\ UNCHANGED overrun
     ELSE overrun' = TRUE /\ UNCHANGED inbox
  /\ UNCHANGED <<pc, callVars, frame, err, ex, resultVars, outcome, clockVars,
                 lastKind, late, stopped>>

Tick ==
  /\ Scanning
  /\ ticks < MaxTicks
  /\ ticks' = ticks + 1
  /\ stepped' = (stepped \/ ticks' >= Word)
  /\ UNCHANGED <<pc, callVars, socketVars, frame, err, ex, resultVars,
                 outcome, skew, lastKind, late, stopped>>

\* system_clock is not steady: someone sets it, back or forth.
SetClock ==
  /\ Scanning
  /\ ~stepped
  /\ \E s \in {-1, 1} : skew' = s
  /\ stepped' = TRUE
  /\ UNCHANGED <<pc, callVars, socketVars, frame, err, ex, resultVars,
                 outcome, ticks, lastKind, late, stopped>>

(* ---- recv_messages -------------------------------------------------------- *)

Recv ==
  /\ pc = "recv"
  /\ ~overrun
  /\ inbox # <<>>
  /\ frame' = Head(inbox)
  /\ inbox' = Tail(inbox)
  /\ pc' = "handle"
  /\ UNCHANGED <<callVars, overrun, arrived, err, ex, resultVars, outcome,
                 clockVars, lastKind, late, stopped>>

\* nl_recvmsgs fails: the loop goes on to its test all the same.
RecvError ==
  /\ pc = "recv"
  /\ overrun
  /\ overrun' = FALSE
  /\ pc' = "test"
  /\ UNCHANGED <<callVars, inbox, arrived, frame, err, ex, resultVars, outcome,
                 clockVars, lastKind, late, stopped>>

\* The handler runs to its end and the loop goes to its test.
Handling ==
  /\ pc = "handle"
  /\ pc' = "test"
  /\ lastKind' = frame.kind
  /\ late' = IF timeout > 0 /\ ticks >= timeout THEN late + 1 ELSE late
  /\ UNCHANGED <<callVars, socketVars, frame, outcome, clockVars>>

\* Variant: a filter that does not parse reaches recv_messages too.
HandleIgnoredThrows ==
  /\ Handling
  /\ frame.kind \in Ignored
  /\ err' = IF frame.kind = "unparsable" THEN -1 ELSE err
  /\ ex' = (ex \/ frame.kind = "unparsable")
  /\ UNCHANGED <<resultVars, stopped>>

\* return true
HandleIgnored ==
  /\ Handling
  /\ frame.kind \in Ignored
  /\ UNCHANGED <<err, ex, resultVars, stopped>>

\* The frame's parsing is outside the handler's try blocks: the exception
\* reaches recv_messages.
HandleMalformed ==
  /\ Handling
  /\ frame.kind = "malformed"
  /\ err' = -1
  /\ ex' = TRUE
  /\ UNCHANGED <<resultVars, stopped>>

\* Variant: an assignment instead.
Assigned(p, f) == [results EXCEPT ![p] = f]

\* std::map::emplace: an entry that is there stays.
Emplaced(p, f) ==
  IF results[p] = None THEN [results EXCEPT ![p] = f] ELSE results

\* scan's callback keeps what the filter accepts and always returns true.
Collect(accepts) ==
  /\ IF accepts
     THEN /\ results' = Emplaced(frame.peer, frame.filter)
          /\ accepted' = Append(accepted, [peer |-> frame.peer,
                                           filter |-> frame.filter])
     ELSE UNCHANGED <<results, accepted>>
  /\ UNCHANGED <<err, ex, stopped>>

\* scan(timeout), scan(timeout, filter) and scan(timeout, module_filter).
HandleScan ==
  /\ Handling
  /\ frame.kind = "probe"
  /\ \/ mode = "all" /\ Collect(TRUE)
     \/ mode = "match" /\ Collect(frame.filter \in Matching)
     \/ mode = "filter" /\ \E a \in BOOLEAN : Collect(a)
  /\ UNCHANGED foundPeer

\* associate's is_peer accepts everybody but the peer it has found.
HandleAssociate ==
  /\ Handling
  /\ frame.kind = "probe"
  /\ mode = "associate"
  /\ foundPeer' = (foundPeer \/ frame.peer = Target)
  /\ Collect(frame.peer # Target)

\* Variant: err is given libnl's NL_STOP, which is 2.
HandleCallbackStopCode ==
  /\ Handling
  /\ frame.kind = "probe"
  /\ mode = "callback"
  /\ \E goOn \in BOOLEAN :
       /\ err' = IF goOn THEN err ELSE 2
       /\ stopped' = ~goOn
  /\ UNCHANGED <<ex, resultVars>>

\* scan_with_cb's caller decides; false stops the loop.
HandleCallback ==
  /\ Handling
  /\ frame.kind = "probe"
  /\ mode = "callback"
  /\ \E goOn \in BOOLEAN :
       /\ err' = IF goOn THEN err ELSE 0
       /\ stopped' = ~goOn
  /\ UNCHANGED <<ex, resultVars>>

\* Whatever the caller's filter or callback throws is swallowed.
HandleThrowing ==
  /\ Handling
  /\ frame.kind = "probe"
  /\ mode \in {"filter", "callback"}
  /\ UNCHANGED <<err, ex, resultVars, stopped>>

\* elapsed_ms is an unsigned 32-bit difference of system_clock readings.
Elapsed == (ticks + skew) % Word

\* Variants: no test of the time; no test of err; a time off by one.
GoOnUntilError == err > 0
GoOnUntilTimeout == Elapsed < timeout \/ timeout = 0
GoOnOneLess == err > 0 /\ (Elapsed + 1 < timeout \/ timeout = 0)

GoOn == err > 0 /\ (Elapsed < timeout \/ timeout = 0)

LoopAgain ==
  /\ pc = "test"
  /\ GoOn
  /\ pc' = "recv"
  /\ UNCHANGED <<callVars, socketVars, frame, err, ex, resultVars, outcome,
                 clockVars, lastKind, late, stopped>>

Return ==
  /\ pc = "test"
  /\ ~GoOn
  /\ pc' = "done"
  /\ outcome' = IF ex \/ err < 0 THEN "threw" ELSE "returned"
  /\ UNCHANGED <<callVars, socketVars, frame, err, ex, resultVars, clockVars,
                 lastKind, late, stopped>>

-----------------------------------------------------------------------------
Handle == HandleIgnored \/ HandleMalformed \/ HandleScan \/ HandleAssociate
          \/ HandleCallback \/ HandleThrowing

Library == Register \/ RegisterFails \/ Recv \/ RecvError \/ Handle
           \/ LoopAgain \/ Return

World == FrameArrives \/ Tick \/ SetClock

Next == Start \/ Library \/ World

Spec == Init /\ [][Next]_vars

\* The calling thread runs.  No frame has to arrive.
FairSpec == Spec /\ WF_vars(Library)

-----------------------------------------------------------------------------
(* Properties.                                                               *)

\* Every variable keeps to its range.
FlagTypes == overrun \in BOOLEAN /\ ex \in BOOLEAN /\ foundPeer \in BOOLEAN
             /\ stopped \in BOOLEAN /\ stepped \in BOOLEAN
DataTypes ==
  /\ pc \in {"idle", "register", "recv", "handle", "test", "done"}
  /\ mode \in Modes /\ timeout \in Timeouts \cup {0}
  /\ inbox \in Seq(Frame) /\ arrived \in Nat /\ frame \in Frame
  /\ err \in {-1, 0, 1}
  /\ results \in [Peers -> Filters \cup {None}]
  /\ outcome \in {"none", "returned", "threw"}
  /\ ticks \in Nat /\ skew \in Int
  /\ accepted \in Seq([peer : Peers, filter : Filters])
  /\ lastKind \in Ignored \cup {"malformed", "probe", "none"}
  /\ late \in Nat
TypeOK == FlagTypes /\ DataTypes

\* A scan returns exactly the peers of which the filter accepted a probe
\* request, each with the first filter it accepted, however many more that
\* peer sent (streetpass.cpp:109-114).
From(p) == {i \in 1 .. Len(accepted) : accepted[i].peer = p}
FirstAcceptedWins ==
  \A p \in Peers :
    /\ From(p) = {} => results[p] = None
    /\ From(p) # {} => \E i \in From(p) : /\ \A j \in From(p) : i <= j
                                        /\ results[p] = accepted[i].filter

\* Unless the registration failed, only a frame that libtins rejects makes a
\* scan throw, and lose its results; a filter that does not parse or a
\* callback that throws does not (streetpass.cpp:75-94).
ThrowsOnlyOnMalformed ==
  outcome = "threw" => IF lastKind = "none" THEN ~ex
                       ELSE lastKind = "malformed" /\ ex

\* On a steady clock at most one frame is handled after the timeout has
\* elapsed: the test follows each frame (socket.cpp:124-130).
OneLateFrame == ~stepped => late <= 1

\* A scan that returns normally and was not stopped by its callback has lasted
\* its timeout by the system clock, whoever set that meanwhile, unless it was
\* set back to before the start: a negative difference is a huge one.  With a
\* timeout of 0 only the scans that collect return, and have read nothing;
\* scan_with_cb goes on (socket.cpp:119-130, streetpass.cpp:107).
NotEarly ==
  outcome = "returned" /\ ~stopped =>
    IF timeout = 0 THEN mode \in Collecting /\ arrived = 0 /\ lastKind = "none"
                   ELSE ticks + skew \notin 0 .. timeout - 1

\* A callback that returned false is not called again, and no other frame is
\* taken from the socket (socket.cpp:97-100, streetpass.cpp:91).
StopIsFinal == [][stopped => stopped' /\ UNCHANGED <<frame, lastKind, late>>]_vars

\* A scan whose timeout has elapsed ends as soon as a frame is there to be
\* read: no stream of frames keeps it alive (and no silence ends it).
EndsWithNextFrame ==
  (Scanning /\ timeout > 0 /\ ticks >= timeout /\ inbox # <<>> /\ ~stepped)
    ~> (pc = "done" \/ stepped)
=============================================================================
