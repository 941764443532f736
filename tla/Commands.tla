------------------------------ MODULE Commands ------------------------------
(* The commands that return something (src/nl80211/commands.cpp): a socket   *)
(* is opened, a request sent, and a handler turns the messages it is given   *)
(* into a wiphy, a wiface or a list of them, from which PhysicalInterface    *)
(* (src/iface/physical.cpp) makes its lists.  The socket is CommandChannel.  *)
(* The kernel keeps its devices in a list with the newest in front, fills a  *)
(* dump piece by piece and remembers between two pieces how many it has      *)
(* passed, while devices are plugged and unplugged.                          *)
EXTENDS Integers, FiniteSets, SequencesExt

CONSTANTS
  Shapes,       \* what messages look like: the lengths of the attributes that
                \* are there, and what a radio supports
  MaxInitial,   \* bound: devices at the start,
  MaxDevices,   \* there ever are,
  MaxRemoved,   \* and removed
  MaxParts,     \* bound: entries of one dump
  Errors        \* what libnl returns when it fails: negative numbers

Requirements == {"ADHOC", "NEW_INTERFACE", "NEW_KEY", "JOIN_IBSS", "FRAME",
                 "CCMP_128"}
Attributes == {"IFINDEX", "IFNAME", "WIPHY", "IFTYPE", "MAC", "WIPHY_NAME",
               "SUPPORTED"}
Devices == 1 .. MaxDevices

ASSUME CommandsAssumption ==
  /\ \A s \in Shapes : DOMAIN s.len \subseteq Attributes
                       /\ s.caps \subseteq Requirements
  /\ MaxInitial \in 0 .. MaxDevices /\ MaxRemoved \in Nat
  /\ MaxDevices \in Nat /\ MaxParts \in Nat /\ MaxParts >= MaxDevices
  /\ \A e \in Errors : e \in Int /\ e < 0

VARIABLES
  phase, asked, granted, received, verdict,   \* the channel
  devices,    \* the kernel's list of ids; a higher id is a newer device
  born,       \* ids given so far
  shape,      \* the message that describes each device
  at,         \* entries of the list that the dump has passed
  fetched,    \* entries the socket has, not yet handed over
  ended,      \* the kernel has ended its answer
  pc,         \* "socket", "request", "receive" or "done"
  call,       \* the function called
  result,     \* the structures filled, in order
  thrown,     \* what left the function: "none" or the exception
  code,       \* NlError's code
  stayed,     \* history: devices there from the request on,
  removed,    \* how many have gone since,
  added,      \* how many have come since the last piece of the dump,
  burst,      \* whether two or more ever came between two pieces,
  cut         \* and whether the kernel ended the dump early

Channel == INSTANCE CommandChannel

channelVars == <<phase, asked, granted, received, verdict>>
listVars == <<devices, born, shape>>
answerVars == <<at, fetched, ended>>
callVars == <<pc, call, result, thrown, code>>
history == <<stayed, removed, added, burst, cut>>
vars == <<channelVars, listVars, answerVars, callVars, history>>

Lists == {"find_all_virtual", "find_all", "find_all_supported"}
Singles == {"new_interface", "get_interface", "get_wiphy"}
OfRadios == {"find_all", "find_all_supported", "get_wiphy"}

-----------------------------------------------------------------------------
(* Messages and what is made of them.                                        *)

IndexAttr == IF call \in OfRadios THEN "WIPHY" ELSE "IFINDEX"

\* Attributes that parse_wiphy_message and parse_interface_message cannot do
\* without; a name that is missing is "unnamed".
Mandatory ==
  IF call \in OfRadios THEN {"WIPHY", "WIPHY_NAME", "SUPPORTED"}
                       ELSE {"IFINDEX", "WIPHY", "IFTYPE", "MAC"}

\* sizeof(T) of the fixed types; strings, vectors and nests have none.
MinLength(a) == IF a \in {"IFINDEX", "WIPHY", "IFTYPE"} THEN 4 ELSE 0

\* Attributes::get succeeds when the attribute is there, and long enough.
Has(d, a) == a \in DOMAIN shape[d].len /\ shape[d].len[a] >= MinLength(a)

\* struct wiphy w = {}, struct wiface w = {}; and without the braces.
Blank == [index |-> 0, caps |-> {}]
Uninitialized == [index |-> MaxDevices + 1, caps |-> {}]

\* The fields are overwritten, but the sets of what is supported grow.
Filled(w, d) == [index |-> d, caps |-> w.caps \cup shape[d].caps]

\* Variant: one structure for all messages of a list.
EntryReused(d) ==
  Filled(IF result = <<>> THEN Blank ELSE Last(result), d)

\* A structure of its own for each message of a list.
Entry(d) == Filled(Blank, d)

Supported(caps) == Requirements \subseteq caps

-----------------------------------------------------------------------------
Init ==
  /\ Channel!Init
  /\ born \in 0 .. MaxInitial /\ devices = [i \in 1 .. born |-> born + 1 - i]
  /\ shape \in [1 .. born -> Shapes]
  /\ at = 0 /\ fetched = <<>> /\ ended = FALSE
  /\ pc = "socket" /\ call \in Lists \cup Singles
  /\ result = <<>> /\ thrown = "none" /\ code = 0
  /\ stayed = {} /\ removed = 0 /\ added = 0 /\ burst = FALSE /\ cut = FALSE

NewDevice ==
  /\ born < MaxDevices
  /\ born' = born + 1
  /\ devices' = <<born'>> \o devices
  /\ \E s \in Shapes : shape' = Append(shape, s)

(* ---- the socket and the request -------------------------------------------- *)

\* Variant: the code as it was given.
RawCode(e) == e

\* NlError::code
Code(e) == IF e < 0 THEN -e ELSE e

\* An exception leaves the function, and what it had is lost.
Throw(what, e) ==
  /\ pc' = "done"
  /\ thrown' = what
  /\ code' = Code(e)
  /\ result' = <<>>
  /\ UNCHANGED call

OpenSocket ==
  /\ pc = "socket"
  /\ pc' = "request"
  /\ UNCHANGED <<channelVars, listVars, answerVars, call, result, thrown, code,
                 history>>

\* nl_socket_alloc, genl_connect or genl_ctrl_resolve fails; the last is
\* reported with the result of the one before it, which is 0.
SocketFails ==
  /\ pc = "socket"
  /\ \/ Throw("bad_alloc", 0)
     \/ \E e \in Errors : Throw("connect", e)
     \/ Throw("resolve", 0)
  /\ UNCHANGED <<channelVars, listVars, answerVars, history>>

RequestList ==
  /\ pc = "request"
  /\ call \in Lists
  /\ Channel!Ask /\ asked' = "dump"
  /\ pc' = "receive"
  /\ stayed' = ToSet(devices)
  /\ UNCHANGED <<listVars, answerVars, call, result, thrown, code, removed,
                 added, burst, cut>>

\* The kernel answers a request for one device at once, if at all.
RequestOne ==
  /\ pc = "request"
  /\ call \in {"get_interface", "get_wiphy"}
  /\ Channel!Ask /\ asked' = "get"
  /\ IF granted' THEN \E d \in ToSet(devices) : fetched' = <<d>>
                 ELSE UNCHANGED fetched
  /\ ended' = TRUE
  /\ pc' = "receive"
  /\ result' = <<Blank>>
  /\ UNCHANGED <<listVars, at, call, thrown, code, history>>

RequestNew ==
  /\ pc = "request"
  /\ call = "new_interface"
  /\ Channel!Ask /\ asked' = "get"
  /\ IF granted'
     THEN NewDevice /\ fetched' = <<born'>>
     ELSE UNCHANGED <<listVars, fetched>>
  /\ ended' = TRUE
  /\ pc' = "receive"
  /\ result' = <<Uninitialized>>
  /\ UNCHANGED <<at, call, thrown, code, history>>

RequestFails ==
  /\ pc = "request"
  /\ Channel!Break
  /\ \E e \in Errors : Throw("send", e)
  /\ UNCHANGED <<listVars, answerVars, history>>

(* ---- the kernel ------------------------------------------------------------ *)

\* What happens to the list before the request or after the dump is not seen.
Dumping == asked = "dump" /\ phase = "busy" /\ granted /\ ~ended

\* A piece of a dump: the entries behind those it has passed.
Fetch ==
  /\ Dumping
  /\ \E n \in at + 1 .. Len(devices) :
       /\ fetched' = fetched \o SubSeq(devices, at + 1, n)
       /\ at' = n
  /\ burst' = (burst \/ (at > 0 /\ added >= 2))
  /\ added' = 0
  /\ UNCHANGED <<channelVars, listVars, ended, callVars, stayed, removed, cut>>

\* The dump is complete, or breaks off with an error that the closing message
\* carries and finish_handler does not look at.
EndDump ==
  /\ Dumping
  /\ ended' = TRUE
  /\ cut' = (at < Len(devices))
  /\ UNCHANGED <<channelVars, listVars, at, fetched, callVars, stayed, removed,
                 added, burst>>

Plug ==
  /\ Dumping
  /\ NewDevice
  /\ added' = added + 1
  /\ UNCHANGED <<channelVars, answerVars, callVars, stayed, removed,
                 burst, cut>>

Unplug ==
  /\ Dumping
  /\ removed < MaxRemoved
  /\ \E i \in 1 .. Len(devices) :
       /\ devices' = RemoveAt(devices, i)
       /\ stayed' = stayed \ {devices[i]}
  /\ removed' = removed + 1
  /\ UNCHANGED <<channelVars, born, shape, answerVars, callVars, added, burst,
                 cut>>

(* ---- the handlers ----------------------------------------------------------- *)

Parses(d) == \A a \in Mandatory : Has(d, a)

\* Variants: duplicates are kept; what was listed before is not repeated,
\* judged by the radio, which all interfaces of a list have in common.
RepeatedNever(d) == FALSE
RepeatedRadio(d) == result # <<>> /\ Has(d, "WIPHY")

\* The last structure of the list has the same index.
Repeated(d) == result # <<>> /\ Last(result).index = d

\* Variant: parse_interface_message passes over what has no index, too.
SkippedByAll(d) == ~Has(d, IndexAttr) \/ Repeated(d)

\* resp_handler returns true without a structure.
Skipped(d) == call \in Lists /\ (~Has(d, IndexAttr) \/ Repeated(d))

\* One message is handed over and handled.
Handle ==
  /\ fetched # <<>>
  /\ Channel!HandOver
  /\ LET d == Head(fetched) IN
       /\ Skipped(d) \/ Parses(d)
       /\ result' = IF Skipped(d) THEN result
                    ELSE IF call \in Lists THEN Append(result, Entry(d))
                    ELSE <<Filled(Head(result), d)>>
  /\ fetched' = Tail(fetched)
  /\ UNCHANGED <<listVars, at, ended, pc, call, thrown, code, history>>

\* A mandatory attribute is missing or short: the exception ends the receive
\* call, which throws it again.
HandleThrows ==
  /\ fetched # <<>>
  /\ pc = "receive"
  /\ ~Skipped(Head(fetched)) /\ ~Parses(Head(fetched))
  /\ Channel!Break
  /\ Throw("invalid_argument", 0)
  /\ UNCHANGED <<listVars, answerVars, history>>

(* ---- the end ----------------------------------------------------------------- *)

\* remove_if !is_supported: what is left of the first n structures of r.
SupportedOf(r) ==
  LET left[n \in 0 .. Len(r)] ==
        IF n = 0 THEN <<>>
        ELSE IF Supported(r[n].caps) THEN Append(left[n - 1], r[n])
        ELSE left[n - 1]
  IN  left

Kept(r) == IF call # "find_all_supported" THEN r ELSE SupportedOf(r)[Len(r)]

Return ==
  /\ pc = "receive"
  /\ granted /\ ended /\ fetched = <<>>
  /\ Channel!Conclude
  /\ pc' = "done"
  /\ result' = Kept(result)
  /\ UNCHANGED <<listVars, answerVars, call, thrown, code, history>>

Refused ==
  /\ pc = "receive"
  /\ ~granted
  /\ Channel!Conclude
  /\ \E e \in Errors : Throw("receive", e)
  /\ UNCHANGED <<listVars, answerVars, history>>

-----------------------------------------------------------------------------
Library == OpenSocket \/ SocketFails
           \/ RequestList \/ RequestOne \/ RequestNew \/ RequestFails
           \/ Handle \/ HandleThrows \/ Return \/ Refused
Kernel == Fetch \/ EndDump

Next == Library \/ Kernel \/ Plug \/ Unplug

Spec == Init /\ [][Next]_vars

-----------------------------------------------------------------------------
(* Properties.                                                               *)

\* Every variable keeps to its range; in particular the code of an NlError is
\* never negative.
TypeOK ==
  /\ devices \in Seq(Devices) /\ born \in 0 .. MaxDevices
  /\ shape \in Seq(Shapes) /\ Len(shape) = born
  /\ at \in 0 .. MaxDevices /\ fetched \in Seq(Devices) /\ ended \in BOOLEAN
  /\ pc \in {"socket", "request", "receive", "done"}
  /\ call \in Lists \cup Singles
  /\ result \in Seq([index : 0 .. MaxDevices + 1, caps : SUBSET Requirements])
  /\ thrown \in {"none", "bad_alloc", "connect", "resolve", "send", "receive",
                 "invalid_argument"}
  /\ code \in Nat
  /\ stayed \subseteq Devices /\ removed \in Nat /\ added \in Nat
  /\ burst \in BOOLEAN /\ cut \in BOOLEAN

Returned == pc = "done" /\ thrown = "none"
Listed == {w.index : w \in ToSet(result)}

\* A list lacks, of the devices that were there all the time and that its
\* entries name, no more than were removed meanwhile, unless the kernel broke
\* the dump off: new devices make no old one disappear (commands.cpp:194-259;
\* physical.cpp:32 relies on the list to free the radio).
Expected == {d \in stayed : Has(d, IndexAttr)
               /\ (call = "find_all_supported" => Supported(shape[d].caps))}
MissingBounded ==
  Returned /\ call \in Lists /\ ~cut =>
    Cardinality(Expected \ Listed) <= removed

\* No device is listed twice unless two or more came between two pieces of the
\* dump: looking at the last structure is enough for one (commands.cpp:200,
\* 239).
NoRepeats ==
  Returned /\ ~burst => Cardinality(Listed) = Len(result)

\* A radio is in the list of those supported for what its own message says,
\* not for what another radio supports (physical.cpp:104-111).
OnlySupported ==
  Returned /\ call = "find_all_supported" =>
    \A d \in Listed : Supported(shape[d].caps)

\* Whatever a function returns has been described by the kernel: no structure
\* as it was before its message came, zero or uninitialized, gets out
\* (commands.cpp:168-171, 188-191, 227-230).
Described ==
  Returned => /\ Listed \subseteq 1 .. born
              /\ call \in Singles => Len(result) = 1

\* An NlError names an error: "Failed to resolve nl80211 family"
\* (socket.cpp:22) comes with the code of what failed.
ErrorsNamed ==
  thrown \in {"connect", "resolve", "send", "receive"} => code # 0
=============================================================================
