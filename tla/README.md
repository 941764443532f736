# libstreetpass in TLA+

libstreetpass lets a Linux machine take part in the 3DS's Streetpass: it sets
up an ad-hoc interface on a radio, listens for the probe requests that a 3DS
sends, and reads the *module filter* in each of them, which says for which
titles the console has data to exchange. This directory holds TLA+ models of
the library, TLC configurations that check them, and proofs that TLAPS checks.

Source paths are relative to the repository's root, `src/` here; `src/src` are
its `.cpp` files and `src/include` its headers.

## 1. The system

| Part | Source | State | Operations |
|---|---|---|---|
| Netlink socket | `src/src/nl80211/socket.cpp` | libnl's socket with its two sequence numbers; in a receive call `err` and the captured exception | `send_message`, `recv_messages()`, `recv_messages(callback, arg, disable_seq_check, timeout)` |
| Commands | `src/src/nl80211/commands.cpp` | none of their own: a socket, and the `wiphy`, `wiface` or vector that a handler fills | eleven commands, each one request and one receive call |
| Messages, attributes | `src/src/nl80211/message.cpp` | a message under construction; a map from attribute numbers into a received message | `put`, `get<T>`, `types` |
| Physical, virtual interfaces | `src/src/iface/physical.cpp`, `virtual.cpp`, `ioctl.cpp` | an index, the capabilities read at construction; everything else is asked of the kernel | `check_supported`, `find_all_virtual`, `setup_streetpass_interface`, `up`, `down`, `is_up`, `get_name` |
| Streetpass interface | `src/src/iface/streetpass.cpp` | the index and a socket that owns the interface | constructor, `scan_with_cb`, three `scan`s, `associate`, `make_initial_proberesp` |
| Module filter | `src/src/cec/module_filter.cpp`, `send_mode.cpp` | three lists of filters, each with flags and a length | setters, `byte_size`, `operator bytes`, `from_stream`, `match`, printing |
| Endian types | `src/include/cec/endian_types.hpp` | a value in the byte order it is sent in | conversion both ways |
| Crypto | `src/src/crypto/crypto.cpp` | two global keys | loading them, deriving a session key |
| Main program | `src/src/main.cpp` | none | set up interface 6, scan five seconds, print |

How they interact: `setup_streetpass_interface` and the `StreetpassInterface`
constructor call commands and ioctls one after the other; every command is a
request on a netlink socket followed by a receive call that installs handlers
into libnl and loops on `err`. A scan opens a socket of its own, registers for
probe requests and stays in a receive call, whose callback parses each frame
and hands its module filter to the caller's callback, or to `match`.

The library has no threads. What is concurrent is on the other side: the
kernel queues answers, dump entries and frames into the same socket, drops what
does not fit, other processes change the interfaces between two calls, the
clock is set. Failures are exceptions out of the callbacks, errors of receive
calls that nobody looks at, and sequences of calls that break off half-way.
The list of hazards is in `PROJECT.json`, each with its line and the properties
that would see it.

What makes each part correct:

- *socket*: a command gets its own answer, all of it, or an error; after a
  failed command, what the following ones get is still a piece of one answer; a call whose
  answer arrives ends.
- *scan*: it lasts its timeout and, but for one frame, no longer; it returns the
  peers accepted; only what the code lets through makes it throw.
- *setup*: it ends with an interface that can scan on a radio nobody else uses,
  or leaves nothing behind; it does no more to other interfaces than it says.
- *commands*: a list lacks and repeats no more than the kernel's own dump makes
  it; nothing that the kernel did not describe gets out; an error names itself.
- *filter codec*: what is encoded fits its buffers and is parsed back, on a
  machine of either byte order; what is damaged is not taken for something else.
- *keys*: each byte is that of the last load that reached it; two machines with
  the same keys agree on a session key.
- *matching*: the answer is that of comparing every pair.

## 2. The modules

| Module | Models | Run as | Proved in |
|---|---|---|---|
| `CommandChannel` | abstract: what a command may expect of a socket | property of `NetlinkSocket`, part of `Commands` | |
| `NetlinkSocket` | `socket.cpp`, the commands' use of it, libnl's `recvmsgs`, the kernel's answers | `NetlinkSocket.cfg` | `NetlinkSocketProofs`, `NetlinkAnswersProofs` |
| `Commands` | the commands that return something, with the attributes they parse; `find_all_virtual`, `find_all`, `find_all_supported` | `MCCommands`, `Commands.cfg`, `CommandsErrorCode.cfg` | `CommandsProofs` |
| `StreetpassScan` | the scans and `associate`, with the receive loop and its clock | `StreetpassScan.cfg`, `StreetpassScanLive.cfg` | `StreetpassScanProofs` |
| `FilterMatch` | `match` of every kind of filter | `MCFilterMatch`, `FilterMatch.cfg`, `FilterMatchReturns.cfg` | `FilterMatchProofs` |
| `EndianTypes` | integers and bit fields in the memory of a machine of either byte order | part of `ModuleFilter` | `ModuleFilterProofs` |
| `ModuleFilter` | building, encoding and parsing a filter | `MCModuleFilter`, `ModuleFilter.cfg`, `ModuleFilterRawLength.cfg` | `ModuleFilterProofs` |
| `InterfaceSetup` | `setup_streetpass_interface` down to the ioctls | `MCInterfaceSetup`, `InterfaceSetup.cfg`, `InterfaceSetupLive.cfg` | `InterfaceSetupProofs` |
| `Crypto` | the two keys, loading them, what a session key depends on | `MCCrypto`, `Crypto.cfg` | `CryptoProofs` |

`PROJECT.json` maps every definition that models code to its lines. Operators
marked as variants are plausible mistakes in the definition next to them; no
specification uses them, they show that a property can fail.

### NetlinkSocket and CommandChannel

`Send...` are the commands, by what they wait for: an acknowledgement (`act`,
`register`), one entry and an acknowledgement (`get`), a dump (`dump`). A request
takes a sequence number (`seqNext`) whether or not it can be sent (`SendFails`);
each acknowledgement, error or DONE advances the number expected (`seqExpect`).
The kernel's part is an `inbox` of bounded `Capacity`: what does not fit is lost
and reported as one receive error (`ReadError`), which the code ignores. A dump
comes in pieces of any size, each fetched by a receive (`DumpEntries`), and
`nl_recvmsgs` stays inside a multipart answer (`Advance`) without going back to
the loop's test. Frames come at any time once registered for (`FrameEvent`),
also between the registration and its acknowledgement. The handlers are
`HandleFinal` (acknowledgement, error, DONE), `HandleContinue`, `HandleStop` and
`HandleThrow` (the callback returned true, false, or threw). `LoopAgain` and
`Return` are the loops' ends; that a listening call may return at any test
stands for its timeout, which is `StreetpassScan`'s subject.

The answer's content is an entry's number within its dump, which is what tells
a complete answer from an incomplete or a foreign one. libnl and the kernel are
not under `src/`: they are modelled from how the code uses them and marked as
external.

`CommandChannel` knows neither sequence numbers nor datagrams: ask, be handed
entries 1, 2, ... of that answer, conclude with ok or error. `ImplementsChannel`
says that every behaviour of the socket is, through the mapping at the end of
`NetlinkSocket`, one of the channel, as long as nothing has failed; after a
failure the channel is `broken` and promises nothing, which is what the code
provides. Two properties hold even then. `LagBounded`: the number that libnl
expects is never ahead of the open command's, and behind it by at most the
failures (after a request that was not sent, the next command's answer is
rejected by the sequence check and its call waits). `OneAnswer`: the entries
that a command is given are consecutive ones of a single answer, which may be
the rest of an older one, as a list begun in the middle of a dump is.

### Commands

A function of the library that returns something asked of the kernel, from
opening the socket to its result: `new_interface`, `get_interface`, `get_wiphy`, and
the lists of interfaces and radios that `PhysicalInterface` makes. Its socket is
an instance of `CommandChannel`: what `NetlinkSocket` is shown to implement is all
that is used of it here, so that the two runs together speak of the whole path
from a request to its structure. `SocketFails` are the constructor's three
failures and `Code` is `NlError::code`.

The kernel keeps its devices in a list, the newest in front, and a dump in
pieces (`Fetch`) goes on behind the number of entries it has passed, while devices
are plugged (`Plug`) and unplugged (`Unplug`): it repeats what a new device has
moved back and passes over what a removed one has moved forward. `EndDump` may
come early, with an error that `finish_handler` does not look at. The handlers
are `Handle` and `HandleThrows`: a list's handler passes over a message without
an index or with that of its last structure (`Skipped`), the others parse what
they get; a mandatory attribute that is missing or shorter than its type throws
(`Parses`, `Has`), a missing name does not. Messages are a few `Shapes`: which
attributes are there, how long they are, and what the radio supports; nested
attributes are one. The index of a device stands for its content.

### StreetpassScan

One scan, from the call to its return. `mode` is the entry point; `Frame` what
the handler in `scan_with_cb` distinguishes, in the order in which it looks. A
timeout is a number of ticks; `Elapsed` is the difference of two readings of
`system_clock`, which others may set (`SetClock`), modulo `Word`, the 2^32 of
`unsigned int`. `NotEarly` is about the clock as it was set: forward it ends the
scan, back it prolongs it, and back to before the start it ends it at once. The filter given to `match` decides by a set (`Matching`): what
`match` itself does is `FilterMatch`'s subject.

### FilterMatch

One call of `ModuleFilter::match` on any two filters. Both loops of
`FilterList::match` run on `count()` and not on their index, so the inner one
leaves only by finding a match; what lies beyond the end of a list is read as
an element, and what follows is undefined. `Undefined` is that step: the call
returns anything or never returns (`lost`). The same holds for `std::equal` with
a `cmp_length` of more than the 16 bytes there are. `Found`, `NextOfTheirs` and
`NothingOfMine` are what is defined.

### ModuleFilter

A caller builds a filter (`SetRaw`, `SetTitles`, `SetKey`, `SetFlags`, with the
setters' limits; `Made` is the constructor of a raw filter, which refuses more
bytes than there is room for and leaves the rest to chance), sends it, the air leaves it alone, cuts it, extends it or
changes a byte (`Arrive`), and the parser reads it: `ReadHeader` and `ReadElement`
one list and one element at a time from the two streams of
`FilterList::from_stream`. What has been accepted may be sent on. Bytes are
numbers below `Nibble`^2, so that packing two fields in a byte, and their
limits, are those of the code at another size.

`EndianTypes` is the machine under it: an integer as the memory of a little- or
big-endian `host` holds it, `EndianType`'s conversion on the way in (`Stored`) and
out (`Loaded`), and two bit fields in the order they are declared (`BitFields`).
An integer is its bytes by repeated division (`Shifted`, `BigMemory`) and bytes an
integer by Horner's rule (`Values`, `Number`). The two layouts of each header that
`std::conditional` chooses from are `LowFirst` and `Packed`. `Sender` and `Receiver` have a byte order each; the run lets a
little-endian machine send to a big-endian one, so that only what both agree on
comes back.

### InterfaceSetup

Each netlink command and each ioctl is a step; between any two, other processes
set flags, rename, plug and unplug interfaces (`MaxMoves` times). `up`, `down` and
`is_up` ask for the name (`GetName`) and then use it, flags are read (`GetFlags`)
and written (`PutFlags`) by name. Every call may throw, and what has been done
stays done, but the socket that owns the new interface is closed with the object
that never came to be, and the kernel then removes the interface (`OwnerGone`).
`wMac` is the address that `get_interface` returned and `bssid` the one the IBSS is
joined with; in between the interface may be given another (`SetAddress`). The
list of interfaces is taken in one step here: what a list in pieces may lack is
`Commands`' subject. `before` is the state of the interfaces at that moment and
`meddled` those that other processes have touched since: the properties of other
interfaces are about the rest, and what was renamed, raised or plugged earlier
is no exception. `readdressed` is set by an address that comes after
`get_interface`, too late for `JoinIbss`.

### Crypto

Each process has its two global keys, zero at first, and loads them any number
of times (`LoadFile`, `LoadArray`); a load writes as many bytes as there are and as
the key holds (`Written`, `Sink`). Each byte is known by what was loaded and where.
`CcmpKey` is what `streetpass_ccmp_key` depends on: both keys and the block that is
hashed. HMAC and AES are Crypto++'s: what they compute is known by what they are
given, and nothing is said of different keys whose results may collide.

## 3. The runs

States are those of a run with two workers; each takes less than two minutes.

| Run | Instance | States | Shows |
|---|---|---|---|
| `netlink_socket` | 3 requests, 3 frames, dumps of up to 3, a buffer of 2 | 501 thousand | types; own, complete answers; frames are not lost to the sequence check; after failures the lag's two bounds, and never two answers in one; a call whose answer reaches the socket ends; `CommandChannel` is implemented |
| `commands` | up to 2 devices at first and 4 in all, 1 removed, 3 shapes of messages | 1.04 million | what a list may lack or repeat; nothing undescribed is returned; capabilities are a radio's own |
| `error_code` | the same | | finding 3: an error without a code |
| `streetpass_scan` | 2 peers, 2 filters, 3 frames, timeouts 0 and 2, 5 ticks, a word of 4 | 886 thousand | what a scan returns, throws and how long it takes |
| `scan_live` | 1 peer, 1 filter, 2 frames | 36 thousand | the frame after the timeout ends it |
| `filter_match` | lists of up to 2 titles and 2 raw filters on either side | 350 thousand | the answer is right where defined, and where it is not |
| `match_returns` | the same | | finding 1: `return false` is not reached |
| `module_filter` | fields of 5 values: up to 4 MVEs, lists of 24 bytes, up to 2 filters each; little-endian to big-endian | 1.09 million | encoding and parsing |
| `raw_length` | the same | | finding 2: lengths beyond 16 |
| `interface_setup` | 3 interfaces, one of another radio, 3 names, 2 moves | 1.11 million | others' interfaces, the radio, the result |
| `setup_live` | 2 interfaces, 1 move | 55 thousand | it ends; a failed one leaves nothing |
| `crypto` | 2 processes, 2 contents, keys of 2 and 3 bytes, files of 1, 2 and 4, 2 loads each | 27 thousand | what each byte of a key is; who agrees on a session key |

Why the bounds are enough. Sequence numbers are only compared, and a failure
shifts them by one: three requests allow a failure, the misattributed answer and
the one after it. A buffer of 2 and three frames let frames fill the buffer
before, after and instead of a registration's acknowledgement, which is lost then
(`FramesKept` speaks of sockets that have lost nothing); a dump of 3 entries can come whole, in pieces, and be broken off with
more to come. Two ticks of timeout, a word of 4 and 5 ticks give a scan before,
at and after its timeout, and after a wrap. In `match` one entry that fails and
one that is left to compare show all that loops can do, on either side. A list
of 24 bytes is exceeded by two titles of four MVEs and met by others. In the
setup two moves are what it takes to rename one interface and give its old name
to another. In a list, two devices at first are what it takes to pass over one
when the other goes, and two more, between two pieces, to repeat one that is no
longer next to itself; the shapes are a complete message, one without an
interface's index of a radio that cannot do everything, and one with a radio's
index cut short. Files are shorter than both keys, than one of them, and longer;
two loads are a long one and a short one over it. Deadlock is not checked: each of these programs comes to its end,
and a socket nobody calls or a scan in silence waits.

`SYMMETRY` in `interface_setup` exchanges interfaces of the same radio, and names
other than the new interface's; both are only compared for equality.

Fairness. The library is one thread that runs: weak fairness of its next step
(`Recv`, `Library`). The kernel finishes a dump that is asked for, acknowledges a
registration that it has made, and removes an interface whose owner is closed:
weak fairness again. Nobody has to call, no frame has to arrive, no process has
to interfere, and callbacks need not be fair. `CallReturns` therefore says
nothing of a call whose answer was dropped on a full buffer: the code waits for
ever there. For the same reason a scan in silence outlives its timeout, and
`EndsWithNextFrame` only promises an end when there is a frame to read.

## 4. What is proved

Every invariant, every action property and the refinement that the passing runs
check on a small instance is a theorem of the specification: it holds for every
value of the constants that the named assumptions allow, without a bound on
buffers, requests, frames, devices, interfaces, lists or loads. What stays with
TLC alone is liveness.

The assumptions are about the constants only: `BoundsAssumption` (bounds are
numbers, a buffer holds something), `ScanAssumption` (timeouts fit the clock's
word), `SetupAssumption` (the interface to be made is none of those that exist,
its name is a name), `CommandsAssumption` (error codes are negative, as libnl's are;
a bound on pieces that does not fall short of the devices), `FilterAssumption`,
`ModuleFilterAssumption` (fields have their types, a send mode fits half a byte, a
key the length byte of its list) and `CryptoAssumption` (keys have a size).

- `NetlinkSocketProofs`: `SocketTypeCorrect`; `SocketLagBounded`, from `LagInv`: the
  number expected is behind the number to be sent by at most the failures, plus
  one while a request is under way *and* `err` is still 1. That refinement is
  needed because the number expected advances when the closing message is
  handled, some steps before the call returns; with it goes that `err` is 1
  wherever the call still reads. For its other half, that the number expected is not ahead, `AheadInv` gives each
  closing message that is queued or still to be sent a number of its own, in
  order, between the one expected and the one to be given out (`Numbered`): there
  are never more of them than numbers left. `SocketReadyForNext`, from `SessionInv`, which
  describes a session without failure completely: while a call waits, everything
  in the buffer but frames carries its number, nothing but frames follows a
  closing message, and no dump is still running behind one; while none waits,
  there are only frames and the two numbers agree.
- `NetlinkAnswersProofs`: `SocketOwnAnswers`, `SocketCompleteAnswers` and
  `SocketImplementsChannel`, from `SocketInv`. To `SessionInv` it adds `AnswerInv`,
  which says where the entries of an answer are: what the callback has been
  given, what is in hand, what is queued and what the kernel has still to send
  follow each other without a gap (`AnswerInOrder`), and a closing message says
  what the kernel has decided (`Truthful`). Each of the properties alone is lost by
  the next message; the refinement needs them at every step, since a channel
  concludes only when it has given everything. `SocketFramesKept`, from `FramesInv`:
  until the acknowledgement is handled the frames after it are behind it in the
  buffer, where the sequence check cannot reach them. `SocketOneAnswer`, from
  `OneInv`, without any condition on failures: the messages of one answer in the
  buffer each follow on from one before them, and so does what a dump in progress
  sends next (`Chain`, `ChainEnd`); what a command has been given ends where the
  first of its answer's still to be read begins (`Follows`).
- `CommandsProofs`: `CommandsTypeCorrect`, `CommandsMissingBounded`,
  `CommandsNoRepeats`, `CommandsOnlySupported`, `CommandsDescribed`, from
  `CommandsInv`. `MissingInv` bounds, *while* the dump goes on, the devices that it
  has passed over without sending them: each is paid for by one that was removed
  in front of it. `OrderInv` is why comparing with the last structure is enough
  while devices come one at a time: what is listed and fetched goes from newer to
  older, and only the device at the dump's place can come again. `EntriesInv` says
  that each structure holds what its own message said.
- `StreetpassScanProofs`: `ScanTypeCorrect`; from `EndInv` the theorems
  `ScanOneLateFrame`, `ScanNotEarly` and `ScanThrowsOnlyOnMalformed`. Its parts are
  `LoopInv`, what `err` and `ex` say of how the loop came to stop, and `ClockInv`,
  that on a steady clock which has not wrapped a frame handled late is followed
  by a test that fails. `ScanFirstAcceptedWins` is inductive together with the
  types. `ScanStopIsFinal`, an action property, from `StopInv`: once a callback has
  returned false only the test is left, and `err` does not pass it.
- `InterfaceSetupProofs`: `SetupTypeCorrect`, `BystandersSpared`, `RadioFreed` and
  `SetupReady`, from `SetupInv`. `Holder` says whose name the call in progress has
  in its hands unless somebody renamed since the list, `RadioPending` that an interface
  still up on the radio is still in the list to be taken down, and `OwnReady` what
  the steps of the constructor have made so far. The properties are about the
  end; these say at each step what is left to do.
- `ModuleFilterProofs`: from `FilterInv` the theorems `FilterTypeCorrect`,
  `FilterEncodingFits`, `FilterStreamsInStep` and `FilterAllAccounted`. Its parts for
  the parser: the lengths read are those of what has been parsed and of what is
  pending in the list's stream (`HeardMeasured`), the place in the element is the
  sum of what the lists found have taken (`Accounted`), what is left is its end
  (`TailOfWire`), and the list's stream the front of that (`InStep`). `FilterRoundTrip` and
  `FilterTruncatedRejected` come from `PassInv`: what arrives uncut or cut is the
  beginning of what was sent, and so far the parser has made of it exactly the
  filters that were sent (`OnTheWire`, `InOrder`, `Copied`, `Copying`); a parsed
  element is the one that was written because `Memory` and `Number` undo each other
  at every width and byte order (`StoredBytes`, `LoadedWord`, `ElementParsed`).
  `SameEncoding` says that the bytes do not depend on who writes them.
- `FilterMatchProofs`: `MatchesSymmetric`, that neither side of a comparison has an
  advantage, from one lemma for each kind of entry; and from the loop invariant
  `Loops` (what has been compared has failed, and the outer index has not moved
  while nothing was undefined) `MatchTypeCorrect`, `MatchRightWhenDefined` and `MatchUndefinedOnlyThen`.
- `CryptoProofs`: `CryptoTypeCorrect`; `CryptoLayered`, whose step says how the loads
  that reach a byte change when there is one more (`ReachedAppend`); from both
  `CryptoAgreeOnceLoaded`: a key last loaded whole is that load (`WholeKey`).

Each proof has the same course: the invariant holds initially, every action
preserves it (one step per action), and it implies the property; types are split
into flags and data, since the provers treat Booleans differently.

What the codec computes for lists and integers of every length is induction over
data, and the library's induction theorems cannot be applied: they take an
operator as a parameter. `ModuleFilterProofs` therefore argues by the least
counterexample: the set of numbers at which a recursive function is not what it
should be has a least element (`WFMin` and `NatLessThanWellFounded`, which are about
sets), and at that element the function's own equation gives a contradiction.
`Induction`, `InductionUpTo` and `Iteration` state that once; the definitions of
`EndianTypes` and `ElementsSize` are recursive functions for that reason.

Only model-checked: the liveness properties `CallReturns`, `EndsWithNextFrame` and
`NothingLeftBehind`, which the prover cannot treat, and the three findings, which
are counterexamples.

## 5. Findings

1. `FilterList::match` (`src/src/cec/module_filter.cpp:467-472`). The `return false`
   at the end is reached only when our own list is empty. With a list that is
   not empty and has no match for what was heard, the loops run off the end of
   a vector or, if nothing was heard, for ever; `scan(timeout, module_filter)`
   makes this comparison for every peer. `match_returns` shows it;
   `MatchUndefinedOnlyThen` says that otherwise only a raw filter's length (2) can
   make the behaviour undefined.
2. `RawBytesFilter::from_stream` (`src/src/cec/module_filter.cpp:135-142`). A raw
   filter is 17 bytes on the air, `cmp_length` and 16 raw bytes; all of them are
   copied and `cmp_length` is looked at nowhere, so that an accepted filter may have
   up to 255. `match` (163-167) compares two filters of the same length over that
   many bytes of the array. "raw bytes filter length cannot exceed 16 bytes" (154)
   is tested of the bytes a caller gives to the setter, not of what is heard.
   `raw_length` shows an accepted filter with a larger length.
3. `Socket::Socket` (`src/src/nl80211/socket.cpp:20-23`). "Failed to resolve nl80211
   family" is thrown with `res`, the 0 of the successful connect, instead of the
   negative `m_driver_id`: `code()` is 0 and `what()` is the text for success.
   `error_code` shows it.

Other things a reader of the models will meet: `associate` does not end at the
peer it looks for, since its callback's false is taken by `scan` as "not
accepted"; a malformed frame ends a scan with an exception and the results are
lost; frames between a registration and its acknowledgement are dropped; a
rename between `get_name` and the ioctls sends flags to another interface.

A list of interfaces from which one goes away while it is dumped may lack
another one, which then stays up on the radio (`MissingBounded` allows one for
each that went); two that come between two pieces of the dump make it repeat one
(`NoRepeats` excludes only that). A session key is made of keys that were never
loaded, without a word, and a file that is too short is loaded as far as it goes.

## 6. Not modelled, and the plan

Not modelled: printing (layout only), the main program, the build, libtins and
Crypto++; the queries of interfaces that change nothing (`get_mac_addr`, addresses
and indices by ioctl); how a request's attributes are put in a message, which
only the kernel reads; the content of bands and other nested attributes, which
nothing in the library uses; the text of exceptions. The address in a message is
taken to have the six bytes the kernel gives it, which
`parse_interface_message` copies without looking.

The order of the work, most important first; all but the last is done:

1. Sockets and scans, the two receive loops on which everything rests; the
   abstract channel of commands.
2. Filters: matching with its proofs, the codec; the interface setup.
3. `Commands` on the abstract channel, with attributes that are missing or short
   and dumps of a list that changes.
4. `EndianTypes` under the codec; `Crypto` and its proofs.
5. Proofs of every safety property and of the refinement, for any values of the
   constants.
6. A composition of setup and scan: the commands of the setup on the socket that
   owns the interface, the scan on its own. What it would add is that a scan runs
   on an interface that is ready; `SetupReady` ends where it would begin.
