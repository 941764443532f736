--------------------------- MODULE InterfaceSetup ---------------------------
(* setup_streetpass_interface (src/iface/physical.cpp, virtual.cpp,          *)
(* streetpass.cpp, src/iface/ioctl.cpp): take every interface of the radio   *)
(* down, create one for Streetpass, bring it up and join the IBSS.  Every    *)
(* netlink command and every ioctl is a step, and other processes act on the *)
(* same interfaces between two of them.                                      *)
EXTENDS Naturals, FiniteSets

CONSTANTS
  Others,     \* interfaces that the library does not create,
  Own,        \* the one it creates
  Foreign,    \* those of Others that belong to another radio
  Names,      \* names of interfaces,
  Streetpass, \* the one that is asked for
  MaxMoves    \* bound: what other processes do meanwhile

Ifaces == Others \cup {Own}

ASSUME SetupAssumption ==
  /\ Own \notin Others /\ Foreign \subseteq Others
  /\ Streetpass \in Names
  /\ MaxMoves \in Nat

VARIABLES
  there,      \* the interfaces that exist
  name,       \* the name of each
  up,         \* those with IFF_UP,
  promisc,    \* and those with another flag
  adhoc,      \* those of type IFTYPE_ADHOC
  joined,     \* Own is in the IBSS
  open,       \* nlsock, the owner of Own, is open
  mac,        \* the address of Own,
  wMac,       \* the one that get_interface returned,
  bssid,      \* and the one that the IBSS is joined with
  supported,  \* what check_supported finds
  pc,         \* the next call
  op,         \* why flags are read: "down", "down_own", "is_up", "up"
  todo,       \* virt_list, what is left of it
  cur,        \* the interface whose flags are wanted
  ifName,     \* the name that get_name returned
  ifFlags,    \* the flags that SIOCGIFFLAGS returned
  outcome,    \* "none", "ok" or "threw"
  moves,      \* what other processes have done (bounded)
  meddled,    \* history: the interfaces they did it to since the list was
              \* taken, or since the start
  before,     \* history: where everything was then
  readdressed \* history: Own got another address after get_interface

kernelVars == <<there, name, up, promisc, adhoc, joined, open>>
callVars == <<op, todo, cur, ifName, ifFlags>>
worldVars == <<moves, meddled>>
addrVars == <<mac, wMac, bssid, readdressed>>
vars == <<kernelVars, addrVars, supported, pc, callVars, outcome, worldVars,
          before>>

OfRadio == Ifaces \ Foreign
Called(n) == {i \in there : name[i] = n}

Init ==
  /\ there \in SUBSET Others /\ up \in SUBSET there /\ promisc \in SUBSET there
  /\ name \in [Ifaces -> Names]
  /\ \A i, j \in there : name[i] = name[j] => i = j
  /\ \A i \in Ifaces \ there : name[i] = Streetpass
  /\ adhoc = {} /\ joined = FALSE /\ open = FALSE
  /\ mac = "given" /\ wMac = "none" /\ bssid = "none" /\ readdressed = FALSE
  /\ supported \in BOOLEAN
  /\ pc = "check" /\ op = "down" /\ todo = {} /\ cur = Own
  /\ ifName = Streetpass /\ ifFlags = {}
  /\ outcome = "none"
  /\ moves = 0 /\ meddled = {}
  /\ before = [there |-> there, name |-> name, up |-> up, promisc |-> promisc]

(* ---- the kernel ------------------------------------------------------------ *)

\* SIOCSIFFLAGS: the flags of i become fs, all of them.  An interface that
\* goes down leaves its IBSS.
SetFlags(i, fs) ==
  /\ up' = IF "UP" \in fs THEN up \cup {i} ELSE up \ {i}
  /\ promisc' = IF "PROMISC" \in fs THEN promisc \cup {i} ELSE promisc \ {i}
  /\ joined' = (joined /\ (i = Own => "UP" \in fs))

FlagsOf(i) ==
  (IF i \in up THEN {"UP"} ELSE {}) \cup (IF i \in promisc THEN {"PROMISC"} ELSE {})

Remove(i) ==
  /\ there' = there \ {i}
  /\ up' = up \ {i} /\ promisc' = promisc \ {i} /\ adhoc' = adhoc \ {i}
  /\ joined' = (joined /\ i # Own)
  /\ UNCHANGED name

\* NL80211_ATTR_SOCKET_OWNER: the interface goes when the socket is closed.
OwnerGone ==
  /\ ~open
  /\ Own \in there
  /\ Remove(Own)
  /\ UNCHANGED <<open, supported, pc, callVars, outcome, worldVars, addrVars,
                 before>>

(* ---- setup_streetpass_interface ------------------------------------------- *)

\* check_supported
CheckSupported ==
  /\ pc = "check"
  /\ supported
  /\ pc' = "list"
  /\ UNCHANGED <<kernelVars, supported, callVars, outcome, worldVars, addrVars,
                 before>>

\* find_all_virtual.  Nothing has been touched before.
ListInterfaces ==
  /\ pc = "list"
  /\ todo' = there \cap OfRadio
  /\ pc' = "next"
  /\ before' = [there |-> there, name |-> name, up |-> up, promisc |-> promisc]
  /\ meddled' = {}
  /\ UNCHANGED <<kernelVars, supported, op, cur, ifName, ifFlags, outcome,
                 moves, addrVars>>

\* for (auto virt : virt_list) virt.down(), in the order of the kernel's list
NextInterface ==
  /\ pc = "next"
  /\ \E i \in todo : todo' = todo \ {i} /\ cur' = i
  /\ op' = "down"
  /\ pc' = "name"
  /\ UNCHANGED <<kernelVars, supported, ifName, ifFlags, outcome, worldVars,
                 addrVars, before>>

AllDown ==
  /\ pc = "next"
  /\ todo = {}
  /\ pc' = "create"
  /\ open' = TRUE
  /\ UNCHANGED <<there, name, up, promisc, adhoc, joined, supported, callVars,
                 outcome, worldVars, addrVars, before>>

\* get_name, which is_up, up and down begin with: a command of its own.
GetName ==
  /\ pc = "name"
  /\ cur \in there
  /\ ifName' = name[cur]
  /\ pc' = "get"
  /\ UNCHANGED <<kernelVars, supported, op, todo, cur, ifFlags, outcome,
                 worldVars, addrVars, before>>

\* SIOCGIFFLAGS asks by name.
GetFlags ==
  /\ pc = "get"
  /\ \E i \in Called(ifName) :
       /\ ifFlags' = FlagsOf(i)
       /\ IF op = "is_up"
          THEN IF i \in up THEN pc' = "join" /\ UNCHANGED op
                           ELSE pc' = "name" /\ op' = "up"
          ELSE pc' = "set" /\ UNCHANGED op
  /\ UNCHANGED <<kernelVars, supported, todo, cur, ifName, outcome, worldVars,
                 addrVars, before>>

\* Variants: nothing but IFF_UP is written; IFF_UP is toggled.
WantedOnlyUp == IF op = "up" THEN {"UP"} ELSE {}
WantedToggled == IF "UP" \in ifFlags THEN ifFlags \ {"UP"}
                 ELSE ifFlags \cup {"UP"}

\* flags | IFF_UP, or flags & ~IFF_UP
Wanted == IF op = "up" THEN ifFlags \cup {"UP"} ELSE ifFlags \ {"UP"}

\* Variant: the flags go to the interface that was listed, there or not.
PutFlagsStale ==
  /\ pc = "set"
  /\ SetFlags(cur, Wanted)
  /\ pc' = CASE op = "down" -> "next" [] op = "down_own" -> "mode"
             [] op = "up" -> "join"
  /\ UNCHANGED <<there, name, adhoc, open, supported, callVars, outcome,
                 worldVars, addrVars, before>>

\* SIOCSIFFLAGS asks by name again.
PutFlags ==
  /\ pc = "set"
  /\ \E i \in Called(ifName) : SetFlags(i, Wanted)
  /\ pc' = CASE op = "down" -> "next" [] op = "down_own" -> "mode"
             [] op = "up" -> "join"
  /\ UNCHANGED <<there, name, adhoc, open, supported, callVars, outcome,
                 worldVars, addrVars, before>>

\* new_interface: the driver may give it another type than the one asked for.
NewInterface ==
  /\ pc = "create"
  /\ Own \notin there
  /\ Called(Streetpass) = {}
  /\ there' = there \cup {Own}
  /\ name' = [name EXCEPT ![Own] = Streetpass]
  /\ adhoc' \in {adhoc, adhoc \cup {Own}}
  /\ pc' = "query"
  /\ UNCHANGED <<up, promisc, joined, open, supported, callVars, outcome,
                 worldVars, addrVars, before>>

\* Variant: the structure of new_interface is not asked for again.
QueryKeepsOld ==
  /\ pc = "query"
  /\ Own \in there
  /\ cur' = Own
  /\ wMac' = "given"
  /\ op' = IF Own \in adhoc THEN "is_up" ELSE "down_own"
  /\ pc' = "name"
  /\ UNCHANGED <<kernelVars, supported, todo, ifName, ifFlags, outcome,
                 worldVars, mac, bssid, readdressed, before>>

\* get_interface, a second later: if the type is not the one that was asked
\* for, down() and set_interface_mode; then is_up().
QueryInterface ==
  /\ pc = "query"
  /\ Own \in there
  /\ cur' = Own
  /\ wMac' = mac
  /\ op' = IF Own \in adhoc THEN "is_up" ELSE "down_own"
  /\ pc' = "name"
  /\ UNCHANGED <<kernelVars, supported, todo, ifName, ifFlags, outcome,
                 worldVars, mac, bssid, readdressed, before>>

\* set_interface_mode, which the kernel refuses while the interface is up.
SetMode ==
  /\ pc = "mode"
  /\ Own \in there \ up
  /\ adhoc' = adhoc \cup {Own}
  /\ op' = "is_up"
  /\ pc' = "name"
  /\ UNCHANGED <<there, name, up, promisc, joined, open, supported, todo, cur,
                 ifName, ifFlags, outcome, worldVars, addrVars, before>>

\* join_ibss, which the kernel refuses while the interface is down.
JoinIbss ==
  /\ pc = "join"
  /\ Own \in there \cap up \cap adhoc
  /\ joined' = TRUE
  /\ bssid' = wMac
  /\ outcome' = "ok"
  /\ pc' = "done"
  /\ UNCHANGED <<there, name, up, promisc, adhoc, open, supported, callVars,
                 worldVars, mac, wMac, readdressed, before>>

\* Variant: the socket is not the interface's owner, or is not closed.
ThrowsUnowned ==
  /\ pc \notin {"next", "done"}
  /\ pc = "check" => ~supported
  /\ outcome' = "threw"
  /\ pc' = "done"
  /\ UNCHANGED <<kernelVars, supported, callVars, worldVars, addrVars, before>>

\* Any call may be refused, or find its interface gone: nothing is undone, but
\* nlsock is closed.
Throws ==
  /\ pc \notin {"next", "done"}
  /\ pc = "check" => ~supported
  /\ outcome' = "threw"
  /\ open' = FALSE
  /\ pc' = "done"
  /\ UNCHANGED <<there, name, up, promisc, adhoc, joined, supported, callVars,
                 worldVars, addrVars, before>>

(* ---- other processes ------------------------------------------------------ *)

Meddle(i) ==
  /\ moves < MaxMoves
  /\ moves' = moves + 1
  /\ meddled' = meddled \cup {i}
  /\ UNCHANGED <<open, supported, pc, callVars, outcome, before>>

MeddleFlags ==
  \E i \in there, fs \in SUBSET {"UP", "PROMISC"} :
    /\ SetFlags(i, fs)
    /\ Meddle(i)
    /\ UNCHANGED <<there, name, adhoc, addrVars>>

Rename ==
  \E i \in there, n \in Names :
    /\ Called(n) = {}
    /\ name' = [name EXCEPT ![i] = n]
    /\ Meddle(i)
    /\ UNCHANGED <<there, up, promisc, adhoc, joined, addrVars>>

Plug ==
  \E i \in Others \ there, n \in Names :
    /\ Called(n) = {}
    /\ there' = there \cup {i}
    /\ name' = [name EXCEPT ![i] = n]
    /\ Meddle(i)
    /\ UNCHANGED <<up, promisc, adhoc, joined, addrVars>>

Unplug ==
  \E i \in there : Remove(i) /\ Meddle(i) /\ UNCHANGED addrVars

\* SIOCSIFHWADDR: an interface gets another address only while it is down.
SetAddress ==
  /\ moves < MaxMoves
  /\ Own \in there \ up
  /\ mac' = "changed"
  /\ readdressed' = (wMac # "none")
  /\ moves' = moves + 1
  /\ UNCHANGED <<kernelVars, supported, pc, callVars, outcome, wMac, bssid,
                 meddled, before>>

-----------------------------------------------------------------------------
Library == CheckSupported \/ ListInterfaces \/ NextInterface \/ AllDown
           \/ GetName \/ GetFlags \/ PutFlags \/ NewInterface
           \/ QueryInterface \/ SetMode \/ JoinIbss \/ Throws

World == MeddleFlags \/ Rename \/ Plug \/ Unplug \/ SetAddress

Next == Library \/ OwnerGone \/ World

Spec == Init /\ [][Next]_vars

\* The calling thread runs and the kernel tidies up; other processes need not
\* do anything.
FairSpec == Spec /\ WF_vars(Library) /\ WF_vars(OwnerGone)

-----------------------------------------------------------------------------
(* Properties.                                                               *)

\* Each variable keeps to its range, names are unique, and what is up, set or
\* typed exists.
KernelTypes ==
  /\ there \subseteq Ifaces
  /\ up \subseteq there /\ promisc \subseteq there /\ adhoc \subseteq there
  /\ name \in [Ifaces -> Names]
  /\ \A i, j \in there : name[i] = name[j] => i = j
  /\ joined \in BOOLEAN /\ open \in BOOLEAN /\ supported \in BOOLEAN
CallTypes ==
  /\ pc \in {"check", "list", "next", "name", "get", "set", "create", "query",
             "mode", "join", "done"}
  /\ op \in {"down", "down_own", "is_up", "up"}
  /\ todo \subseteq Others /\ cur \in Ifaces
  /\ ifName \in Names /\ ifFlags \subseteq {"UP", "PROMISC"}
  /\ outcome \in {"none", "ok", "threw"}
  /\ moves \in 0 .. MaxMoves /\ meddled \subseteq Ifaces
AddressTypes ==
  /\ mac \in {"given", "changed"}
  /\ {wMac, bssid} \subseteq {"none", "given", "changed"}
  /\ readdressed \in BOOLEAN
TypeOK == KernelTypes /\ CallTypes /\ AddressTypes

\* An interface of others that no other process touches stays as it was when
\* the list of interfaces was taken, whatever happens to the rest and however
\* the setup ends, but for IFF_UP if it is one of this radio's; and a radio that
\* is not supported is not touched (physical.cpp:29-38).
Same(i) ==
  /\ i \in there <=> i \in before.there
  /\ i \in there => name[i] = before.name[i]
  /\ i \in promisc <=> i \in before.promisc
Bystanders ==
  \A i \in Others \ meddled :
    /\ Same(i)
    /\ (i \in Foreign \/ ~supported) => (i \in up <=> i \in before.up)
    /\ i \in up => i \in before.up

\* After a setup that succeeds no interface of the radio is up but the new one,
\* or one that another process has touched since the list was taken: what was
\* plugged, put up or renamed before has been taken down (physical.cpp:29-34).
RadioIsFree ==
  outcome = "ok" => up \cap OfRadio \subseteq meddled \cup {Own}

\* A setup that succeeds leaves its interface up, of ad-hoc type and in the
\* IBSS, and its owner open, unless another process has touched it.  The IBSS
\* has the interface's address, also if that was set during the first sleep: only
\* one that was set after get_interface is missed (streetpass.cpp:21-41).
ReadyToScan ==
  outcome = "ok" /\ Own \notin meddled =>
    /\ Own \in there \cap up \cap adhoc
    /\ joined /\ open /\ (bssid = mac \/ readdressed)
    /\ name[Own] = Streetpass

\* A setup comes to an end, and one that fails leaves no interface behind
\* (streetpass.cpp:24-25, the socket owner).
NothingLeftBehind ==
  <>[](outcome = "ok" \/ (outcome = "threw" /\ Own \notin there))
=============================================================================
