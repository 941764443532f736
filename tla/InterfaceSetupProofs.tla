------------------------ MODULE InterfaceSetupProofs ------------------------
(* Theorems about the setup of the interface, for any interfaces, names and  *)
(* any bound on what other processes do meanwhile.                           *)
EXTENDS InterfaceSetup, TLAPS

-----------------------------------------------------------------------------
(* The inductive invariant.                                                  *)

Flagging == pc \in {"name", "get", "set"}

\* Where the setup stands: which calls are made for which interface.
Phase ==
  /\ outcome = "none" <=> pc # "done"
  /\ pc \notin {"check", "done"} => supported
  /\ pc \in {"check", "list", "next", "create"} => Own \notin there
  /\ pc \in {"check", "list", "next", "create", "query"} => op = "down"
  /\ pc = "mode" => op = "down_own"
  /\ pc = "join" => op \in {"is_up", "up"}
  /\ pc = "set" => op # "is_up"
  /\ todo \subseteq Others \ Foreign
  /\ op # "down" \/ pc \in {"create", "query"} => todo = {}
  /\ Flagging /\ op = "down" => cur \in Others \ Foreign /\ Own \notin there
  /\ op # "down" => cur = Own

\* Flags are asked for and written by name.  Among the interfaces that no one
\* else touches the name is that of the interface meant and of no other, and
\* the flags read are the ones it still has.
Holder ==
  /\ pc \in {"get", "set"} =>
       \A i \in there \ meddled : name[i] = ifName <=> i = cur
  /\ pc = "set" /\ cur \in there \ meddled => ifFlags = FlagsOf(cur)

\* What is up in the radio is still to be taken down.
RadioPending ==
  \A i \in up \ (meddled \cup Foreign \cup {Own}) :
    \/ pc \in {"check", "list"}
    \/ (pc = "next" \/ Flagging) /\ i \in todo
    \/ Flagging /\ op = "down" /\ i = cur
    \/ outcome = "threw"

Created ==
  \/ pc \in {"query", "mode", "join"}
  \/ Flagging /\ op # "down"
  \/ outcome = "ok"

\* How far the new interface has come.
OwnReady ==
  /\ Created \/ pc = "create" => open
  /\ Own \notin meddled =>
       /\ Created => Own \in there /\ name[Own] = Streetpass
       /\ Created /\ pc # "query" =>
            wMac # "none" /\ (wMac = mac \/ readdressed)
       /\ pc # "done" /\ op \in {"is_up", "up"} => Own \in adhoc
       /\ outcome = "ok" => /\ Own \in up \cap adhoc /\ joined
                            /\ bssid = mac \/ readdressed

SetupInv == TypeOK /\ Phase /\ Holder /\ RadioPending /\ OwnReady /\ Bystanders

-----------------------------------------------------------------------------
(* What other processes do.                                                  *)

\* They act on one interface, which is marked, or give the new one an address.
LEMMA WorldMeddles ==
  ASSUME TypeOK, World
  PROVE  SetAddress \/ \E i \in Ifaces : Meddle(i)
  BY DEF World, MeddleFlags, Rename, Plug, Unplug, TypeOK, KernelTypes, Ifaces

\* The others stay as they are, and so does the thread that runs the setup.
LEMMA WorldSpares ==
  ASSUME TypeOK, World, NEW k \in Ifaces, k \notin meddled'
  PROVE  /\ k \notin meddled
         /\ k \in there' <=> k \in there
         /\ name'[k] = name[k]
         /\ k \in up' <=> k \in up
         /\ k \in promisc' <=> k \in promisc
         /\ k \in adhoc' <=> k \in adhoc
         /\ k = Own => joined' = joined
         /\ \/ mac' = mac /\ readdressed' = readdressed
            \/ readdressed' = (wMac # "none")
  <1> USE DEF TypeOK, KernelTypes, addrVars, Meddle
  <1>1. CASE MeddleFlags
    BY <1>1 DEF MeddleFlags, SetFlags
  <1>2. CASE Rename
    BY <1>2 DEF Rename
  <1>3. CASE Plug
    BY <1>3 DEF Plug
  <1>4. CASE Unplug
    BY <1>4 DEF Unplug, Remove
  <1>5. CASE SetAddress
    BY <1>5 DEF SetAddress, kernelVars
  <1>6. QED
    BY <1>1, <1>2, <1>3, <1>4, <1>5 DEF World

LEMMA WorldLeavesTheCall ==
  ASSUME TypeOK, World
  PROVE  UNCHANGED <<open, supported, pc, callVars, outcome, before, wMac,
                     bssid>>
  BY DEF World, MeddleFlags, Rename, Plug, Unplug, SetAddress, Meddle, addrVars,
         kernelVars

\* The setup itself marks nothing, and remembers where everything was when it
\* took the list.
LEMMA LibraryMarksNothing ==
  ASSUME Library \/ OwnerGone
  PROVE  /\ supported' = supported
         /\ ListInterfaces \/ before' = before
  BY DEF Library, CheckSupported, ListInterfaces, NextInterface, AllDown,
         GetName, GetFlags, PutFlags, NewInterface, QueryInterface, SetMode,
         JoinIbss, Throws, OwnerGone

-----------------------------------------------------------------------------
(* Flags by name.                                                            *)

LEMMA FlagsAre ==
  ASSUME NEW k
  PROVE  /\ "UP" \in FlagsOf(k) <=> k \in up
         /\ "PROMISC" \in FlagsOf(k) <=> k \in promisc
  BY DEF FlagsOf

\* What goes by the name that was read reaches, of all the interfaces that no
\* one else touches, the one meant and no other.
LEMMA Target ==
  ASSUME TypeOK, Holder, pc \in {"get", "set"},
         NEW k \in there \ meddled, NEW i \in Called(ifName)
  PROVE  k = i <=> k = cur
  BY DEF TypeOK, KernelTypes, Holder, Called

\* So writing the flags changes IFF_UP of the one meant, and nothing else of
\* what no one else touches.
LEMMA PutFlagsSpares ==
  ASSUME TypeOK, Holder, PutFlags, NEW k \in there \ meddled
  PROVE  /\ k # cur => (k \in up' <=> k \in up)
         /\ k = cur => (k \in up' <=> op = "up")
         /\ k \in promisc' <=> k \in promisc
         /\ k = Own /\ (k # cur \/ op = "up") => joined' = joined
  <1>1. PICK i \in Called(ifName) : SetFlags(i, Wanted)
    BY DEF PutFlags
  <1>2. k = i <=> k = cur
    BY Target DEF PutFlags
  <1>3. k = cur => ("PROMISC" \in ifFlags <=> k \in promisc)
    BY FlagsAre DEF PutFlags, Holder
  <1>4. "UP" \in Wanted <=> op = "up"
    BY DEF Wanted
  <1>5. "PROMISC" \in Wanted <=> "PROMISC" \in ifFlags
    BY DEF Wanted
  <1>6. joined \in BOOLEAN
    BY DEF TypeOK, KernelTypes
  <1>7. QED
    BY <1>1, <1>2, <1>3, <1>4, <1>5, <1>6 DEF SetFlags

-----------------------------------------------------------------------------
(* Type correctness.                                                         *)

\* The kernel keeps names unique and its sets to what exists: an action that
\* names an interface finds the name free.
LEMMA KernelTypesStep ==
  ASSUME TypeOK, [Next]_vars
  PROVE  KernelTypes'
  <1> USE SetupAssumption DEF TypeOK, KernelTypes, Ifaces, kernelVars
  <1>1. CASE NewInterface
    BY <1>1 DEF NewInterface, Called
  <1>2. CASE PutFlags
    BY <1>2 DEF PutFlags, SetFlags, Called
  <1>3. CASE OwnerGone
    BY <1>3 DEF OwnerGone, Remove
  <1>4. CASE MeddleFlags
    BY <1>4 DEF MeddleFlags, SetFlags, Meddle
  <1>5. CASE Rename
    BY <1>5 DEF Rename, Called, Meddle
  <1>6. CASE Plug
    BY <1>6 DEF Plug, Called, Meddle
  <1>7. CASE Unplug
    BY <1>7 DEF Unplug, Remove, Meddle
  <1>8. CASE SetMode
    BY <1>8 DEF SetMode
  <1>9. CASE SetAddress
    BY <1>9 DEF SetAddress, Meddle
  <1>10. CASE \/ CheckSupported \/ ListInterfaces \/ NextInterface \/ AllDown
              \/ GetName \/ GetFlags \/ QueryInterface \/ JoinIbss \/ Throws
    BY <1>10 DEF CheckSupported, ListInterfaces, NextInterface, AllDown,
                 GetName, GetFlags, QueryInterface, JoinIbss, Throws
  <1>11. CASE UNCHANGED vars
    BY <1>11 DEF vars
  <1>12. QED
    BY <1>1, <1>2, <1>3, <1>4, <1>5, <1>6, <1>7, <1>8, <1>9, <1>10, <1>11
       DEF Next, Library, World

\* The list holds interfaces that are not the new one, which is not there yet.
LEMMA CallTypesStep ==
  ASSUME TypeOK, Phase, [Next]_vars
  PROVE  CallTypes'
  <1> USE SetupAssumption
      DEF TypeOK, KernelTypes, CallTypes, Ifaces, callVars, worldVars
  <1>1. CASE CheckSupported \/ AllDown
    BY <1>1 DEF CheckSupported, AllDown
  <1>11. CASE NextInterface
    BY <1>11 DEF NextInterface
  <1>12. CASE GetName
    BY <1>12 DEF GetName
  <1>2. CASE ListInterfaces
    BY <1>2 DEF ListInterfaces, OfRadio, Phase
  <1>3. CASE GetFlags
    BY <1>3 DEF GetFlags, FlagsOf
  <1>4. CASE PutFlags
    BY <1>4 DEF PutFlags, Phase
  <1>5. CASE NewInterface
    <2>1. pc' = "query" /\ UNCHANGED <<callVars, outcome, worldVars>>
      BY <1>5 DEF NewInterface
    <2>2. QED
      BY <2>1
  <1>6. CASE QueryInterface \/ SetMode
    BY <1>6 DEF QueryInterface, SetMode
  <1>7. CASE JoinIbss \/ Throws
    BY <1>7 DEF JoinIbss, Throws
  <1>8. CASE OwnerGone
    BY <1>8 DEF OwnerGone
  <1>9. CASE World
    <2>1. CASE SetAddress
      BY <2>1 DEF SetAddress
    <2>2. CASE \E i \in Ifaces : Meddle(i)
      <3>1. PICK i \in Ifaces : Meddle(i)
        BY <2>2
      <3>2. moves' \in 0 .. MaxMoves /\ meddled' \subseteq Ifaces
        BY <3>1 DEF Meddle
      <3>3. QED
        BY <3>1, <3>2 DEF Meddle
    <2>3. QED
      BY <1>9, <2>1, <2>2, WorldMeddles
  <1>10. CASE UNCHANGED vars
    BY <1>10 DEF vars
  <1>13. QED
    BY <1>1, <1>2, <1>3, <1>4, <1>5, <1>6, <1>7, <1>8, <1>9, <1>10, <1>11,
       <1>12
       DEF Next, Library

LEMMA AddressTypesStep ==
  ASSUME TypeOK, [Next]_vars
  PROVE  AddressTypes'
  <1> USE DEF TypeOK, AddressTypes, addrVars
  <1>1. CASE Library
    BY <1>1 DEF Library, CheckSupported, ListInterfaces, NextInterface,
                AllDown, GetName, GetFlags, PutFlags, NewInterface,
                QueryInterface, SetMode, JoinIbss, Throws
  <1>2. CASE World \/ OwnerGone
    BY <1>2 DEF World, OwnerGone, MeddleFlags, Rename, Plug, Unplug,
                SetAddress
  <1>3. QED
    BY <1>1, <1>2 DEF Next, vars

-----------------------------------------------------------------------------
(* Where the setup stands.                                                   *)

LEMMA AfterPut ==
  ASSUME TypeOK, Phase, PutFlags
  PROVE  /\ pc = "set"
         /\ \/ op = "down" /\ pc' = "next"
            \/ op = "down_own" /\ pc' = "mode"
            \/ op = "up" /\ pc' = "join"
         /\ there' = there /\ supported' = supported /\ outcome' = outcome
         /\ op' = op /\ todo' = todo /\ cur' = cur /\ ifName' = ifName
         /\ name' = name /\ adhoc' = adhoc /\ open' = open
         /\ meddled' = meddled
  <1>1. /\ pc = "set"
        /\ pc' = CASE op = "down" -> "next" [] op = "down_own" -> "mode"
                   [] op = "up" -> "join"
        /\ there' = there /\ supported' = supported /\ outcome' = outcome
        /\ op' = op /\ todo' = todo /\ cur' = cur /\ ifName' = ifName
        /\ name' = name /\ adhoc' = adhoc /\ open' = open
        /\ meddled' = meddled
    BY DEF PutFlags, callVars, worldVars
  <1>2. op \in {"down", "down_own", "up"}
    BY <1>1 DEF TypeOK, CallTypes, Phase
  <1>3. QED
    BY <1>1, <1>2

LEMMA PhaseStep ==
  ASSUME TypeOK, Phase, [Next]_vars
  PROVE  Phase'
  <1> USE SetupAssumption DEF Phase, Flagging, TypeOK, KernelTypes, CallTypes
  <1>1. CASE CheckSupported
    BY <1>1 DEF CheckSupported, kernelVars, callVars
  <1>2. CASE ListInterfaces
    BY <1>2 DEF ListInterfaces, kernelVars, OfRadio, Ifaces
  <1>3. CASE NextInterface
    BY <1>3 DEF NextInterface, kernelVars
  <1>4. CASE AllDown
    BY <1>4 DEF AllDown, callVars
  <1>5. CASE GetName
    BY <1>5 DEF GetName, kernelVars
  <1>6. CASE GetFlags
    BY <1>6 DEF GetFlags, kernelVars
  <1>7. CASE PutFlags
    BY <1>7, AfterPut
  <1>8. CASE NewInterface
    BY <1>8 DEF NewInterface, callVars
  <1>9. CASE QueryInterface
    BY <1>9 DEF QueryInterface, kernelVars
  <1>10. CASE SetMode
    BY <1>10 DEF SetMode
  <1>11. CASE JoinIbss
    BY <1>11 DEF JoinIbss, callVars
  <1>12. CASE Throws
    BY <1>12 DEF Throws, callVars
  <1>13. CASE OwnerGone
    BY <1>13 DEF OwnerGone, Remove, callVars
  <1>14. CASE World
    <2>1. Own \notin there => Own \notin there'
      BY <1>14, SetupAssumption
         DEF World, MeddleFlags, Rename, Plug, Unplug, SetAddress, Remove
    <2>2. QED
      BY <1>14, <2>1, WorldLeavesTheCall DEF callVars
  <1>15. CASE UNCHANGED vars
    BY <1>15 DEF vars, kernelVars, callVars
  <1>16. QED
    BY <1>1, <1>2, <1>3, <1>4, <1>5, <1>6, <1>7, <1>8, <1>9, <1>10, <1>11,
       <1>12, <1>13, <1>14, <1>15 DEF Next, Library

-----------------------------------------------------------------------------
(* The flags read, and whom they are written to.                             *)

LEMMA HolderStep ==
  ASSUME TypeOK, Phase, Holder, [Next]_vars
  PROVE  Holder'
  <1> USE DEF TypeOK, KernelTypes, Holder
  <1>1. ASSUME pc' \notin {"get", "set"}
        PROVE  Holder'
    BY <1>1
  <1>2. CASE \/ CheckSupported \/ ListInterfaces \/ NextInterface \/ AllDown
             \/ NewInterface \/ QueryInterface \/ SetMode \/ JoinIbss \/ Throws
    BY <1>1, <1>2 DEF CheckSupported, ListInterfaces, NextInterface, AllDown,
                      NewInterface, QueryInterface, SetMode, JoinIbss, Throws
  <1>3. CASE PutFlags
    BY <1>1, <1>3, AfterPut
  <1>4. CASE GetName
    BY <1>4 DEF GetName, kernelVars, worldVars
  <1>5. CASE GetFlags
    <2>1. PICK i \in Called(ifName) : ifFlags' = FlagsOf(i)
      BY <1>5 DEF GetFlags
    <2>2. pc = "get"
      BY <1>5 DEF GetFlags
    <2>3. cur \in there \ meddled => cur = i
      BY <2>1, <2>2, Target
    <2>4. /\ UNCHANGED <<there, name, up, promisc, meddled, cur, ifName>>
          /\ FlagsOf(cur)' = FlagsOf(cur)
      BY <1>5 DEF GetFlags, kernelVars, worldVars, FlagsOf
    <2>5. QED
      BY <2>1, <2>2, <2>3, <2>4
  <1>6. CASE OwnerGone
    <2>1. /\ UNCHANGED <<name, meddled, pc, cur, ifName, ifFlags>>
          /\ there' \subseteq there
      BY <1>6 DEF OwnerGone, Remove, callVars, worldVars
    <2>2. cur \in there' => FlagsOf(cur)' = FlagsOf(cur)
      BY <1>6 DEF OwnerGone, Remove, FlagsOf, callVars
    <2>3. QED
      BY <2>1, <2>2
  <1>7. CASE World
    <2>1. /\ UNCHANGED <<pc, cur, ifName, ifFlags>>
          /\ there' \subseteq Ifaces
      BY <1>7, WorldLeavesTheCall, KernelTypesStep DEF callVars
    <2>2. ASSUME NEW k \in (there \ meddled)'
          PROVE  /\ k \in there \ meddled /\ name'[k] = name[k]
                 /\ FlagsOf(k)' = FlagsOf(k)
      BY <1>7, <2>1, <2>2, WorldSpares DEF FlagsOf
    <2>3. FlagsOf(cur)' = (FlagsOf(cur))'
      OBVIOUS
    <2>4. pc' = "set" /\ cur' \in (there \ meddled)' => ifFlags' = FlagsOf(cur)'
      BY <2>1, <2>2
    <2>5. QED
      BY <2>1, <2>2, <2>4
  <1>8. CASE UNCHANGED vars
    <2>1. FlagsOf(cur)' = FlagsOf(cur)
      BY <1>8 DEF vars, kernelVars, callVars, FlagsOf
    <2>2. QED
      BY <1>8, <2>1 DEF vars, kernelVars, callVars, worldVars
  <1>9. QED
    BY <1>2, <1>3, <1>4, <1>5, <1>6, <1>7, <1>8 DEF Next, Library

-----------------------------------------------------------------------------
(* The radio.                                                                *)

LEMMA RadioPendingStep ==
  ASSUME TypeOK, Phase, Holder, RadioPending, [Next]_vars
  PROVE  RadioPending'
  <1> SUFFICES ASSUME NEW k \in (up \ (meddled \cup Foreign \cup {Own}))'
               PROVE  (\/ pc \in {"check", "list"}
                       \/ (pc = "next" \/ Flagging) /\ k \in todo
                       \/ Flagging /\ op = "down" /\ k = cur
                       \/ outcome = "threw")'
    BY DEF RadioPending
  <1> USE DEF TypeOK, KernelTypes, Flagging, Ifaces
  <1>1. ASSUME k \in up /\ k \notin meddled
        PROVE  \/ pc \in {"check", "list"}
               \/ (pc = "next" \/ Flagging) /\ k \in todo
               \/ Flagging /\ op = "down" /\ k = cur
               \/ outcome = "threw"
    BY <1>1 DEF RadioPending
  <1>2. CASE CheckSupported
    BY <1>1, <1>2 DEF CheckSupported, kernelVars, callVars, worldVars
  <1>3. CASE ListInterfaces
    <2>1. k \in there \cap OfRadio
      BY <1>3 DEF ListInterfaces, kernelVars, OfRadio
    <2>2. QED
      BY <1>3, <2>1 DEF ListInterfaces
  <1>4. CASE NextInterface
    BY <1>1, <1>4 DEF NextInterface, kernelVars, worldVars
  <1>5. CASE AllDown
    BY <1>1, <1>5 DEF AllDown, callVars, worldVars
  <1>6. CASE GetName
    BY <1>1, <1>6 DEF GetName, kernelVars, worldVars
  <1>7. CASE GetFlags
    BY <1>1, <1>7, SetupAssumption DEF GetFlags, kernelVars, worldVars, Phase
  <1>8. CASE PutFlags
    <2>1. k \in there \ meddled /\ k \in up' /\ k # Own
      BY <1>8, AfterPut, KernelTypesStep
    <2>2. k # cur
      BY <1>8, <2>1, PutFlagsSpares DEF Phase
    <2>3. k \in up
      BY <1>8, <2>1, <2>2, PutFlagsSpares
    <2>4. k \in todo
      BY <1>1, <1>8, <2>1, <2>2, <2>3, AfterPut DEF Phase
    <2>5. QED
      BY <1>8, <2>4, AfterPut DEF Phase
  <1>9. CASE NewInterface
    BY <1>1, <1>9 DEF NewInterface, callVars, worldVars
  <1>10. CASE QueryInterface
    BY <1>1, <1>10 DEF QueryInterface, kernelVars, worldVars
  <1>11. CASE SetMode
    BY <1>1, <1>11 DEF SetMode, worldVars
  <1>12. CASE JoinIbss
    BY <1>1, <1>12 DEF JoinIbss, callVars, worldVars, Phase
  <1>13. CASE Throws
    BY <1>13 DEF Throws
  <1>14. CASE OwnerGone
    BY <1>1, <1>14 DEF OwnerGone, Remove, callVars, worldVars
  <1>15. CASE World
    <2>1. k \in Ifaces /\ k \notin meddled'
      BY KernelTypesStep
    <2>2. k \in up /\ k \notin meddled
      BY <1>15, <2>1, WorldSpares
    <2>3. QED
      BY <1>1, <1>15, <2>2, WorldLeavesTheCall DEF callVars
  <1>16. CASE UNCHANGED vars
    BY <1>1, <1>16 DEF vars, kernelVars, callVars, worldVars
  <1>17. QED
    BY <1>2, <1>3, <1>4, <1>5, <1>6, <1>7, <1>8, <1>9, <1>10, <1>11, <1>12,
       <1>13, <1>14, <1>15, <1>16 DEF Next, Library

-----------------------------------------------------------------------------
(* The new interface.                                                        *)

LEMMA OwnReadyStep ==
  ASSUME TypeOK, Phase, Holder, OwnReady, [Next]_vars
  PROVE  OwnReady'
  <1> USE DEF OwnReady, Created, Flagging, Phase
  <1>1. CASE CheckSupported \/ ListInterfaces \/ NextInterface
    BY <1>1 DEF CheckSupported, ListInterfaces, NextInterface, callVars
  <1>2. CASE AllDown
    BY <1>2 DEF AllDown, callVars
  <1>3. CASE GetName
    BY <1>3 DEF GetName, kernelVars, addrVars, worldVars
  <1>4. CASE GetFlags
    BY <1>4 DEF GetFlags, kernelVars, addrVars, worldVars
  <1>5. CASE PutFlags
    <2>1. UNCHANGED <<mac, wMac, readdressed>>
      BY <1>5 DEF PutFlags, addrVars
    <2>2. QED
      BY <1>5, <2>1, AfterPut
  <1>6. CASE NewInterface
    <2>1. /\ pc = "create" /\ pc' = "query" /\ UNCHANGED <<open, op, outcome>>
          /\ Own \in there' /\ name'[Own] = Streetpass
      BY <1>6 DEF NewInterface, callVars, TypeOK, KernelTypes, Ifaces
    <2>2. open
      BY <1>6 DEF NewInterface
    <2>3. QED
      BY <2>1, <2>2
  <1>7. CASE QueryInterface
    BY <1>7 DEF QueryInterface, kernelVars, worldVars, TypeOK, AddressTypes
  <1>8. CASE SetMode
    BY <1>8 DEF SetMode, addrVars, worldVars
  <1>9. CASE JoinIbss
    BY <1>9 DEF JoinIbss, callVars, worldVars
  <1>10. CASE Throws
    BY <1>10 DEF Throws
  <1>11. CASE OwnerGone
    BY <1>11 DEF OwnerGone, callVars, TypeOK, CallTypes
  <1>12. CASE World
    <2>1. /\ UNCHANGED <<open, pc, op, outcome, wMac, bssid>>
          /\ Own \in Ifaces
      BY <1>12, WorldLeavesTheCall DEF callVars, Ifaces
    <2>2. ASSUME Own \notin meddled'
          PROVE  /\ Own \notin meddled /\ (Own \in there' <=> Own \in there)
                 /\ name'[Own] = name[Own] /\ (Own \in up' <=> Own \in up)
                 /\ Own \in adhoc' <=> Own \in adhoc
                 /\ joined' = joined
                 /\ \/ mac' = mac /\ readdressed' = readdressed
                    \/ readdressed' = (wMac # "none")
      BY <1>12, <2>1, <2>2, WorldSpares
    <2>3. QED
      BY <2>1, <2>2
  <1>13. CASE UNCHANGED vars
    BY <1>13 DEF vars, kernelVars, callVars, addrVars, worldVars
  <1>14. QED
    BY <1>1, <1>2, <1>3, <1>4, <1>5, <1>6, <1>7, <1>8, <1>9, <1>10, <1>11,
       <1>12, <1>13 DEF Next, Library

-----------------------------------------------------------------------------
(* The bystanders.                                                           *)

LEMMA BystandersStep ==
  ASSUME TypeOK, Phase, Holder, Bystanders, [Next]_vars
  PROVE  Bystanders'
  <1> USE DEF TypeOK, KernelTypes
  \* When the list is taken everything is where it is.
  <1>12. CASE ListInterfaces
    <2>1. /\ before' = [there |-> there, name |-> name, up |-> up,
                        promisc |-> promisc]
          /\ UNCHANGED <<there, name, up, promisc>>
      BY <1>12 DEF ListInterfaces, kernelVars
    <2>2. QED
      BY <2>1 DEF Bystanders, Same
  <1> SUFFICES ASSUME ~ListInterfaces
               PROVE  Bystanders'
    BY <1>12
  <1>1. UNCHANGED <<before, supported>>
    BY LibraryMarksNothing, WorldLeavesTheCall DEF Next, vars
  <1> SUFFICES ASSUME NEW k \in Others \ meddled'
               PROVE  /\ Same(k)'
                      /\ (k \in Foreign \/ ~supported) =>
                           (k \in up' <=> k \in before.up)
                      /\ k \in up' => k \in before.up
    BY <1>1 DEF Bystanders
  <1>2. k \in Ifaces /\ k # Own
    BY SetupAssumption DEF Ifaces
  <1>3. ASSUME k \notin meddled
        PROVE  /\ Same(k)
               /\ (k \in Foreign \/ ~supported) =>
                    (k \in up <=> k \in before.up)
               /\ k \in up => k \in before.up
    BY <1>3 DEF Bystanders
  <1>4. ASSUME k \notin meddled, k \in there' <=> k \in there,
               name'[k] = name[k], k \in promisc' <=> k \in promisc
        PROVE  Same(k)'
    BY <1>1, <1>3, <1>4 DEF Same
  <1>5. ASSUME k \notin meddled, k \in there' <=> k \in there,
               name'[k] = name[k], k \in promisc' <=> k \in promisc,
               k \in up' <=> k \in up
        PROVE  /\ Same(k)'
               /\ (k \in Foreign \/ ~supported) =>
                    (k \in up' <=> k \in before.up)
               /\ k \in up' => k \in before.up
    BY <1>1, <1>3, <1>4, <1>5
  <1>6. CASE PutFlags
    <2>1. k \notin meddled /\ there' = there /\ name' = name
      BY <1>6, AfterPut
    <2>2. CASE k \notin there
      <3>1. k \notin up' /\ k \notin promisc'
        BY <1>6, <2>1, <2>2, KernelTypesStep
      <3>2. k \notin up /\ k \notin promisc
        BY <2>2
      <3>3. QED
        BY <1>5, <2>1, <3>1, <3>2
    <2>3. CASE k \in there
      <3>1. k \in promisc' <=> k \in promisc
        BY <1>6, <2>1, <2>3, PutFlagsSpares
      <3>2. CASE k # cur
        BY <1>5, <1>6, <2>1, <2>3, <3>1, <3>2, PutFlagsSpares
      <3>3. CASE k = cur
        <4>1. op = "down" /\ supported /\ k \notin Foreign
          BY <1>2, <1>6, <3>3, AfterPut DEF Phase, Flagging
        <4>2. k \notin up'
          BY <1>6, <2>1, <2>3, <3>3, <4>1, PutFlagsSpares
        <4>3. QED
          BY <1>4, <2>1, <3>1, <4>1, <4>2
      <3>4. QED
        BY <3>2, <3>3
    <2>4. QED
      BY <2>2, <2>3
  <1>7. CASE NewInterface
    <2>1. /\ there' = there \cup {Own} /\ name' = [name EXCEPT ![Own] = Streetpass]
          /\ UNCHANGED <<up, promisc, meddled>>
      BY <1>7 DEF NewInterface, worldVars
    <2>2. QED
      BY <1>2, <1>5, <2>1
  <1>8. CASE OwnerGone
    BY <1>2, <1>5, <1>8 DEF OwnerGone, Remove, worldVars
  <1>9. CASE World
    BY <1>2, <1>5, <1>9, WorldSpares
  <1>10. CASE \/ CheckSupported \/ NextInterface \/ AllDown \/ GetName
              \/ GetFlags \/ QueryInterface \/ SetMode \/ JoinIbss \/ Throws
              \/ UNCHANGED vars
    <2>1. UNCHANGED <<there, name, up, promisc, meddled>>
      BY <1>10 DEF CheckSupported, NextInterface, AllDown, GetName, GetFlags,
                   QueryInterface, SetMode, JoinIbss, Throws, vars, kernelVars,
                   worldVars
    <2>2. QED
      BY <1>5, <2>1
  <1>11. QED
    BY <1>6, <1>7, <1>8, <1>9, <1>10 DEF Next, Library

-----------------------------------------------------------------------------
(* The theorems.                                                             *)

LEMMA InitSetupInv == Init => SetupInv
  <1> SUFFICES ASSUME Init PROVE SetupInv
    OBVIOUS
  <1> USE SetupAssumption DEF Init
  <1>1. TypeOK
    <2>1. KernelTypes
      BY DEF KernelTypes, Ifaces
    <2>2. CallTypes
      BY DEF CallTypes, Ifaces
    <2>3. AddressTypes
      BY DEF AddressTypes
    <2>4. QED
      BY <2>1, <2>2, <2>3 DEF TypeOK
  <1>2. Phase
    BY DEF Phase, Flagging
  <1>3. Holder /\ RadioPending
    BY DEF Holder, RadioPending
  <1>4. OwnReady
    BY DEF OwnReady, Created, Flagging
  <1>5. Bystanders
    BY DEF Bystanders, Same
  <1>6. QED
    BY <1>1, <1>2, <1>3, <1>4, <1>5 DEF SetupInv

\* Every step keeps the invariant.
LEMMA SetupInvStep == SetupInv /\ [Next]_vars => SetupInv'
  BY KernelTypesStep, CallTypesStep, AddressTypesStep, PhaseStep, HolderStep,
     RadioPendingStep, OwnReadyStep, BystandersStep DEF SetupInv, TypeOK

LEMMA SetupInvariant == Spec => []SetupInv
  BY InitSetupInv, SetupInvStep, PTL DEF Spec

\* TypeOK holds in every reachable state of a setup.
THEOREM SetupTypeCorrect == Spec => []TypeOK
  <1>1. SetupInv => TypeOK
    BY DEF SetupInv
  <1>2. QED
    BY <1>1, SetupInvariant, PTL

\* An interface that no other process has touched since the list was taken has
\* the name and the flags it had then, but for IFF_UP if it is of the radio, at
\* every moment of a setup and however it ends (Bystanders, physical.cpp:29-38).
THEOREM BystandersSpared == Spec => []Bystanders
  <1>1. SetupInv => Bystanders
    BY DEF SetupInv
  <1>2. QED
    BY <1>1, SetupInvariant, PTL

\* When a setup returns, all that is up of the radio is the new interface and
\* what other processes have touched since the list was taken (RadioIsFree,
\* physical.cpp:29-34).
THEOREM RadioFreed == Spec => []RadioIsFree
  <1>1. SetupInv => RadioIsFree
    <2> SUFFICES ASSUME SetupInv, outcome = "ok", NEW k \in up \cap OfRadio,
                        k \notin meddled \cup {Own}
                 PROVE  FALSE
      BY DEF RadioIsFree
    <2>1. pc = "done"
      BY DEF SetupInv, TypeOK, CallTypes, Phase
    <2>2. k \in up \ (meddled \cup Foreign \cup {Own})
      BY DEF OfRadio
    <2>3. QED
      BY <2>1, <2>2 DEF SetupInv, RadioPending, Flagging
  <1>2. QED
    BY <1>1, SetupInvariant, PTL

\* When a setup returns and no other process has touched its interface, that
\* one is up, ad hoc and in the IBSS, and its owner is open; the IBSS has its
\* address, unless that was set after get_interface (ReadyToScan,
\* streetpass.cpp:21-41).
THEOREM SetupReady == Spec => []ReadyToScan
  <1>1. SetupInv => ReadyToScan
    BY DEF SetupInv, OwnReady, ReadyToScan, Created
  <1>2. QED
    BY <1>1, SetupInvariant, PTL
=============================================================================
