--------------------------- MODULE CommandChannel ---------------------------
(* What nl80211::Socket promises to the commands of commands.cpp, without    *)
(* datagrams, sequence numbers or buffers: one command at a time is asked,   *)
(* the kernel grants or refuses it, a granted command hands its entries to   *)
(* the caller in the order the kernel produced them, each once, and the      *)
(* command then ends with the kernel's verdict.  Once a call has thrown in   *)
(* the middle of an answer, or a request could not be sent, nothing is       *)
(* promised about the socket any more.                                       *)
EXTENDS Naturals, Sequences

CONSTANT MaxParts      \* bound on the entries of one dump

VARIABLES phase,       \* "idle", "busy" or "broken"
          asked,       \* what the command expects: "act", "get" or "dump"
          granted,     \* whether the kernel carries the command out
          received,    \* the entries handed to the caller, in order
          verdict      \* how the last command ended

channelVars == <<phase, asked, granted, received, verdict>>

Init ==
  /\ phase = "idle"
  /\ asked = "none"
  /\ granted = FALSE
  /\ received = <<>>
  /\ verdict = "none"

Ask ==
  /\ phase = "idle"
  /\ phase' = "busy"
  /\ asked' \in {"act", "get", "dump"}
  /\ granted' \in BOOLEAN
  /\ received' = <<>>
  /\ verdict' = "none"

\* Entries are numbered from 1 by the kernel: none is skipped, repeated or
\* swapped.  A refused command and one without an answer hand over nothing.
HandOver ==
  /\ phase = "busy"
  /\ granted
  /\ Len(received) < (CASE asked = "act" -> 0 [] asked = "get" -> 1
                        [] asked = "dump" -> MaxParts)
  /\ received' = Append(received, Len(received) + 1)
  /\ UNCHANGED <<phase, asked, granted, verdict>>

\* The caller learns what the kernel decided, and a "get" that succeeds has
\* been given its one answer.
Conclude ==
  /\ phase = "busy"
  /\ granted /\ asked = "get" => Len(received) = 1
  /\ phase' = "idle"
  /\ verdict' = IF granted THEN "ok" ELSE "error"
  /\ UNCHANGED <<asked, granted, received>>

\* The caller turns to something else on the socket: it listens for frames.
Forget ==
  /\ phase = "idle"
  /\ asked' = "none"
  /\ granted' = FALSE
  /\ received' = <<>>
  /\ verdict' = "none"
  /\ UNCHANGED phase

Break ==
  /\ phase # "broken"
  /\ phase' = "broken"
  /\ asked' = "none"
  /\ granted' = FALSE
  /\ received' = <<>>
  /\ verdict' = "none"

Next == Ask \/ HandOver \/ Conclude \/ Forget \/ Break

Spec == Init /\ [][Next]_channelVars
=============================================================================
