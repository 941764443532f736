----------------------------- MODULE MCCommands -----------------------------
(* A message serves as an interface's and as a radio's: with all that is     *)
(* needed, but no name; without an interface's index, of a radio that does   *)
(* not support everything; and with a radio's index cut short.               *)
EXTENDS Commands

Whole == [a \in Attributes \ {"IFNAME"} |->
            IF a \in {"IFINDEX", "WIPHY", "IFTYPE"} THEN 4 ELSE 6]

MCShapes ==
  {[len |-> Whole, caps |-> Requirements],
   [len |-> [a \in DOMAIN Whole \ {"IFINDEX"} |-> Whole[a]],
    caps |-> Requirements \ {"JOIN_IBSS"}],
   [len |-> [Whole EXCEPT !["WIPHY"] = 2], caps |-> Requirements]}
MCErrors == {-7}
=============================================================================
