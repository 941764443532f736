-------------------------- MODULE MCInterfaceSetup --------------------------
(* Two interfaces of the radio, one of another; names and the radio's own    *)
(* interfaces are interchangeable.                                           *)
EXTENDS InterfaceSetup, TLC

CONSTANTS a, b, c, n1, n2

Interchangeable == Permutations({a, b}) \cup Permutations({n1, n2})
=============================================================================
