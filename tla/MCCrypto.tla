------------------------------ MODULE MCCrypto ------------------------------
(* Two consoles with the same filter key, and two with the same address.     *)
EXTENDS Crypto

MCPeers == {[key |-> "k1", mac |-> "m1"], [key |-> "k1", mac |-> "m2"],
            [key |-> "k2", mac |-> "m1"]}
=============================================================================
