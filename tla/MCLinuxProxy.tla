---------------------------- MODULE MCLinuxProxy ----------------------------
(* LinuxProxy for TLC: a /29-like network with two client addresses, so that *)
(* the pool runs out; one client asks for an address, the other for none.    *)
EXTENDS LinuxProxy, TLC

CONSTANTS c1, c2

MCStatic == c1 :> 2 @@ c2 :> NoAddress
Sessions == Permutations(Session)
=============================================================================
