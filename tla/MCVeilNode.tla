---------------------------- MODULE MCVeilNode ----------------------------
(* Small instances of VeilNode for TLC.                                      *)
EXTENDS VeilNode, TLC

(* The datagrams that matter: payload, and a disconnect frame with payload   *)
(* behind it; under HTTP emulation also the prelude, which has no frames.    *)
PlainPackets   == {<<"data">>, <<"disconnect", "data">>}
PreludePackets == {<<>>, <<"data">>, <<"disconnect", "data">>}

TableSymmetry == Permutations(Sid) \cup Permutations(Endpoint)
=============================================================================
