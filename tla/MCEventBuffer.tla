--------------------------- MODULE MCEventBuffer ---------------------------
(* Small instances of EventBuffer: events of two streams, and calls for any  *)
(* event (next_event), for one stream or for the other (recv).               *)
EXTENDS EventBuffer

CONSTANTS e1, e2, e3, e4

TwoStreams  == {{e1, e2, e3, e4}, {e1, e3}, {e2, e4}}
ThreeEvents == {{e1, e2, e3}, {e1, e3}, {e2}}
=============================================================================
