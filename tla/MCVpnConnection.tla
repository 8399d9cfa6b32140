-------------------------- MODULE MCVpnConnection --------------------------
(* Instances of VpnConnection for TLC; the bounds are in the configuration,  *)
(* and this one: two datagrams on the way, both to one end or one to each.   *)
EXTENDS VpnConnection

InFlightBound == Len(inflight["client"]) + Len(inflight["server"]) <= 2
=============================================================================
