---------------------------- MODULE AddressPool ----------------------------
(* LinuxClientAddressPool of veil_core/linux_proxy.py.  An address is its    *)
(* offset in the tunnel network: 0 is the network address, Size - 1 the      *)
(* broadcast address, and Size stands for everything else a client may ask   *)
(* for: nothing, text that is no IPv4 address, an address outside.           *)
EXTENDS Naturals

CONSTANTS
    Session,    \* session ids
    NoSession,  \* None
    Size,       \* addresses of the tunnel network
    ServerIp    \* the server's own address

ASSUME PoolAssumption ==
    /\ NoSession \notin Session
    /\ Size \in Nat \ {0}
    /\ ServerIp \in 0..(Size - 1)

Address   == 0..(Size - 1)
NoAddress == Size
Requested == 0..Size

Pool ==
    [leases: [Session -> Address \cup {NoAddress}],
     owner:  [Address -> Session \cup {NoSession}]]     \* _sessions_by_ip

EmptyPool ==
    [leases |-> [s \in Session |-> NoAddress], owner |-> [a \in Address |-> NoSession]]

IsAvailable_anyHost(p, a) == a \in 1..(Size - 2) /\ a # ServerIp    \* mutant

IsAvailable(p, a) ==
    /\ a \in Address \ {0, Size - 1, ServerIp}
    /\ p.owner[a] = NoSession

(* The requested address if it is available, else the first available host.  *)
Selectable(p, preferred) ==
    IF IsAvailable(p, preferred) THEN {preferred}
    ELSE {a \in Address : /\ IsAvailable(p, a)
                          /\ \A b \in Address : IsAvailable(p, b) => a <= b}

Exhausted(p, s, preferred) == p.leases[s] = NoAddress /\ Selectable(p, preferred) = {}

Allocate(p, s, preferred) ==
    IF p.leases[s] # NoAddress THEN p
    ELSE LET a == CHOOSE a \in Selectable(p, preferred) : TRUE
         IN  [leases |-> [p.leases EXCEPT ![s] = a],
              owner  |-> [p.owner EXCEPT ![a] = s]]

Release(p, s) ==
    IF p.leases[s] = NoAddress THEN p
    ELSE [leases |-> [p.leases EXCEPT ![s] = NoAddress],
          owner  |-> [p.owner EXCEPT ![p.leases[s]] = NoSession]]

SessionFor(p, destination) ==
    IF destination \in Address THEN p.owner[destination] ELSE NoSession

(* The two maps are each other's inverse: no address has two sessions, every *)
(* packet finds the session its destination is leased to, and the server's,  *)
(* the network's and the broadcast address are never given away.             *)
Consistent(p) ==
    /\ \A s \in Session : p.leases[s] # NoAddress => p.owner[p.leases[s]] = s
    /\ \A a \in Address : p.owner[a] # NoSession =>
           a \notin {0, Size - 1, ServerIp} /\ p.leases[p.owner[a]] = a
=============================================================================
