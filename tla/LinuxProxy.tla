----------------------------- MODULE LinuxProxy -----------------------------
(***************************************************************************)
(* veil_core/linux_proxy.py: LinuxVpnProxyServer.serve_forever() with its    *)
(* accept loop, its TUN pump and one pump per client, and the clients in     *)
(* LinuxVpnProxyClient.run_forever().  The two ends of a VPN connection do    *)
(* what VpnConnection shows of them: either may close at any time, and the   *)
(* other end is over some time later.  A packet is its destination address.  *)
(***************************************************************************)
EXTENDS AddressPool, Sequences

CONSTANTS
    Client,       \* machines that run run_forever()
    Static,       \* address_cidr of each client, or NoAddress
    BaseDelay,    \* reconnect_delay, in seconds
    MaxDelay      \* max_reconnect_delay

ASSUME ProxyAssumption ==
    /\ Static \in [Client -> Requested]
    /\ {"off", "reading"} \cap Session = {}
    /\ BaseDelay \in Nat /\ MaxDelay \in Nat /\ BaseDelay <= MaxDelay

VARIABLES
    server,      \* serve_forever(): serving, closing, down
    pool,        \* _address_pool
    registered,  \* _connections
    pump,        \* _pump_tasks: off, reading, or the session it retries to
    tun_pump,    \* the session the TUN pump retries to, or NoSession
    backlog,     \* sessions waiting in the server's accept queue
    link,        \* the server's and the client's VpnConnection of a session
    offer,       \* the tunnel address in the last handshake message sent
    client       \* run_forever(): where it is, its session, delay, TUN address

tables == <<pool, registered, pump>>
serverside == <<server, tables, tun_pump, backlog>>
vars == <<serverside, link, offer, client>>

Side == {"server", "client"}
Other(e) == CHOOSE o \in Side : o # e

Init ==
    /\ server = "serving" /\ pool = EmptyPool /\ registered = {}
    /\ pump = [s \in Session |-> "off"] /\ tun_pump = NoSession /\ backlog = <<>>
    /\ link = [s \in Session |-> [e \in Side |-> "new"]]
    /\ offer = [s \in Session |-> NoAddress]
    /\ client = [c \in Client |->
           [at |-> "idle", sid |-> NoSession, delay |-> BaseDelay, tun |-> NoAddress]]

Open(s, e) == link[s][e] = "open"
Set(s, e, state) == link' = [link EXCEPT ![s][e] = state]
CloseServerEnd(S) ==
    [s \in Session |-> IF s \in S /\ Open(s, "server")
                       THEN [link[s] EXCEPT !["server"] = "closed"] ELSE link[s]]

-----------------------------------------------------------------------------
(* One VPN connection: what VpnConnection shows of it (EndReachesPeer).      *)

LinkFails(s, e) ==
    Open(s, e) /\ Set(s, e, "closed") /\ UNCHANGED <<serverside, offer, client>>

LinkEndSeen(s, e) == link[s][Other(e)] = "closed" /\ LinkFails(s, e)

-----------------------------------------------------------------------------
(* The server.                                                               *)

(* _remove_connection(): close() may be refused, which is suppressed; the    *)
(* connection then stays open although nobody serves it.                     *)
Remove(s) ==
    /\ registered' = registered \ {s}
    /\ pool' = Release(pool, s)
    /\ pump' = [pump EXCEPT ![s] = "off"]
    /\ link' \in {link, CloseServerEnd({s})}

(* Mutant: no pump is started.                                               *)
Register_unread(s) == registered' = registered \cup {s} /\ UNCHANGED pump

Register(s) ==
    /\ registered' = registered \cup {s}
    /\ pump' = [pump EXCEPT ![s] = "reading"]

(* accept(): the ready message is sent and the connection registered without *)
(* an await in between.                                                      *)
Admit(s) ==
    /\ ~Exhausted(pool, s, offer[s])
    /\ pool' = Allocate(pool, s, offer[s])
    /\ offer' = [offer EXCEPT ![s] = pool'.leases[s]]
    /\ Set(s, "server", "open")
    /\ Register(s)
    /\ UNCHANGED <<server, tun_pump>>

(* One handshake that fails, one ready message that is refused or an empty   *)
(* pool ends the accept loop, and serve_forever() with it.                   *)
Reject(s) ==
    /\ pool' \in {pool} \cup
           (IF Exhausted(pool, s, offer[s]) THEN {} ELSE {Allocate(pool, s, offer[s])})
    /\ Set(s, "server", "rejected")
    /\ server' = "closing" /\ tun_pump' = NoSession
    /\ UNCHANGED <<registered, pump, offer>>

Accept ==
    /\ server = "serving" /\ backlog # <<>>
    /\ Admit(Head(backlog)) \/ Reject(Head(backlog))
    /\ backlog' = Tail(backlog)
    /\ UNCHANGED client

Serves(s) == s \in registered /\ Open(s, "server")

(* _pump_client_to_tun(): a packet for another client, which back-pressure   *)
(* holds up.  One that is accepted, or written to the TUN, leaves no trace.  *)
PumpHeldUp(s) ==
    /\ pump[s] = "reading"
    /\ \E a \in Address :
           LET peer == SessionFor(pool, a) IN
           /\ peer \notin {NoSession, s} /\ Serves(peer)
           /\ pump' = [pump EXCEPT ![s] = peer]
    /\ UNCHANGED <<server, pool, registered, tun_pump, backlog, link, offer, client>>

PumpRaises(s) ==
    Remove(s) /\ UNCHANGED <<server, tun_pump, backlog, offer, client>>

(* A retry to a peer that closed meanwhile raises, and the pump of the        *)
(* sender ends.                                                              *)
PumpRetries(s) ==
    /\ pump[s] \in Session
    /\ \/ /\ Open(pump[s], "server")
          /\ pump' = [pump EXCEPT ![s] = "reading"]
          /\ UNCHANGED <<server, pool, registered, tun_pump, backlog, link, offer, client>>
       \/ ~Open(pump[s], "server") /\ PumpRaises(s)

(* A packet over the peer's MTU, or a TUN that fails: the finally clause.    *)
PumpFails(s) == pump[s] = "reading" /\ PumpRaises(s)

(* _pump_tun_to_clients(); a send that raises is skipped.                    *)
TunPumpHeldUp ==
    /\ server = "serving" /\ tun_pump = NoSession
    /\ \E a \in Address : Serves(SessionFor(pool, a)) /\ tun_pump' = SessionFor(pool, a)
    /\ UNCHANGED <<server, tables, backlog, link, offer, client>>

TunPumpRetries ==
    /\ tun_pump # NoSession
    /\ tun_pump' = NoSession
    /\ UNCHANGED <<server, tables, backlog, link, offer, client>>

(* The server's TUN returns EOF or an error.                                 *)
TunPumpEnds ==
    /\ server = "serving" /\ tun_pump = NoSession
    /\ server' = "closing"
    /\ UNCHANGED <<tables, tun_pump, backlog, link, offer, client>>

(* Mutant: only open connections are waited for.                             *)
Shutdown_openOnly(s) ==
    /\ server = "closing" /\ Serves(s)
    /\ PumpRaises(s)

(* _shutdown_connections() ...                                               *)
Shutdown(s) ==
    /\ server = "closing" /\ s \in registered
    /\ PumpRaises(s)

Exit ==
    /\ server' = "down" /\ registered' = {} /\ pool' = EmptyPool
    /\ pump' = [s \in Session |-> "off"] /\ tun_pump' = NoSession /\ backlog' = <<>>
    /\ link' = CloseServerEnd(Session)
    /\ UNCHANGED <<offer, client>>

(* ... and the end of the process, which the service manager starts again.   *)
ShutdownDone == server = "closing" /\ registered = {} /\ Exit
Crash        == server = "serving" /\ Exit

Restart ==
    /\ server = "down" /\ server' = "serving"
    /\ UNCHANGED <<tables, tun_pump, backlog, link, offer, client>>

-----------------------------------------------------------------------------
(* A client.                                                                 *)

Goto(c, at, sid, tun, delay) ==
    client' = [client EXCEPT ![c] = [at |-> at, sid |-> sid, tun |-> tun, delay |-> delay]]

Fresh == {s \in Session : link[s]["client"] = "new"}

(* The transport session is up: the hello waits at the server.               *)
Connect(c) ==
    /\ client[c].at = "idle" /\ server # "down"
    /\ Fresh # {}
    /\ LET s == CHOOSE s \in Fresh : TRUE IN
           /\ Goto(c, "connecting", s, NoAddress, client[c].delay)
           /\ Set(s, "client", "starting")
           /\ backlog' = Append(backlog, s)
           /\ offer' = [offer EXCEPT ![s] = Static[c]]
    /\ UNCHANGED <<server, tables, tun_pump>>

(* The end of run_once(): the finally clauses close the TUN and the          *)
(* connection, and the transport client stops.                               *)
End(c, at, delay) ==
    /\ Goto(c, at, NoSession, NoAddress, delay)
    /\ IF client[c].sid = NoSession THEN UNCHANGED link
       ELSE Set(client[c].sid, "client", "closed")
    /\ UNCHANGED <<serverside, offer>>

Raise(c) == End(c, "sleeping", client[c].delay)
Return(c) == End(c, "idle", BaseDelay)

ConnectFails(c) == client[c].at \in {"idle", "connecting"} /\ Raise(c)

(* The ready message arrives and the TUN opens; if it does not: TunFails.    *)
Ready(c) ==
    LET s == client[c].sid IN
    /\ client[c].at = "connecting" /\ link[s]["server"] \in {"open", "closed"}
    /\ Goto(c, "running", s, offer[s], client[c].delay)
    /\ Set(s, "client", "open")
    /\ UNCHANGED <<serverside, offer>>

(* Mutant: the packet is dropped and the pump goes on.                       *)
TunPacket_dropped(c) ==
    client[c].at = "running" /\ ~Open(client[c].sid, "client") /\ UNCHANGED vars

(* LinuxVpnProxy.run(): the first pump that ends.  Only a packet from the    *)
(* TUN shows that the connection is closed; recv_packet() never does.        *)
TunPacket(c) ==
    client[c].at = "running" /\ ~Open(client[c].sid, "client") /\ Return(c)

(* EOF of the TUN, or a task that is cancelled and never calls again.        *)
TunEOF(c)   == client[c].at = "running" /\ Return(c)
TunFails(c) == client[c].at = "running" /\ Raise(c)

AtMost(a, b)  == IF a < b THEN a ELSE b
AtLeast(a, b) == IF a < b THEN b ELSE a

(* Mutant: the delay only doubles.                                           *)
Wake_uncapped(c) ==
    /\ client[c].at = "sleeping"
    /\ client' = [client EXCEPT ![c].at = "idle", ![c].delay = AtLeast(BaseDelay, 2 * @)]
    /\ UNCHANGED <<serverside, link, offer>>

Wake(c) ==
    /\ client[c].at = "sleeping"
    /\ client' = [client EXCEPT ![c].at = "idle",
                                ![c].delay = AtMost(MaxDelay, AtLeast(BaseDelay, 2 * @))]
    /\ UNCHANGED <<serverside, link, offer>>

-----------------------------------------------------------------------------
ServerNext ==
    \/ Accept \/ TunPumpHeldUp \/ TunPumpRetries \/ TunPumpEnds
    \/ ShutdownDone \/ Crash \/ Restart
    \/ \E s \in Session :
           PumpHeldUp(s) \/ PumpRetries(s) \/ PumpFails(s) \/ Shutdown(s)

ClientNext(c) ==
    \/ Connect(c) \/ ConnectFails(c) \/ Ready(c) \/ TunPacket(c)
    \/ TunEOF(c) \/ TunFails(c) \/ Wake(c)

Next ==
    \/ ServerNext
    \/ \E c \in Client : ClientNext(c)
    \/ \E s \in Session, e \in Side : LinkFails(s, e)

Spec == Init /\ [][Next]_vars

(* Both event loops run their tasks, the service manager restarts, and the   *)
(* ends of a connection learn of each other.                                 *)
Fairness ==
    /\ WF_vars(Accept)
    /\ WF_vars(Restart)
    /\ WF_vars(ShutdownDone \/ \E s \in Session : Shutdown(s))
    /\ WF_vars(\E s \in Session, e \in Side : LinkEndSeen(s, e))

FairSpec == Spec /\ Fairness

(* Something on the client's machine keeps sending into the tunnel.          *)
TrafficSpec == FairSpec /\ \A c \in Client : WF_vars(TunPacket(c))

-----------------------------------------------------------------------------
(* Types; the reconnect delay stays between its two limits (run_forever).   *)
ProxyTypeOK ==
    /\ server \in {"serving", "closing", "down"}
    /\ pool \in Pool /\ registered \subseteq Session
    /\ pump \in [Session -> {"off", "reading"} \cup Session]
    /\ tun_pump \in Session \cup {NoSession} /\ backlog \in Seq(Session)
    /\ link \in [Session -> [Side -> {"new", "starting", "open", "closed", "rejected"}]]
    /\ offer \in [Session -> Requested]
    /\ client \in [Client ->
           [at: {"idle", "connecting", "running", "sleeping"},
            sid: Session \cup {NoSession}, delay: BaseDelay..MaxDelay, tun: Requested]]

(* The address pool stays consistent through every accept, removal,          *)
(* shutdown and restart: a packet is never handed to a session that does not *)
(* hold its destination address.                                             *)
PoolConsistent == Consistent(pool)

(* While the server serves, the sessions with a lease, those it routes to    *)
(* and those with a pump are the same: no failure of one step leaves a       *)
(* session that is routed to but not read, or an address that is taken for   *)
(* good (serve_forever never returns from a state where they differ).        *)
TablesAgree ==
    LET pumped == {s \in Session : pump[s] # "off"} IN
    /\ registered = pumped
    /\ server = "serving" => {s \in Session : pool.leases[s] # NoAddress} = registered

(* Two clients whose connections the server routes to have different tunnel  *)
(* addresses, the ones the server leased to them, whatever they asked for.   *)
AddressesUnique ==
    \A c, d \in Client :
        /\ client[c].at = "running" /\ client[c].sid \in registered
        /\ client[d].at = "running" /\ client[d].sid \in registered
        => /\ client[c].tun = pool.leases[client[c].sid]
           /\ c # d => client[c].tun # client[d].tun

(* A client whose connection is over at either end leaves it and dials again *)
(* (given traffic: see TrafficSpec).                                         *)
ClosedIsLeft ==
    \A c \in Client :
        client[c].at = "running" /\ (\E e \in Side : link[client[c].sid][e] = "closed")
            ~> client[c].at # "running"

(* A server that one failure brings down serves again.                       *)
ServesAgain == server # "serving" ~> server = "serving"

(* A connection that closed is forgotten: its pump ends, its lease returns.  *)
ClosedIsReleased ==
    \A s \in Session :
        s \in registered /\ link[s]["server"] = "closed" ~> s \notin registered
=============================================================================
