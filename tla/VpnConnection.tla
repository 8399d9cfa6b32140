--------------------------- MODULE VpnConnection ---------------------------
(***************************************************************************)
(* veil_core/vpn.py: the two ends of one VPN connection over a transport   *)
(* session that is already up.  Each end is a start() that shakes hands, a  *)
(* _run() task that reads the session's events, a keepalive task, and an    *)
(* application that may send, close() and wait_closed(timeout).             *)
(*                                                                          *)
(* Datagrams may be lost and overtake each other.  A control message that   *)
(* send() refuses (back-pressure, or the session is gone) raises.  Packets   *)
(* only show activity here, as a pong does; LinuxProxy carries them.        *)
(***************************************************************************)
EXTENDS Naturals, Sequences, SequencesExt, FiniteSets

CONSTANTS
    MaxIdle,      \* whole keepalive intervals in keepalive_timeout
    MaxHellos,    \* hellos sent before the handshake deadline (bound)
    MaxInFlight,  \* datagrams on the way to one end; more are dropped (bound)
    MaxQueued     \* events waiting in one session queue (bound)

ASSUME BoundsAssumption ==
    /\ MaxIdle \in Nat
    /\ {MaxHellos, MaxInFlight, MaxQueued} \subseteq Nat \ {0}

End == {"client", "server"}
Peer(e) == CHOOSE p \in End : p # e

Control  == {"hello", "ready", "ping", "pong", "close"}
Event    == Control \cup {"disconnected"}
Reason   == {"closed by peer", "transport", "keepalive timeout",
             "keepalive error", "runtime error", "cancelled"}

VARIABLES
    phase,     \* start() / _run(): starting, failed, running, ended
    closed,    \* the _closed future: open, its result, or cancelled
    keepalive, \* the keepalive task: off, on, done
    idle,      \* wake-ups of the keepalive task since _last_rx_time, while it is on
    hellos,    \* hellos the client sent, while it is starting
    session,   \* the local transport session: up, ending, down
    inflight,  \* datagrams on their way to each end
    events     \* each session's queue, set-aside events included

conn == <<phase, closed, keepalive, idle>>
net  == <<session, inflight>>
vars == <<conn, hellos, net, events>>

Init ==
    /\ phase = [e \in End |-> "starting"]
    /\ closed = [e \in End |-> "open"]
    /\ keepalive = [e \in End |-> "off"]
    /\ idle = [e \in End |-> 0]
    /\ hellos = 0
    /\ session = [e \in End |-> "up"]
    /\ inflight = [e \in End |-> <<>>]
    /\ events = [e \in End |-> <<>>]

-----------------------------------------------------------------------------
(* The transport below: Session.send, disconnect, the receive worker.  What  *)
(* is sent to a session that is not up any more is dropped; what is on its   *)
(* way when the session ends may still be handed up (the worker drains its   *)
(* queue) until the end is reported.  What is queued for an end that stopped *)
(* reading is not kept.                                                      *)

Transmitted(e, m) ==
    [inflight EXCEPT ![Peer(e)] =
        IF session[Peer(e)] = "up" /\ Len(@) < MaxInFlight THEN Append(@, m) ELSE @]

Send(e, m) ==
    /\ session[e] = "up"
    /\ inflight' = Transmitted(e, m)
    /\ UNCHANGED session

(* session.disconnect(); a session that ended already is left alone.         *)
Disconnect(e) ==
    /\ session' = [session EXCEPT ![e] = IF @ = "up" THEN "ending" ELSE @]
    /\ UNCHANGED inflight

Reads(e) == phase[e] \in {"starting", "running"}

TornDown(e) ==
    /\ session[e] = "ending"
    /\ session' = [session EXCEPT ![e] = "down"]
    /\ inflight' = [inflight EXCEPT ![e] = <<>>]
    /\ events' = IF Reads(e) THEN [events EXCEPT ![e] = Append(@, "disconnected")] ELSE events
    /\ UNCHANGED <<conn, hellos>>

(* A disconnect frame arrives, or the transport times out: the end of one    *)
(* session may, and need not, reach the other.                               *)
TransportEnds(e) ==
    /\ session[e] = "up"
    /\ Disconnect(e)
    /\ UNCHANGED <<conn, hellos, events>>

Lose(e) ==
    /\ inflight[e] # <<>>
    /\ inflight' = [inflight EXCEPT ![e] = Tail(@)]
    /\ UNCHANGED <<conn, hellos, session, events>>

Deliver(e) ==
    \E i \in DOMAIN inflight[e] :
        LET m == inflight[e][i] IN
        /\ Len(events[e]) < MaxQueued
        /\ inflight' = [inflight EXCEPT ![e] = RemoveAt(@, i)]
        /\ events' = IF Reads(e) THEN [events EXCEPT ![e] = Append(@, m)] ELSE events
        /\ UNCHANGED <<conn, hellos, session>>

-----------------------------------------------------------------------------
(* start(): the handshake.                                                   *)

Fail(e) ==
    /\ phase' = [phase EXCEPT ![e] = "failed"]
    /\ Disconnect(e)
    /\ UNCHANGED <<closed, keepalive, idle>>

UnreadDropped(e, rest) ==
    events' = [events EXCEPT ![e] = IF phase'[e] \in {"starting", "running"} THEN rest ELSE <<>>]

Started(e) ==
    /\ phase' = [phase EXCEPT ![e] = "running"]
    /\ keepalive' = [keepalive EXCEPT ![e] = "on"]
    /\ idle' = [idle EXCEPT ![e] = 0]
    /\ UNCHANGED closed

(* _await_ready_with_retries: the first hello and its repetitions.           *)
SendHello ==
    /\ phase["client"] = "starting" /\ hellos < MaxHellos
    /\ \/ hellos' = hellos + 1 /\ Send("client", "hello") /\ UNCHANGED conn
       \/ hellos' = 0 /\ Fail("client")                      \* refused
    /\ UnreadDropped("client", events["client"])

ControlAt(e) == {i \in DOMAIN events[e] : events[e][i] \in Control}

(* _recv_control_message takes the first control message and leaves what it  *)
(* skipped (the end of the session) to _run().                               *)
ReceiveReady ==
    LET e == "client" IN
    /\ phase[e] = "starting" /\ hellos > 0 /\ ControlAt(e) # {}
    /\ LET i == CHOOSE i \in ControlAt(e) : \A j \in ControlAt(e) : i <= j IN
       /\ IF events[e][i] = "ready"
          THEN Started(e) /\ UNCHANGED net
          ELSE Fail(e)
       /\ UnreadDropped(e, RemoveAt(events[e], i))
    /\ hellos' = 0

(* Mutant: ready is sent before the factory of its payload is called.        *)
ReceiveHello_readyFirst ==
    LET e == "server" IN
    /\ phase[e] = "starting" /\ ControlAt(e) # {}
    /\ LET i == CHOOSE i \in ControlAt(e) : \A j \in ControlAt(e) : i <= j IN
       /\ \/ events[e][i] = "hello" /\ Started(e) /\ Send(e, "ready")
          \/ /\ session' = [session EXCEPT ![e] = "ending"]
             /\ inflight' = Transmitted(e, "ready")
             /\ phase' = [phase EXCEPT ![e] = "failed"]
             /\ UNCHANGED <<closed, keepalive, idle>>
       /\ UnreadDropped(e, RemoveAt(events[e], i))
    /\ UNCHANGED hellos

(* The factory of the ready payload may raise, as the address pool does.     *)
ReceiveHello ==
    LET e == "server" IN
    /\ phase[e] = "starting" /\ ControlAt(e) # {}
    /\ LET i == CHOOSE i \in ControlAt(e) : \A j \in ControlAt(e) : i <= j IN
       /\ \/ events[e][i] = "hello" /\ Started(e) /\ Send(e, "ready")
          \/ Fail(e)                       \* not a hello, factory, or refused
       /\ UnreadDropped(e, RemoveAt(events[e], i))
    /\ UNCHANGED hellos

HandshakeTimeout(e) ==
    /\ phase[e] = "starting" /\ ControlAt(e) = {}
    /\ e = "client" => hellos = MaxHellos
    /\ Fail(e)
    /\ UnreadDropped(e, events[e])
    /\ hellos' = IF e = "client" THEN 0 ELSE hellos

-----------------------------------------------------------------------------
(* _run(): one event of the session.                                         *)

MarkClosed(e, reason) ==
    closed' = [closed EXCEPT ![e] = IF @ = "open" THEN reason ELSE @]

(* The finally clause cancels the keepalive task.                            *)
Finish(e) ==
    /\ phase' = [phase EXCEPT ![e] = "ended"]
    /\ keepalive' = [keepalive EXCEPT ![e] = "done"]

Answer(e, m) ==
    \/ Send(e, m) /\ UNCHANGED <<phase, closed, keepalive>>
    \/ /\ Finish(e) /\ MarkClosed(e, "runtime error")        \* refused: raises
       /\ UNCHANGED net

HandleEvent(e, m) ==
    \/ m \in {"ready", "pong"} /\ UNCHANGED <<phase, closed, keepalive, net>>
    \/ m = "hello" /\ Answer(e, "ready")     \* only a server is sent one
    \/ m = "ping" /\ Answer(e, "pong")
    \/ m = "close" /\ MarkClosed(e, "closed by peer") /\ Disconnect(e) /\ Finish(e)
    \/ m = "disconnected" /\ MarkClosed(e, "transport") /\ Finish(e) /\ UNCHANGED net

Run(e) ==
    /\ phase[e] = "running" /\ events[e] # <<>>
    /\ HandleEvent(e, Head(events[e]))
    /\ idle' = [idle EXCEPT ![e] =
           IF Head(events[e]) = "disconnected" /\ keepalive'[e] = "on" THEN @ ELSE 0]
    /\ UnreadDropped(e, Tail(events[e]))
    /\ UNCHANGED hellos

-----------------------------------------------------------------------------
(* _run_keepalive(): the task wakes after one interval.  The last datagram   *)
(* came at some moment between two wake-ups, so idle_for is more than idle   *)
(* intervals and at most one more: after MaxIdle of them it may exceed the   *)
(* timeout or not, after one more it does.                                   *)

KeepaliveEnds(e) ==
    /\ keepalive' = [keepalive EXCEPT ![e] = "done"]
    /\ idle' = [idle EXCEPT ![e] = 0]

(* Mutant: the session is not disconnected.                                  *)
GiveUp_sessionLives(e, reason) ==
    MarkClosed(e, reason) /\ KeepaliveEnds(e) /\ UNCHANGED net

GiveUp(e, reason) ==
    MarkClosed(e, reason) /\ Disconnect(e) /\ KeepaliveEnds(e)

(* Mutant: nobody looks at the time of the last datagram.                    *)
KeepaliveWakes_noTimeout(e) ==
    /\ keepalive[e] = "on"
    /\ \/ closed[e] # "open" /\ KeepaliveEnds(e) /\ UNCHANGED <<closed, net>>
       \/ /\ closed[e] = "open"
          /\ \/ /\ Send(e, "ping")
                /\ UNCHANGED <<closed, keepalive, idle>>
             \/ GiveUp(e, "keepalive error")
    /\ UNCHANGED <<phase, hellos, events>>

(* Mutant: the peer is given one interval more.                              *)
KeepaliveWakes_later(e) ==
    /\ keepalive[e] = "on"
    /\ \/ closed[e] # "open" /\ KeepaliveEnds(e) /\ UNCHANGED <<closed, net>>
       \/ closed[e] = "open" /\ idle[e] > MaxIdle /\ GiveUp(e, "keepalive timeout")
       \/ /\ closed[e] = "open" /\ idle[e] <= MaxIdle + 1
          /\ \/ /\ Send(e, "ping")
                /\ idle' = [idle EXCEPT ![e] = @ + 1]
                /\ UNCHANGED <<closed, keepalive>>
             \/ GiveUp(e, "keepalive error")
    /\ UNCHANGED <<phase, hellos, events>>

KeepaliveWakes(e) ==
    /\ keepalive[e] = "on"
    /\ \/ closed[e] # "open" /\ KeepaliveEnds(e) /\ UNCHANGED <<closed, net>>
       \/ closed[e] = "open" /\ idle[e] >= MaxIdle /\ GiveUp(e, "keepalive timeout")
       \/ /\ closed[e] = "open" /\ idle[e] <= MaxIdle
          /\ \/ /\ Send(e, "ping")
                /\ idle' = [idle EXCEPT ![e] = @ + 1]
                /\ UNCHANGED <<closed, keepalive>>
             \/ GiveUp(e, "keepalive error")
    /\ UNCHANGED <<phase, hellos, events>>

-----------------------------------------------------------------------------
(* The application.                                                          *)

(* close(): a refused vpn.close raises and changes nothing.                  *)
Close(e) ==
    /\ phase[e] \in {"running", "ended"} /\ closed[e] = "open" /\ session[e] = "up"
    /\ session' = [session EXCEPT ![e] = "ending"]
    /\ inflight' = Transmitted(e, "close")
    /\ UNCHANGED <<conn, hellos, events>>

(* wait_closed(timeout): wait_for() cancels the future it waits for.         *)
WaitClosedTimesOut(e) ==
    /\ phase[e] \in {"running", "ended"} /\ closed[e] = "open"
    /\ closed' = [closed EXCEPT ![e] = "cancelled"]
    /\ UNCHANGED <<phase, keepalive, idle, hellos, net, events>>

-----------------------------------------------------------------------------
Handshake(e) ==
    \/ e = "client" /\ (SendHello \/ ReceiveReady)
    \/ e = "server" /\ ReceiveHello
    \/ HandshakeTimeout(e)

Next ==
    \E e \in End :
        \/ Handshake(e) \/ Run(e) \/ KeepaliveWakes(e)
        \/ Close(e) \/ WaitClosedTimesOut(e)
        \/ TornDown(e) \/ TransportEnds(e) \/ Lose(e) \/ Deliver(e)

Spec == Init /\ [][Next]_vars

(* The event loop runs both tasks and the timers; the node reports a session *)
(* it tears down (VeilNode!RemovedIsReported).  Nothing is assumed of the    *)
(* network: every datagram may be lost.                                      *)
Fairness ==
    \A e \in End :
        /\ WF_vars(Handshake(e)) /\ WF_vars(Run(e)) /\ WF_vars(KeepaliveWakes(e))
        /\ WF_vars(TornDown(e))

FairSpec == Spec /\ Fairness

-----------------------------------------------------------------------------
(* Types; the task wakes at most once without giving up after the peer has   *)
(* been silent for the whole of the keepalive timeout (_run_keepalive).      *)
VpnTypeOK ==
    /\ phase \in [End -> {"starting", "failed", "running", "ended"}]
    /\ closed \in [End -> Reason \cup {"open"}]
    /\ keepalive \in [End -> {"off", "on", "done"}]
    /\ idle \in [End -> 0..(MaxIdle + 1)]
    /\ hellos \in 0..MaxHellos
    /\ session \in [End -> {"up", "ending", "down"}]
    /\ inflight \in [End -> Seq(Control)]
    /\ events \in [End -> Seq(Event)]

(* A client that start() returned to has a server whose start() returned:    *)
(* the server never answers ready for a connection it then drops.            *)
ClientHasServer ==
    phase["client"] \in {"running", "ended"} => phase["server"] \in {"running", "ended"}

(* A connection that is closed leaves no live transport session behind,      *)
(* except on the two paths of the code that do not disconnect: a receive     *)
(* loop that raised, and a future that wait_closed(timeout) cancelled.       *)
ClosedEndsSession ==
    \A e \in End :
        closed[e] \notin {"open", "runtime error", "cancelled"} => session[e] # "up"

Over(e) == phase[e] = "failed" \/ closed[e] \notin {"open", "cancelled"}

(* When one end is over, the other does not stay up for ever, even when      *)
(* every close and disconnect message is lost: keepalive notices.            *)
EndReachesPeer ==
    \A e \in End :
        Over(e) ~> (phase[Peer(e)] = "failed" \/ closed[Peer(e)] # "open")
=============================================================================
