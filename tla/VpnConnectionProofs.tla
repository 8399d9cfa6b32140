------------------------ MODULE VpnConnectionProofs ------------------------
(* Proofs about VpnConnection, for any keepalive timeout, number of hellos    *)
(* and bounds of the network.                                                *)
EXTENDS VpnConnection, SequenceTheorems, WellFoundedInduction, TLAPS

-----------------------------------------------------------------------------
(* What the sequences of datagrams and events hold.                          *)

(* A message added at the end.                                               *)
LEMMA RangeAppend ==
  ASSUME NEW S, NEW s \in Seq(S), NEW m \in S
  PROVE  Append(s, m) \in Seq(S) /\ Range(Append(s, m)) = Range(s) \cup {m}
<1>1. Append(s, m) \in Seq(S) /\ <<m>> \in Seq(S)
  OBVIOUS
<1>2. Append(s, m) = s \o <<m>>
  BY AppendIsConcat
<1>3. Range(s \o <<m>>) = Range(s) \cup Range(<<m>>)
  BY <1>1, RangeConcatenation
<1>4. Range(<<m>>) = {m}
  BY DEF Range
<1> QED BY <1>1, <1>2, <1>3, <1>4

(* A section of a sequence.                                                  *)
LEMMA RangeSubSeq ==
  ASSUME NEW S, NEW s \in Seq(S), NEW a \in Nat \ {0}, NEW b \in Nat, b <= Len(s)
  PROVE  SubSeq(s, a, b) \in Seq(S) /\ Range(SubSeq(s, a, b)) \subseteq Range(s)
<1>1. SubSeq(s, a, b) \in Seq(S)
  OBVIOUS
<1>2. Range(SubSeq(s, a, b)) \subseteq Range(s)
  BY DEF Range
<1> QED BY <1>1, <1>2

(* A sequence with one message lost.                                         *)
LEMMA RangeRemoveAt ==
  ASSUME NEW S, NEW s \in Seq(S), NEW i \in DOMAIN s
  PROVE  RemoveAt(s, i) \in Seq(S) /\ Range(RemoveAt(s, i)) \subseteq Range(s)
<1> DEFINE t == SubSeq(s, 1, i - 1)
           u == SubSeq(s, i + 1, Len(s))
<1>1. i \in 1..Len(s) /\ Len(s) \in Nat
  BY LenProperties
<1>2. t \in Seq(S) /\ Range(t) \subseteq Range(s)
  BY <1>1, RangeSubSeq
<1>3. u \in Seq(S) /\ Range(u) \subseteq Range(s)
  BY <1>1, RangeSubSeq
<1>4. RemoveAt(s, i) = t \o u
  BY DEF RemoveAt
<1> HIDE DEF t, u
<1>5. t \o u \in Seq(S)
  BY <1>2, <1>3
<1>6. Range(t \o u) = Range(t) \cup Range(u)
  BY <1>2, <1>3, RangeConcatenation
<1> QED BY <1>2, <1>3, <1>4, <1>5, <1>6

(* A sequence without its first message.                                     *)
LEMMA RangeTail ==
  ASSUME NEW S, NEW s \in Seq(S), s # <<>>
  PROVE  /\ Tail(s) \in Seq(S) /\ Range(Tail(s)) \subseteq Range(s)
         /\ Head(s) \in S /\ Head(s) \in Range(s)
<1>1. Tail(s) \in Seq(S) /\ Head(s) \in S
  OBVIOUS
<1>2. Range(Tail(s)) \subseteq Range(s)
  BY DEF Range
<1>3. Head(s) \in Range(s)
  BY DEF Range
<1> QED BY <1>1, <1>2, <1>3

(* The empty sequence.                                                       *)
LEMMA RangeEmpty == ASSUME NEW S PROVE <<>> \in Seq(S) /\ Range(<<>>) = {}
  BY DEF Range

(* The two ends are each the peer of the other.                              *)
LEMMA PeerOK == Peer("client") = "server" /\ Peer("server") = "client"
  BY DEF Peer, End

(* CHOOSE i \in ControlAt(e) : \A j \in ControlAt(e) : i <= j is there when a *)
(* control message is.                                                       *)
LessThan == {p \in Nat \X Nat : p[1] < p[2]}

(* The order of the natural numbers is well founded.                         *)
LEMMA LessThanWF == IsWellFoundedOn(LessThan, Nat)
<1>1. LessThan = OpToRel(<, Nat)
  BY DEF LessThan, OpToRel
<1> QED BY <1>1, NatLessThanWellFounded

(* Every set of positions that is not empty has a first one.                 *)
LEMMA LeastExists ==
  ASSUME NEW A, A \subseteq Nat, A # {}
  PROVE  \E i \in A : \A j \in A : i <= j
<1>1. PICK i \in A : \A j \in A : ~(<<j, i>> \in LessThan)
  BY LessThanWF, WFMin
<1>2. i \in Nat
  OBVIOUS
<1>3. ASSUME NEW j \in A PROVE i <= j
  <2>1. j \in Nat /\ <<j, i>> \notin LessThan
    BY <1>1
  <2>2. ~(j < i)
    BY <1>2, <2>1 DEF LessThan
  <2> QED BY <1>2, <2>1, <2>2
<1> QED BY <1>3

First(e) == CHOOSE i \in ControlAt(e) : \A j \in ControlAt(e) : i <= j

(* The first control event an end waits for is one of its events.            *)
LEMMA FirstControl ==
  ASSUME NEW e \in End, events[e] \in Seq(Event), ControlAt(e) # {}
  PROVE  First(e) \in DOMAIN events[e]
<1>1. ControlAt(e) \subseteq DOMAIN events[e] /\ ControlAt(e) \subseteq Nat
  BY DEF ControlAt
<1>2. \E i \in ControlAt(e) : \A j \in ControlAt(e) : i <= j
  BY <1>1, LeastExists
<1>3. First(e) \in ControlAt(e)
  BY <1>2 DEF First
<1> QED BY <1>1, <1>3

(* The network: one datagram more, or none, on the way to the peer.          *)
LEMMA TransmittedOK ==
  ASSUME inflight \in [End -> Seq(Control)], NEW e \in End, NEW m \in Control
  PROVE  /\ Transmitted(e, m) \in [End -> Seq(Control)]
         /\ \A d \in End : d # Peer(e) => Transmitted(e, m)[d] = inflight[d]
         /\ Range(Transmitted(e, m)[Peer(e)]) \subseteq Range(inflight[Peer(e)]) \cup {m}
<1> DEFINE p == Peer(e)
           q == IF session[p] = "up" /\ Len(inflight[p]) < MaxInFlight
                THEN Append(inflight[p], m) ELSE inflight[p]
<1>1. p \in End
  BY PeerOK DEF End
<1>2. Transmitted(e, m) = [inflight EXCEPT ![p] = q]
  BY DEF Transmitted
<1>3. q \in Seq(Control) /\ Range(q) \subseteq Range(inflight[p]) \cup {m}
  BY <1>1, RangeAppend
<1> HIDE DEF q, p
<1>4. Transmitted(e, m) \in [End -> Seq(Control)] /\ Transmitted(e, m)[p] = q
      /\ \A d \in End : d # p => Transmitted(e, m)[d] = inflight[d]
  BY <1>1, <1>2, <1>3
<1> QED BY <1>3, <1>4 DEF p

-----------------------------------------------------------------------------
(* The inductive invariant.                                                  *)

(* The server's start() returned.                                            *)
Serving == phase["server"] \in {"running", "ended"}

(* A ready on its way to the client, or in its queue, comes of a server whose *)
(* start() returned: nothing else sends one.                                 *)
ReadyIsServed ==
    "ready" \in Range(inflight["client"]) \cup Range(events["client"]) => Serving

(* An end reads that the transport ended only after it did.                  *)
EndIsDown == \A e \in End : "disconnected" \in Range(events[e]) => session[e] = "down"

Meaning == ReadyIsServed /\ EndIsDown /\ ClientHasServer /\ ClosedEndsSession

VInv == VpnTypeOK /\ Meaning

ConnType ==
    /\ phase \in [End -> {"starting", "failed", "running", "ended"}]
    /\ closed \in [End -> Reason \cup {"open"}]
    /\ keepalive \in [End -> {"off", "on", "done"}]
    /\ idle \in [End -> 0..(MaxIdle + 1)]
    /\ hellos \in 0..MaxHellos
NetType ==
    /\ session \in [End -> {"up", "ending", "down"}]
    /\ inflight \in [End -> Seq(Control)]
    /\ events \in [End -> Seq(Event)]

(* What a step does, for the invariant to follow.                            *)

(* Sessions only end.                                                        *)
SessionsEnd ==
    \A e \in End : /\ session[e] # "up" => session'[e] # "up"
                   /\ session[e] = "down" => session'[e] = "down"

(* A ready on its way to the client was so before, or a serving end sent it. *)
ReadySent ==
    "ready" \in Range(inflight'["client"]) => "ready" \in Range(inflight["client"]) \/ Serving'

(* What is queued was queued before, was on its way, or is the end of the    *)
(* transport.                                                                *)
Queued ==
    /\ "ready" \in Range(events'["client"]) =>
           "ready" \in Range(inflight["client"]) \cup Range(events["client"])
    /\ \A e \in End : "disconnected" \in Range(events'[e]) =>
           "disconnected" \in Range(events[e]) \/ session'[e] = "down"

(* The server goes on serving, and the client's start() returns on a ready.  *)
PhasesStep ==
    /\ Serving => Serving'
    /\ phase'["client"] \in {"running", "ended"} =>
           phase["client"] \in {"running", "ended"} \/ "ready" \in Range(events["client"])

(* An end that closes for a reason, but for the two exceptions, disconnects.  *)
ClosesStep ==
    \A e \in End : closed'[e] \notin {"open", "runtime error", "cancelled"} =>
        closed'[e] = closed[e] \/ session'[e] # "up"

StepOK == SessionsEnd /\ ReadySent /\ Queued /\ PhasesStep /\ ClosesStep

(* A step of the allowed kind keeps what messages and phases mean.           *)
LEMMA MeaningStep == ASSUME Meaning, StepOK PROVE Meaning'
<1> USE DEF Meaning, StepOK
<1>1. ReadyIsServed'
  BY DEF ReadyIsServed, ReadySent, Queued, PhasesStep
<1>2. EndIsDown'
  BY DEF EndIsDown, SessionsEnd, Queued
<1>3. ClientHasServer'
  BY DEF ClientHasServer, ReadyIsServed, PhasesStep, Serving
<1>4. ClosedEndsSession'
  BY DEF ClosedEndsSession, ClosesStep, SessionsEnd
<1> QED BY <1>1, <1>2, <1>3, <1>4

(* Fewer datagrams, fewer events.                                            *)
FewerInFlight == \A e \in End : Range(inflight'[e]) \subseteq Range(inflight[e])
FewerEvents   == \A e \in End : Range(events'[e]) \subseteq Range(events[e])

(* Losing datagrams or dropping events announces nothing new.                *)
LEMMA FewerStep ==
  /\ FewerInFlight => ReadySent
  /\ FewerEvents => Queued
  BY DEF FewerInFlight, FewerEvents, ReadySent, Queued, End

(* Sending a control message, which the network may carry or not.            *)
LEMMA SendOK ==
  ASSUME VpnTypeOK, NEW e \in End, NEW m \in Control, Send(e, m)
  PROVE  /\ session' = session /\ inflight' \in [End -> Seq(Control)]
         /\ (e = "server" /\ m = "ready" => Serving') => ReadySent
<1>1. session' = session /\ inflight' = Transmitted(e, m)
  BY DEF Send
<1>2. /\ inflight' \in [End -> Seq(Control)]
      /\ \A d \in End : d # Peer(e) => inflight'[d] = inflight[d]
      /\ Range(inflight'[Peer(e)]) \subseteq Range(inflight[Peer(e)]) \cup {m}
  <2>1. inflight \in [End -> Seq(Control)]
    BY DEF VpnTypeOK
  <2>2. /\ Transmitted(e, m) \in [End -> Seq(Control)]
        /\ \A d \in End : d # Peer(e) => Transmitted(e, m)[d] = inflight[d]
        /\ Range(Transmitted(e, m)[Peer(e)]) \subseteq Range(inflight[Peer(e)]) \cup {m}
    BY <2>1, TransmittedOK
  <2> QED BY <1>1, <2>2
<1>3. CASE e = "client"
  BY <1>1, <1>2, <1>3, PeerOK DEF ReadySent, End
<1>4. CASE e = "server"
  BY <1>1, <1>2, <1>4, PeerOK DEF ReadySent, End
<1> QED BY <1>3, <1>4 DEF End

(* disconnect() ends a session, and says so to the peer at best.             *)
LEMMA DisconnectOK ==
  ASSUME VpnTypeOK, NEW e \in End, Disconnect(e)
  PROVE  /\ session' \in [End -> {"up", "ending", "down"}]
         /\ inflight' \in [End -> Seq(Control)]
         /\ SessionsEnd /\ session'[e] # "up" /\ FewerInFlight
<1>1. session' \in [End -> {"up", "ending", "down"}] /\ SessionsEnd /\ session'[e] # "up"
  BY DEF Disconnect, VpnTypeOK, SessionsEnd
<1>2. inflight' \in [End -> Seq(Control)] /\ FewerInFlight
  BY DEF Disconnect, VpnTypeOK, FewerInFlight
<1> QED BY <1>1, <1>2

(* Events that are read or dropped take nothing else along.                  *)
LEMMA UnreadOK ==
  ASSUME VpnTypeOK, NEW e \in End, NEW rest \in Seq(Event),
         Range(rest) \subseteq Range(events[e]), UnreadDropped(e, rest)
  PROVE  events' \in [End -> Seq(Event)] /\ FewerEvents
<1> DEFINE q == IF phase'[e] \in {"starting", "running"} THEN rest ELSE <<>>
<1>1. q \in Seq(Event) /\ Range(q) \subseteq Range(events[e])
  BY RangeEmpty
<1>2. events' = [events EXCEPT ![e] = q]
  BY DEF UnreadDropped
<1> HIDE DEF q
<1>3. events' \in [End -> Seq(Event)] /\ \A d \in End : events'[d] = IF d = e THEN q ELSE events[d]
  BY <1>1, <1>2 DEF VpnTypeOK
<1> QED BY <1>1, <1>3 DEF FewerEvents

(* An attempt to start that fails closes what it opened.                     *)
LEMMA FailOK ==
  ASSUME VpnTypeOK, NEW e \in End, phase[e] = "starting", Fail(e)
  PROVE  /\ ConnType' \/ hellos' \notin 0..MaxHellos
         /\ session' \in [End -> {"up", "ending", "down"}]
         /\ inflight' \in [End -> Seq(Control)]
         /\ SessionsEnd /\ ReadySent /\ PhasesStep /\ ClosesStep
<1>1. /\ session' \in [End -> {"up", "ending", "down"}]
      /\ inflight' \in [End -> Seq(Control)]
      /\ SessionsEnd /\ ReadySent
  BY DisconnectOK, FewerStep DEF Fail
<1>2. PhasesStep
  BY DEF Fail, PhasesStep, Serving, VpnTypeOK, End
<1>3. ClosesStep
  BY DEF Fail, ClosesStep
<1>4. ConnType' \/ hellos' \notin 0..MaxHellos
  BY DEF Fail, VpnTypeOK, ConnType
<1> QED BY <1>1, <1>2, <1>3, <1>4

(* A started end: the client has read READY, the server serves.              *)
LEMMA StartedOK ==
  ASSUME VpnTypeOK, NEW e \in End, phase[e] = "starting", Started(e),
         e = "client" => "ready" \in Range(events[e])
  PROVE  /\ ConnType' \/ hellos' \notin 0..MaxHellos
         /\ PhasesStep /\ ClosesStep /\ (e = "server" => Serving')
<1>1. ConnType' \/ hellos' \notin 0..MaxHellos
  BY BoundsAssumption DEF Started, VpnTypeOK, ConnType
<1>2. phase' = [phase EXCEPT ![e] = "running"] /\ closed' = closed
  BY DEF Started
<1>3. PhasesStep /\ (e = "server" => Serving')
  BY <1>2 DEF PhasesStep, Serving, VpnTypeOK, End
<1>4. ClosesStep
  BY <1>2 DEF ClosesStep
<1> QED BY <1>1, <1>3, <1>4

-----------------------------------------------------------------------------
(* The handshake.                                                            *)
LEMMA HandshakeStep ==
  ASSUME VpnTypeOK, NEW e \in End, Handshake(e)
  PROVE  VpnTypeOK' /\ StepOK
<1> USE DEF StepOK
<1>0. VpnTypeOK' <=> ConnType' /\ NetType'
  BY DEF VpnTypeOK, ConnType, NetType
<1>1. CASE e = "client" /\ SendHello
  <2>1. phase[e] = "starting" /\ hellos < MaxHellos /\ UnreadDropped(e, events[e])
    BY <1>1 DEF SendHello
  <2>2. events' \in [End -> Seq(Event)] /\ FewerEvents
    BY <2>1, UnreadOK DEF VpnTypeOK
  <2>3. CASE hellos' = hellos + 1 /\ Send(e, "hello") /\ UNCHANGED conn
    <3>1. ConnType'
      BY <2>1, <2>3, BoundsAssumption DEF ConnType, VpnTypeOK, conn
    <3>2. session' = session /\ inflight' \in [End -> Seq(Control)] /\ ReadySent
      BY <1>1, <2>3, SendOK DEF Control
    <3>3. SessionsEnd /\ PhasesStep /\ ClosesStep
      BY <2>3, <3>2 DEF SessionsEnd, PhasesStep, ClosesStep, conn, Serving
    <3>4. NetType'
      BY <2>2, <3>2 DEF NetType, VpnTypeOK
    <3> QED BY <1>0, <2>2, <3>1, <3>2, <3>3, <3>4, FewerStep
  <2>4. CASE hellos' = 0 /\ Fail(e)
    <3>1. ConnType'
      BY <2>1, <2>4, FailOK, BoundsAssumption
    <3>2. NetType' /\ SessionsEnd /\ ReadySent /\ PhasesStep /\ ClosesStep
      BY <2>1, <2>2, <2>4, FailOK DEF NetType
    <3> QED BY <1>0, <2>2, <3>1, <3>2, FewerStep
  <2> QED BY <1>1, <2>3, <2>4 DEF SendHello
<1>2. CASE e = "client" /\ ReceiveReady
  <2>1. /\ phase[e] = "starting" /\ ControlAt(e) # {} /\ hellos' = 0
        /\ IF events[e][First(e)] = "ready" THEN Started(e) /\ UNCHANGED net ELSE Fail(e)
        /\ UnreadDropped(e, RemoveAt(events[e], First(e)))
    BY <1>2 DEF ReceiveReady, First
  <2>2. First(e) \in DOMAIN events[e] /\ events[e] \in Seq(Event)
    BY <2>1, FirstControl DEF VpnTypeOK
  <2>3. events' \in [End -> Seq(Event)] /\ FewerEvents
    BY <2>1, <2>2, UnreadOK, RangeRemoveAt
  <2>4. CASE events[e][First(e)] = "ready"
    <3>1. Started(e) /\ "ready" \in Range(events[e]) /\ UNCHANGED net
      BY <2>1, <2>2, <2>4 DEF Range
    <3>2. ConnType' /\ PhasesStep /\ ClosesStep
      BY <2>1, <3>1, StartedOK, BoundsAssumption
    <3>3. NetType' /\ SessionsEnd /\ FewerInFlight
      BY <2>3, <3>1 DEF NetType, VpnTypeOK, net, SessionsEnd, FewerInFlight
    <3> QED BY <1>0, <2>3, <3>2, <3>3, FewerStep
  <2>5. CASE events[e][First(e)] # "ready"
    <3>1. Fail(e)
      BY <2>1, <2>5
    <3>2. ConnType'
      BY <2>1, <3>1, FailOK, BoundsAssumption
    <3>3. NetType' /\ SessionsEnd /\ ReadySent /\ PhasesStep /\ ClosesStep
      BY <2>1, <2>3, <3>1, FailOK DEF NetType
    <3> QED BY <1>0, <2>3, <3>2, <3>3, FewerStep
  <2> QED BY <2>4, <2>5
<1>3. CASE e = "server" /\ ReceiveHello
  <2>1. /\ phase[e] = "starting" /\ ControlAt(e) # {} /\ UNCHANGED hellos
        /\ (Started(e) /\ Send(e, "ready")) \/ Fail(e)
        /\ UnreadDropped(e, RemoveAt(events[e], First(e)))
    BY <1>3 DEF ReceiveHello, First
  <2>2. First(e) \in DOMAIN events[e] /\ events[e] \in Seq(Event)
    BY <2>1, FirstControl DEF VpnTypeOK
  <2>3. events' \in [End -> Seq(Event)] /\ FewerEvents
    BY <2>1, <2>2, UnreadOK, RangeRemoveAt
  <2>4. CASE Started(e) /\ Send(e, "ready")
    <3>1. ConnType' /\ PhasesStep /\ ClosesStep /\ Serving'
      BY <1>3, <2>1, <2>4, StartedOK DEF VpnTypeOK
    <3>2. session' = session /\ inflight' \in [End -> Seq(Control)] /\ ReadySent
      BY <2>4, <3>1, SendOK DEF Control
    <3>3. NetType' /\ SessionsEnd
      BY <2>3, <3>2 DEF NetType, VpnTypeOK, SessionsEnd
    <3> QED BY <1>0, <2>3, <3>1, <3>2, <3>3, FewerStep
  <2>5. CASE Fail(e)
    <3>1. ConnType'
      BY <2>1, <2>5, FailOK DEF VpnTypeOK
    <3>2. NetType' /\ SessionsEnd /\ ReadySent /\ PhasesStep /\ ClosesStep
      BY <2>1, <2>3, <2>5, FailOK DEF NetType
    <3> QED BY <1>0, <2>3, <3>1, <3>2, FewerStep
  <2> QED BY <2>1, <2>4, <2>5
<1>4. CASE HandshakeTimeout(e)
  <2>1. phase[e] = "starting" /\ Fail(e) /\ UnreadDropped(e, events[e])
        /\ hellos' = IF e = "client" THEN 0 ELSE hellos
    BY <1>4 DEF HandshakeTimeout
  <2>2. events' \in [End -> Seq(Event)] /\ FewerEvents
    BY <2>1, UnreadOK DEF VpnTypeOK
  <2>3. ConnType'
    BY <2>1, FailOK, BoundsAssumption DEF VpnTypeOK
  <2>4. NetType' /\ SessionsEnd /\ ReadySent /\ PhasesStep /\ ClosesStep
    BY <2>1, <2>2, FailOK DEF NetType
  <2> QED BY <1>0, <2>2, <2>3, <2>4, FewerStep
<1> QED BY <1>1, <1>2, <1>3, <1>4 DEF Handshake
-----------------------------------------------------------------------------
(* _run() and the keepalive task.                                            *)
LEMMA RunStep ==
  ASSUME VpnTypeOK, EndIsDown, NEW e \in End, Run(e)
  PROVE  VpnTypeOK' /\ StepOK
<1> DEFINE m == Head(events[e])
<1>0. VpnTypeOK' <=> ConnType' /\ NetType'
  BY DEF VpnTypeOK, ConnType, NetType
<1>1. /\ phase[e] = "running" /\ events[e] # <<>> /\ HandleEvent(e, m)
      /\ UnreadDropped(e, Tail(events[e])) /\ UNCHANGED hellos
  BY DEF Run
<1>2. /\ m \in Event /\ m \in Range(events[e]) /\ Tail(events[e]) \in Seq(Event)
      /\ Range(Tail(events[e])) \subseteq Range(events[e])
  BY <1>1, RangeTail DEF VpnTypeOK
<1>3. events' \in [End -> Seq(Event)] /\ FewerEvents
  BY <1>1, <1>2, UnreadOK
<1>4. idle' \in [End -> 0..(MaxIdle + 1)]
  BY BoundsAssumption DEF Run, VpnTypeOK
<1> HIDE DEF m
<1>5. ASSUME Finish(e), NEW reason \in {"closed by peer", "transport", "runtime error"},
             MarkClosed(e, reason), reason # "runtime error" => session'[e] # "up"
      PROVE  ConnType' /\ PhasesStep /\ ClosesStep
  <2>1. ConnType'
    BY <1>1, <1>4, <1>5 DEF ConnType, VpnTypeOK, Finish, MarkClosed, Reason
  <2>2. PhasesStep
    BY <1>1, <1>5 DEF PhasesStep, Serving, VpnTypeOK, Finish, End
  <2>3. ClosesStep
    BY <1>5 DEF ClosesStep, VpnTypeOK, MarkClosed
  <2> QED BY <2>1, <2>2, <2>3
<1>6. ASSUME UNCHANGED <<phase, closed, keepalive>>
      PROVE  ConnType' /\ PhasesStep /\ ClosesStep
  BY <1>1, <1>4, <1>6 DEF ConnType, VpnTypeOK, PhasesStep, Serving, ClosesStep
<1>7. ASSUME UNCHANGED net PROVE NetType' /\ SessionsEnd /\ ReadySent
  <2>1. NetType' /\ SessionsEnd /\ FewerInFlight
    BY <1>3, <1>7 DEF NetType, VpnTypeOK, SessionsEnd, FewerInFlight, net
  <2> QED BY <2>1, FewerStep
<1>8. ASSUME NEW r \in {"ready", "pong"}, Answer(e, r)
      PROVE  ConnType' /\ NetType' /\ SessionsEnd /\ ReadySent /\ PhasesStep /\ ClosesStep
  <2>1. CASE Send(e, r) /\ UNCHANGED <<phase, closed, keepalive>>
    <3>1. e = "server" => Serving'
      BY <1>1, <2>1 DEF Serving
    <3>2. session' = session /\ inflight' \in [End -> Seq(Control)] /\ ReadySent
      BY <2>1, <3>1, SendOK DEF Control
    <3>3. NetType' /\ SessionsEnd
      BY <1>3, <3>2 DEF NetType, VpnTypeOK, SessionsEnd
    <3> QED BY <1>6, <2>1, <3>2, <3>3
  <2>2. CASE Finish(e) /\ MarkClosed(e, "runtime error") /\ UNCHANGED net
    BY <1>5, <1>7, <2>2
  <2> QED BY <1>8, <2>1, <2>2 DEF Answer
<1>9. CASE UNCHANGED <<phase, closed, keepalive, net>>
  BY <1>0, <1>3, <1>6, <1>7, <1>9, FewerStep DEF StepOK
<1>10. CASE Answer(e, "ready") \/ Answer(e, "pong")
  BY <1>0, <1>3, <1>8, <1>10, FewerStep DEF StepOK
<1>11. CASE MarkClosed(e, "closed by peer") /\ Disconnect(e) /\ Finish(e)
  <2>1. NetType' /\ SessionsEnd /\ FewerInFlight /\ session'[e] # "up"
    BY <1>3, <1>11, DisconnectOK DEF NetType
  <2>2. ConnType' /\ PhasesStep /\ ClosesStep
    BY <1>5, <1>11, <2>1
  <2> QED BY <1>0, <1>3, <2>1, <2>2, FewerStep DEF StepOK
<1>12. CASE m = "disconnected" /\ MarkClosed(e, "transport") /\ Finish(e) /\ UNCHANGED net
  <2>1. session'[e] # "up"
    BY <1>2, <1>12 DEF EndIsDown, net
  <2>2. ConnType' /\ PhasesStep /\ ClosesStep
    BY <1>5, <1>12, <2>1
  <2> QED BY <1>0, <1>3, <1>7, <1>12, <2>2, FewerStep DEF StepOK
<1> QED BY <1>1, <1>9, <1>10, <1>11, <1>12 DEF HandleEvent

(* The keepalive task wakes: it pings, or finds its peer silent.             *)
LEMMA KeepaliveStep ==
  ASSUME VpnTypeOK, NEW e \in End, KeepaliveWakes(e)
  PROVE  VpnTypeOK' /\ StepOK
<1>0. VpnTypeOK' <=> ConnType' /\ NetType'
  BY DEF VpnTypeOK, ConnType, NetType
<1>1. UNCHANGED <<phase, hellos, events>>
  BY DEF KeepaliveWakes
<1>2. PhasesStep /\ FewerEvents
  BY <1>1 DEF PhasesStep, Serving, FewerEvents
<1>3. ASSUME KeepaliveEnds(e), UNCHANGED <<closed, net>>
      PROVE  VpnTypeOK' /\ StepOK
  <2>1. ConnType'
    BY <1>1, <1>3, BoundsAssumption DEF ConnType, VpnTypeOK, KeepaliveEnds
  <2>2. NetType' /\ SessionsEnd /\ FewerInFlight /\ ClosesStep
    BY <1>1, <1>3 DEF NetType, VpnTypeOK, SessionsEnd, FewerInFlight, ClosesStep, net
  <2> QED BY <1>0, <1>2, <2>1, <2>2, FewerStep DEF StepOK
<1>4. ASSUME NEW reason \in Reason, GiveUp(e, reason)
      PROVE  VpnTypeOK' /\ StepOK
  <2>1. ConnType'
    BY <1>1, <1>4, BoundsAssumption
    DEF ConnType, VpnTypeOK, GiveUp, MarkClosed, KeepaliveEnds
  <2>2. NetType' /\ SessionsEnd /\ FewerInFlight /\ session'[e] # "up"
    BY <1>1, <1>4, DisconnectOK DEF NetType, VpnTypeOK, GiveUp
  <2>3. ClosesStep
    BY <1>4, <2>2 DEF ClosesStep, VpnTypeOK, GiveUp, MarkClosed
  <2> QED BY <1>0, <1>2, <2>1, <2>2, <2>3, FewerStep DEF StepOK
<1>5. ASSUME idle[e] <= MaxIdle, Send(e, "ping"), idle' = [idle EXCEPT ![e] = @ + 1],
             UNCHANGED <<closed, keepalive>>
      PROVE  VpnTypeOK' /\ StepOK
  <2>1. ConnType'
    <3>1. idle[e] \in 0..(MaxIdle + 1)
      BY DEF VpnTypeOK
    <3>2. idle[e] + 1 \in 0..(MaxIdle + 1)
      BY <1>5, <3>1, BoundsAssumption
    <3> QED BY <1>1, <1>5, <3>2 DEF ConnType, VpnTypeOK
  <2>2. session' = session /\ inflight' \in [End -> Seq(Control)] /\ ReadySent
    BY <1>5, SendOK DEF Control
  <2>3. NetType' /\ SessionsEnd /\ ClosesStep
    BY <1>1, <1>5, <2>2 DEF NetType, VpnTypeOK, SessionsEnd, ClosesStep
  <2> QED BY <1>0, <1>2, <2>1, <2>2, <2>3, FewerStep DEF StepOK
<1> QED BY <1>3, <1>4, <1>5 DEF KeepaliveWakes, Reason

-----------------------------------------------------------------------------
(* The application and the transport.                                        *)
LEMMA ApplicationStep ==
  ASSUME VpnTypeOK, NEW e \in End, Close(e) \/ WaitClosedTimesOut(e)
  PROVE  VpnTypeOK' /\ StepOK
<1>0. VpnTypeOK' <=> ConnType' /\ NetType'
  BY DEF VpnTypeOK, ConnType, NetType
<1>1. CASE Close(e)
  <2>1. /\ Transmitted(e, "close") \in [End -> Seq(Control)]
        /\ \A d \in End : d # Peer(e) => Transmitted(e, "close")[d] = inflight[d]
        /\ Range(Transmitted(e, "close")[Peer(e)])
               \subseteq Range(inflight[Peer(e)]) \cup {"close"}
    <3>1. inflight \in [End -> Seq(Control)] /\ "close" \in Control
      BY DEF VpnTypeOK, Control
    <3> QED BY <3>1, TransmittedOK
  <2>2. inflight' = Transmitted(e, "close")
    BY <1>1 DEF Close
  <2>3. inflight' \in [End -> Seq(Control)]
    BY <2>1, <2>2
  <2>4. "ready" \in Range(inflight'["client"]) => "ready" \in Range(inflight["client"])
    BY <2>1, <2>2, PeerOK DEF End
  <2>5. ConnType' /\ PhasesStep /\ ClosesStep /\ FewerEvents /\ events' = events
    BY <1>1 DEF Close, conn, ConnType, VpnTypeOK, PhasesStep, Serving, ClosesStep, FewerEvents
  <2>6. NetType' /\ SessionsEnd
    BY <1>1, <2>3, <2>5 DEF Close, NetType, VpnTypeOK, SessionsEnd
  <2> QED BY <1>0, <2>4, <2>5, <2>6, FewerStep DEF StepOK, ReadySent
<1>2. CASE WaitClosedTimesOut(e)
  <2>1. ConnType'
    BY <1>2 DEF WaitClosedTimesOut, ConnType, VpnTypeOK, Reason
  <2>2. NetType' /\ SessionsEnd /\ FewerInFlight /\ FewerEvents /\ PhasesStep
    BY <1>2 DEF WaitClosedTimesOut, net, NetType, VpnTypeOK, SessionsEnd, FewerInFlight,
                FewerEvents, PhasesStep, Serving
  <2>3. ClosesStep
    BY <1>2 DEF WaitClosedTimesOut, ClosesStep, VpnTypeOK
  <2> QED BY <1>0, <2>1, <2>2, <2>3, FewerStep DEF StepOK
<1> QED BY <1>1, <1>2

(* The steps of the node and the network.                                    *)
LEMMA TransportStep ==
  ASSUME VpnTypeOK, NEW e \in End, TornDown(e) \/ TransportEnds(e) \/ Lose(e) \/ Deliver(e)
  PROVE  VpnTypeOK' /\ StepOK
<1>0. VpnTypeOK' <=> ConnType' /\ NetType'
  BY DEF VpnTypeOK, ConnType, NetType
<1>1. UNCHANGED <<conn, hellos>>
  BY DEF TornDown, TransportEnds, Lose, Deliver
<1>2. ConnType' /\ PhasesStep /\ ClosesStep
  BY <1>1 DEF conn, ConnType, VpnTypeOK, PhasesStep, Serving, ClosesStep
<1>3. CASE TornDown(e)
  <2>1. SessionsEnd /\ session' \in [End -> {"up", "ending", "down"}] /\ session'[e] = "down"
    BY <1>3 DEF TornDown, SessionsEnd, VpnTypeOK
  <2>6. inflight' \in [End -> Seq(Control)] /\ FewerInFlight
    <3>1. inflight' = [inflight EXCEPT ![e] = <<>>]
      BY <1>3 DEF TornDown
    <3>2. \A d \in End : inflight'[d] = IF d = e THEN <<>> ELSE inflight[d]
      BY <3>1 DEF VpnTypeOK
    <3>3. FewerInFlight
      BY <3>2, RangeEmpty DEF FewerInFlight
    <3> QED BY <3>1, <3>3, RangeEmpty DEF VpnTypeOK
  <2>2. /\ events[e] \in Seq(Event) /\ "disconnected" \in Event
    BY DEF VpnTypeOK, Event
  <2>3. /\ Append(events[e], "disconnected") \in Seq(Event)
        /\ Range(Append(events[e], "disconnected")) = Range(events[e]) \cup {"disconnected"}
    BY <2>2, RangeAppend
  <2>4. CASE events' = [events EXCEPT ![e] = Append(@, "disconnected")]
    <3>1. /\ events' \in [End -> Seq(Event)]
          /\ \A d \in End : events'[d] = IF d = e THEN Append(events[e], "disconnected")
                                        ELSE events[d]
      BY <2>3, <2>4 DEF VpnTypeOK
    <3>2. \A d \in End : Range(events'[d]) \subseteq Range(events[d]) \cup
                              (IF d = e THEN {"disconnected"} ELSE {})
      BY <2>3, <3>1
    <3>3. Queued
      BY <2>1, <3>2 DEF Queued, End
    <3> QED BY <1>0, <1>2, <2>1, <2>6, <3>1, <3>3, FewerStep DEF NetType, StepOK
  <2>5. CASE events' = events
    BY <1>0, <1>2, <2>1, <2>5, <2>6, FewerStep DEF NetType, VpnTypeOK, StepOK, FewerEvents
  <2> QED BY <1>3, <2>4, <2>5 DEF TornDown
<1>4. CASE TransportEnds(e)
  <2>1. NetType' /\ SessionsEnd /\ FewerInFlight /\ FewerEvents
    BY <1>4, DisconnectOK DEF TransportEnds, NetType, VpnTypeOK, FewerEvents
  <2> QED BY <1>0, <1>2, <2>1, FewerStep DEF StepOK
<1>5. CASE Lose(e)
  <2>1. /\ inflight[e] \in Seq(Control) /\ inflight[e] # <<>>
        /\ inflight' = [inflight EXCEPT ![e] = Tail(@)] /\ UNCHANGED <<session, events>>
    BY <1>5 DEF Lose, VpnTypeOK
  <2>2. /\ Tail(inflight[e]) \in Seq(Control)
        /\ Range(Tail(inflight[e])) \subseteq Range(inflight[e])
    BY <2>1, RangeTail
  <2>3. NetType' /\ SessionsEnd
    BY <2>1, <2>2 DEF NetType, VpnTypeOK, SessionsEnd
  <2>4. FewerInFlight /\ FewerEvents
    BY <2>1, <2>2 DEF VpnTypeOK, FewerInFlight, FewerEvents
  <2> QED BY <1>0, <1>2, <2>3, <2>4, FewerStep DEF StepOK
<1>6. CASE Deliver(e)
  <2>1. PICK i \in DOMAIN inflight[e] :
          /\ inflight' = [inflight EXCEPT ![e] = RemoveAt(@, i)]
          /\ events' = IF Reads(e) THEN [events EXCEPT ![e] = Append(@, inflight[e][i])]
                       ELSE events
          /\ UNCHANGED session
    BY <1>6 DEF Deliver
  <2> DEFINE d == inflight[e][i]
  <2>2. /\ inflight[e] \in Seq(Control) /\ events[e] \in Seq(Event)
        /\ d \in Control /\ d \in Event /\ d \in Range(inflight[e])
        /\ d # "disconnected"
    <3>1. inflight[e] \in Seq(Control) /\ events[e] \in Seq(Event)
      BY DEF VpnTypeOK
    <3>2. d \in Control /\ d \in Range(inflight[e])
      BY <3>1 DEF Range
    <3> QED BY <3>1, <3>2 DEF Control, Event
  <2>3. RemoveAt(inflight[e], i) \in Seq(Control)
        /\ Range(RemoveAt(inflight[e], i)) \subseteq Range(inflight[e])
    BY <2>2, RangeRemoveAt
  <2>4. Append(events[e], d) \in Seq(Event)
        /\ Range(Append(events[e], d)) = Range(events[e]) \cup {d}
    BY <2>2, RangeAppend
  <2>5. inflight' = [inflight EXCEPT ![e] = RemoveAt(inflight[e], i)] /\ UNCHANGED session
    BY <2>1
  <2>6. events' = [events EXCEPT ![e] = Append(events[e], d)] \/ events' = events
    BY <2>1
  <2> HIDE DEF d
  <2>7. inflight' \in [End -> Seq(Control)] /\ FewerInFlight /\ SessionsEnd
    BY <2>3, <2>5 DEF VpnTypeOK, FewerInFlight, SessionsEnd
  <2>8. events' \in [End -> Seq(Event)]
        /\ \A c \in End : Range(events'[c]) \subseteq Range(events[c]) \cup
                              (IF c = e THEN {d} ELSE {})
    BY <2>4, <2>6 DEF VpnTypeOK
  <2>9. Queued
    BY <2>2, <2>8 DEF Queued, End
  <2>10. NetType'
    BY <2>5, <2>7, <2>8 DEF NetType, VpnTypeOK
  <2> QED BY <1>0, <1>2, <2>7, <2>9, <2>10, FewerStep DEF StepOK
<1> QED BY <1>3, <1>4, <1>5, <1>6

-----------------------------------------------------------------------------
(* Neither end has started at first.                                         *)
LEMMA VInit == Init => VInv
<1> SUFFICES ASSUME Init PROVE VInv
  OBVIOUS
<1>1. VpnTypeOK
  BY BoundsAssumption, RangeEmpty DEF Init, VpnTypeOK, Reason
<1>2. ReadyIsServed /\ EndIsDown
  BY RangeEmpty DEF Init, ReadyIsServed, EndIsDown, End
<1>3. ClientHasServer /\ ClosedEndsSession
  BY DEF Init, ClientHasServer, ClosedEndsSession, End
<1> QED BY <1>1, <1>2, <1>3 DEF VInv, Meaning

(* Every step keeps the invariant, one action at a time.                     *)
LEMMA VStep == VInv /\ [Next]_vars => VInv'
<1> SUFFICES ASSUME VInv, [Next]_vars PROVE VInv'
  OBVIOUS
<1>1. VpnTypeOK /\ Meaning /\ EndIsDown
  BY DEF VInv, Meaning
<1>2. CASE UNCHANGED vars
  <2>1. VpnTypeOK'
    BY <1>1, <1>2 DEF vars, conn, net, VpnTypeOK
  <2>2. Meaning'
    BY <1>1, <1>2 DEF vars, conn, net, Meaning, ReadyIsServed, Serving, EndIsDown,
                      ClientHasServer, ClosedEndsSession
  <2> QED BY <2>1, <2>2 DEF VInv
<1>3. ASSUME NEW e \in End,
             \/ Handshake(e) \/ Run(e) \/ KeepaliveWakes(e)
             \/ Close(e) \/ WaitClosedTimesOut(e)
             \/ TornDown(e) \/ TransportEnds(e) \/ Lose(e) \/ Deliver(e)
      PROVE  VInv'
  <2>1. VpnTypeOK' /\ StepOK
    BY <1>1, <1>3, HandshakeStep, RunStep, KeepaliveStep, ApplicationStep, TransportStep
  <2> QED BY <1>1, <2>1, MeaningStep DEF VInv
<1> QED BY <1>2, <1>3 DEF Next

(* The inductive invariant holds in every state.                             *)
THEOREM VInvAlways == Spec => []VInv
  BY VInit, VStep, PTL DEF Spec

(* Types; and the keepalive task wakes at most once after the timeout without *)
(* giving up (_run_keepalive).                                               *)
THEOREM VpnTypeAlways == Spec => []VpnTypeOK
<1>1. VInv => VpnTypeOK
  BY DEF VInv
<1> QED BY <1>1, VInvAlways, PTL

(* A client whose start() returned has a server whose start() returned,       *)
(* however hellos are repeated and datagrams lost or reordered.              *)
THEOREM ClientAlwaysHasServer == Spec => []ClientHasServer
<1>1. VInv => ClientHasServer
  BY DEF VInv, Meaning
<1> QED BY <1>1, VInvAlways, PTL

(* However receive loop, keepalive, close() and the transport race, a closed  *)
(* connection has given its session up, but for the two paths that do not    *)
(* disconnect.                                                               *)
THEOREM ClosedAlwaysEndsSession == Spec => []ClosedEndsSession
<1>1. VInv => ClosedEndsSession
  BY DEF VInv, Meaning
<1> QED BY <1>1, VInvAlways, PTL
=============================================================================
