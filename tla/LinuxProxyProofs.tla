-------------------------- MODULE LinuxProxyProofs --------------------------
(* Proofs about LinuxProxy, for any sessions, clients and network.           *)
EXTENDS LinuxProxy, TLAPS

Leased(p) == {s \in Session : p.leases[s] # NoAddress}
Pumped    == {s \in Session : pump[s] # "off"}

-----------------------------------------------------------------------------
(* What the pool's operations keep, whatever the pool was used for before.   *)

LEMMA NoAddressNew == NoAddress \notin Address /\ NoSession \notin Session
  BY PoolAssumption DEF Address, NoAddress

LEMMA EmptyPoolOK == EmptyPool \in Pool /\ Consistent(EmptyPool) /\ Leased(EmptyPool) = {}
  BY NoAddressNew DEF EmptyPool, Pool, Consistent, Leased

(* release() keeps the pool consistent and frees exactly one session.        *)
LEMMA ReleaseOK ==
    ASSUME NEW p \in Pool, Consistent(p), NEW s \in Session
    PROVE  /\ Release(p, s) \in Pool
           /\ Consistent(Release(p, s))
           /\ Leased(Release(p, s)) = Leased(p) \ {s}
           /\ \A r \in Session \ {s} : Release(p, s).leases[r] = p.leases[r]
<1>1. CASE p.leases[s] = NoAddress
  BY <1>1 DEF Release, Leased
<1>2. CASE p.leases[s] # NoAddress
  <2> DEFINE a == p.leases[s]
             q == Release(p, s)
  <2>1. a \in Address /\ p.owner[a] = s
    BY <1>2 DEF Pool, Consistent
  <2>2. q = [leases |-> [p.leases EXCEPT ![s] = NoAddress],
             owner  |-> [p.owner EXCEPT ![a] = NoSession]]
    BY <1>2 DEF Release
  <2>3. q \in Pool
    BY <2>1, <2>2 DEF Pool
  <2>4. /\ \A r \in Session : q.leases[r] = IF r = s THEN NoAddress ELSE p.leases[r]
        /\ \A b \in Address : q.owner[b] = IF b = a THEN NoSession ELSE p.owner[b]
    BY <2>1, <2>2 DEF Pool
  <2>5. ASSUME NEW r \in Session, q.leases[r] # NoAddress
        PROVE  q.owner[q.leases[r]] = r
    <3>1. r # s /\ q.leases[r] = p.leases[r]
      BY <2>4, <2>5
    <3>2. p.leases[r] \in Address /\ p.owner[p.leases[r]] = r
      BY <3>1, <2>5 DEF Pool, Consistent
    <3> QED BY <3>1, <3>2, <2>1, <2>4
  <2>6. ASSUME NEW b \in Address, q.owner[b] # NoSession
        PROVE  b \notin {0, Size - 1, ServerIp} /\ q.leases[q.owner[b]] = b
    <3>1. b # a /\ q.owner[b] = p.owner[b]
      BY <2>4, <2>6
    <3>2. p.owner[b] \in Session /\ p.leases[p.owner[b]] = b
      BY <3>1, <2>6 DEF Pool, Consistent
    <3>3. p.owner[b] # s
      BY <3>1, <3>2
    <3> QED BY <3>1, <3>2, <3>3, <2>4, <2>6 DEF Consistent
  <2>7. Leased(q) = Leased(p) \ {s}
    BY <2>4 DEF Leased
  <2> QED BY <2>3, <2>4, <2>5, <2>6, <2>7 DEF Consistent
<1> QED BY <1>1, <1>2

(* allocate() keeps the pool consistent and leases to exactly one session.   *)
LEMMA AllocateOK ==
    ASSUME NEW p \in Pool, Consistent(p), NEW s \in Session, NEW r \in Requested,
           ~Exhausted(p, s, r)
    PROVE  /\ Allocate(p, s, r) \in Pool
           /\ Consistent(Allocate(p, s, r))
           /\ Leased(Allocate(p, s, r)) = Leased(p) \cup {s}
           /\ Allocate(p, s, r).leases[s] \in Address
           /\ \A t \in Session \ {s} : Allocate(p, s, r).leases[t] = p.leases[t]
<1>1. CASE p.leases[s] # NoAddress
  BY <1>1 DEF Allocate, Leased, Pool
<1>2. CASE p.leases[s] = NoAddress
  <2> DEFINE a == CHOOSE a \in Selectable(p, r) : TRUE
             q == Allocate(p, s, r)
  <2>1. a \in Selectable(p, r)
    BY <1>2 DEF Exhausted
  <2>2. a \in Address /\ a \notin {0, Size - 1, ServerIp} /\ p.owner[a] = NoSession
    BY <2>1 DEF Selectable, IsAvailable
  <2>3. q = [leases |-> [p.leases EXCEPT ![s] = a],
             owner  |-> [p.owner EXCEPT ![a] = s]]
    BY <1>2 DEF Allocate
  <2> HIDE DEF a
  <2>4. q \in Pool
    BY <2>2, <2>3 DEF Pool
  <2>5. /\ \A t \in Session : q.leases[t] = IF t = s THEN a ELSE p.leases[t]
        /\ \A b \in Address : q.owner[b] = IF b = a THEN s ELSE p.owner[b]
    BY <2>2, <2>3 DEF Pool
  <2>6. ASSUME NEW t \in Session, q.leases[t] # NoAddress
        PROVE  q.owner[q.leases[t]] = t
    <3>1. CASE t = s
      BY <3>1, <2>2, <2>5
    <3>2. CASE t # s
      <4>1. q.leases[t] = p.leases[t] /\ p.leases[t] \in Address /\ p.owner[p.leases[t]] = t
        BY <3>2, <2>5, <2>6 DEF Pool, Consistent
      <4>2. p.leases[t] # a
        BY <4>1, <2>2, NoAddressNew
      <4> QED BY <4>1, <4>2, <2>5
    <3> QED BY <3>1, <3>2
  <2>7. ASSUME NEW b \in Address, q.owner[b] # NoSession
        PROVE  b \notin {0, Size - 1, ServerIp} /\ q.leases[q.owner[b]] = b
    <3>1. CASE b = a
      BY <3>1, <2>2, <2>5
    <3>2. CASE b # a
      <4>1. q.owner[b] = p.owner[b] /\ p.owner[b] \in Session /\ p.leases[p.owner[b]] = b
            /\ b \notin {0, Size - 1, ServerIp}
        BY <3>2, <2>5, <2>7 DEF Pool, Consistent
      <4>2. p.owner[b] # s
        BY <4>1, <1>2, NoAddressNew
      <4> QED BY <4>1, <4>2, <2>5
    <3> QED BY <3>1, <3>2
  <2>8. Leased(q) = Leased(p) \cup {s}
    BY <2>5, <2>2, NoAddressNew DEF Leased
  <2> QED BY <2>2, <2>4, <2>5, <2>6, <2>7, <2>8 DEF Consistent
<1> QED BY <1>1, <1>2

-----------------------------------------------------------------------------
(* The server's tables.  A closing server may hold a lease that its accept   *)
(* loop took for a session it never registered; no other server does.        *)

Agree ==
    /\ registered = Pumped
    /\ registered \subseteq Leased(pool)
    /\ server # "closing" => Leased(pool) = registered

TInv == ProxyTypeOK /\ PoolConsistent /\ Agree

LEMMA InitTInv == Init => TInv
<1> SUFFICES ASSUME Init PROVE TInv
  OBVIOUS
<1>1. NoAddress \in Requested /\ BaseDelay \in BaseDelay..MaxDelay
  BY PoolAssumption, ProxyAssumption DEF Requested, NoAddress
<1>2. ProxyTypeOK
  BY <1>1, EmptyPoolOK DEF Init, ProxyTypeOK, Side
<1>3. PoolConsistent /\ Agree
  BY EmptyPoolOK DEF Init, PoolConsistent, Agree, Pumped
<1> QED BY <1>2, <1>3 DEF TInv

LEMMA CloseServerEndType ==
    ASSUME ProxyTypeOK, NEW S
    PROVE  /\ CloseServerEnd(S) \in
                [Session -> [Side -> {"new", "starting", "open", "closed", "rejected"}]]
           /\ \A s \in Session : /\ CloseServerEnd(S)[s]["client"] = link[s]["client"]
                                 /\ CloseServerEnd(S)[s]["server"] = "new"
                                        <=> link[s]["server"] = "new"
  BY DEF CloseServerEnd, ProxyTypeOK, Side, Open

(* Whatever ends the service of one session keeps the tables in step.        *)
LEMMA RaisesTInv ==
    ASSUME TInv, NEW s \in Session, PumpRaises(s)
    PROVE  TInv'
<1> USE DEF TInv, PoolConsistent
<1>1. pool' \in Pool /\ Consistent(pool') /\ Leased(pool') = Leased(pool) \ {s}
  BY ReleaseOK DEF ProxyTypeOK, PumpRaises, Remove
<1>2. ProxyTypeOK'
  BY <1>1, CloseServerEndType DEF ProxyTypeOK, PumpRaises, Remove
<1>3. Agree'
  BY <1>1 DEF Agree, Pumped, PumpRaises, Remove, ProxyTypeOK
<1> QED BY <1>1, <1>2, <1>3

LEMMA ExitTInv == ASSUME TInv, Exit PROVE TInv'
<1>1. ProxyTypeOK'
  BY EmptyPoolOK, CloseServerEndType DEF TInv, ProxyTypeOK, Exit
<1>2. PoolConsistent' /\ Agree'
  BY EmptyPoolOK DEF Exit, PoolConsistent, Agree, Pumped
<1> QED BY <1>1, <1>2 DEF TInv

LEMMA AcceptTInv == ASSUME TInv, Accept PROVE TInv'
<1> USE DEF TInv, PoolConsistent
<1> DEFINE s == Head(backlog)
<1>1. s \in Session /\ backlog' \in Seq(Session) /\ offer[s] \in Requested
  BY DEF Accept, ProxyTypeOK
<1>2. CASE Admit(s)
  <2>1. /\ pool' \in Pool /\ Consistent(pool')
        /\ Leased(pool') = Leased(pool) \cup {s} /\ pool'.leases[s] \in Address
    BY <1>1, <1>2, AllocateOK DEF Admit, ProxyTypeOK
  <2>2. ProxyTypeOK'
    <3>1. pool'.leases[s] \in Requested
      BY <2>1, PoolAssumption DEF Requested, Address
    <3>2. link' \in [Session -> [Side -> {"new", "starting", "open", "closed", "rejected"}]]
      BY <1>2 DEF Admit, Set, ProxyTypeOK, Side
    <3>3. offer' \in [Session -> Requested] /\ registered' \subseteq Session
          /\ pump' \in [Session -> {"off", "reading"} \cup Session]
      BY <1>1, <1>2, <3>1 DEF Admit, Register, ProxyTypeOK
    <3> QED BY <1>1, <1>2, <2>1, <3>2, <3>3 DEF Accept, Admit, ProxyTypeOK
  <2>3. Agree'
    BY <1>1, <1>2, <2>1, ProxyAssumption DEF Accept, Admit, Register, Agree, Pumped, ProxyTypeOK
  <2> QED BY <2>1, <2>2, <2>3
<1>3. CASE Reject(s)
  <2>1. pool' \in Pool /\ Consistent(pool') /\ Leased(pool) \subseteq Leased(pool')
    BY <1>1, <1>3, AllocateOK DEF Reject, ProxyTypeOK
  <2>2. ProxyTypeOK'
    BY <1>1, <1>3, <2>1 DEF Accept, Reject, Set, ProxyTypeOK, Side
  <2>3. Agree'
    BY <1>3, <2>1 DEF Accept, Reject, Agree, Pumped
  <2> QED BY <2>1, <2>2, <2>3
<1> QED BY <1>2, <1>3 DEF Accept

(* The clients and the connections touch none of the tables.                 *)
LEMMA OutsideTInv ==
    ASSUME TInv, UNCHANGED <<server, pool, registered, pump>>, ProxyTypeOK'
    PROVE  TInv'
  BY DEF TInv, PoolConsistent, Agree, Pumped

LEMMA ClientType ==
    ASSUME ProxyTypeOK, NEW c \in Client, ClientNext(c)
    PROVE  ProxyTypeOK' /\ UNCHANGED <<server, tables, tun_pump>>
<1> USE DEF ProxyTypeOK
<1>d. BaseDelay \in BaseDelay..MaxDelay
  BY ProxyAssumption
<1>a. NoAddress \in Requested
  BY PoolAssumption DEF NoAddress, Requested
<1>s. ASSUME NEW s, NEW state \in {"starting", "open", "closed"}
      PROVE  [link EXCEPT ![s]["client"] = state]
               \in [Session -> [Side -> {"new", "starting", "open", "closed", "rejected"}]]
  BY DEF Side
<1>e. ASSUME NEW at \in {"idle", "sleeping"}, NEW delay \in BaseDelay..MaxDelay, End(c, at, delay)
      PROVE  ProxyTypeOK' /\ UNCHANGED <<server, tables, tun_pump>>
  <2>1. link' \in [Session -> [Side -> {"new", "starting", "open", "closed", "rejected"}]]
    <3>1. [link EXCEPT ![client[c].sid]["client"] = "closed"]
            \in [Session -> [Side -> {"new", "starting", "open", "closed", "rejected"}]]
      BY <1>s
    <3>2. link' \in {link, [link EXCEPT ![client[c].sid]["client"] = "closed"]}
      BY <1>e DEF End, Set
    <3> QED BY <3>1, <3>2
  <2>2. client' \in [Client -> [at: {"idle", "connecting", "running", "sleeping"},
             sid: Session \cup {NoSession}, delay: BaseDelay..MaxDelay, tun: Requested]]
    BY <1>e, <1>a DEF End, Goto
  <2> QED BY <1>e, <2>1, <2>2 DEF End, serverside, tables
<1>1. CASE Connect(c)
  <2> DEFINE s == CHOOSE s \in Fresh : TRUE
  <2>1. s \in Session
    BY <1>1 DEF Connect, Fresh
  <2>2. Static[c] \in Requested
    BY ProxyAssumption
  <2> HIDE DEF s
  <2>3. /\ Goto(c, "connecting", s, NoAddress, client[c].delay)
        /\ Set(s, "client", "starting")
        /\ backlog' = Append(backlog, s)
        /\ offer' = [offer EXCEPT ![s] = Static[c]]
        /\ UNCHANGED <<server, tables, tun_pump>>
    BY <1>1 DEF Connect, s
  <2> QED BY <2>1, <2>2, <2>3, <1>a, <1>s DEF Goto, Set, tables
<1>2. CASE ConnectFails(c) \/ TunFails(c)
  BY <1>2, <1>e DEF ConnectFails, TunFails, Raise
<1>3. CASE Ready(c)
  BY <1>3, <1>s DEF Ready, Goto, Set, serverside, tables
<1>4. CASE TunPacket(c) \/ TunEOF(c)
  BY <1>4, <1>d, <1>e DEF TunPacket, TunEOF, Return
<1>5. CASE Wake(c)
  <2>1. client[c].delay \in Nat
    BY ProxyAssumption
  <2>2. AtMost(MaxDelay, AtLeast(BaseDelay, 2 * client[c].delay)) \in BaseDelay..MaxDelay
    BY <2>1, ProxyAssumption DEF AtMost, AtLeast
  <2> QED BY <1>5, <2>2 DEF Wake, serverside, tables
<1> QED BY <1>1, <1>2, <1>3, <1>4, <1>5 DEF ClientNext

LEMMA NextTInv == ASSUME TInv, [Next]_vars PROVE TInv'
<1> USE DEF TInv
<1>1. CASE Accept
  BY <1>1, AcceptTInv
<1>2. CASE TunPumpHeldUp \/ TunPumpRetries \/ Restart
  <2>1. ProxyTypeOK'
    BY <1>2, NoAddressNew DEF TunPumpHeldUp, TunPumpRetries, Restart, Serves, tables, ProxyTypeOK
  <2> QED BY <1>2, <2>1
      DEF TunPumpHeldUp, TunPumpRetries, Restart, tables, PoolConsistent, Agree, Pumped
<1>3. CASE TunPumpEnds
  BY <1>3 DEF TunPumpEnds, tables, ProxyTypeOK, PoolConsistent, Agree, Pumped
<1>4. CASE ShutdownDone \/ Crash
  BY <1>4, ExitTInv DEF ShutdownDone, Crash
<1>5. ASSUME NEW s \in Session, PumpHeldUp(s)
      PROVE  TInv'
  <2>1. PICK peer \in registered : pump' = [pump EXCEPT ![s] = peer]
    BY <1>5 DEF PumpHeldUp, Serves
  <2>2. pump[s] = "reading" /\ UNCHANGED <<server, pool, registered, tun_pump, backlog, link, offer, client>>
    BY <1>5 DEF PumpHeldUp
  <2>3. ProxyTypeOK'
    BY <2>1, <2>2 DEF ProxyTypeOK
  <2>4. Agree'
    BY <2>1, <2>2, ProxyAssumption DEF Agree, Pumped, ProxyTypeOK
  <2> QED BY <2>2, <2>3, <2>4 DEF PoolConsistent
<1>6. ASSUME NEW s \in Session, PumpRetries(s)
      PROVE  TInv'
  <2>1. CASE PumpRaises(s)
    BY <2>1, RaisesTInv
  <2>2. CASE pump[s] \in Session /\ pump' = [pump EXCEPT ![s] = "reading"]
             /\ UNCHANGED <<server, pool, registered, tun_pump, backlog, link, offer, client>>
    <3>1. ProxyTypeOK'
      BY <2>2 DEF ProxyTypeOK
    <3>2. Agree'
      BY <2>2, ProxyAssumption DEF Agree, Pumped, ProxyTypeOK
    <3> QED BY <2>2, <3>1, <3>2 DEF PoolConsistent
  <2> QED BY <1>6, <2>1, <2>2 DEF PumpRetries
<1>7. ASSUME NEW s \in Session, PumpFails(s) \/ Shutdown(s)
      PROVE  TInv'
  BY <1>7, RaisesTInv DEF PumpFails, Shutdown
<1>8. ASSUME NEW c \in Client, ClientNext(c)
      PROVE  TInv'
  BY <1>8, ClientType, OutsideTInv DEF tables
<1>9. ASSUME NEW s \in Session, NEW e \in Side, LinkFails(s, e)
      PROVE  TInv'
  <2>1. ProxyTypeOK'
    BY <1>9 DEF LinkFails, Set, serverside, tables, ProxyTypeOK
  <2> QED BY <1>9, <2>1, OutsideTInv DEF LinkFails, serverside, tables
<1>10. CASE UNCHANGED vars
  BY <1>10 DEF vars, serverside, tables, ProxyTypeOK, PoolConsistent, Agree, Pumped
<1> QED
  BY <1>1, <1>2, <1>3, <1>4, <1>5, <1>6, <1>7, <1>8, <1>9, <1>10 DEF Next, ServerNext

(* The inductive invariant: types, the pool, and the tables that agree while  *)
(* the server serves or shuts down.                                          *)
THEOREM TInvAlways == Spec => []TInv
  BY InitTInv, NextTInv, PTL DEF Spec

(* For any network, any number of clients and sessions and any addresses     *)
(* asked for: the two maps of the address pool are each other's inverse.     *)
THEOREM PoolAlwaysConsistent == Spec => []PoolConsistent
  BY TInvAlways, PTL DEF TInv

(* ... and the lease, routing and pump tables name the same sessions.        *)
THEOREM TablesAlwaysAgree == Spec => []TablesAgree
<1>1. TInv => TablesAgree
  BY DEF TInv, Agree, TablesAgree, Pumped, Leased
<1> QED BY <1>1, TInvAlways, PTL

(* Every variable keeps its type; the reconnect delay of run_forever() stays  *)
(* between reconnect_delay and max_reconnect_delay.                          *)
THEOREM ProxyTypeAlways == Spec => []ProxyTypeOK
  BY TInvAlways, PTL DEF TInv

-----------------------------------------------------------------------------
(* Which session a tunnel address belongs to, on both sides.                 *)

OfferIsLease ==
    \A s \in registered : offer[s] = pool.leases[s] /\ link[s]["server"] # "new"

Waiting ==
    /\ \A i \in 1..Len(backlog) : /\ link[backlog[i]]["server"] = "new"
                                  /\ link[backlog[i]]["client"] # "new"
    /\ \A i, j \in 1..Len(backlog) : i # j => backlog[i] # backlog[j]

Busy(c) == client[c].at \in {"connecting", "running"}

TunIsOffer ==
    \A c \in Client :
        /\ Busy(c) => client[c].sid \in Session
        /\ client[c].sid \in Session => link[client[c].sid]["client"] # "new"
        /\ client[c].at = "running" => /\ link[client[c].sid]["server"] # "new"
                                       /\ client[c].tun = offer[client[c].sid]

OwnSession ==
    /\ \A c, d \in Client : c # d /\ Busy(c) /\ Busy(d) => client[c].sid # client[d].sid
    /\ \A s \in Session : link[s]["client"] = "new" => link[s]["server"] = "new"

SInv == OfferIsLease /\ Waiting /\ TunIsOffer /\ OwnSession

LEMMA InitSInv == Init => SInv
  BY NoAddressNew DEF Init, SInv, OfferIsLease, Waiting, TunIsOffer, OwnSession, Busy, Side

(* A step that keeps which ends are new, the offers, the queue and the       *)
(* clients, and takes sessions off the server.                               *)
LEMMA ServerStepSInv ==
    ASSUME TInv, SInv,
           registered' \subseteq registered,
           \A s \in registered' : pool'.leases[s] = pool.leases[s],
           \A s \in Session : /\ link'[s]["client"] = link[s]["client"]
                              /\ link'[s]["server"] = "new" <=> link[s]["server"] = "new",
           backlog' \in {backlog, <<>>}, UNCHANGED <<offer, client>>
    PROVE  SInv'
<1> USE DEF TInv, ProxyTypeOK, SInv
<1>1. OfferIsLease'
  BY DEF OfferIsLease
<1>2. Waiting'
  BY DEF Waiting
<1>3. TunIsOffer' /\ OwnSession'
  BY DEF TunIsOffer, OwnSession, Busy
<1> QED BY <1>1, <1>2, <1>3

LEMMA RaisesSInv ==
    ASSUME TInv, SInv, NEW s \in Session, PumpRaises(s)
    PROVE  SInv'
<1>1. \A r \in registered' : pool'.leases[r] = pool.leases[r]
  BY ReleaseOK DEF PumpRaises, Remove, TInv, ProxyTypeOK, PoolConsistent
<1>2. \A r \in Session : /\ link'[r]["client"] = link[r]["client"]
                         /\ link'[r]["server"] = "new" <=> link[r]["server"] = "new"
  BY CloseServerEndType DEF PumpRaises, Remove, TInv
<1> QED BY <1>1, <1>2, ServerStepSInv DEF PumpRaises, Remove

LEMMA AcceptSInv == ASSUME TInv, SInv, Accept PROVE SInv'
<1> USE DEF TInv, ProxyTypeOK, SInv
<1> DEFINE s == Head(backlog)
<1>1. /\ s \in Session /\ backlog # <<>> /\ backlog \in Seq(Session)
      /\ backlog' = Tail(backlog) /\ UNCHANGED client
      /\ s = backlog[1] /\ 1 \in 1..Len(backlog)
  BY DEF Accept
<1>2. link[s]["server"] = "new" /\ link[s]["client"] # "new"
  BY <1>1 DEF Waiting
<1>3. \A i \in 1..Len(backlog') : /\ i + 1 \in 1..Len(backlog) /\ backlog'[i] = backlog[i + 1]
                                  /\ backlog'[i] \in Session
  BY <1>1
<1>4. \A i \in 1..Len(backlog') : backlog'[i] # s
  BY <1>1, <1>3 DEF Waiting
<1>5. ASSUME NEW state \in {"open", "rejected"}, Set(s, "server", state)
      PROVE  /\ Waiting' /\ \A r \in Session : link'[r]["client"] = link[r]["client"]
             /\ \A r \in Session \ {s} : link'[r] = link[r]
             /\ link'[s]["server"] = state
  <2>1. /\ \A r \in Session : link'[r]["client"] = link[r]["client"]
        /\ \A r \in Session \ {s} : link'[r] = link[r]
        /\ link'[s]["server"] = state
    BY <1>1, <1>5 DEF Set, Side
  <2>2. \A i \in 1..Len(backlog') : link'[backlog'[i]] = link[backlog[i + 1]]
    BY <1>3, <1>4, <2>1
  <2>3. ASSUME NEW i \in 1..Len(backlog'), NEW j \in 1..Len(backlog'), i # j
        PROVE  backlog'[i] # backlog'[j]
    BY <1>3, <2>3 DEF Waiting
  <2>4. ASSUME NEW i \in 1..Len(backlog')
        PROVE  link'[backlog'[i]]["server"] = "new" /\ link'[backlog'[i]]["client"] # "new"
    BY <1>3, <2>2 DEF Waiting
  <2>5. Waiting'
    BY <2>3, <2>4 DEF Waiting
  <2> QED BY <2>1, <2>5
<1>6. s \notin registered
  BY <1>2 DEF OfferIsLease
<1>7. \A c \in Client : client[c].at = "running" => client[c].sid # s
  BY <1>2 DEF TunIsOffer
<1>8. CASE Admit(s)
  <2>1. /\ \A r \in Session \ {s} : pool'.leases[r] = pool.leases[r]
        /\ registered' = registered \cup {s}
        /\ offer' = [offer EXCEPT ![s] = pool'.leases[s]]
    BY <1>1, <1>8, AllocateOK DEF Admit, Register, PoolConsistent
  <2>2. OfferIsLease'
    BY <1>1, <1>5, <1>6, <1>8, <2>1 DEF Admit, OfferIsLease
  <2>3. TunIsOffer'
    <3>1. \A r \in Session : link[r]["server"] # "new" =>
              link'[r]["server"] # "new" /\ offer'[r] = offer[r]
      BY <1>2, <1>5, <1>8, <2>1 DEF Admit
    <3>2. \A c \in Client : Busy(c)' <=> Busy(c)
      BY <1>1 DEF Busy
    <3>3. \A c \in Client : client[c].at = "running" => client[c].sid \in Session
      BY DEF TunIsOffer, Busy
    <3> QED BY <1>1, <1>5, <1>8, <3>1, <3>2, <3>3 DEF Admit, TunIsOffer
  <2>4. OwnSession'
    BY <1>1, <1>2, <1>5, <1>8 DEF Admit, OwnSession, Busy
  <2> QED BY <1>5, <1>8, <2>2, <2>3, <2>4 DEF Admit
<1>9. CASE Reject(s)
  <2>1. \A r \in Session \ {s} : pool'.leases[r] = pool.leases[r]
    BY <1>1, <1>9, AllocateOK DEF Reject, PoolConsistent
  <2>2. OfferIsLease'
    BY <1>1, <1>5, <1>6, <1>9, <2>1 DEF Reject, OfferIsLease
  <2>3. TunIsOffer' /\ OwnSession'
    BY <1>1, <1>2, <1>5, <1>7, <1>9 DEF Reject, TunIsOffer, OwnSession, Busy
  <2> QED BY <1>5, <1>9, <2>2, <2>3 DEF Reject
<1> QED BY <1>8, <1>9 DEF Accept

LEMMA ConnectSInv == ASSUME TInv, SInv, NEW c \in Client, Connect(c) PROVE SInv'
<1> USE DEF TInv, ProxyTypeOK, SInv
<1> DEFINE s == CHOOSE s \in Fresh : TRUE
<1>1. s \in Session /\ link[s]["client"] = "new"
  BY DEF Connect, Fresh
<1> HIDE DEF s
<1>2. /\ Goto(c, "connecting", s, NoAddress, client[c].delay)
      /\ link' = [link EXCEPT ![s]["client"] = "starting"]
      /\ backlog' = Append(backlog, s)
      /\ offer' = [offer EXCEPT ![s] = Static[c]]
      /\ UNCHANGED <<server, tables, tun_pump>>
  BY DEF Connect, Set, s
<1>3. /\ link'[s]["client"] = "starting" /\ link'[s]["server"] = "new"
      /\ \A r \in Session \ {s} : link'[r] = link[r]
  BY <1>1, <1>2 DEF Side, OwnSession
<1>4. s \notin registered /\ \A i \in 1..Len(backlog) : backlog[i] # s
  BY <1>1 DEF OfferIsLease, OwnSession, Waiting
<1>5. \A d \in Client : Busy(d) => client[d].sid # s
  BY <1>1 DEF TunIsOffer
<1>6. OfferIsLease'
  BY <1>1, <1>2, <1>3, <1>4 DEF tables, OfferIsLease
<1>7. Waiting'
  <2>1. /\ Len(backlog') = Len(backlog) + 1 /\ backlog'[Len(backlog) + 1] = s
        /\ \A i \in 1..Len(backlog) : backlog'[i] = backlog[i] /\ backlog[i] \in Session
    BY <1>1, <1>2
  <2>2. \A i \in 1..Len(backlog) : link'[backlog'[i]] = link[backlog[i]] /\ backlog'[i] # s
    BY <1>3, <1>4, <2>1
  <2>3. ASSUME NEW i \in 1..Len(backlog') PROVE i \in 1..Len(backlog) \/ i = Len(backlog) + 1
    BY <2>1
  <2>4. \A i \in 1..Len(backlog') : /\ link'[backlog'[i]]["server"] = "new"
                                    /\ link'[backlog'[i]]["client"] # "new"
    BY <1>3, <2>1, <2>2, <2>3 DEF Waiting
  <2>5. \A i, j \in 1..Len(backlog') : i # j => backlog'[i] # backlog'[j]
    BY <2>1, <2>2, <2>3 DEF Waiting
  <2> QED BY <2>4, <2>5 DEF Waiting
<1>8. /\ client'[c] = [at |-> "connecting", sid |-> s, tun |-> NoAddress, delay |-> client[c].delay]
      /\ \A d \in Client \ {c} : client'[d] = client[d]
  BY <1>2 DEF Goto
<1>9. TunIsOffer'
  <2>1. SUFFICES ASSUME NEW d \in Client
                 PROVE  /\ Busy(d)' => client'[d].sid \in Session
                        /\ client'[d].sid \in Session =>
                              link'[client'[d].sid]["client"] # "new"
                        /\ client'[d].at = "running" =>
                              /\ link'[client'[d].sid]["server"] # "new"
                              /\ client'[d].tun = offer'[client'[d].sid]
    BY DEF TunIsOffer
  <2>2. CASE d = c
    BY <1>1, <1>3, <1>8, <2>2
  <2>3. CASE d # c
    BY <1>1, <1>2, <1>3, <1>5, <1>8, <2>3 DEF TunIsOffer, Busy
  <2> QED BY <2>2, <2>3
<1>10. OwnSession'
  <2>1. ASSUME NEW d \in Client, NEW e \in Client, d # e, Busy(d)', Busy(e)'
        PROVE  client'[d].sid # client'[e].sid
    BY <1>5, <1>8, <2>1 DEF OwnSession, Busy
  <2>2. \A r \in Session : link'[r]["client"] = "new" => link'[r]["server"] = "new"
    BY <1>3 DEF OwnSession
  <2> QED BY <2>1, <2>2 DEF OwnSession
<1> QED BY <1>6, <1>7, <1>9, <1>10

LEMMA ClientStepSInv ==
    ASSUME TInv, SInv, NEW c \in Client,
           ConnectFails(c) \/ Ready(c) \/ TunPacket(c) \/ TunEOF(c) \/ TunFails(c) \/ Wake(c)
    PROVE  SInv'
<1> USE DEF TInv, ProxyTypeOK, SInv
<1> DEFINE Local == /\ UNCHANGED <<serverside, offer>>
                    /\ \A d \in Client \ {c} : client'[d] = client[d]
                    /\ \A s \in Session :
                          /\ link'[s]["server"] = link[s]["server"]
                          /\ link[s]["client"] # "new" <=> link'[s]["client"] # "new"
           Mine == /\ client'[c].sid \in {NoSession, client[c].sid}
                   /\ Busy(c)' =>
                               /\ client[c].at \in {"connecting", "running"}
                               /\ client'[c].sid = client[c].sid
                               /\ client'[c].at = "running" =>
                                     /\ link[client[c].sid]["server"] # "new"
                                     /\ client'[c].tun = offer[client[c].sid]
<1>1. ASSUME NEW at \in {"idle", "sleeping"}, NEW delay, End(c, at, delay)
      PROVE  Local /\ Mine
  <2>1. client' = [client EXCEPT ![c] =
             [at |-> at, sid |-> NoSession, tun |-> NoAddress, delay |-> delay]]
    BY <1>1 DEF End, Goto
  <2>2. ~Busy(c)'
    BY <2>1 DEF Busy
  <2>3. ASSUME NEW s \in Session
        PROVE  /\ link'[s]["server"] = link[s]["server"]
               /\ link[s]["client"] # "new" <=> link'[s]["client"] # "new"
    <3>1. link' \in {link, [link EXCEPT ![client[c].sid]["client"] = "closed"]}
      BY <1>1 DEF End, Set
    <3> QED BY <3>1 DEF TunIsOffer, Side
  <2> QED BY <1>1, <2>1, <2>2, <2>3 DEF End
<1>2. ASSUME Ready(c) PROVE Local /\ Mine
  <2> DEFINE s == client[c].sid
  <2>1. s \in Session /\ link[s]["client"] # "new" /\ client[c].at = "connecting"
    BY <1>2 DEF Ready, TunIsOffer, Busy
  <2>2. /\ UNCHANGED <<serverside, offer>> /\ link[s]["server"] # "new"
        /\ client' = [client EXCEPT ![c] =
               [at |-> "running", sid |-> s, tun |-> offer[s], delay |-> client[c].delay]]
        /\ link' = [link EXCEPT ![s]["client"] = "open"]
    BY <1>2 DEF Ready, Goto, Set
  <2>3. \A r \in Session : /\ link'[r]["server"] = link[r]["server"]
                           /\ link[r]["client"] # "new" <=> link'[r]["client"] # "new"
    BY <2>1, <2>2 DEF Side
  <2> QED BY <2>1, <2>2, <2>3
<1>3. ASSUME Wake(c) PROVE Local /\ Mine
  <2>1. /\ client'[c].at = "idle" /\ client'[c].sid = client[c].sid
        /\ \A d \in Client \ {c} : client'[d] = client[d]
    BY <1>3 DEF Wake
  <2> QED BY <1>3, <2>1 DEF Wake, Busy
<1>4. Local /\ Mine
  BY <1>1, <1>2, <1>3 DEF ConnectFails, TunPacket, TunEOF, TunFails, Raise, Return
<1> HIDE DEF Mine
<1>5. /\ UNCHANGED <<registered, pool, backlog, offer>>
      /\ \A i \in 1..Len(backlog) : backlog[i] \in Session
  BY <1>4 DEF serverside, tables
<1>6. \A s \in Session : /\ link'[s]["server"] = link[s]["server"]
                         /\ link[s]["client"] # "new" <=> link'[s]["client"] # "new"
  BY <1>4
<1> HIDE DEF Local
<1>7. OfferIsLease' /\ Waiting'
  BY <1>5, <1>6 DEF OfferIsLease, Waiting
<1> USE DEF Local, Mine
<1>8. TunIsOffer'
  <2>1. SUFFICES ASSUME NEW d \in Client
                 PROVE  /\ Busy(d)' => client'[d].sid \in Session
                        /\ client'[d].sid \in Session =>
                              link'[client'[d].sid]["client"] # "new"
                        /\ client'[d].at = "running" =>
                              /\ link'[client'[d].sid]["server"] # "new"
                              /\ client'[d].tun = offer'[client'[d].sid]
    BY DEF TunIsOffer
  <2>2. CASE d = c
    BY <2>2, <1>4, <1>5, <1>6, NoAddressNew DEF TunIsOffer, Busy
  <2>3. CASE d # c
    BY <2>3, <1>4, <1>5, <1>6 DEF TunIsOffer, Busy
  <2> QED BY <2>2, <2>3
<1>9. OwnSession'
  <2>1. \A d \in Client : Busy(d)' => Busy(d) /\ client'[d].sid = client[d].sid
    BY <1>4 DEF Busy
  <2>2. \A s \in Session : link'[s]["client"] = "new" => link'[s]["server"] = "new"
    BY <1>6 DEF OwnSession
  <2> QED BY <2>1, <2>2 DEF OwnSession
<1> QED BY <1>7, <1>8, <1>9

LEMMA NextSInv == ASSUME TInv, SInv, [Next]_vars PROVE SInv'
<1> DEFINE LinkKept == \A s \in Session :
              /\ link'[s]["client"] = link[s]["client"]
              /\ link'[s]["server"] = "new" <=> link[s]["server"] = "new"
<1>1. CASE Accept
  BY <1>1, AcceptSInv
<1>2. CASE TunPumpHeldUp \/ TunPumpRetries \/ Restart \/ TunPumpEnds
  BY <1>2, ServerStepSInv DEF TunPumpHeldUp, TunPumpRetries, Restart, TunPumpEnds, tables
<1>3. CASE ShutdownDone \/ Crash
  <2>1. Exit
    BY <1>3 DEF ShutdownDone, Crash
  <2>2. LinkKept
    BY <2>1, CloseServerEndType DEF Exit, TInv
  <2> QED BY <2>1, <2>2, ServerStepSInv DEF Exit
<1>4. ASSUME NEW s \in Session, PumpHeldUp(s)
      PROVE  SInv'
  BY <1>4, ServerStepSInv DEF PumpHeldUp
<1>5. ASSUME NEW s \in Session, PumpRetries(s) \/ PumpFails(s) \/ Shutdown(s)
      PROVE  SInv'
  <2>1. CASE PumpRaises(s)
    BY <2>1, RaisesSInv
  <2>2. CASE UNCHANGED <<server, pool, registered, tun_pump, backlog, link, offer, client>>
    BY <2>2, ServerStepSInv
  <2> QED BY <1>5, <2>1, <2>2 DEF PumpRetries, PumpFails, Shutdown
<1>6. ASSUME NEW c \in Client, ClientNext(c)
      PROVE  SInv'
  BY <1>6, ConnectSInv, ClientStepSInv DEF ClientNext
<1>7. ASSUME NEW s \in Session, NEW e \in Side, LinkFails(s, e)
      PROVE  SInv'
  <2> USE DEF TInv, ProxyTypeOK, SInv
  <2>1. /\ UNCHANGED <<serverside, offer, client>>
        /\ \A r \in Session : \A o \in Side : link'[r][o] = "new" <=> link[r][o] = "new"
    BY <1>7 DEF LinkFails, Open, Set
  <2>2. OfferIsLease' /\ Waiting'
    BY <2>1 DEF OfferIsLease, Waiting, serverside, tables, Side
  <2>3. TunIsOffer' /\ OwnSession'
    BY <2>1 DEF TunIsOffer, OwnSession, Busy, Side
  <2> QED BY <2>2, <2>3
<1>8. CASE UNCHANGED vars
  BY <1>8, ServerStepSInv DEF vars, serverside, tables
<1> QED
  BY <1>1, <1>2, <1>3, <1>4, <1>5, <1>6, <1>7, <1>8 DEF Next, ServerNext

LEMMA UniqueFromInv == TInv /\ SInv => AddressesUnique
<1> SUFFICES ASSUME TInv, SInv, NEW c \in Client, NEW d \in Client,
                    client[c].at = "running", client[c].sid \in registered,
                    client[d].at = "running", client[d].sid \in registered
             PROVE  /\ client[c].tun = pool.leases[client[c].sid]
                    /\ c # d => client[c].tun # client[d].tun
  BY DEF AddressesUnique
<1>1. /\ client[c].tun = pool.leases[client[c].sid]
      /\ client[d].tun = pool.leases[client[d].sid]
  BY DEF SInv, TunIsOffer, OfferIsLease
<1>2. /\ pool.owner[client[c].tun] = client[c].sid
      /\ pool.owner[client[d].tun] = client[d].sid
  BY <1>1 DEF TInv, ProxyTypeOK, Agree, Leased, PoolConsistent, Consistent
<1>3. c # d => client[c].sid # client[d].sid
  BY DEF SInv, OwnSession, Busy
<1> QED BY <1>1, <1>2, <1>3

(* For any number of clients and sessions, and whatever addresses they ask   *)
(* for: two clients the server routes to never configure the same address,   *)
(* and each has the one the server leased to its session.                    *)
THEOREM AddressesAlwaysUnique == Spec => []AddressesUnique
<1>1. Init => TInv /\ SInv
  BY InitTInv, InitSInv
<1>2. TInv /\ SInv /\ [Next]_vars => (TInv /\ SInv)'
  BY NextTInv, NextSInv
<1> QED BY <1>1, <1>2, UniqueFromInv, PTL DEF Spec
=============================================================================
