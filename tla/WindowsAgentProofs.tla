------------------------- MODULE WindowsAgentProofs -------------------------
(* Proofs about WindowsAgent, for any servers, with or without a proxy to    *)
(* disable, and for commands as quick as one likes.                          *)
(*                                                                           *)
(* IdleIsClean and StatusHonest look at the agent while its loop sleeps; an  *)
(* inductive invariant has to say what holds at each of its steps, and that  *)
(* no second agent is launched beside one that lives (Running).              *)
EXTENDS WindowsAgent, TLAPS

Resting  == {"consume", "monitor", "sleep"}
Ending   == {"closing", "stopping"}
Starting == {"off", "boot", "start", "connect", "handshake"}

(* The types, a variable at a time.                                          *)
CtlType ==
    ctl \in [at: {"idle", "launch", "pid", "state", "write", "writing"},
             cmd: {"up", "down"}, host: Host]
CommandType ==
    command \in [cmd: {"none", "torn", "up", "down"}, host: Host, seen: BOOLEAN, now: BOOLEAN]
StateType ==
    state \in [running: BOOLEAN, connected: BOOLEAN, error: BOOLEAN, named: BOOLEAN,
               late: BOOLEAN]
Agents ==
    [at: {"off", "boot", "start", "consume", "connect", "handshake", "adapter", "configure",
          "monitor", "closing", "stopping", "sleep"},
     want: BOOLEAN, host: Host, conn: {"none", "up", "lost"}, adapter: BOOLEAN,
     network: {"none", "on", "off", "veil"}, target: Host,
     pumps: SUBSET {"in", "out"}, stray: BOOLEAN]
AgentType == agent \in Agents
NetType ==
    net \in [default: BOOLEAN, pinned: SUBSET Host, left: SUBSET Host,
             proxy: {"on", "off", "veil"}]
Pumping == agent.pumps # {} => agent.adapter /\ agent.conn # "none"

Types == CtlType /\ CommandType /\ StateType /\ AgentType /\ NetType

(* What the agent has when: the connection, the adapter, the network settings *)
(* are acquired in this order, all or none of them are there when it rests,   *)
(* and the pumps are cancelled while it takes them down.                      *)
Acquired ==
    /\ Pumping
    /\ agent.at \in Ending => agent.pumps = {}
    /\ agent.at \in Starting => agent.conn = "none" /\ ~agent.adapter /\ agent.network = "none"
    /\ agent.at = "adapter" => agent.conn # "none" /\ ~agent.adapter /\ agent.network = "none"
    /\ agent.at = "configure" => agent.conn # "none" /\ agent.adapter /\ agent.network = "none"
    /\ agent.at \in Resting =>
           /\ agent.adapter <=> agent.conn # "none"
           /\ agent.adapter <=> agent.network # "none"

(* There are no routes but those that network_state remembers.                *)
Routed ==
    /\ agent.network # "none" => net.pinned \subseteq {agent.target}
    /\ agent.network = "none" => net.pinned = {} /\ ~net.default

(* The pid on file is a living agent's, and names it once it has booted.      *)
Running ==
    /\ state.named => agent.at # "off"
    /\ agent.at \notin {"off", "boot"} => state.named
    /\ agent.at \notin {"off", "boot", "start"} => state.running

(* What the state file says of an agent that has written it and is not taking *)
(* the tunnel down.                                                           *)
Told ==
    /\ agent.at \notin Ending \cup {"off", "boot", "start"} /\ state.connected =>
           agent.network # "none" /\ agent.adapter
    /\ agent.at \in Resting /\ agent.adapter => state.connected \/ state.late

Order == Acquired /\ Routed /\ Running /\ Told

AInv == Types /\ Order

-----------------------------------------------------------------------------
LEMMA AnyHostOK == AnyHost \in Host
  BY AgentAssumption DEF AnyHost

LEMMA OffType ==
    /\ Off.at = "off" /\ Off.conn = "none" /\ Off.adapter = FALSE /\ Off.network = "none"
    /\ Off.pumps = {}
    /\ Off \in Agents
  BY AnyHostOK DEF Off, Agents

(* _disconnect() begins with the pumps and touches nothing else.             *)
LEMMA DisconnectingOK ==
    ASSUME AgentType, NEW at \in Ending
    PROVE  /\ Disconnecting(agent, at) \in Agents
           /\ Disconnecting(agent, at).at = at
           /\ Disconnecting(agent, at).pumps = {}
           /\ Disconnecting(agent, at).conn = agent.conn
           /\ Disconnecting(agent, at).adapter = agent.adapter
           /\ Disconnecting(agent, at).network = agent.network
           /\ Disconnecting(agent, at).target = agent.target
<1> DEFINE stray == agent.stray \/ "out" \in agent.pumps
<1>1. stray \in BOOLEAN
  BY DEF AgentType, Agents
<1>2. Disconnecting(agent, at) = [agent EXCEPT !.at = at, !.pumps = {}, !.stray = stray]
  BY DEF Disconnecting
<1> HIDE DEF stray
<1> QED BY <1>1, <1>2 DEF AgentType, Agents, Ending

LEMMA SetupFailsOK ==
    ASSUME AgentType, SetupFails
    PROVE  /\ agent' \in Agents /\ agent'.at = "closing" /\ agent'.pumps = {}
           /\ agent'.conn = agent.conn /\ agent'.adapter = agent.adapter
           /\ agent'.network = agent.network /\ agent'.target = agent.target
<1> DEFINE d == Disconnecting(agent, "closing")
<1>1. /\ d \in Agents /\ d.at = "closing" /\ d.pumps = {} /\ d.conn = agent.conn
      /\ d.adapter = agent.adapter /\ d.network = agent.network /\ d.target = agent.target
  BY DisconnectingOK DEF Ending
<1>2. agent' = [d EXCEPT !.want = FALSE]
  BY DEF SetupFails
<1> HIDE DEF d
<1> QED BY <1>1, <1>2 DEF Agents

LEMMA AInit == Init => AInv
<1> SUFFICES ASSUME Init PROVE AInv
  OBVIOUS
<1>1. Types
  BY AnyHostOK, OffType DEF Init, Types, CtlType, CommandType, StateType, AgentType, NetType
<1>2. Order
  BY OffType DEF Init, Order, Acquired, Pumping, Routed, Running, Told, Resting, Ending, Starting
<1> QED BY <1>1, <1>2 DEF AInv

(* Every action keeps the types.                                             *)
LEMMA TypesStep == ASSUME Types, Next PROVE Types'
<1> USE AnyHostOK, AgentAssumption DEF Types
<1>1. CASE Issue \/ CtlDies
  BY <1>1 DEF Issue, CtlDies, CtlType, CommandType, StateType, AgentType, NetType
<1>2. CASE LaunchAgent
  <2>1. AgentType'
    BY <1>2, OffType DEF LaunchAgent, AgentType, Agents
  <2>2. CtlType' /\ StateType' /\ NetType'
    BY <1>2 DEF LaunchAgent, CtlType, StateType, NetType
  <2>3. CommandType'
    BY <1>2 DEF LaunchAgent, CommandType
  <2> QED BY <2>1, <2>2, <2>3
<1>15. CASE RecordAgent \/ LaunchedState
  <2>1. CtlType' /\ CommandType' /\ AgentType' /\ NetType'
    BY <1>15 DEF RecordAgent, LaunchedState, CtlType, CommandType, AgentType, NetType
  <2> DEFINE past == agent.at \notin {"off", "boot", "start"}
  <2>2. past \in BOOLEAN /\ Alive \in BOOLEAN
    BY DEF Alive
  <2>3. \/ state' = [state EXCEPT !.named = Alive]
        \/ state' = [state EXCEPT !.running = TRUE, !.connected = FALSE, !.error = FALSE,
                         !.late = past]
    BY <1>15 DEF RecordAgent, LaunchedState
  <2> HIDE DEF past
  <2>4. StateType'
    BY <2>2, <2>3 DEF StateType
  <2> QED BY <2>1, <2>4
<1>16. CASE Boot \/ Start
  <2>1. AgentType'
    BY <1>16 DEF Boot, Start, AgentType, Agents
  <2>2. CtlType' /\ CommandType' /\ StateType' /\ NetType'
    BY <1>16 DEF Boot, Start, CtlType, CommandType, StateType, NetType
  <2> QED BY <2>1, <2>2
<1>3. CASE WriteCommand
  <2>1. (command.now /\ command.seen) \in BOOLEAN
    OBVIOUS
  <2>2. CtlType'
    BY <1>3 DEF WriteCommand, CtlType
  <2>3. CommandType'
    <3>1. CASE ctl.at = "write"
      BY <1>3, <3>1 DEF WriteCommand, CommandType
    <3>2. CASE ctl.at # "write"
      <4> DEFINE seen == command.now /\ command.seen
      <4>1. seen \in BOOLEAN
        BY <2>1
      <4>2. command' = [cmd |-> ctl.cmd, host |-> ctl.host, now |-> TRUE, seen |-> seen]
        BY <1>3, <3>2 DEF WriteCommand
      <4> HIDE DEF seen
      <4> QED BY <4>1, <4>2 DEF CommandType, CtlType
    <3> QED BY <3>1, <3>2
  <2>4. StateType' /\ AgentType' /\ NetType'
    BY <1>3 DEF WriteCommand, StateType, AgentType, NetType
  <2> QED BY <2>2, <2>3, <2>4
<1>4. CASE SecondPasses
  <2>1. CommandType'
    BY <1>4 DEF SecondPasses, CommandType
  <2>2. CtlType' /\ StateType' /\ AgentType' /\ NetType'
    BY <1>4 DEF SecondPasses, CtlType, StateType, AgentType, NetType
  <2> QED BY <2>1, <2>2
<1>5. CASE ConsumeCommand
  <2>1. AgentType'
    <3>1. CASE agent' = Disconnecting(agent, "closing")
      BY <3>1, DisconnectingOK DEF Ending, AgentType
    <3>2. CASE agent' = [agent EXCEPT !.at = IF NeedsConnection(agent) THEN "connect" ELSE "monitor"]
      BY <3>2 DEF AgentType, Agents
    <3>3. CASE LET a == [agent EXCEPT !.want = (command.cmd = "up"), !.host = command.host] IN
               agent' = [a EXCEPT !.at = IF NeedsConnection(a) THEN "connect" ELSE "monitor"]
      <4> DEFINE want == (command.cmd = "up")
                 a == [agent EXCEPT !.want = want, !.host = command.host]
      <4>1. want \in BOOLEAN
        OBVIOUS
      <4>2. agent' = [a EXCEPT !.at = IF NeedsConnection(a) THEN "connect" ELSE "monitor"]
        BY <3>3
      <4>3. command.host \in Host
        BY DEF CommandType
      <4> HIDE DEF want
      <4> QED BY <4>1, <4>2, <4>3 DEF AgentType, Agents
    <3> QED BY <1>5, <3>1, <3>2, <3>3 DEF ConsumeCommand
  <2>2. CommandType'
    BY <1>5 DEF ConsumeCommand, CommandType
  <2>3. CtlType' /\ StateType' /\ NetType'
    BY <1>5 DEF ConsumeCommand, CtlType, StateType, NetType
  <2> QED BY <2>1, <2>2, <2>3
<1>6. CASE ConnectBegin
  <2>1. AgentType'
    <3>1. CASE agent' = Disconnecting(agent, "closing")
      BY <3>1, DisconnectingOK DEF Ending, AgentType
    <3> QED BY <1>6, <3>1 DEF ConnectBegin, AgentType, Agents
  <2>2. CtlType' /\ CommandType' /\ StateType' /\ NetType'
    BY <1>6 DEF ConnectBegin, Tells, CtlType, CommandType, StateType, NetType
  <2> QED BY <2>1, <2>2
<1>7. CASE ConnectEnd
  <2>1. AgentType'
    BY <1>7 DEF ConnectEnd, AgentType, Agents
  <2>2. CtlType' /\ CommandType' /\ StateType' /\ NetType'
    BY <1>7 DEF ConnectEnd, Tells, CtlType, CommandType, StateType, NetType
  <2> QED BY <2>1, <2>2
<1>8. CASE OpenAdapter
  <2>1. AgentType'
    <3>1. CASE SetupFails
      BY <3>1, SetupFailsOK DEF AgentType
    <3> QED BY <1>8, <3>1 DEF OpenAdapter, AgentType, Agents
  <2>2. CtlType' /\ CommandType' /\ StateType' /\ NetType'
    BY <1>8 DEF OpenAdapter, CtlType, CommandType, StateType, NetType
  <2> QED BY <2>1, <2>2
<1>9. CASE ConfigureNetwork
  <2>1. AgentType'
    <3>1. CASE SetupFails
      BY <3>1, SetupFailsOK DEF AgentType
    <3>2. CASE agent' = [agent EXCEPT !.at = "monitor", !.pumps = {"in", "out"},
                             !.network = IF DisableProxy THEN net.proxy ELSE "off"]
      <4>1. net.proxy \in {"on", "off", "veil"}
        BY DEF NetType
      <4> QED BY <3>2, <4>1 DEF AgentType, Agents
    <3> QED BY <1>9, <3>1, <3>2 DEF ConfigureNetwork
  <2>2. NetType'
    <3>1. ProxyOff \in [default: BOOLEAN, pinned: SUBSET Host, left: SUBSET Host,
                        proxy: {"on", "off", "veil"}]
      BY DEF ProxyOff, NetType
    <3>2. agent.target \in Host
      BY DEF AgentType, Agents
    <3>3. ASSUME NEW default \in BOOLEAN, NEW added \in SUBSET {agent.target},
                 net' = [ProxyOff EXCEPT !.default = default, !.pinned = @ \cup added]
          PROVE  NetType'
      BY <3>1, <3>2, <3>3 DEF NetType
    <3>4. CASE net' \in {net, ProxyOff}
      BY <3>1, <3>4 DEF NetType
    <3> QED BY <1>9, <3>3, <3>4 DEF ConfigureNetwork
  <2>3. CtlType' /\ CommandType' /\ StateType'
    BY <1>9 DEF ConfigureNetwork, Tells, CtlType, CommandType, StateType
  <2> QED BY <2>1, <2>2, <2>3
<1>10. CASE Monitor
  <2>1. AgentType'
    <3>1. CASE agent' = Disconnecting(agent, "closing")
      BY <3>1, DisconnectingOK DEF Ending, AgentType
    <3> QED BY <1>10, <3>1 DEF Monitor, AgentType, Agents
  <2>2. CtlType' /\ CommandType' /\ StateType' /\ NetType'
    BY <1>10 DEF Monitor, CtlType, CommandType, StateType, NetType
  <2> QED BY <2>1, <2>2
<1>11. CASE DisconnectEnd
  <2>1. AgentType'
    <3>1. CASE agent' = Off
      BY <3>1, OffType DEF AgentType
    <3>2. CASE agent' = [agent EXCEPT !.at = "sleep", !.conn = "none", !.adapter = FALSE,
                             !.network = "none", !.target = AnyHost]
      BY <3>2 DEF AgentType, Agents
    <3> QED BY <1>11, <3>1, <3>2 DEF DisconnectEnd
  <2>2. NetType'
    <3>1. agent.network \in {"none", "on", "off", "veil"}
      BY DEF AgentType, Agents
    <3> QED BY <1>11, <3>1 DEF DisconnectEnd, Cleaned, NetType
  <2>3. StateType'
    <3> DEFINE closing == (agent.at = "closing")
               named == closing /\ state.named
    <3>1. closing \in BOOLEAN /\ named \in BOOLEAN
      OBVIOUS
    <3>2. state' = [running |-> closing, connected |-> FALSE, error |-> closing,
                    late |-> FALSE, named |-> named]
      BY <1>11 DEF DisconnectEnd
    <3> HIDE DEF closing, named
    <3> QED BY <3>1, <3>2 DEF StateType
  <2>4. CtlType' /\ CommandType'
    BY <1>11 DEF DisconnectEnd, CtlType, CommandType
  <2> QED BY <2>1, <2>2, <2>3, <2>4
<1>12. CASE Wake \/ ConnectionLost \/ ThreadReturns \/ AgentStopped
  <2>1. AgentType'
    <3>1. CASE AgentStopped
      BY <3>1, DisconnectingOK DEF AgentStopped, Ending, AgentType
    <3> QED BY <1>12, <3>1 DEF Wake, ConnectionLost, ThreadReturns, AgentType, Agents
  <2>2. CtlType' /\ CommandType' /\ StateType' /\ NetType'
    BY <1>12 DEF Wake, ConnectionLost, ThreadReturns, AgentStopped, CtlType, CommandType, StateType, NetType
  <2> QED BY <2>1, <2>2
<1>13. CASE AgentDies
  <2>1. AgentType'
    BY <1>13, OffType DEF AgentDies, AgentType
  <2>2. CtlType' /\ CommandType' /\ StateType' /\ NetType'
    BY <1>13 DEF AgentDies, CtlType, CommandType, StateType, NetType
  <2> QED BY <2>1, <2>2
<1>14. ASSUME NEW pump \in {"in", "out"}, PumpEnds(pump) PROVE Types'
  <2>1. AgentType'
    <3> DEFINE left == agent.pumps \ {pump}
    <3>1. left \in SUBSET {"in", "out"}
      BY DEF AgentType, Agents
    <3>2. \/ agent' = [agent EXCEPT !.pumps = left]
          \/ agent' = [agent EXCEPT !.pumps = left, !.want = FALSE]
      BY <1>14 DEF PumpEnds
    <3> HIDE DEF left
    <3> QED BY <3>1, <3>2 DEF AgentType, Agents
  <2>2. CtlType' /\ CommandType' /\ StateType' /\ NetType'
    BY <1>14 DEF PumpEnds, CtlType, CommandType, StateType, NetType
  <2> QED BY <2>1, <2>2
<1> QED
  BY <1>1, <1>2, <1>3, <1>4, <1>5, <1>6, <1>7, <1>8, <1>9, <1>10, <1>11, <1>12, <1>13, <1>14,
     <1>15, <1>16
  DEF Next, AgentStep

-----------------------------------------------------------------------------
(* Every action keeps the order.  A step says first what becomes of the       *)
(* fields, by the types; what follows is then a matter of cases.             *)
LEMMA OrderStep == ASSUME Types, Order, Next PROVE Order'
<1> USE DEF Order, Acquired, Pumping, Routed, Running, Told, Resting, Ending, Starting
<1>1. CASE Issue \/ CtlDies \/ WriteCommand \/ SecondPasses
  BY <1>1 DEF Issue, CtlDies, WriteCommand, SecondPasses
<1>2. CASE LaunchAgent
  <2>1. CASE agent' = agent
    BY <1>2, <2>1 DEF LaunchAgent
  <2>2. CASE ~Alive /\ agent' = [Off EXCEPT !.at = "boot"]
    <3>1. agent.at = "off"
      BY <2>2 DEF Alive
    <3>2. /\ agent'.at = "boot" /\ agent'.conn = "none" /\ agent'.adapter = FALSE
          /\ agent'.network = "none" /\ agent'.pumps = {}
      BY <2>2, OffType DEF Agents
    <3> QED BY <1>2, <3>1, <3>2 DEF LaunchAgent
  <2> QED BY <1>2, <2>1, <2>2 DEF LaunchAgent
<1>15. CASE RecordAgent
  <2>1. Alive \in BOOLEAN
    BY DEF Alive
  <2>2. state'.named = Alive /\ state'.running = state.running
        /\ state'.connected = state.connected /\ state'.late = state.late
    BY <1>15, <2>1 DEF RecordAgent, Types, StateType
  <2> QED BY <1>15, <2>2 DEF RecordAgent, Alive
<1>16. CASE LaunchedState
  <2> DEFINE past == agent.at \notin {"off", "boot", "start"}
  <2>1. past \in BOOLEAN
    OBVIOUS
  <2>2. state' = [state EXCEPT !.running = TRUE, !.connected = FALSE, !.error = FALSE,
                     !.late = past]
    BY <1>16 DEF LaunchedState
  <2> HIDE DEF past
  <2>3. /\ state'.named = state.named /\ state'.running = TRUE
        /\ state'.connected = FALSE /\ state'.late = past
    BY <2>1, <2>2 DEF Types, StateType
  <2>4. UNCHANGED <<agent, net>>
    BY <1>16 DEF LaunchedState
  <2> QED BY <2>3, <2>4 DEF past
<1>17. CASE Boot
  <2>1. /\ agent'.at = "start" /\ agent'.conn = agent.conn /\ agent'.adapter = agent.adapter
        /\ agent'.network = agent.network /\ agent'.pumps = agent.pumps
    BY <1>17 DEF Boot, Types, AgentType, Agents
  <2>2. state'.named = TRUE
    BY <1>17 DEF Boot, Types, StateType
  <2> QED BY <1>17, <2>1, <2>2 DEF Boot
<1>18. CASE Start
  <2>1. /\ agent'.at = "consume" /\ agent'.conn = agent.conn /\ agent'.adapter = agent.adapter
        /\ agent'.network = agent.network /\ agent'.pumps = agent.pumps
    BY <1>18 DEF Start, Types, AgentType, Agents
  <2>2. state'.named = state.named /\ state'.running = TRUE /\ state'.connected = FALSE
    BY <1>18 DEF Start, Types, StateType
  <2> QED BY <1>18, <2>1, <2>2 DEF Start
<1>3. CASE /\ agent.at \in Resting \cup {"connect", "handshake", "adapter", "configure"}
           /\ agent' = Disconnecting(agent, "closing")
           /\ state' = state /\ net'.default = net.default /\ net'.pinned = net.pinned
  <2>1. /\ agent'.at = "closing" /\ agent'.conn = agent.conn /\ agent'.adapter = agent.adapter
        /\ agent'.network = agent.network /\ agent'.pumps = {} /\ agent'.target = agent.target
    BY <1>3, DisconnectingOK DEF Types
  <2> QED BY <1>3, <2>1
<1>4. CASE ConsumeCommand
  <2>1. CASE agent' = Disconnecting(agent, "closing")
    BY <1>3, <1>4, <2>1 DEF ConsumeCommand
  <2>2. CASE agent' # Disconnecting(agent, "closing")
    <3>1. /\ agent'.conn = agent.conn /\ agent'.adapter = agent.adapter
          /\ agent'.network = agent.network /\ agent'.pumps = agent.pumps
          /\ agent'.target = agent.target
      BY <1>4, <2>2 DEF ConsumeCommand, Types, AgentType, Agents
    <3>2. agent'.at = "monitor" \/ (agent'.at = "connect" /\ agent.conn = "none")
      <4>1. CASE agent' = [agent EXCEPT !.at = IF NeedsConnection(agent) THEN "connect"
                                               ELSE "monitor"]
        BY <4>1 DEF NeedsConnection, Types, AgentType, Agents
      <4>2. CASE LET a == [agent EXCEPT !.want = (command.cmd = "up"), !.host = command.host] IN
                 agent' = [a EXCEPT !.at = IF NeedsConnection(a) THEN "connect" ELSE "monitor"]
        <5> DEFINE a == [agent EXCEPT !.want = (command.cmd = "up"), !.host = command.host]
        <5>1. a.conn = agent.conn
          BY DEF Types, AgentType, Agents
        <5>2. agent'.at = IF NeedsConnection(a) THEN "connect" ELSE "monitor"
          BY <4>2 DEF Types, AgentType, Agents
        <5> HIDE DEF a
        <5> QED BY <5>1, <5>2 DEF NeedsConnection
      <4> QED BY <1>4, <2>2, <4>1, <4>2 DEF ConsumeCommand
    <3> QED BY <1>4, <3>1, <3>2 DEF ConsumeCommand
  <2> QED BY <2>1, <2>2
<1>5. CASE ConnectBegin
  <2>1. CASE agent' = Disconnecting(agent, "closing") /\ UNCHANGED state
    BY <1>3, <1>5, <2>1 DEF ConnectBegin
  <2>2. CASE /\ agent' = [agent EXCEPT !.at = "handshake", !.target = agent.host]
             /\ Tells(FALSE, FALSE)
    <3>1. /\ agent'.at = "handshake" /\ agent'.conn = agent.conn
          /\ agent'.adapter = agent.adapter /\ agent'.network = agent.network
          /\ agent'.pumps = agent.pumps
      BY <2>2 DEF Types, AgentType, Agents
    <3>2. state'.running = state.running /\ state'.connected = FALSE
          /\ state'.named = state.named
      BY <2>2 DEF Tells, Types, StateType
    <3> QED BY <1>5, <3>1, <3>2 DEF ConnectBegin
  <2> QED BY <1>5, <2>1, <2>2 DEF ConnectBegin
<1>6. CASE ConnectEnd
  <2>1. /\ agent'.adapter = agent.adapter /\ agent'.network = agent.network
        /\ agent'.pumps = agent.pumps /\ agent'.target = agent.target
    BY <1>6 DEF ConnectEnd, Types, AgentType, Agents
  <2>2. \/ agent'.at = "adapter" /\ agent'.conn = "up" /\ state' = state
        \/ agent'.at = "monitor" /\ agent'.conn = agent.conn /\ state'.connected = FALSE
           /\ state'.running = state.running /\ state'.named = state.named
    BY <1>6 DEF ConnectEnd, Tells, Types, AgentType, Agents, StateType
  <2> QED BY <1>6, <2>1, <2>2 DEF ConnectEnd
<1>7. CASE SetupFails /\ agent.at \in {"adapter", "configure"} /\ state' = state
           /\ net'.default = net.default /\ net'.pinned = net.pinned
  <2>1. /\ agent'.at = "closing" /\ agent'.conn = agent.conn /\ agent'.adapter = agent.adapter
        /\ agent'.network = agent.network /\ agent'.pumps = {} /\ agent'.target = agent.target
    BY <1>7, SetupFailsOK DEF Types
  <2> QED BY <1>7, <2>1
<1>8. CASE OpenAdapter
  <2>1. CASE agent' = [agent EXCEPT !.at = "configure", !.adapter = TRUE]
    <3>1. /\ agent'.at = "configure" /\ agent'.conn = agent.conn /\ agent'.adapter = TRUE
          /\ agent'.network = agent.network /\ agent'.pumps = agent.pumps
      BY <2>1 DEF Types, AgentType, Agents
    <3> QED BY <1>8, <3>1 DEF OpenAdapter
  <2> QED BY <1>7, <1>8, <2>1 DEF OpenAdapter
<1>9. CASE ConfigureNetwork
  <2>1. ProxyOff.default = net.default /\ ProxyOff.pinned = net.pinned
    BY DEF ProxyOff, Types, NetType
  <2>2. CASE SetupFails /\ UNCHANGED state /\ net' \in {net, ProxyOff}
    BY <1>7, <1>9, <2>1, <2>2 DEF ConfigureNetwork
  <2>3. CASE /\ agent' = [agent EXCEPT !.at = "monitor", !.pumps = {"in", "out"},
                              !.network = IF DisableProxy THEN net.proxy ELSE "off"]
             /\ \E default \in BOOLEAN, added \in SUBSET {agent.target} :
                   net' = [ProxyOff EXCEPT !.default = default, !.pinned = @ \cup added]
             /\ Tells(TRUE, FALSE)
    <3>1. net.proxy # "none"
      BY DEF Types, NetType
    <3>2. /\ agent'.at = "monitor" /\ agent'.conn = agent.conn
          /\ agent'.adapter = agent.adapter /\ agent'.network # "none"
          /\ agent'.target = agent.target
      BY <2>3, <3>1 DEF Types, AgentType, Agents
    <3>3. net'.pinned \subseteq net.pinned \cup {agent.target}
      BY <2>3 DEF ProxyOff, Types, NetType
    <3>4. state'.connected = TRUE /\ state'.running = state.running
          /\ state'.named = state.named
      BY <2>3 DEF Tells, Types, StateType
    <3>5. agent.at = "configure"
      BY <1>9 DEF ConfigureNetwork
    <3>6. net'.pinned \subseteq {agent.target}
      BY <3>3, <3>5
    <3> QED BY <3>2, <3>3, <3>4, <3>5, <3>6
  <2> QED BY <1>9, <2>2, <2>3 DEF ConfigureNetwork
<1>10. CASE Monitor
  <2>1. CASE agent' = Disconnecting(agent, "closing") /\ UNCHANGED state
    BY <1>3, <1>10, <2>1 DEF Monitor
  <2>2. CASE agent' = [agent EXCEPT !.at = "sleep"]
    <3>1. /\ agent'.at = "sleep" /\ agent'.conn = agent.conn
          /\ agent'.adapter = agent.adapter /\ agent'.network = agent.network
          /\ agent'.pumps = agent.pumps /\ agent'.target = agent.target
      BY <2>2 DEF Types, AgentType, Agents
    <3>2. CASE state' = state
      BY <1>10, <3>1, <3>2 DEF Monitor
    <3>3. CASE agent.conn = "none" /\ state' = [state EXCEPT !.connected = FALSE]
      <4>1. state'.connected = FALSE /\ state'.running = state.running
            /\ state'.named = state.named
        BY <3>3 DEF Types, StateType
      <4> QED BY <1>10, <3>1, <3>3, <4>1 DEF Monitor
    <3> QED BY <1>10, <3>2, <3>3 DEF Monitor
  <2> QED BY <1>10, <2>1, <2>2 DEF Monitor
<1>11. CASE DisconnectEnd
  <2>1. Cleaned(net).default = FALSE
    BY DEF Cleaned, Types, NetType
  <2>2. Cleaned(net).pinned = {}
    BY DEF Cleaned, Types, NetType
  <2>3. /\ agent'.conn = "none" /\ agent'.adapter = FALSE /\ agent'.network = "none"
        /\ agent.at = "closing" => agent'.at = "sleep" /\ agent'.pumps = agent.pumps
        /\ agent.at = "stopping" => agent'.at = "off" /\ agent'.pumps = {}
    BY <1>11, OffType DEF DisconnectEnd, Types, AgentType, Agents
  <2>4. /\ state'.running = (agent.at = "closing") /\ state'.connected = FALSE
        /\ state'.named = (agent.at = "closing" /\ state.named)
    BY <1>11 DEF DisconnectEnd
  <2>5. agent.at \in Ending => agent.pumps = {}
    OBVIOUS
  <2> QED BY <1>11, <2>1, <2>2, <2>3, <2>4, <2>5 DEF DisconnectEnd
<1>12. CASE Wake \/ ConnectionLost \/ ThreadReturns
  <2>1. /\ agent'.adapter = agent.adapter /\ agent'.network = agent.network
        /\ agent'.target = agent.target /\ agent'.pumps = agent.pumps
        /\ (agent'.conn = "none") = (agent.conn = "none")
    BY <1>12 DEF Wake, ConnectionLost, ThreadReturns, Types, AgentType, Agents
  <2>2. \/ agent.at = "sleep" /\ agent'.at = "consume"
        \/ agent'.at = agent.at
    BY <1>12 DEF Wake, ConnectionLost, ThreadReturns, Types, AgentType, Agents
  <2> QED BY <1>12, <2>1, <2>2 DEF Wake, ConnectionLost, ThreadReturns
<1>19. CASE AgentStopped
  <2>1. /\ agent'.at = "stopping" /\ agent'.conn = agent.conn
        /\ agent'.adapter = agent.adapter /\ agent'.network = agent.network
        /\ agent'.pumps = {} /\ agent'.target = agent.target
    BY <1>19, DisconnectingOK DEF AgentStopped, Types
  <2> QED BY <1>19, <2>1 DEF AgentStopped
<1>13. CASE AgentDies
  <2>1. net'.default = FALSE /\ net'.pinned = {}
    BY <1>13 DEF AgentDies, Types, NetType
  <2>2. state'.named = FALSE
    BY <1>13 DEF AgentDies, Types, StateType
  <2> QED BY <1>13, <2>1, <2>2, OffType DEF AgentDies
<1>14. ASSUME NEW pump \in {"in", "out"}, PumpEnds(pump) PROVE Order'
  <2>1. /\ agent'.at = agent.at /\ agent'.conn = agent.conn
        /\ agent'.adapter = agent.adapter /\ agent'.network = agent.network
        /\ agent'.target = agent.target /\ agent'.pumps = agent.pumps \ {pump}
    BY <1>14 DEF PumpEnds, Types, AgentType, Agents
  <2>2. /\ state'.connected = state.connected /\ state'.running = state.running
        /\ state'.named = state.named /\ state'.late = state.late
    BY <1>14 DEF PumpEnds, Types, StateType
  <2> QED BY <1>14, <2>1, <2>2 DEF PumpEnds
<1> HIDE DEF Order, Acquired, Pumping, Routed, Running, Told, Resting, Ending, Starting
<1> QED
  BY <1>1, <1>2, <1>4, <1>5, <1>6, <1>8, <1>9, <1>10, <1>11, <1>12, <1>13, <1>14,
     <1>15, <1>16, <1>17, <1>18, <1>19
  DEF Next, AgentStep

LEMMA AStep == AInv /\ [Next]_vars => AInv'
<1> SUFFICES ASSUME AInv, [Next]_vars PROVE AInv'
  OBVIOUS
<1>1. CASE UNCHANGED vars
  <2>1. Types'
    BY <1>1 DEF vars, AInv, Types, CtlType, CommandType, StateType, AgentType, NetType
  <2>2. Order'
    BY <1>1 DEF vars, AInv, Order, Acquired, Pumping, Routed, Running, Told
  <2> QED BY <2>1, <2>2 DEF AInv
<1>2. CASE Next
  BY <1>2, TypesStep, OrderStep DEF AInv
<1> QED BY <1>1, <1>2

(* The inductive invariant holds in every state.                             *)
THEOREM AInvAlways == Spec => []AInv
  BY AInit, AStep, PTL DEF Spec

(* Types; and the pump tasks only run over an adapter and a connection       *)
(* (_disconnect cancels them first).                                         *)
THEOREM AgentTypeAlways == Spec => []AgentTypeOK
<1>1. AInv => AgentTypeOK
  BY DEF AInv, Types, CtlType, CommandType, StateType, AgentType, Agents, NetType,
         Order, Acquired, Pumping, AgentTypeOK
<1> QED BY <1>1, AInvAlways, PTL

(* Whatever failed on the way and whatever was configured meanwhile, an agent *)
(* that sleeps has an adapter exactly when it has a connection, no route      *)
(* without one, and no pinned route but its server's, whichever of the route  *)
(* commands failed (_disconnect, cleanup_wintun_network).                     *)
THEOREM IdleAlwaysClean == Spec => []IdleIsClean
<1>1. AInv => IdleIsClean
  <2> SUFFICES ASSUME AInv PROVE IdleIsClean
    OBVIOUS
  <2>1. net.default \in BOOLEAN /\ agent.adapter \in BOOLEAN
    BY DEF AInv, Types, AgentType, Agents, NetType
  <2> QED BY <2>1 DEF AInv, Order, Acquired, Routed, IdleIsClean, Resting
<1> QED BY <1>1, AInvAlways, PTL

(* The status that read_runtime_status() shows is never ahead of the adapter  *)
(* once the agent has started, and not behind it when the loop sleeps, unless *)
(* the launching command wrote the state after the agent.                     *)
THEOREM StatusAlwaysHonest == Spec => []StatusHonest
<1>1. AInv => StatusHonest
  BY DEF AInv, Order, Acquired, Routed, Running, Told, StatusHonest, Shown, Alive,
         Resting, Ending
<1> QED BY <1>1, AInvAlways, PTL
=============================================================================
