---------------------------- MODULE WindowsAgent ----------------------------
(***************************************************************************)
(* The Windows VPN client: the control command of a window or a shell        *)
(* (veil_core/windows_client_app.py), the agent process that polls for it    *)
(* (desktop/veil_vpn_agent.py), the adapter it opens and the network         *)
(* settings it changes.  They meet in two JSON files, agent-command and      *)
(* agent-state.  A command file holds the time of the command in seconds;    *)
(* what matters of it is whether the agent has seen that time.               *)
(***************************************************************************)
EXTENDS Naturals

CONSTANTS
    Host,         \* servers a configuration may name
    DisableProxy, \* disable_system_proxy
    Quick         \* two commands may be issued within one second

ASSUME AgentAssumption == Host # {} /\ DisableProxy \in BOOLEAN /\ Quick \in BOOLEAN

VARIABLES
    ctl,     \* the control command: idle, or the step it is at and what it writes
    command, \* agent-command.json: the command, its host, seen by the agent, issued just now
    state,   \* agent-state.json (running, connected, last_error), whether the pid on file
             \* is the agent's, and whether a launch wrote it late (history)
    agent,   \* the agent process; stray: a cancelled pump's thread is still in recv_packet
    net      \* routes: the agent's own and those a dead agent left; the proxy settings

vars == <<ctl, command, state, agent, net>>

AnyHost == CHOOSE h \in Host : TRUE

Off == [at |-> "off", want |-> FALSE, host |-> AnyHost, conn |-> "none", adapter |-> FALSE,
        network |-> "none", target |-> AnyHost, pumps |-> {}, stray |-> FALSE]

Init ==
    /\ ctl = [at |-> "idle", cmd |-> "down", host |-> AnyHost]
    /\ command = [cmd |-> "none", host |-> AnyHost, seen |-> FALSE, now |-> FALSE]
    /\ state = [running |-> FALSE, connected |-> FALSE, error |-> FALSE, named |-> FALSE,
                late |-> FALSE]
    /\ agent = Off
    /\ net = [default |-> FALSE, pinned |-> {}, left |-> {}, proxy |-> "on"]

Alive == agent.at # "off"

(* read_runtime_status()["connected"].                                       *)
Shown == state.connected /\ state.running /\ state.named

(* The agent writes connected and last_error itself.                         *)
Tells(connected, error) ==
    state' = [state EXCEPT !.connected = connected, !.error = error, !.late = FALSE]

-----------------------------------------------------------------------------
(* start_runtime() and stop_runtime(), one at a time.                        *)

Issue ==
    /\ ctl.at = "idle"
    /\ \/ \E host \in Host : ctl' = [at |-> "launch", cmd |-> "up", host |-> host]
       \/ ctl' = [at |-> "write", cmd |-> "down", host |-> AnyHost]
    /\ command.now => Quick
    /\ UNCHANGED <<command, state, agent, net>>

(* launch_agent(): a process starts unless the state and the pid name one.   *)
(* An agent that an interrupted launch left is here taken to have written    *)
(* both by the time of the next launch: one agent lives at a time.           *)
LaunchAgent ==
    /\ ctl.at = "launch"
    /\ \/ /\ state.running /\ state.named
          /\ ctl' = [ctl EXCEPT !.at = "write"]
          /\ UNCHANGED <<command, agent>>
       \/ /\ ~Alive
          /\ ctl' = [ctl EXCEPT !.at = "pid"]
          /\ agent' = [Off EXCEPT !.at = "boot"]
          /\ command' = [command EXCEPT !.seen = FALSE]      \* _last_command_ts = ""
    /\ UNCHANGED <<state, net>>

RecordAgent ==
    /\ ctl.at = "pid"
    /\ ctl' = [ctl EXCEPT !.at = "state"]
    /\ state' = [state EXCEPT !.named = Alive]
    /\ UNCHANGED <<command, agent, net>>

(* The state that was read before the process started, brought up to date:   *)
(* what the agent has written meanwhile is lost.                             *)
LaunchedState ==
    /\ ctl.at = "state"
    /\ ctl' = [ctl EXCEPT !.at = "write"]
    /\ state' = [state EXCEPT !.running = TRUE, !.connected = FALSE, !.error = FALSE,
                     !.late = agent.at \notin {"off", "boot", "start"}]
    /\ UNCHANGED <<command, agent, net>>

(* A Ctrl-C, a kill, a failing write, a state file that is being rewritten.  *)
CtlDies ==
    /\ ctl.at # "idle"
    /\ ctl' = [at |-> "idle", cmd |-> "down", host |-> AnyHost]
    /\ UNCHANGED <<command, state, agent, net>>

(* write_runtime_command(): the file is truncated, then written.             *)
WriteCommand ==
    /\ ctl.at \in {"write", "writing"}
    /\ IF ctl.at = "write"
       THEN /\ command' = [command EXCEPT !.cmd = "torn"]
            /\ ctl' = [ctl EXCEPT !.at = "writing"]
       ELSE /\ command' = [cmd |-> ctl.cmd, host |-> ctl.host, now |-> TRUE,
                           seen |-> command.now /\ command.seen]
            /\ ctl' = [at |-> "idle", cmd |-> "down", host |-> AnyHost]
    /\ UNCHANGED <<state, agent, net>>

SecondPasses ==
    /\ command.now
    /\ command' = [command EXCEPT !.now = FALSE]
    /\ UNCHANGED <<ctl, state, agent, net>>

-----------------------------------------------------------------------------
(* _run_daemon() writes its own pid; run() begins with the state.            *)
Boot ==
    /\ agent.at = "boot"
    /\ agent' = [agent EXCEPT !.at = "start"]
    /\ state' = [state EXCEPT !.named = TRUE]
    /\ UNCHANGED <<ctl, command, net>>

Start ==
    /\ agent.at = "start"
    /\ agent' = [agent EXCEPT !.at = "consume"]
    /\ state' = [state EXCEPT !.running = TRUE, !.connected = FALSE, !.error = FALSE,
                     !.late = FALSE]
    /\ UNCHANGED <<ctl, command, net>>

(* The agent's loop.                                                         *)

(* Mutant: the pumps go on while the adapter closes.                         *)
Disconnecting_pumpsRun(a, at) == [a EXCEPT !.at = at]

(* _disconnect() begins: the pumps are cancelled, then it awaits close().    *)
(* The thread that reads the adapter for the outgoing pump goes on.          *)
Disconnecting(a, at) ==
    [a EXCEPT !.at = at, !.pumps = {}, !.stray = @ \/ "out" \in a.pumps]

NeedsConnection(a) == a.want /\ a.conn = "none"

(* Mutant: the command is only read while there is no connection.            *)
ConsumeCommand_idleOnly ==
    /\ agent.at = "consume"
    /\ IF command.cmd = "none" \/ command.seen \/ agent.conn # "none"
       THEN agent' = [agent EXCEPT !.at = IF NeedsConnection(agent) THEN "connect" ELSE "monitor"]
            /\ UNCHANGED command
       ELSE /\ command.cmd # "torn"
            /\ LET a == [agent EXCEPT !.want = (command.cmd = "up"), !.host = command.host] IN
               agent' = [a EXCEPT !.at = IF NeedsConnection(a) THEN "connect" ELSE "monitor"]
            /\ command' = [command EXCEPT !.seen = TRUE]
    /\ UNCHANGED <<ctl, state, net>>

(* _consume_command_if_present(); a torn file is an error of the loop, and   *)
(* that disconnects.                                                         *)
ConsumeCommand ==
    /\ agent.at = "consume"
    /\ \/ /\ command.cmd = "torn"
          /\ agent' = Disconnecting(agent, "closing")
          /\ UNCHANGED command
       \/ /\ command.cmd = "none" \/ (command.cmd # "torn" /\ command.seen)
          /\ agent' = [agent EXCEPT !.at = IF NeedsConnection(agent) THEN "connect" ELSE "monitor"]
          /\ UNCHANGED command
       \/ /\ command.cmd \in {"up", "down"} /\ ~command.seen
          /\ LET a == [agent EXCEPT !.want = (command.cmd = "up"), !.host = command.host] IN
             agent' = [a EXCEPT !.at = IF NeedsConnection(a) THEN "connect" ELSE "monitor"]
          /\ command' = [command EXCEPT !.seen = TRUE]
    /\ UNCHANGED <<ctl, state, net>>

(* _connect_once() up to the handshake: the state is "connecting"; then the  *)
(* connection is there, or the attempt failed and is not repeated, or the    *)
(* configuration itself raises.                                              *)
ConnectBegin ==
    /\ agent.at = "connect"
    /\ \/ agent' = [agent EXCEPT !.at = "handshake", !.target = agent.host]
          /\ Tells(FALSE, FALSE)
       \/ agent' = Disconnecting(agent, "closing") /\ UNCHANGED state
    /\ UNCHANGED <<ctl, command, net>>

(* Mutant: the failure is only logged, and the attempt repeated.             *)
ConnectEnd_silent ==
    /\ agent.at = "handshake"
    /\ \/ agent' = [agent EXCEPT !.at = "adapter", !.conn = "up"] /\ UNCHANGED state
       \/ agent' = [agent EXCEPT !.at = "monitor"] /\ UNCHANGED state
    /\ UNCHANGED <<ctl, command, net>>

(* The error is the exception's text, and a timeout has none.                *)
ConnectEnd ==
    /\ agent.at = "handshake"
    /\ \/ agent' = [agent EXCEPT !.at = "adapter", !.conn = "up"] /\ UNCHANGED state
       \/ /\ agent' = [agent EXCEPT !.at = "monitor", !.want = FALSE]
          /\ \E text \in BOOLEAN : Tells(FALSE, text)
    /\ UNCHANGED <<ctl, command, net>>

SetupFails == agent' = [Disconnecting(agent, "closing") EXCEPT !.want = FALSE]

(* create_wintun_session().                                                  *)
OpenAdapter ==
    /\ agent.at = "adapter"
    /\ \/ agent' = [agent EXCEPT !.at = "configure", !.adapter = TRUE]
       \/ SetupFails
    /\ UNCHANGED <<ctl, command, state, net>>

(* configure_wintun_network() with its errors: no route to the server or no  *)
(* adapter; the proxy off but no address or DNS; and no error.  Each `route  *)
(* add` may fail unnoticed, and not every configuration takes the default.   *)
ProxyOff == [net EXCEPT !.proxy = IF DisableProxy /\ @ = "on" THEN "veil" ELSE @]

ConfigureNetwork ==
    /\ agent.at = "configure"
    /\ \/ SetupFails /\ UNCHANGED <<state, net>>
       \/ SetupFails /\ net' = ProxyOff /\ UNCHANGED state
       \/ /\ agent' = [agent EXCEPT !.at = "monitor", !.pumps = {"in", "out"},
                           !.network = IF DisableProxy THEN net.proxy ELSE "off"]
          /\ \E default \in BOOLEAN, added \in SUBSET {agent.target} :
                net' = [ProxyOff EXCEPT !.default = default, !.pinned = @ \cup added]
          /\ Tells(TRUE, FALSE)
    /\ UNCHANGED <<ctl, command>>

(* _monitor_connection().                                                    *)
Monitor ==
    /\ agent.at = "monitor"
    /\ \/ /\ agent.conn = "none"
          /\ agent' = [agent EXCEPT !.at = "sleep"]
          /\ state' = IF agent.want THEN state ELSE [state EXCEPT !.connected = FALSE]
       \/ /\ agent.conn # "none"
          /\ agent' = IF ~agent.want \/ agent.conn = "lost"
                      THEN Disconnecting(agent, "closing")
                      ELSE [agent EXCEPT !.at = "sleep"]
          /\ UNCHANGED state
    /\ UNCHANGED <<ctl, command, net>>

(* Mutant: the route of the server that the configuration now names goes.    *)
Cleaned_newHost(n) ==
    [n EXCEPT !.pinned = @ \ (IF agent.network = "none" THEN {} ELSE {agent.host}),
              !.left   = @ \ (IF agent.network = "none" THEN {} ELSE {agent.host}),
              !.default = FALSE,
              !.proxy  = IF agent.network = "none" THEN @ ELSE agent.network]

(* The adapter goes with its routes; cleanup_wintun_network() goes by        *)
(* network_state, and restores the proxy settings that holds.                *)
Cleaned(n) ==
    [n EXCEPT !.pinned = @ \ (IF agent.network = "none" THEN {} ELSE {agent.target}),
              !.left   = @ \ (IF agent.network = "none" THEN {} ELSE {agent.target}),
              !.default = FALSE,
              !.proxy  = IF agent.network = "none" THEN @ ELSE agent.network]

(* Mutant: the state file still says connected.                              *)
DisconnectEnd_sameState ==
    /\ agent.at \in {"closing", "stopping"}
    /\ net' = Cleaned(net)
    /\ agent' = IF agent.at = "stopping" THEN Off
                ELSE [agent EXCEPT !.at = "sleep", !.conn = "none", !.adapter = FALSE,
                          !.network = "none", !.target = AnyHost]
    /\ state' = [state EXCEPT !.running = (agent.at = "closing"), !.error = TRUE,
                     !.named = @ /\ agent.at = "closing"]
    /\ UNCHANGED <<ctl, command>>

(* _disconnect() from the await of close() on; mark_agent_stopped().         *)
DisconnectEnd ==
    /\ agent.at \in {"closing", "stopping"}
    /\ net' = Cleaned(net)
    /\ agent' = IF agent.at = "stopping" THEN Off
                ELSE [agent EXCEPT !.at = "sleep", !.conn = "none", !.adapter = FALSE,
                          !.network = "none", !.target = AnyHost]
    /\ state' = [running |-> agent.at = "closing", connected |-> FALSE,
                 error |-> agent.at = "closing", late |-> FALSE,
                 named |-> agent.at = "closing" /\ state.named]
    /\ UNCHANGED <<ctl, command>>

Wake ==
    /\ agent.at = "sleep"
    /\ agent' = [agent EXCEPT !.at = "consume"]
    /\ UNCHANGED <<ctl, command, state, net>>

AgentStep ==
    \/ Boot \/ Start \/ ConsumeCommand \/ ConnectBegin \/ ConnectEnd \/ OpenAdapter \/ ConfigureNetwork
    \/ Monitor \/ DisconnectEnd \/ Wake

-----------------------------------------------------------------------------
(* What happens to the agent while it awaits.                                *)

ConnectionLost ==
    /\ agent.conn = "up"
    /\ agent' = [agent EXCEPT !.conn = "lost"]
    /\ UNCHANGED <<ctl, command, state, net>>

(* A pump ends when it sees the connection closed; but a packet that it has  *)
(* in hand then, or that the adapter or the connection refuses, is an error, *)
(* and the agent no longer wants to be connected.                            *)
PumpEnds(pump) ==
    /\ agent.at = "sleep" /\ pump \in agent.pumps
    /\ \/ /\ agent.conn = "lost"
          /\ agent' = [agent EXCEPT !.pumps = @ \ {pump}]
          /\ UNCHANGED state
       \/ /\ agent' = [agent EXCEPT !.pumps = @ \ {pump}, !.want = FALSE]
          /\ state' = [state EXCEPT !.error = TRUE]
    /\ UNCHANGED <<ctl, command, net>>

(* recv_packet(1000) returns.                                                *)
ThreadReturns ==
    /\ agent.stray
    /\ agent' = [agent EXCEPT !.stray = FALSE]
    /\ UNCHANGED <<ctl, command, state, net>>

(* The run is cancelled where it awaits; or the process is terminated, and   *)
(* the driver drops its adapter with the routes over it.                     *)
AgentStopped ==
    /\ agent.at \in {"sleep", "handshake", "closing"}
    /\ agent' = Disconnecting(agent, "stopping")
    /\ UNCHANGED <<ctl, command, state, net>>

AgentDies ==
    /\ Alive
    /\ agent' = Off
    /\ state' = [state EXCEPT !.named = FALSE]
    /\ net' = [net EXCEPT !.default = FALSE, !.pinned = {}, !.left = @ \cup net.pinned]
    /\ UNCHANGED <<ctl, command>>

Next ==
    \/ Issue \/ LaunchAgent \/ RecordAgent \/ LaunchedState \/ WriteCommand \/ CtlDies
    \/ SecondPasses \/ AgentStep
    \/ ConnectionLost \/ ThreadReturns \/ AgentStopped \/ AgentDies
    \/ \E pump \in {"in", "out"} : PumpEnds(pump)

Spec == Init /\ [][Next]_vars

(* The agent's loop sleeps a second and goes on, all it awaits has a         *)
(* timeout; a control command that has begun is carried out unless it dies.  *)
Fairness ==
    /\ WF_vars(AgentStep)
    /\ WF_vars(LaunchAgent \/ RecordAgent \/ LaunchedState \/ WriteCommand)

FairSpec == Spec /\ Fairness

-----------------------------------------------------------------------------
(* Types; and no pump task runs without an adapter and a connection,         *)
(* whatever the agent is in the middle of (_disconnect cancels them first).  *)
AgentTypeOK ==
    /\ ctl \in [at: {"idle", "launch", "pid", "state", "write", "writing"},
                cmd: {"up", "down"}, host: Host]
    /\ command \in [cmd: {"none", "torn", "up", "down"}, host: Host, seen: BOOLEAN, now: BOOLEAN]
    /\ state \in [running: BOOLEAN, connected: BOOLEAN, error: BOOLEAN, named: BOOLEAN,
                  late: BOOLEAN]
    /\ agent \in [at: {"off", "boot", "start", "consume", "connect", "handshake", "adapter", "configure",
                       "monitor", "closing", "stopping", "sleep"},
                  want: BOOLEAN, host: Host, conn: {"none", "up", "lost"}, adapter: BOOLEAN,
                  network: {"none", "on", "off", "veil"}, target: Host,
                  pumps: SUBSET {"in", "out"}, stray: BOOLEAN]
    /\ net \in [default: BOOLEAN, pinned: SUBSET Host, left: SUBSET Host,
                proxy: {"on", "off", "veil"}]
    /\ agent.pumps # {} => agent.adapter /\ agent.conn # "none"

(* An agent that has no connection has no adapter open and leaves none of    *)
(* its routes behind, whatever failed on the way, whatever was configured    *)
(* meanwhile; and one that has a connection has no route but its server's    *)
(* beside the default.                                                       *)
IdleIsClean ==
    agent.at = "sleep" =>
        /\ agent.adapter = (agent.conn # "none")
        /\ ~agent.adapter => ~net.default
        /\ net.pinned \subseteq (IF agent.adapter THEN {agent.target} ELSE {})

(* The status says connected only while the adapter is there or is being     *)
(* taken down, or for the moment in which a new agent has not yet written    *)
(* over what a dead one left; and it says so whenever the loop sleeps over a *)
(* tunnel, unless the command that launched the agent wrote the state after  *)
(* the agent did.  Neither says that a route leads into the tunnel.          *)
StatusHonest ==
    /\ Shown /\ agent.at \notin {"boot", "start", "closing", "stopping"} => agent.adapter
    /\ agent.at = "sleep" /\ agent.adapter => Shown \/ state.late

(* Where the status says connected over a live connection, the server has    *)
(* its route (the live checklist of WINDOWS_VPN.md, steps 5 and 6).          *)
RoutesPresent ==
    agent.at = "sleep" /\ Shown /\ agent.conn = "up" => agent.target \in net.pinned

(* When the adapter's session has ended no thread is inside it (the live     *)
(* checklist of WINDOWS_VPN.md, step 8: torn down cleanly).                  *)
TornDownCleanly ==
    agent.stray => agent.adapter

(* A `down` that no later command follows takes the tunnel down for good,    *)
(* whatever the agent was doing, even if the connection is lost, the file is *)
(* read half-written, or the agent dies and restarts.                        *)
DownIsObeyed ==
    <>[](command.cmd = "down") => <>[](agent.conn = "none" /\ ~agent.adapter)

(* An `up` comes to an outcome that the user sees: connected, an error, or   *)
(* the agent idle again (unless the launching command wrote over that).      *)
UpHasOutcome ==
    command.cmd = "up" /\ ~command.seen /\ Alive ~>
        \/ command.cmd # "up" \/ ~Alive
        \/ command.seen /\ agent.at = "sleep" /\ (Shown \/ state.error \/ ~agent.want \/ state.late)

(* A tunnel that is lost while the user wants it is set up again.            *)
Reconnects ==
    agent.at = "sleep" /\ agent.conn = "lost" /\ agent.want /\ command.cmd = "up" ~>
        command.cmd # "up" \/ ~Alive \/ agent.at = "connect"
=============================================================================
