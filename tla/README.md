# Formal models of the Veil Python stack

TLA+ specifications of this repository's transport core and of the VPN, chat and
provisioning programs on top of it, TLC configurations that check them on small
instances, and proofs TLAPS checks for every instance. Paths are relative to the
repository root.

    tlc -workers 2 -config MCVeilNodeServer.cfg MCVeilNode
    tlapm VeilNodeProofs.tla

## 1. Inventory

| Part | State it keeps | Operations | Talks to |
|---|---|---|---|
| **VeilNode** (`_veil_core_ext/node.{h,cpp}`) | `running_`, the session table with its endpoint and client indices, the pending client handshake, one `PeerSession` (pipeline, prelude stage, last activity, `ready_notified`) per session, teardown threads | `start`, `stop`, `connect`, `send`, `disconnect`; `dispatch_packet`, `timer_loop`, `emit_data`, `handle_control_frame` | UDP socket, handshake, session and pipeline library (external); callbacks into Python |
| **Bindings** (`_veil_core_ext/bindings.cpp`) | callback holders per node | property setters, calls that release the GIL, trampolines that take it | VeilNode, Python |
| **EventBuffer** (`veil_core/_event_buffer.py`) | backlog of events put back, a local list per running receive | `next_event`, `recv_data`, `recv_event` | an `asyncio.Queue` |
| **Client** (`veil_core/client.py`) | `_running`, `_pending_connect`, `_session_id`, event queue, session queues | `start`, `stop`, `connect`, `disconnect`, `send`, `events`, `recv*`; four callbacks on node threads | VeilNode, event loop |
| **Server** (`veil_core/server.py`) | event, accept and session queues | `start`, `stop`, `accept`, `events`, `recv*`; four callbacks | VeilNode, event loop |
| **Session** (`veil_core/session.py`) | ids, its own EventBuffer | `send`, `recv*`, `disconnect` | its Client or Server |
| **VPN connection** (`veil_core/vpn.py`) | handshake phase, receive loop, keepalive task, packet queue, closed future | client connect, server accept, `send_packet`, `recv_packet`, `close`, `wait_closed` | Session |
| **Linux proxy** (`veil_core/linux_proxy.py`) | address pool, connections by session, pump tasks, TUN device | serve, accept loop, register, remove, pumps | VPN connection |
| **Linux client runtime** (`veil_core/linux_client_app.py`) | state file, suspended services, child process | `start_runtime`, `stop_runtime`, `read_runtime_status` | systemd, filesystem |
| **Windows runtime and agent** (`veil_core/windows_client_app.py`, `desktop/veil_vpn_agent.py`) | command file, state file, connection, adapter, network settings, pumps | write and consume commands, connect, monitor, disconnect | filesystem, VPN connection |
| **Desktop VPN client and tools** (`desktop/veil_vpn_client.py`, `veil_vpn_ctl.py`) | buttons, refresh flag, form, label; configuration file | connect, disconnect, refresh, import, save | runtimes, as processes |
| **Chat** (`examples/local_chat.py`, `desktop/veil_chat_client.py`) | active session, history, subscribers' queues; worker thread | accept, dial, read, publish, send | Server, Client, Session, a browser |
| **Linux server runtime** (`veil_core/linux_server_app.py`, `desktop/veil_vpn_server*.py`) | `server.json`, launcher, unit file, service | init, export, install, enable, disable | systemd, provisioning |
| **Provisioning** (`veil_core/provisioning.py`) | profiles and tokens | generate a key, export, import | server and client configuration |
| **Catalogues, messages** | none that changes | parsing, formatting | all of the above |

### How the parts interact

Calls go down: application -> Client/Server/Session -> VeilNode -> socket.
Events come up on threads of the node: a callback takes the GIL, runs a method
of Client or Server, and that method schedules `put_nowait` (and, for a
`connect()` in progress, `set_result`) with `loop.call_soon_threadsafe`. The
event loop runs these in order; coroutines blocked on a future or a queue are
woken by a further entry of the same ready queue. Client, Server and Session
receive through EventBuffers over these queues; the VPN layer is one coroutine
reading a Session next to a keepalive task; the proxies pump packets between
VPN connections and a TUN device.

### What is hard, and what makes each part correct

* **VeilNode.** Five kinds of threads share the session table. A thread looks
  up under one lock and acts under another; three of them can remove the same
  session; a removed session's worker still drains its queue; `stop()` works
  from a snapshot while the I/O thread is running. *Correct when* the indices
  answer exactly for the live sessions; every session is announced before its
  data, and ended once, after its last data; every `connect()` is resolved
  once; removed sessions are reported; `stop()` returns, reports everything and
  is the end.
* **EventBuffer.** Receivers with different filters share one queue and set
  events aside while they wait; timeouts hit in between. *Correct when* no
  event is lost, doubled or reordered and a call whose event is there returns.
* **Client.** State is read on node threads and after awaits. *Correct when* a
  waiting `connect()` can always be reached by a callback and by `stop()`, a
  session is returned once, the cached id names a session that has not ended,
  `events()` ends after `stop()` and not before what `stop()` reports.
* **Client against Server.** Handshake responses and disconnect frames are
  plain datagrams. *Correct when* a client can always connect again.
* **VPN connection.** Repeated hellos, pings, close and failure race. *Correct
  when* both ends agree on the parameters, the closed future is set once and
  both background tasks end.
* **Linux proxy.** Leases are taken and given back by different tasks.
  *Correct when* no address is leased twice, each lease belongs to a registered
  connection, and a server that one peer brings down serves again.
* **Linux runtime and desktop.** Several steps with effects outside the process,
  any of which may fail or be the last; files that outlive the processes they
  speak of. *Correct when* one proxy runs at most, its own packets never go into
  its tunnel, `down` leaves nothing behind, and the window's label follows.
* **Windows agent.** Commands and status go through two files; the agent polls
  one and may die at any await. *Correct when* routes and adapter match the
  connection, the status is not ahead of it, `down` is obeyed, `up` is answered.
* **Chat.** A page subscribes while entries are recorded; one reader consumes the
  events of all sessions. *Correct when* no entry is missed and an ended session
  is given up.
* **Provisioning.** Five copies of key and protocol. *Correct when* a client that
  imported what the server exports is admitted.

The hazards at their lines, with the properties that watch them, are listed in
`PROJECT.json`.

## 2. Modules

| Module | What it is |
|---|---|
| `VeilNode`, `MCVeilNode` | the node of `node.cpp`, all threads |
| `VeilNodeProofs` | theorems about it |
| `PendingEvents` | what receiving promises: one sequence of pending events |
| `EventBuffer`, `MCEventBuffer` | `_event_buffer.py` over an `asyncio.Queue`, refining `PendingEvents` |
| `EventBufferProofs` | theorems about it, the refinement among them |
| `VeilClient`, `MCVeilClient` | `client.py`: connect, callbacks, loop, `stop`, `events` |
| `VeilClientProofs` | theorems about it |
| `VpnConnection`, `MCVpnConnection` | `vpn.py`: both ends of a connection over a lossy transport |
| `VpnConnectionProofs` | theorems about it |
| `AddressPool` | `LinuxClientAddressPool`, as operators on a pool |
| `LinuxProxy`, `MCLinuxProxy` | `linux_proxy.py`: server and clients, over the pool and what `VpnConnection` shows of a connection |
| `LinuxProxyProofs` | theorems about pool and proxy |
| `LinuxRuntime` | `linux_client_app.py`: control commands, files, proxy process, routes |
| `LinuxDesktop`, `MCLinuxDesktop` | the window and a shell, composed with `LinuxRuntime` |
| `LinuxDesktopProofs` | theorems about runtime and window |
| `WindowsAgent`, `MCWindowsAgent` | `windows_client_app.py` and the agent process |
| `WindowsAgentProofs` | theorems about it |
| `Chat`, `MCChat` | `local_chat.py` in both modes, its page, the desktop chat client |
| `Provisioning`, `MCProvisioning` | server configuration, service, profile, client configuration, form |
| `ChatAndProvisioningProofs` | theorems about the chat, and about provisioning |

Operators whose comment calls them *Mutant* are variants of the definition
below them that a plausible bug would give; they are used by no specification.
Substituting one for its original must make TLC report the property named in
`PROJECT.json`, which shows that the property can fail.

### VeilNode

A step ends where the code unlocks, joins or hands over. `sessions`,
`endpoint_sessions`, `client_sessions` are the three maps; `peer[s]` is the
`PeerSession`, kept after its removal because threads still hold pointers to
it; `pipeline`, `rx`, `worker` are its receive side; `teardown[s]` the teardown
thread; `io`, `timer`, `app` the program counters and locals of the three
long-lived threads; `log[s]` the callbacks fired for `s`.

* Application thread: `Start`, `Connect`, `Send`, `Disconnect` /
  `DisconnectRemove` / `DisconnectSpawn`, and `stop()` as `StopBegin`,
  `StopSnapshot`, `StopClose`, `StopJoin`, `StopClear`, `StopPipeline`,
  `StopPipelinesDone`, `StopEmit`, `StopEmitDone`, `join_teardown_threads`.
* I/O thread, `dispatch_packet`: `DispatchLookup`, then either `DispatchSubmit`
  or `DispatchHandshakeServer`/`Client`, `DispatchCreate`, `DispatchAnnounce`.
* Timer thread: `TimerTurn` (handshake deadline, copy of the table),
  `TimerCheck`, `TimerRemove`, `TimerSpawn`, `TimerLoop`.
* Worker: `WorkerTake`, `WorkerPrelude`, `EmitFrame` (data, control or
  disconnect frame), `WorkerSpawn`. Teardown: `TeardownHalt`, `TeardownEmit`.

The network is a nondeterministic source of datagrams: any peer may send a
handshake or any of `Packets` at any time, which covers loss, duplication and
reordering. A session is quiet for the idle timeout whenever it likes
(`GoQuiet`); `send()` and datagrams make it active again. External: the
handshake yields fresh session ids or nothing; the pipeline handles datagrams
in order and its `stop()` joins the worker. Left out: payloads, statistics,
session rotation (no state but the key schedule), log texts, the send worker.

Steps that join two critical sections, and why: `Connect` takes a failed send
(node.cpp:257-259) with the setting of the attempt (240-253), as nothing can
answer a datagram that was not sent; `TimerTurn` takes the handshake deadline
(519-534) with the copy of the table (540-546), which share no state. `disconnect()`
looks the session up without the lock (286): a lookup that misses is no step, one
that finds a session being removed is one made a moment earlier, and a crash is
left out. A session destroyed on its own worker's thread is left out as well.

### EventBuffer

Everything runs on one loop, so a step is a whole run of a coroutine between
two suspensions: `Return` (first match, skipped events go back in front),
`Wait` (nothing matches: all read events are set aside and the coroutine sleeps
in `queue.get()`), `Expire` (the deadline passes during a run), `Timeout` (it
passes while asleep, or woken but not yet run). The wake-up order is
`asyncio.Queue`'s: `put_nowait` wakes the longest sleeper, who owns nothing
until it runs; a sleeper that times out passes the wake-up on. A filter is the
set of events a call accepts; `next_event()` accepts all.

### VeilClient

One action per piece of code between two points where another thread or
coroutine can run. `ready` is the loop's ready queue and `Run...` executes its
head. `connect()` is `Connect`/`ConnectRaises` up to the await and `RunWakeup`
after it; `Deadline` is `asyncio.timeout(10)`. `Answered` is a callback's look
at `_pending_connect` and `Resolve` the second one: a thread can lose the GIL
after the call of `done()` between them. `Stop` blocks the loop until
`StopDone`, while callbacks go on. `next_event` is the events() generator from
one yield to the next. The node is reduced to what the client sees of
`VeilNode`: it is off, on, or has a pending handshake, which ends in a session
or an error; sessions end, `stop()` reports the sessions of its snapshot. A
start() of the node that raises leaves `_running` set over a node that is off.
Data events and session queues are left out: nothing here depends on them.

### VpnConnection

Per end: `phase` is where `start()` and `_run()` are, `closed` the `_closed`
future, `keepalive` and `idle` the keepalive task and the intervals since the
last datagram, `session`, `inflight` and `events` the transport. `SendHello`,
`ReceiveReady`, `HandshakeTimeout` are the client's handshake, `ReceiveHello`
the server's, in one step because there is no await between `_apply_hello` and
`_send_control`. `Run` handles one event; `KeepaliveWakes` is one turn of
`_run_keepalive`; `MaxIdle` is how many whole intervals the timeout holds, and a
turn at exactly that many may or may not find the timeout exceeded. Messages are
lost, dropped and delivered in any order; a control message may be refused by
`send()` in any state, which raises on the path it was sent from. What is under
way when a session is told to end may still be read by the peer until it is
down. Left out: the parameters exchanged, packets (they refresh `_last_rx_time`,
as pongs do), streams other than the two.

### AddressPool and LinuxProxy

A pool is a record of the code's two dictionaries. An address is an offset in
the network, and `Size` stands for anything that is none. `registered`, `pool`,
`pump` are `_connections`, `_address_pool`, `_pump_tasks`; a pump is off,
reading, or retrying to another client's connection, when it does not read.
`Admit` is the ready-payload factory, the ready message and `_register_connection`
(no await lies between them); `Reject` any failure, which ends `_accept_loop`
and `serve_forever()`; `Remove` is `_remove_connection`, whose `close()` may be
refused. A crash and the service manager's `Restart=` bring the server back.
A client is `run_forever()`: `Connect`, `Ready`, the ends of `run()`
(`TunPacket`, `TunEOF`, `TunFails`) and the delay. Both ends of a connection
close at any time and learn of each other as `EndReachesPeer` says. Packets that
are delivered leave no trace; only those held up or raising change state.

### LinuxRuntime and LinuxDesktop

`ctl` is the control command under way; a step is a `run()` of a command or a
write of a file: `Check`, `Suspend`, `Resolve`, `Launch` (Popen), `RecordPid`
and `WriteState` (each twice: truncated, then written), `WaitForTun`,
`RouteLow`, `RouteHigh`, and for `down` `KillChild`, `Unroute`, `Restore`,
`Forget`. Any step that may fail does, with the code's undo, and the command may
be killed at any of `KillPoints`, between Popen and the pid file among them.
`child[p].named` is a history variable: the pid of `p` reached the pid file. A
proxy without it is an orphan, which dials and routes like any other and which
no command meets again. The proxy process connects, loses its interface, dials
again or dies on its own. `net` holds the half-default routes and the hosts with
a route of their own. `LinuxDesktop` adds the window, which runs the same
commands as processes (`ConnectClient`, `DisconnectClient`, `ProcessFinished`),
polls the status (`StatusTimer`, `StatusReads`, `StatusFinished`) and saves
configurations, and a shell that does the same.

Abstractions: one tunnel name; one control command at a time (two at once are
not modelled); pids are not reused while a file names them; a configuration is
saved between commands, since a command loads it once when it begins; the other
VPN's service is switched by its owner between commands. `AsRoot` says whether
status commands may signal root's proxy; the window's may not, and go by
interface and state file. Every process of the window starts: `FailedToStart` of
a QProcess, which the window connects to nothing (veil_vpn_client.py:888, 927),
is not modelled.

### WindowsAgent

`command` is `agent-command.json` with whether the agent has seen its time
stamp; `state` is `agent-state.json` with the pid file. A launch is
`LaunchAgent` (Popen), `RecordAgent` (the pid file) and `LaunchedState` (the
state as it was before the launch, brought up to date), and the command may die
between any two (`CtlDies`); meanwhile the agent does `Boot` and `Start`, and
more. `state.late` is a history variable: the launch wrote the state after the
agent did. The agent's `at` is where its loop is: `ConsumeCommand`,
`ConnectBegin`/`ConnectEnd`, `OpenAdapter`, `ConfigureNetwork`, `Monitor`,
`DisconnectEnd`, `Wake`. Between two of them the connection may be lost, a pump
may end or raise (only while the loop sleeps, as the pumps run on the same
loop), the process may die or be cancelled at an await. A cancelled outgoing
pump leaves its thread in `recv_packet` (`stray`) until `ThreadReturns`. In
`ConfigureNetwork` every route may be missing after success, since `route add`
runs unchecked. `net.left` are routes a dead agent left behind. Writing the
command file takes two steps, the file is torn between them.

Abstractions: one agent lives at a time (a second launch over one that was
interrupted finds the first agent's pid and state written); an update of the state
file is one step, and a command that meets it truncated fails; a command file
whose configuration does not parse (line 79, after the time stamp was taken) needs
a command of another version and is left out.

### Chat

`events[a]` is the queue of each `LocalChatApp`'s Server or Client, `app[a]` its
`_active_session` and reader. The page is `browser`: `Subscribe` adds its queue,
`Snapshot` prepares and sends the history, `ShowItem` is the page's handler for
one item, `StreamLost` a broken stream that `EventSource` opens again. `Published`
drops the oldest item of a full queue. The worker of the desktop client waits
for data only and leaves when the window closes. A third dialler is any other Veil
client (`ForeignDials`), and what it sends is no JSON (`ForeignSends`):
`message_from_event` raises outside the reader's `try`, the reader is gone and the
session stays the active one (`Chokes`, kept in `app[a].choked`).

Abstractions: `StopApp` is one step although it awaits several times; a page that
goes away while the snapshot is written (local_chat.py:680) leaves its queue among
the subscribers, where it fills up and disturbs nobody.

### Provisioning

Five copies of a key and a protocol: `file` (`server.json`), `service` (what the
running process loaded), `token`, `client` and `form`. An action is a whole
command, as each reads a file, works and writes it at once. `outdated` is a
history variable: the copies that were made before the operator's last change,
or from a file without a key, of which every reader makes up its own. A Linux
client without an id dials with its name as the hint (linux_client_app.py:502);
that a server that lists no client admits it all the same is an assumption about
the external handshake.

## 3. Runs

| Run | Question | Result |
|---|---|---|
| `node_server` | server under HTTP emulation: are table, indices and callback order right, is a session announced once and in its data phase? 2 sessions, 2 endpoints, 1 registered client, 3 datagrams | holds (`TypeOK`, `IndicesMatch`, `NoDataAfterEnd`, `CallbacksOnce`, `AnnouncedInDataPhase`) |
| `node_client` | plain client, fair threads: is each of 2 attempts resolved exactly once, a session announced before its data, every removal reported, does `stop()` return? | holds (`OneOutcomePerConnect`, `NewBeforeData`, `ConnectResolves`, `RemovedIsReported`, `StopReturns`) |
| `buffer_alone` | does one receiver see the abstract sequence? 4 events of 2 streams, timeouts | holds, with liveness (`ImplementsPending`) |
| `buffer_shared` | do 2 receivers lose or double events? 3 events, timeouts | holds (`NothingLost`) |
| `client` | is the waiting `connect()` always reachable, does `stop()` release it, do `events()` asleep notice `stop()`? 2 calls | holds (`ClientTypeOK`, `WaitingIsReachable`, `StopReleasesConnect`, `EventsNoticeStop`) |
| `vpn` | do the two ends agree on being connected, does a closed connection let its session go, does the end of one reach the other over a network that may lose everything? | holds (`VpnTypeOK`, `ClientHasServer`, `ClosedEndsSession`, `EndReachesPeer`) |
| `proxy` | do leases, routes and pumps stay in step, do clients keep different addresses, is a dead connection left, does the server serve again? 2 clients, 3 sessions, 2 addresses | holds (`ProxyTypeOK`, `TablesAgree`, `AddressesUnique`, `ClosedIsLeft`, `ServesAgain`) |
| `chat` | does a page that subscribes at any moment miss an entry or a status, is an ended session given up while the reader lives? 2 sessions | holds (`ChatTypeOK`, `PageKeepsUp`, `EndIsSeen`) |
| `desktop` | of the proxies whose pid reached the pid file: one runs, in no routing loop, and `down` leaves none, with commands killed between any two steps; does the label follow? 2 servers, 2 pids | holds (`DesktopTypeOK`, `OneRuntime`, `NoLoop`, `DownCleans`, `StatusConverges`), no deadlock |
| `windows` | is nothing left over of adapter, routes and status, is `down` obeyed and `up` answered, whatever fails or dies? 2 servers | holds (`AgentTypeOK`, `IdleIsClean`, `StatusHonest`, `DownIsObeyed`, `UpHasOutcome`), no deadlock |
| `provisioning` | is a client with an up-to-date profile admitted by an up-to-date service? 3 keys, 3 protocols | holds (`ProvisionTypeOK`, `ProfileFits`), no deadlock |
| `agent_reconnects` | does the agent reconnect a tunnel it lost? | **violated** (`Reconnects`) |

**Bounds.** In the node the races are between pairs of threads over one session,
or over a session and its successor at the same endpoint, hence two ids, one or
two endpoints, and three datagrams: the handshake, one to use the session (or
the peer's prelude), one to disconnect. Two `connect()` calls are enough for one
to replace the other. Ids are interchangeable, so the server run uses symmetry;
runs with liveness do not. `NewBeforeData` is checked without HTTP emulation:
there, a server that cannot send its prelude (node.cpp:893) is in its data phase
unannounced, and whether the peer sends data all the same is up to the external
transport. Three events let one be skipped, one matched and one arrive later. In
`client`, `MaxAhead` = 2 bounds the callbacks that a timer of the loop may
overtake: a timer that fires with more in the queue only finds the same callbacks
one round earlier. In `vpn` one keepalive interval of silence
is allowed (`MaxIdle`), two hellos are sent, two datagrams are on the way (`InFlightBound`: to one end or
one to each) and one event waits, so that a retried hello, a lost ready and a ping that overtakes it
all happen. In `proxy` three sessions let a client dial again while its first
session is still registered, and two addresses run out. In `chat` the limits are
2 history entries and 2 queued items, so that both are exceeded; nobody watches the
page once the foreign client has dialled (`AudienceBound`), as what it does records
nothing. In `desktop`
two pids let an orphan and a proxy beside it exist, and `ServersBound` explores the
second server only while the window waits for its first status (the label has nothing
to do with the server's name). In `windows` commands come at
least a second apart (`Quick` = FALSE): the time stamp has that resolution, and
two commands within a second are one to the agent. In `provisioning` three keys
allow a key, its replacement and one generated by a reader; `MCProtos` has the
one combination that `ensure_compatible` changes. `CHECK_DEADLOCK FALSE` appears
where the system really stops: all events consumed, all calls of the bounded
application made, all sessions used, both ends over.

**Fairness.** Every thread of the node that can step does (the OS schedules
it): weak fairness on `stop()`, dispatch, timer, each worker, each teardown
thread. Arrival of datagrams, calls of the application and the passing of the
idle time stay unfair. The handshake deadline gets strong fairness: an attempt
that stays pending meets a turn of the timer after its deadline. In
`EventBuffer` every coroutine that can run does. In `VeilClient` the loop
step gets strong fairness, because an application may call `start()` and
`stop()` again and again but returns to the loop in between; the 10 s deadline
of `connect()` gets none, so `StopReleasesConnect` is due to `stop()` alone. In
`VpnConnection` the event loop runs the tasks and timers of each end and the node
reports a session it tears down (`RemovedIsReported` of `VeilNode`); nothing is
assumed of the network. In `LinuxProxy` the server accepts, finishes its
shutdown, is restarted by the service manager (`Restart=`), and the ends of a
connection learn of each other (`EndReachesPeer`); `TrafficSpec` adds that
something on the client's machine sends into the tunnel, without which
`ClosedIsLeft` does not hold. In `Chat` the readers run and a worker told to end
ends. In `LinuxDesktop` a command goes on (its waits have timeouts) and the
window's loop runs; whether commands are issued, proxies connect or die is left
open. In `WindowsAgent` the loop goes on (all it awaits has a timeout) and a
command that has begun is carried out. Safety runs assume none.

### What the violation shows

`agent_reconnects`: the connection is lost while `_pump_os_to_vpn` has a packet
in hand. `send_packet` raises, the pump sets `_should_be_connected = False`
(veil_vpn_agent.py:237), the monitor takes the loss for a `command_down`
(161-163), and the agent idles although the last command is `up` and
WINDOWS_VPN.md:43 lists "reconnect when configured".

### Further disagreements

Each of these configurations makes TLC show a behaviour that contradicts a
documented or tested promise. They are kept beside the project and are not part
of the runs above; their properties stand in the modules.

| Configuration | Property | What happens |
|---|---|---|
| `MCVeilNodeStopReports` | `StopReportsEverySession` | `stop()` copies the table (node.cpp:179) before it joins the I/O thread (195). A handshake finished in between creates and announces a session that `sessions_.clear()` drops silently; README.md:262 promises a `DisconnectedEvent` on `stop()` |
| `MCVeilNodeStopSilent` | `SilentAfterStop` | a worker that has removed its session from the table is not in the snapshot; it may start its teardown thread after `join_teardown_threads()`, and call back after `stop()` (node.h:131, "stop all threads") |
| `MCEventBufferStarved` | `EveryReceiverAnswered` | `recv()` of one stream asleep with another stream's event in its local list; whoever waits for that event is not woken, neither then nor when the list goes to the backlog (client.py:217, "can be mixed ... safely") |
| `MCVeilClientStale` | `ActiveSessionHasNotEnded` | result of the future, disconnect callback, wake-up of `connect()`, in this order, leave the id of a dead session in `_session_id` (test_client.py:105) |
| `MCVeilClientEvents` | `EventsReportEnd` | a loop body that calls `stop()` ends `events()` before the scheduled `DisconnectedEvent`s are in the queue (README.md:262) |
| `MCLinuxProxyReleased` | `ClosedIsReleased` | `recv_packet()` waits on a queue that the end of a connection does not touch (vpn.py:202), so a pump to a client that fell silent never ends and its lease is never returned; the fake connection of test_linux_proxy.py:60-63 raises instead |
| `MCChatReconnect` | `EndedIsLeft` | the worker's `_reader_loop` waits for data only: Reconnect, or the end of the session, leaves it reading a dead session |
| `MCLinuxDesktopOrphan` | `DownStops` | `start_runtime` starts the proxy in a session of its own (linux_client_app.py:530) and writes its pid file afterwards (539). A kill or a failed write in between leaves a proxy that no file names: the next `up` starts a second one beside it, and `down` reports success with it running (VPN.md:174-177, the way to stop the VPN). `DownStopsUnlessCut` (section 4) proves that there is no other such gap |
| `MCWindowsAgentRoutes` | `RoutesPresent` | `route add` runs with `check=False` and its result is not looked at (windows_client_app.py:617): the agent reports connected without the route to its server (WINDOWS_VPN.md:88-89 takes the two together) |
| `MCWindowsAgentTeardown` | `TornDownCleanly` | cancelling the outgoing pump ends its await of `asyncio.to_thread(recv_packet, 1000)` (veil_vpn_agent.py:228), not the thread, and the Wintun session is ended under it (195; WINDOWS_VPN.md:91, "torn down cleanly") |
| `MCLinuxDesktopSuspended` | `SuspendedComesBack` | a start that is refused after `Suspend`, or killed before the state file is written, leaves the other VPN's service stopped, and the next `down` does not know of it (test_linux_client_app.py:257, "suspend and restore") |
| `MCProvisioningWindows` | `ProfileFits` | the Windows import stores neither the client id nor the HTTP upgrade (veil_vpn_windows_ctl.py:116-130): a client of a server with either is not admitted; WINDOWS_VPN.md:72 says "Windows uses the same provisioning contract as Linux" |

## 4. Proofs

A safety property is proved through an inductive invariant: it holds initially,
every step keeps it, and the property follows. TLC checked each of them on the
instances of section 3 before it was proved. Below, for each, why the property
alone is not inductive.

`VeilNodeProofs` proves for all values of the constants that satisfy
`ConstantsOK` (null values outside their sets, flags Boolean, `Packets`
sequences of frames, bounds natural):

* `TypeCorrect`: `Spec => []TypeOK`.
* `IndicesCorrect`: `Spec => []IndicesMatch`. Inductive invariant `IndexInv` =
  types, `ThreadsOK`, `IndicesMatch`. It needs to know what threads hold
  between steps: the endpoint the I/O thread found without a session still has
  none when it creates one (only that thread adds entries, and removal never
  adds one), and a fresh id has no pipeline yet while every live session has.
  `RemoveIndices`, `CreateIndices` and `KeepIndices` are the three kinds of
  steps.
* `EndIsFinal`: `Spec => []NoDataAfterEnd`. Inductive invariant `HaltInv` adds
  `HaltOK`: a session that was reported as ended, or that a teardown thread or
  `stop()` is about to report, has a stopped pipeline and an idle worker, so
  `EmitFrame` is not a step of an ended session.
* `CallbacksAlwaysOnce`, `AnnouncedAlwaysInDataPhase`, `SessionsOwnedOnce`, from
  `ReportInv`. Four threads may remove or report a session, so a report that is
  still to come must be known to be the first: `OwnedOnce` says that a session
  is in the table, or with the one thread that took it out, or with its teardown
  thread; `EndsOK` that "disconnected" is fired by a teardown thread that is
  through and "node stopped" only for ids `stop()` has copied and cleared;
  `AnnounceOK` that the flag `ready_notified` and the callback agree and that the
  flag is set in the data phase; `FreshOK` that nothing is known of an id before
  its handshake.
* `NewAlwaysBeforeData`, under `IsClient \/ ~HttpPrelude`. Without HTTP emulation
  from `DataInv`: what is queued or handled belongs to announced sessions, a
  session in the table is announced or about to be by the I/O thread, which
  `stop()` joins before it clears the table (`QueuedOK`, `JoinedOK`). On a client
  with HTTP emulation from `PreludeInv`: one step ends the prelude and announces.
  The hypothesis is needed: for a server with HTTP emulation TLC shows data of an
  unannounced session, because the response that ends its prelude enters the data
  phase before it is sent, and the send may fail (node.cpp:893).
* `OneOutcomeAlways`, from `OutcomeInv`: the pending attempt is one that was made
  and has no outcome, and neither has any attempt to come. Lemma
  `AttemptsTouched` names the five steps that touch attempts.

`EventBufferProofs` proves for any events, receivers and filters:

* `NothingIsLost`: `Spec => []NothingLost`. `NothingLost` counts the places of
  each event. The inductive invariant `BInv` speaks of the sets instead: no
  sequence holds an event twice (`EachOnce`), no two share one (`Apart`), together
  they hold what was put (`AllKept`). One lemma, `MovesKeep`, covers all steps
  that move events; `CutOut` and the lemmas on sequences before it say what a run
  that stops in the backlog or in the queue leaves behind. `OnePlace` and `NoPlace`
  lead back to the count.
* `BufferTypeAlways`.
* `AloneImplementsPending`: with one receiver `Spec => Pending!Spec`, under the
  refinement mapping of `EventBuffer` (`pending` is skipped, backlog and queue, in
  this order). `AloneInv` says why the order is the right one: a sleeper has
  emptied the backlog, a call that does not sleep has skipped nothing, and nothing
  skipped is wanted. Each action is a step of `PendingEvents` (`PutRefines`,
  `CallRefines`, `ReturnRefines`, `ExpireRefines`, `TimeoutRefines`) or none
  (`WaitRefines`). The fairness in `ImplementsPending` is left to TLC.

`VeilClientProofs` proves for any sessions, any number of `connect()` calls and
any delay of the timers `ClientTypeAlways` and `WaitingAlwaysReachable`, from
`CInv`. A `connect()` that wakes up clears `_pending_connect` if that is its own
future; this makes nothing unreachable only because the future of a call that
wakes up is done (`WokenIsDone`), and `connect()` may set it anew only because a
call that was not made yet has no future (`UncalledHasNone`).

`VpnConnectionProofs` proves for any keepalive timeout, number of hellos and
bounds of the network `VpnTypeAlways`, `ClientAlwaysHasServer` and
`ClosedAlwaysEndsSession`, from `VInv`. A client may read an old READY, so the
invariant says of each one under way or queued that the server's `start()` has
returned (`ReadyIsServed`), and of each queued end of the transport that the
session is down (`EndIsDown`). `StepOK` lists what a step may do to sessions,
messages, phases and closed futures; the actions are shown to be such steps, and
`MeaningStep` that such steps keep the invariant.

`LinuxProxyProofs` proves for any network, sessions, clients and requested
addresses (`PoolAssumption`, `ProxyAssumption`):

* `PoolAlwaysConsistent`, `TablesAlwaysAgree`, `ProxyTypeAlways`, from the
  inductive invariant `TInv` (types, `PoolConsistent`, `Agree`): lemmas
  `AllocateOK`, `ReleaseOK`, `EmptyPoolOK` say what the pool's operations keep,
  and every action changes the three tables together or not at all.
* `AddressesAlwaysUnique`: a running client's address is the last offer of its
  session, a registered session's offer is its lease (`OfferIsLease`), no two
  clients hold one session (`OwnSession`), and the pool is consistent.

`LinuxDesktopProofs` proves for any hosts, pids and kill points
(`RuntimeAssumption`) `OneRuntimeAlways`, `NoLoopEver` and `DownAlwaysCleans`
from `DInv` = `RuntimeTypeOK`, `OneRuntime`, `Quiet`, `Pinned`, `Stopping`,
`DownCleans`. None of the three is inductive alone: `Quiet` says no named proxy
lives from the check until the pid of the next one is written, nor from the kill
on (so that it is the only one); `Pinned` that the server of a named proxy has a
route of its own (stronger than `NoLoop`, which looks at proxies with an
interface only); `Stopping` what `down` has done at each of its steps. They
speak of the proxies whose pid was written (`Named`): `MCLinuxDesktopOrphan`
shows why. `DownStopsUnlessCut` adds that with no kill between Popen and the end of
that write (`"record" \notin KillPoints`) `down` stops every proxy, from
`Attended`: a living proxy is named, or the command that started it is about to
name it. `DesktopTypeAlways` adds the window: its buttons are disabled exactly
while a command of its own is under way, since a command once begun ends in one
step only (`CommandRuns`), and that step tells the window (`_process_finished`).

`WindowsAgentProofs` proves for any servers, with and without a proxy to disable
and for commands as quick as one likes (`AgentAssumption`) `AgentTypeAlways`,
`IdleAlwaysClean` and `StatusAlwaysHonest` from `AInv` = `Types` and `Order`.
`IdleIsClean` and `StatusHonest` look at the agent while its loop sleeps;
`Order` says what holds at each step between: `Acquired` that connection,
adapter and network settings come in this order, all or none are there when the
loop rests, and the pump tasks (not a pump's thread) are cancelled before they
are taken down; `Routed` that there are no routes but those `network_state` can
remember; `Running` what an agent has written of itself by when; `Told` what the
state file says meanwhile. The steps' types (`TypesStep`) and their order
(`OrderStep`) are proved apart.

`ChatAndProvisioningProofs` holds two independent developments. For any numbers of
sessions and entries and any sizes of history and queue (`ChatAssumption`: the
queue holds two items at least, or a status would push out the entry before it)
it proves `ChatTypeAlways` and `PageAlwaysKeepsUp` from `PageInv`: the types, with
every queued entry one that was recorded (`EntriesOf`), `PageKeepsUp`, and
`QueueKeepsUp`, which says that the last status in the queue is right for a page
that is still being prepared too: the snapshot is taken after the subscription,
and what was queued between is shown after it. Queues are treated as sequences
first (`PutOK`, `AppendSays`, `PublishedSays`); `PageSteps` then reduces every
action to what it does to the page.

For provisioning it proves, for any number of keys and any protocols,
`ProvisionTypeAlways`, `ProfileAlwaysFits` for the Linux client (`~Windows`) and
`WindowsProfileFits`: on Windows a profile fits as long as the server lists no
client and asks for no HTTP upgrade, the two fields whose loss
`MCProvisioningWindows` shows. All three come from `PInv`: each copy that is not
outdated is a copy of the file as far as its program stores it, the file's persona
is adjusted already, storing a profile twice changes nothing more
(`StoredProfile`), and the copies go out of date from the server towards the form.

Each step lemma has one step per action. Model-checked only:

* all liveness properties, and the fairness in `ImplementsPending`: liveness under
  fairness and ENABLED are outside the prover's reach;
* what the violation run and the configurations beside the project show: one
  behaviour is enough.

## 5. Plan

Done: `VeilNode`, `EventBuffer` with `PendingEvents`, `VeilClient`,
`VpnConnection`, `AddressPool` and `LinuxProxy`, `LinuxRuntime` and
`LinuxDesktop`, `WindowsAgent`, `Chat`, `Provisioning`. Every safety
invariant the passing runs check is proved. To come, in this order:

1. `Reconnect`: a client node and a server node over a lossy network; lost
   responses and lost disconnect frames; whether `connect()` can succeed again.
2. `GilLock`: bindings, destruction, callbacks.
3. Two control commands at once on one Linux machine.

## 6. Not modelled

Cryptography, framing and congestion of the transport library (external);
payload contents and statistics; the Python bindings (`bindings.cpp`: the GIL as
a lock, planned); `protocol_catalog.py`, `message.py`, `events.py`,
`_ext_loader.py` (constant tables, records, parsing, sequential); `serve_once()`
of the proxy (one connection of `serve_forever()` without a pool); Wintun and TUN
device calls (I/O); iptables rules of the server; installation of files and
desktop entries; GUI layout and log panes; deployment scripts; examples that only
call the library. Session queues of Client and Server grow without bound when
nobody reads them: a bounded model cannot say so.
