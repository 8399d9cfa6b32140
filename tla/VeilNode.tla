------------------------------ MODULE VeilNode ------------------------------
(* One VeilNode of _veil_core_ext/node.cpp: the session table and its two    *)
(* indices, and the threads that share them.  The threads are                *)
(*   - the application thread (start, stop, connect, send, disconnect),      *)
(*   - the I/O thread (io_loop, dispatch_packet, create_session),            *)
(*   - the timer thread (timer_loop: handshake timeout, idle sessions),      *)
(*   - per session, the receive worker of its PipelineProcessor (emit_data)  *)
(*   - per removed session, one teardown thread (teardown_session_async).    *)
(* A step ends where the code releases a mutex, joins a thread or hands work *)
(* to another one, so every interleaving the locks allow is a behaviour.     *)
EXTENDS Naturals, Sequences, FiniteSets

CONSTANTS
    Sid,         \* session ids; a handshake yields one never used before
    Endpoint,    \* remote host:port keys
    ClientId,    \* registered client ids of a multi-client server
    NoSid,       \* "no entry" in endpoint_sessions_, null PeerSession
    NoEndpoint,  \* no pending connect()
    NoClient,    \* the empty client_id
    IsClient,    \* config_.is_client
    IdleTimeout, \* config_.session_idle_timeout_ms > 0
    HttpPrelude, \* session.prelude_enabled()
    Packets,     \* frame sequences a datagram of an established peer carries
    MaxPackets,  \* bound: datagrams received
    MaxConnects  \* bound: calls of connect()

Frame == {"data", "control", "disconnect"}

ASSUME ConstantsOK ==
    /\ NoSid \notin Sid
    /\ NoEndpoint \notin Endpoint
    /\ NoClient \notin ClientId
    /\ IsClient \in BOOLEAN /\ IdleTimeout \in BOOLEAN /\ HttpPrelude \in BOOLEAN
    /\ Packets \subseteq Seq(Frame)
    /\ MaxPackets \in Nat /\ MaxConnects \in Nat

VARIABLES
    running,           \* running_
    socket,            \* the UDP socket is open
    sessions,          \* keys of sessions_
    endpoint_sessions, \* endpoint_sessions_
    client_sessions,   \* client_sessions_
    peer,              \* PeerSession objects ever created, by id
    pending,           \* pending_client_*: the endpoint and which connect() call
    connects,          \* calls of connect() so far
    outcome,           \* per connect() call, how the node resolved it
    pipeline,          \* state of each session's PipelineProcessor
    rx,                \* its queue of submitted datagrams
    worker,            \* its receive worker, with the frames left to handle
    teardown,          \* the teardown thread of each session
    io,                \* the I/O thread
    timer,             \* the timer thread
    app,               \* the application thread
    log,               \* callbacks fired, per session, in order
    received           \* datagrams received so far

table   == <<sessions, endpoint_sessions, client_sessions>>
connect == <<pending, connects, outcome>>
workers == <<pipeline, rx, worker>>
vars    == <<running, socket, table, peer, connect, workers, teardown,
             io, timer, app, log, received>>

-----------------------------------------------------------------------------
(* Types.                                                                    *)

Stage      == {"pending", "in_progress", "data"}
NoPeer     == [endpoint |-> NoEndpoint, client_id |-> NoClient, idle |-> FALSE,
               stage |-> "data", ready_notified |-> FALSE]
NoPending  == [endpoint |-> NoEndpoint, attempt |-> 0]
PeerSession ==
    [endpoint: Endpoint \cup {NoEndpoint}, client_id: ClientId \cup {NoClient},
     idle: BOOLEAN, stage: Stage, ready_notified: BOOLEAN]
Idle       == [pc |-> "idle", frames |-> <<>>]
Outcome    == {"session", "invalid", "timeout"}
Callback   == {"new", "data", "disconnected", "node stopped"}

IoPc    == {"exited", "poll", "submit", "handshake", "create", "announce"}
TimerPc == {"exited", "sleep", "scan", "remove", "spawn"}
AppPc   == {"idle", "remove", "spawn", "snapshot", "close", "join", "clear",
            "halt", "emit", "join_teardown"}

TableType ==
    /\ sessions \subseteq Sid
    /\ endpoint_sessions \in [Endpoint -> Sid \cup {NoSid}]
    /\ client_sessions \in [ClientId -> SUBSET Sid]
PeerType == peer \in [Sid -> PeerSession]
ConnectType ==
    /\ pending \in [endpoint: Endpoint \cup {NoEndpoint}, attempt: 0..MaxConnects]
    /\ connects \in 0..MaxConnects
    /\ outcome \in [1..MaxConnects -> Seq(Outcome)]
PipelineType ==
    /\ pipeline \in [Sid -> {"none", "running", "stopped"}]
    /\ rx \in [Sid -> Seq(Packets)]
WorkerType ==
    worker \in [Sid -> [pc: {"idle", "on_rx", "spawn"}, frames: Seq(Frame)]]
TeardownType == teardown \in [Sid -> {"none", "spawned", "halted", "done"}]
IoType ==
    io \in [pc: IoPc, endpoint: Endpoint \cup {NoEndpoint},
            packet: Packets \cup {<<>>}, sid: Sid \cup {NoSid}]
TimerType == timer \in [pc: TimerPc, todo: SUBSET Sid, sid: Sid \cup {NoSid}]
AppType ==
    app \in [pc: AppPc, sid: Sid \cup {NoSid}, ids: SUBSET Sid, todo: SUBSET Sid]
LogType == log \in [Sid -> Seq(Callback)]

(* Types; every id a thread holds is one of its maps' ids or the null value.  *)
TypeOK ==
    /\ running \in BOOLEAN /\ socket \in BOOLEAN /\ received \in 0..MaxPackets
    /\ TableType /\ PeerType /\ ConnectType
    /\ PipelineType /\ WorkerType /\ TeardownType
    /\ IoType /\ TimerType /\ AppType /\ LogType

-----------------------------------------------------------------------------
(* Session table.  The callers hold sessions_mutex_ around each of these.    *)

find_session(s) == IF s \in sessions THEN s ELSE NoSid

find_session_by_endpoint_key(e) == find_session(endpoint_sessions[e])

(* create_session: a new PeerSession, its pipeline started, entered in the   *)
(* table and in both indices.                                                *)
create_session(s, e, c) ==
    /\ peer' = [peer EXCEPT ![s] =
           [endpoint |-> e, client_id |-> c, idle |-> FALSE,
            stage |-> IF HttpPrelude THEN "pending" ELSE "data",
            ready_notified |-> FALSE]]
    /\ pipeline' = [pipeline EXCEPT ![s] = "running"]
    /\ sessions' = sessions \cup {s}
    /\ endpoint_sessions' = [endpoint_sessions EXCEPT ![e] = s]
    /\ client_sessions' = [k \in ClientId |->
           IF k = c THEN client_sessions[k] \cup {s} ELSE client_sessions[k]]

(* Mutants: the endpoint index keeps the removed id; it gets the wrong null. *)
remove_session_keeps_endpoint(s) ==
    /\ sessions' = sessions \ {s}
    /\ UNCHANGED <<endpoint_sessions, client_sessions>>
remove_session_wrong_null(s) ==
    /\ sessions' = sessions \ {s}
    /\ endpoint_sessions' = [e \in Endpoint |->
           IF endpoint_sessions[e] = s THEN NoEndpoint ELSE endpoint_sessions[e]]
    /\ UNCHANGED client_sessions

(* remove_session: the endpoint entry goes only if it still names s.         *)
remove_session(s) ==
    /\ sessions' = sessions \ {s}
    /\ endpoint_sessions' = [e \in Endpoint |->
           IF e = peer[s].endpoint /\ endpoint_sessions[e] = s
           THEN NoSid ELSE endpoint_sessions[e]]
    /\ client_sessions' = [k \in ClientId |->
           IF k = peer[s].client_id THEN client_sessions[k] \ {s}
           ELSE client_sessions[k]]

(* The session is gone already: remove_session returns nullptr.              *)
remove_nothing(s) == s \notin sessions /\ UNCHANGED table

teardown_session_async(s) == teardown' = [teardown EXCEPT ![s] = "spawned"]

emit(s, callback) == log' = [log EXCEPT ![s] = Append(@, callback)]

(* Mutant: the attempt is resolved and stays pending.                        *)
resolve_keeps_pending(result) ==
    /\ outcome' = [outcome EXCEPT ![pending.attempt] = Append(@, result)]
    /\ UNCHANGED pending

(* The pending connect() attempt ends, under handshake_mutex_.               *)
resolve(result) ==
    /\ outcome' = [outcome EXCEPT ![pending.attempt] = Append(@, result)]
    /\ pending' = NoPending

(* Mutants: every caller announces; nobody announces a session that needs no *)
(* prelude; a session is announced in any stage.                             *)
maybe_emit_ready_always(s, p) ==
    peer' = [peer EXCEPT ![s] = [p EXCEPT !.ready_notified = TRUE]] /\ emit(s, "new")
maybe_drive_http_prelude_mute(s, p) == peer' = [peer EXCEPT ![s] = p] /\ UNCHANGED log
maybe_drive_http_prelude_early(s, p) ==
    /\ peer' = [peer EXCEPT ![s] = [p EXCEPT !.ready_notified = TRUE]]
    /\ IF p.ready_notified THEN UNCHANGED log ELSE emit(s, "new")

(* maybe_drive_http_prelude and maybe_emit_ready, for a peer p in the stage  *)
(* it is in: sent tells whether the prelude, where one is due, could be      *)
(* produced and sent.  ready_notified.exchange(true) lets one caller through.*)
maybe_emit_ready(s, p) ==
    /\ peer' = [peer EXCEPT ![s] = [p EXCEPT !.ready_notified = TRUE]]
    /\ IF p.ready_notified THEN UNCHANGED log ELSE emit(s, "new")

maybe_drive_http_prelude(s, p) ==
    LET due  == IF IsClient THEN p.stage = "pending" ELSE p.stage = "in_progress"
        next == IF IsClient THEN "in_progress" ELSE "data"
        \* emit_websocket_http_prelude() moves the stage on, and a send that
        \* succeeds is activity
        sent == [p EXCEPT !.stage = next, !.idle = FALSE]
    IN  IF ~due
        THEN IF p.stage = "data" THEN maybe_emit_ready(s, p)
             ELSE peer' = [peer EXCEPT ![s] = p] /\ UNCHANGED log
        ELSE \/ IF next = "data" THEN maybe_emit_ready(s, sent)
                ELSE peer' = [peer EXCEPT ![s] = sent] /\ UNCHANGED log
             \/ \* nothing emitted, or the datagram could not be sent
                /\ \E st \in {p.stage, next} :
                       peer' = [peer EXCEPT ![s] = [p EXCEPT !.stage = st]]
                /\ UNCHANGED log

-----------------------------------------------------------------------------
Init ==
    /\ running = FALSE /\ socket = FALSE
    /\ sessions = {}
    /\ endpoint_sessions = [e \in Endpoint |-> NoSid]
    /\ client_sessions = [k \in ClientId |-> {}]
    /\ peer = [s \in Sid |-> NoPeer]
    /\ pending = NoPending /\ connects = 0
    /\ outcome = [a \in 1..MaxConnects |-> <<>>]
    /\ pipeline = [s \in Sid |-> "none"]
    /\ rx = [s \in Sid |-> <<>>]
    /\ worker = [s \in Sid |-> Idle]
    /\ teardown = [s \in Sid |-> "none"]
    /\ io = [pc |-> "exited", endpoint |-> NoEndpoint, packet |-> <<>>, sid |-> NoSid]
    /\ timer = [pc |-> "exited", todo |-> {}, sid |-> NoSid]
    /\ app = [pc |-> "idle", sid |-> NoSid, ids |-> {}, todo |-> {}]
    /\ log = [s \in Sid |-> <<>>]
    /\ received = 0

(* ------------------------- application thread ---------------------------- *)
Start ==
    /\ app.pc = "idle" /\ ~running
    /\ running' = TRUE /\ socket' = TRUE
    /\ pending' = NoPending
    /\ io' = [io EXCEPT !.pc = "poll"]
    /\ timer' = [timer EXCEPT !.pc = "scan"]   \* nothing to scan: the loop condition
    /\ UNCHANGED <<table, peer, connects, outcome, workers, teardown, app, log, received>>

(* connect() overwrites whatever attempt was pending; a failed send of the   *)
(* init datagram takes it back, in a critical section of its own.  The two   *)
(* are one step: in between nothing can answer an init that was not sent,    *)
(* and its deadline has only begun.                                          *)
Connect(e) ==
    /\ app.pc = "idle" /\ running /\ IsClient
    /\ connects < MaxConnects
    /\ connects' = connects + 1
    /\ pending' \in {[endpoint |-> e, attempt |-> connects'], NoPending}
    /\ UNCHANGED <<running, socket, table, peer, outcome, workers, teardown,
                   io, timer, app, log, received>>

(* send(): a datagram queued for sending counts as activity of the session.  *)
Send(s) ==
    /\ app.pc = "idle"
    /\ find_session(s) # NoSid
    /\ peer' = [peer EXCEPT ![s].idle = FALSE]
    /\ UNCHANGED <<running, socket, table, connect, workers, teardown,
                   io, timer, app, log, received>>

(* disconnect(): find_session, the disconnect frame, then remove_session     *)
(* under the lock, which can find the session gone by then.  find_session    *)
(* reads the table without the lock (node.cpp:286): when a thread changes    *)
(* the table meanwhile it may miss the session, which is no step, or find    *)
(* one just removed, as if it had looked before; a crash is left out.        *)
Disconnect(s) ==
    /\ app.pc = "idle"
    /\ find_session(s) # NoSid
    /\ app' = [app EXCEPT !.pc = "remove", !.sid = s]
    /\ UNCHANGED <<running, socket, table, peer, connect, workers, teardown,
                   io, timer, log, received>>

DisconnectRemove ==
    /\ app.pc = "remove"
    /\ \/ /\ app.sid \in sessions
          /\ remove_session(app.sid)
          /\ app' = [app EXCEPT !.pc = "spawn"]
       \/ /\ remove_nothing(app.sid)
          /\ app' = [app EXCEPT !.pc = "idle", !.sid = NoSid]
    /\ UNCHANGED <<running, socket, peer, connect, workers, teardown,
                   io, timer, log, received>>

DisconnectSpawn ==
    /\ app.pc = "spawn"
    /\ teardown_session_async(app.sid)
    /\ app' = [app EXCEPT !.pc = "idle", !.sid = NoSid]
    /\ UNCHANGED <<running, socket, table, peer, connect, workers,
                   io, timer, log, received>>

(* stop(), one action per section between two locks or joins.                *)
StopBegin ==
    /\ app.pc = "idle" /\ running
    /\ running' = FALSE
    /\ app' = [app EXCEPT !.pc = "snapshot"]
    /\ UNCHANGED <<socket, table, peer, connect, workers, teardown,
                   io, timer, log, received>>

StopSnapshot ==
    /\ app.pc = "snapshot"
    /\ app' = [app EXCEPT !.pc = "close", !.ids = sessions, !.todo = sessions]
    /\ UNCHANGED <<running, socket, table, peer, connect, workers, teardown,
                   io, timer, log, received>>

StopClose ==
    /\ app.pc = "close"
    /\ socket' = FALSE
    /\ app' = [app EXCEPT !.pc = "join"]
    /\ UNCHANGED <<running, table, peer, connect, workers, teardown,
                   io, timer, log, received>>

StopJoin ==
    /\ app.pc = "join"
    /\ io.pc = "exited" /\ timer.pc = "exited"
    /\ app' = [app EXCEPT !.pc = "clear"]
    /\ UNCHANGED <<running, socket, table, peer, connect, workers, teardown,
                   io, timer, log, received>>

(* Clearing the maps drops the last reference to a session the snapshot      *)
(* missed: its pipeline is destroyed, once its worker is through with the    *)
(* datagram it may be handling.  That a worker may itself hold the last      *)
(* reference, and destroy its session from within, is left out.              *)
StopClear ==
    /\ app.pc = "clear"
    /\ sessions' = {}
    /\ endpoint_sessions' = [e \in Endpoint |-> NoSid]
    /\ client_sessions' = [k \in ClientId |-> {}]
    /\ pending' = NoPending
    /\ pipeline' = [s \in Sid |->
           IF s \in sessions \ app.ids THEN "stopped" ELSE pipeline[s]]
    /\ app' = [app EXCEPT !.pc = "halt"]
    /\ UNCHANGED <<running, socket, peer, connects, outcome, rx, worker, teardown,
                   io, timer, log, received>>

(* pipeline->stop() joins the worker, then on_disconnected per snapshot id.  *)
StopPipeline(s) ==
    /\ app.pc = "halt" /\ s \in app.todo
    /\ worker[s].pc = "idle"
    /\ pipeline' = [pipeline EXCEPT ![s] = "stopped"]
    /\ app' = [app EXCEPT !.todo = @ \ {s}]
    /\ UNCHANGED <<running, socket, table, peer, connect, rx, worker, teardown,
                   io, timer, log, received>>

StopPipelinesDone ==
    /\ app.pc = "halt" /\ app.todo = {}
    /\ app' = [app EXCEPT !.pc = "emit", !.todo = app.ids]
    /\ UNCHANGED <<running, socket, table, peer, connect, workers, teardown,
                   io, timer, log, received>>

StopEmit(s) ==
    /\ app.pc = "emit" /\ s \in app.todo
    /\ emit(s, "node stopped")
    /\ app' = [app EXCEPT !.todo = @ \ {s}]
    /\ UNCHANGED <<running, socket, table, peer, connect, workers, teardown,
                   io, timer, received>>

StopEmitDone ==
    /\ app.pc = "emit" /\ app.todo = {}
    /\ app' = [app EXCEPT !.pc = "join_teardown"]
    /\ UNCHANGED <<running, socket, table, peer, connect, workers, teardown,
                   io, timer, log, received>>

join_teardown_threads ==
    /\ app.pc = "join_teardown"
    /\ \A s \in Sid : teardown[s] \in {"none", "done"}
    /\ app' = [app EXCEPT !.pc = "idle", !.ids = {}]
    /\ UNCHANGED <<running, socket, table, peer, connect, workers, teardown,
                   io, timer, log, received>>

(* ----------------------------- I/O thread -------------------------------- *)
IoExit ==
    /\ io.pc = "poll" /\ ~running
    /\ io' = [io EXCEPT !.pc = "exited"]
    /\ UNCHANGED <<running, socket, table, peer, connect, workers, teardown,
                   timer, app, log, received>>

(* dispatch_packet, up to the release of sessions_mutex_ after the lookup.   *)
(* poll() is under way when stop() clears running_, so a datagram is still   *)
(* dispatched until the socket is closed.                                    *)
DispatchLookup(e, p) ==
    /\ io.pc = "poll" /\ socket /\ received < MaxPackets
    /\ received' = received + 1
    /\ LET s == find_session_by_endpoint_key(e)
       IN  io' = [pc |-> IF s # NoSid THEN "submit" ELSE "handshake",
                  endpoint |-> e, packet |-> IF s # NoSid THEN p ELSE <<>>, sid |-> s]
    /\ UNCHANGED <<running, socket, table, peer, connect, workers, teardown,
                   timer, app, log>>

IoDone == io' = [io EXCEPT !.pc = "poll", !.endpoint = NoEndpoint,
                           !.packet = <<>>, !.sid = NoSid]

(* The session found by the lookup gets the datagram even if it has been     *)
(* removed since; a pipeline that was stopped ignores it.                    *)
DispatchSubmit ==
    /\ io.pc = "submit"
    /\ peer' = [peer EXCEPT ![io.sid].idle = FALSE]
    /\ rx' = IF pipeline[io.sid] = "running"
             THEN [rx EXCEPT ![io.sid] = Append(@, io.packet)] ELSE rx
    /\ IoDone
    /\ UNCHANGED <<running, socket, table, connect, pipeline, worker, teardown,
                   timer, app, log, received>>

(* Bound: a handshake succeeds while there is a session id left.             *)
FreshSid == {s \in Sid : pipeline[s] = "none"}

(* No session for the endpoint.  A server tries the datagram as a handshake  *)
(* init.  A client consumes it as the response it waits for: whatever comes  *)
(* from the pending endpoint resolves the attempt, well or badly.            *)
DispatchHandshakeServer ==
    /\ io.pc = "handshake" /\ ~IsClient
    /\ \/ FreshSid # {} /\ io' = [io EXCEPT !.pc = "create"]
       \/ IoDone
    /\ UNCHANGED <<running, socket, table, peer, connect, workers, teardown,
                   timer, app, log, received>>

DispatchHandshakeClient ==
    /\ io.pc = "handshake" /\ IsClient
    /\ \/ /\ pending.endpoint = io.endpoint
          /\ \/ resolve("session") /\ FreshSid # {} /\ io' = [io EXCEPT !.pc = "create"]
             \/ resolve("invalid") /\ IoDone
       \/ /\ pending.endpoint # io.endpoint
          /\ IoDone
          /\ UNCHANGED <<pending, outcome>>
    /\ UNCHANGED <<running, socket, table, peer, connects, workers, teardown,
                   timer, app, log, received>>

DispatchCreate(s, c) ==
    /\ io.pc = "create"
    /\ s \in FreshSid
    /\ create_session(s, io.endpoint, c)
    /\ io' = [io EXCEPT !.pc = "announce", !.sid = s]
    /\ UNCHANGED <<running, socket, connect, rx, worker, teardown,
                   timer, app, log, received>>

DispatchAnnounce ==
    /\ io.pc = "announce"
    /\ maybe_drive_http_prelude(io.sid, peer[io.sid])
    /\ IoDone
    /\ UNCHANGED <<running, socket, table, connect, workers, teardown,
                   timer, app, received>>

(* ---------------------------- timer thread ------------------------------- *)
(* Mutants: the deadline is never enforced; the loop ignores running_.       *)
HandshakeTimeout_never == pending # NoPending /\ UNCHANGED <<pending, outcome>>
TimerLoop_ignores_stop ==
    /\ timer.pc = "scan" /\ timer.todo = {}
    /\ timer' = [timer EXCEPT !.pc = "sleep"]
    /\ UNCHANGED <<running, socket, table, peer, connect, workers, teardown,
                   io, app, log, received>>

(* The deadline of the pending attempt has passed when the sleep ends, or    *)
(* not; then the table is copied, under another lock: the two parts share    *)
(* nothing and are one step.  A stop() during the sleep or the turn lets the *)
(* turn finish.                                                              *)
HandshakeTimeout == pending # NoPending /\ resolve("timeout")

TimerTurn(deadline) ==
    /\ timer.pc = "sleep"
    /\ IF deadline THEN HandshakeTimeout ELSE UNCHANGED <<pending, outcome>>
    /\ timer' = [timer EXCEPT !.pc = "scan", !.todo = sessions]
    /\ UNCHANGED <<running, socket, table, peer, connects, workers, teardown,
                   io, app, log, received>>

TimerCheck(s) ==
    /\ timer.pc = "scan" /\ s \in timer.todo
    /\ timer' = IF IdleTimeout /\ peer[s].idle
                THEN [pc |-> "remove", todo |-> timer.todo \ {s}, sid |-> s]
                ELSE [timer EXCEPT !.todo = @ \ {s}]
    /\ UNCHANGED <<running, socket, table, peer, connect, workers, teardown,
                   io, app, log, received>>

TimerRemove ==
    /\ timer.pc = "remove"
    /\ \/ /\ timer.sid \in sessions
          /\ remove_session(timer.sid)
          /\ timer' = [timer EXCEPT !.pc = "spawn"]
       \/ /\ remove_nothing(timer.sid)
          /\ timer' = [timer EXCEPT !.pc = "scan", !.sid = NoSid]
    /\ UNCHANGED <<running, socket, peer, connect, workers, teardown,
                   io, app, log, received>>

TimerSpawn ==
    /\ timer.pc = "spawn"
    /\ teardown_session_async(timer.sid)
    /\ timer' = [timer EXCEPT !.pc = "scan", !.sid = NoSid]
    /\ UNCHANGED <<running, socket, table, peer, connect, workers,
                   io, app, log, received>>

TimerLoop ==
    /\ timer.pc = "scan" /\ timer.todo = {}
    /\ timer' = [timer EXCEPT !.pc = IF running THEN "sleep" ELSE "exited"]
    /\ UNCHANGED <<running, socket, table, peer, connect, workers, teardown,
                   io, app, log, received>>

(* session_idle_timeout_ms pass without activity on s.                       *)
GoQuiet(s) ==
    /\ IdleTimeout /\ s \in sessions
    /\ ~peer[s].idle
    /\ peer' = [peer EXCEPT ![s].idle = TRUE]
    /\ UNCHANGED <<running, socket, table, connect, workers, teardown,
                   io, timer, app, log, received>>

(* ------------------- receive worker of one session ----------------------- *)
(* The pipeline decodes the next datagram.  One without frames can carry the *)
(* peer's HTTP prelude, which moves the stage on; until the data phase is    *)
(* reached no other datagram decodes.                                        *)
WorkerTake(s) ==
    /\ pipeline[s] = "running" /\ worker[s].pc = "idle" /\ rx[s] # <<>>
    /\ rx' = [rx EXCEPT ![s] = Tail(@)]
    /\ worker' = IF peer[s].stage = "data" \/ Head(rx[s]) = <<>>
                 THEN [worker EXCEPT ![s] = [pc |-> "on_rx", frames |-> Head(rx[s])]]
                 ELSE worker
    /\ UNCHANGED <<running, socket, table, peer, connect, pipeline, teardown,
                   io, timer, app, log, received>>

(* on_rx with no frames.                                                     *)
WorkerPrelude(s) ==
    /\ worker[s].pc = "on_rx" /\ worker[s].frames = <<>>
    /\ LET stage == CASE ~IsClient /\ peer[s].stage = "pending"    -> "in_progress"
                       [] IsClient /\ peer[s].stage = "in_progress" -> "data"
                       [] OTHER -> peer[s].stage
       IN  maybe_drive_http_prelude(s, [peer[s] EXCEPT !.stage = stage])
    /\ worker' = [worker EXCEPT ![s] = Idle]
    /\ UNCHANGED <<running, socket, table, connect, pipeline, rx, teardown,
                   io, timer, app, received>>

(* emit_data, frame by frame; a disconnect frame drops the ones behind it.   *)
NextFrame(s) == worker' = [worker EXCEPT ![s] =
    IF Len(@.frames) = 1 THEN Idle ELSE [pc |-> "on_rx", frames |-> Tail(@.frames)]]

EmitData(s) ==
    /\ Head(worker[s].frames) = "data"
    /\ emit(s, "data")
    /\ NextFrame(s)
    /\ UNCHANGED table

SkipControl(s) ==
    /\ Head(worker[s].frames) = "control"
    /\ NextFrame(s)
    /\ UNCHANGED <<table, log>>

handle_control_frame(s) ==
    /\ Head(worker[s].frames) = "disconnect"
    /\ \/ /\ s \in sessions
          /\ remove_session(s)
          /\ worker' = [worker EXCEPT ![s] = [pc |-> "spawn", frames |-> <<>>]]
       \/ /\ remove_nothing(s)
          /\ worker' = [worker EXCEPT ![s] = Idle]
    /\ UNCHANGED log

EmitFrame(s) ==
    /\ worker[s].pc = "on_rx" /\ worker[s].frames # <<>>
    /\ EmitData(s) \/ SkipControl(s) \/ handle_control_frame(s)
    /\ UNCHANGED <<running, socket, peer, connect, pipeline, rx, teardown,
                   io, timer, app, received>>

(* Mutant: the removed session is not handed to a teardown thread.           *)
WorkerSpawn_lost(s) ==
    /\ worker[s].pc = "spawn"
    /\ worker' = [worker EXCEPT ![s] = Idle]
    /\ UNCHANGED <<running, socket, table, peer, connect, pipeline, rx, teardown,
                   io, timer, app, log, received>>

WorkerSpawn(s) ==
    /\ worker[s].pc = "spawn"
    /\ teardown_session_async(s)
    /\ worker' = [worker EXCEPT ![s] = Idle]
    /\ UNCHANGED <<running, socket, table, peer, connect, pipeline, rx,
                   io, timer, app, log, received>>

(* ---------------------------- teardown thread ---------------------------- *)
(* Mutant: stopping the pipeline does not join its worker.                   *)
TeardownHalt_nowait(s) ==
    /\ teardown[s] = "spawned"
    /\ pipeline' = [pipeline EXCEPT ![s] = "stopped"]
    /\ teardown' = [teardown EXCEPT ![s] = "halted"]
    /\ UNCHANGED <<running, socket, table, peer, connect, rx, worker,
                   io, timer, app, log, received>>

TeardownHalt(s) ==
    /\ teardown[s] = "spawned"
    /\ worker[s].pc = "idle"
    /\ pipeline' = [pipeline EXCEPT ![s] = "stopped"]
    /\ teardown' = [teardown EXCEPT ![s] = "halted"]
    /\ UNCHANGED <<running, socket, table, peer, connect, rx, worker,
                   io, timer, app, log, received>>

TeardownEmit(s) ==
    /\ teardown[s] = "halted"
    /\ emit(s, "disconnected")
    /\ teardown' = [teardown EXCEPT ![s] = "done"]
    /\ UNCHANGED <<running, socket, table, peer, connect, workers,
                   io, timer, app, received>>

-----------------------------------------------------------------------------
AppStep ==
    \/ Start
    \/ \E e \in Endpoint : Connect(e)
    \/ \E s \in Sid : Send(s) \/ Disconnect(s) \/ StopPipeline(s) \/ StopEmit(s)
    \/ DisconnectRemove \/ DisconnectSpawn
    \/ StopBegin \/ StopSnapshot \/ StopClose \/ StopJoin \/ StopClear
    \/ StopPipelinesDone \/ StopEmitDone \/ join_teardown_threads

IoStep ==
    \/ \E e \in Endpoint, p \in Packets : DispatchLookup(e, p)
    \/ DispatchSubmit \/ DispatchHandshakeServer \/ DispatchHandshakeClient
    \/ \E s \in Sid, c \in ClientId \cup {NoClient} : DispatchCreate(s, c)
    \/ DispatchAnnounce \/ IoExit

TimerStep ==
    \/ \E deadline \in BOOLEAN : TimerTurn(deadline)
    \/ TimerRemove \/ TimerSpawn \/ TimerLoop
    \/ \E s \in Sid : TimerCheck(s)

WorkerStep(s)   == WorkerTake(s) \/ WorkerPrelude(s) \/ EmitFrame(s) \/ WorkerSpawn(s)
TeardownStep(s) == TeardownHalt(s) \/ TeardownEmit(s)

Next ==
    \/ AppStep \/ IoStep \/ TimerStep
    \/ \E s \in Sid : WorkerStep(s) \/ TeardownStep(s) \/ GoQuiet(s)

Spec == Init /\ [][Next]_vars

(* Every thread that can step eventually does; what it does not control (the *)
(* arrival of datagrams, the calls the application makes) stays unfair.  The *)
(* handshake deadline passes after finitely many turns of the timer.         *)
StopStep ==
    \/ StopSnapshot \/ StopClose \/ StopJoin \/ StopClear \/ StopPipelinesDone
    \/ StopEmitDone \/ join_teardown_threads
    \/ \E s \in Sid : StopPipeline(s) \/ StopEmit(s)
DispatchStep ==
    \/ DispatchSubmit \/ DispatchHandshakeServer \/ DispatchHandshakeClient
    \/ \E s \in Sid, c \in ClientId \cup {NoClient} : DispatchCreate(s, c)
    \/ DispatchAnnounce \/ IoExit

Fairness ==
    /\ WF_vars(StopStep) /\ WF_vars(DisconnectRemove \/ DisconnectSpawn)
    /\ WF_vars(DispatchStep)
    /\ WF_vars(TimerStep) /\ SF_vars(TimerTurn(TRUE))
    /\ \A s \in Sid : WF_vars(WorkerStep(s)) /\ WF_vars(TeardownStep(s))

FairSpec == Spec /\ Fairness

-----------------------------------------------------------------------------
(* Properties.                                                               *)

(* The two indices answer exactly for the sessions in the table: a live      *)
(* session is reached by its own endpoint and nobody else's, an index never  *)
(* names a removed session, and no two live sessions share an endpoint, even *)
(* though threads remove while the I/O thread is between lookup and creation *)
(* (create_session, remove_session, StopClear).                              *)
IndicesMatch ==
    /\ \A s \in sessions : endpoint_sessions[peer[s].endpoint] = s
    /\ \A e \in Endpoint : endpoint_sessions[e] # NoSid =>
           endpoint_sessions[e] \in sessions /\ peer[endpoint_sessions[e]].endpoint = e
    /\ \A c \in ClientId :
           client_sessions[c] = {s \in sessions : peer[s].client_id = c}

(* What the threads hold between two steps: an id they may still use, and an *)
(* endpoint the lookup found without a session, which only the I/O thread    *)
(* itself could give one.                                                    *)
IoOK ==
    /\ io.pc \in {"submit", "announce"} => io.sid \in Sid
    /\ io.pc = "submit" => io.packet \in Packets
    /\ io.pc \in {"handshake", "create"} =>
           io.endpoint \in Endpoint /\ endpoint_sessions[io.endpoint] = NoSid
TimerOK == timer.pc \in {"remove", "spawn"} => timer.sid \in Sid
AppOK   == app.pc \in {"remove", "spawn"} => app.sid \in Sid
PeersOK == \A s \in sessions : peer[s].endpoint \in Endpoint /\ pipeline[s] # "none"

ThreadsOK == IoOK /\ TimerOK /\ AppOK /\ PeersOK

Fired(s, callback) == \E i \in DOMAIN log[s] : log[s][i] = callback
Ended(s) == Fired(s, "disconnected") \/ Fired(s, "node stopped")

(* No data callback follows a disconnect callback of the same session: the   *)
(* worker is joined before either thread reports the end (teardown threads,  *)
(* stop()), although it keeps draining its queue after the removal.          *)
NoDataAfterEnd ==
    \A s \in Sid : \A i, j \in DOMAIN log[s] :
        i < j /\ log[s][i] \in {"disconnected", "node stopped"} => log[s][j] # "data"

(* Why: whoever reports the end of s has stopped its pipeline before, and a   *)
(* stopped pipeline never calls back again.                                  *)
Halted(s) == pipeline[s] = "stopped" /\ worker[s].pc = "idle"
HaltOK ==
    /\ \A s \in Sid : Ended(s) \/ teardown[s] \in {"halted", "done"} => Halted(s)
    /\ app.pc \in {"close", "join", "clear"} => app.ids \subseteq app.todo
    /\ app.pc = "halt" => \A s \in app.ids \ app.todo : Halted(s)
    /\ app.pc = "emit" => \A s \in app.todo : Halted(s)

(* on_new_connection fires once per session at most, whoever drives the      *)
(* prelude, and each way of ending a session reports it once at most: of the *)
(* threads racing in remove_session only one gets the peer.                  *)
CallbacksOnce ==
    \A s \in Sid : \A i, j \in DOMAIN log[s] :
        log[s][i] = log[s][j] /\ log[s][i] # "data" => i = j

(* Each connect() ends in one way at most: session, rejected response or     *)
(* timeout, although the I/O and timer threads race for it and a later       *)
(* connect() replaces it.                                                    *)
OneOutcomePerConnect == \A a \in 1..MaxConnects : Len(outcome[a]) <= 1

(* Data reaches the application only for sessions it was told of             *)
(* (dispatch_packet announces before it takes the next datagram).            *)
NewBeforeData ==
    \A s \in Sid : \A j \in DOMAIN log[s] :
        log[s][j] = "data" => \E i \in 1..j : log[s][i] = "new"

(* Under HTTP emulation a session is announced in its data phase only.       *)
AnnouncedInDataPhase ==
    \A s \in Sid : Fired(s, "new") => peer[s].stage = "data"

(* A thread that took a session out of the table reports its end: the        *)
(* hand-over worker or timer or application -> teardown thread loses none.   *)
Removed(s) ==
    \/ app.pc = "spawn" /\ app.sid = s
    \/ timer.pc = "spawn" /\ timer.sid = s
    \/ worker[s].pc = "spawn"
RemovedIsReported == \A s \in Sid : Removed(s) ~> Fired(s, "disconnected")

(* stop() returns: it waits for the I/O and timer threads, for the workers   *)
(* of its snapshot and for the teardown threads, and none waits for it.      *)
StopReturns == app.pc = "snapshot" ~> app.pc = "idle"

(* connect() never hangs in the node: response, timeout, replacement or stop *)
(* ends it, there is no attempt pending for ever (timer_loop).               *)
ConnectResolves == \A a \in 1..MaxConnects :
    pending.attempt = a ~> pending.attempt # a

(* README.md:262 promises a DisconnectedEvent on stop().                     *)
StopReportsEverySession ==
    app.pc = "idle" /\ ~running => \A s \in Sid : Fired(s, "new") => Ended(s)

(* node.h:131 promises that stop() stops all threads.                        *)
SilentAfterStop == [][app.pc = "idle" /\ ~running => UNCHANGED log]_vars
=============================================================================
