----------------------------- MODULE VeilClient -----------------------------
(* veil_core/client.py over a VeilNode: connect() coroutines, the callbacks  *)
(* the node's threads make, and the event loop between them.  A callback     *)
(* holds the GIL, which a thread may lose after a call it makes; whatever it *)
(* wants done on the loop it appends to the loop's ready queue.              *)
EXTENDS Naturals, Sequences

CONSTANTS
    Sid,        \* session ids of the node
    NoSid,      \* None
    Reads,      \* the application iterates over events()
    MaxConnects, \* bound: calls of connect()
    MaxAhead    \* bound: callbacks still to run when a timer of the loop fires

ASSUME ClientConstantsOK ==
    /\ NoSid \notin Sid /\ Reads \in BOOLEAN
    /\ MaxConnects \in Nat /\ MaxAhead \in Nat

Attempt == 1..MaxConnects
None    == 0     \* no pending connect()

VARIABLES
    running,         \* Client._running
    stop,            \* how far the stop() that blocks the loop has come
    snapshot,        \* sessions it will report
    session_id,      \* Client._session_id
    pending_connect, \* Client._pending_connect, as the connect() it belongs to
    future,          \* the future of each connect()
    result,          \* the session it was resolved with
    call,            \* the coroutine of each connect()
    ready,           \* the loop's ready queue
    queue,           \* Client._queue
    reader,          \* the events() generator
    node,            \* the node: off, on, or with a client handshake pending
    session,         \* the node's sessions
    cb               \* the callback a node thread is in

loopvars == <<pending_connect, future, result, call>>
vars == <<running, stop, snapshot, session_id, loopvars, ready, queue, reader,
          node, session, cb>>

Event == [kind: {"new", "disconnected"}, sid: Sid] \cup [kind: {"error"}, sid: {NoSid}]
NoCallback == [pc |-> "idle", event |-> [kind |-> "error", sid |-> NoSid]]

put_nowait(event)      == [do |-> "put", event |-> event]
set_result(a, s)       == [do |-> "set_result", attempt |-> a, sid |-> s]
set_exception(a)       == [do |-> "set_exception", attempt |-> a]
wakeup(a)              == [do |-> "wakeup", attempt |-> a]
wakeup_reader          == [do |-> "reader"]
Entry ==
    [do: {"put"}, event: Event] \cup
    [do: {"set_result"}, attempt: Attempt, sid: Sid] \cup
    [do: {"set_exception", "wakeup"}, attempt: Attempt] \cup
    [do: {"reader"}]

(* Types of the client, the loop and the node below it.                     *)
ClientTypeOK ==
    /\ running \in BOOLEAN /\ node \in {"off", "on", "handshake"}
    /\ stop \in {"no", "joining", "emitting"} /\ snapshot \subseteq Sid
    /\ session_id \in Sid \cup {NoSid}
    /\ pending_connect \in Attempt \cup {None}
    /\ future \in [Attempt -> {"none", "pending", "result", "failed", "cancelled"}]
    /\ result \in [Attempt -> Sid \cup {NoSid}]
    /\ call \in [Attempt -> {"none", "awaiting", "cancelled", "returned", "raised"}]
    /\ ready \in Seq(Entry)
    /\ queue \in Seq(Event)
    /\ reader \in {"off", "asleep", "woken", "body", "ended"}
    /\ session \in [Sid -> {"none", "live", "closing", "ended"}]
    /\ cb \in [pc: {"idle", "resolve", "push"}, event: Event]

Init ==
    /\ running = FALSE /\ stop = "no" /\ snapshot = {}
    /\ session_id = NoSid /\ pending_connect = None
    /\ future = [a \in Attempt |-> "none"] /\ result = [a \in Attempt |-> NoSid]
    /\ call = [a \in Attempt |-> "none"]
    /\ ready = <<>> /\ queue = <<>> /\ reader = "off"
    /\ node = "off" /\ session = [s \in Sid |-> "none"] /\ cb = NoCallback

(* The loop thread is not inside node.stop().                                *)
LoopFree == stop = "no"

(* The loop looks at its timers between two rounds of its ready queue.       *)
TimersRun == LoopFree /\ Len(ready) <= MaxAhead

Undone(a) == a # None /\ future[a] = "pending"

-----------------------------------------------------------------------------
(* Calls of the application, on the loop.                                    *)

(* start() sets _running before node.start(), which may raise: the port is   *)
(* taken, the key is empty.                                                  *)
Start ==
    /\ LoopFree /\ node = "off"
    /\ running' = TRUE
    /\ node' \in {"off", "on"}
    /\ UNCHANGED <<stop, snapshot, session_id, loopvars, ready, queue, reader,
                   session, cb>>

(* Mutant: connect() does not look for one in progress.                      *)
Connect_unguarded(a) ==
    /\ LoopFree /\ call[a] = "none" /\ node # "off"
    /\ pending_connect' = a
    /\ future' = [future EXCEPT ![a] = "pending"]
    /\ call' = [call EXCEPT ![a] = "awaiting"]
    /\ node' = "handshake"
    /\ UNCHANGED <<running, stop, snapshot, session_id, result, ready, queue,
                   reader, session, cb>>

(* connect() up to its await.  The node forgets an older handshake.          *)
Connect(a) ==
    /\ LoopFree /\ call[a] = "none"
    /\ ~Undone(pending_connect)
    /\ node # "off"
    /\ pending_connect' = a
    /\ future' = [future EXCEPT ![a] = "pending"]
    /\ call' = [call EXCEPT ![a] = "awaiting"]
    /\ node' = "handshake"
    /\ UNCHANGED <<running, stop, snapshot, session_id, result, ready, queue,
                   reader, session, cb>>

(* node.connect() raises, when it is not running or its datagram cannot be   *)
(* sent, which drops the handshake; the finally clause clears the future.    *)
ConnectRaises(a) ==
    /\ LoopFree /\ call[a] = "none"
    /\ ~Undone(pending_connect)
    /\ pending_connect' = None
    /\ call' = [call EXCEPT ![a] = "raised"]
    /\ node' = IF node = "off" THEN "off" ELSE "on"
    /\ UNCHANGED <<running, stop, snapshot, session_id, future, result, ready,
                   queue, reader, session, cb>>

Disconnect(s) ==
    /\ LoopFree
    /\ session[s] = "live"
    /\ session' = [session EXCEPT ![s] = "closing"]
    /\ session_id' = IF session_id = s THEN NoSid ELSE session_id
    /\ UNCHANGED <<running, stop, snapshot, loopvars, ready, queue, reader,
                   node, cb>>

(* Mutant: stop() leaves the pending connect() alone.                        *)
Stop_forgets_connect ==
    /\ LoopFree /\ running
    /\ running' = FALSE /\ session_id' = NoSid
    /\ stop' = IF node = "off" THEN "no" ELSE "joining"
    /\ snapshot' = {s \in Sid : session[s] = "live"}
    /\ UNCHANGED <<loopvars, ready, queue, reader, node, session, cb>>

(* stop(): fails the pending connect(), then blocks the loop in node.stop(), *)
(* which returns at once when the node never started.                        *)
Stop ==
    /\ LoopFree /\ running
    /\ running' = FALSE
    /\ IF Undone(pending_connect)
       THEN /\ future' = [future EXCEPT ![pending_connect] = "failed"]
            /\ ready' = Append(ready, wakeup(pending_connect))
       ELSE UNCHANGED <<future, ready>>
    /\ session_id' = NoSid
    /\ stop' = IF node = "off" THEN "no" ELSE "joining"
    /\ snapshot' = {s \in Sid : session[s] = "live"}
    /\ UNCHANGED <<pending_connect, result, call, queue, reader, node,
                   session, cb>>

(* The I/O and timer threads are joined; a session they made meanwhile goes  *)
(* without a callback.                                                       *)
StopJoin ==
    /\ stop = "joining" /\ cb.pc = "idle"
    /\ stop' = "emitting"
    /\ node' = "off"
    /\ session' = [s \in Sid |->
           IF session[s] = "live" /\ s \notin snapshot THEN "ended" ELSE session[s]]
    /\ UNCHANGED <<running, snapshot, session_id, loopvars, ready, queue,
                   reader, cb>>

StopDone ==
    /\ stop = "emitting" /\ snapshot = {}
    /\ \A s \in Sid : session[s] # "closing"
    /\ stop' = "no"
    /\ UNCHANGED <<running, snapshot, session_id, loopvars, ready, queue,
                   reader, node, session, cb>>

-----------------------------------------------------------------------------
(* The loop runs the head of its ready queue.                                *)

Run(do) == LoopFree /\ ready # <<>> /\ Head(ready).do = do

RunPut ==
    /\ Run("put")
    /\ queue' = Append(queue, Head(ready).event)
    /\ IF reader = "asleep"
       THEN reader' = "woken" /\ ready' = Append(Tail(ready), wakeup_reader)
       ELSE ready' = Tail(ready) /\ UNCHANGED reader
    /\ UNCHANGED <<running, stop, snapshot, session_id, loopvars, node,
                   session, cb>>

(* On a future that is done already set_result and set_exception only raise. *)
RunResolve ==
    LET a == Head(ready).attempt IN
    /\ Run("set_result") \/ Run("set_exception")
    /\ IF Undone(a)
       THEN /\ future' = [future EXCEPT ![a] =
                   IF Head(ready).do = "set_result" THEN "result" ELSE "failed"]
            /\ result' = [result EXCEPT ![a] =
                   IF Head(ready).do = "set_result" THEN Head(ready).sid ELSE NoSid]
            /\ ready' = Append(Tail(ready), wakeup(a))
       ELSE ready' = Tail(ready) /\ UNCHANGED <<future, result>>
    /\ UNCHANGED <<running, stop, snapshot, session_id, pending_connect, call,
                   queue, reader, node, session, cb>>

(* connect() after its await: the finally clause, then the active session.   *)
RunWakeup ==
    LET a        == Head(ready).attempt
        returned == call[a] = "awaiting" /\ future[a] = "result"
    IN
    /\ Run("wakeup")
    /\ ready' = Tail(ready)
    /\ pending_connect' = IF pending_connect = a THEN None ELSE pending_connect
    /\ call' = [call EXCEPT ![a] = IF returned THEN "returned" ELSE "raised"]
    /\ session_id' = IF returned THEN result[a] ELSE session_id
    /\ UNCHANGED <<running, stop, snapshot, future, result, queue, reader,
                   node, session, cb>>

(* asyncio.timeout(10) cancels the await; when the future is done but the    *)
(* coroutine has not run yet, its result is dropped.                         *)
Deadline(a) ==
    /\ TimersRun /\ call[a] = "awaiting"
    /\ IF Undone(a)
       THEN /\ future' = [future EXCEPT ![a] = "cancelled"]
            /\ ready' = Append(ready, wakeup(a))
            /\ UNCHANGED call
       ELSE /\ call' = [call EXCEPT ![a] = "cancelled"]
            /\ UNCHANGED <<future, ready>>
    /\ UNCHANGED <<running, stop, snapshot, session_id, pending_connect, result,
                   queue, reader, node, session, cb>>

(* Mutant: the loop condition does not look at _running.                     *)
next_event_endless ==
    /\ IF queue # <<>>
       THEN queue' = Tail(queue) /\ reader' = "body"
       ELSE reader' = "asleep" /\ UNCHANGED queue
    /\ UNCHANGED <<running, stop, snapshot, session_id, loopvars, node,
                   session, cb>>

(* events() from one yield to the next: the next event if there is one, and  *)
(* else sleep or end.  A read that times out comes to the same.              *)
next_event ==
    /\ IF queue # <<>>
       THEN queue' = Tail(queue) /\ reader' = "body"
       ELSE /\ reader' = IF running THEN "asleep" ELSE "ended"
            /\ UNCHANGED queue
    /\ UNCHANGED <<running, stop, snapshot, session_id, loopvars, node,
                   session, cb>>

(* The body of the async for gives control back.                             *)
EventsLoop ==
    /\ LoopFree /\ Reads /\ reader \in {"off", "body"}
    /\ next_event
    /\ UNCHANGED ready

RunReader ==
    /\ Run("reader")
    /\ ready' = Tail(ready)
    /\ next_event

(* The 0.1 s of one read are up.                                             *)
EventsTimeout ==
    /\ TimersRun /\ reader = "asleep"
    /\ reader' = "woken"
    /\ ready' = Append(ready, wakeup_reader)
    /\ UNCHANGED <<running, stop, snapshot, session_id, loopvars, queue,
                   node, session, cb>>

-----------------------------------------------------------------------------
(* Callbacks, on threads of the node.                                        *)

(* The handshake ends: a session, or an error.  The callback looks at the    *)
(* pending future here ...                                                   *)
Answered(event) ==
    /\ node = "handshake" /\ cb.pc = "idle"
    /\ node' = "on"
    /\ cb' = [pc |-> IF Undone(pending_connect) THEN "resolve" ELSE "push",
              event |-> event]
    /\ UNCHANGED <<running, stop, snapshot, session_id, loopvars, ready, queue,
                   reader>>

_on_new_connection(s) ==
    /\ session[s] = "none"
    /\ session' = [session EXCEPT ![s] = "live"]
    /\ Answered([kind |-> "new", sid |-> s])

_on_error ==
    /\ Answered([kind |-> "error", sid |-> NoSid])
    /\ UNCHANGED session

(* Mutant: _pending_connect is taken for a future whatever it is.            *)
Resolve_unchecked ==
    /\ cb.pc = "resolve"
    /\ ready' = Append(ready, IF cb.event.kind = "new"
                              THEN set_result(pending_connect, cb.event.sid)
                              ELSE set_exception(pending_connect))
    /\ cb' = [cb EXCEPT !.pc = "push"]
    /\ UNCHANGED <<running, stop, snapshot, session_id, loopvars, queue, reader,
                   node, session>>

(* ... and reads it again here: by now it can be another one, or None, which *)
(* raises in the callback before the event is pushed.                        *)
Resolve ==
    /\ cb.pc = "resolve"
    /\ IF pending_connect = None
       THEN cb' = NoCallback /\ UNCHANGED ready
       ELSE /\ ready' = Append(ready, IF cb.event.kind = "new"
                                      THEN set_result(pending_connect, cb.event.sid)
                                      ELSE set_exception(pending_connect))
            /\ cb' = [cb EXCEPT !.pc = "push"]
    /\ UNCHANGED <<running, stop, snapshot, session_id, loopvars, queue, reader,
                   node, session>>

_push_event ==
    /\ cb.pc = "push"
    /\ ready' = Append(ready, put_nowait(cb.event))
    /\ cb' = NoCallback
    /\ UNCHANGED <<running, stop, snapshot, session_id, loopvars, queue, reader,
                   node, session>>

_on_disconnected(s) ==
    /\ session' = [session EXCEPT ![s] = "ended"]
    /\ session_id' = IF session_id = s THEN NoSid ELSE session_id
    /\ ready' = Append(ready, put_nowait([kind |-> "disconnected", sid |-> s]))
    /\ UNCHANGED <<running, stop, loopvars, queue, reader, node, cb>>

(* A teardown thread reports the end of a session.                           *)
SessionEnds(s) ==
    /\ session[s] \in {"live", "closing"}
    /\ _on_disconnected(s)
    /\ UNCHANGED snapshot

(* stop() reports the sessions of its snapshot, ended meanwhile or not.      *)
StopEmit(s) ==
    /\ stop = "emitting" /\ s \in snapshot
    /\ _on_disconnected(s)
    /\ snapshot' = snapshot \ {s}

-----------------------------------------------------------------------------
LoopStep     == RunPut \/ RunResolve \/ RunWakeup \/ RunReader
StopStep     == StopJoin \/ StopDone \/ \E s \in Sid : StopEmit(s)
CallbackStep == Resolve \/ _push_event

Next ==
    \/ Start \/ Stop \/ LoopStep \/ StopStep \/ CallbackStep \/ _on_error
    \/ EventsLoop \/ EventsTimeout
    \/ \E a \in Attempt : Connect(a) \/ ConnectRaises(a) \/ Deadline(a)
    \/ \E s \in Sid : Disconnect(s) \/ _on_new_connection(s) \/ SessionEnds(s)

Spec == Init /\ [][Next]_vars

(* The loop runs what is ready, callbacks finish, the teardown threads       *)
(* report, node.stop() returns, a read times out, and coroutines that start  *)
(* and stop the client in turn let the loop run in between.  The 10 s of     *)
(* connect() need not pass.                                                  *)
FairSpec ==
    /\ Spec
    /\ SF_vars(LoopStep) /\ WF_vars(StopStep) /\ WF_vars(CallbackStep)
    /\ WF_vars(EventsTimeout)
    /\ \A s \in Sid : WF_vars(session[s] = "closing" /\ SessionEnds(s))

-----------------------------------------------------------------------------
(* A connect() that still waits is the one _pending_connect names, so the    *)
(* callbacks and stop() reach it, and there is one at most, although a call  *)
(* can start before the one it replaces has woken up (connect's guard and    *)
(* finally clause).                                                          *)
WaitingIsReachable ==
    \A a \in Attempt : future[a] = "pending" => pending_connect = a

(* stop() releases every connect() that waits, long before its 10 s are up.  *)
StopReleasesConnect ==
    \A a \in Attempt : ~running /\ call[a] = "awaiting" ~> call[a] # "awaiting"

(* events() does not sleep through a stop(), which wakes nobody: it yields   *)
(* what is left or ends (the timeout of its reads).                          *)
EventsNoticeStop ==
    reader \in {"asleep", "woken"} /\ ~running ~>
        reader \in {"body", "ended"} \/ running

(* tests/test_client.py:105 says the disconnect callback clears the active   *)
(* session: afterwards the client does not name that session any more.       *)
ActiveSessionHasNotEnded == session_id # NoSid => session[session_id] # "ended"

(* README.md:262 says a DisconnectedEvent comes on stop(): an events() under *)
(* way does not end while one is on its way to the queue, of a session whose *)
(* NewConnectionEvent it has yielded.                                        *)
OnItsWay(kind, s) ==
    \E i \in DOMAIN ready : ready[i] = put_nowait([kind |-> kind, sid |-> s])
EventsReportEnd == [][
    reader' = "ended" /\ reader \in {"asleep", "woken", "body"} =>
        \A s \in Sid : OnItsWay("disconnected", s) => OnItsWay("new", s)]_vars
=============================================================================
