-------------------------------- MODULE Chat --------------------------------
(***************************************************************************)
(* The chat demo: examples/local_chat.py in server and in client mode, the   *)
(* browser that watches the server's timeline over server-sent events, and   *)
(* the desktop client desktop/veil_chat_client.py, a worker thread under a    *)
(* window.  Both kinds of client dial the server, and so may any other Veil   *)
(* program that has the key: it need not speak JSON.  An entry of the        *)
(* timeline is its number; of a message it matters only whether it is JSON.  *)
(***************************************************************************)
EXTENDS Naturals, Sequences

CONSTANTS
    Session,     \* session ids
    NoSession,   \* None
    HistoryMax,  \* entries the history keeps (200)
    QueueMax,    \* items a subscriber's queue holds (128)
    Watched,     \* whether anybody opens the page
    MaxRecorded, \* bound: entries after which nobody sends any more
    MaxUnread    \* bound: events waiting for one application when one sends

ASSUME ChatAssumption ==
    /\ NoSession \notin Session
    /\ {HistoryMax, MaxRecorded, MaxUnread} \subseteq Nat \ {0}
    /\ QueueMax \in Nat \ {0, 1} /\ Watched \in BOOLEAN

App == {"server", "client"}
End == {"server", "dialer"}     \* the two ends of a session
EndOf(a) == IF a = "server" THEN "server" ELSE "dialer"
Dialler == {"client", "worker", "foreign"}
Kind == {"data", "garbled", "gone"}     \* a JSON message, one that is not, the end

VARIABLES
    sess,     \* each session: who dialled, and the state of its two ends
    waiting,  \* the server's accept queue
    events,   \* the event queue of each LocalChatApp
    app,      \* LocalChatApp: _running, _active_session, _reader_task, and whether a
              \* reader has died of a message (history)
    recorded, \* entries the server has recorded
    dialer,   \* _connect_loop(): connecting, watching
    browser,  \* the page: its stream, its queue, what it shows
    worker    \* VeilChatWorker: its thread (at), _running, _session

chat == <<app, recorded, dialer, browser>>
chatVars == <<sess, waiting, events, chat, worker>>

ChatInit ==
    /\ sess = [s \in Session |-> [by |-> "nobody", server |-> "none", dialer |-> "none"]]
    /\ waiting = <<>>
    /\ events = [a \in App |-> <<>>]
    /\ app = [a \in App |-> [running |-> TRUE, active |-> NoSession, reader |-> NoSession,
                        choked |-> FALSE]]
    /\ recorded = 1                                \* "Veil server listening"
    /\ dialer = "connecting"
    /\ browser = [at |-> "off", queue |-> <<>>, shown |-> {}, status |-> NoSession,
                  overflow |-> FALSE]
    /\ worker = [at |-> "off", running |-> FALSE, session |-> NoSession]

-----------------------------------------------------------------------------
(* Sessions.                                                                 *)

Up(s, end) == s \in Session /\ sess[s][end] = "up"

Notify(s, end, kind) ==
    events' = CASE end = "server" -> [events EXCEPT !["server"] = Append(@, <<kind, s>>)]
                [] end = "dialer" /\ sess[s].by = "client" ->
                       [events EXCEPT !["client"] = Append(@, <<kind, s>>)]
                [] OTHER -> events

(* One end goes, on its own or because the other one did.                    *)
SessionEnds(s, end) ==
    /\ Up(s, end)
    /\ sess' = [sess EXCEPT ![s][end] = "ended"]
    /\ Notify(s, end, "gone")
    /\ UNCHANGED <<waiting, chat, worker>>

Fresh == {s \in Session : sess[s].by = "nobody"}

Dialled(s, by) ==
    /\ app["server"].running
    /\ sess' = [sess EXCEPT ![s] = [by |-> by, server |-> "up", dialer |-> "up"]]
    /\ waiting' = Append(waiting, s)

(* A message that send() takes; the other end's node hands it up.            *)
Sent(s, from, kind) ==
    LET to == IF from = "server" THEN "dialer" ELSE "server" IN
    /\ Up(s, from)
    /\ recorded + Len(events["server"]) < MaxRecorded
    /\ \A a \in App : Len(events[a]) < MaxUnread
    /\ IF Up(s, to) THEN Notify(s, to, kind) ELSE UNCHANGED events
    /\ UNCHANGED <<sess, waiting>>

(* Some other Veil client dials the server and sends bytes on stream 1.      *)
ForeignDials ==
    /\ Fresh # {}
    /\ LET s == CHOOSE s \in Fresh : TRUE IN Dialled(s, "foreign")
    /\ UNCHANGED <<events, chat, worker>>

ForeignSends(s) ==
    /\ sess[s].by = "foreign" /\ Sent(s, "dialer", "garbled")
    /\ UNCHANGED <<chat, worker>>

-----------------------------------------------------------------------------
(* The server's timeline: _record_entry(), _publish() and the page.          *)

(* Mutant: a full queue takes one more.                                      *)
Put_oneMore(queue, item) ==
    Append(IF Len(queue) > QueueMax THEN Tail(queue) ELSE queue, item)

Put(queue, item) ==
    Append(IF Len(queue) = QueueMax THEN Tail(queue) ELSE queue, item)

(* _publish(): a full queue loses its oldest item.                           *)
Published(page, item) ==
    IF page.at = "off" THEN page
    ELSE [page EXCEPT !.queue = Put(@, item), !.overflow = @ \/ Len(page.queue) = QueueMax]

entry     == <<"entry", recorded + 1>>
status(s) == <<"status", s>>

(* One recorded entry, in the watched app.                                   *)
Record(a) ==
    IF a = "server" THEN recorded' = recorded + 1 /\ browser' = Published(browser, entry)
                    ELSE UNCHANGED <<recorded, browser>>

(* _record_system(), then _publish_status().                                 *)
RecordStatus(a, s) ==
    IF a = "server"
    THEN /\ recorded' = recorded + 1
         /\ browser' = Published(Published(browser, entry), status(s))
    ELSE UNCHANGED <<recorded, browser>>

History == {n \in 1..recorded : n + HistoryMax > recorded}

Subscribe ==
    /\ Watched /\ browser.at = "off" /\ app["server"].running
    /\ browser' = [browser EXCEPT !.at = "preparing", !.queue = <<>>, !.overflow = FALSE]
    /\ UNCHANGED <<sess, waiting, events, app, recorded, dialer, worker>>

Snapshot ==
    /\ browser.at = "preparing"
    /\ browser' = [browser EXCEPT !.at = "streaming", !.shown = History,
                                  !.status = app["server"].active]
    /\ UNCHANGED <<sess, waiting, events, app, recorded, dialer, worker>>

ShowItem ==
    /\ browser.at = "streaming" /\ browser.queue # <<>>
    /\ LET item == Head(browser.queue) IN
       browser' = [browser EXCEPT !.queue = Tail(@),
                       !.shown  = IF item[1] = "entry" THEN @ \cup {item[2]} ELSE @,
                       !.status = IF item[1] = "status" THEN item[2] ELSE @]
    /\ UNCHANGED <<sess, waiting, events, app, recorded, dialer, worker>>

(* The stream breaks; EventSource subscribes again.                          *)
StreamLost ==
    /\ browser.at # "off"
    /\ browser' = [browser EXCEPT !.at = "off", !.queue = <<>>, !.overflow = FALSE]
    /\ UNCHANGED <<sess, waiting, events, app, recorded, dialer, worker>>

-----------------------------------------------------------------------------
(* LocalChatApp.                                                             *)

(* Mutant: the page is not told of the session.                              *)
Activate_noStatus(a, s) ==
    /\ app' = [app EXCEPT ![a].active = s, ![a].reader = s]
    /\ Record(a)

(* _activate_session(); the old reader returned when its session closed.     *)
Activate(a, s) ==
    /\ app' = [app EXCEPT ![a].active = s, ![a].reader = s]
    /\ RecordStatus(a, s)

AcceptLoop ==
    /\ app["server"].running /\ app["server"].active = NoSession /\ waiting # <<>>
    /\ Activate("server", Head(waiting))
    /\ waiting' = Tail(waiting)
    /\ UNCHANGED <<sess, events, dialer, worker>>

(* A dial that fails is tried again after retry_delay.                       *)
ConnectLoop ==
    /\ app["client"].running
    /\ \/ /\ dialer = "connecting" /\ Fresh # {}
          /\ LET s == CHOOSE s \in Fresh : TRUE
             IN  Dialled(s, "client") /\ Activate("client", s)
          /\ dialer' = "watching"
          /\ UNCHANGED <<events, worker>>
       \/ /\ dialer = "watching" /\ app["client"].active = NoSession
          /\ dialer' = "connecting"
          /\ UNCHANGED <<sess, waiting, events, app, recorded, browser, worker>>

(* message_from_event() raises out of _session_reader(): the task is over,   *)
(* the session stays the active one and nothing is recorded.                 *)
Chokes(a) ==
    /\ app' = [app EXCEPT ![a].reader = NoSession, ![a].choked = TRUE]
    /\ UNCHANGED <<recorded, browser>>

(* Mutant: the end of a session is recorded and the reader returns.          *)
HandleEvent_staysActive(a, kind) ==
    \/ kind = "data" /\ Record(a) /\ UNCHANGED app
    \/ /\ kind = "gone"
       /\ app' = [app EXCEPT ![a].reader = NoSession]
       /\ Record(a)
    \/ kind = "garbled" /\ Chokes(a)

HandleEvent(a, kind) ==
    \/ kind = "data" /\ Record(a) /\ UNCHANGED app
    \/ /\ kind = "gone"
       /\ app' = [app EXCEPT ![a].active = NoSession, ![a].reader = NoSession]
       /\ RecordStatus(a, NoSession)
    \/ kind = "garbled" /\ Chokes(a)

(* _session_reader() takes every event of the owner's queue and drops those  *)
(* of other sessions.                                                        *)
SessionReader(a) ==
    /\ app[a].running /\ app[a].reader # NoSession /\ events[a] # <<>>
    /\ LET kind == Head(events[a])[1]  sid == Head(events[a])[2] IN
       \/ sid = app[a].reader /\ HandleEvent(a, kind)
       \/ sid # app[a].reader /\ UNCHANGED <<app, recorded, browser>>
    /\ events' = [events EXCEPT ![a] = Tail(@)]
    /\ UNCHANGED <<sess, waiting, dialer, worker>>

(* A POST that is not answered with an error.                                *)
HandleSend(a) ==
    /\ app[a].running /\ Sent(app[a].active, EndOf(a), "data")
    /\ Record(a)
    /\ UNCHANGED <<app, dialer, worker>>

(* stop(): the tasks are cancelled, the node stops, the streams are shut,    *)
(* one await after the other.  Waiting for a reader that has choked raises   *)
(* what it died of; then the node goes down with the program instead.        *)
StopApp(a) ==
    /\ app[a].running
    /\ app' = [app EXCEPT ![a].running = FALSE, ![a].reader = NoSession]
    /\ sess' = [s \in Session |->
           IF Up(s, EndOf(a)) /\ (a = "server" \/ sess[s].by = "client")
           THEN [sess[s] EXCEPT ![EndOf(a)] = "ended"] ELSE sess[s]]
    /\ events' = [events EXCEPT ![a] = <<>>]
    /\ browser' = IF a = "server"
                  THEN [browser EXCEPT !.at = "off", !.queue = <<>>, !.overflow = FALSE]
                  ELSE browser
    /\ UNCHANGED <<waiting, recorded, dialer, worker>>

-----------------------------------------------------------------------------
(* VeilChatWorker and its window.                                            *)

Worker(at, s) == worker' = [worker EXCEPT !.at = at, !.session = s]

Start ==
    /\ worker.at = "off"
    /\ worker' = [worker EXCEPT !.at = "connecting", !.running = TRUE]
    /\ UNCHANGED <<sess, waiting, events, chat>>

WorkerConnects ==
    /\ worker.at = "connecting" /\ Fresh # {}
    /\ LET s == CHOOSE s \in Fresh : TRUE
       IN  Dialled(s, "worker") /\ Worker("reading", s)
    /\ UNCHANGED <<events, chat>>

(* _reader_loop() waits for data messages only, so it goes on whatever       *)
(* becomes of the session; only the end of the worker ends it.               *)
WorkerEnds ==
    /\ worker.at \in {"connecting", "reading"} /\ ~worker.running
    /\ Worker("done", NoSession)
    /\ sess' = IF Up(worker.session, "dialer")
               THEN [sess EXCEPT ![worker.session].dialer = "ended"] ELSE sess
    /\ UNCHANGED <<waiting, events, chat>>

(* The Reconnect button disconnects the session, and no more.                *)
Reconnect ==
    /\ worker.at = "reading" /\ Up(worker.session, "dialer")
    /\ sess' = [sess EXCEPT ![worker.session].dialer = "ended"]
    /\ UNCHANGED <<waiting, events, chat, worker>>

SendText ==
    /\ worker.at = "reading" /\ Sent(worker.session, "dialer", "data")
    /\ UNCHANGED <<chat, worker>>

CloseWindow ==
    /\ worker.running
    /\ worker' = [worker EXCEPT !.running = FALSE]
    /\ UNCHANGED <<sess, waiting, events, chat>>

-----------------------------------------------------------------------------
ChatNext ==
    \/ \E s \in Session, end \in End : SessionEnds(s, end)
    \/ ForeignDials \/ \E s \in Session : ForeignSends(s)
    \/ Subscribe \/ Snapshot \/ ShowItem \/ StreamLost
    \/ AcceptLoop \/ ConnectLoop
    \/ \E a \in App : SessionReader(a) \/ HandleSend(a) \/ StopApp(a)
    \/ Start \/ WorkerConnects \/ WorkerEnds
    \/ Reconnect \/ SendText \/ CloseWindow

ChatSpec == ChatInit /\ [][ChatNext]_chatVars

(* The event loops run the tasks that have something to do.  Nobody is       *)
(* assumed to connect, to send or to close anything.                         *)
ChatFairSpec ==
    /\ ChatSpec
    /\ \A a \in App : WF_chatVars(SessionReader(a))
    /\ WF_chatVars(WorkerEnds)

-----------------------------------------------------------------------------
Item == ({"entry"} \X Nat) \cup ({"status"} \X (Session \cup {NoSession}))

(* Types, with the two limits of the timeline: a subscriber's queue never   *)
(* holds more than QueueMax items (_publish), and what the page shows was   *)
(* recorded.                                                                *)
ChatTypeOK ==
    /\ sess \in [Session -> [by: Dialler \cup {"nobody"},
                             server: {"none", "up", "ended"}, dialer: {"none", "up", "ended"}]]
    /\ waiting \in Seq(Session)
    /\ events \in [App -> Seq(Kind \X Session)]
    /\ app \in [App -> [running: BOOLEAN, active: Session \cup {NoSession},
                        reader: Session \cup {NoSession}, choked: BOOLEAN]]
    /\ recorded \in Nat \ {0}
    /\ dialer \in {"connecting", "watching"}
    /\ browser \in [at: {"off", "preparing", "streaming"}, queue: Seq(Item),
                    shown: SUBSET Nat, status: Session \cup {NoSession}, overflow: BOOLEAN]
    /\ browser.shown \subseteq 1..recorded /\ Len(browser.queue) <= QueueMax
    /\ worker \in [at: {"off", "connecting", "reading", "done"}, running: BOOLEAN,
                   session: Session \cup {NoSession}]

(* The entries the page shows or is about to.                                *)
Queued == {browser.queue[i] : i \in DOMAIN browser.queue}
Coming == browser.shown \cup {n \in 1..recorded : <<"entry", n>> \in Queued}

(* The last status in the page's queue says which session is active; when    *)
(* none is queued, the page shows it.                                        *)
IsStatus(i) == browser.queue[i][1] = "status"
LastQueuedRight ==
    \A i \in DOMAIN browser.queue :
        IsStatus(i) /\ (\A j \in DOMAIN browser.queue : j > i => ~IsStatus(j))
            => browser.queue[i][2] = app["server"].active
LastStatusRight ==
    /\ LastQueuedRight
    /\ (\A i \in DOMAIN browser.queue : ~IsStatus(i)) => browser.status = app["server"].active

(* A page that streams shows, or is about to show, the newest entry; and all *)
(* the history and the right status as long as its queue has not overflowed, *)
(* whatever was recorded while the page subscribed.                          *)
PageKeepsUp ==
    browser.at = "streaming" =>
        /\ recorded \in Coming
        /\ ~browser.overflow => History \subseteq Coming /\ LastStatusRight

(* A session that ends while the application has it active is given up, and  *)
(* the application is free for the next one, unless a message that is no     *)
(* JSON has killed the reader: then nobody reads the end of the session, and *)
(* _accept_loop takes no other for as long as the application runs.          *)
EndIsSeen ==
    \A a \in App, s \in Session :
        [](app[a].active = s /\ Up(s, EndOf(a)) =>
             [](~Up(s, EndOf(a)) /\ app[a].running =>
                    <>(app[a].active # s \/ ~app[a].running \/ app[a].choked)))

(* A worker leaves a session that ended, by itself or with Reconnect.        *)
EndedIsLeft ==
    \A s \in Session :
        worker.session = s /\ ~Up(s, "dialer") ~> worker.session # s
=============================================================================
