------------------------- MODULE ChatAndProvisioningProofs ------------------------
(***************************************************************************)
(* Proofs about two programs that share nothing: the chat demo (Chat, here   *)
(* first) and the provisioning of profiles (Provisioning).                   *)
(*                                                                           *)
(* The page of the chat keeps up with the timeline whatever the sizes of     *)
(* history and queue, and for any number of sessions.  PageKeepsUp is not    *)
(* inductive: it says nothing of a page whose snapshot is still to come,     *)
(* nor of what the queued items are.  PageInv adds that a queued entry was   *)
(* recorded, and that the queue of any page names the right session last.    *)
(***************************************************************************)
EXTENDS Chat, Provisioning, SequenceTheorems, TLAPS

(* What a subscriber's queue holds after _publish().                         *)
LEMMA PutOK ==
  ASSUME NEW q \in Seq(Item), Len(q) <= QueueMax, NEW item \in Item
  PROVE  /\ Put(q, item) \in Seq(Item) /\ Len(Put(q, item)) <= QueueMax
         /\ Len(Put(q, item)) \in Nat \ {0}
         /\ DOMAIN Put(q, item) = 1..Len(Put(q, item))
         /\ Put(q, item)[Len(Put(q, item))] = item
         /\ Len(q) >= 1 => /\ Len(Put(q, item)) >= 2
                           /\ Put(q, item)[Len(Put(q, item)) - 1] = q[Len(q)]
         /\ Len(q) # QueueMax => Put(q, item) = Append(q, item)
         /\ \A i \in DOMAIN Put(q, item) :
               Put(q, item)[i] = item \/ \E j \in DOMAIN q : Put(q, item)[i] = q[j]
<1> USE ChatAssumption
<1>1. CASE Len(q) # QueueMax
  BY <1>1 DEF Put
<1>2. CASE Len(q) = QueueMax
  <2>1. q # <<>> /\ Tail(q) \in Seq(Item) /\ Len(Tail(q)) = Len(q) - 1
    BY <1>2
  <2>2. Tail(q)[Len(q) - 1] = q[Len(q)]
    BY <1>2, <2>1
  <2>3. Put(q, item) = Append(Tail(q), item)
    BY <1>2 DEF Put
  <2> QED BY <1>2, <2>1, <2>2, <2>3
<1> QED BY <1>1, <1>2

(* The entries among the items of a queue are of the first n.                *)
EntriesOf(q, n) == \A i \in DOMAIN q : q[i][1] = "status" \/ q[i][2] \in 1..n

LEMMA PutEntries ==
  ASSUME NEW q \in Seq(Item), Len(q) <= QueueMax, NEW item \in Item,
         NEW m \in Nat, NEW n \in Nat, m <= n,
         EntriesOf(q, m), item[1] = "status" \/ item[2] \in 1..n
  PROVE  EntriesOf(Put(q, item), n)
<1> SUFFICES ASSUME NEW i \in DOMAIN Put(q, item)
             PROVE  \/ Put(q, item)[i][1] = "status"
                    \/ Put(q, item)[i][2] \in 1..n
  BY DEF EntriesOf
<1>1. \A k \in 1..m : k \in 1..n
  OBVIOUS
<1>2. Put(q, item)[i] = item \/ \E j \in DOMAIN q : Put(q, item)[i] = q[j]
  BY PutOK
<1> QED BY <1>1, <1>2 DEF EntriesOf

Page == [at: {"off", "preparing", "streaming"}, queue: Seq(Item), shown: SUBSET Nat,
         status: Session \cup {NoSession}, overflow: BOOLEAN]

(* One item published to a page.                                             *)
LEMMA PublishedOK ==
  ASSUME NEW page \in Page, Len(page.queue) <= QueueMax, NEW item \in Item
  PROVE  /\ Published(page, item) \in Page
         /\ Len(Published(page, item).queue) <= QueueMax
         /\ Published(page, item).at = page.at
         /\ Published(page, item).shown = page.shown
         /\ Published(page, item).status = page.status
         /\ page.at # "off" =>
               /\ Published(page, item).queue = Put(page.queue, item)
               /\ Published(page, item).overflow = (page.overflow \/ Len(page.queue) = QueueMax)
<1>1. CASE page.at = "off"
  BY <1>1 DEF Published
<1>2. CASE page.at # "off"
  <2>1. Put(page.queue, item) \in Seq(Item) /\ Len(Put(page.queue, item)) <= QueueMax
    BY PutOK DEF Page
  <2>2. (page.overflow \/ Len(page.queue) = QueueMax) \in BOOLEAN
    OBVIOUS
  <2> DEFINE p == [page EXCEPT !.queue = Put(@, item),
                               !.overflow = @ \/ Len(page.queue) = QueueMax]
  <2>3. Published(page, item) = p
    BY <1>2 DEF Published
  <2>4. /\ p \in Page /\ p.at = page.at /\ p.shown = page.shown /\ p.status = page.status
        /\ p.queue = Put(page.queue, item)
        /\ p.overflow = (page.overflow \/ Len(page.queue) = QueueMax)
    BY <2>1, <2>2 DEF Page
  <2> HIDE DEF p
  <2> QED BY <2>1, <2>3, <2>4
<1> QED BY <1>1, <1>2

(* The types, in parts.                                                      *)
SessionsType ==
    /\ sess \in [Session -> [by: Dialler \cup {"nobody"},
                             server: {"none", "up", "ended"}, dialer: {"none", "up", "ended"}]]
    /\ waiting \in Seq(Session)
    /\ events \in [App -> Seq(Kind \X Session)]
AppType ==
    app \in [App -> [running: BOOLEAN, active: Session \cup {NoSession},
                     reader: Session \cup {NoSession}, choked: BOOLEAN]]
PageType ==
    /\ recorded \in Nat \ {0}
    /\ browser \in Page /\ browser.shown \subseteq 1..recorded /\ Len(browser.queue) <= QueueMax
    /\ EntriesOf(browser.queue, recorded)
WorkerType ==
    /\ dialer \in {"connecting", "watching"}
    /\ worker \in [at: {"off", "connecting", "reading", "done"}, running: BOOLEAN,
                   session: Session \cup {NoSession}]

TypeInv == SessionsType /\ AppType /\ PageType /\ WorkerType

LEMMA TypesFollow == TypeInv => ChatTypeOK
BY DEF TypeInv, ChatTypeOK, SessionsType, AppType, PageType, WorkerType, Page

(* A step that leaves a group of variables alone leaves its type alone.      *)
LEMMA Kept ==
  /\ SessionsType /\ UNCHANGED <<sess, waiting, events>> => SessionsType'
  /\ AppType /\ UNCHANGED app => AppType'
  /\ PageType /\ UNCHANGED <<recorded, browser>> => PageType'
  /\ WorkerType /\ UNCHANGED <<dialer, worker>> => WorkerType'
BY DEF SessionsType, AppType, PageType, WorkerType

(* A page with no queue: before it subscribes and after its stream broke.    *)
LEMMA Emptied ==
  ASSUME NEW page \in Page, NEW at \in {"off", "preparing"}
  PROVE  LET p == [page EXCEPT !.at = at, !.queue = <<>>, !.overflow = FALSE]
         IN  /\ p \in Page /\ p.queue = <<>> /\ p.shown = page.shown /\ p.at = at
             /\ p.overflow = FALSE /\ p.status = page.status
<1>1. <<>> \in Seq(Item)
  OBVIOUS
<1> QED BY <1>1 DEF Page

(* A notification is put at the end of an application's queue.               *)
LEMMA NotifyOK ==
  ASSUME SessionsType, NEW s \in Session, NEW end \in End, NEW kind \in Kind,
         Notify(s, end, kind)
  PROVE  events' \in [App -> Seq(Kind \X Session)]
<1>1. \A a \in App : Append(events[a], <<kind, s>>) \in Seq(Kind \X Session)
  BY DEF SessionsType
<1>2. \A a \in App : [events EXCEPT ![a] = Append(@, <<kind, s>>)]
                        \in [App -> Seq(Kind \X Session)]
  BY <1>1 DEF SessionsType
<1> QED BY <1>2 DEF Notify, SessionsType, App

(* An end that is over.                                                      *)
LEMMA EndedOK ==
  ASSUME SessionsType, NEW s \in Session, NEW end \in End
  PROVE  [sess EXCEPT ![s][end] = "ended"]
            \in [Session -> [by: Dialler \cup {"nobody"},
                             server: {"none", "up", "ended"}, dialer: {"none", "up", "ended"}]]
<1>1. CASE end = "server"
  BY <1>1 DEF SessionsType
<1>2. CASE end = "dialer"
  BY <1>2 DEF SessionsType
<1> QED BY <1>1, <1>2 DEF End

(* A session dialled is queued for the server to accept.                     *)
LEMMA DialledOK ==
  ASSUME SessionsType, NEW s \in Session, NEW by \in Dialler, Dialled(s, by),
         UNCHANGED events
  PROVE  SessionsType'
BY DEF SessionsType, Dialled

(* A message sent.                                                           *)
LEMMA SentOK ==
  ASSUME SessionsType, NEW s, NEW from \in End, NEW kind \in Kind, Sent(s, from, kind)
  PROVE  SessionsType'
<1>1. s \in Session
  BY DEF Sent, Up
<1>2. CASE UNCHANGED events
  BY <1>2 DEF Sent, SessionsType
<1>3. ASSUME NEW to \in End, Notify(s, to, kind) PROVE SessionsType'
  BY <1>1, <1>3, NotifyOK DEF Sent, SessionsType
<1> QED BY <1>2, <1>3 DEF Sent, End

(* Recording an entry, alone or with a status behind it.                     *)
LEMMA RecordType ==
  ASSUME PageType, NEW a \in App, Record(a) \/ \E s \in Session \cup {NoSession} : RecordStatus(a, s)
  PROVE  PageType'
<1>1. CASE UNCHANGED <<recorded, browser>>
  BY <1>1 DEF PageType
<1> DEFINE page == Published(browser, entry)
<1>2. /\ entry \in Item /\ entry[1] = "entry" /\ entry[2] \in 1..(recorded + 1)
      /\ \A s \in Session \cup {NoSession} : status(s) \in Item /\ status(s)[1] = "status"
  BY DEF entry, status, Item, PageType
<1>3. /\ page \in Page /\ Len(page.queue) <= QueueMax /\ page.shown = browser.shown
      /\ page.queue = Put(browser.queue, entry) \/ page = browser
  BY <1>2, PublishedOK DEF PageType, Published
<1>4. EntriesOf(page.queue, recorded + 1)
  <2>1. CASE page = browser
    BY <2>1 DEF PageType, EntriesOf, Page
  <2>2. CASE page.queue = Put(browser.queue, entry)
    <3>1. browser.queue \in Seq(Item) /\ recorded + 1 \in Nat /\ recorded <= recorded + 1
      BY DEF Page, PageType
    <3> QED BY <1>2, <2>2, <3>1, PutEntries DEF PageType
  <2> HIDE DEF page
  <2> QED BY <1>3, <2>1, <2>2
<1> HIDE DEF page
<1>5. CASE recorded' = recorded + 1 /\ browser' = page
  BY <1>3, <1>4, <1>5 DEF PageType
<1>6. ASSUME NEW s \in Session \cup {NoSession},
             recorded' = recorded + 1, browser' = Published(page, status(s))
      PROVE  PageType'
  <2>1. /\ browser' \in Page /\ Len(browser'.queue) <= QueueMax
        /\ browser'.shown = browser.shown
        /\ browser'.queue = Put(page.queue, status(s)) \/ browser' = page
    BY <1>2, <1>3, <1>6, PublishedOK DEF Published
  <2>2. EntriesOf(Put(page.queue, status(s)), recorded + 1)
    <3>1. page.queue \in Seq(Item) /\ recorded + 1 \in Nat
      BY <1>3 DEF Page, PageType
    <3>2. status(s) \in Item /\ status(s)[1] = "status"
      BY <1>2
    <3> QED BY <1>3, <1>4, <3>1, <3>2, PutEntries
  <2>3. EntriesOf(browser'.queue, recorded + 1)
    BY <1>4, <2>1, <2>2
  <2> QED BY <1>6, <2>1, <2>3 DEF PageType
<1> QED BY <1>1, <1>5, <1>6 DEF Record, RecordStatus, page

(* Every step keeps the types.                                               *)
LEMMA TypeStep ==
  ASSUME TypeInv, [ChatNext]_chatVars
  PROVE  TypeInv'
<1> DEFINE Goal == SessionsType' /\ AppType' /\ PageType' /\ WorkerType'
<1>0. SessionsType /\ AppType /\ PageType /\ WorkerType
  BY DEF TypeInv
<1> SUFFICES Goal
  BY DEF TypeInv
<1>1. ASSUME NEW s \in Session, NEW end \in End, SessionEnds(s, end) PROVE Goal
  <2>1. SessionsType'
    BY <1>0, <1>1, NotifyOK, EndedOK DEF SessionEnds, SessionsType, Kind
  <2> QED BY <1>0, <1>1, <2>1, Kept DEF SessionEnds, chat
<1>2. CASE Subscribe \/ Snapshot \/ ShowItem \/ StreamLost
  <2>1. UNCHANGED <<sess, waiting, events, app, recorded, dialer, worker>>
    BY <1>2 DEF Subscribe, Snapshot, ShowItem, StreamLost
  <2>2. ASSUME Subscribe \/ StreamLost PROVE PageType'
    <3>1. PICK at \in {"off", "preparing"} :
             browser' = [browser EXCEPT !.at = at, !.queue = <<>>, !.overflow = FALSE]
      BY <2>2 DEF Subscribe, StreamLost
    <3>2. browser' \in Page /\ browser'.queue = <<>> /\ browser'.shown = browser.shown
      BY <1>0, <3>1, Emptied DEF PageType
    <3> QED BY <1>0, <2>1, <3>2, ChatAssumption DEF PageType, EntriesOf
  <2>3. ASSUME Snapshot PROVE PageType'
    <3>1. app["server"].active \in Session \cup {NoSession}
      BY <1>0 DEF AppType, App
    <3>2. History \subseteq 1..recorded /\ History \subseteq Nat
      BY <1>0 DEF History, PageType
    <3>3. /\ browser' \in Page /\ browser'.queue = browser.queue
          /\ browser'.shown = History
      BY <1>0, <2>3, <3>1, <3>2 DEF Snapshot, PageType, Page
    <3> QED BY <1>0, <2>1, <3>2, <3>3 DEF PageType
  <2>4. ASSUME ShowItem PROVE PageType'
    <3>1. browser.queue \in Seq(Item) /\ browser.queue # <<>> /\ Len(browser.queue) <= QueueMax
      BY <1>0, <2>4 DEF ShowItem, PageType, Page
    <3>2. /\ Head(browser.queue) \in Item /\ Tail(browser.queue) \in Seq(Item)
          /\ Len(Tail(browser.queue)) <= QueueMax
          /\ Head(browser.queue) = browser.queue[1] /\ 1 \in DOMAIN browser.queue
          /\ \A i \in DOMAIN Tail(browser.queue) :
                i + 1 \in DOMAIN browser.queue /\ Tail(browser.queue)[i] = browser.queue[i + 1]
      BY <3>1, ChatAssumption
    <3> DEFINE item == Head(browser.queue)
    <3>3. PICK shown, st :
             /\ browser' = [browser EXCEPT !.queue = Tail(@), !.shown = shown, !.status = st]
             /\ \/ item[1] = "entry" /\ shown = browser.shown \cup {item[2]}
                \/ shown = browser.shown
             /\ \/ item[1] = "status" /\ st = item[2]
                \/ st = browser.status
      BY <2>4 DEF ShowItem
    <3>4. shown \subseteq 1..recorded /\ shown \subseteq Nat /\ st \in Session \cup {NoSession}
      BY <1>0, <3>2, <3>3 DEF PageType, Page, EntriesOf, Item
    <3>5. /\ browser' \in Page /\ browser'.queue = Tail(browser.queue)
          /\ browser'.shown = shown
      BY <1>0, <3>2, <3>3, <3>4 DEF PageType, Page
    <3>6. EntriesOf(Tail(browser.queue), recorded)
      BY <1>0, <3>2 DEF PageType, EntriesOf
    <3> QED BY <1>0, <2>1, <3>2, <3>4, <3>5, <3>6 DEF PageType
  <2>6. PageType'
    BY <1>2, <2>2, <2>3, <2>4
  <2> QED BY <1>0, <2>1, <2>6, Kept
<1>3. CASE AcceptLoop
  <2>1. Head(waiting) \in Session /\ Tail(waiting) \in Seq(Session)
    BY <1>0, <1>3 DEF AcceptLoop, SessionsType
  <2>2. PageType'
    BY <1>0, <1>3, <2>1, RecordType DEF AcceptLoop, Activate, App
  <2>3. AppType'
    BY <1>0, <1>3, <2>1 DEF AcceptLoop, Activate, AppType
  <2>4. SessionsType'
    BY <1>0, <1>3, <2>1 DEF AcceptLoop, SessionsType
  <2> QED BY <1>0, <1>3, <2>2, <2>3, <2>4, Kept DEF AcceptLoop
<1>4. CASE ConnectLoop
  <2>1. CASE UNCHANGED <<sess, waiting, events, app, recorded, browser, worker>>
    <3>1. dialer' \in {"connecting", "watching"}
      BY <1>4 DEF ConnectLoop
    <3>2. WorkerType'
      BY <1>0, <2>1, <3>1 DEF WorkerType
    <3> QED BY <1>0, <2>1, <3>2, Kept
  <2>2. ASSUME NEW s \in Session, Dialled(s, "client"), Activate("client", s),
               dialer' = "watching", UNCHANGED <<events, worker>>
        PROVE  Goal
    <3>1. SessionsType'
      BY <1>0, <2>2, DialledOK DEF Dialler
    <3>2. PageType'
      BY <1>0, <2>2, RecordType DEF Activate, App
    <3>3. AppType'
      BY <1>0, <2>2 DEF Activate, AppType
    <3>4. WorkerType'
      BY <1>0, <2>2 DEF WorkerType
    <3> QED BY <3>1, <3>2, <3>3, <3>4
  <2>3. \/ UNCHANGED <<sess, waiting, events, app, recorded, browser, worker>>
        \/ \E s \in Fresh : /\ Dialled(s, "client") /\ Activate("client", s)
                            /\ dialer' = "watching" /\ UNCHANGED <<events, worker>>
    BY <1>4 DEF ConnectLoop
  <2> QED BY <2>1, <2>2, <2>3 DEF Fresh
<1>5. ASSUME NEW a \in App, SessionReader(a) PROVE Goal
  <2>1. Tail(events[a]) \in Seq(Kind \X Session)
    BY <1>0, <1>5 DEF SessionReader, SessionsType
  <2>2. SessionsType'
    BY <1>0, <1>5, <2>1 DEF SessionReader, SessionsType
  <2>3. PageType'
    <3>1. CASE UNCHANGED <<recorded, browser>>
      BY <1>0, <3>1 DEF PageType
    <3>2. CASE Record(a) \/ RecordStatus(a, NoSession)
      BY <1>0, <3>2, RecordType
    <3> QED BY <1>5, <3>1, <3>2 DEF SessionReader, HandleEvent, Chokes
  <2>4. AppType'
    BY <1>0, <1>5 DEF SessionReader, HandleEvent, Chokes, AppType
  <2> QED BY <1>0, <1>5, <2>2, <2>3, <2>4, Kept DEF SessionReader
<1>6. ASSUME NEW a \in App, HandleSend(a) PROVE Goal
  <2>1. EndOf(a) \in End
    BY DEF EndOf, End
  <2>2. SessionsType' /\ PageType'
    BY <1>0, <1>6, <2>1, SentOK, RecordType DEF HandleSend, Kind
  <2> QED BY <1>0, <1>6, <2>2, Kept DEF HandleSend
<1>7. ASSUME NEW a \in App, StopApp(a) PROVE Goal
  <2>1. EndOf(a) \in End
    BY DEF EndOf, End
  <2>2. SessionsType'
    <3>1. \A s \in Session : [sess[s] EXCEPT ![EndOf(a)] = "ended"] \in
             [by: Dialler \cup {"nobody"},
              server: {"none", "up", "ended"}, dialer: {"none", "up", "ended"}]
      BY <1>0 DEF SessionsType, EndOf
    <3> QED BY <1>0, <1>7, <3>1 DEF StopApp, SessionsType
  <2>3. PageType'
    <3>1. CASE UNCHANGED browser
      BY <1>0, <1>7, <3>1, Kept DEF StopApp
    <3>2. CASE browser' = [browser EXCEPT !.at = "off", !.queue = <<>>, !.overflow = FALSE]
      <4>1. browser' \in Page /\ browser'.queue = <<>> /\ browser'.shown = browser.shown
        BY <1>0, <3>2, Emptied DEF PageType
      <4> QED BY <1>0, <1>7, <4>1, ChatAssumption DEF StopApp, PageType, EntriesOf
    <3> QED BY <1>7, <3>1, <3>2 DEF StopApp
  <2>4. AppType'
    BY <1>0, <1>7 DEF StopApp, AppType
  <2> QED BY <1>0, <1>7, <2>2, <2>3, <2>4, Kept DEF StopApp
<1>8. CASE Start \/ CloseWindow
  <2>1. WorkerType'
    BY <1>0, <1>8 DEF Start, CloseWindow, chat, WorkerType
  <2> QED BY <1>0, <1>8, <2>1, Kept DEF Start, CloseWindow, chat
<1>9. CASE WorkerConnects
  <2>1. PICK s \in Session : Dialled(s, "worker") /\ Worker("reading", s)
    BY <1>9 DEF WorkerConnects, Fresh
  <2>2. SessionsType'
    BY <1>0, <1>9, <2>1, DialledOK DEF WorkerConnects, Dialler
  <2>3. WorkerType'
    BY <1>0, <1>9, <2>1 DEF WorkerConnects, Worker, WorkerType, chat
  <2> QED BY <1>0, <1>9, <2>2, <2>3, Kept DEF WorkerConnects, chat
<1>10. CASE WorkerEnds \/ Reconnect
  <2>1. /\ UNCHANGED <<waiting, events, chat>>
        /\ \/ UNCHANGED sess
           \/ /\ worker.session \in Session
              /\ sess' = [sess EXCEPT ![worker.session].dialer = "ended"]
    BY <1>10 DEF WorkerEnds, Reconnect, Up
  <2>2. SessionsType'
    BY <1>0, <2>1 DEF SessionsType
  <2>3. WorkerType'
    BY <1>0, <1>10 DEF WorkerEnds, Reconnect, Worker, WorkerType, chat
  <2> QED BY <1>0, <2>1, <2>2, <2>3, Kept DEF chat
<1>11. CASE SendText
  <2>1. SessionsType'
    BY <1>0, <1>11, SentOK DEF SendText, End, Kind
  <2> QED BY <1>0, <1>11, <2>1, Kept DEF SendText, chat
<1>12. CASE ForeignDials
  <2>1. PICK s \in Session : Dialled(s, "foreign")
    BY <1>12 DEF ForeignDials, Fresh
  <2>2. SessionsType'
    BY <1>0, <1>12, <2>1, DialledOK DEF ForeignDials, Dialler
  <2> QED BY <1>0, <1>12, <2>2, Kept DEF ForeignDials, chat
<1>13. ASSUME NEW s \in Session, ForeignSends(s) PROVE Goal
  <2>1. SessionsType'
    BY <1>0, <1>13, SentOK DEF ForeignSends, End, Kind
  <2> QED BY <1>0, <1>13, <2>1, Kept DEF ForeignSends, chat
<1>14. CASE UNCHANGED chatVars
  BY <1>0, <1>14, Kept DEF chatVars, chat
<1> QED
  BY <1>1, <1>2, <1>3, <1>4, <1>5, <1>6, <1>7, <1>8, <1>9, <1>10, <1>11, <1>12, <1>13, <1>14
  DEF ChatNext

-----------------------------------------------------------------------------
(* PageKeepsUp says nothing of a page that is still being prepared: what is  *)
(* queued for it must already lead to the right status.                      *)
QueueKeepsUp == browser.at # "off" /\ ~browser.overflow => LastQueuedRight

PageInv == TypeInv /\ QueueKeepsUp /\ PageKeepsUp

Active == app["server"].active

(* What a step does to the page and to what it shows.                        *)
LEMMA PageSteps ==
  ASSUME TypeInv, [ChatNext]_chatVars
  PROVE  \/ UNCHANGED <<browser, recorded, Active>>
         \/ Subscribe \/ Snapshot \/ ShowItem
         \/ browser'.at = "off"
         \/ Record("server") /\ UNCHANGED Active
         \/ \E s \in Session \cup {NoSession} : RecordStatus("server", s) /\ Active' = s
<1> USE DEF TypeInv, SessionsType, AppType, PageType, WorkerType, Active, App, chat
<1>1. ASSUME NEW a \in App, NEW s \in Session \cup {NoSession}, RecordStatus(a, s),
             \E r \in Session \cup {NoSession} : app' = [app EXCEPT ![a].active = s, ![a].reader = r]
      PROVE  \/ UNCHANGED <<browser, recorded, Active>>
             \/ RecordStatus("server", s) /\ Active' = s
  <2>1. CASE a = "server"
    BY <1>1, <2>1
  <2>2. CASE a = "client"
    <3>1. Active' = Active
      BY <1>1, <2>2
    <3>2. UNCHANGED <<browser, recorded>>
      BY <1>1, <2>2 DEF RecordStatus
    <3> QED BY <3>1, <3>2
  <2> QED BY <2>1, <2>2
<1>2. ASSUME NEW a \in App, Record(a), UNCHANGED app
      PROVE  \/ UNCHANGED <<browser, recorded, Active>>
             \/ Record("server") /\ UNCHANGED Active
  BY <1>2 DEF Record
<1>3. CASE AcceptLoop
  <2>1. Head(waiting) \in Session
    BY <1>3 DEF AcceptLoop
  <2> QED BY <1>1, <1>3, <2>1 DEF AcceptLoop, Activate
<1>4. CASE ConnectLoop
  BY <1>1, <1>4 DEF ConnectLoop, Activate, Fresh
<1>5. ASSUME NEW a \in App, SessionReader(a) \/ HandleSend(a)
      PROVE  \/ UNCHANGED <<browser, recorded, Active>>
             \/ Record("server") /\ UNCHANGED Active
             \/ \E s \in Session \cup {NoSession} : RecordStatus("server", s) /\ Active' = s
  <2>1. CASE Chokes(a)
    BY <2>1 DEF Chokes
  <2> QED BY <1>1, <1>2, <1>5, <2>1 DEF SessionReader, HandleEvent, HandleSend
<1>6. ASSUME NEW a \in App, StopApp(a)
      PROVE  UNCHANGED <<browser, recorded, Active>> \/ browser'.at = "off"
  BY <1>6 DEF StopApp, Page
<1>7. CASE StreamLost
  BY <1>7 DEF StreamLost, Page
<1>8. CASE \/ \E s \in Session, end \in End : SessionEnds(s, end)
           \/ ForeignDials \/ \E s \in Session : ForeignSends(s)
           \/ Start \/ WorkerConnects \/ WorkerEnds \/ Reconnect \/ SendText \/ CloseWindow
           \/ UNCHANGED chatVars
  BY <1>8
  DEF ForeignDials, ForeignSends, SessionEnds, Start, WorkerConnects, WorkerEnds, Reconnect, SendText, CloseWindow, chatVars
<1> QED BY <1>3, <1>4, <1>5, <1>6, <1>7, <1>8 DEF ChatNext

(* What a queue says: its items, and the session its last status names.      *)
Items(q)          == {q[i] : i \in DOMAIN q}
NoStatus(q)       == \A i \in DOMAIN q : q[i][1] # "status"
StatusRight(q, a) ==
    \A i \in DOMAIN q :
        q[i][1] = "status" /\ (\A j \in DOMAIN q : j > i => q[j][1] # "status") => q[i][2] = a

LEMMA QueueWords ==
  /\ Queued = Items(browser.queue)
  /\ LastQueuedRight <=> StatusRight(browser.queue, Active)
  /\ LastStatusRight <=> /\ StatusRight(browser.queue, Active)
                         /\ NoStatus(browser.queue) => browser.status = Active
BY DEF Queued, Items, LastQueuedRight, LastStatusRight, IsStatus, StatusRight, NoStatus, Active

(* An item at the end of a queue: one that is not a status changes nothing   *)
(* of what the queue says, and a status is what it says from then on.        *)
LEMMA AppendSays ==
  ASSUME NEW q \in Seq(Item), NEW item \in Item
  PROVE  /\ Items(q) \subseteq Items(Append(q, item))
         /\ item[1] # "status" =>
               /\ \A a : StatusRight(q, a) => StatusRight(Append(q, item), a)
               /\ NoStatus(Append(q, item)) => NoStatus(q)
<1> DEFINE r == Append(q, item)
           n == Len(q)
<1>1. /\ n \in Nat /\ DOMAIN q = 1..n /\ DOMAIN r = 1..(n + 1)
      /\ r[n + 1] = item /\ \A i \in 1..n : r[i] = q[i]
  OBVIOUS
<1> HIDE DEF r, n
<1>2. Items(q) \subseteq Items(r)
  BY <1>1 DEF Items
<1>3. ASSUME item[1] # "status", NEW a, StatusRight(q, a) PROVE StatusRight(r, a)
  <2> SUFFICES ASSUME NEW i \in DOMAIN r, r[i][1] = "status",
                      \A j \in DOMAIN r : j > i => r[j][1] # "status"
               PROVE  r[i][2] = a
    BY DEF StatusRight
  <2>1. i # n + 1
    BY <1>1, <1>3
  <2>2. i \in 1..n /\ r[i] = q[i]
    BY <1>1, <2>1
  <2>3. \A j \in DOMAIN q : j > i => q[j][1] # "status"
    BY <1>1
  <2> QED BY <1>1, <1>3, <2>2, <2>3 DEF StatusRight
<1>4. ASSUME NoStatus(r) PROVE NoStatus(q)
  BY <1>1, <1>4 DEF NoStatus
<1> QED BY <1>2, <1>3, <1>4 DEF r

(* A status at the end of a queue is what the queue says.                    *)
LEMMA LastSays ==
  ASSUME NEW q, NEW n \in Nat \ {0}, DOMAIN q = 1..n, q[n][1] = "status"
  PROVE  StatusRight(q, q[n][2]) /\ ~NoStatus(q)
<1>1. ASSUME NEW i \in 1..n, \A j \in 1..n : j > i => q[j][1] # "status" PROVE i = n
  BY <1>1
<1>2. n \in 1..n
  OBVIOUS
<1> QED BY <1>1, <1>2 DEF StatusRight, NoStatus

(* What an item published to a watched page does to what its queue says.     *)
LEMMA PublishedSays ==
  ASSUME NEW page \in Page, Len(page.queue) <= QueueMax, page.at # "off", NEW item \in Item,
         NEW r, r = Published(page, item)
  PROVE  /\ item \in Items(r.queue)
         /\ Len(r.queue) >= 1 /\ r.queue[Len(r.queue)] = item
         /\ Len(page.queue) >= 1 => page.queue[Len(page.queue)] \in Items(r.queue)
         /\ ~r.overflow => ~page.overflow /\ Items(page.queue) \subseteq Items(r.queue)
         /\ ~r.overflow /\ item[1] # "status" =>
               /\ \A a : StatusRight(page.queue, a) => StatusRight(r.queue, a)
               /\ NoStatus(r.queue) => NoStatus(page.queue)
         /\ item[1] = "status" => StatusRight(r.queue, item[2]) /\ ~NoStatus(r.queue)
<1>1. /\ r.queue = Put(page.queue, item)
      /\ r.overflow = (page.overflow \/ Len(page.queue) = QueueMax)
  BY PublishedOK
<1>2. PICK q \in Seq(Item) : q = page.queue
  BY DEF Page
<1>3. PICK p : p = Put(q, item)
  OBVIOUS
<1>4. Len(q) <= QueueMax /\ p = r.queue
  BY <1>1, <1>2, <1>3
<1>5. /\ Len(Put(q, item)) \in Nat \ {0}
      /\ DOMAIN Put(q, item) = 1..Len(Put(q, item)) /\ Put(q, item)[Len(Put(q, item))] = item
      /\ Len(q) >= 1 => /\ Len(Put(q, item)) >= 2
                        /\ Put(q, item)[Len(Put(q, item)) - 1] = q[Len(q)]
      /\ Len(q) # QueueMax => Put(q, item) = Append(q, item)
  BY <1>4, PutOK
<1>10. PICK n \in Nat \ {0} : n = Len(p) /\ DOMAIN p = 1..n /\ p[n] = item
  BY <1>3, <1>5
<1>6. item \in Items(p)
  BY <1>10 DEF Items
<1>7. ASSUME Len(q) >= 1 PROVE q[Len(q)] \in Items(p)
  <2>1. n >= 2 /\ p[n - 1] = q[Len(q)]
    BY <1>3, <1>5, <1>7, <1>10
  <2>2. n - 1 \in DOMAIN p
    BY <1>10, <2>1
  <2> QED BY <2>1, <2>2 DEF Items
<1>8. ASSUME ~r.overflow PROVE ~page.overflow /\ p = Append(q, item)
  <2>1. ~page.overflow /\ Len(q) # QueueMax
    BY <1>1, <1>2, <1>8
  <2> QED BY <1>3, <1>5, <2>1
<1>9. item[1] = "status" => StatusRight(p, item[2]) /\ ~NoStatus(p)
  BY <1>10, LastSays
<1>11. /\ Items(q) \subseteq Items(Append(q, item))
       /\ item[1] # "status" =>
             /\ \A a : StatusRight(q, a) => StatusRight(Append(q, item), a)
             /\ NoStatus(Append(q, item)) => NoStatus(q)
  BY AppendSays
<1>12. /\ Len(p) >= 1 /\ p[Len(p)] = item /\ item \in Items(p)
       /\ Len(q) >= 1 => q[Len(q)] \in Items(p)
  BY <1>6, <1>7, <1>10
<1>13. ~r.overflow =>
          /\ ~page.overflow /\ Items(q) \subseteq Items(p)
          /\ item[1] # "status" => /\ \A a : StatusRight(q, a) => StatusRight(p, a)
                                   /\ NoStatus(p) => NoStatus(q)
  BY <1>8, <1>11
<1> QED BY <1>2, <1>4, <1>9, <1>12, <1>13

(* An entry published to a watched page.                                     *)
LEMMA RecordPage ==
  ASSUME PageInv, Record("server"), UNCHANGED Active
  PROVE  QueueKeepsUp' /\ PageKeepsUp'
<1>1. browser' = Published(browser, entry) /\ recorded' = recorded + 1
  BY DEF Record
<1>2. browser \in Page /\ Len(browser.queue) <= QueueMax /\ recorded \in Nat
  BY DEF PageInv, TypeInv, PageType
<1>3. entry \in Item /\ entry = <<"entry", recorded'>> /\ entry[1] # "status" /\ recorded' \in 1..recorded'
  BY <1>1, <1>2 DEF entry, Item
<1>4. CASE browser.at = "off"
  BY <1>1, <1>4 DEF Published, QueueKeepsUp, PageKeepsUp
<1>5. CASE browser.at # "off"
  <2>1. /\ browser'.at = browser.at /\ browser'.shown = browser.shown
        /\ browser'.status = browser.status
    BY <1>1, <1>2, <1>3, PublishedOK
  <2>2. /\ entry \in Items(browser'.queue)
        /\ ~browser'.overflow =>
              /\ ~browser.overflow /\ Items(browser.queue) \subseteq Items(browser'.queue)
              /\ \A a : StatusRight(browser.queue, a) => StatusRight(browser'.queue, a)
              /\ NoStatus(browser'.queue) => NoStatus(browser.queue)
    BY <1>1, <1>2, <1>3, <1>5, PublishedSays
  <2>3. Queued' = Items(browser'.queue)
    BY DEF Queued, Items
  <2>4. recorded' \in Coming'
    BY <1>3, <2>2, <2>3 DEF Coming
  <2>5. History' \subseteq History \cup {recorded'}
    BY <1>1, <1>2, ChatAssumption DEF History
  <2>6. ASSUME ~browser'.overflow PROVE Coming \subseteq Coming'
    BY <1>1, <1>2, <2>1, <2>2, <2>3, <2>6, QueueWords DEF Coming
  <2>7. /\ LastQueuedRight' <=> StatusRight(browser'.queue, Active')
        /\ LastStatusRight' <=> /\ StatusRight(browser'.queue, Active')
                                /\ NoStatus(browser'.queue) => browser'.status = Active'
    BY DEF LastQueuedRight, LastStatusRight, IsStatus, StatusRight, NoStatus, Active
  <2>8. QueueKeepsUp'
    BY <1>5, <2>2, <2>7, QueueWords DEF QueueKeepsUp, PageInv
  <2>9. PageKeepsUp'
    BY <2>1, <2>2, <2>4, <2>5, <2>6, <2>7, QueueWords DEF PageKeepsUp, PageInv
  <2> QED BY <2>8, <2>9
<1> QED BY <1>4, <1>5

(* An entry and a status behind it.                                          *)
LEMMA RecordStatusPage ==
  ASSUME PageInv, NEW s \in Session \cup {NoSession}, RecordStatus("server", s), Active' = s
  PROVE  QueueKeepsUp' /\ PageKeepsUp'
<1>1. PICK page : page = Published(browser, entry)
  OBVIOUS
<1>2. browser' = Published(page, status(s)) /\ recorded' = recorded + 1
  BY <1>1 DEF RecordStatus
<1>3. browser \in Page /\ Len(browser.queue) <= QueueMax /\ recorded \in Nat
  BY DEF PageInv, TypeInv, PageType
<1>4. /\ entry \in Item /\ entry = <<"entry", recorded'>> /\ recorded' \in 1..recorded'
      /\ status(s) \in Item /\ status(s)[1] = "status" /\ status(s)[2] = s
  BY <1>2, <1>3 DEF entry, status, Item
<1>5. /\ page \in Page /\ Len(page.queue) <= QueueMax
      /\ page.at = browser.at /\ page.shown = browser.shown
  BY <1>1, <1>3, <1>4, PublishedOK
<1>6. browser'.at = browser.at /\ browser'.shown = browser.shown
  BY <1>2, <1>4, <1>5, PublishedOK
<1>7. CASE browser.at = "off"
  BY <1>6, <1>7 DEF QueueKeepsUp, PageKeepsUp
<1>8. CASE browser.at # "off"
  <2>1. /\ Len(page.queue) >= 1 /\ page.queue[Len(page.queue)] = entry
        /\ ~page.overflow => ~browser.overflow /\ Items(browser.queue) \subseteq Items(page.queue)
    BY <1>1, <1>3, <1>4, <1>8, PublishedSays
  <2>2. /\ page.queue[Len(page.queue)] \in Items(browser'.queue)
        /\ ~browser'.overflow =>
              ~page.overflow /\ Items(page.queue) \subseteq Items(browser'.queue)
        /\ StatusRight(browser'.queue, s) /\ ~NoStatus(browser'.queue)
    <3>1. page.at # "off" /\ Len(page.queue) >= 1
      BY <1>5, <1>8, <2>1
    <3>2. PICK item \in Item : item = status(s)
      BY <1>4
    <3>5. PICK r : r = Published(page, item)
      OBVIOUS
    <3>3. browser' = r /\ item[1] = "status" /\ item[2] = s
      BY <1>2, <1>4, <3>2, <3>5
    <3>4. /\ page.queue[Len(page.queue)] \in Items(r.queue)
          /\ ~r.overflow => ~page.overflow /\ Items(page.queue) \subseteq Items(r.queue)
          /\ StatusRight(r.queue, item[2]) /\ ~NoStatus(r.queue)
      BY <1>5, <3>1, <3>3, <3>5, PublishedSays
    <3> QED BY <3>3, <3>4
  <2>3. Queued' = Items(browser'.queue)
    BY DEF Queued, Items
  <2>4. recorded' \in Coming'
    BY <1>4, <2>1, <2>2, <2>3 DEF Coming
  <2>5. History' \subseteq History \cup {recorded'}
    BY <1>2, <1>3, ChatAssumption DEF History
  <2>6. ASSUME ~browser'.overflow PROVE ~browser.overflow /\ Coming \subseteq Coming'
    BY <1>2, <1>3, <1>6, <2>1, <2>2, <2>3, <2>6, QueueWords DEF Coming
  <2>7. LastQueuedRight' /\ LastStatusRight'
    BY <2>2 DEF LastQueuedRight, LastStatusRight, IsStatus, StatusRight, NoStatus, Active
  <2> QED BY <1>6, <2>4, <2>5, <2>6, <2>7 DEF QueueKeepsUp, PageKeepsUp, PageInv
<1> QED BY <1>7, <1>8

(* A page that subscribes has an empty queue, which says nothing.            *)
LEMMA SubscribePage ==
  ASSUME PageInv, Subscribe
  PROVE  QueueKeepsUp' /\ PageKeepsUp'
<1>1. browser'.at = "preparing" /\ browser'.queue = <<>>
  BY Emptied DEF PageInv, TypeInv, PageType, Subscribe
<1> QED BY <1>1 DEF QueueKeepsUp, PageKeepsUp, LastQueuedRight

(* The snapshot has all the history and the session that is active now; what *)
(* was queued since the page subscribed is not newer.                        *)
LEMMA SnapshotPage ==
  ASSUME PageInv, Snapshot
  PROVE  QueueKeepsUp' /\ PageKeepsUp'
<1>1. /\ browser \in Page /\ recorded \in Nat \ {0}
      /\ Active \in Session \cup {NoSession}
  BY DEF PageInv, TypeInv, PageType, AppType, Active, App
<1>2. History \subseteq Nat /\ recorded \in History
  BY <1>1, ChatAssumption DEF History
<1>3. /\ browser'.queue = browser.queue /\ browser'.overflow = browser.overflow
      /\ browser'.shown = History /\ browser'.status = Active
      /\ UNCHANGED <<recorded, app>> /\ browser.at # "off"
  BY <1>1, <1>2 DEF Snapshot, Page, Active
<1>4. Active' = Active /\ History' = History
  BY <1>3 DEF Active, History
<1>5. recorded' \in Coming' /\ History' \subseteq Coming'
  BY <1>2, <1>3, <1>4 DEF Coming
<1>6. LastQueuedRight => LastQueuedRight' /\ LastStatusRight'
  BY <1>3, <1>4 DEF LastQueuedRight, LastStatusRight, IsStatus, Active
<1> QED BY <1>3, <1>5, <1>6 DEF QueueKeepsUp, PageKeepsUp, PageInv

(* The page shows the oldest item of its queue.                              *)
LEMMA ShowItemPage ==
  ASSUME PageInv, ShowItem
  PROVE  QueueKeepsUp' /\ PageKeepsUp'
<1>0. PICK q \in Seq(Item) : q = browser.queue /\ q # <<>>
  BY DEF PageInv, TypeInv, PageType, Page, ShowItem
<1>11. Len(q) - 1 \in Nat
  BY <1>0
<1>1. PICK n \in Nat : q = browser.queue /\ Len(q) = n + 1
  BY <1>0, <1>11
<1> DEFINE r == Tail(q)
<1>2. /\ r \in Seq(Item) /\ DOMAIN q = 1..(n + 1) /\ DOMAIN r = 1..n
      /\ \A i \in 1..n : r[i] = q[i + 1]
      /\ Head(q) = q[1] /\ q[1] \in Item
  BY <1>1
<1> HIDE DEF r
<1>3. /\ browser'.queue = r /\ browser'.at = browser.at /\ browser'.overflow = browser.overflow
      /\ browser'.shown = IF q[1][1] = "entry" THEN browser.shown \cup {q[1][2]} ELSE browser.shown
      /\ browser'.status = IF q[1][1] = "status" THEN q[1][2] ELSE browser.status
      /\ UNCHANGED <<recorded, app>> /\ browser.at = "streaming"
  BY <1>1, <1>2 DEF ShowItem, PageInv, TypeInv, PageType, Page, r
<1>4. Active' = Active /\ History' = History
  BY <1>3 DEF Active, History
<1>5. Coming \subseteq Coming'
  <2>1. \A i \in 1..(n + 1) : i = 1 \/ (i - 1 \in 1..n /\ r[i - 1] = q[i])
    BY <1>2
  <2>2. \A x \in Queued : x = q[1] \/ x \in Queued'
    <3> SUFFICES ASSUME NEW i \in 1..(n + 1), q[i] # q[1] PROVE q[i] \in Queued'
      BY <1>1, <1>2 DEF Queued
    <3>1. i - 1 \in 1..n /\ r[i - 1] = q[i]
      BY <2>1
    <3> QED BY <1>2, <1>3, <3>1 DEF Queued
  <2>3. ASSUME NEW m \in 1..recorded, <<"entry", m>> \in Queued PROVE m \in Coming'
    BY <1>3, <2>2, <2>3 DEF Coming
  <2>4. \A m \in browser.shown : m \in Coming'
    BY <1>3 DEF Coming
  <2> QED BY <2>3, <2>4 DEF Coming
<1>6. ASSUME StatusRight(q, Active) PROVE StatusRight(r, Active)
  <2> SUFFICES ASSUME NEW i \in 1..n, r[i][1] = "status",
                      \A j \in 1..n : j > i => r[j][1] # "status"
               PROVE  r[i][2] = Active
    BY <1>2 DEF StatusRight
  <2>1. \A j \in 1..(n + 1) : j > i + 1 => j - 1 \in 1..n /\ j - 1 > i /\ q[j] = r[j - 1]
    BY <1>2
  <2>2. i + 1 \in 1..(n + 1) /\ q[i + 1] = r[i]
    BY <1>2
  <2> QED BY <1>2, <1>6, <2>1, <2>2 DEF StatusRight
<1>7. ASSUME StatusRight(q, Active), NoStatus(q) => browser.status = Active, NoStatus(r)
      PROVE  browser'.status = Active
  <2>1. \A j \in 1..(n + 1) : j > 1 => j - 1 \in 1..n /\ q[j] = r[j - 1]
    BY <1>2
  <2>2. \A j \in 1..(n + 1) : j > 1 => q[j][1] # "status"
    BY <1>2, <1>7, <2>1 DEF NoStatus
  <2>3. CASE q[1][1] = "status"
    BY <1>2, <1>3, <1>7, <2>2, <2>3 DEF StatusRight
  <2>4. CASE q[1][1] # "status"
    BY <1>2, <1>3, <1>7, <2>2, <2>4 DEF NoStatus
  <2> QED BY <2>3, <2>4
<1>8. /\ LastQueuedRight' <=> StatusRight(r, Active)
      /\ LastStatusRight' <=> /\ StatusRight(r, Active)
                              /\ NoStatus(r) => browser'.status = Active
  BY <1>3, <1>4 DEF LastQueuedRight, LastStatusRight, IsStatus, StatusRight, NoStatus, Active
<1>9. LastQueuedRight => LastQueuedRight'
  BY <1>1, <1>6, <1>8, QueueWords
<1>10. LastStatusRight => LastStatusRight'
  BY <1>1, <1>6, <1>7, <1>8, QueueWords
<1> QED BY <1>3, <1>4, <1>5, <1>9, <1>10 DEF QueueKeepsUp, PageKeepsUp, PageInv

(* PageInv is inductive.                                                     *)
LEMMA PageInitially == ChatInit => PageInv
<1> SUFFICES ASSUME ChatInit PROVE PageInv
  OBVIOUS
<1>1. <<>> \in Seq(Session) /\ <<>> \in Seq(Item) /\ <<>> \in Seq(Kind \X Session)
  OBVIOUS
<1>2. SessionsType /\ AppType /\ WorkerType
  BY <1>1 DEF ChatInit, SessionsType, AppType, WorkerType
<1>3. browser \in Page /\ browser.queue = <<>> /\ browser.shown = {} /\ browser.at = "off"
  BY <1>1 DEF ChatInit, Page
<1>4. PageType
  BY <1>3, ChatAssumption DEF ChatInit, PageType, EntriesOf
<1> QED BY <1>2, <1>3, <1>4 DEF PageInv, TypeInv, QueueKeepsUp, PageKeepsUp

LEMMA PageStep ==
  ASSUME PageInv, [ChatNext]_chatVars
  PROVE  PageInv'
<1>1. TypeInv /\ TypeInv'
  BY TypeStep DEF PageInv
<1>3. QueueKeepsUp' /\ PageKeepsUp'
  <2>1. CASE UNCHANGED <<browser, recorded, Active>>
    BY <2>1 DEF PageInv, QueueKeepsUp, PageKeepsUp, Coming, Queued, History, LastQueuedRight,
                LastStatusRight, IsStatus, Active
  <2>2. CASE browser'.at = "off"
    BY <2>2 DEF QueueKeepsUp, PageKeepsUp
  <2>3. CASE Subscribe \/ Snapshot \/ ShowItem
    BY <2>3, SubscribePage, SnapshotPage, ShowItemPage
  <2>4. CASE Record("server") /\ UNCHANGED Active
    BY <2>4, RecordPage
  <2>5. CASE \E s \in Session \cup {NoSession} : RecordStatus("server", s) /\ Active' = s
    BY <2>5, RecordStatusPage
  <2> QED BY <1>1, <2>1, <2>2, <2>3, <2>4, <2>5, PageSteps
<1> QED BY <1>1, <1>3 DEF PageInv

LEMMA PageInvAlways == ChatSpec => []PageInv
BY PageInitially, PageStep, PTL DEF ChatSpec

(* The types and the limits of the timeline, in every reachable state: the   *)
(* subscriber's queue of local_chat.py stays within QueueMax.                *)
THEOREM ChatTypeAlways == ChatSpec => []ChatTypeOK
<1>1. PageInv => ChatTypeOK
  BY TypesFollow DEF PageInv
<1> QED BY <1>1, PageInvAlways, PTL

(* A page that streams always shows, or is about to show, the newest entry,  *)
(* and until its queue overflows the whole history and the session that is   *)
(* active, whatever was published between subscribe and snapshot.            *)
THEOREM PageAlwaysKeepsUp == ChatSpec => []PageKeepsUp
<1>1. PageInv => PageKeepsUp
  BY DEF PageInv
<1> QED BY <1>1, PageInvAlways, PTL

-----------------------------------------------------------------------------
(* Proof that a profile exported since the operator's last change fits the server,      *)
(* for every number of keys and choice of protocols: always on a client that stores the *)
(* whole profile (Linux), and on the Windows client when the profile has neither of the *)
(* fields it does not store. ProfileFits is not inductive: it says nothing of copies    *)
(* that are not yet on the client or not yet loaded. PInv says of each copy that is not *)
(* outdated what it is a copy of, as far as its program stores it, that the saved       *)
(* persona is already adjusted, and in which order copies go out of date.               *)

Served(c) == c.entry = file.entry /\ c.psk = file.psk /\ c.entryKey = file.entryKey
               /\ c.proto = file.proto

Agree ==
  /\ "service" \notin outdated => Served(service.config)
  /\ "token" \notin outdated => token = export_client_profile(file)
  /\ "client" \notin outdated => client = Stored(export_client_profile(file))
  /\ "form" \notin outdated => form = Stored(export_client_profile(file))

Order ==
  /\ ~Keyed(file) => outdated = Copy
  /\ "token" \in outdated => "client" \in outdated
  /\ "client" \in outdated => "form" \in outdated

PInv ==
  /\ ProvisionTypeOK
  /\ ensure_compatible(file.proto) = file.proto
  /\ Order
  /\ Agree

-----------------------------------------------------------------------------
\* Adjusting the persona yields a protocol, and a second adjustment changes nothing.
LEMMA CompatibleOnce ==
  ASSUME NEW p \in Proto
  PROVE  /\ ensure_compatible(p) \in Proto
         /\ ensure_compatible(ensure_compatible(p)) = ensure_compatible(p)
BY DEF ensure_compatible, Proto

\* ensure_defaults keeps the record a configuration and leaves a keyed one with its keys.
LEMMA Defaults ==
  ASSUME NEW c \in Server, NEW fresh \in Nat, Keyed(c) \/ fresh \in Key
  PROVE  LET d == ensure_defaults(c, fresh) IN
         /\ d \in Server
         /\ d.host = c.host /\ d.entry = c.entry /\ d.proto = ensure_compatible(c.proto)
         /\ fresh # 0 => Keyed(d)
         /\ Keyed(c) => d.psk = c.psk /\ d.entryKey = c.entryKey
<1>1. ensure_compatible(c.proto) \in Proto
  BY CompatibleOnce DEF Server
<1> QED
  BY <1>1 DEF ensure_defaults, Server, Keyed, Key

\* A process that loads a keyed file works with what the file says.
LEMMA LoadedKeyed ==
  ASSUME PInv, Keyed(file)
  PROVE  Loaded = file
<1>1. file \in Server /\ ensure_compatible(file.proto) = file.proto
  BY DEF PInv, ProvisionTypeOK
<1> QED
  BY <1>1 DEF Loaded, ensure_defaults, Keyed, Server

\* What a load yields when it may have to generate a key.
LEMMA LoadedType ==
  ASSUME PInv, Generates
  PROVE  /\ Loaded \in Server
         /\ keys' \in Key
         /\ Keyed(Loaded)
         /\ Loaded.host = file.host /\ Loaded.entry = file.entry /\ Loaded.proto = file.proto
<1>1. file \in Server /\ keys \in Key /\ ensure_compatible(file.proto) = file.proto
  BY DEF PInv, ProvisionTypeOK
<1>2. keys + 1 \in Nat /\ keys + 1 # 0
  BY <1>1 DEF Key
<1>3. Keyed(file) \/ keys + 1 \in Key
  BY <1>1, ProvisioningAssumption DEF Generates, Key
<1>4. keys' \in Key
  BY <1>1, ProvisioningAssumption DEF Generates, Key
<1> QED
  BY <1>1, <1>2, <1>3, <1>4, Defaults DEF Loaded

\* A profile is well formed.
LEMMA Exported ==
  ASSUME NEW c \in Server
  PROVE  /\ export_client_profile(c) \in Profile
         /\ export_client_profile(c).proto = c.proto
BY DEF export_client_profile, Server, Profile

\* A client stores a well-formed profile, and nothing changes when it stores it again;
\* the Linux one stores the whole of it.
LEMMA StoredProfile ==
  ASSUME NEW p \in Profile
  PROVE  /\ Stored(p) \in Profile
         /\ Stored(Stored(p)) = Stored(p)
         /\ ~Windows /\ ensure_compatible(p.proto) = p.proto => Stored(p) = p
         /\ Windows /\ p.id = "" /\ ~p.proto.http => Stored(p) = p
<1>1. CASE Windows
  BY <1>1 DEF Stored, Profile, Proto
<1>2. CASE ~Windows
  <2>1. /\ ensure_compatible(p.proto) \in Proto
        /\ ensure_compatible(ensure_compatible(p.proto)) = ensure_compatible(p.proto)
    BY CompatibleOnce DEF Profile
  <2> QED BY <1>2, <2>1 DEF Stored, Profile
<1> QED BY <1>1, <1>2

-----------------------------------------------------------------------------
LEMMA PInit == Init => PInv
<1> SUFFICES ASSUME Init PROVE PInv
  OBVIOUS
<1>1. Plain \in Proto /\ ensure_compatible(Plain) = Plain
  BY DEF Plain, Proto, ensure_compatible
<1>2. 0 \in Key
  BY ProvisioningAssumption DEF Key
<1>3. file \in Server /\ file.proto = Plain
  BY <1>1, <1>2 DEF Init, Server, Entry
<1>4. NoToken \in Profile
  BY <1>1, <1>2 DEF NoToken, Profile
<1>5. ProvisionTypeOK
  BY <1>2, <1>3, <1>4 DEF Init, ProvisionTypeOK
<1> QED
  BY <1>1, <1>3, <1>5 DEF Init, PInv, Order, Agree, Copy

\* A change by the operator that puts every copy out of date needs only a good file.
LEMMA ChangedStep ==
  ASSUME PInv, file' \in Server, ensure_compatible(file'.proto) = file'.proto,
         keys' \in Key, outdated' = Copy,
         UNCHANGED <<installed, service, token, client, form>>
  PROVE  PInv'
<1>1. ProvisionTypeOK'
  BY DEF PInv, ProvisionTypeOK
<1> QED
  BY <1>1 DEF PInv, Order, Agree, Copy

LEMMA InitStep == PInv /\ InitCommand => PInv'
<1> SUFFICES ASSUME PInv, InitCommand PROVE PInv'
  OBVIOUS
<1>1. PICK host \in {file.host, TRUE}, proto \in {file.proto} \cup Protos :
        /\ file' = ensure_defaults([Loaded EXCEPT !.host = host, !.proto = proto], keys + 1)
        /\ outdated' = IF proto = file.proto THEN outdated ELSE Copy
  BY DEF InitCommand, Save
<1> DEFINE c == [Loaded EXCEPT !.host = host, !.proto = proto]
<1>2. Generates /\ UNCHANGED <<installed, service, token, client, form>>
  BY DEF InitCommand
<1>3. file \in Server /\ keys \in Key /\ ensure_compatible(file.proto) = file.proto
  BY DEF PInv, ProvisionTypeOK
<1>4. proto \in Proto /\ host \in BOOLEAN
  BY <1>3, ProvisioningAssumption DEF Server
<1>5. /\ c \in Server /\ Keyed(c) /\ keys' \in Key
      /\ c.host = host /\ c.proto = proto
      /\ c.entry = file.entry /\ c.psk = Loaded.psk /\ c.entryKey = Loaded.entryKey
  BY <1>2, <1>4, LoadedType DEF Server, Keyed
<1>6. keys + 1 \in Nat /\ keys + 1 # 0
  BY <1>3 DEF Key
<1>7. /\ file' \in Server /\ Keyed(file')
      /\ file'.entry = file.entry /\ file'.psk = Loaded.psk /\ file'.entryKey = Loaded.entryKey
      /\ file'.proto = ensure_compatible(proto)
  <2> HIDE DEF c
  <2>1. file' = ensure_defaults(c, keys + 1)
    BY <1>1 DEF c
  <2> QED
    BY <2>1, <1>5, <1>6, Defaults
<1>8. ensure_compatible(file'.proto) = file'.proto
  BY <1>4, <1>7, CompatibleOnce
<1>9. CASE proto # file.proto
  BY <1>1, <1>2, <1>5, <1>7, <1>8, <1>9, ChangedStep
<1>10. CASE proto = file.proto
  <2>1. outdated' = outdated /\ file'.proto = file.proto
    BY <1>1, <1>3, <1>7, <1>10
  <2>2. ProvisionTypeOK'
    BY <1>2, <1>5, <1>7, <2>1 DEF PInv, ProvisionTypeOK
  <2>3. Order'
    BY <1>7, <2>1 DEF PInv, Order
  <2>4. Agree'
    <3>1. CASE Keyed(file)
      <4>1. file'.psk = file.psk /\ file'.entryKey = file.entryKey
        BY <1>7, <3>1, LoadedKeyed
      <4> QED
        BY <1>2, <1>7, <2>1, <4>1 DEF PInv, Agree, Served, export_client_profile
    <3>2. CASE ~Keyed(file)
      BY <2>1, <3>2 DEF PInv, Order, Agree, Copy
    <3> QED
      BY <3>1, <3>2
  <2> QED
    BY <1>8, <2>2, <2>3, <2>4 DEF PInv
<1> QED
  BY <1>9, <1>10

LEMMA RotateStep == PInv /\ RotateKey => PInv'
<1> SUFFICES ASSUME PInv, RotateKey PROVE PInv'
  OBVIOUS
<1>1. file \in Server /\ keys \in Key /\ ensure_compatible(file.proto) = file.proto
  BY DEF PInv, ProvisionTypeOK
<1>2. keys' \in Key /\ keys + 1 \in Key
  BY <1>1, ProvisioningAssumption DEF RotateKey, Key
<1>3. Loaded \in Server /\ Loaded.proto = file.proto
  BY <1>1, <1>2, Defaults DEF Loaded, Key
<1>4. file' \in Server /\ file'.proto = file.proto
  BY <1>2, <1>3 DEF RotateKey, Save, Server
<1> QED
  BY <1>1, <1>2, <1>4, ChangedStep DEF RotateKey

LEMMA EditStep == PInv /\ EditClients => PInv'
<1> SUFFICES ASSUME PInv, EditClients PROVE PInv'
  OBVIOUS
<1>1. file \in Server /\ keys \in Key /\ ensure_compatible(file.proto) = file.proto
  BY DEF PInv, ProvisionTypeOK
<1>2. keys < MaxKeys /\ keys + 1 \in Key /\ 0 \in Key
  BY <1>1, ProvisioningAssumption DEF EditClients, Key
<1>3. file' \in Server /\ file'.proto = file.proto
  BY <1>1, <1>2 DEF EditClients, Save, Server
<1>4. keys' \in Key
  BY <1>1, <1>2 DEF EditClients
<1> QED
  BY <1>1, <1>3, <1>4, ChangedStep DEF EditClients

LEMMA InstallStep == PInv /\ Install => PInv'
<1> SUFFICES ASSUME PInv, Install PROVE PInv'
  OBVIOUS
<1>1. Generates /\ file' = Loaded /\ UNCHANGED <<service, client, form>>
  BY DEF Install, Save
<1>2. /\ file' \in Server /\ keys' \in Key /\ Keyed(file')
      /\ file'.proto = file.proto
      /\ ensure_compatible(file'.proto) = file'.proto
  BY <1>1, LoadedType DEF PInv
<1>3. \/ /\ installed' = TRUE
         /\ token' = export_client_profile(file')
         /\ outdated' = outdated \ {"token"}
      \/ UNCHANGED <<installed, token, outdated>>
  BY <1>1 DEF Install
<1>4. token' \in Profile /\ outdated' \subseteq Copy
  BY <1>2, <1>3, Exported DEF PInv, ProvisionTypeOK
<1>5. ProvisionTypeOK'
  BY <1>1, <1>2, <1>3, <1>4 DEF PInv, ProvisionTypeOK
<1>6. Order'
  BY <1>2, <1>3 DEF PInv, Order
<1>7. Agree'
  <2>1. CASE Keyed(file)
    <3>1. file' = file
      BY <1>1, <2>1, LoadedKeyed
    <3> QED
      BY <1>1, <1>3, <3>1 DEF PInv, Agree, Served, export_client_profile
  <2>2. CASE ~Keyed(file)
    BY <1>1, <1>3, <2>2 DEF PInv, Order, Agree, Copy
  <2> QED
    BY <2>1, <2>2
<1> QED
  BY <1>2, <1>5, <1>6, <1>7 DEF PInv

LEMMA ExportStep == PInv /\ Export => PInv'
<1> SUFFICES ASSUME PInv, Export PROVE PInv'
  OBVIOUS
<1>1. /\ Generates /\ Refreshes({"token"}) /\ token' = export_client_profile(Loaded)
      /\ UNCHANGED <<file, installed, service, client, form>>
  BY DEF Export, serverSide
<1>2. Loaded \in Server /\ keys' \in Key
  BY <1>1, LoadedType
<1>3. token' \in Profile
  BY <1>1, <1>2, Exported
<1>4. ProvisionTypeOK'
  BY <1>1, <1>2, <1>3 DEF PInv, ProvisionTypeOK, Refreshes
<1>5. CASE Keyed(file)
  BY <1>1, <1>4, <1>5, LoadedKeyed
  DEF PInv, Refreshes, Order, Agree, Served, export_client_profile, Keyed
<1>6. CASE ~Keyed(file)
  BY <1>1, <1>4, <1>6 DEF PInv, Refreshes, Order, Agree, Copy, Keyed
<1> QED
  BY <1>5, <1>6

LEMMA LoadsStep == PInv /\ Loads => PInv'
<1> SUFFICES ASSUME PInv, Loads PROVE PInv'
  OBVIOUS
<1>1. /\ Generates /\ Refreshes({"service"})
      /\ service' = [at |-> "running", config |-> Loaded]
      /\ UNCHANGED <<file, installed, token, client, form>>
  BY DEF Loads
<1>2. Loaded \in Server /\ keys' \in Key
  BY <1>1, LoadedType
<1>3. ProvisionTypeOK'
  BY <1>1, <1>2 DEF PInv, ProvisionTypeOK, Refreshes
<1>4. CASE Keyed(file)
  BY <1>1, <1>3, <1>4, LoadedKeyed
  DEF PInv, Refreshes, Order, Agree, Served, export_client_profile, Keyed
<1>5. CASE ~Keyed(file)
  BY <1>1, <1>3, <1>5 DEF PInv, Refreshes, Order, Agree, Copy, Keyed
<1> QED
  BY <1>4, <1>5

LEMMA StoppedStep == PInv /\ (DisableService \/ ServiceExits) => PInv'
<1> SUFFICES ASSUME PInv, NEW at \in {"disabled", "restarting"}, ServiceStopped(at)
             PROVE  PInv'
  BY DEF DisableService, ServiceExits
<1>1. /\ service'.config = service.config
      /\ service' \in [at : {"disabled", "running", "restarting"}, config : Server]
  BY DEF PInv, ProvisionTypeOK, ServiceStopped
<1>2. UNCHANGED <<file, installed, token, client, form, keys, outdated>>
  BY DEF ServiceStopped
<1> QED
  BY <1>1, <1>2
  DEF PInv, ProvisionTypeOK, Order, Agree, Served, export_client_profile, Keyed

\* Steps of the client leave the server's side and the token alone.
LEMMA ClientStep ==
  ASSUME PInv, ImportByCtl \/ ImportByForm \/ OpenForm \/ save_profile
  PROVE  PInv'
<1> USE DEF PInv, ProvisionTypeOK
<1>1. UNCHANGED <<file, installed, service, token, keys>>
  BY DEF ImportByCtl, ImportByForm, OpenForm, save_profile, serverSide
<1>2. PICK p \in Profile : p = export_client_profile(file)
  BY Exported
<1>3. import_profile(token) \in Profile
      /\ (token = p => import_profile(token) = Stored(p))
  BY <1>2, StoredProfile DEF import_profile
<1> DEFINE saved == [form EXCEPT !.id = client.id]
<1>4. /\ saved \in Profile /\ Stored(saved) \in Profile
      /\ (form = Stored(p) /\ client = form => Stored(saved) = form)
  <2>1. saved \in Profile /\ (client = form => saved = form)
    BY DEF Profile
  <2> QED
    BY <2>1, <1>2, StoredProfile
<1>5. client' \in Profile /\ form' \in Profile /\ outdated' \subseteq Copy
  BY <1>3, <1>4 DEF ImportByCtl, ImportByForm, OpenForm, save_profile, load_profile, Copy
<1>6. Order'
  BY <1>1 DEF Order, ImportByCtl, ImportByForm, OpenForm, save_profile, load_profile, Keyed, Copy
<1>7. Agree'
  <2>1. export_client_profile(file') = p /\ Stored(p)' = Stored(p)
    BY <1>1, <1>2
  <2>2. /\ ("service" \notin outdated => Served(service.config)) /\ ("token" \notin outdated => token = p)
        /\ ("client" \notin outdated => client = Stored(p))
        /\ ("form" \notin outdated => form = Stored(p))
    BY <1>2 DEF Agree
  <2>3. /\ ("client" \notin outdated' => client' = Stored(p))
        /\ ("form" \notin outdated' => form' = Stored(p))
    BY <1>3, <1>4, <2>2
    DEF Order, ImportByCtl, ImportByForm, OpenForm, save_profile, load_profile
  <2>4. /\ "service" \in outdated' <=> "service" \in outdated
        /\ "token" \in outdated' <=> "token" \in outdated
    BY DEF ImportByCtl, ImportByForm, OpenForm, save_profile, load_profile
  <2> QED
    BY <1>1, <2>1, <2>2, <2>3, <2>4 DEF Agree, Served
<1> QED
  BY <1>1, <1>5, <1>6, <1>7

\* PInv is inductive.
LEMMA PStep == ASSUME PInv, [Next]_vars PROVE PInv'
<1>1. CASE UNCHANGED vars
  BY <1>1 DEF vars, PInv, ProvisionTypeOK, Order, Agree, Served, export_client_profile, Keyed
<1>2. CASE EnableService \/ ServiceStarts
  BY <1>2, LoadsStep DEF EnableService, ServiceStarts
<1>3. CASE ImportByCtl \/ ImportByForm \/ OpenForm \/ save_profile
  BY <1>3, ClientStep
<1> QED
  BY <1>1, <1>2, <1>3, InitStep, RotateStep, EditStep, InstallStep, ExportStep, StoppedStep
  DEF Next

-----------------------------------------------------------------------------
LEMMA PInvAlways == Spec => []PInv
BY PInit, PStep, PTL DEF Spec

\* Every configuration, profile and key stays well formed (linux_server_app.py,
\* provisioning.py, linux_client_app.py): a load never invents more keys than it saves.
THEOREM ProvisionTypeAlways == Spec => []ProvisionTypeOK
<1>1. PInv => ProvisionTypeOK
  BY DEF PInv
<1> QED
  BY <1>1, PInvAlways, PTL

\* An up-to-date client whose program stores all of the profile is admitted.
LEMMA StoredFits ==
  ASSUME PInv, Stored(export_client_profile(file)) = export_client_profile(file)
  PROVE  ProfileFits
<1> SUFFICES ASSUME service.at = "running", outdated \cap {"service", "token", "client"} = {}
             PROVE  Admits(service.config, client)
  BY DEF ProfileFits
<1>1. Served(service.config) /\ client = export_client_profile(file)
  BY DEF PInv, Agree
<1> QED
  BY <1>1 DEF Served, Admits, export_client_profile

\* A client with an up-to-date profile is admitted by a server that loaded the file since
\* the operator's last change, however often the commands are repeated.
THEOREM ProfileAlwaysFits == ASSUME ~Windows PROVE Spec => []ProfileFits
<1>1. PInv => ProfileFits
  BY Exported, StoredProfile, StoredFits DEF PInv, ProvisionTypeOK
<1> QED
  BY <1>1, PInvAlways, PTL

\* The same on the Windows client, as long as the server lists no client and asks for no
\* HTTP upgrade: the two fields windows_client_app.py does not store.
THEOREM WindowsProfileFits ==
  ASSUME Windows
  PROVE  Spec => [](file.entry = "absent" /\ ~file.proto.http => ProfileFits)
<1>1. PInv => (file.entry = "absent" /\ ~file.proto.http => ProfileFits)
  <2> SUFFICES ASSUME PInv, file.entry = "absent", ~file.proto.http PROVE ProfileFits
    OBVIOUS
  <2>1. PICK p \in Profile : p = export_client_profile(file) /\ p.proto = file.proto
    BY Exported DEF PInv, ProvisionTypeOK
  <2>2. p.id = ""
    BY <2>1 DEF export_client_profile
  <2> QED
    BY <2>1, <2>2, StoredProfile, StoredFits
<1> QED
  BY <1>1, PInvAlways, PTL
=============================================================================
