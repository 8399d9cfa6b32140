-------------------------- MODULE VeilClientProofs --------------------------
(* Proofs about VeilClient, for any sessions, any number of connect() calls   *)
(* and any delay of the loop's timers.                                       *)
EXTENDS VeilClient, SequenceTheorems, TLAPS

-----------------------------------------------------------------------------
(* What the ready queue holds.                                               *)

(* An entry added at the end of the ready queue.                             *)
LEMMA RangeAppend ==
  ASSUME NEW S, NEW s \in Seq(S), NEW m \in S
  PROVE  Append(s, m) \in Seq(S) /\ Range(Append(s, m)) = Range(s) \cup {m}
<1>1. Append(s, m) \in Seq(S) /\ <<m>> \in Seq(S)
  OBVIOUS
<1>2. Append(s, m) = s \o <<m>>
  BY AppendIsConcat
<1>3. Range(s \o <<m>>) = Range(s) \cup Range(<<m>>)
  BY <1>1, RangeConcatenation
<1>4. Range(<<m>>) = {m}
  BY DEF Range
<1> QED BY <1>1, <1>2, <1>3, <1>4

(* The ready queue without its first entry.                                  *)
LEMMA RangeTail ==
  ASSUME NEW S, NEW s \in Seq(S), s # <<>>
  PROVE  /\ Tail(s) \in Seq(S) /\ Range(Tail(s)) \subseteq Range(s)
         /\ Head(s) \in S /\ Head(s) \in Range(s)
<1>1. Tail(s) \in Seq(S) /\ Head(s) \in S
  OBVIOUS
<1>2. Range(Tail(s)) \subseteq Range(s)
  BY DEF Range
<1>3. Head(s) \in Range(s)
  BY DEF Range
<1> QED BY <1>1, <1>2, <1>3

(* The events the callbacks build.                                           *)
LEMMA EventsOK ==
  /\ \A s \in Sid : [kind |-> "new", sid |-> s] \in Event
                    /\ [kind |-> "disconnected", sid |-> s] \in Event
  /\ [kind |-> "error", sid |-> NoSid] \in Event
  BY DEF Event

(* A new_connection event names a session.                                   *)
LEMMA NewEventHasSid ==
  ASSUME NEW event \in Event, event.kind = "new" PROVE event.sid \in Sid
  BY DEF Event

(* The entries the loop schedules.                                           *)
LEMMA EntriesOK ==
  /\ \A event \in Event : put_nowait(event) \in Entry
  /\ \A a \in Attempt, s \in Sid : set_result(a, s) \in Entry
  /\ \A a \in Attempt : set_exception(a) \in Entry /\ wakeup(a) \in Entry
  /\ wakeup_reader \in Entry
  BY DEF Entry, put_nowait, set_result, set_exception, wakeup, wakeup_reader

(* The fields of an entry by what it does.                                   *)
LEMMA EntryFields ==
  ASSUME NEW x \in Entry
  PROVE  /\ x.do = "put" => x.event \in Event
         /\ x.do = "set_result" => x.attempt \in Attempt /\ x.sid \in Sid
         /\ x.do = "set_exception" => x.attempt \in Attempt
         /\ x.do = "wakeup" => x.attempt \in Attempt /\ x = wakeup(x.attempt)
  BY DEF Entry, wakeup

(* The wake-up of a connect() call is no other entry.                        *)
LEMMA WakeupsDiffer ==
  /\ \A a, b \in Attempt : wakeup(a) = wakeup(b) => a = b
  /\ \A a \in Attempt :
        /\ \A event \in Event : wakeup(a) # put_nowait(event)
        /\ \A b \in Attempt, s \in Sid : wakeup(a) # set_result(b, s)
        /\ \A b \in Attempt : wakeup(a) # set_exception(b)
        /\ wakeup(a) # wakeup_reader
<1>1. \A a, b \in Attempt : wakeup(a) = wakeup(b) => a = b
  BY DEF wakeup
<1>2. ASSUME NEW a \in Attempt, NEW x, x.do # "wakeup" PROVE wakeup(a) # x
  BY <1>2 DEF wakeup
<1>3. /\ \A event \in Event : put_nowait(event).do # "wakeup"
      /\ \A b \in Attempt, s \in Sid : set_result(b, s).do # "wakeup"
      /\ \A b \in Attempt : set_exception(b).do # "wakeup"
      /\ wakeup_reader.do # "wakeup"
  BY DEF put_nowait, set_result, set_exception, wakeup_reader
<1> QED BY <1>1, <1>2, <1>3

-----------------------------------------------------------------------------
(* The inductive invariant.                                                  *)

(* A connect() that is to wake up has a future that is done.                 *)
WokenIsDone ==
    \A a \in Attempt : wakeup(a) \in Range(ready) => future[a] \notin {"none", "pending"}

(* A connect() that was not called has no future.                            *)
UncalledHasNone == \A a \in Attempt : call[a] = "none" => future[a] = "none"

Futures == WaitingIsReachable /\ WokenIsDone /\ UncalledHasNone

CInv == ClientTypeOK /\ Futures

(* The types, in four parts.                                                 *)
NodeType ==
    /\ running \in BOOLEAN /\ node \in {"off", "on", "handshake"}
    /\ stop \in {"no", "joining", "emitting"} /\ snapshot \subseteq Sid
    /\ session_id \in Sid \cup {NoSid}
    /\ session \in [Sid -> {"none", "live", "closing", "ended"}]
ConnectType ==
    /\ pending_connect \in Attempt \cup {None}
    /\ future \in [Attempt -> {"none", "pending", "result", "failed", "cancelled"}]
    /\ result \in [Attempt -> Sid \cup {NoSid}]
    /\ call \in [Attempt -> {"none", "awaiting", "cancelled", "returned", "raised"}]
ReadyType == ready \in Seq(Entry)
EventsType ==
    /\ queue \in Seq(Event)
    /\ reader \in {"off", "asleep", "woken", "body", "ended"}
    /\ cb \in [pc: {"idle", "resolve", "push"}, event: Event]

(* The type invariant by the part of the state it is about.                  *)
LEMMA TypeParts == ClientTypeOK <=> NodeType /\ ConnectType /\ ReadyType /\ EventsType
  BY DEF ClientTypeOK, NodeType, ConnectType, ReadyType, EventsType

(* The same for the next state.                                              *)
LEMMA TypePartsNext ==
  ClientTypeOK' <=> NodeType' /\ ConnectType' /\ ReadyType' /\ EventsType'
  BY DEF ClientTypeOK, NodeType, ConnectType, ReadyType, EventsType

(* None is no attempt, so a pending future is one that _pending_connect names. *)
LEMMA NoneIsNoAttempt == None \notin Attempt
  BY ClientConstantsOK DEF None, Attempt

(* Steps that touch no connect() and wake none up.                           *)
WakesNone == \A a \in Attempt : wakeup(a) \in Range(ready') => wakeup(a) \in Range(ready)

(* Steps that leave the futures and their calls alone.                       *)
LEMMA FuturesKept ==
  ASSUME Futures, UNCHANGED <<pending_connect, future, call>>, WakesNone
  PROVE  Futures'
  BY DEF Futures, WaitingIsReachable, WokenIsDone, UncalledHasNone, WakesNone

(* call_soon_threadsafe adds an entry.                                       *)
LEMMA AppendReady ==
  ASSUME ReadyType, NEW x \in Entry, ready' = Append(ready, x)
  PROVE  ReadyType' /\ Range(ready') = Range(ready) \cup {x}
<1>1. Append(ready, x) \in Seq(Entry) /\ Range(Append(ready, x)) = Range(ready) \cup {x}
  BY RangeAppend DEF ReadyType
<1> QED BY <1>1 DEF ReadyType

(* The loop runs the first entry.                                            *)
LEMMA RunHead ==
  ASSUME ReadyType, ready # <<>>
  PROVE  /\ Head(ready) \in Entry /\ Head(ready) \in Range(ready)
         /\ Tail(ready) \in Seq(Entry) /\ Range(Tail(ready)) \subseteq Range(ready)
  BY RangeTail DEF ReadyType

(* An entry that schedules another when it runs.                             *)
LEMMA RunAppend ==
  ASSUME ReadyType, ready # <<>>, NEW x \in Entry, ready' = Append(Tail(ready), x)
  PROVE  ReadyType' /\ Range(ready') \subseteq Range(ready) \cup {x}
<1>1. Tail(ready) \in Seq(Entry) /\ Range(Tail(ready)) \subseteq Range(ready)
  BY RunHead
<1> DEFINE t == Tail(ready)
<1>2. t \in Seq(Entry) /\ Range(t) \subseteq Range(ready) /\ ready' = Append(t, x)
  BY <1>1
<1> HIDE DEF t
<1>3. Append(t, x) \in Seq(Entry) /\ Range(Append(t, x)) = Range(t) \cup {x}
  BY <1>2, RangeAppend
<1> QED BY <1>2, <1>3 DEF ReadyType

(* An entry that schedules nothing when it runs.                             *)
LEMMA RunTail ==
  ASSUME ReadyType, ready # <<>>, ready' = Tail(ready)
  PROVE  ReadyType' /\ Range(ready') \subseteq Range(ready)
<1>1. Tail(ready) \in Seq(Entry) /\ Range(Tail(ready)) \subseteq Range(ready)
  BY RunHead
<1> QED BY <1>1 DEF ReadyType
-----------------------------------------------------------------------------
(* Steps that leave every connect() alone.                                   *)
LEMMA QuietStep ==
  ASSUME CInv,
         \/ Start \/ StopJoin \/ StopDone \/ EventsLoop \/ EventsTimeout \/ RunPut \/ RunReader
         \/ _push_event \/ _on_error
         \/ \E s \in Sid : \/ Disconnect(s) \/ _on_new_connection(s) \/ SessionEnds(s)
                           \/ StopEmit(s)
  PROVE  CInv'
<1>1. NodeType /\ ConnectType /\ ReadyType /\ EventsType /\ Futures
  BY TypeParts DEF CInv
<1>2. ASSUME NodeType', ReadyType', EventsType', UNCHANGED loopvars, WakesNone
      PROVE  CInv'
  <2>1. ConnectType'
    BY <1>1, <1>2 DEF loopvars, ConnectType
  <2>2. Futures'
    BY <1>1, <1>2, FuturesKept DEF loopvars
  <2> QED BY <1>2, <2>1, <2>2, TypePartsNext DEF CInv
<1>3. ASSUME UNCHANGED ready PROVE ReadyType' /\ WakesNone
  BY <1>1, <1>3 DEF ReadyType, WakesNone
<1>4. ASSUME UNCHANGED <<queue, reader, cb>> PROVE EventsType'
  BY <1>1, <1>4 DEF EventsType
<1>5. ASSUME UNCHANGED <<running, stop, snapshot, session_id, node, session>>
      PROVE  NodeType'
  BY <1>1, <1>5 DEF NodeType
<1>6. ASSUME NEW x \in Entry, ready' = Append(ready, x), \A a \in Attempt : wakeup(a) # x
      PROVE  ReadyType' /\ WakesNone
  <2>1. ReadyType' /\ Range(ready') = Range(ready) \cup {x}
    BY <1>1, <1>6, AppendReady
  <2> QED BY <1>6, <2>1 DEF WakesNone
<1>7. ASSUME ready # <<>>, ready' = Tail(ready) PROVE ReadyType' /\ WakesNone
  <2>1. ReadyType' /\ Range(ready') \subseteq Range(ready)
    BY <1>1, <1>7, RunTail
  <2> QED BY <2>1 DEF WakesNone
<1>8. CASE Start \/ StopDone
  <2>1. NodeType'
    BY <1>1, <1>8 DEF NodeType, Start, StopDone
  <2> QED BY <1>2, <1>3, <1>4, <1>8, <2>1 DEF Start, StopDone
<1>9. CASE StopJoin
  <2>1. NodeType'
    BY <1>1, <1>9 DEF NodeType, StopJoin
  <2> QED BY <1>2, <1>3, <1>4, <1>9, <2>1 DEF StopJoin
<1>10. ASSUME next_event PROVE EventsType' /\ NodeType' /\ UNCHANGED loopvars
  <2>1. queue # <<>> => Tail(queue) \in Seq(Event)
    BY <1>1 DEF EventsType
  <2>2. UNCHANGED <<running, stop, snapshot, session_id, node, session, loopvars, cb>>
    BY <1>10 DEF next_event
  <2>3. EventsType'
    BY <1>1, <1>10, <2>1, <2>2 DEF EventsType, next_event
  <2> QED BY <1>5, <2>2, <2>3
<1>11. CASE EventsLoop
  BY <1>2, <1>3, <1>10, <1>11 DEF EventsLoop
<1>12. CASE RunReader
  BY <1>2, <1>7, <1>10, <1>12 DEF RunReader, Run
<1>13. CASE EventsTimeout
  <2>1. EventsType'
    BY <1>1, <1>13 DEF EventsType, EventsTimeout
  <2>2. ReadyType' /\ WakesNone
    BY <1>6, <1>13, EntriesOK, WakeupsDiffer DEF EventsTimeout
  <2> QED BY <1>2, <1>5, <1>13, <2>1, <2>2 DEF EventsTimeout
<1>14. CASE RunPut
  <2>1. ready # <<>> /\ Head(ready).do = "put" /\ queue' = Append(queue, Head(ready).event)
    BY <1>14 DEF RunPut, Run
  <2>2. Head(ready).event \in Event
    BY <1>1, <2>1, RunHead, EntryFields
  <2>3. queue' \in Seq(Event)
    BY <1>1, <2>1, <2>2 DEF EventsType
  <2>4. EventsType'
    BY <1>1, <1>14, <2>3 DEF EventsType, RunPut
  <2>5. CASE ready' = Append(Tail(ready), wakeup_reader)
    <3>1. ReadyType' /\ Range(ready') \subseteq Range(ready) \cup {wakeup_reader}
      BY <1>1, <2>1, <2>5, RunAppend, EntriesOK
    <3>2. WakesNone
      BY <3>1, WakeupsDiffer DEF WakesNone
    <3> QED BY <1>2, <1>5, <1>14, <2>4, <3>1, <3>2 DEF RunPut
  <2>6. CASE ready' = Tail(ready)
    BY <1>2, <1>5, <1>7, <1>14, <2>1, <2>4, <2>6 DEF RunPut
  <2> QED BY <1>14, <2>5, <2>6 DEF RunPut
<1>15. CASE _push_event
  <2>1. cb.event \in Event
    BY <1>1 DEF EventsType
  <2>2. ReadyType' /\ WakesNone
    BY <1>6, <1>15, <2>1, EntriesOK, WakeupsDiffer DEF _push_event
  <2>3. EventsType'
    BY <1>1, <1>15, EventsOK DEF _push_event, NoCallback, EventsType
  <2> QED BY <1>2, <1>5, <1>15, <2>2, <2>3 DEF _push_event
<1>16. ASSUME NEW event \in Event, Answered(event)
       PROVE  EventsType' /\ ReadyType' /\ WakesNone /\ UNCHANGED loopvars
  <2>1. EventsType'
    BY <1>1, <1>16 DEF Answered, EventsType
  <2> QED BY <1>3, <1>16, <2>1 DEF Answered
<1>17. CASE _on_error
  <2>1. NodeType'
    BY <1>1, <1>17 DEF _on_error, Answered, NodeType
  <2> QED BY <1>2, <1>16, <1>17, <2>1, EventsOK DEF _on_error
<1>18. ASSUME NEW s \in Sid, _on_new_connection(s) PROVE CInv'
  <2>1. NodeType'
    BY <1>1, <1>18 DEF _on_new_connection, Answered, NodeType
  <2> QED BY <1>2, <1>16, <1>18, <2>1, EventsOK DEF _on_new_connection
<1>19. ASSUME NEW s \in Sid, Disconnect(s) PROVE CInv'
  <2>1. NodeType'
    BY <1>1, <1>19 DEF Disconnect, NodeType
  <2> QED BY <1>2, <1>3, <1>4, <1>19, <2>1 DEF Disconnect
<1>20. ASSUME NEW s \in Sid, SessionEnds(s) \/ StopEmit(s) PROVE CInv'
  <2>1. _on_disconnected(s) /\ snapshot' \in {snapshot, snapshot \ {s}}
    BY <1>20 DEF SessionEnds, StopEmit
  <2>2. NodeType'
    BY <1>1, <2>1 DEF _on_disconnected, NodeType
  <2>3. ReadyType' /\ WakesNone
    <3> DEFINE event == [kind |-> "disconnected", sid |-> s]
    <3>1. event \in Event
      BY EventsOK
    <3>2. ready' = Append(ready, put_nowait(event))
      BY <2>1 DEF _on_disconnected
    <3> HIDE DEF event
    <3>3. put_nowait(event) \in Entry /\ \A a \in Attempt : wakeup(a) # put_nowait(event)
      BY <3>1, EntriesOK, WakeupsDiffer
    <3> QED BY <1>6, <3>2, <3>3
  <2> QED BY <1>2, <1>4, <2>1, <2>2, <2>3 DEF _on_disconnected
<1> QED
  BY <1>8, <1>9, <1>11, <1>12, <1>13, <1>14, <1>15, <1>17, <1>18, <1>19, <1>20

-----------------------------------------------------------------------------
(* Steps of a connect().                                                     *)

(* No future is pending when the one _pending_connect names is not.           *)
LEMMA NonePending ==
  ASSUME CInv, ~Undone(pending_connect)
  PROVE  \A a \in Attempt : future[a] # "pending"
  BY NoneIsNoAttempt DEF CInv, Futures, WaitingIsReachable, Undone

(* connect() sets its future up, or raises before it does.                   *)
LEMMA ConnectStep ==
  ASSUME CInv, NEW a \in Attempt, Connect(a) \/ ConnectRaises(a)
  PROVE  CInv'
<1>1. NodeType /\ ConnectType /\ ReadyType /\ EventsType /\ Futures
  BY TypeParts DEF CInv
<1>2. call[a] = "none" /\ future[a] = "none" /\ \A b \in Attempt : future[b] # "pending"
  BY <1>1, NonePending DEF Connect, ConnectRaises, Futures, UncalledHasNone
<1>3. NodeType' /\ ReadyType' /\ EventsType'
  BY <1>1 DEF Connect, ConnectRaises, NodeType, ReadyType, EventsType
<1>4. ConnectType'
  BY <1>1 DEF Connect, ConnectRaises, ConnectType
<1>5. CASE Connect(a)
  <2>1. /\ pending_connect' = a /\ ready' = ready
        /\ \A b \in Attempt : future'[b] = IF b = a THEN "pending" ELSE future[b]
        /\ \A b \in Attempt : call'[b] = IF b = a THEN "awaiting" ELSE call[b]
    BY <1>1, <1>5 DEF Connect, ConnectType
  <2>2. WaitingIsReachable' /\ UncalledHasNone'
    BY <1>1, <1>2, <2>1 DEF Futures, WaitingIsReachable, UncalledHasNone
  <2>3. WokenIsDone'
    BY <1>1, <1>2, <2>1 DEF Futures, WokenIsDone
  <2> QED BY <1>3, <1>4, <2>2, <2>3, TypePartsNext DEF CInv, Futures
<1>6. CASE ConnectRaises(a)
  <2>1. /\ ready' = ready /\ future' = future
        /\ \A b \in Attempt : call'[b] = IF b = a THEN "raised" ELSE call[b]
    BY <1>1, <1>6 DEF ConnectRaises, ConnectType
  <2>2. WaitingIsReachable' /\ UncalledHasNone' /\ WokenIsDone'
    BY <1>1, <1>2, <2>1 DEF Futures, WaitingIsReachable, UncalledHasNone, WokenIsDone
  <2> QED BY <1>3, <1>4, <2>2, TypePartsNext DEF CInv, Futures
<1> QED BY <1>5, <1>6

(* A pending future is done, and its connect() is to wake up.                *)
LEMMA FutureDone ==
  ASSUME CInv, NEW a \in Attempt, future[a] = "pending",
         NEW outcome \in {"result", "failed", "cancelled"},
         future' = [future EXCEPT ![a] = outcome],
         UNCHANGED <<pending_connect, call>>,
         Range(ready') \subseteq Range(ready) \cup {wakeup(a)}
  PROVE  Futures'
<1>1. ConnectType /\ Futures
  BY TypeParts DEF CInv
<1>2. \A b \in Attempt : future'[b] = IF b = a THEN outcome ELSE future[b]
  BY <1>1 DEF ConnectType
<1>3. WaitingIsReachable'
  BY <1>1, <1>2 DEF Futures, WaitingIsReachable
<1>4. WokenIsDone'
  BY <1>1, <1>2, WakeupsDiffer DEF Futures, WokenIsDone
<1>5. UncalledHasNone'
  BY <1>1, <1>2 DEF Futures, UncalledHasNone
<1> QED BY <1>3, <1>4, <1>5 DEF Futures

(* The steps that resolve a future or end the call that awaits it.           *)
LEMMA OutcomeStep ==
  ASSUME CInv, \/ Stop \/ RunResolve \/ RunWakeup \/ Resolve
               \/ \E a \in Attempt : Deadline(a)
  PROVE  CInv'
<1>1. NodeType /\ ConnectType /\ ReadyType /\ EventsType /\ Futures
  BY TypeParts DEF CInv
<1>2. CASE Stop
  <2>1. NodeType' /\ EventsType'
    BY <1>1, <1>2 DEF Stop, NodeType, EventsType
  <2>2. CASE Undone(pending_connect)
    <3>1. pending_connect \in Attempt /\ future[pending_connect] = "pending"
      BY <1>1, <2>2 DEF Undone, ConnectType
    <3>2. /\ future' = [future EXCEPT ![pending_connect] = "failed"]
          /\ ready' = Append(ready, wakeup(pending_connect))
          /\ UNCHANGED <<pending_connect, result, call>>
      BY <1>2, <2>2 DEF Stop
    <3>3. ReadyType' /\ Range(ready') = Range(ready) \cup {wakeup(pending_connect)}
      BY <1>1, <3>1, <3>2, AppendReady, EntriesOK
    <3>4. ConnectType'
      BY <1>1, <3>1, <3>2 DEF ConnectType
    <3>5. Futures'
      BY <3>1, <3>2, <3>3, FutureDone
    <3> QED BY <2>1, <3>3, <3>4, <3>5, TypePartsNext DEF CInv
  <2>3. CASE ~Undone(pending_connect)
    <3>1. UNCHANGED <<loopvars, ready>>
      BY <1>2, <2>3 DEF Stop, loopvars
    <3>2. ConnectType' /\ ReadyType' /\ WakesNone
      BY <1>1, <3>1 DEF ConnectType, ReadyType, loopvars, WakesNone
    <3> QED BY <1>1, <2>1, <3>1, <3>2, FuturesKept, TypePartsNext DEF CInv, loopvars
  <2> QED BY <2>2, <2>3
<1>3. CASE RunResolve
  <2> DEFINE a == Head(ready).attempt
             ok == Head(ready).do = "set_result"
  <2>1. ready # <<>> /\ (ok \/ Head(ready).do = "set_exception")
    BY <1>3 DEF RunResolve, Run
  <2>2. a \in Attempt /\ (ok => Head(ready).sid \in Sid)
    BY <1>1, <2>1, RunHead, EntryFields
  <2>3. NodeType' /\ EventsType'
    BY <1>1, <1>3 DEF RunResolve, NodeType, EventsType
  <2>4. CASE Undone(a)
    <3>1. /\ future[a] = "pending"
          /\ future' = [future EXCEPT ![a] = IF ok THEN "result" ELSE "failed"]
          /\ result' = [result EXCEPT ![a] = IF ok THEN Head(ready).sid ELSE NoSid]
          /\ ready' = Append(Tail(ready), wakeup(a))
          /\ UNCHANGED <<pending_connect, call>>
      BY <1>3, <2>4 DEF RunResolve, Undone
    <3>2. ReadyType' /\ Range(ready') \subseteq Range(ready) \cup {wakeup(a)}
      BY <1>1, <2>1, <2>2, <3>1, RunAppend, EntriesOK
    <3>3. ConnectType'
      BY <1>1, <2>2, <3>1 DEF ConnectType
    <3> DEFINE outcome == IF ok THEN "result" ELSE "failed"
    <3>4. outcome \in {"result", "failed", "cancelled"}
      OBVIOUS
    <3>5. future' = [future EXCEPT ![a] = outcome]
      BY <3>1
    <3> HIDE DEF outcome, a
    <3>6. Futures'
      BY <2>2, <3>1, <3>2, <3>4, <3>5, FutureDone
    <3> QED BY <2>3, <3>2, <3>3, <3>6, TypePartsNext DEF CInv
  <2>5. CASE ~Undone(a)
    <3>1. UNCHANGED loopvars /\ ready' = Tail(ready)
      BY <1>3, <2>5 DEF RunResolve, loopvars
    <3>2. ReadyType' /\ Range(ready') \subseteq Range(ready)
      BY <1>1, <2>1, <3>1, RunTail
    <3>3. ConnectType' /\ Futures'
      BY <1>1, <3>1, <3>2, FuturesKept DEF ConnectType, loopvars, WakesNone
    <3> QED BY <2>3, <3>2, <3>3, TypePartsNext DEF CInv
  <2> QED BY <2>4, <2>5
<1>4. CASE RunWakeup
  <2> DEFINE a == Head(ready).attempt
  <2>1. ready # <<>> /\ Head(ready).do = "wakeup" /\ ready' = Tail(ready)
    BY <1>4 DEF RunWakeup, Run
  <2>2. a \in Attempt /\ wakeup(a) \in Range(ready)
    BY <1>1, <2>1, RunHead, EntryFields
  <2>3. future[a] \notin {"none", "pending"}
    BY <1>1, <2>2 DEF Futures, WokenIsDone
  <2>4. /\ future' = future /\ result' = result
        /\ pending_connect' = IF pending_connect = a THEN None ELSE pending_connect
        /\ \/ call' = [call EXCEPT ![a] = "returned"] /\ session_id' = result[a]
           \/ call' = [call EXCEPT ![a] = "raised"] /\ session_id' = session_id
    BY <1>4 DEF RunWakeup
  <2>5. ReadyType' /\ Range(ready') \subseteq Range(ready)
    BY <1>1, <2>1, RunTail
  <2>6. EventsType'
    BY <1>1, <1>4 DEF RunWakeup, EventsType
  <2>7. NodeType'
    <3>1. session_id' \in Sid \cup {NoSid}
      BY <1>1, <2>2, <2>4 DEF NodeType, ConnectType
    <3>2. UNCHANGED <<running, stop, snapshot, node, session>>
      BY <1>4 DEF RunWakeup
    <3> QED BY <1>1, <3>1, <3>2 DEF NodeType
  <2>8. ConnectType' /\ \A b \in Attempt : b # a => call'[b] = call[b]
    BY <1>1, <2>2, <2>4 DEF ConnectType
  <2> HIDE DEF a
  <2>9. WaitingIsReachable' /\ WokenIsDone'
    BY <1>1, <2>2, <2>3, <2>4, <2>5 DEF Futures, WaitingIsReachable, WokenIsDone
  <2>10. UncalledHasNone'
    <3>1. call'[a] # "none"
      BY <1>1, <2>2, <2>4 DEF ConnectType
    <3> QED BY <1>1, <2>4, <2>8, <3>1 DEF Futures, UncalledHasNone
  <2> QED BY <2>5, <2>6, <2>7, <2>8, <2>9, <2>10, TypePartsNext DEF CInv, Futures
<1>5. CASE Resolve
  <2>1. NodeType' /\ UNCHANGED loopvars
    BY <1>1, <1>5 DEF Resolve, NodeType
  <2>2. EventsType'
    BY <1>1, <1>5, EventsOK DEF Resolve, EventsType, NoCallback
  <2>3. ConnectType'
    BY <1>1, <2>1 DEF ConnectType, loopvars
  <2>4. ReadyType' /\ WakesNone
    <3>1. CASE pending_connect = None
      BY <1>1, <1>5, <3>1 DEF Resolve, ReadyType, WakesNone
    <3>2. CASE pending_connect # None
      <4>1. pending_connect \in Attempt /\ cb.event \in Event
        BY <1>1, <3>2 DEF ConnectType, EventsType
      <4>2. PICK x \in {set_result(pending_connect, cb.event.sid),
                        set_exception(pending_connect)} :
              /\ ready' = Append(ready, x)
              /\ x = set_result(pending_connect, cb.event.sid) => cb.event.kind = "new"
        BY <1>5, <3>2 DEF Resolve, set_result, set_exception
      <4>3. x \in Entry /\ \A a \in Attempt : wakeup(a) # x
        BY <4>1, <4>2, NewEventHasSid, EntriesOK, WakeupsDiffer
      <4>4. ReadyType' /\ Range(ready') = Range(ready) \cup {x}
        BY <1>1, <4>2, <4>3, AppendReady
      <4> QED BY <4>3, <4>4 DEF WakesNone
    <3> QED BY <3>1, <3>2
  <2> QED BY <1>1, <2>1, <2>2, <2>3, <2>4, FuturesKept, TypePartsNext DEF CInv, loopvars
<1>6. ASSUME NEW a \in Attempt, Deadline(a) PROVE CInv'
  <2>1. NodeType' /\ EventsType' /\ UNCHANGED <<pending_connect, result>>
    BY <1>1, <1>6 DEF Deadline, NodeType, EventsType
  <2>2. CASE Undone(a)
    <3>1. /\ future[a] = "pending" /\ future' = [future EXCEPT ![a] = "cancelled"]
          /\ ready' = Append(ready, wakeup(a)) /\ UNCHANGED call
      BY <1>6, <2>2 DEF Deadline, Undone
    <3>2. ReadyType' /\ Range(ready') = Range(ready) \cup {wakeup(a)}
      BY <1>1, <3>1, AppendReady, EntriesOK
    <3>3. ConnectType'
      BY <1>1, <2>1, <3>1 DEF ConnectType
    <3>4. Futures'
      BY <2>1, <3>1, <3>2, FutureDone
    <3> QED BY <2>1, <3>2, <3>3, <3>4, TypePartsNext DEF CInv
  <2>3. CASE ~Undone(a)
    <3>1. call[a] = "awaiting" /\ call' = [call EXCEPT ![a] = "cancelled"]
          /\ UNCHANGED <<future, ready>>
      BY <1>6, <2>3 DEF Deadline
    <3>2. ConnectType' /\ ReadyType'
      BY <1>1, <2>1, <3>1 DEF ConnectType, ReadyType
    <3>3. \A b \in Attempt : call'[b] = "none" => call[b] = "none"
      BY <1>1, <3>1 DEF ConnectType
    <3>4. Futures'
      BY <1>1, <2>1, <3>1, <3>3 DEF Futures, WaitingIsReachable, WokenIsDone, UncalledHasNone
    <3> QED BY <2>1, <3>2, <3>4, TypePartsNext DEF CInv
  <2> QED BY <2>2, <2>3
<1> QED BY <1>2, <1>3, <1>4, <1>5, <1>6

-----------------------------------------------------------------------------
(* No call was made when the client is created.                              *)
LEMMA CInit == Init => CInv
<1> SUFFICES ASSUME Init PROVE CInv
  OBVIOUS
<1>1. NodeType /\ ConnectType /\ ReadyType /\ EventsType
  <2>1. NodeType
    BY DEF Init, NodeType
  <2>2. ConnectType
    BY DEF Init, ConnectType
  <2>3. ReadyType
    BY DEF Init, ReadyType
  <2>4. EventsType
    BY EventsOK DEF Init, EventsType, NoCallback
  <2> QED BY <2>1, <2>2, <2>3, <2>4
<1>2. Futures
  <2>1. Range(ready) = {}
    BY DEF Init, Range
  <2> QED BY <2>1 DEF Init, Futures, WaitingIsReachable, WokenIsDone, UncalledHasNone
<1> QED BY <1>1, <1>2, TypeParts DEF CInv

(* Every step keeps the invariant, one action at a time.                     *)
LEMMA CStep == CInv /\ [Next]_vars => CInv'
<1> SUFFICES ASSUME CInv, [Next]_vars PROVE CInv'
  OBVIOUS
<1>1. CASE UNCHANGED vars
  <2>1. UNCHANGED <<running, stop, snapshot, session_id, pending_connect, future, result, call,
                    ready, queue, reader, node, session, cb>>
    BY <1>1 DEF vars, loopvars
  <2>2. ClientTypeOK'
    BY <2>1 DEF CInv, ClientTypeOK
  <2>3. Futures'
    BY <2>1, FuturesKept DEF CInv, WakesNone
  <2> QED BY <2>2, <2>3 DEF CInv
<1>2. CASE Next
  BY <1>2, QuietStep, ConnectStep, OutcomeStep DEF Next, LoopStep, StopStep, CallbackStep
<1> QED BY <1>1, <1>2

(* The inductive invariant holds in every state.                             *)
THEOREM CInvAlways == Spec => []CInv
  BY CInit, CStep, PTL DEF Spec

(* Types: whatever a callback finds in _pending_connect when it reads it the  *)
(* second time, only futures of connect() calls are resolved (_push_event     *)
(* and the callbacks in client.py).                                          *)
THEOREM ClientTypeAlways == Spec => []ClientTypeOK
<1>1. CInv => ClientTypeOK
  BY DEF CInv
<1> QED BY <1>1, CInvAlways, PTL

(* A connect() that waits is the one _pending_connect names, for any number   *)
(* of calls: there is one at most, and callbacks and stop() reach it.        *)
THEOREM WaitingAlwaysReachable == Spec => []WaitingIsReachable
<1>1. CInv => WaitingIsReachable
  BY DEF CInv, Futures
<1> QED BY <1>1, CInvAlways, PTL
=============================================================================
