---------------------------- MODULE EventBuffer ----------------------------
(* veil_core/_event_buffer.py: an asyncio.Queue the loop fills, a backlog of *)
(* events put back, and coroutines that scan both for an event they accept.  *)
(* Everything runs on one event loop, so a coroutine is only interrupted     *)
(* where it awaits the empty queue; a step is one run of a coroutine.        *)
EXTENDS Naturals, Sequences, FiniteSets

CONSTANTS Event, Receiver, Filter, Timeouts

ASSUME BufferConstantsOK ==
    /\ Filter \subseteq SUBSET Event /\ {} \notin Filter
    /\ Timeouts \in BOOLEAN

VARIABLES
    queue,   \* items of the asyncio.Queue
    getters, \* receivers asleep in queue.get(), in order
    backlog, \* EventBuffer._backlog
    pc,      \* where each receiver is
    want,    \* what the call it is in accepts, {} if in none
    skipped, \* the local list of recv_data()/recv_event()
    got,     \* what its calls returned
    put      \* events the loop has put

vars == <<queue, getters, backlog, pc, want, skipped, got, put>>

(* Types of the buffer, the queue and the calls under way.                  *)
BufferTypeOK ==
    /\ queue \in Seq(Event) /\ backlog \in Seq(Event)
    /\ getters \in Seq(Receiver)
    /\ pc \in [Receiver -> {"idle", "called", "asleep", "woken"}]
    /\ want \in [Receiver -> Filter \cup {{}}]
    /\ skipped \in [Receiver -> Seq(Event)] /\ got \in [Receiver -> Seq(Event)]
    /\ put \subseteq Event

Init ==
    /\ queue = <<>> /\ getters = <<>> /\ backlog = <<>> /\ put = {}
    /\ pc = [r \in Receiver |-> "idle"]
    /\ want = [r \in Receiver |-> {}]
    /\ skipped = [r \in Receiver |-> <<>>]
    /\ got = [r \in Receiver |-> <<>>]

(* asyncio.Queue: the longest waiting getter is woken, it does not hold the  *)
(* item yet.                                                                 *)
wakeup_next(waiters, pcs) ==
    IF waiters = <<>>
    THEN getters' = waiters /\ pc' = pcs
    ELSE /\ getters' = Tail(waiters)
         /\ pc' = [pcs EXCEPT ![Head(waiters)] = "woken"]

(* The deque's remove(), on a getter that may have been popped already.      *)
remove(waiters, r) ==
    LET at == {i \in DOMAIN waiters : waiters[i] = r}
        i  == CHOOSE j \in at : TRUE
    IN  IF at = {} THEN waiters
        ELSE SubSeq(waiters, 1, i - 1) \o SubSeq(waiters, i + 1, Len(waiters))

put_nowait(e) ==
    /\ e \notin put
    /\ put' = put \cup {e}
    /\ queue' = Append(queue, e)
    /\ wakeup_next(getters, pc)
    /\ UNCHANGED <<backlog, want, skipped, got>>

Call(r, f) ==
    /\ pc[r] = "idle"
    /\ want' = [want EXCEPT ![r] = f]
    /\ pc' = [pc EXCEPT ![r] = "called"]
    /\ UNCHANGED <<queue, getters, backlog, skipped, got, put>>

(* The events a run of r reads, in the order next_event() yields them: the   *)
(* item its queue.get() was woken for, the backlog, the rest of the queue.   *)
First(r)   == IF pc[r] = "woken" THEN SubSeq(queue, 1, 1) ELSE <<>>
Rest(r)    == IF pc[r] = "woken" THEN Tail(queue) ELSE queue
next_event(r) == First(r) \o backlog \o Rest(r)

(* r can run: a woken getter that finds the queue empty goes back to sleep   *)
(* without a look at the backlog.                                            *)
Runs(r) == pc[r] = "called" \/ (pc[r] = "woken" /\ queue # <<>>)

SkipsAll(r, n) == \A i \in 1..n : next_event(r)[i] \notin want[r]

(* Mutants: extend, and no finally clause.                                   *)
restore_at_end(events, r) == backlog' = events \o skipped[r]
restore_never(events, r)  == backlog' = events

(* extendleft(reversed(skipped)), and the call is over.                      *)
restore(events, r) == backlog' = skipped[r] \o events
finish(r) ==
    /\ pc' = [pc EXCEPT ![r] = "idle"]
    /\ want' = [want EXCEPT ![r] = {}]
    /\ skipped' = [skipped EXCEPT ![r] = <<>>]

(* What a run leaves when it has read n events: it may stop inside the       *)
(* backlog or inside the queue.                                              *)
LeftInBacklog(r, n) == SubSeq(next_event(r), n + 1, Len(First(r) \o backlog))
LeftInQueue(r, n) ==
    LET k == Len(First(r) \o backlog)
    IN  SubSeq(next_event(r), IF n > k THEN n + 1 ELSE k + 1, Len(next_event(r)))

(* recv_data/recv_event return the first match.                              *)
Return(r) ==
    /\ Runs(r)
    /\ \E i \in DOMAIN next_event(r) :
        /\ SkipsAll(r, i - 1) /\ next_event(r)[i] \in want[r]
        /\ got' = [got EXCEPT ![r] = Append(@, next_event(r)[i])]
        /\ restore(SubSeq(next_event(r), 1, i - 1) \o LeftInBacklog(r, i), r)
        /\ queue' = LeftInQueue(r, i)
    /\ finish(r)
    /\ UNCHANGED <<getters, put>>

(* Nothing matches: r keeps what it read and awaits queue.get().             *)
Wait(r) ==
    /\ pc[r] \in {"called", "woken"}
    /\ IF Runs(r)
       THEN /\ SkipsAll(r, Len(next_event(r)))
            /\ skipped' = [skipped EXCEPT ![r] = @ \o next_event(r)]
            /\ backlog' = <<>> /\ queue' = <<>>
       ELSE UNCHANGED <<skipped, backlog, queue>>
    /\ getters' = Append(getters, r)
    /\ pc' = [pc EXCEPT ![r] = "asleep"]
    /\ UNCHANGED <<want, got, put>>

(* The deadline passes in the middle of a run, before the queue is empty: an *)
(* event may match and stay where it is.                                     *)
Expire(r) ==
    /\ Timeouts /\ Runs(r)
    /\ \E n \in Len(First(r) \o backlog)..Len(next_event(r)) :
        /\ SkipsAll(r, n)
        /\ restore(SubSeq(next_event(r), 1, n), r)
        /\ queue' = LeftInQueue(r, n)
    /\ finish(r)
    /\ UNCHANGED <<getters, got, put>>

(* The deadline passes while r sleeps, or after it was woken and before it   *)
(* runs: then queue.get() passes the wake-up on.                             *)
Timeout(r) ==
    /\ Timeouts /\ pc[r] \in {"asleep", "woken"}
    /\ LET others == remove(getters, r)
           ended  == [pc EXCEPT ![r] = "idle"]
       IN  IF pc[r] = "woken" /\ queue # <<>>
           THEN wakeup_next(others, ended)
           ELSE getters' = others /\ pc' = ended
    /\ restore(backlog, r)
    /\ want' = [want EXCEPT ![r] = {}]
    /\ skipped' = [skipped EXCEPT ![r] = <<>>]
    /\ UNCHANGED <<queue, got, put>>

Run(r) == Return(r) \/ Wait(r)

Next ==
    \/ \E e \in Event : put_nowait(e)
    \/ \E r \in Receiver : Run(r) \/ Expire(r) \/ Timeout(r) \/ \E f \in Filter : Call(r, f)

Spec == Init /\ [][Next]_vars

(* The loop runs every coroutine that can; the peer need not send.           *)
FairSpec == Spec /\ \A r \in Receiver : WF_vars(Run(r))

-----------------------------------------------------------------------------
(* Every event is in one place and in it once, whatever receivers interleave *)
(* and time out: none is lost while a call holds it aside, none is returned  *)
(* twice (the finally clauses of recv_data and recv_event).                  *)
Places(e) ==
    {<<"queue", i>> : i \in {j \in DOMAIN queue : queue[j] = e}} \cup
    {<<"backlog", i>> : i \in {j \in DOMAIN backlog : backlog[j] = e}} \cup
    UNION {{<<"skipped", r, i>> : i \in {j \in DOMAIN skipped[r] : skipped[r][j] = e}} \cup
           {<<"got", r, i>> : i \in {j \in DOMAIN got[r] : got[r][j] = e}} : r \in Receiver}
NothingLost == \A e \in Event : Cardinality(Places(e)) = IF e \in put THEN 1 ELSE 0

(* One receiver at a time has what the API promises: next_event(), recv()    *)
(* and recv_event() can be mixed, each returns the first pending event it    *)
(* accepts, a timeout consumes nothing, and a call whose event is pending    *)
(* returns.                                                                  *)
Alone == CHOOSE r \in Receiver : TRUE
Pending == INSTANCE PendingEvents WITH pending <- skipped[Alone] \o backlog \o queue
ImplementsPending == Pending!FairSpec

(* client.py:217 and server.py:225 promise several consumers that events     *)
(* one of them does not match stay pending: a call whose event is there      *)
(* returns.                                                                  *)
PendingFor(r) ==
    want[r] \cap put \cap {e \in Event : \A q \in Receiver :
        \A i \in DOMAIN got[q] : got[q][i] # e} # {}
EveryReceiverAnswered ==
    \A r \in Receiver : want[r] # {} /\ PendingFor(r) ~> want[r] = {} \/ ~PendingFor(r)
=============================================================================
