--------------------------- MODULE PendingEvents ---------------------------
(* What the event API of Client, Server and Session promises: the events not *)
(* yet consumed are one sequence, a receiver takes the first of them its     *)
(* filter accepts, and the others stay pending in their order.               *)
EXTENDS Naturals, Sequences

CONSTANTS
    Event,    \* events, each delivered by the node once
    Receiver, \* coroutines that call next_event(), recv() or recv_event()
    Filter,   \* what a call accepts: the sets of events
    Timeouts  \* calls carry a timeout

VARIABLES
    put,      \* events the node delivered
    pending,  \* those not consumed
    want,     \* filter of the call each receiver is in, {} if in none
    got       \* what its calls returned

vars == <<put, pending, want, got>>

Init ==
    /\ put = {} /\ pending = <<>>
    /\ want = [r \in Receiver |-> {}]
    /\ got = [r \in Receiver |-> <<>>]

Deliver(e) ==
    /\ e \notin put
    /\ put' = put \cup {e}
    /\ pending' = Append(pending, e)
    /\ UNCHANGED <<want, got>>

Call(r, f) ==
    /\ want[r] = {}
    /\ want' = [want EXCEPT ![r] = f]
    /\ UNCHANGED <<put, pending, got>>

(* The first event that matches, and no other, leaves the sequence.          *)
Receive(r) ==
    \E i \in DOMAIN pending :
        /\ pending[i] \in want[r]
        /\ \A j \in 1..(i - 1) : pending[j] \notin want[r]
        /\ got' = [got EXCEPT ![r] = Append(@, pending[i])]
        /\ pending' = SubSeq(pending, 1, i - 1) \o SubSeq(pending, i + 1, Len(pending))
        /\ want' = [want EXCEPT ![r] = {}]
        /\ UNCHANGED put

(* A call that times out consumes nothing.                                   *)
GiveUp(r) ==
    /\ Timeouts /\ want[r] # {}
    /\ want' = [want EXCEPT ![r] = {}]
    /\ UNCHANGED <<put, pending, got>>

Next ==
    \/ \E e \in Event : Deliver(e)
    \/ \E r \in Receiver : Receive(r) \/ GiveUp(r) \/ \E f \in Filter : Call(r, f)

Spec == Init /\ [][Next]_vars

(* A call whose event is pending returns.                                    *)
FairSpec == Spec /\ \A r \in Receiver : WF_vars(Receive(r))
=============================================================================
