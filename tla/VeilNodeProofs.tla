-------------------------- MODULE VeilNodeProofs --------------------------
(* Proofs about VeilNode: its types, its indices, the order of its callbacks *)
(* and the outcome of connect(), for every value of the constants.  Each     *)
(* safety theorem rests on an inductive invariant (IndexInv, HaltInv,        *)
(* ReportInv, DataInv or PreludeInv, OutcomeInv) and on one lemma that takes *)
(* the actions one by one.                                                   *)
EXTENDS VeilNode, TLAPS

(* A step that leaves a group of variables alone leaves its type alone.      *)
LEMMA Unchanged ==
    /\ TableType /\ UNCHANGED <<sessions, endpoint_sessions, client_sessions>> => TableType'
    /\ PeerType /\ UNCHANGED peer => PeerType'
    /\ ConnectType /\ UNCHANGED <<pending, connects, outcome>> => ConnectType'
    /\ PipelineType /\ UNCHANGED <<pipeline, rx>> => PipelineType'
    /\ WorkerType /\ UNCHANGED worker => WorkerType'
    /\ TeardownType /\ UNCHANGED teardown => TeardownType'
    /\ IoType /\ UNCHANGED io => IoType'
    /\ TimerType /\ UNCHANGED timer => TimerType'
    /\ AppType /\ UNCHANGED app => AppType'
    /\ LogType /\ UNCHANGED log => LogType'
BY DEF TableType, PeerType, ConnectType, PipelineType, WorkerType, TeardownType,
       IoType, TimerType, AppType, LogType

(* A callback appended to a session's log keeps the log well typed (emit).   *)
LEMMA EmitType ==
  ASSUME LogType, NEW s \in Sid, NEW c \in Callback, emit(s, c)
  PROVE  LogType'
BY DEF LogType, emit

(* Resolving the pending connect() attempt keeps the handshake state well    *)
(* typed (resolve).                                                          *)
LEMMA ResolveType ==
  ASSUME ConnectType, NEW r \in Outcome, resolve(r), UNCHANGED connects
  PROVE  ConnectType'
<1>1. NoPending \in [endpoint: Endpoint \cup {NoEndpoint}, attempt: 0..MaxConnects]
  BY ConstantsOK DEF NoPending
<1>2. \A a \in 1..MaxConnects : Append(outcome[a], r) \in Seq(Outcome)
  BY DEF ConnectType
<1>3. outcome' \in [1..MaxConnects -> Seq(Outcome)]
  BY <1>2 DEF ConnectType, resolve
<1> QED BY <1>1, <1>3 DEF ConnectType, resolve

(* Going on to the next frame of a datagram keeps the workers well typed     *)
(* (emit_data's loop).                                                       *)
LEMMA NextFrameType ==
  ASSUME WorkerType, NEW s \in Sid, worker[s].frames # <<>>, NextFrame(s)
  PROVE  WorkerType'
BY DEF WorkerType, NextFrame, Idle

(* Driving the HTTP prelude and announcing the session keep peers and logs   *)
(* well typed, whoever calls (maybe_drive_http_prelude).                     *)
LEMMA PreludeType ==
  ASSUME PeerType, LogType, NEW s \in Sid, NEW p \in PeerSession,
         maybe_drive_http_prelude(s, p)
  PROVE  PeerType' /\ LogType'
<1>1. \A q \in PeerSession : maybe_emit_ready(s, q) => PeerType' /\ LogType'
  <2> SUFFICES ASSUME NEW q \in PeerSession, maybe_emit_ready(s, q)
               PROVE  PeerType' /\ LogType'
    OBVIOUS
  <2>1. [q EXCEPT !.ready_notified = TRUE] \in PeerSession
    BY DEF PeerSession
  <2>2. PeerType'
    BY <2>1 DEF maybe_emit_ready, PeerType
  <2>3. emit(s, "new") => LogType'
    BY EmitType DEF Callback
  <2>4. UNCHANGED log => LogType'
    BY DEF LogType
  <2> QED BY <2>2, <2>3, <2>4 DEF maybe_emit_ready
<1>2. \A q \in PeerSession, st \in Stage :
         /\ [q EXCEPT !.stage = st] \in PeerSession
         /\ [q EXCEPT !.stage = st, !.idle = FALSE] \in PeerSession
  BY DEF PeerSession
<1>3. \A q \in PeerSession : peer' = [peer EXCEPT ![s] = q] => PeerType'
  BY DEF PeerType
<1>4. p.stage \in Stage /\ "in_progress" \in Stage /\ "data" \in Stage
  BY DEF PeerSession, Stage
<1>5. UNCHANGED log => LogType'
  BY DEF LogType
<1> QED BY <1>1, <1>2, <1>3, <1>4, <1>5 DEF maybe_drive_http_prelude

(* Every step of every thread keeps TypeOK; what the threads hold between    *)
(* two steps (ThreadsOK) is needed where they use it.                        *)
LEMMA TypeStep == ASSUME TypeOK, ThreadsOK, [Next]_vars PROVE TypeOK'
<1> USE ConstantsOK DEF TypeOK, table, connect, workers
<1>1. CASE Start
  <2>1. ConnectType'
    BY <1>1 DEF Start, ConnectType, NoPending
  <2>2. IoType'
    BY <1>1 DEF Start, IoType, IoPc
  <2>3. TimerType'
    BY <1>1 DEF Start, TimerType, TimerPc
  <2> QED BY <1>1, <2>1, <2>2, <2>3, Unchanged DEF Start
<1>2. ASSUME NEW e \in Endpoint, Connect(e)
     PROVE  TypeOK'
  <2>1. ConnectType'
    BY <1>2 DEF Connect, ConnectType, NoPending
  <2> QED BY <1>2, <2>1, Unchanged DEF Connect
<1>3. ASSUME NEW s \in Sid, Send(s)
     PROVE  TypeOK'
  <2>1. PeerType'
    BY <1>3 DEF Send, PeerType, PeerSession
  <2> QED BY <1>3, <2>1, Unchanged DEF Send
<1>4. ASSUME NEW s \in Sid, Disconnect(s)
     PROVE  TypeOK'
  <2>1. AppType'
    BY <1>4 DEF Disconnect, AppType, AppPc
  <2> QED BY <1>4, <2>1, Unchanged DEF Disconnect
<1>5. CASE DisconnectRemove
  <2>1. TableType'
    BY <1>5 DEF DisconnectRemove, TableType, table, remove_session, remove_nothing
  <2>2. AppType'
    BY <1>5 DEF DisconnectRemove, AppType, AppPc
  <2> QED BY <1>5, <2>1, <2>2, Unchanged DEF DisconnectRemove
<1>6. CASE DisconnectSpawn
  <2>1. TeardownType'
    BY <1>6 DEF DisconnectSpawn, TeardownType, teardown_session_async
  <2>2. AppType'
    BY <1>6 DEF DisconnectSpawn, AppType, AppPc
  <2> QED BY <1>6, <2>1, <2>2, Unchanged DEF DisconnectSpawn
<1>7. CASE StopBegin
  <2>1. AppType'
    BY <1>7 DEF StopBegin, AppType, AppPc
  <2> QED BY <1>7, <2>1, Unchanged DEF StopBegin
<1>8. CASE StopSnapshot
  <2>1. AppType'
    BY <1>8 DEF StopSnapshot, AppType, AppPc, TableType
  <2> QED BY <1>8, <2>1, Unchanged DEF StopSnapshot
<1>9. CASE StopClose
  <2>1. AppType'
    BY <1>9 DEF StopClose, AppType, AppPc
  <2> QED BY <1>9, <2>1, Unchanged DEF StopClose
<1>10. CASE StopJoin
  <2>1. AppType'
    BY <1>10 DEF StopJoin, AppType, AppPc
  <2> QED BY <1>10, <2>1, Unchanged DEF StopJoin
<1>11. CASE StopPipelinesDone
  <2>1. AppType'
    BY <1>11 DEF StopPipelinesDone, AppType, AppPc
  <2> QED BY <1>11, <2>1, Unchanged DEF StopPipelinesDone
<1>12. CASE StopEmitDone
  <2>1. AppType'
    BY <1>12 DEF StopEmitDone, AppType, AppPc
  <2> QED BY <1>12, <2>1, Unchanged DEF StopEmitDone
<1>13. CASE join_teardown_threads
  <2>1. AppType'
    BY <1>13 DEF join_teardown_threads, AppType, AppPc
  <2> QED BY <1>13, <2>1, Unchanged DEF join_teardown_threads
<1>14. CASE StopClear
  <2>1. TableType'
    BY <1>14 DEF StopClear, TableType
  <2>2. ConnectType'
    BY <1>14 DEF StopClear, ConnectType, NoPending
  <2>3. PipelineType'
    BY <1>14 DEF StopClear, PipelineType
  <2>4. AppType'
    BY <1>14 DEF StopClear, AppType, AppPc
  <2> QED BY <1>14, <2>1, <2>2, <2>3, <2>4, Unchanged DEF StopClear
<1>15. ASSUME NEW s \in Sid, StopPipeline(s)
     PROVE  TypeOK'
  <2>1. PipelineType'
    BY <1>15 DEF StopPipeline, PipelineType
  <2>2. AppType'
    BY <1>15 DEF StopPipeline, AppType, AppPc
  <2> QED BY <1>15, <2>1, <2>2, Unchanged DEF StopPipeline
<1>16. ASSUME NEW s \in Sid, StopEmit(s)
     PROVE  TypeOK'
  <2>1. LogType'
    BY <1>16, EmitType DEF StopEmit, Callback
  <2>2. AppType'
    BY <1>16 DEF StopEmit, AppType, AppPc
  <2> QED BY <1>16, <2>1, <2>2, Unchanged DEF StopEmit
<1>17. CASE IoExit
  <2>1. IoType'
    BY <1>17 DEF IoExit, IoType, IoPc
  <2> QED BY <1>17, <2>1, Unchanged DEF IoExit
<1>18. ASSUME NEW e \in Endpoint, NEW p \in Packets, DispatchLookup(e, p)
     PROVE  TypeOK'
  <2>1. IoType'
    BY <1>18
    DEF DispatchLookup, IoType, IoPc, TableType, find_session,
        find_session_by_endpoint_key
  <2> QED BY <1>18, <2>1, Unchanged DEF DispatchLookup
<1>19. CASE DispatchSubmit
  <2>1. PeerType'
    BY <1>19 DEF DispatchSubmit, PeerType, PeerSession
  <2>2. PipelineType'
    BY <1>19 DEF DispatchSubmit, PipelineType, ThreadsOK, IoOK
  <2>3. IoType'
    BY <1>19 DEF DispatchSubmit, IoType, IoPc, IoDone
  <2> QED BY <1>19, <2>1, <2>2, <2>3, Unchanged DEF DispatchSubmit
<1>20. CASE DispatchHandshakeServer
  <2>1. IoType'
    BY <1>20 DEF DispatchHandshakeServer, IoType, IoPc, IoDone
  <2> QED BY <1>20, <2>1, Unchanged DEF DispatchHandshakeServer
<1>21. CASE DispatchHandshakeClient
  <2>1. ConnectType'
    BY <1>21, ResolveType DEF DispatchHandshakeClient, ConnectType, Outcome
  <2>2. IoType'
    BY <1>21 DEF DispatchHandshakeClient, IoType, IoPc, IoDone
  <2> QED BY <1>21, <2>1, <2>2, Unchanged DEF DispatchHandshakeClient
<1>22. ASSUME NEW s \in Sid, NEW c \in ClientId \cup {NoClient}, DispatchCreate(s, c)
     PROVE  TypeOK'
  <2>1. TableType'
    BY <1>22 DEF DispatchCreate, TableType, create_session
  <2>2. PeerType'
    BY <1>22
    DEF DispatchCreate, PeerType, PeerSession, Stage, create_session, ThreadsOK,
        IoOK
  <2>3. PipelineType'
    BY <1>22 DEF DispatchCreate, PipelineType, create_session
  <2>4. IoType'
    BY <1>22 DEF DispatchCreate, IoType, IoPc
  <2> QED BY <1>22, <2>1, <2>2, <2>3, <2>4, Unchanged DEF DispatchCreate
<1>23. CASE DispatchAnnounce
  <2>1. PeerType'
    BY <1>23, PreludeType DEF DispatchAnnounce, ThreadsOK, IoOK, PeerType
  <2>2. LogType'
    BY <1>23, PreludeType DEF DispatchAnnounce, ThreadsOK, IoOK, PeerType
  <2>3. IoType'
    BY <1>23 DEF DispatchAnnounce, IoType, IoPc, IoDone
  <2> QED BY <1>23, <2>1, <2>2, <2>3, Unchanged DEF DispatchAnnounce
<1>24. ASSUME NEW b \in BOOLEAN, TimerTurn(b)
     PROVE  TypeOK'
  <2>1. ConnectType'
    BY <1>24, ResolveType DEF TimerTurn, ConnectType, Outcome, HandshakeTimeout
  <2>2. TimerType'
    BY <1>24 DEF TimerTurn, TimerType, TimerPc, TableType
  <2> QED BY <1>24, <2>1, <2>2, Unchanged DEF TimerTurn
<1>25. ASSUME NEW s \in Sid, TimerCheck(s)
     PROVE  TypeOK'
  <2>1. TimerType'
    BY <1>25 DEF TimerCheck, TimerType, TimerPc
  <2> QED BY <1>25, <2>1, Unchanged DEF TimerCheck
<1>26. CASE TimerRemove
  <2>1. TableType'
    BY <1>26 DEF TimerRemove, TableType, table, remove_session, remove_nothing
  <2>2. TimerType'
    BY <1>26 DEF TimerRemove, TimerType, TimerPc
  <2> QED BY <1>26, <2>1, <2>2, Unchanged DEF TimerRemove
<1>27. CASE TimerSpawn
  <2>1. TeardownType'
    BY <1>27 DEF TimerSpawn, TeardownType, teardown_session_async
  <2>2. TimerType'
    BY <1>27 DEF TimerSpawn, TimerType, TimerPc
  <2> QED BY <1>27, <2>1, <2>2, Unchanged DEF TimerSpawn
<1>28. CASE TimerLoop
  <2>1. TimerType'
    BY <1>28 DEF TimerLoop, TimerType, TimerPc
  <2> QED BY <1>28, <2>1, Unchanged DEF TimerLoop
<1>29. ASSUME NEW s \in Sid, GoQuiet(s)
     PROVE  TypeOK'
  <2>1. PeerType'
    BY <1>29 DEF GoQuiet, PeerType, PeerSession
  <2> QED BY <1>29, <2>1, Unchanged DEF GoQuiet
<1>30. ASSUME NEW s \in Sid, WorkerTake(s)
     PROVE  TypeOK'
  <2>1. PipelineType'
    BY <1>30 DEF WorkerTake, PipelineType
  <2>2. WorkerType'
    BY <1>30 DEF WorkerTake, WorkerType, PipelineType, Frame
  <2> QED BY <1>30, <2>1, <2>2, Unchanged DEF WorkerTake
<1>31. ASSUME NEW s \in Sid, WorkerPrelude(s)
     PROVE  TypeOK'
  <2>1. PeerType'
    BY <1>31, PreludeType DEF WorkerPrelude, PeerType, PeerSession, Stage
  <2>2. LogType'
    BY <1>31, PreludeType DEF WorkerPrelude, PeerType, PeerSession, Stage
  <2>3. WorkerType'
    BY <1>31 DEF WorkerPrelude, WorkerType, Idle
  <2> QED BY <1>31, <2>1, <2>2, <2>3, Unchanged DEF WorkerPrelude
<1>32. ASSUME NEW s \in Sid, EmitFrame(s)
     PROVE  TypeOK'
  <2>1. TableType'
    BY <1>32
    DEF EmitFrame, TableType, table, EmitData, SkipControl,
        handle_control_frame, remove_session, remove_nothing
  <2>2. WorkerType'
    <3>1. CASE handle_control_frame(s)
      <4>1. /\ [pc |-> "spawn", frames |-> <<>>]
                 \in [pc: {"idle", "on_rx", "spawn"}, frames: Seq(Frame)]
            /\ Idle \in [pc: {"idle", "on_rx", "spawn"}, frames: Seq(Frame)]
        BY DEF Idle
      <4> QED BY <3>1, <4>1 DEF WorkerType, handle_control_frame
    <3>2. CASE EmitData(s) \/ SkipControl(s)
      BY <3>2, <1>32, NextFrameType DEF EmitFrame, EmitData, SkipControl
    <3> QED BY <3>1, <3>2, <1>32 DEF EmitFrame
  <2>3. LogType'
    <3>1. CASE EmitData(s)
      BY <3>1, EmitType DEF EmitData, Callback
    <3>2. CASE SkipControl(s) \/ handle_control_frame(s)
      BY <3>2 DEF SkipControl, handle_control_frame, LogType
    <3> QED BY <3>1, <3>2, <1>32 DEF EmitFrame
  <2> QED BY <1>32, <2>1, <2>2, <2>3, Unchanged DEF EmitFrame
<1>33. ASSUME NEW s \in Sid, WorkerSpawn(s)
     PROVE  TypeOK'
  <2>1. TeardownType'
    BY <1>33 DEF WorkerSpawn, TeardownType, teardown_session_async
  <2>2. WorkerType'
    BY <1>33 DEF WorkerSpawn, WorkerType, Idle
  <2> QED BY <1>33, <2>1, <2>2, Unchanged DEF WorkerSpawn
<1>34. ASSUME NEW s \in Sid, TeardownHalt(s)
     PROVE  TypeOK'
  <2>1. PipelineType'
    BY <1>34 DEF TeardownHalt, PipelineType
  <2>2. TeardownType'
    BY <1>34 DEF TeardownHalt, TeardownType
  <2> QED BY <1>34, <2>1, <2>2, Unchanged DEF TeardownHalt
<1>35. ASSUME NEW s \in Sid, TeardownEmit(s)
     PROVE  TypeOK'
  <2>1. LogType'
    BY <1>35, EmitType DEF TeardownEmit, Callback
  <2>2. TeardownType'
    BY <1>35 DEF TeardownEmit, TeardownType
  <2> QED BY <1>35, <2>1, <2>2, Unchanged DEF TeardownEmit
<1>36. CASE UNCHANGED vars
  BY <1>36, Unchanged DEF vars
<1> QED
  BY <1>1, <1>2, <1>3, <1>4, <1>5, <1>6, <1>7, <1>8, <1>9, <1>10, <1>11, <1>12,
     <1>13, <1>14, <1>15, <1>16, <1>17, <1>18, <1>19, <1>20, <1>21, <1>22,
     <1>23, <1>24, <1>25, <1>26, <1>27, <1>28, <1>29, <1>30, <1>31, <1>32,
     <1>33, <1>34, <1>35, <1>36
  DEF Next, AppStep, IoStep, TimerStep, WorkerStep, TeardownStep

-----------------------------------------------------------------------------
(* The inductive invariant behind the indices: the lookup's "no session at   *)
(* this endpoint" must survive until create_session (IoOK), and no session   *)
(* is created under an id in use (PeersOK).                                  *)
IndexInv == TypeOK /\ ThreadsOK /\ IndicesMatch

(* A step that does not re-key a peer: its endpoint and client id stay.      *)
SameKeys ==
  \A s \in Sid :
     /\ peer'[s].endpoint = peer[s].endpoint
     /\ peer'[s].client_id = peer[s].client_id
     /\ pipeline[s] # "none" => pipeline'[s] # "none"

(* Steps that touch neither the table nor the keys of the peers keep the     *)
(* indices.                                                                  *)
LEMMA KeepIndices ==
  ASSUME IndexInv, SameKeys, UNCHANGED <<sessions, endpoint_sessions, client_sessions>>
  PROVE  IndicesMatch' /\ PeersOK'
<1>1. PeersOK'
  BY DEF IndexInv, TypeOK, TableType, ThreadsOK, PeersOK, SameKeys
<1>2. \A s \in sessions : endpoint_sessions'[peer'[s].endpoint] = s
  BY DEF IndexInv, TypeOK, TableType, IndicesMatch, SameKeys
<1>3. \A e \in Endpoint : endpoint_sessions'[e] # NoSid =>
         endpoint_sessions'[e] \in sessions /\ peer'[endpoint_sessions'[e]].endpoint = e
  BY DEF IndexInv, TypeOK, TableType, IndicesMatch, SameKeys
<1>4. \A c \in ClientId : client_sessions'[c] = {s \in sessions : peer'[s].client_id = c}
  BY DEF IndexInv, TypeOK, TableType, IndicesMatch, SameKeys
<1> QED BY <1>1, <1>2, <1>3, <1>4 DEF IndicesMatch

(* remove_session keeps the indices, and gives no endpoint a session.        *)
LEMMA RemoveIndices ==
  ASSUME IndexInv, NEW s \in Sid, remove_session(s), UNCHANGED <<peer, pipeline>>
  PROVE  /\ IndicesMatch' /\ PeersOK'
         /\ \A e \in Endpoint : endpoint_sessions[e] = NoSid => endpoint_sessions'[e] = NoSid
BY ConstantsOK
DEF IndexInv, TypeOK, TableType, ThreadsOK, PeersOK, IndicesMatch, remove_session

(* create_session keeps the indices, because the endpoint had no session     *)
(* and the id is fresh.                                                      *)
LEMMA CreateIndices ==
  ASSUME IndexInv, NEW s \in FreshSid, NEW e \in Endpoint, endpoint_sessions[e] = NoSid,
         NEW c \in ClientId \cup {NoClient}, create_session(s, e, c)
  PROVE  IndicesMatch' /\ PeersOK'
<1>1. s \notin sessions
  BY ConstantsOK DEF IndexInv, ThreadsOK, PeersOK, FreshSid
<1>2. s \in Sid /\ s # NoSid
  BY ConstantsOK DEF FreshSid
<1>3. /\ peer'[s].endpoint = e /\ peer'[s].client_id = c
      /\ \A t \in Sid \ {s} : peer'[t] = peer[t]
  BY <1>2 DEF create_session, IndexInv, TypeOK, PeerType
<1>4. PeersOK'
  BY <1>1, <1>2, <1>3
  DEF IndexInv, TypeOK, TableType, PipelineType, ThreadsOK, PeersOK,
      create_session
<1>5. \A t \in sessions' : endpoint_sessions'[peer'[t].endpoint] = t
  <2>1. endpoint_sessions'[e] = s
    BY DEF create_session, IndexInv, TypeOK, TableType
  <2>2. \A t \in sessions : t \in Sid \ {s} /\ peer[t].endpoint \in Endpoint \ {e}
    BY <1>1, ConstantsOK
    DEF IndexInv, TypeOK, TableType, ThreadsOK, PeersOK, IndicesMatch
  <2>3. \A f \in Endpoint \ {e} : endpoint_sessions'[f] = endpoint_sessions[f]
    BY DEF create_session, IndexInv, TypeOK, TableType
  <2>4. \A t \in sessions : endpoint_sessions'[peer'[t].endpoint] = t
    BY <2>2, <2>3, <1>3 DEF IndexInv, IndicesMatch
  <2> QED BY <2>1, <2>4, <1>3 DEF create_session
<1>6. \A f \in Endpoint : endpoint_sessions'[f] # NoSid =>
         endpoint_sessions'[f] \in sessions' /\ peer'[endpoint_sessions'[f]].endpoint = f
  BY <1>1, <1>2, <1>3
  DEF IndexInv, TypeOK, TableType, ThreadsOK, PeersOK, IndicesMatch, create_session
<1>7. \A k \in ClientId : client_sessions'[k] = {t \in sessions' : peer'[t].client_id = k}
  BY <1>1, <1>2, <1>3, ConstantsOK
  DEF IndexInv, TypeOK, TableType, IndicesMatch, create_session
<1> QED BY <1>4, <1>5, <1>6, <1>7 DEF IndicesMatch

(* The prelude moves stages and flags, never the keys of a peer.             *)
LEMMA PreludeKeys ==
  ASSUME PeerType, NEW s \in Sid, NEW p, p \in PeerSession,
         p.endpoint = peer[s].endpoint, p.client_id = peer[s].client_id,
         maybe_drive_http_prelude(s, p), UNCHANGED pipeline
  PROVE  SameKeys
<1>1. \A q \in PeerSession :
         /\ q.endpoint = p.endpoint /\ q.client_id = p.client_id
         /\ peer' = [peer EXCEPT ![s] = q]
         => SameKeys
  BY DEF SameKeys, PeerType
<1>2. \A q \in PeerSession : q.endpoint = p.endpoint /\ q.client_id = p.client_id
                               /\ maybe_emit_ready(s, q) => SameKeys
  BY <1>1 DEF maybe_emit_ready, PeerSession
<1>3. p.stage \in Stage /\ "in_progress" \in Stage /\ "data" \in Stage
  BY DEF PeerSession, Stage
<1>4. \A st \in Stage :
         /\ [p EXCEPT !.stage = st] \in PeerSession
         /\ [p EXCEPT !.stage = st].endpoint = p.endpoint
         /\ [p EXCEPT !.stage = st].client_id = p.client_id
         /\ [p EXCEPT !.stage = st, !.idle = FALSE] \in PeerSession
         /\ [p EXCEPT !.stage = st, !.idle = FALSE].endpoint = p.endpoint
         /\ [p EXCEPT !.stage = st, !.idle = FALSE].client_id = p.client_id
  BY DEF PeerSession
<1> QED BY <1>1, <1>2, <1>3, <1>4 DEF maybe_drive_http_prelude

(* Every step keeps the indices and what the threads hold.                   *)
LEMMA IndexStep == ASSUME IndexInv, [Next]_vars PROVE IndicesMatch' /\ ThreadsOK'
<1> USE DEF table, connect, workers
<1>1. CASE Start
  BY <1>1, KeepIndices
  DEF Start, SameKeys, IndexInv, TypeOK, ThreadsOK, IoOK, TimerOK, AppOK
<1>2. ASSUME NEW e \in Endpoint, Connect(e)
     PROVE  IndicesMatch' /\ ThreadsOK'
  BY <1>2, KeepIndices
  DEF Connect, SameKeys, IndexInv, TypeOK, ThreadsOK, IoOK, TimerOK, AppOK
<1>3. ASSUME NEW s \in Sid, Disconnect(s)
     PROVE  IndicesMatch' /\ ThreadsOK'
  BY <1>3, KeepIndices
  DEF Disconnect, SameKeys, IndexInv, TypeOK, ThreadsOK, IoOK, TimerOK, AppOK
<1>4. CASE DisconnectSpawn
  BY <1>4, KeepIndices
  DEF DisconnectSpawn, SameKeys, IndexInv, TypeOK, ThreadsOK, IoOK, TimerOK,
      AppOK
<1>5. CASE StopBegin
  BY <1>5, KeepIndices
  DEF StopBegin, SameKeys, IndexInv, TypeOK, ThreadsOK, IoOK, TimerOK, AppOK
<1>6. CASE StopSnapshot
  BY <1>6, KeepIndices
  DEF StopSnapshot, SameKeys, IndexInv, TypeOK, ThreadsOK, IoOK, TimerOK, AppOK
<1>7. CASE StopClose
  BY <1>7, KeepIndices
  DEF StopClose, SameKeys, IndexInv, TypeOK, ThreadsOK, IoOK, TimerOK, AppOK
<1>8. CASE StopJoin
  BY <1>8, KeepIndices
  DEF StopJoin, SameKeys, IndexInv, TypeOK, ThreadsOK, IoOK, TimerOK, AppOK
<1>9. ASSUME NEW s \in Sid, StopPipeline(s)
     PROVE  IndicesMatch' /\ ThreadsOK'
  BY <1>9, KeepIndices
  DEF StopPipeline, PipelineType, SameKeys, IndexInv, TypeOK, ThreadsOK, IoOK,
      TimerOK, AppOK
<1>10. CASE StopPipelinesDone
  BY <1>10, KeepIndices
  DEF StopPipelinesDone, SameKeys, IndexInv, TypeOK, ThreadsOK, IoOK, TimerOK,
      AppOK
<1>11. ASSUME NEW s \in Sid, StopEmit(s)
     PROVE  IndicesMatch' /\ ThreadsOK'
  BY <1>11, KeepIndices
  DEF StopEmit, AppType, SameKeys, IndexInv, TypeOK, ThreadsOK, IoOK, TimerOK,
      AppOK
<1>12. CASE StopEmitDone
  BY <1>12, KeepIndices
  DEF StopEmitDone, SameKeys, IndexInv, TypeOK, ThreadsOK, IoOK, TimerOK, AppOK
<1>13. CASE join_teardown_threads
  BY <1>13, KeepIndices
  DEF join_teardown_threads, SameKeys, IndexInv, TypeOK, ThreadsOK, IoOK,
      TimerOK, AppOK
<1>14. CASE IoExit
  BY <1>14, KeepIndices
  DEF IoExit, SameKeys, IndexInv, TypeOK, ThreadsOK, IoOK, TimerOK, AppOK
<1>15. CASE DispatchHandshakeServer
  BY <1>15, KeepIndices
  DEF DispatchHandshakeServer, SameKeys, IndexInv, TypeOK, ThreadsOK, IoOK,
      TimerOK, AppOK, IoDone, IoType, IoPc
<1>16. CASE DispatchHandshakeClient
  BY <1>16, KeepIndices
  DEF DispatchHandshakeClient, SameKeys, IndexInv, TypeOK, ThreadsOK, IoOK,
      TimerOK, AppOK, IoDone, IoType, IoPc
<1>17. ASSUME NEW b \in BOOLEAN, TimerTurn(b)
     PROVE  IndicesMatch' /\ ThreadsOK'
  BY <1>17, KeepIndices
  DEF TimerTurn, SameKeys, IndexInv, TypeOK, ThreadsOK, IoOK, TimerOK, AppOK,
      TimerType
<1>18. ASSUME NEW s \in Sid, TimerCheck(s)
     PROVE  IndicesMatch' /\ ThreadsOK'
  BY <1>18, KeepIndices
  DEF TimerCheck, SameKeys, IndexInv, TypeOK, ThreadsOK, IoOK, TimerOK, AppOK,
      TimerType
<1>19. CASE TimerSpawn
  BY <1>19, KeepIndices
  DEF TimerSpawn, SameKeys, IndexInv, TypeOK, ThreadsOK, IoOK, TimerOK, AppOK,
      TimerType
<1>20. CASE TimerLoop
  BY <1>20, KeepIndices
  DEF TimerLoop, SameKeys, IndexInv, TypeOK, ThreadsOK, IoOK, TimerOK, AppOK,
      TimerType
<1>21. ASSUME NEW s \in Sid, WorkerTake(s)
     PROVE  IndicesMatch' /\ ThreadsOK'
  BY <1>21, KeepIndices
  DEF WorkerTake, SameKeys, IndexInv, TypeOK, ThreadsOK, IoOK, TimerOK, AppOK
<1>22. ASSUME NEW s \in Sid, WorkerSpawn(s)
     PROVE  IndicesMatch' /\ ThreadsOK'
  BY <1>22, KeepIndices
  DEF WorkerSpawn, SameKeys, IndexInv, TypeOK, ThreadsOK, IoOK, TimerOK, AppOK
<1>23. ASSUME NEW s \in Sid, TeardownHalt(s)
     PROVE  IndicesMatch' /\ ThreadsOK'
  BY <1>23, KeepIndices
  DEF TeardownHalt, PipelineType, SameKeys, IndexInv, TypeOK, ThreadsOK, IoOK,
      TimerOK, AppOK
<1>24. ASSUME NEW s \in Sid, TeardownEmit(s)
     PROVE  IndicesMatch' /\ ThreadsOK'
  BY <1>24, KeepIndices
  DEF TeardownEmit, SameKeys, IndexInv, TypeOK, ThreadsOK, IoOK, TimerOK, AppOK
<1>25. ASSUME NEW s \in Sid, Send(s)
     PROVE  IndicesMatch' /\ ThreadsOK'
  <2>1. SameKeys
    BY <1>25 DEF Send, SameKeys, IndexInv, TypeOK, PeerType
  <2> QED BY <1>25, <2>1, KeepIndices
    DEF Send, IndexInv, TypeOK, ThreadsOK, IoOK, TimerOK, AppOK
<1>26. ASSUME NEW s \in Sid, GoQuiet(s)
     PROVE  IndicesMatch' /\ ThreadsOK'
  <2>1. SameKeys
    BY <1>26 DEF GoQuiet, SameKeys, IndexInv, TypeOK, PeerType
  <2> QED BY <1>26, <2>1, KeepIndices
    DEF GoQuiet, IndexInv, TypeOK, ThreadsOK, IoOK, TimerOK, AppOK
<1>27. CASE DispatchSubmit
  <2>1. SameKeys
    BY <1>27 DEF DispatchSubmit, SameKeys, IndexInv, TypeOK, PeerType
  <2> QED BY <1>27, <2>1, KeepIndices
    DEF DispatchSubmit, IoDone, IndexInv, TypeOK, ThreadsOK, IoType, IoOK, TimerOK,
        AppOK
<1>28. ASSUME NEW e \in Endpoint, NEW p \in Packets, DispatchLookup(e, p)
     PROVE  IndicesMatch' /\ ThreadsOK'
  <2>1. endpoint_sessions[e] # NoSid => find_session_by_endpoint_key(e) = endpoint_sessions[e]
    BY DEF find_session_by_endpoint_key, find_session, IndexInv, IndicesMatch
  <2>2. find_session_by_endpoint_key(e) # NoSid => find_session_by_endpoint_key(e) \in Sid
    BY
    DEF find_session_by_endpoint_key, find_session, IndexInv, TypeOK, ThreadsOK,
        TableType
  <2> QED BY <1>28, <2>1, <2>2, KeepIndices
          DEF DispatchLookup, SameKeys, IndexInv, TypeOK, ThreadsOK, IoOK, TimerOK,
              AppOK
<1>29. CASE DispatchAnnounce
  <2>1. peer[io.sid] \in PeerSession /\ io.sid \in Sid
    BY <1>29 DEF DispatchAnnounce, IndexInv, TypeOK, ThreadsOK, IoOK, PeerType
  <2>2. SameKeys
    BY <1>29, <2>1, PreludeKeys DEF DispatchAnnounce, IndexInv, TypeOK, ThreadsOK
  <2> QED BY <1>29, <2>2, KeepIndices
    DEF DispatchAnnounce, IoDone, IndexInv, TypeOK, ThreadsOK, IoType, IoOK,
        TimerOK, AppOK
<1>30. ASSUME NEW s \in Sid, WorkerPrelude(s)
     PROVE  IndicesMatch' /\ ThreadsOK'
  <2>1. \A st \in Stage : /\ [peer[s] EXCEPT !.stage = st] \in PeerSession
                         /\ [peer[s] EXCEPT !.stage = st].endpoint = peer[s].endpoint
                         /\ [peer[s] EXCEPT !.stage = st].client_id = peer[s].client_id
    BY DEF IndexInv, TypeOK, PeerType, PeerSession
  <2>2. peer[s].stage \in Stage /\ "in_progress" \in Stage /\ "data" \in Stage
    BY DEF IndexInv, TypeOK, PeerType, PeerSession, Stage
  <2>3. SameKeys
    BY <1>30, <2>1, <2>2, PreludeKeys DEF WorkerPrelude, IndexInv, TypeOK
  <2> QED BY <1>30, <2>3, KeepIndices
    DEF WorkerPrelude, IndexInv, TypeOK, ThreadsOK, IoOK, TimerOK, AppOK
<1>31. ASSUME NEW s \in FreshSid, NEW c \in ClientId \cup {NoClient}, DispatchCreate(s, c)
     PROVE  IndicesMatch' /\ ThreadsOK'
  <2>1. IndicesMatch' /\ PeersOK'
    BY <1>31, CreateIndices DEF DispatchCreate, IndexInv, TypeOK, ThreadsOK, IoOK
  <2>2. s \in Sid
    BY DEF FreshSid
  <2> QED BY <1>31, <2>1, <2>2
    DEF DispatchCreate, IndexInv, TypeOK, ThreadsOK, IoType, IoOK, TimerOK, AppOK
<1>32. CASE DisconnectRemove
  <2>1. app.sid \in Sid
    BY <1>32 DEF DisconnectRemove, IndexInv, TypeOK, ThreadsOK, AppOK, TimerOK
  <2>2. CASE remove_session(app.sid)
    BY <1>32, <2>1, <2>2, RemoveIndices
    DEF DisconnectRemove, AppType, TimerType, IndexInv, TypeOK, ThreadsOK, IoType,
        IoOK, TimerOK, AppOK
  <2>3. CASE remove_nothing(app.sid)
    BY <1>32, <2>1, <2>3, KeepIndices
    DEF DisconnectRemove, AppType, TimerType, remove_nothing, table, SameKeys,
        IndexInv, TypeOK, ThreadsOK, IoOK, TimerOK, AppOK
  <2> QED BY <1>32, <2>2, <2>3 DEF DisconnectRemove
<1>33. CASE TimerRemove
  <2>1. timer.sid \in Sid
    BY <1>33 DEF TimerRemove, IndexInv, TypeOK, ThreadsOK, AppOK, TimerOK
  <2>2. CASE remove_session(timer.sid)
    BY <1>33, <2>1, <2>2, RemoveIndices
    DEF TimerRemove, AppType, TimerType, IndexInv, TypeOK, ThreadsOK, IoType, IoOK,
        TimerOK, AppOK
  <2>3. CASE remove_nothing(timer.sid)
    BY <1>33, <2>1, <2>3, KeepIndices
    DEF TimerRemove, AppType, TimerType, remove_nothing, table, SameKeys, IndexInv,
        TypeOK, ThreadsOK, IoOK, TimerOK, AppOK
  <2> QED BY <1>33, <2>2, <2>3 DEF TimerRemove
<1>34. ASSUME NEW s \in Sid, EmitFrame(s)
     PROVE  IndicesMatch' /\ ThreadsOK'
  <2>1. CASE remove_session(s)
    BY <1>34, <2>1, RemoveIndices
    DEF EmitFrame, IndexInv, TypeOK, ThreadsOK, IoType, IoOK, TimerOK, AppOK
  <2>2. CASE UNCHANGED table
    BY <1>34, <2>2, KeepIndices
    DEF EmitFrame, table, SameKeys, IndexInv, TypeOK, ThreadsOK, IoOK, TimerOK,
        AppOK
  <2> QED BY <1>34, <2>1, <2>2
          DEF EmitFrame, EmitData, SkipControl, handle_control_frame, remove_nothing
<1>35. CASE StopClear
  <2>1. IndicesMatch' /\ PeersOK'
    BY <1>35, ConstantsOK DEF StopClear, IndicesMatch, PeersOK
  <2> QED BY <1>35, <2>1
    DEF StopClear, IndexInv, TypeOK, ThreadsOK, IoOK, TimerOK, AppOK
<1>36. CASE UNCHANGED vars
  BY <1>36, KeepIndices
  DEF vars, SameKeys, IndexInv, TypeOK, ThreadsOK, IoOK, TimerOK, AppOK
<1>37. \A s \in Sid, c \in ClientId \cup {NoClient} : DispatchCreate(s, c) => s \in FreshSid
  BY DEF DispatchCreate
<1> QED
  BY <1>1, <1>2, <1>3, <1>4, <1>5, <1>6, <1>7, <1>8, <1>9, <1>10, <1>11, <1>12,
     <1>13, <1>14, <1>15, <1>16, <1>17, <1>18, <1>19, <1>20, <1>21, <1>22,
     <1>23, <1>24, <1>25, <1>26, <1>27, <1>28, <1>29, <1>30, <1>31, <1>32,
     <1>33, <1>34, <1>35, <1>36, <1>37
  DEF Next, AppStep, IoStep, TimerStep, WorkerStep, TeardownStep

(* A step that fires no callback keeps NoDataAfterEnd and ends no session.   *)
LEMMA LogStutter ==
  ASSUME UNCHANGED log
  PROVE  (NoDataAfterEnd => NoDataAfterEnd') /\ \A s \in Sid : Ended(s)' => Ended(s)
<1>1. log' = log
  OBVIOUS
<1> QED BY <1>1 DEF NoDataAfterEnd, Ended, Fired

(* Arithmetic of a log that grew by one entry, kept apart from the logs      *)
(* themselves.                                                               *)
LEMMA Below ==
  ASSUME NEW n \in Nat, NEW i \in 1..(n + 1), NEW j \in 1..(n + 1), i < j
  PROVE  i \in 1..n /\ (j # n + 1 => j \in 1..n)
OBVIOUS

(* Firing c on s keeps NoDataAfterEnd unless it is data on an ended          *)
(* session, and only a disconnect callback ends one.                         *)
LEMMA EndedOnlyBy ==
  ASSUME LogType, NEW s \in Sid, NEW c \in Callback, emit(s, c)
  PROVE  /\ NoDataAfterEnd /\ (c = "data" => ~Ended(s)) => NoDataAfterEnd'
         /\ \A t \in Sid :
             Ended(t)' => Ended(t) \/ (t = s /\ c \in {"disconnected", "node stopped"})
<1>1. \A t \in Sid \ {s} : log'[t] = log[t]
  BY DEF emit, LogType
<1>2. /\ DOMAIN log'[s] = 1..(Len(log[s]) + 1) /\ DOMAIN log[s] = 1..Len(log[s])
      /\ \A i \in 1..Len(log[s]) : log'[s][i] = log[s][i]
      /\ log'[s][Len(log[s]) + 1] = c
  BY DEF emit, LogType
<1>3. Len(log[s]) \in Nat
  BY DEF LogType
<1>4. \A t \in Sid :
             Ended(t)' => Ended(t) \/ (t = s /\ c \in {"disconnected", "node stopped"})
  <2>1. ASSUME NEW t \in Sid \ {s} PROVE Ended(t)' => Ended(t)
    BY <1>1 DEF Ended, Fired
  <2>2. \A v : Fired(s, v)' => Fired(s, v) \/ v = c
    BY <1>2 DEF Fired
  <2> QED BY <2>1, <2>2 DEF Ended
<1>5. ASSUME NoDataAfterEnd, c = "data" => ~Ended(s) PROVE NoDataAfterEnd'
  <2> SUFFICES ASSUME NEW t \in Sid, NEW i \in DOMAIN log'[t], NEW j \in DOMAIN log'[t],
                      i < j, log'[t][i] \in {"disconnected", "node stopped"},
                      log'[t][j] = "data"
               PROVE  FALSE
    BY DEF NoDataAfterEnd
  <2>1. CASE t # s
    BY <2>1, <1>1, <1>5 DEF NoDataAfterEnd
  <2>2. CASE t = s /\ j = Len(log[s]) + 1
    <3>1. i \in 1..Len(log[s])
      BY <2>2, <1>2, <1>3, Below
    <3>2. i \in DOMAIN log[s] /\ log[s][i] = log'[s][i]
      BY <3>1, <1>2
    <3>3. Ended(s)
      BY <3>2, <2>2 DEF Ended, Fired
    <3> QED BY <2>2, <3>3, <1>2, <1>5
  <2>3. CASE t = s /\ j # Len(log[s]) + 1
    <3>1. i \in 1..Len(log[s]) /\ j \in 1..Len(log[s])
      BY <2>3, <1>2, <1>3, Below
    <3>2. /\ i \in DOMAIN log[s] /\ log[s][i] = log'[s][i]
          /\ j \in DOMAIN log[s] /\ log[s][j] = log'[s][j]
      BY <3>1, <1>2
    <3> QED BY <2>3, <3>2, <1>5 DEF NoDataAfterEnd
  <2> QED BY <2>1, <2>2, <2>3
<1> QED BY <1>4, <1>5

(* The prelude only ever announces: it neither ends a session nor sends      *)
(* data.                                                                     *)
LEMMA PreludeNoEnd ==
  ASSUME LogType, NEW s \in Sid, NEW p, NoDataAfterEnd, maybe_drive_http_prelude(s, p)
  PROVE  NoDataAfterEnd' /\ \A t \in Sid : Ended(t)' => Ended(t)
<1>1. CASE emit(s, "new")
  BY <1>1, EndedOnlyBy DEF Callback
<1>2. CASE UNCHANGED log
  BY <1>2, LogStutter
<1> QED BY <1>1, <1>2 DEF maybe_drive_http_prelude, maybe_emit_ready

(* The inductive invariant behind NoDataAfterEnd: whoever is about to        *)
(* report the end of a session has halted its pipeline (HaltOK).             *)
HaltInv == TypeOK /\ ThreadsOK /\ HaltOK /\ NoDataAfterEnd

(* Every step keeps HaltOK and NoDataAfterEnd: a worker that still handles   *)
(* a frame belongs to a session nobody has ended.                            *)
LEMMA HaltStep == ASSUME HaltInv, [Next]_vars PROVE HaltOK' /\ NoDataAfterEnd'
<1> USE DEF table, connect, workers, HaltInv
<1>1. CASE Start
  BY <1>1, LogStutter DEF Start, HaltOK, Halted
<1>2. ASSUME NEW e \in Endpoint, Connect(e)
     PROVE  HaltOK' /\ NoDataAfterEnd'
  BY <1>2, LogStutter DEF Connect, HaltOK, Halted
<1>3. ASSUME NEW s \in Sid, Send(s)
     PROVE  HaltOK' /\ NoDataAfterEnd'
  BY <1>3, LogStutter DEF Send, HaltOK, Halted
<1>4. ASSUME NEW s \in Sid, Disconnect(s)
     PROVE  HaltOK' /\ NoDataAfterEnd'
  BY <1>4, LogStutter DEF Disconnect, HaltOK, Halted, TypeOK, AppType
<1>5. CASE DisconnectRemove
  BY <1>5, LogStutter DEF DisconnectRemove, HaltOK, Halted, TypeOK, AppType
<1>6. CASE DisconnectSpawn
  BY <1>6, LogStutter
  DEF DisconnectSpawn, HaltOK, Halted, TypeOK, AppType, TeardownType,
      teardown_session_async
<1>7. CASE StopBegin
  BY <1>7, LogStutter DEF StopBegin, HaltOK, Halted, TypeOK, AppType
<1>8. CASE StopSnapshot
  BY <1>8, LogStutter DEF StopSnapshot, HaltOK, Halted, TypeOK, AppType
<1>9. CASE StopClose
  BY <1>9, LogStutter DEF StopClose, HaltOK, Halted, TypeOK, AppType
<1>10. CASE StopJoin
  BY <1>10, LogStutter DEF StopJoin, HaltOK, Halted, TypeOK, AppType
<1>11. CASE StopClear
  BY <1>11, LogStutter DEF StopClear, HaltOK, Halted, TypeOK, AppType, PipelineType
<1>12. ASSUME NEW s \in Sid, StopPipeline(s)
     PROVE  HaltOK' /\ NoDataAfterEnd'
  BY <1>12, LogStutter
  DEF StopPipeline, HaltOK, Halted, TypeOK, AppType, PipelineType
<1>13. CASE StopPipelinesDone
  BY <1>13, LogStutter DEF StopPipelinesDone, HaltOK, Halted, TypeOK, AppType
<1>14. CASE StopEmitDone
  BY <1>14, LogStutter DEF StopEmitDone, HaltOK, Halted, TypeOK, AppType
<1>15. CASE join_teardown_threads
  BY <1>15, LogStutter DEF join_teardown_threads, HaltOK, Halted, TypeOK, AppType
<1>16. CASE IoExit
  BY <1>16, LogStutter DEF IoExit, HaltOK, Halted
<1>17. ASSUME NEW e \in Endpoint, NEW p \in Packets, DispatchLookup(e, p)
     PROVE  HaltOK' /\ NoDataAfterEnd'
  BY <1>17, LogStutter DEF DispatchLookup, HaltOK, Halted
<1>18. CASE DispatchSubmit
  BY <1>18, LogStutter DEF DispatchSubmit, HaltOK, Halted
<1>19. CASE DispatchHandshakeServer
  BY <1>19, LogStutter DEF DispatchHandshakeServer, HaltOK, Halted
<1>20. CASE DispatchHandshakeClient
  BY <1>20, LogStutter DEF DispatchHandshakeClient, HaltOK, Halted
<1>21. ASSUME NEW s \in Sid, NEW c \in ClientId \cup {NoClient}, DispatchCreate(s, c)
     PROVE  HaltOK' /\ NoDataAfterEnd'
  BY <1>21, LogStutter
  DEF DispatchCreate, HaltOK, Halted, TypeOK, PipelineType, create_session,
      FreshSid
<1>22. ASSUME NEW b \in BOOLEAN, TimerTurn(b)
     PROVE  HaltOK' /\ NoDataAfterEnd'
  BY <1>22, LogStutter DEF TimerTurn, HaltOK, Halted
<1>23. ASSUME NEW s \in Sid, TimerCheck(s)
     PROVE  HaltOK' /\ NoDataAfterEnd'
  BY <1>23, LogStutter DEF TimerCheck, HaltOK, Halted
<1>24. CASE TimerRemove
  BY <1>24, LogStutter DEF TimerRemove, HaltOK, Halted
<1>25. CASE TimerLoop
  BY <1>25, LogStutter DEF TimerLoop, HaltOK, Halted
<1>26. CASE TimerSpawn
  BY <1>26, LogStutter
  DEF TimerSpawn, HaltOK, Halted, TypeOK, TeardownType, teardown_session_async
<1>27. ASSUME NEW s \in Sid, GoQuiet(s)
     PROVE  HaltOK' /\ NoDataAfterEnd'
  BY <1>27, LogStutter DEF GoQuiet, HaltOK, Halted
<1>28. ASSUME NEW s \in Sid, WorkerTake(s)
     PROVE  HaltOK' /\ NoDataAfterEnd'
  BY <1>28, LogStutter DEF WorkerTake, HaltOK, Halted, TypeOK, WorkerType
<1>29. ASSUME NEW s \in Sid, WorkerSpawn(s)
     PROVE  HaltOK' /\ NoDataAfterEnd'
  BY <1>29, LogStutter
  DEF WorkerSpawn, HaltOK, Halted, TypeOK, WorkerType, TeardownType,
      teardown_session_async
<1>30. ASSUME NEW s \in Sid, TeardownHalt(s)
     PROVE  HaltOK' /\ NoDataAfterEnd'
  BY <1>30, LogStutter
  DEF TeardownHalt, HaltOK, Halted, TypeOK, TeardownType, PipelineType
<1>31. ASSUME NEW s \in Sid, StopEmit(s)
     PROVE  HaltOK' /\ NoDataAfterEnd'
  <2>1. Halted(s)
    BY <1>31 DEF StopEmit, HaltOK
  <2>2. NoDataAfterEnd' /\ \A t \in Sid : Ended(t)' => Ended(t) \/ t = s
    BY <1>31, EndedOnlyBy DEF StopEmit, TypeOK, Callback
  <2> QED BY <1>31, <2>1, <2>2 DEF StopEmit, HaltOK, Halted, TypeOK, AppType
<1>32. ASSUME NEW s \in Sid, TeardownEmit(s)
     PROVE  HaltOK' /\ NoDataAfterEnd'
  <2>1. Halted(s)
    BY <1>32 DEF TeardownEmit, HaltOK
  <2>2. NoDataAfterEnd' /\ \A t \in Sid : Ended(t)' => Ended(t) \/ t = s
    BY <1>32, EndedOnlyBy DEF TeardownEmit, TypeOK, Callback
  <2> QED BY <1>32, <2>1, <2>2 DEF TeardownEmit, HaltOK, Halted, TypeOK, TeardownType
<1>33. CASE DispatchAnnounce
  <2>1. NoDataAfterEnd' /\ \A t \in Sid : Ended(t)' => Ended(t)
    BY <1>33, PreludeNoEnd DEF DispatchAnnounce, TypeOK, ThreadsOK, IoOK
  <2> QED BY <1>33, <2>1 DEF DispatchAnnounce, HaltOK, Halted
<1>34. ASSUME NEW s \in Sid, WorkerPrelude(s)
     PROVE  HaltOK' /\ NoDataAfterEnd'
  <2>1. NoDataAfterEnd' /\ \A t \in Sid : Ended(t)' => Ended(t)
    BY <1>34, PreludeNoEnd DEF WorkerPrelude, TypeOK
  <2> QED BY <1>34, <2>1 DEF WorkerPrelude, HaltOK, Halted, TypeOK, WorkerType
<1>35. ASSUME NEW s \in Sid, EmitFrame(s)
     PROVE  HaltOK' /\ NoDataAfterEnd'
  <2>1. ~Halted(s) /\ ~Ended(s)
    BY <1>35 DEF EmitFrame, HaltOK, Halted
  <2>2. \A t \in Sid \ {s} : worker'[t] = worker[t]
    BY <1>35
    DEF EmitFrame, EmitData, SkipControl, NextFrame, handle_control_frame,
        TypeOK, WorkerType
  <2>3. NoDataAfterEnd' /\ \A t \in Sid : Ended(t)' => Ended(t)
    <3>1. CASE emit(s, "data")
      BY <3>1, <2>1, EndedOnlyBy DEF TypeOK, Callback
    <3>2. CASE UNCHANGED log
      BY <3>2, LogStutter
    <3> QED BY <3>1, <3>2, <1>35
      DEF EmitFrame, EmitData, SkipControl, handle_control_frame
  <2>4. \A t \in Sid : Halted(t) => Halted(t)'
    BY <1>35, <2>1, <2>2 DEF EmitFrame, Halted
  <2> QED BY <1>35, <2>3, <2>4 DEF EmitFrame, HaltOK, TypeOK, AppType
<1>36. CASE UNCHANGED vars
  BY <1>36, LogStutter DEF vars, HaltOK, Halted
<1> QED
  BY <1>1, <1>2, <1>3, <1>4, <1>5, <1>6, <1>7, <1>8, <1>9, <1>10, <1>11, <1>12,
     <1>13, <1>14, <1>15, <1>16, <1>17, <1>18, <1>19, <1>20, <1>21, <1>22,
     <1>23, <1>24, <1>25, <1>26, <1>27, <1>28, <1>29, <1>30, <1>31, <1>32,
     <1>33, <1>34, <1>35, <1>36
  DEF Next, AppStep, IoStep, TimerStep, WorkerStep, TeardownStep

-----------------------------------------------------------------------------
(* The initial state satisfies both inductive invariants.                    *)
LEMMA InitInv == Init => IndexInv /\ HaltInv
<1> SUFFICES ASSUME Init PROVE IndexInv /\ HaltInv
  OBVIOUS
<1> USE ConstantsOK DEF Init
<1>2. TableType /\ TeardownType /\ PipelineType
  BY DEF TableType, TeardownType, PipelineType
<1>3. PeerType
  BY DEF PeerType, PeerSession, NoPeer, Stage
<1>4. ConnectType
  BY DEF ConnectType, NoPending
<1>5. WorkerType
  BY DEF WorkerType, Idle
<1>6. IoType /\ TimerType /\ AppType
  BY DEF IoType, TimerType, AppType, IoPc, TimerPc, AppPc
<1>7. LogType
  BY DEF LogType
<1>1. running \in BOOLEAN /\ socket \in BOOLEAN /\ received \in 0..MaxPackets
  <2>1. 0 \in 0..MaxPackets
    BY ConstantsOK
  <2> QED BY <2>1
<1>8. TypeOK
  BY <1>1, <1>2, <1>3, <1>4, <1>5, <1>6, <1>7 DEF TypeOK
<1>9. ThreadsOK
  BY DEF ThreadsOK, IoOK, TimerOK, AppOK, PeersOK
<1>10. IndicesMatch
  BY DEF IndicesMatch
<1>11. HaltOK /\ NoDataAfterEnd
  <2>1. \A s \in Sid : DOMAIN log[s] = {}
    OBVIOUS
  <2> QED BY <2>1 DEF HaltOK, Ended, Fired, NoDataAfterEnd
<1> QED BY <1>8, <1>9, <1>10, <1>11 DEF IndexInv, HaltInv

(* Everything stays in its type, whatever the threads do (all of VeilNode).  *)
THEOREM TypeCorrect == Spec => []TypeOK
<1>1. IndexInv /\ [Next]_vars => IndexInv'
  BY TypeStep, IndexStep DEF IndexInv
<1>2. IndexInv => TypeOK
  BY DEF IndexInv
<1> QED BY InitInv, <1>1, <1>2, PTL DEF Spec

(* The endpoint and client indices answer exactly for the live sessions,     *)
(* for any number of sessions, endpoints, clients and datagrams              *)
(* (create_session, remove_session, stop()).                                 *)
THEOREM IndicesCorrect == Spec => []IndicesMatch
<1>1. IndexInv /\ [Next]_vars => IndexInv'
  BY TypeStep, IndexStep DEF IndexInv
<1>2. IndexInv => IndicesMatch
  BY DEF IndexInv
<1> QED BY InitInv, <1>1, <1>2, PTL DEF Spec

(* No data callback ever follows a disconnect callback of the same session,  *)
(* for any number of sessions and datagrams (teardown threads and stop()     *)
(* join the worker first).                                                   *)
THEOREM EndIsFinal == Spec => []NoDataAfterEnd
<1>1. IndexInv /\ [Next]_vars => IndexInv'
  BY TypeStep, IndexStep DEF IndexInv
<1>2. IndexInv /\ HaltInv /\ [Next]_vars => HaltInv'
  BY <1>1, HaltStep DEF IndexInv, HaltInv
<1>3. HaltInv => NoDataAfterEnd
  BY DEF HaltInv
<1> QED BY InitInv, <1>1, <1>2, <1>3, PTL DEF Spec

-----------------------------------------------------------------------------
(* What an id means before a handshake yielded it: nobody knows the session. *)
FreshOK ==
  /\ \A s \in Sid : pipeline[s] = "none" =>
        /\ \A c \in Callback : ~Fired(s, c)
        /\ teardown[s] = "none" /\ worker[s].pc = "idle" /\ ~Removed(s)
  /\ io.pc = "announce" => pipeline[io.sid] # "none"

(* A session is announced exactly when its flag says so, and not before the  *)
(* data phase.                                                               *)
AnnounceOK ==
  \A s \in Sid :
     /\ Fired(s, "new") <=> peer[s].ready_notified
     /\ Fired(s, "new") => peer[s].stage = "data"

(* A session is owned once: it is in the table, or one thread has taken it   *)
(* out and not handed it over yet, or it has its teardown thread.            *)
OwnedOnce ==
  \A s \in Sid :
     /\ s \in sessions => ~Removed(s)
     /\ s \in sessions \/ Removed(s) => teardown[s] = "none"
     /\ app.pc = "spawn" /\ app.sid = s =>
           ~(timer.pc = "spawn" /\ timer.sid = s) /\ worker[s].pc # "spawn"
     /\ timer.pc = "spawn" /\ timer.sid = s => worker[s].pc # "spawn"

(* The end of a session is still to be reported by whoever owns it: a        *)
(* teardown thread that is not through, or stop(), for the ids it copied     *)
(* before it cleared the table.                                              *)
EndsOK ==
  /\ \A s \in Sid : Fired(s, "disconnected") => teardown[s] = "done"
  /\ \A s \in sessions : ~Fired(s, "node stopped")
  /\ app.pc \in {"close", "join", "clear", "halt", "emit"} =>
        /\ app.todo \subseteq app.ids
        /\ \A s \in app.ids : pipeline[s] # "none"
  /\ app.pc \in {"close", "join", "clear", "halt"} =>
        \A s \in app.ids : ~Fired(s, "node stopped")
  /\ app.pc = "emit" => \A s \in app.todo : ~Fired(s, "node stopped")
  /\ app.pc \in {"halt", "emit"} => app.ids \cap sessions = {}

(* The inductive invariant behind CallbacksOnce and AnnouncedInDataPhase.    *)
ReportInv ==
  /\ TypeOK /\ ThreadsOK
  /\ FreshOK /\ AnnounceOK /\ OwnedOnce /\ EndsOK /\ CallbacksOnce

(* Without HTTP emulation every session is in its data phase from the start.  *)
StageOK == \A s \in Sid : peer[s].stage = "data"

(* stop() joins the I/O thread before it clears the table, and nobody         *)
(* restarts it but Start.                                                    *)
JoinedOK == ~running /\ app.pc \notin {"snapshot", "close", "join"} => io.pc = "exited"

(* A session in the table is announced, or the I/O thread is about to, and   *)
(* nothing is queued or handled for a session that is not announced yet.     *)
QueuedOK ==
  /\ \A s \in sessions : Fired(s, "new") \/ (io.pc = "announce" /\ io.sid = s)
  /\ \A s \in Sid :
        \/ rx[s] # <<>> \/ worker[s].pc = "on_rx"
        \/ io.pc = "submit" /\ io.sid = s
        => Fired(s, "new")

(* The inductive invariant behind NewBeforeData.                             *)
DataInv == ReportInv /\ StageOK /\ JoinedOK /\ QueuedOK /\ NewBeforeData

(* The pending attempt is one connect() has made, and nothing has resolved   *)
(* it; nor an attempt that is still to come.                                 *)
AttemptsOK ==
  /\ pending.attempt <= connects
  /\ pending.endpoint \in Endpoint <=> pending.attempt # 0
  /\ \A a \in 1..MaxConnects :
        a > connects \/ a = pending.attempt => outcome[a] = <<>>

OutcomeInv == TypeOK /\ ThreadsOK /\ AttemptsOK /\ OneOutcomePerConnect

(* What a step that fires no callback leaves as it was.                      *)
LEMMA Silent ==
  ASSUME UNCHANGED log
  PROVE  /\ \A t \in Sid, v \in Callback : Fired(t, v)' <=> Fired(t, v)
         /\ CallbacksOnce => CallbacksOnce'
         /\ NewBeforeData => NewBeforeData'
<1>1. log' = log
  OBVIOUS
<1> QED BY <1>1 DEF Fired, CallbacksOnce, NewBeforeData

(* The log of s after c has been fired on it, entry by entry.                *)
LEMMA EmitLog ==
  ASSUME LogType, NEW s \in Sid, NEW c \in Callback, emit(s, c)
  PROVE  /\ \A t \in Sid \ {s} : log'[t] = log[t]
         /\ DOMAIN log'[s] = 1..(Len(log[s]) + 1) /\ DOMAIN log[s] = 1..Len(log[s])
         /\ \A i \in 1..Len(log[s]) : log'[s][i] = log[s][i]
         /\ log'[s][Len(log[s]) + 1] = c
         /\ Len(log[s]) \in Nat
BY DEF emit, LogType

(* Firing c on s fires that callback and no other.                           *)
LEMMA FiredBy ==
  ASSUME LogType, NEW s \in Sid, NEW c \in Callback, emit(s, c)
  PROVE  \A t \in Sid, v \in Callback : Fired(t, v)' <=> Fired(t, v) \/ (t = s /\ v = c)
<1>1. ASSUME NEW t \in Sid \ {s}, NEW v \in Callback PROVE Fired(t, v)' <=> Fired(t, v)
  BY EmitLog DEF Fired
<1>2. ASSUME NEW v \in Callback PROVE Fired(s, v)' <=> Fired(s, v) \/ v = c
  BY EmitLog DEF Fired
<1> QED BY <1>1, <1>2

(* A callback that has not been fired before, or may be repeated, keeps      *)
(* CallbacksOnce.                                                            *)
LEMMA OnceBy ==
  ASSUME LogType, NEW s \in Sid, NEW c \in Callback, emit(s, c),
         CallbacksOnce, c = "data" \/ ~Fired(s, c)
  PROVE  CallbacksOnce'
<1> SUFFICES ASSUME NEW t \in Sid, NEW i \in DOMAIN log'[t], NEW j \in DOMAIN log'[t],
                    log'[t][i] = log'[t][j], log'[t][i] # "data"
             PROVE  i = j
  BY DEF CallbacksOnce
<1>1. CASE t # s
  BY <1>1, EmitLog DEF CallbacksOnce
<1>2. CASE t = s
  <2>1. \A k \in DOMAIN log'[s] :
           (k \in DOMAIN log[s] /\ log'[s][k] = log[s][k]) \/ k = Len(log[s]) + 1
    BY EmitLog
  <2>2. CASE i \in DOMAIN log[s] /\ j \in DOMAIN log[s]
    BY <1>2, <2>2, EmitLog DEF CallbacksOnce
  <2>3. CASE i = Len(log[s]) + 1 /\ j = Len(log[s]) + 1
    BY <2>3
  <2>4. c = "data" \/ \A k \in DOMAIN log[s] : log[s][k] # c
    BY DEF Fired
  <2>5. \A k \in DOMAIN log[s] : log'[s][k] = log[s][k]
    BY EmitLog
  <2> QED BY <1>2, <2>1, <2>2, <2>3, <2>4, <2>5, EmitLog
<1> QED BY <1>1, <1>2

(* A data callback on an announced session, and any other callback, keeps    *)
(* NewBeforeData.                                                            *)
LEMMA NewBeforeBy ==
  ASSUME LogType, NEW s \in Sid, NEW c \in Callback, emit(s, c),
         NewBeforeData, c = "data" => Fired(s, "new")
  PROVE  NewBeforeData'
<1> SUFFICES ASSUME NEW t \in Sid, NEW j \in DOMAIN log'[t], log'[t][j] = "data"
             PROVE  \E i \in 1..j : log'[t][i] = "new"
  BY DEF NewBeforeData
<1>1. CASE t # s
  BY <1>1, EmitLog DEF NewBeforeData
<1>2. CASE t = s /\ j \in 1..Len(log[s])
  <2>1. PICK i \in 1..j : log[s][i] = "new"
    BY <1>2, EmitLog DEF NewBeforeData
  <2>2. i \in 1..Len(log[s])
    BY <1>2, <2>1, EmitLog
  <2> QED BY <1>2, <2>1, <2>2, EmitLog
<1>3. CASE t = s /\ j = Len(log[s]) + 1
  <2>1. PICK i \in 1..Len(log[s]) : log[s][i] = "new"
    BY <1>3, EmitLog DEF Fired
  <2>2. i \in 1..j
    BY <1>3, <2>1, EmitLog
  <2> QED BY <1>3, <2>1, <2>2, EmitLog
<1> QED BY <1>1, <1>2, <1>3, EmitLog

(* Driving the prelude fires "new" at most, once, in the data phase, and the *)
(* flag tells whether it has been fired (maybe_emit_ready's exchange).       *)
LEMMA PreludeAnnounces ==
  ASSUME TypeOK, AnnounceOK, CallbacksOnce, NEW s \in Sid, NEW p \in PeerSession,
         p.ready_notified = peer[s].ready_notified,
         peer[s].ready_notified => p.stage = "data",
         maybe_drive_http_prelude(s, p)
  PROVE  /\ AnnounceOK' /\ CallbacksOnce'
         /\ \A t \in Sid, v \in Callback :
               /\ Fired(t, v) => Fired(t, v)'
               /\ Fired(t, v)' => Fired(t, v) \/ (t = s /\ v = "new")
         /\ p.stage = "data" => Fired(s, "new")'
<1> USE DEF TypeOK
<1>0. "new" \in Callback
  BY DEF Callback
<1>1. ASSUME NEW q \in PeerSession, maybe_emit_ready(s, q), q.stage = "data",
             q.ready_notified = peer[s].ready_notified
      PROVE  /\ AnnounceOK' /\ CallbacksOnce'
             /\ \A t \in Sid, v \in Callback :
                   /\ Fired(t, v) => Fired(t, v)'
                   /\ Fired(t, v)' => Fired(t, v) \/ (t = s /\ v = "new")
             /\ Fired(s, "new")'
  <2>1. /\ peer'[s].ready_notified = TRUE /\ peer'[s].stage = "data"
        /\ \A t \in Sid \ {s} : peer'[t] = peer[t]
    BY <1>1 DEF maybe_emit_ready, PeerType, PeerSession
  <2>2. CASE q.ready_notified
    <3>1. UNCHANGED log
      BY <1>1, <2>2 DEF maybe_emit_ready
    <3> QED BY <1>1, <1>0, <2>1, <2>2, <3>1, Silent DEF AnnounceOK
  <2>3. CASE ~q.ready_notified
    <3>1. emit(s, "new")
      BY <1>1, <2>3 DEF maybe_emit_ready
    <3>2. ~Fired(s, "new")
      BY <1>1, <2>3 DEF AnnounceOK
    <3>3. CallbacksOnce'
      BY <1>0, <3>1, <3>2, OnceBy
    <3>4. \A t \in Sid, v \in Callback :
             Fired(t, v)' <=> Fired(t, v) \/ (t = s /\ v = "new")
      BY <1>0, <3>1, FiredBy
    <3> QED BY <1>0, <2>1, <3>3, <3>4 DEF AnnounceOK
  <2> QED BY <2>2, <2>3
<1>2. ASSUME NEW q \in PeerSession, peer' = [peer EXCEPT ![s] = q], UNCHANGED log,
             q.ready_notified = peer[s].ready_notified, p.stage # "data"
      PROVE  /\ AnnounceOK' /\ CallbacksOnce'
             /\ \A t \in Sid, v \in Callback : Fired(t, v)' <=> Fired(t, v)
  <2>1. peer'[s] = q /\ \A t \in Sid \ {s} : peer'[t] = peer[t]
    BY <1>2 DEF PeerType
  <2> QED BY <1>2, <1>0, <2>1, Silent DEF AnnounceOK
<1>3. \A st \in Stage :
        /\ [p EXCEPT !.stage = st] \in PeerSession
        /\ [p EXCEPT !.stage = st].ready_notified = p.ready_notified
        /\ [p EXCEPT !.stage = st, !.idle = FALSE] \in PeerSession
        /\ [p EXCEPT !.stage = st, !.idle = FALSE].ready_notified = p.ready_notified
        /\ [p EXCEPT !.stage = st, !.idle = FALSE].stage = st
  BY DEF PeerSession
<1>4. p.stage \in Stage /\ "in_progress" \in Stage /\ "data" \in Stage
  BY DEF PeerSession, Stage
<1>5. CASE p.stage = "data"
  <2>1. maybe_emit_ready(s, p)
    BY <1>5 DEF maybe_drive_http_prelude
  <2> QED BY <1>1, <1>5, <2>1
<1>6. CASE p.stage # "data"
  BY <1>1, <1>2, <1>3, <1>4, <1>6 DEF maybe_drive_http_prelude
<1> QED BY <1>5, <1>6

(* Each part of the invariant depends on a few variables only.               *)
LEMMA ReportsKept ==
  /\ FreshOK /\ UNCHANGED <<log, pipeline, teardown, worker, app, timer, io>> => FreshOK'
  /\ AnnounceOK /\ UNCHANGED <<log, peer>> => AnnounceOK'
  /\ OwnedOnce /\ UNCHANGED <<sessions, teardown, worker, app, timer>> => OwnedOnce'
  /\ EndsOK /\ UNCHANGED <<log, sessions, teardown, app, pipeline>> => EndsOK'
  /\ CallbacksOnce /\ UNCHANGED log => CallbacksOnce'
<1>0. "new" \in Callback /\ "disconnected" \in Callback /\ "node stopped" \in Callback
  BY DEF Callback
<1>1. FreshOK /\ UNCHANGED <<log, pipeline, teardown, worker, app, timer, io>> => FreshOK'
  BY Silent DEF FreshOK, Removed
<1>2. AnnounceOK /\ UNCHANGED <<log, peer>> => AnnounceOK'
  BY <1>0, Silent DEF AnnounceOK
<1>3. OwnedOnce /\ UNCHANGED <<sessions, teardown, worker, app, timer>> => OwnedOnce'
  BY DEF OwnedOnce, Removed
<1>4. EndsOK /\ UNCHANGED <<log, sessions, teardown, app, pipeline>> => EndsOK'
  <2>1. UNCHANGED log => \A s, c : Fired(s, c)' <=> Fired(s, c)
    BY DEF Fired
  <2> QED BY <2>1 DEF EndsOK
<1> QED BY <1>1, <1>2, <1>3, <1>4, Silent

(* Every step keeps the ownership of sessions and their reports.             *)
LEMMA ReportStep ==
  ASSUME ReportInv, [Next]_vars
  PROVE  FreshOK' /\ AnnounceOK' /\ OwnedOnce' /\ EndsOK' /\ CallbacksOnce'
<1> DEFINE Goal == FreshOK' /\ AnnounceOK' /\ OwnedOnce' /\ EndsOK' /\ CallbacksOnce'
<1> USE DEF ReportInv, TypeOK, ThreadsOK, table, connect, workers
<1>0. \A c \in {"new", "data", "disconnected", "node stopped"} : c \in Callback
  BY DEF Callback
<1>1. CASE Start
  <2>1. FreshOK'
    BY <1>0, <1>1, Silent DEF Start, FreshOK, Removed, IoType, TimerType
  <2>2. OwnedOnce'
    BY <1>0, <1>1, Silent DEF Start, OwnedOnce, Removed, TimerType
  <2> QED BY <1>1, <2>1, <2>2, ReportsKept DEF Start
<1>2. ASSUME NEW e \in Endpoint, Connect(e)
     PROVE  Goal
  BY <1>2, ReportsKept DEF Connect
<1>3. ASSUME NEW s \in Sid, Send(s)
     PROVE  Goal
  <2>1. AnnounceOK'
    BY <1>0, <1>3, Silent DEF Send, AnnounceOK, PeerType, PeerSession
  <2> QED BY <1>3, <2>1, ReportsKept DEF Send
<1>4. ASSUME NEW s \in Sid, Disconnect(s)
     PROVE  Goal
  <2>1. FreshOK'
    BY <1>0, <1>4, Silent DEF Disconnect, FreshOK, Removed, AppType
  <2>2. OwnedOnce'
    BY <1>0, <1>4, Silent DEF Disconnect, OwnedOnce, Removed, AppType
  <2>3. EndsOK'
    BY <1>0, <1>4, Silent DEF Disconnect, EndsOK, AppType, TableType
  <2> QED BY <1>4, <2>1, <2>2, <2>3, ReportsKept DEF Disconnect
<1>5. CASE DisconnectRemove
  <2>1. \/ /\ app.sid \in sessions /\ app.sid \in Sid /\ pipeline[app.sid] # "none"
           /\ sessions' = sessions \ {app.sid} /\ app'.pc = "spawn" /\ app'.sid = app.sid
        \/ app'.pc = "idle" /\ sessions' = sessions
    BY <1>5
    DEF DisconnectRemove, remove_session, remove_nothing, AppType, AppOK, PeersOK
  <2>2. FreshOK'
    BY <1>5, <2>1, Silent DEF DisconnectRemove, FreshOK, Removed
  <2>3. OwnedOnce'
    BY <1>5, <2>1 DEF DisconnectRemove, OwnedOnce, Removed
  <2>4. EndsOK'
    BY <1>0, <1>5, <2>1, Silent DEF DisconnectRemove, EndsOK, TableType
  <2> QED BY <1>5, <2>2, <2>3, <2>4, ReportsKept DEF DisconnectRemove
<1>6. CASE DisconnectSpawn
  <2>1. FreshOK'
    BY <1>0, <1>6, Silent
    DEF DisconnectSpawn, FreshOK, Removed, AppType, AppOK, TeardownType,
        teardown_session_async
  <2>2. OwnedOnce'
    BY <1>0, <1>6, Silent
    DEF DisconnectSpawn, OwnedOnce, Removed, TableType, AppType, AppOK, TeardownType,
        teardown_session_async
  <2>3. EndsOK'
    BY <1>0, <1>6, Silent
    DEF DisconnectSpawn, EndsOK, AppType, TableType, AppOK, TeardownType,
        teardown_session_async, OwnedOnce, Removed
  <2> QED BY <1>6, <2>1, <2>2, <2>3, ReportsKept DEF DisconnectSpawn
<1>7. CASE StopBegin
  <2>1. FreshOK'
    BY <1>0, <1>7, Silent DEF StopBegin, FreshOK, Removed, AppType
  <2>2. OwnedOnce'
    BY <1>0, <1>7, Silent DEF StopBegin, OwnedOnce, Removed, AppType
  <2>3. EndsOK'
    BY <1>0, <1>7, Silent DEF StopBegin, EndsOK, AppType, TableType
  <2> QED BY <1>7, <2>1, <2>2, <2>3, ReportsKept DEF StopBegin
<1>8. CASE StopSnapshot
  <2>1. FreshOK'
    BY <1>0, <1>8, Silent DEF StopSnapshot, FreshOK, Removed, AppType
  <2>2. OwnedOnce'
    BY <1>0, <1>8, Silent DEF StopSnapshot, OwnedOnce, Removed, AppType
  <2>3. EndsOK'
    BY <1>0, <1>8, Silent DEF StopSnapshot, EndsOK, AppType, TableType, PeersOK
  <2> QED BY <1>8, <2>1, <2>2, <2>3, ReportsKept DEF StopSnapshot
<1>9. CASE StopClose
  <2>1. FreshOK'
    BY <1>0, <1>9, Silent DEF StopClose, FreshOK, Removed, AppType
  <2>2. OwnedOnce'
    BY <1>0, <1>9, Silent DEF StopClose, OwnedOnce, Removed, AppType
  <2>3. EndsOK'
    BY <1>0, <1>9, Silent DEF StopClose, EndsOK, AppType, TableType
  <2> QED BY <1>9, <2>1, <2>2, <2>3, ReportsKept DEF StopClose
<1>10. CASE StopJoin
  <2>1. FreshOK'
    BY <1>0, <1>10, Silent DEF StopJoin, FreshOK, Removed, AppType
  <2>2. OwnedOnce'
    BY <1>0, <1>10, Silent DEF StopJoin, OwnedOnce, Removed, AppType
  <2>3. EndsOK'
    BY <1>0, <1>10, Silent DEF StopJoin, EndsOK, AppType, TableType
  <2> QED BY <1>10, <2>1, <2>2, <2>3, ReportsKept DEF StopJoin
<1>11. CASE StopClear
  <2>1. FreshOK'
    BY <1>0, <1>11, Silent DEF StopClear, FreshOK, Removed, AppType, IoOK
  <2>2. OwnedOnce'
    BY <1>0, <1>11, Silent DEF StopClear, OwnedOnce, Removed, AppType
  <2>3. EndsOK'
    BY <1>0, <1>11, Silent DEF StopClear, EndsOK, AppType
  <2> QED BY <1>11, <2>1, <2>2, <2>3, ReportsKept DEF StopClear
<1>12. ASSUME NEW s \in Sid, StopPipeline(s)
     PROVE  Goal
  <2>1. FreshOK'
    BY <1>0, <1>12, Silent
    DEF StopPipeline, FreshOK, Removed, AppType, PipelineType, IoOK
  <2>2. OwnedOnce'
    BY <1>0, <1>12, Silent DEF StopPipeline, OwnedOnce, Removed, AppType
  <2>3. EndsOK'
    BY <1>0, <1>12, Silent DEF StopPipeline, EndsOK, AppType, TableType, PipelineType
  <2> QED BY <1>12, <2>1, <2>2, <2>3, ReportsKept DEF StopPipeline
<1>13. CASE StopPipelinesDone
  <2>1. FreshOK'
    BY <1>0, <1>13, Silent DEF StopPipelinesDone, FreshOK, Removed, AppType
  <2>2. OwnedOnce'
    BY <1>0, <1>13, Silent DEF StopPipelinesDone, OwnedOnce, Removed, AppType
  <2>3. EndsOK'
    BY <1>0, <1>13, Silent DEF StopPipelinesDone, EndsOK, AppType, TableType
  <2> QED BY <1>13, <2>1, <2>2, <2>3, ReportsKept DEF StopPipelinesDone
<1>14. CASE StopEmitDone
  <2>1. FreshOK'
    BY <1>0, <1>14, Silent DEF StopEmitDone, FreshOK, Removed, AppType
  <2>2. OwnedOnce'
    BY <1>0, <1>14, Silent DEF StopEmitDone, OwnedOnce, Removed, AppType
  <2>3. EndsOK'
    BY <1>0, <1>14, Silent DEF StopEmitDone, EndsOK, AppType, TableType
  <2> QED BY <1>14, <2>1, <2>2, <2>3, ReportsKept DEF StopEmitDone
<1>15. CASE join_teardown_threads
  <2>1. FreshOK'
    BY <1>0, <1>15, Silent DEF join_teardown_threads, FreshOK, Removed, AppType
  <2>2. OwnedOnce'
    BY <1>0, <1>15, Silent DEF join_teardown_threads, OwnedOnce, Removed, AppType
  <2>3. EndsOK'
    BY <1>0, <1>15, Silent DEF join_teardown_threads, EndsOK, AppType, TableType
  <2> QED BY <1>15, <2>1, <2>2, <2>3, ReportsKept DEF join_teardown_threads
<1>16. CASE IoExit
  <2>1. FreshOK'
    BY <1>0, <1>16, Silent DEF IoExit, FreshOK, Removed, IoType
  <2> QED BY <1>16, <2>1, ReportsKept DEF IoExit
<1>17. ASSUME NEW e \in Endpoint, NEW p \in Packets, DispatchLookup(e, p)
     PROVE  Goal
  <2>1. FreshOK'
    BY <1>0, <1>17, Silent DEF DispatchLookup, FreshOK, Removed
  <2> QED BY <1>17, <2>1, ReportsKept DEF DispatchLookup
<1>18. CASE DispatchSubmit
  <2>1. FreshOK'
    BY <1>0, <1>18, Silent DEF DispatchSubmit, FreshOK, Removed, IoType, IoDone
  <2>2. AnnounceOK'
    BY <1>0, <1>18, Silent
    DEF DispatchSubmit, AnnounceOK, IoType, IoDone, PeerType, PeerSession
  <2> QED BY <1>18, <2>1, <2>2, ReportsKept DEF DispatchSubmit
<1>19. CASE DispatchHandshakeServer
  <2>1. FreshOK'
    BY <1>0, <1>19, Silent DEF DispatchHandshakeServer, FreshOK, Removed, IoType, IoDone
  <2> QED BY <1>19, <2>1, ReportsKept DEF DispatchHandshakeServer
<1>20. CASE DispatchHandshakeClient
  <2>1. FreshOK'
    BY <1>0, <1>20, Silent DEF DispatchHandshakeClient, FreshOK, Removed, IoType, IoDone
  <2> QED BY <1>20, <2>1, ReportsKept DEF DispatchHandshakeClient
<1>21. ASSUME NEW s \in Sid, NEW c \in ClientId \cup {NoClient}, DispatchCreate(s, c)
     PROVE  Goal
  <2>1. /\ s \in Sid /\ pipeline[s] = "none" /\ sessions' = sessions \cup {s}
        /\ \A t \in Sid \ {s} : pipeline'[t] = pipeline[t] /\ peer'[t] = peer[t]
        /\ pipeline'[s] = "running" /\ peer'[s].ready_notified = FALSE
        /\ io'.pc = "announce" /\ io'.sid = s
    BY <1>21 DEF DispatchCreate, FreshSid, create_session, PeerType, PipelineType
  <2>2. /\ \A v \in Callback : ~Fired(s, v)
        /\ teardown[s] = "none" /\ ~Removed(s)
    BY <2>1 DEF FreshOK
  <2>3. FreshOK'
    BY <1>21, <2>1, Silent DEF DispatchCreate, FreshOK, Removed
  <2>4. AnnounceOK'
    BY <1>0, <1>21, <2>1, <2>2, Silent DEF DispatchCreate, AnnounceOK
  <2>5. OwnedOnce'
    BY <1>21, <2>1, <2>2 DEF DispatchCreate, OwnedOnce, Removed
  <2>6. EndsOK'
    <3>1. \A t \in Sid : Fired(t, "disconnected")' => teardown'[t] = "done"
      BY <1>0, <1>21, Silent DEF DispatchCreate, EndsOK
    <3>2. \A t \in sessions' : ~Fired(t, "node stopped")'
      BY <1>0, <1>21, <2>1, <2>2, Silent DEF DispatchCreate, EndsOK, TableType
    <3>3. app.pc \in {"close", "join", "clear", "halt", "emit"} => s \notin app.ids
      BY <2>1 DEF EndsOK
    <3> QED BY <1>0, <1>21, <2>1, <3>1, <3>2, <3>3, Silent
        DEF DispatchCreate, EndsOK, AppType
  <2> QED BY <1>21, <2>3, <2>4, <2>5, <2>6, ReportsKept DEF DispatchCreate
<1>22. ASSUME NEW b \in BOOLEAN, TimerTurn(b)
     PROVE  Goal
  <2>1. FreshOK'
    BY <1>0, <1>22, Silent DEF TimerTurn, FreshOK, Removed, TimerType
  <2>2. OwnedOnce'
    BY <1>0, <1>22, Silent DEF TimerTurn, OwnedOnce, Removed, TimerType
  <2> QED BY <1>22, <2>1, <2>2, ReportsKept DEF TimerTurn
<1>23. ASSUME NEW s \in Sid, TimerCheck(s)
     PROVE  Goal
  <2>1. FreshOK'
    BY <1>0, <1>23, Silent DEF TimerCheck, FreshOK, Removed, TimerType
  <2>2. OwnedOnce'
    BY <1>0, <1>23, Silent DEF TimerCheck, OwnedOnce, Removed, TimerType
  <2> QED BY <1>23, <2>1, <2>2, ReportsKept DEF TimerCheck
<1>24. CASE TimerRemove
  <2>1. \/ /\ timer.sid \in sessions /\ timer.sid \in Sid /\ pipeline[timer.sid] # "none"
           /\ sessions' = sessions \ {timer.sid}
           /\ timer'.pc = "spawn" /\ timer'.sid = timer.sid
        \/ timer'.pc = "scan" /\ sessions' = sessions
    BY <1>24
    DEF TimerRemove, remove_session, remove_nothing, TimerType, TimerOK, PeersOK
  <2>2. FreshOK'
    BY <1>24, <2>1, Silent DEF TimerRemove, FreshOK, Removed
  <2>3. OwnedOnce'
    BY <1>24, <2>1 DEF TimerRemove, OwnedOnce, Removed
  <2>4. EndsOK'
    BY <1>0, <1>24, <2>1, Silent DEF TimerRemove, EndsOK, TableType, AppType
  <2> QED BY <1>24, <2>2, <2>3, <2>4, ReportsKept DEF TimerRemove
<1>25. CASE TimerSpawn
  <2>1. FreshOK'
    BY <1>0, <1>25, Silent
    DEF TimerSpawn, FreshOK, Removed, TimerType, TimerOK, TeardownType,
        teardown_session_async
  <2>2. OwnedOnce'
    BY <1>0, <1>25, Silent
    DEF TimerSpawn, OwnedOnce, Removed, TableType, TimerType, TimerOK, TeardownType,
        teardown_session_async
  <2>3. EndsOK'
    BY <1>0, <1>25, Silent
    DEF TimerSpawn, EndsOK, AppType, TableType, TimerType, TimerOK, TeardownType,
        teardown_session_async, OwnedOnce, Removed
  <2> QED BY <1>25, <2>1, <2>2, <2>3, ReportsKept DEF TimerSpawn
<1>26. CASE TimerLoop
  <2>1. FreshOK'
    BY <1>0, <1>26, Silent DEF TimerLoop, FreshOK, Removed, TimerType
  <2>2. OwnedOnce'
    BY <1>0, <1>26, Silent DEF TimerLoop, OwnedOnce, Removed, TimerType
  <2> QED BY <1>26, <2>1, <2>2, ReportsKept DEF TimerLoop
<1>27. ASSUME NEW s \in Sid, GoQuiet(s)
     PROVE  Goal
  <2>1. AnnounceOK'
    BY <1>0, <1>27, Silent DEF GoQuiet, AnnounceOK, PeerType, PeerSession
  <2> QED BY <1>27, <2>1, ReportsKept DEF GoQuiet
<1>28. ASSUME NEW s \in Sid, WorkerTake(s)
     PROVE  Goal
  <2>1. FreshOK'
    BY <1>0, <1>28, Silent DEF WorkerTake, FreshOK, Removed, WorkerType
  <2>2. OwnedOnce'
    BY <1>0, <1>28, Silent DEF WorkerTake, OwnedOnce, Removed, WorkerType
  <2> QED BY <1>28, <2>1, <2>2, ReportsKept DEF WorkerTake
<1>29. ASSUME NEW s \in Sid, WorkerSpawn(s)
     PROVE  Goal
  <2>1. FreshOK'
    BY <1>0, <1>29, Silent
    DEF WorkerSpawn, FreshOK, Removed, WorkerType, Idle, TeardownType,
        teardown_session_async
  <2>2. OwnedOnce'
    BY <1>0, <1>29, Silent
    DEF WorkerSpawn, OwnedOnce, Removed, TableType, WorkerType, Idle, TeardownType,
        teardown_session_async
  <2>3. EndsOK'
    BY <1>0, <1>29, Silent
    DEF WorkerSpawn, EndsOK, AppType, TableType, WorkerType, Idle, TeardownType,
        teardown_session_async, OwnedOnce, Removed
  <2> QED BY <1>29, <2>1, <2>2, <2>3, ReportsKept DEF WorkerSpawn
<1>30. ASSUME NEW s \in Sid, TeardownHalt(s)
     PROVE  Goal
  <2>1. FreshOK'
    BY <1>0, <1>30, Silent
    DEF TeardownHalt, FreshOK, Removed, PipelineType, TeardownType, IoOK
  <2>2. OwnedOnce'
    BY <1>0, <1>30, Silent DEF TeardownHalt, OwnedOnce, Removed, TeardownType
  <2>3. EndsOK'
    BY <1>0, <1>30, Silent
    DEF TeardownHalt, EndsOK, AppType, TableType, PipelineType, TeardownType
  <2> QED BY <1>30, <2>1, <2>2, <2>3, ReportsKept DEF TeardownHalt
<1>31. ASSUME NEW s \in Sid, StopEmit(s)
     PROVE  Goal
  <2>1. emit(s, "node stopped") /\ ~Fired(s, "node stopped")
    BY <1>31 DEF StopEmit, EndsOK
  <2>2. pipeline[s] # "none" /\ s \notin sessions
    BY <1>31 DEF StopEmit, EndsOK
  <2>3. CallbacksOnce'
    BY <1>0, <2>1, OnceBy
  <2>4. \A t \in Sid, v \in Callback :
           Fired(t, v)' <=> Fired(t, v) \/ (t = s /\ v = "node stopped")
    BY <1>0, <2>1, FiredBy
  <2>5. FreshOK'
    BY <1>31, <2>2, <2>4 DEF StopEmit, FreshOK, Removed, AppType
  <2>6. AnnounceOK'
    BY <1>0, <1>31, <2>4 DEF StopEmit, AnnounceOK
  <2>7. OwnedOnce'
    BY <1>31 DEF StopEmit, OwnedOnce, Removed, AppType
  <2>8. EndsOK'
    BY <1>0, <1>31, <2>2, <2>4 DEF StopEmit, EndsOK, AppType, TableType
  <2> QED BY <2>3, <2>5, <2>6, <2>7, <2>8
<1>32. ASSUME NEW s \in Sid, TeardownEmit(s)
     PROVE  Goal
  <2>1. emit(s, "disconnected") /\ ~Fired(s, "disconnected") /\ pipeline[s] # "none"
    BY <1>32 DEF TeardownEmit, EndsOK, FreshOK
  <2>2. CallbacksOnce'
    BY <1>0, <2>1, OnceBy
  <2>3. \A t \in Sid, v \in Callback :
           Fired(t, v)' <=> Fired(t, v) \/ (t = s /\ v = "disconnected")
    BY <1>0, <2>1, FiredBy
  <2>4. FreshOK'
    BY <1>32, <2>1, <2>3 DEF TeardownEmit, FreshOK, Removed
  <2>5. AnnounceOK'
    BY <1>0, <1>32, <2>3 DEF TeardownEmit, AnnounceOK
  <2>6. OwnedOnce'
    BY <1>32 DEF TeardownEmit, OwnedOnce, Removed
  <2>7. EndsOK'
    BY <1>0, <1>32, <2>3 DEF TeardownEmit, EndsOK, AppType, TableType, TeardownType
  <2> QED BY <2>2, <2>4, <2>5, <2>6, <2>7
<1>33. CASE DispatchAnnounce
  <2>1. io.sid \in Sid /\ peer[io.sid] \in PeerSession /\ pipeline[io.sid] # "none"
    BY <1>33 DEF DispatchAnnounce, IoOK, PeerType, FreshOK
  <2>2. /\ AnnounceOK' /\ CallbacksOnce'
        /\ \A t \in Sid, v \in Callback :
              /\ Fired(t, v) => Fired(t, v)'
              /\ Fired(t, v)' => Fired(t, v) \/ (t = io.sid /\ v = "new")
    BY <1>0, <1>33, <2>1, PreludeAnnounces DEF DispatchAnnounce, AnnounceOK
  <2>3. FreshOK'
    BY <1>33, <2>1, <2>2 DEF DispatchAnnounce, IoDone, FreshOK, Removed
  <2>4. OwnedOnce'
    BY <1>33, ReportsKept DEF DispatchAnnounce
  <2>5. EndsOK'
    BY <1>0, <1>33, <2>2 DEF DispatchAnnounce, EndsOK, AppType, TableType
  <2> QED BY <2>2, <2>3, <2>4, <2>5
<1>34. ASSUME NEW s \in Sid, WorkerPrelude(s)
     PROVE  Goal
  <2>1. pipeline[s] # "none"
    BY <1>34 DEF WorkerPrelude, FreshOK
  <2>2. PICK st \in Stage :
           /\ maybe_drive_http_prelude(s, [peer[s] EXCEPT !.stage = st])
           /\ peer[s].stage = "data" => st = "data"
    BY <1>34 DEF WorkerPrelude, PeerType, PeerSession, Stage
  <2> DEFINE p == [peer[s] EXCEPT !.stage = st]
  <2>3. p \in PeerSession /\ p.ready_notified = peer[s].ready_notified /\ p.stage = st
    BY DEF PeerType, PeerSession
  <2>4. peer[s].ready_notified => p.stage = "data"
    BY <2>2, <2>3 DEF AnnounceOK
  <2>5. maybe_drive_http_prelude(s, p)
    BY <2>2
  <2> HIDE DEF p
  <2>6. /\ AnnounceOK' /\ CallbacksOnce'
        /\ \A t \in Sid, v \in Callback :
              /\ Fired(t, v) => Fired(t, v)'
              /\ Fired(t, v)' => Fired(t, v) \/ (t = s /\ v = "new")
    BY <2>3, <2>4, <2>5, PreludeAnnounces
  <2>7. FreshOK'
    BY <1>34, <2>1, <2>6 DEF WorkerPrelude, Idle, FreshOK, Removed
  <2>8. OwnedOnce'
    BY <1>34 DEF WorkerPrelude, Idle, OwnedOnce, Removed
  <2>9. EndsOK'
    BY <1>0, <1>34, <2>6 DEF WorkerPrelude, EndsOK, AppType, TableType
  <2> QED BY <2>6, <2>7, <2>8, <2>9
<1>35. ASSUME NEW s \in Sid, EmitFrame(s)
     PROVE  Goal
  <2>1. pipeline[s] # "none" /\ worker[s].pc = "on_rx"
    BY <1>35 DEF EmitFrame, FreshOK
  <2>2. \A t \in Sid \ {s} : worker'[t] = worker[t]
    BY <1>35
    DEF EmitFrame, EmitData, SkipControl, NextFrame, handle_control_frame, WorkerType
  <2>3. \/ /\ s \in sessions /\ sessions' = sessions \ {s} /\ worker'[s].pc = "spawn"
        \/ sessions' = sessions /\ worker'[s].pc # "spawn"
    BY <1>35
    DEF EmitFrame, EmitData, SkipControl, NextFrame, handle_control_frame, Idle,
        remove_session, remove_nothing, WorkerType
  <2>4. CallbacksOnce' /\ \A t \in Sid, v \in Callback :
           /\ Fired(t, v) => Fired(t, v)'
           /\ Fired(t, v)' => Fired(t, v) \/ (t = s /\ v = "data")
    <3>1. CASE emit(s, "data")
      BY <1>0, <3>1, OnceBy, FiredBy
    <3>2. CASE UNCHANGED log
      BY <3>2, Silent
    <3> QED BY <3>1, <3>2, <1>35
        DEF EmitFrame, EmitData, SkipControl, handle_control_frame
  <2>5. FreshOK'
    BY <1>35, <2>1, <2>2, <2>4 DEF EmitFrame, FreshOK, Removed
  <2>6. AnnounceOK'
    BY <1>0, <1>35, <2>4 DEF EmitFrame, AnnounceOK
  <2>7. OwnedOnce'
    BY <1>35, <2>2, <2>3 DEF EmitFrame, OwnedOnce, Removed
  <2>8. EndsOK'
    BY <1>0, <1>35, <2>3, <2>4 DEF EmitFrame, EndsOK, AppType, TableType
  <2> QED BY <2>4, <2>5, <2>6, <2>7, <2>8
<1>36. CASE UNCHANGED vars
  BY <1>36, ReportsKept DEF vars
<1> QED
  BY <1>1, <1>2, <1>3, <1>4, <1>5, <1>6, <1>7, <1>8, <1>9, <1>10, <1>11, <1>12,
     <1>13, <1>14, <1>15, <1>16, <1>17, <1>18, <1>19, <1>20, <1>21, <1>22,
     <1>23, <1>24, <1>25, <1>26, <1>27, <1>28, <1>29, <1>30, <1>31, <1>32,
     <1>33, <1>34, <1>35, <1>36
  DEF Next, AppStep, IoStep, TimerStep, WorkerStep, TeardownStep

(* Each part of the invariant depends on a few variables only.               *)
LEMMA DataKept ==
  /\ StageOK /\ UNCHANGED peer => StageOK'
  /\ JoinedOK /\ UNCHANGED <<running, app, io>> => JoinedOK'
  /\ QueuedOK /\ UNCHANGED <<log, sessions, io, rx, worker>> => QueuedOK'
<1>1. StageOK /\ UNCHANGED peer => StageOK'
  BY DEF StageOK
<1>2. JoinedOK /\ UNCHANGED <<running, app, io>> => JoinedOK'
  BY DEF JoinedOK
<1>3. QueuedOK /\ UNCHANGED <<log, sessions, io, rx, worker>> => QueuedOK'
  <2>1. UNCHANGED log => \A s, c : Fired(s, c)' <=> Fired(s, c)
    BY DEF Fired
  <2> QED BY <2>1 DEF QueuedOK
<1> QED BY <1>1, <1>2, <1>3

(* Without HTTP emulation, every step keeps the sessions announced before    *)
(* anything is queued for them.                                              *)
LEMMA DataStep ==
  ASSUME ~HttpPrelude, DataInv, [Next]_vars
  PROVE  StageOK' /\ JoinedOK' /\ QueuedOK' /\ NewBeforeData'
<1> DEFINE Goal == StageOK' /\ JoinedOK' /\ QueuedOK' /\ NewBeforeData'
<1> USE DEF DataInv, ReportInv, TypeOK, ThreadsOK, table, connect, workers
<1>0. \A c \in {"new", "data", "disconnected", "node stopped"} : c \in Callback
  BY DEF Callback
<1>1. CASE Start
  <2>1. JoinedOK'
    BY <1>0, <1>1, Silent DEF Start, JoinedOK
  <2>2. QueuedOK'
    BY <1>0, <1>1, Silent DEF Start, QueuedOK, TableType, JoinedOK, IoType
  <2> QED BY <1>1, <2>1, <2>2, DataKept, Silent DEF Start
<1>2. ASSUME NEW e \in Endpoint, Connect(e)
     PROVE  Goal
  BY <1>2, DataKept, Silent DEF Connect
<1>3. ASSUME NEW s \in Sid, Send(s)
     PROVE  Goal
  <2>1. StageOK'
    BY <1>0, <1>3, Silent DEF Send, StageOK, PeerType, PeerSession
  <2> QED BY <1>3, <2>1, DataKept, Silent DEF Send
<1>4. ASSUME NEW s \in Sid, Disconnect(s)
     PROVE  Goal
  <2>1. JoinedOK'
    BY <1>0, <1>4, Silent DEF Disconnect, JoinedOK
  <2> QED BY <1>4, <2>1, DataKept, Silent DEF Disconnect
<1>5. CASE DisconnectRemove
  <2>1. JoinedOK'
    BY <1>0, <1>5, Silent DEF DisconnectRemove, JoinedOK, AppType
  <2>2. QueuedOK'
    BY <1>0, <1>5, Silent
    DEF DisconnectRemove, QueuedOK, TableType, AppType, AppOK, remove_session,
        remove_nothing
  <2> QED BY <1>5, <2>1, <2>2, DataKept, Silent DEF DisconnectRemove
<1>6. CASE DisconnectSpawn
  <2>1. JoinedOK'
    BY <1>0, <1>6, Silent DEF DisconnectSpawn, JoinedOK
  <2> QED BY <1>6, <2>1, DataKept, Silent DEF DisconnectSpawn
<1>7. CASE StopBegin
  <2>1. JoinedOK'
    BY <1>0, <1>7, Silent DEF StopBegin, JoinedOK, AppType
  <2> QED BY <1>7, <2>1, DataKept, Silent DEF StopBegin
<1>8. CASE StopSnapshot
  <2>1. JoinedOK'
    BY <1>0, <1>8, Silent DEF StopSnapshot, JoinedOK, AppType
  <2> QED BY <1>8, <2>1, DataKept, Silent DEF StopSnapshot
<1>9. CASE StopClose
  <2>1. JoinedOK'
    BY <1>0, <1>9, Silent DEF StopClose, JoinedOK, AppType
  <2> QED BY <1>9, <2>1, DataKept, Silent DEF StopClose
<1>10. CASE StopJoin
  <2>1. JoinedOK'
    BY <1>0, <1>10, Silent DEF StopJoin, JoinedOK
  <2> QED BY <1>10, <2>1, DataKept, Silent DEF StopJoin
<1>11. CASE StopClear
  <2>1. JoinedOK'
    BY <1>0, <1>11, Silent DEF StopClear, JoinedOK
  <2>2. QueuedOK'
    BY <1>0, <1>11, Silent DEF StopClear, QueuedOK
  <2> QED BY <1>11, <2>1, <2>2, DataKept, Silent DEF StopClear
<1>12. ASSUME NEW s \in Sid, StopPipeline(s)
     PROVE  Goal
  <2>1. JoinedOK'
    BY <1>0, <1>12, Silent DEF StopPipeline, JoinedOK
  <2> QED BY <1>12, <2>1, DataKept, Silent DEF StopPipeline
<1>13. CASE StopPipelinesDone
  <2>1. JoinedOK'
    BY <1>0, <1>13, Silent DEF StopPipelinesDone, JoinedOK
  <2> QED BY <1>13, <2>1, DataKept, Silent DEF StopPipelinesDone
<1>14. CASE StopEmitDone
  <2>1. JoinedOK'
    BY <1>0, <1>14, Silent DEF StopEmitDone, JoinedOK
  <2> QED BY <1>14, <2>1, DataKept, Silent DEF StopEmitDone
<1>15. CASE join_teardown_threads
  <2>1. JoinedOK'
    BY <1>0, <1>15, Silent DEF join_teardown_threads, JoinedOK
  <2> QED BY <1>15, <2>1, DataKept, Silent DEF join_teardown_threads
<1>16. CASE IoExit
  <2>1. JoinedOK'
    BY <1>0, <1>16, Silent DEF IoExit, JoinedOK
  <2>2. QueuedOK'
    BY <1>0, <1>16, Silent DEF IoExit, QueuedOK, TableType, IoType
  <2> QED BY <1>16, <2>1, <2>2, DataKept, Silent DEF IoExit
<1>17. ASSUME NEW e \in Endpoint, NEW p \in Packets, DispatchLookup(e, p)
     PROVE  Goal
  <2>1. JoinedOK'
    BY <1>17 DEF DispatchLookup, JoinedOK
  <2>2. io'.pc # "announce" /\ (io'.pc = "submit" => io'.sid \in sessions)
    BY <1>17, ConstantsOK DEF DispatchLookup, find_session_by_endpoint_key, find_session
  <2>3. QueuedOK'
    BY <1>0, <1>17, <2>2, Silent DEF DispatchLookup, QueuedOK, TableType
  <2> QED BY <1>17, <2>1, <2>3, DataKept, Silent DEF DispatchLookup
<1>18. CASE DispatchSubmit
  <2>1. io.sid \in Sid /\ Fired(io.sid, "new")
    BY <1>0, <1>18 DEF DispatchSubmit, IoOK, QueuedOK
  <2>2. StageOK'
    BY <1>18, <2>1 DEF DispatchSubmit, StageOK
  <2>3. io'.pc = "poll" /\ \A t \in Sid \ {io.sid} : rx'[t] = rx[t]
    BY <1>18, <2>1 DEF DispatchSubmit, IoDone
  <2>4. JoinedOK'
    BY <1>18, <2>3 DEF DispatchSubmit, JoinedOK
  <2>5. QueuedOK'
    BY <1>0, <1>18, <2>1, <2>3, Silent DEF DispatchSubmit, QueuedOK, TableType
  <2> QED BY <1>18, <2>2, <2>4, <2>5, DataKept, Silent DEF DispatchSubmit
<1>19. CASE DispatchHandshakeServer
  <2>1. JoinedOK'
    BY <1>0, <1>19, Silent DEF DispatchHandshakeServer, JoinedOK
  <2>2. QueuedOK'
    BY <1>0, <1>19, Silent
    DEF DispatchHandshakeServer, QueuedOK, TableType, IoType, IoDone
  <2> QED BY <1>19, <2>1, <2>2, DataKept, Silent DEF DispatchHandshakeServer
<1>20. CASE DispatchHandshakeClient
  <2>1. JoinedOK'
    BY <1>0, <1>20, Silent DEF DispatchHandshakeClient, JoinedOK
  <2>2. QueuedOK'
    BY <1>0, <1>20, Silent
    DEF DispatchHandshakeClient, QueuedOK, TableType, IoType, IoDone
  <2> QED BY <1>20, <2>1, <2>2, DataKept, Silent DEF DispatchHandshakeClient
<1>21. ASSUME NEW s \in Sid, NEW c \in ClientId \cup {NoClient}, DispatchCreate(s, c)
     PROVE  Goal
  <2>1. StageOK'
    BY <1>0, <1>21, Silent
    DEF DispatchCreate, StageOK, FreshSid, create_session, PeerType, PeerSession
  <2>2. JoinedOK'
    BY <1>0, <1>21, Silent
    DEF DispatchCreate, JoinedOK, AppType, FreshSid, create_session, PeerType,
        PeerSession
  <2>3. QueuedOK'
    BY <1>0, <1>21, Silent
    DEF DispatchCreate, QueuedOK, TableType, FreshSid, create_session, PeerType,
        PeerSession, IoType
  <2> QED BY <1>21, <2>1, <2>2, <2>3, DataKept, Silent DEF DispatchCreate
<1>22. ASSUME NEW b \in BOOLEAN, TimerTurn(b)
     PROVE  Goal
  BY <1>22, DataKept, Silent DEF TimerTurn
<1>23. ASSUME NEW s \in Sid, TimerCheck(s)
     PROVE  Goal
  BY <1>23, DataKept, Silent DEF TimerCheck
<1>24. CASE TimerRemove
  <2>1. QueuedOK'
    BY <1>0, <1>24, Silent
    DEF TimerRemove, QueuedOK, TableType, TimerType, TimerOK, PeersOK, remove_session,
        remove_nothing
  <2> QED BY <1>24, <2>1, DataKept, Silent DEF TimerRemove
<1>25. CASE TimerSpawn
  BY <1>25, DataKept, Silent DEF TimerSpawn
<1>26. CASE TimerLoop
  BY <1>26, DataKept, Silent DEF TimerLoop
<1>27. ASSUME NEW s \in Sid, GoQuiet(s)
     PROVE  Goal
  <2>1. StageOK'
    BY <1>0, <1>27, Silent DEF GoQuiet, StageOK, PeerType, PeerSession
  <2> QED BY <1>27, <2>1, DataKept, Silent DEF GoQuiet
<1>28. ASSUME NEW s \in Sid, WorkerTake(s)
     PROVE  Goal
  <2>1. \A t \in Sid \ {s} : rx'[t] = rx[t] /\ worker'[t] = worker[t]
    BY <1>28 DEF WorkerTake
  <2>2. Fired(s, "new")
    BY <1>28 DEF WorkerTake, QueuedOK
  <2>3. QueuedOK'
    BY <1>0, <1>28, <2>1, <2>2, Silent DEF WorkerTake, QueuedOK, TableType
  <2> QED BY <1>28, <2>3, DataKept, Silent DEF WorkerTake
<1>29. ASSUME NEW s \in Sid, WorkerSpawn(s)
     PROVE  Goal
  <2>1. QueuedOK'
    BY <1>0, <1>29, Silent DEF WorkerSpawn, QueuedOK, TableType, WorkerType, Idle
  <2> QED BY <1>29, <2>1, DataKept, Silent DEF WorkerSpawn
<1>30. ASSUME NEW s \in Sid, TeardownHalt(s)
     PROVE  Goal
  BY <1>30, DataKept, Silent DEF TeardownHalt
<1>31. ASSUME NEW s \in Sid, StopEmit(s)
     PROVE  Goal
  <2>1. emit(s, "node stopped")
    BY <1>31 DEF StopEmit
  <2>2. NewBeforeData'
    BY <1>0, <2>1, NewBeforeBy
  <2>3. \A t \in Sid, v \in Callback : Fired(t, v) => Fired(t, v)'
    BY <1>0, <2>1, FiredBy
  <2>4. JoinedOK'
    BY <1>31 DEF StopEmit, JoinedOK
  <2>5. QueuedOK'
    BY <1>0, <1>31, <2>3 DEF StopEmit, QueuedOK, TableType
  <2> QED BY <1>31, <2>2, <2>4, <2>5, DataKept DEF StopEmit
<1>32. ASSUME NEW s \in Sid, TeardownEmit(s)
     PROVE  Goal
  <2>1. emit(s, "disconnected")
    BY <1>32 DEF TeardownEmit
  <2>2. NewBeforeData'
    BY <1>0, <2>1, NewBeforeBy
  <2>3. \A t \in Sid, v \in Callback : Fired(t, v) => Fired(t, v)'
    BY <1>0, <2>1, FiredBy
  <2>4. QueuedOK'
    BY <1>0, <1>32, <2>3 DEF TeardownEmit, QueuedOK, TableType
  <2> QED BY <1>32, <2>2, <2>4, DataKept DEF TeardownEmit
<1>33. CASE DispatchAnnounce
  <2>1. PICK s \in Sid : s = io.sid
    BY <1>33 DEF DispatchAnnounce, IoOK
  <2>2. peer[s] \in PeerSession /\ peer[s].stage = "data"
    BY DEF PeerType, StageOK
  <2>3. maybe_drive_http_prelude(s, peer[s])
    BY <1>33, <2>1 DEF DispatchAnnounce
  <2>4. maybe_emit_ready(s, peer[s])
    BY <2>2, <2>3 DEF maybe_drive_http_prelude
  <2>5. Fired(s, "new")' /\ \A t \in Sid, v \in Callback : Fired(t, v) => Fired(t, v)'
    BY <2>2, <2>3, PreludeAnnounces
  <2>6. StageOK'
    BY <2>2, <2>4 DEF maybe_emit_ready, StageOK
  <2>7. io'.pc = "poll"
    BY <1>33 DEF DispatchAnnounce, IoDone
  <2>8. JoinedOK'
    BY <1>33, <2>7 DEF DispatchAnnounce, JoinedOK
  <2>9. QueuedOK'
    <3>1. \A t \in sessions : Fired(t, "new")'
      BY <1>0, <1>33, <2>1, <2>5 DEF QueuedOK, TableType
    <3>2. \A t \in Sid : rx[t] # <<>> \/ worker[t].pc = "on_rx" => Fired(t, "new")'
      BY <1>0, <2>5 DEF QueuedOK
    <3> QED BY <1>33, <2>7, <3>1, <3>2 DEF DispatchAnnounce, QueuedOK
  <2>10. NewBeforeData'
    BY <1>0, <2>4, NewBeforeBy, Silent DEF maybe_emit_ready
  <2> QED BY <2>6, <2>8, <2>9, <2>10
<1>34. ASSUME NEW s \in Sid, WorkerPrelude(s)
     PROVE  Goal
  <2>1. peer[s] \in PeerSession /\ peer[s].stage = "data"
    BY DEF PeerType, StageOK
  <2>2. [peer[s] EXCEPT !.stage = "data"] = peer[s]
    BY <2>1 DEF PeerSession
  <2>3. maybe_drive_http_prelude(s, peer[s])
    BY <1>34, <2>1, <2>2 DEF WorkerPrelude
  <2>4. maybe_emit_ready(s, peer[s])
    BY <2>1, <2>3 DEF maybe_drive_http_prelude
  <2>5. \A t \in Sid, v \in Callback : Fired(t, v) => Fired(t, v)'
    BY <2>1, <2>3, PreludeAnnounces
  <2>6. StageOK'
    BY <2>1, <2>4 DEF maybe_emit_ready, StageOK
  <2>7. QueuedOK'
    BY <1>0, <1>34, <2>5 DEF WorkerPrelude, QueuedOK, Idle, WorkerType, TableType
  <2>8. NewBeforeData'
    BY <1>0, <2>4, NewBeforeBy, Silent DEF maybe_emit_ready
  <2> QED BY <1>34, <2>6, <2>7, <2>8, DataKept DEF WorkerPrelude
<1>35. ASSUME NEW s \in Sid, EmitFrame(s)
     PROVE  Goal
  <2>1. worker[s].pc = "on_rx" /\ Fired(s, "new")
    BY <1>35 DEF EmitFrame, QueuedOK
  <2>2. \A t \in Sid \ {s} : worker'[t] = worker[t]
    BY <1>35
    DEF EmitFrame, EmitData, SkipControl, NextFrame, handle_control_frame, WorkerType
  <2>3. sessions' \subseteq sessions
    BY <1>35
    DEF EmitFrame, EmitData, SkipControl, handle_control_frame, remove_session,
        remove_nothing
  <2>4. NewBeforeData' /\ \A t \in Sid, v \in Callback : Fired(t, v) => Fired(t, v)'
    <3>1. CASE emit(s, "data")
      BY <1>0, <2>1, <3>1, NewBeforeBy, FiredBy
    <3>2. CASE UNCHANGED log
      BY <3>2, Silent
    <3> QED BY <3>1, <3>2, <1>35
        DEF EmitFrame, EmitData, SkipControl, handle_control_frame
  <2>5. QueuedOK'
    BY <1>0, <1>35, <2>1, <2>2, <2>3, <2>4 DEF EmitFrame, QueuedOK, TableType
  <2> QED BY <1>35, <2>4, <2>5, DataKept DEF EmitFrame
<1>36. CASE UNCHANGED vars
  BY <1>36, DataKept, Silent DEF vars
<1> QED
  BY <1>1, <1>2, <1>3, <1>4, <1>5, <1>6, <1>7, <1>8, <1>9, <1>10, <1>11, <1>12,
     <1>13, <1>14, <1>15, <1>16, <1>17, <1>18, <1>19, <1>20, <1>21, <1>22,
     <1>23, <1>24, <1>25, <1>26, <1>27, <1>28, <1>29, <1>30, <1>31, <1>32,
     <1>33, <1>34, <1>35, <1>36
  DEF Next, AppStep, IoStep, TimerStep, WorkerStep, TeardownStep

(* Under HTTP emulation a client announces a session in the step that takes  *)
(* it to the data phase, and only then are frames decoded.                   *)
PreludeOK ==
  \A s \in Sid :
     /\ pipeline[s] # "none" /\ peer[s].stage = "data" => Fired(s, "new")
     /\ worker[s].frames # <<>> => pipeline[s] # "none" /\ peer[s].stage = "data"

PreludeInv == ReportInv /\ PreludeOK /\ NewBeforeData

(* Steps that touch neither sessions nor their workers.                      *)
LEMMA SessionsTouched ==
  ASSUME [Next]_vars
  PROVE  \/ StopClear \/ DispatchSubmit \/ DispatchAnnounce
         \/ \E s \in Sid :
               \/ Send(s) \/ StopPipeline(s) \/ StopEmit(s)
               \/ \E c \in ClientId \cup {NoClient} : DispatchCreate(s, c)
               \/ WorkerStep(s) \/ TeardownStep(s) \/ GoQuiet(s)
         \/ UNCHANGED <<peer, pipeline, worker, log>>
<1> USE DEF workers
<1>1. CASE AppStep
  BY <1>1
  DEF AppStep, Start, Connect, Disconnect, DisconnectRemove, DisconnectSpawn, StopBegin,
      StopSnapshot, StopClose, StopJoin, StopPipelinesDone, StopEmitDone,
      join_teardown_threads
<1>2. CASE IoStep
  BY <1>2
  DEF IoStep, DispatchLookup, DispatchHandshakeServer, DispatchHandshakeClient, IoExit
<1>3. CASE TimerStep
  BY <1>3 DEF TimerStep, TimerTurn, TimerRemove, TimerSpawn, TimerLoop, TimerCheck
<1>4. CASE UNCHANGED vars
  BY <1>4 DEF vars
<1> QED BY <1>1, <1>2, <1>3, <1>4 DEF Next

(* A client whose session is not in the data phase stays out of it when it   *)
(* drives the prelude; one that is announces the session.                    *)
LEMMA ClientPrelude ==
  ASSUME IsClient, PeerType, NEW s \in Sid, NEW p \in PeerSession,
         maybe_drive_http_prelude(s, p)
  PROVE  /\ p.stage = "data" => maybe_emit_ready(s, p)
         /\ p.stage # "data" => peer'[s].stage # "data" /\ UNCHANGED log
         /\ \A t \in Sid \ {s} : peer'[t] = peer[t]
<1>1. CASE p.stage = "data"
  BY <1>1 DEF maybe_drive_http_prelude, maybe_emit_ready, PeerType
<1>2. CASE p.stage # "data"
  <2>1. \/ peer' = [peer EXCEPT ![s] = p]
        \/ peer' = [peer EXCEPT ![s] = [p EXCEPT !.stage = "in_progress", !.idle = FALSE]]
        \/ \E st \in {p.stage, "in_progress"} :
              peer' = [peer EXCEPT ![s] = [p EXCEPT !.stage = st]]
    BY <1>2 DEF maybe_drive_http_prelude
  <2>2. UNCHANGED log
    BY <1>2 DEF maybe_drive_http_prelude
  <2>3. \A q \in PeerSession : peer' = [peer EXCEPT ![s] = q] =>
           peer'[s].stage = q.stage /\ \A t \in Sid \ {s} : peer'[t] = peer[t]
    BY DEF PeerType
  <2>4. \A st \in {p.stage, "in_progress"} :
           /\ [p EXCEPT !.stage = st] \in PeerSession
           /\ [p EXCEPT !.stage = st].stage = st
           /\ [p EXCEPT !.stage = st, !.idle = FALSE] \in PeerSession
           /\ [p EXCEPT !.stage = st, !.idle = FALSE].stage = st
    BY DEF PeerSession, Stage
  <2> QED BY <1>2, <2>1, <2>2, <2>3, <2>4
<1> QED BY <1>1, <1>2

(* On a client under HTTP emulation, every step keeps the data phase         *)
(* announced.                                                                *)
LEMMA PreludeStep ==
  ASSUME IsClient, HttpPrelude, PreludeInv, [Next]_vars
  PROVE  PreludeOK' /\ NewBeforeData'
<1> DEFINE Goal == PreludeOK' /\ NewBeforeData'
<1> USE DEF PreludeInv, ReportInv, TypeOK, ThreadsOK, workers
<1>0. \A c \in {"new", "data", "disconnected", "node stopped"} : c \in Callback
  BY DEF Callback
<1>1. CASE StopClear
  <2>1. \A t \in Sid : pipeline'[t] # "none" <=> pipeline[t] # "none"
    BY <1>1 DEF StopClear, PeersOK, PipelineType
  <2> QED BY <1>0, <1>1, <2>1, Silent DEF StopClear, PreludeOK
<1>2. CASE DispatchSubmit
  <2>1. \A t \in Sid : peer'[t].stage = peer[t].stage
    BY <1>2 DEF DispatchSubmit, PeerType, PeerSession
  <2> QED BY <1>0, <1>2, <2>1, Silent DEF DispatchSubmit, PreludeOK
<1>3. CASE DispatchAnnounce
  <2>1. PICK s \in Sid : s = io.sid
    BY <1>3 DEF DispatchAnnounce, IoOK
  <2>2. peer[s] \in PeerSession /\ maybe_drive_http_prelude(s, peer[s])
    BY <1>3, <2>1 DEF DispatchAnnounce, PeerType
  <2>3. /\ \A t \in Sid, v \in Callback : Fired(t, v) => Fired(t, v)'
        /\ peer[s].stage = "data" => Fired(s, "new")'
    BY <2>2, PreludeAnnounces DEF AnnounceOK
  <2>4. NewBeforeData'
    BY <1>0, <2>2, ClientPrelude, NewBeforeBy, Silent DEF maybe_emit_ready
  <2>5. worker[s].frames # <<>> => peer[s].stage = "data"
    BY DEF PreludeOK
  <2>6. peer[s].stage = "data" => peer'[s].stage = "data"
    BY <2>2, ClientPrelude DEF maybe_emit_ready, PeerType, PeerSession
  <2>7. /\ \A t \in Sid \ {s} : peer'[t] = peer[t]
        /\ peer[s].stage # "data" => peer'[s].stage # "data"
    BY <2>2, ClientPrelude
  <2>8. PreludeOK'
    BY <1>0, <1>3, <2>3, <2>5, <2>6, <2>7 DEF DispatchAnnounce, PreludeOK
  <2> QED BY <2>4, <2>8
<1>4. ASSUME NEW s \in Sid, Send(s) \/ GoQuiet(s)
      PROVE  Goal
  <2>1. \A t \in Sid : peer'[t].stage = peer[t].stage
    BY <1>4 DEF Send, GoQuiet, PeerType, PeerSession
  <2> QED BY <1>0, <1>4, <2>1, Silent DEF Send, GoQuiet, PreludeOK
<1>5. ASSUME NEW s \in Sid, StopPipeline(s) \/ TeardownHalt(s)
      PROVE  Goal
  <2>1. pipeline[s] # "none" /\ \A t \in Sid : pipeline'[t] # "none" => pipeline[t] # "none"
    BY <1>5 DEF StopPipeline, TeardownHalt, PipelineType, FreshOK, EndsOK
  <2>2. \A t \in Sid : pipeline[t] # "none" => pipeline'[t] # "none"
    BY <1>5 DEF StopPipeline, TeardownHalt, PipelineType
  <2> QED BY <1>0, <1>5, <2>1, <2>2, Silent DEF StopPipeline, TeardownHalt, PreludeOK
<1>6. ASSUME NEW s \in Sid, StopEmit(s) \/ TeardownEmit(s)
      PROVE  Goal
  <2>1. PICK c \in {"disconnected", "node stopped"} : emit(s, c)
    BY <1>6 DEF StopEmit, TeardownEmit
  <2>2. NewBeforeData' /\ \A t \in Sid, v \in Callback : Fired(t, v) => Fired(t, v)'
    BY <1>0, <2>1, NewBeforeBy, FiredBy
  <2> QED BY <1>0, <1>6, <2>2 DEF StopEmit, TeardownEmit, PreludeOK
<1>7. ASSUME NEW s \in Sid, NEW c \in ClientId \cup {NoClient}, DispatchCreate(s, c)
      PROVE  Goal
  <2>1. /\ \A t \in Sid \ {s} : pipeline'[t] = pipeline[t] /\ peer'[t] = peer[t]
        /\ pipeline[s] = "none" /\ peer'[s].stage = "pending"
    BY <1>7 DEF DispatchCreate, FreshSid, create_session, PeerType, PipelineType
  <2> QED BY <1>0, <1>7, <2>1, Silent DEF DispatchCreate, PreludeOK
<1>8. ASSUME NEW s \in Sid, WorkerTake(s)
      PROVE  Goal
  <2>1. /\ \A t \in Sid \ {s} : worker'[t] = worker[t]
        /\ worker'[s].frames # <<>> => peer[s].stage = "data" \/ worker'[s] = worker[s]
    BY <1>8 DEF WorkerTake, WorkerType
  <2>2. pipeline[s] # "none"
    BY <1>8 DEF WorkerTake
  <2> QED BY <1>0, <1>8, <2>1, <2>2, Silent DEF WorkerTake, PreludeOK
<1>9. ASSUME NEW s \in Sid, WorkerPrelude(s)
      PROVE  Goal
  <2>1. PICK st \in Stage :
           /\ maybe_drive_http_prelude(s, [peer[s] EXCEPT !.stage = st])
           /\ peer[s].stage = "data" => st = "data"
    BY <1>9 DEF WorkerPrelude, PeerType, PeerSession, Stage
  <2> DEFINE p == [peer[s] EXCEPT !.stage = st]
  <2>2. p \in PeerSession /\ p.ready_notified = peer[s].ready_notified /\ p.stage = st
    BY DEF PeerType, PeerSession
  <2>3. peer[s].ready_notified => p.stage = "data"
    BY <2>1, <2>2 DEF AnnounceOK
  <2>4. maybe_drive_http_prelude(s, p)
    BY <2>1
  <2> HIDE DEF p
  <2>5. /\ \A t \in Sid, v \in Callback : Fired(t, v) => Fired(t, v)'
        /\ p.stage = "data" => Fired(s, "new")'
    BY <2>2, <2>3, <2>4, PreludeAnnounces
  <2>6. NewBeforeData'
    BY <1>0, <2>2, <2>4, ClientPrelude, NewBeforeBy, Silent DEF maybe_emit_ready
  <2>7. /\ \A t \in Sid \ {s} : peer'[t] = peer[t]
        /\ p.stage # "data" => peer'[s].stage # "data"
    BY <2>2, <2>4, ClientPrelude
  <2>8. worker'[s].frames = <<>> /\ \A t \in Sid \ {s} : worker'[t] = worker[t]
    BY <1>9 DEF WorkerPrelude, Idle, WorkerType
  <2>9. PreludeOK'
    BY <1>0, <1>9, <2>5, <2>7, <2>8 DEF WorkerPrelude, PreludeOK
  <2> QED BY <2>6, <2>9
<1>10. ASSUME NEW s \in Sid, EmitFrame(s)
       PROVE  Goal
  <2>1. worker[s].frames # <<>> /\ pipeline[s] # "none" /\ peer[s].stage = "data"
        /\ Fired(s, "new")
    BY <1>10 DEF EmitFrame, PreludeOK
  <2>2. \A t \in Sid \ {s} : worker'[t] = worker[t]
    BY <1>10
    DEF EmitFrame, EmitData, SkipControl, NextFrame, handle_control_frame, WorkerType
  <2>3. NewBeforeData' /\ \A t \in Sid, v \in Callback : Fired(t, v) => Fired(t, v)'
    <3>1. CASE emit(s, "data")
      BY <1>0, <2>1, <3>1, NewBeforeBy, FiredBy
    <3>2. CASE UNCHANGED log
      BY <3>2, Silent
    <3> QED BY <3>1, <3>2, <1>10
      DEF EmitFrame, EmitData, SkipControl, handle_control_frame
  <2> QED BY <1>0, <1>10, <2>1, <2>2, <2>3 DEF EmitFrame, PreludeOK
<1>11. ASSUME NEW s \in Sid, WorkerSpawn(s)
       PROVE  Goal
  BY <1>0, <1>11, Silent DEF WorkerSpawn, PreludeOK, Idle, WorkerType
<1>12. CASE UNCHANGED <<peer, pipeline, worker, log>>
  BY <1>0, <1>12, Silent DEF PreludeOK
<1> QED
  BY <1>1, <1>2, <1>3, <1>4, <1>5, <1>6, <1>7, <1>8, <1>9, <1>10, <1>11, <1>12,
     SessionsTouched
  DEF WorkerStep, TeardownStep

(* Only connect(), start(), stop(), the answer and the deadline touch the    *)
(* pending attempt.                                                          *)
LEMMA AttemptsTouched ==
  ASSUME [Next]_vars
  PROVE  \/ Start \/ StopClear \/ DispatchHandshakeClient
         \/ \E e \in Endpoint : Connect(e)
         \/ \E b \in BOOLEAN : TimerTurn(b)
         \/ UNCHANGED connect
<1> USE DEF connect
<1>1. CASE AppStep
  BY <1>1
  DEF AppStep, Send, Disconnect, StopPipeline, StopEmit, DisconnectRemove, DisconnectSpawn,
      StopBegin, StopSnapshot, StopClose, StopJoin, StopPipelinesDone, StopEmitDone,
      join_teardown_threads
<1>2. CASE IoStep
  BY <1>2
  DEF IoStep, DispatchLookup, DispatchSubmit, DispatchHandshakeServer, DispatchCreate,
      DispatchAnnounce, IoExit
<1>3. CASE TimerStep
  BY <1>3 DEF TimerStep, TimerRemove, TimerSpawn, TimerLoop, TimerCheck
<1>4. CASE \E s \in Sid : WorkerStep(s) \/ TeardownStep(s) \/ GoQuiet(s)
  BY <1>4
  DEF WorkerStep, TeardownStep, WorkerTake, WorkerPrelude, EmitFrame, WorkerSpawn,
      TeardownHalt, TeardownEmit, GoQuiet
<1> QED BY <1>1, <1>2, <1>3, <1>4 DEF Next, vars

(* Resolving the pending attempt, which nothing has resolved, leaves it with *)
(* one outcome and nothing pending.                                          *)
LEMMA ResolveOnce ==
  ASSUME TypeOK, AttemptsOK, OneOutcomePerConnect, pending.endpoint \in Endpoint,
         NEW r \in Outcome, resolve(r), UNCHANGED connects
  PROVE  AttemptsOK' /\ OneOutcomePerConnect'
<1> USE ConstantsOK DEF TypeOK, ConnectType
<1> DEFINE p == pending.attempt
<1>1. p \in 1..MaxConnects /\ p <= connects
  BY DEF AttemptsOK
<1>2. outcome[p] = <<>>
  BY <1>1 DEF AttemptsOK
<1>3. outcome'[p] = Append(<<>>, r) /\ Len(outcome'[p]) = 1
  BY <1>1, <1>2 DEF resolve
<1>4. \A a \in 1..MaxConnects : a # p => outcome'[a] = outcome[a]
  BY DEF resolve
<1>5. pending'.attempt = 0 /\ pending'.endpoint = NoEndpoint
  BY DEF resolve, NoPending
<1> HIDE DEF p
<1>6. AttemptsOK'
  BY <1>1, <1>4, <1>5 DEF AttemptsOK
<1>7. OneOutcomePerConnect'
  <2> SUFFICES ASSUME NEW a \in 1..MaxConnects PROVE Len(outcome'[a]) <= 1
    BY DEF OneOutcomePerConnect
  <2>1. CASE a = p
    BY <2>1, <1>3
  <2>2. CASE a # p
    BY <2>2, <1>4 DEF OneOutcomePerConnect
  <2> QED BY <2>1, <2>2
<1> QED BY <1>6, <1>7

(* Every step keeps the attempts and their outcomes.                         *)
LEMMA OutcomeStep ==
  ASSUME OutcomeInv, [Next]_vars
  PROVE  AttemptsOK' /\ OneOutcomePerConnect'
<1> USE ConstantsOK DEF OutcomeInv, connect
<1>1. CASE Start
  BY <1>1 DEF Start, NoPending, AttemptsOK, OneOutcomePerConnect, TypeOK, ConnectType
<1>2. CASE StopClear
  BY <1>2
  DEF StopClear, NoPending, AttemptsOK, OneOutcomePerConnect, TypeOK, ConnectType
<1>3. CASE DispatchHandshakeClient
  <2>1. io.endpoint \in Endpoint
    BY <1>3 DEF DispatchHandshakeClient, ThreadsOK, IoOK
  <2>2. CASE UNCHANGED <<pending, outcome>>
    BY <1>3, <2>2 DEF DispatchHandshakeClient, AttemptsOK, OneOutcomePerConnect
  <2>3. CASE pending.endpoint = io.endpoint /\ (resolve("session") \/ resolve("invalid"))
    <3>1. UNCHANGED connects /\ "session" \in Outcome /\ "invalid" \in Outcome
      BY <1>3 DEF DispatchHandshakeClient, Outcome
    <3> QED BY <2>1, <2>3, <3>1, ResolveOnce
  <2> QED BY <1>3, <2>2, <2>3 DEF DispatchHandshakeClient
<1>4. ASSUME NEW e \in Endpoint, Connect(e)
      PROVE  AttemptsOK' /\ OneOutcomePerConnect'
  <2>1. connects' = connects + 1 /\ UNCHANGED outcome /\ connects \in Nat
    BY <1>4 DEF Connect, TypeOK, ConnectType
  <2>2. \/ pending'.endpoint = e /\ pending'.attempt = connects'
        \/ pending'.endpoint = NoEndpoint /\ pending'.attempt = 0
    BY <1>4 DEF Connect, NoPending
  <2>3. AttemptsOK'
    BY <2>1, <2>2 DEF AttemptsOK
  <2> QED BY <2>1, <2>3 DEF OneOutcomePerConnect
<1>5. ASSUME NEW b \in BOOLEAN, TimerTurn(b)
      PROVE  AttemptsOK' /\ OneOutcomePerConnect'
  <2>1. CASE UNCHANGED <<pending, outcome>>
    BY <1>5, <2>1 DEF TimerTurn, AttemptsOK, OneOutcomePerConnect
  <2>2. CASE HandshakeTimeout
    <3>1. pending.endpoint \in Endpoint
      BY <2>2 DEF HandshakeTimeout, NoPending, AttemptsOK, TypeOK, ConnectType
    <3>2. UNCHANGED connects /\ "timeout" \in Outcome
      BY <1>5 DEF TimerTurn, Outcome
    <3> QED BY <2>2, <3>1, <3>2, ResolveOnce DEF HandshakeTimeout
  <2> QED BY <1>5, <2>1, <2>2 DEF TimerTurn
<1>6. CASE UNCHANGED connect
  BY <1>6 DEF AttemptsOK, OneOutcomePerConnect
<1> QED BY <1>1, <1>2, <1>3, <1>4, <1>5, <1>6, AttemptsTouched

-----------------------------------------------------------------------------
(* The initial state satisfies the invariants of the callbacks.              *)
LEMMA InitReports ==
  Init => ReportInv /\ PreludeInv /\ OutcomeInv /\ (~HttpPrelude => DataInv)
<1> SUFFICES ASSUME Init
             PROVE  ReportInv /\ PreludeInv /\ OutcomeInv /\ (~HttpPrelude => DataInv)
  OBVIOUS
<1>1. TypeOK /\ ThreadsOK
  BY InitInv DEF IndexInv
<1> USE ConstantsOK DEF Init
<1>2. \A s \in Sid : DOMAIN log[s] = {}
  OBVIOUS
<1>3. \A s \in Sid, c \in Callback : ~Fired(s, c)
  BY <1>2 DEF Fired
<1>4. "new" \in Callback /\ "disconnected" \in Callback /\ "node stopped" \in Callback
  BY DEF Callback
<1>5. FreshOK
  BY <1>3 DEF FreshOK, Idle, Removed
<1>6. AnnounceOK
  BY <1>3, <1>4 DEF AnnounceOK, NoPeer
<1>7. OwnedOnce /\ EndsOK
  BY <1>3, <1>4 DEF OwnedOnce, EndsOK, Removed, Idle
<1>8. CallbacksOnce /\ NewBeforeData
  BY <1>2 DEF CallbacksOnce, NewBeforeData
<1>9. ReportInv
  BY <1>1, <1>5, <1>6, <1>7, <1>8 DEF ReportInv
<1>10. StageOK /\ JoinedOK /\ QueuedOK
  BY DEF StageOK, JoinedOK, QueuedOK, NoPeer, Idle
<1>11. \A a \in 1..MaxConnects : outcome[a] = <<>> /\ Len(outcome[a]) = 0
  OBVIOUS
<1>12. pending.attempt = 0 /\ pending.endpoint \notin Endpoint
  BY DEF NoPending
<1>13. AttemptsOK
  BY <1>11, <1>12 DEF AttemptsOK
<1>14. OneOutcomePerConnect
  BY <1>11 DEF OneOutcomePerConnect
<1>15. PreludeOK
  BY DEF PreludeOK, Idle
<1> QED BY <1>1, <1>8, <1>9, <1>10, <1>13, <1>14, <1>15 DEF DataInv, PreludeInv, OutcomeInv

(* The indices' invariant is kept by every step; the invariants of the       *)
(* callbacks rest on it.                                                     *)
LEMMA IndexKept == IndexInv /\ [Next]_vars => IndexInv'
BY TypeStep, IndexStep DEF IndexInv

(* Every step keeps the callbacks' invariant.                                *)
LEMMA ReportKept == IndexInv /\ ReportInv /\ [Next]_vars => ReportInv'
BY IndexKept, ReportStep DEF IndexInv, ReportInv

(* Each session is announced once at most and reported ended once at most    *)
(* by either thread, for any number of sessions, clients and datagrams       *)
(* (ready_notified.exchange, remove_session, stop()'s snapshot).             *)
THEOREM CallbacksAlwaysOnce == Spec => []CallbacksOnce
<1>1. ReportInv => CallbacksOnce
  BY DEF ReportInv
<1> QED BY InitInv, InitReports, IndexKept, ReportKept, <1>1, PTL DEF Spec

(* No session is announced before its data phase, whoever drives its prelude *)
(* and whatever fails to be sent (maybe_drive_http_prelude).                 *)
THEOREM AnnouncedAlwaysInDataPhase == Spec => []AnnouncedInDataPhase
<1>1. ReportInv => AnnouncedInDataPhase
  BY DEF ReportInv, AnnounceOK, AnnouncedInDataPhase
<1> QED BY InitInv, InitReports, IndexKept, ReportKept, <1>1, PTL DEF Spec

(* A session has one owner: the table, the one thread that took it out, or   *)
(* its teardown thread; so it is torn down once (remove_session under        *)
(* sessions_mutex_).                                                         *)
THEOREM SessionsOwnedOnce == Spec => []OwnedOnce
<1>1. ReportInv => OwnedOnce
  BY DEF ReportInv
<1> QED BY InitInv, InitReports, IndexKept, ReportKept, <1>1, PTL DEF Spec

(* Data reaches the application only for sessions it was told of, for any    *)
(* number of sessions and datagrams: without HTTP emulation because          *)
(* dispatch_packet announces before it takes the next datagram, and on a     *)
(* client with it because the step that ends the prelude announces.  On a    *)
(* server with HTTP emulation it does not hold: the response that ends the   *)
(* prelude may fail to be sent, and the session stays unannounced.           *)
THEOREM NewAlwaysBeforeData ==
  ASSUME IsClient \/ ~HttpPrelude
  PROVE  Spec => []NewBeforeData
<1>1. CASE ~HttpPrelude
  <2>1. IndexInv /\ DataInv /\ [Next]_vars => DataInv'
    BY <1>1, ReportKept, DataStep DEF DataInv
  <2>2. DataInv => NewBeforeData
    BY DEF DataInv
  <2>3. Init => DataInv
    BY <1>1, InitReports
  <2> QED BY InitInv, IndexKept, <2>1, <2>2, <2>3, PTL DEF Spec
<1>2. CASE IsClient /\ HttpPrelude
  <2>1. IndexInv /\ PreludeInv /\ [Next]_vars => PreludeInv'
    BY <1>2, ReportKept, PreludeStep DEF PreludeInv
  <2>2. PreludeInv => NewBeforeData
    BY DEF PreludeInv
  <2> QED BY InitInv, InitReports, IndexKept, <2>1, <2>2, PTL DEF Spec
<1> QED BY <1>1, <1>2

(* Each connect() ends in one way at most, for any number of calls, although *)
(* the answer, the deadline, stop() and the next call race for it            *)
(* (handshake_mutex_).                                                       *)
THEOREM OneOutcomeAlways == Spec => []OneOutcomePerConnect
<1>1. IndexInv /\ OutcomeInv /\ [Next]_vars => OutcomeInv'
  BY IndexKept, OutcomeStep DEF IndexInv, OutcomeInv
<1>2. OutcomeInv => OneOutcomePerConnect
  BY DEF OutcomeInv
<1> QED BY InitInv, InitReports, IndexKept, <1>1, <1>2, PTL DEF Spec
=============================================================================
