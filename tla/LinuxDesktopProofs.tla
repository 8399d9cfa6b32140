------------------------- MODULE LinuxDesktopProofs -------------------------
(***************************************************************************)
(* Proofs about the Linux runtime under the window and a shell, for every    *)
(* number of hosts and process ids and wherever commands may be killed.      *)
(* OneRuntime, NoLoop and DownCleans are consequences of what the control    *)
(* command may rely on at each of its steps: no proxy that the pid file was  *)
(* written for lives while one is about to be recorded or after one was      *)
(* stopped (Quiet), and the server of such a proxy has a route of its own    *)
(* for as long as the proxy lives (Pinned).  Of a proxy whose command ended  *)
(* before that write nothing holds, and nothing is said.                     *)
(***************************************************************************)
EXTENDS LinuxDesktop, TLAPS

NoneNamed == \A p \in Pid : ~Named(p)

Quiet ==
    ctl.at \in {"suspend", "resolve", "launch", "record", "unroute", "restore", "forget"} =>
        NoneNamed

Pinned ==
    /\ \A p \in Pid : Named(p) => child[p].host \in net.pinned
    /\ ctl.at \in {"launch", "record"} => config.host \in net.pinned
    /\ ctl.at = "record" => ctl.pid \in Pid /\ (Lives(ctl.pid) => child[ctl.pid].host = config.host)

Stopping ==
    /\ ctl.act = "down" => ctl.at \in {"kill", "unroute", "restore", "forget", "exit"}
    /\ ctl.at \in {"unroute", "restore", "forget"} => files.pid = NoPid
    /\ ctl.at \in {"restore", "forget"} => net.default = {}

DInv == RuntimeTypeOK /\ OneRuntime /\ Quiet /\ Pinned /\ Stopping /\ DownCleans

Process == [at: {"none", "dialing", "tunnel"}, host: Host, named: BOOLEAN]

-----------------------------------------------------------------------------
(* A process that has ended is a process.                                    *)
LEMMA EndedType == Ended \in Process /\ Ended.at = "none"
BY RuntimeAssumption DEF Ended, Process

(* Nothing runs at first.                                                    *)
LEMMA DInit == Init => DInv
<1> SUFFICES ASSUME Init PROVE DInv
  OBVIOUS
<1>1. ctl = Idle /\ NoneNamed /\ files.pid = NoPid /\ net = [default |-> {}, pinned |-> {}]
  BY EndedType DEF Init, RuntimeInit, NoneNamed, Named, Lives
<1>2. RuntimeTypeOK
  BY <1>1, EndedType DEF Init, RuntimeInit, RuntimeTypeOK, Idle, NoState, Process
<1> QED
  BY <1>1, <1>2 DEF DInv, OneRuntime, Quiet, Pinned, Stopping, DownCleans, Idle, NoneNamed

(* Steps that change no process, no route and no pid file, and lead to a     *)
(* step of which the invariant asks no more than of the step they leave.     *)
LEMMA CheckStep == DInv /\ Check => DInv'
<1> SUFFICES ASSUME DInv, Check PROVE DInv'
  OBVIOUS
<1> USE DEF DInv
<1>1. ctl.at = "check" /\ UNCHANGED <<config, child, net, clash>>
  BY DEF Check
<1>2. CASE ctl' = [ctl EXCEPT !.at = "exit", !.ok = FALSE, !.pid = NoPid] /\ files' = files
  BY <1>1, <1>2
  DEF RuntimeTypeOK, OneRuntime, Quiet, Pinned, Stopping, DownCleans, NoneNamed, Named, Lives
<1>3. CASE ~(Alive(files.pid) \/ files.pid = TornPid)
  <2>1. /\ files' = [files EXCEPT !.pid = NoPid]
        /\ \/ ctl' = [ctl EXCEPT !.at = "exit", !.ok = FALSE, !.pid = NoPid]
           \/ ctl' = [ctl EXCEPT !.at = "suspend"]
           \/ ctl' = [ctl EXCEPT !.at = "resolve"]
    BY <1>3 DEF Check, Exit, Goto
  <2>2. NoneNamed
    BY <1>3 DEF Alive, NoneNamed, Named, OneRuntime
  <2>3. RuntimeTypeOK'
    BY <1>1, <2>1 DEF RuntimeTypeOK, Steps
  <2>4. NoneNamed'
    BY <1>1, <2>2 DEF NoneNamed, Named, Lives
  <2>5. ctl.act # "down" /\ ctl'.act # "down" /\ ctl'.at \in {"exit", "suspend", "resolve"}
    BY <1>1, <2>1 DEF RuntimeTypeOK, Stopping
  <2> QED
    BY <2>3, <2>4, <2>5
    DEF OneRuntime, Quiet, Pinned, Stopping, DownCleans, NoneNamed
<1> QED
  BY <1>2, <1>3 DEF Check, Exit

(* up suspends the other VPN and finds the route below the tunnel.           *)
LEMMA ResolveStep == DInv /\ (Suspend \/ Resolve) => DInv'
<1> SUFFICES ASSUME DInv, Suspend \/ Resolve PROVE DInv'
  OBVIOUS
<1> USE DEF DInv
<1>1. CASE Suspend
  <2>1. /\ ctl.at = "suspend"
        /\ ctl' = [ctl EXCEPT !.at = "resolve", !.suspended = (clash = "on")]
        /\ clash' = "suspended" \/ clash' = clash
        /\ UNCHANGED <<config, files, child, net>>
    BY <1>1 DEF Suspend
  <2>2. RuntimeTypeOK'
    BY <2>1 DEF RuntimeTypeOK, Steps
  <2> QED
    BY <2>1, <2>2
    DEF RuntimeTypeOK, OneRuntime, Quiet, Pinned, Stopping, DownCleans, NoneNamed, Named, Lives
<1>2. CASE Resolve
  <2>1. /\ ctl.at = "resolve" /\ UNCHANGED <<config, files, child, clash>>
        /\ \/ ctl' = [ctl EXCEPT !.at = "exit", !.ok = FALSE, !.pid = NoPid] /\ net' = net
           \/ /\ ctl' = [ctl EXCEPT !.at = "launch"]
              /\ net' = [net EXCEPT !.pinned = @ \cup {config.host}]
    BY <1>2 DEF Resolve, Exit, Goto
  <2>2. net'.default = net.default /\ net.pinned \subseteq net'.pinned
        /\ net' \in [default: SUBSET {"low", "high"}, pinned: SUBSET Host]
    <3>1. config.host \in Host
      BY DEF RuntimeTypeOK, Config
    <3> QED
      BY <2>1, <3>1 DEF RuntimeTypeOK
  <2>3. RuntimeTypeOK'
    BY <2>1, <2>2 DEF RuntimeTypeOK, Steps
  <2>4. OneRuntime' /\ Quiet' /\ Stopping' /\ DownCleans'
    BY <2>1 DEF RuntimeTypeOK, OneRuntime, Quiet, Stopping, DownCleans, NoneNamed, Named, Lives
  <2>5. Pinned'
    <3>1. ctl'.at # "record" /\ (ctl'.at = "launch" => config'.host \in net'.pinned)
      <4>1. ctl' = [ctl EXCEPT !.at = "exit", !.ok = FALSE, !.pid = NoPid] => ctl'.at = "exit"
        BY DEF RuntimeTypeOK
      <4>2. ctl' = [ctl EXCEPT !.at = "launch"] => ctl'.at = "launch"
        BY DEF RuntimeTypeOK
      <4>3. net' = [net EXCEPT !.pinned = @ \cup {config.host}] => config.host \in net'.pinned
        BY DEF RuntimeTypeOK
      <4> QED
        BY <2>1, <4>1, <4>2, <4>3
    <3> QED
      BY <2>1, <2>2, <3>1 DEF Pinned, Named, Lives
  <2> QED
    BY <2>3, <2>4, <2>5
<1> QED
  BY <1>1, <1>2

(* up starts the proxy, which no file names yet.                             *)
LEMMA LaunchStep == DInv /\ Launch => DInv'
<1> SUFFICES ASSUME DInv, Launch PROVE DInv'
  OBVIOUS
<1> USE DEF DInv
<1>1. ctl.at = "launch" /\ UNCHANGED <<config, files, net, clash>> /\ NoneNamed
  BY DEF Launch, Quiet
<1>2. CASE Exit(FALSE) /\ UNCHANGED child
  <2>1. ctl' = [ctl EXCEPT !.at = "exit", !.ok = FALSE, !.pid = NoPid]
    BY <1>2 DEF Exit
  <2> QED
    BY <1>1, <1>2, <2>1
    DEF RuntimeTypeOK, OneRuntime, Quiet, Pinned, Stopping, DownCleans, NoneNamed, Named, Lives
<1>3. ASSUME NEW p \in Pid, ~Lives(p),
             child' = [child EXCEPT ![p] = [at |-> "dialing", host |-> config.host,
                                            named |-> FALSE]],
             ctl' = [ctl EXCEPT !.at = "record", !.pid = p]
      PROVE  DInv'
  <2>1. /\ child'[p] = [at |-> "dialing", host |-> config.host, named |-> FALSE]
        /\ \A q \in Pid \ {p} : child'[q] = child[q]
    BY <1>3 DEF RuntimeTypeOK
  <2>2. RuntimeTypeOK'
    BY <1>1, <1>3 DEF RuntimeTypeOK, Config, Steps
  <2>3. NoneNamed'
    BY <1>1, <2>1 DEF NoneNamed, Named, Lives
  <2>4. ctl'.at = "record" /\ ctl'.act = ctl.act /\ ctl'.pid = p
    BY <1>3 DEF RuntimeTypeOK
  <2>5. OneRuntime' /\ Quiet'
    BY <2>3 DEF OneRuntime, Quiet, NoneNamed
  <2>6. Pinned'
    BY <1>1, <2>1, <2>3, <2>4 DEF Pinned, NoneNamed
  <2>7. Stopping' /\ DownCleans'
    BY <1>1, <2>4 DEF Stopping, DownCleans
  <2> QED
    BY <2>2, <2>5, <2>6, <2>7
<1> QED
  BY <1>2, <1>3 DEF Launch

(* up writes the pid file: from then on the file names the proxy.            *)
LEMMA RecordStep == DInv /\ RecordPid => DInv'
<1> SUFFICES ASSUME DInv, RecordPid PROVE DInv'
  OBVIOUS
<1> USE DEF DInv
<1>1. ctl.at = "record" /\ UNCHANGED <<config, net, clash>> /\ NoneNamed /\ ctl.pid \in Pid
      /\ config.host \in net.pinned /\ (Lives(ctl.pid) => child[ctl.pid].host = config.host)
  BY DEF RecordPid, Quiet, Pinned
<1>2. CASE files' = [files EXCEPT !.pid = TornPid] /\ UNCHANGED <<ctl, child>>
  BY <1>1, <1>2
  DEF RuntimeTypeOK, OneRuntime, Quiet, Pinned, Stopping, DownCleans, NoneNamed, Named, Lives
<1>3. CASE /\ files' = [files EXCEPT !.pid = ctl.pid]
           /\ child' = [child EXCEPT ![ctl.pid].named = Lives(ctl.pid)]
           /\ ctl' = [ctl EXCEPT !.at = "write", !.pid = NoPid]
  <2>1. Lives(ctl.pid) \in BOOLEAN
    BY DEF Lives
  <2>2. /\ child' \in [Pid -> Process]
        /\ child'[ctl.pid].at = child[ctl.pid].at /\ child'[ctl.pid].host = child[ctl.pid].host
        /\ \A q \in Pid \ {ctl.pid} : child'[q] = child[q]
    BY <1>1, <1>3, <2>1 DEF RuntimeTypeOK, Process
  <2>3. /\ ctl'.at = "write" /\ ctl'.act = ctl.act /\ files'.pid = ctl.pid
        /\ files'.state = files.state
    BY <1>3 DEF RuntimeTypeOK
  <2>4. RuntimeTypeOK'
    BY <1>1, <1>3, <2>2 DEF RuntimeTypeOK, Steps, Process
  <2>5. \A q \in Pid : Named(q)' => q = ctl.pid /\ Lives(ctl.pid)
    BY <1>1, <2>2 DEF Named, Lives, NoneNamed
  <2>6. OneRuntime'
    BY <2>3, <2>5 DEF OneRuntime
  <2>7. Pinned'
    BY <1>1, <2>2, <2>3, <2>5 DEF Pinned
  <2>8. Quiet' /\ Stopping' /\ DownCleans'
    BY <1>1, <2>3 DEF Quiet, Stopping, DownCleans
  <2> QED
    BY <2>4, <2>6, <2>7, <2>8
<1> QED
  BY <1>2, <1>3 DEF RecordPid

(* up writes the state file.                                                 *)
LEMMA WriteStep == DInv /\ WriteState => DInv'
<1> SUFFICES ASSUME DInv, WriteState PROVE DInv'
  OBVIOUS
<1> USE DEF DInv
<1>1. /\ ctl.at = "write" /\ UNCHANGED <<config, child, net, clash>>
      /\ ctl' = ctl \/ ctl' = [ctl EXCEPT !.at = "wait"]
      /\ \E state \in {"torn", "plain", "owes"} : files' = [files EXCEPT !.state = state]
  BY DEF WriteState, Goto
<1>2. RuntimeTypeOK'
  BY <1>1 DEF RuntimeTypeOK, Steps
<1> QED
  BY <1>1, <1>2
  DEF RuntimeTypeOK, OneRuntime, Quiet, Pinned, Stopping, DownCleans, NoneNamed, Named, Lives

(* up waits for the interface and routes into it.                            *)
LEMMA RouteSteps == DInv /\ (WaitForTun \/ RouteLow \/ RouteHigh) => DInv'
<1> SUFFICES ASSUME DInv, WaitForTun \/ RouteLow \/ RouteHigh PROVE DInv'
  OBVIOUS
<1> USE DEF DInv
<1>1. /\ ctl.at \in {"wait", "low", "high"} /\ UNCHANGED <<config, files, child, clash>>
      /\ \/ ctl' = [ctl EXCEPT !.at = "low"]
         \/ ctl' = [ctl EXCEPT !.at = "high"]
         \/ ctl' = [ctl EXCEPT !.at = "exit", !.ok = TRUE, !.pid = NoPid]
         \/ ctl' = [ctl EXCEPT !.at = "kill", !.ok = FALSE]
      /\ \/ net' = net
         \/ \E half \in {"low", "high"} : net' = [net EXCEPT !.default = @ \cup {half}]
  BY DEF WaitForTun, RouteLow, RouteHigh, Route, Goto, Exit, Undo, world
<1>2. net' \in [default: SUBSET {"low", "high"}, pinned: SUBSET Host] /\ net'.pinned = net.pinned
  BY <1>1 DEF RuntimeTypeOK
<1>3. RuntimeTypeOK'
  BY <1>1, <1>2 DEF RuntimeTypeOK, Steps
<1>4. OneRuntime' /\ Quiet' /\ Pinned'
  BY <1>1, <1>2 DEF RuntimeTypeOK, OneRuntime, Quiet, Pinned, NoneNamed, Named, Lives
<1>5. ctl.act = "up"
  BY <1>1 DEF RuntimeTypeOK, Stopping
<1>6. /\ ctl'.act = "up"
      /\ ctl'.at \in {"low", "high", "exit", "kill"}
  BY <1>1, <1>5 DEF RuntimeTypeOK
<1>7. Stopping' /\ DownCleans'
  BY <1>6 DEF Stopping, DownCleans
<1> QED
  BY <1>3, <1>4, <1>7

(* down kills the process of the pid file.                                   *)
LEMMA KillStep == DInv /\ KillChild => DInv'
<1> SUFFICES ASSUME DInv, KillChild PROVE DInv'
  OBVIOUS
<1> USE DEF DInv
<1>1. /\ ctl' = [ctl EXCEPT !.at = "unroute", !.suspended = (files.state = "owes")]
      /\ child' = [p \in Pid |-> IF p = files.pid THEN Ended ELSE child[p]]
      /\ files' = [files EXCEPT !.pid = NoPid]
      /\ net' = net \/ net' = WithoutTun
      /\ UNCHANGED <<config, clash>>
  BY DEF KillChild
<1>2. NoneNamed'
  BY <1>1, EndedType DEF NoneNamed, Named, Lives, OneRuntime
<1>3. RuntimeTypeOK'
  <2>1. child' \in [Pid -> Process]
    BY <1>1, EndedType DEF RuntimeTypeOK, Process
  <2> QED
    BY <1>1, <2>1 DEF RuntimeTypeOK, WithoutTun, Steps, Process
<1> QED
  BY <1>1, <1>2, <1>3 DEF RuntimeTypeOK, OneRuntime, Quiet, Pinned, Stopping, DownCleans, NoneNamed

(* down removes the routes, and the interface from whoever holds it.         *)
LEMMA UnrouteStep == DInv /\ Unroute => DInv'
<1> SUFFICES ASSUME DInv, Unroute PROVE DInv'
  OBVIOUS
<1> USE DEF DInv
<1>1. /\ ctl' = [ctl EXCEPT !.at = "restore"] /\ ctl.at = "unroute"
      /\ net' = [default |-> {}, pinned |-> net.pinned \ {config.host}]
      /\ UNCHANGED <<config, files, clash>>
  BY DEF Unroute, Goto
<1>2. child' \in [Pid -> Process]
  BY DEF Unroute, RuntimeTypeOK, Process
<1>3. NoneNamed'
  BY <1>1 DEF Unroute, RuntimeTypeOK, Quiet, NoneNamed, Named, Lives
<1>4. RuntimeTypeOK'
  BY <1>1, <1>2 DEF RuntimeTypeOK, Steps, Process
<1> QED
  BY <1>1, <1>3, <1>4
  DEF RuntimeTypeOK, OneRuntime, Quiet, Pinned, Stopping, DownCleans, NoneNamed

(* down's last steps, files it cannot read, and a command that is killed.    *)
LEMMA LastSteps ==
    ASSUME DInv, StateUnreadable \/ PidUnreadable \/ Restore \/ Forget \/ Killed
    PROVE  DInv'
<1> USE DEF DInv
<1>1. UNCHANGED <<child, config, net>>
  BY DEF StateUnreadable, PidUnreadable, Restore, Forget, Killed, world
<1>2. RuntimeTypeOK'
  BY <1>1
  DEF RuntimeTypeOK, StateUnreadable, PidUnreadable, Restore, Forget, Killed, world, Exit, Goto,
      Steps, NoState
<1>3. OneRuntime'
  <2>1. files'.pid = files.pid \/ files.pid = TornPid
    BY DEF RuntimeTypeOK, StateUnreadable, PidUnreadable, Restore, Forget, Killed, world
  <2> QED
    BY <1>1, <2>1, RuntimeAssumption DEF OneRuntime, Named, Lives
<1>4. Quiet' /\ Pinned'
  BY <1>1
  DEF RuntimeTypeOK, Quiet, Pinned, NoneNamed, Named, Lives, StateUnreadable, PidUnreadable,
      Restore, Forget, Killed, world, Exit, Goto
<1>5. Stopping' /\ DownCleans'
  BY <1>1
  DEF RuntimeTypeOK, Quiet, NoneNamed, Named, Lives, Stopping, DownCleans, StateUnreadable,
      PidUnreadable, Restore, Forget, Killed, world, Exit, Goto
<1> QED
  BY <1>2, <1>3, <1>4, <1>5

(* A proxy dials and enters its tunnel, falls back to dialing, or ends.      *)
LEMMA ProxySteps ==
    ASSUME DInv, NEW p \in Pid, ProxyConnects(p) \/ ProxyFails(p)
    PROVE  DInv'
<1> USE DEF DInv
<1>1. /\ child' \in [Pid -> Process]
      /\ \A q \in Pid : Lives(q)' =>
            /\ Lives(q) /\ child'[q].host = child[q].host /\ child'[q].named = child[q].named
  BY EndedType DEF ProxyConnects, ProxyFails, Lives, RuntimeTypeOK, Process
<1>2. UNCHANGED <<config, ctl, files, clash>> /\ (net' = net \/ net' = WithoutTun)
  BY DEF ProxyConnects, ProxyFails
<1>3. RuntimeTypeOK'
  BY <1>1, <1>2 DEF RuntimeTypeOK, WithoutTun, Process
<1>4. \A q \in Pid : Named(q)' => Named(q)
  BY <1>1 DEF Named
<1>5. OneRuntime' /\ Quiet'
  BY <1>2, <1>4 DEF OneRuntime, Quiet, NoneNamed
<1>6. net'.pinned = net.pinned
  BY <1>2 DEF WithoutTun, RuntimeTypeOK
<1>7. Pinned'
  <2>1. \A q \in Pid : Named(q)' => child'[q].host \in net'.pinned
    BY <1>1, <1>4, <1>6 DEF Pinned, Named
  <2>2. ctl.at = "record" => (Lives(ctl.pid)' => child'[ctl.pid].host = config'.host)
    BY <1>1, <1>2 DEF Pinned
  <2> QED
    BY <1>2, <1>6, <2>1, <2>2 DEF Pinned
<1>8. Stopping' /\ DownCleans'
  BY <1>2, <1>4 DEF RuntimeTypeOK, Stopping, DownCleans, WithoutTun
<1> QED
  BY <1>3, <1>5, <1>7, <1>8

(* The window and the shell begin and end commands, and save configurations  *)
(* while none runs.                                                          *)
LEMMA UserSteps ==
    ASSUME DInv,
           SwitchClash \/ SaveProfile \/ ConnectClient \/ DisconnectClient \/ ProcessFinished
             \/ StatusTimer \/ StatusReads \/ StatusFinished
             \/ ShellBegins \/ ShellEnds \/ ShellSaves
    PROVE  DInv'
<1> USE DEF DInv
<1>1. UNCHANGED <<files, child, net>> /\ config' \in Config
  BY DEF SwitchClash, SaveProfile, ConnectClient, DisconnectClient, ProcessFinished, StatusTimer,
         StatusReads, StatusFinished, ShellBegins, ShellEnds, ShellSaves, world, runtimeVars,
         Begin, RuntimeTypeOK
<1>2. clash' \in {"on", "off", "suspended"}
  BY DEF SwitchClash, SaveProfile, ConnectClient, DisconnectClient, ProcessFinished, StatusTimer,
         StatusReads, StatusFinished, ShellBegins, ShellEnds, ShellSaves, world, runtimeVars,
         Begin, RuntimeTypeOK
<1>3. \/ ctl' = ctl /\ (config' = config \/ ctl.at = "idle")
      \/ ctl' = Idle
      \/ \E act \in {"up", "down"}, refused \in BOOLEAN :
            ctl' = [act |-> act, suspended |-> FALSE, ok |-> ~refused, pid |-> NoPid,
                    at |-> IF refused THEN "exit" ELSE IF act = "up" THEN "check" ELSE "kill"]
  BY DEF SwitchClash, SaveProfile, ConnectClient, DisconnectClient, ProcessFinished, StatusTimer,
         StatusReads, StatusFinished, ShellBegins, ShellEnds, ShellSaves, world, runtimeVars,
         Begin
<1>4. ctl' \in [act: {"up", "down"}, at: Steps \cup {"idle", "exit"},
                suspended: BOOLEAN, ok: BOOLEAN, pid: Pid \cup {NoPid}]
  <2>1. CASE ctl' = ctl
    BY <2>1 DEF RuntimeTypeOK
  <2>2. CASE ctl' = Idle
    BY <2>2 DEF Idle
  <2>3. CASE \E act \in {"up", "down"}, refused \in BOOLEAN :
               ctl' = [act |-> act, suspended |-> FALSE, ok |-> ~refused, pid |-> NoPid,
                       at |-> IF refused THEN "exit" ELSE IF act = "up" THEN "check" ELSE "kill"]
    BY <2>3 DEF Steps
  <2> QED
    BY <1>3, <2>1, <2>2, <2>3
<1>5. RuntimeTypeOK'
  BY <1>1, <1>2, <1>4 DEF RuntimeTypeOK
<1> QED
  BY <1>1, <1>3, <1>5
  DEF RuntimeTypeOK, OneRuntime, Quiet, Pinned, Stopping, DownCleans, NoneNamed, Named, Lives, Idle

(* Every step keeps the invariant, one action at a time.                     *)
LEMMA DStep == DInv /\ [Next]_vars => DInv'
<1> SUFFICES ASSUME DInv, [Next]_vars PROVE DInv'
  OBVIOUS
<1>1. CASE UNCHANGED vars
  BY <1>1 DEF vars, runtimeVars, DInv, RuntimeTypeOK, OneRuntime, Quiet, Pinned, Stopping,
              DownCleans, NoneNamed, Named, Lives
<1>2. CASE CtlStep
  BY <1>2, CheckStep, ResolveStep, WriteStep, RouteSteps, LaunchStep,
     RecordStep, KillStep, UnrouteStep, LastSteps DEF CtlStep
<1>3. CASE Environment
  BY <1>3, LastSteps, ProxySteps, UserSteps DEF Environment
<1> QED
  BY <1>1, <1>2, <1>3, UserSteps DEF Next

-----------------------------------------------------------------------------
(* DInv is an invariant of the runtime under the window and the shell.       *)
THEOREM DInvAlways == Spec => []DInv
BY DInit, DStep, PTL DEF Spec

(* Of the proxies that the pid file was written for at most one lives, and   *)
(* the file names it, wherever commands end (linux_client_app.py,            *)
(* start_runtime and stop_runtime).                                          *)
THEOREM OneRuntimeAlways == Spec => []OneRuntime
<1>1. DInv => OneRuntime
  BY DEF DInv
<1> QED
  BY <1>1, DInvAlways, PTL

(* The packets of such a proxy's tunnel never go into the tunnel             *)
(* (_resolve_underlay_route).                                                *)
THEOREM NoLoopEver == Spec => []NoLoop
<1>1. DInv => NoLoop
  BY DEF DInv, Pinned, NoLoop, Named
<1> QED
  BY <1>1, DInvAlways, PTL

(* A successful `down` leaves no file, no default route and no such proxy    *)
(* behind (stop_runtime).                                                    *)
THEOREM DownAlwaysCleans == Spec => []DownCleans
<1>1. DInv => DownCleans
  BY DEF DInv
<1> QED
  BY <1>1, DInvAlways, PTL
-----------------------------------------------------------------------------
(* Where commands do not end between Popen and the pid file, the only proxy  *)
(* without a pid file is the one just started.                               *)
Attended ==
    \A p \in Pid : Lives(p) /\ ~child[p].named => ctl.at = "record" /\ ctl.pid = p

LEMMA AttendedStep ==
    ASSUME "record" \notin KillPoints, DInv, Attended, [Next]_vars
    PROVE  Attended'
<1> USE DEF DInv
<1>1. CASE UNCHANGED vars
  BY <1>1 DEF vars, runtimeVars, Attended, Lives
<1>2. CASE RecordPid
  <2>1. CASE UNCHANGED <<ctl, child>>
    BY <1>2, <2>1 DEF RecordPid, Attended, Lives
  <2>2. CASE child' = [child EXCEPT ![ctl.pid].named = Lives(ctl.pid)]
    <3>1. ctl.pid \in Pid /\ Lives(ctl.pid) \in BOOLEAN
      BY <1>2 DEF RecordPid, Pinned, Lives
    <3>2. child'[ctl.pid].named = Lives(ctl.pid) /\ child'[ctl.pid].at = child[ctl.pid].at
          /\ \A q \in Pid \ {ctl.pid} : child'[q] = child[q]
      BY <2>2, <3>1 DEF RuntimeTypeOK
    <3> QED
      BY <3>1, <3>2 DEF Attended, Lives
  <2> QED
    BY <1>2, <2>1, <2>2 DEF RecordPid
<1>3. CASE Launch
  <2>1. CASE UNCHANGED child
    BY <1>3, <2>1 DEF Launch, Attended, Lives
  <2>2. ASSUME NEW p \in Pid,
               child' = [child EXCEPT ![p] = [at |-> "dialing", host |-> config.host,
                                              named |-> FALSE]],
               ctl' = [ctl EXCEPT !.at = "record", !.pid = p]
        PROVE  Attended'
    <3>1. \A q \in Pid \ {p} : child'[q] = child[q]
      BY <2>2 DEF RuntimeTypeOK
    <3>2. ctl'.at = "record" /\ ctl'.pid = p
      BY <2>2 DEF RuntimeTypeOK
    <3>3. ctl.at = "launch"
      BY <1>3 DEF Launch
    <3> QED
      BY <3>1, <3>2, <3>3 DEF Attended, Lives
  <2> QED
    BY <1>3, <2>1, <2>2 DEF Launch
<1>4. CASE \E p \in Pid : ProxyConnects(p) \/ ProxyFails(p)
  <2>1. UNCHANGED ctl /\ \A q \in Pid : Lives(q)' => Lives(q) /\ child'[q].named = child[q].named
    BY <1>4, EndedType DEF ProxyConnects, ProxyFails, Lives, RuntimeTypeOK
  <2> QED
    BY <2>1 DEF Attended
<1>5. CASE \/ Check \/ Suspend \/ Resolve \/ WriteState \/ WaitForTun \/ RouteLow \/ RouteHigh
           \/ KillChild \/ StateUnreadable \/ PidUnreadable \/ Unroute \/ Restore \/ Forget
           \/ Killed
  <2>1. ctl.at # "record"
    BY <1>5
    DEF Check, Suspend, Resolve, WriteState, WaitForTun, RouteLow, RouteHigh, Route, KillChild,
        StateUnreadable, PidUnreadable, Unroute, Restore, Forget, Killed
  <2>2. \A q \in Pid : Lives(q)' => Lives(q) /\ child'[q].named = child[q].named
    <3>1. CASE KillChild \/ Unroute
      BY <3>1, EndedType DEF KillChild, Unroute, Lives, RuntimeTypeOK
    <3>2. CASE UNCHANGED child
      BY <3>2 DEF Lives
    <3> QED
      BY <1>5, <3>1, <3>2
      DEF Check, Suspend, Resolve, WriteState, WaitForTun, RouteLow, RouteHigh, Route,
          StateUnreadable, PidUnreadable, Restore, Forget, Killed, world
  <2> QED
    BY <2>1, <2>2 DEF Attended
<1>6. CASE \/ SwitchClash \/ SaveProfile \/ ConnectClient \/ DisconnectClient \/ ProcessFinished
           \/ StatusTimer \/ StatusReads \/ StatusFinished
           \/ ShellBegins \/ ShellEnds \/ ShellSaves
  <2>1. UNCHANGED child /\ (UNCHANGED ctl \/ ctl.at # "record")
    BY <1>6
    DEF SwitchClash, SaveProfile, ConnectClient, DisconnectClient, ProcessFinished, StatusTimer,
        StatusReads, StatusFinished, ShellBegins, ShellEnds, ShellSaves, world, runtimeVars, Begin
  <2> QED
    BY <2>1 DEF Attended, Lives
<1> QED
  BY <1>1, <1>2, <1>3, <1>4, <1>5, <1>6 DEF Next, CtlStep, Environment

(* `down` stops the VPN wherever else commands are ended: the only step at    *)
(* which an ended command makes it miss a proxy is the one between Popen and  *)
(* the pid file (start_runtime, stop_runtime).                                *)
THEOREM DownStopsUnlessCut ==
    ASSUME "record" \notin KillPoints
    PROVE  Spec => []DownStops
<1>1. Init => DInv /\ Attended
  BY DInit, EndedType DEF Init, RuntimeInit, Attended, Lives
<1>2. DInv /\ Attended /\ [Next]_vars => (DInv /\ Attended)'
  BY DStep, AttendedStep
<1>3. DInv /\ Attended => DownStops
  BY DEF DInv, Attended, DownCleans, DownStops, Named
<1> QED
  BY <1>1, <1>2, <1>3, PTL DEF Spec
-----------------------------------------------------------------------------
(* A control command that is under way stays so until it has exited, and a   *)
(* command that has not begun does not move.                                 *)
LEMMA CommandRuns ==
  ASSUME RuntimeTypeOK, CtlStep \/ Environment
  PROVE  ctl'.at = "idle" <=> ctl.at = "idle"
<1> USE DEF RuntimeTypeOK, Goto, Exit, Undo
<1>1. CASE CtlStep
  BY <1>1
  DEF CtlStep, Check, Suspend, Resolve, Launch, RecordPid, WriteState, WaitForTun, RouteLow,
      RouteHigh, Route, KillChild, StateUnreadable, PidUnreadable, Unroute, Restore, Forget
<1>2. CASE Environment
  BY <1>2, RuntimeAssumption
  DEF Environment, Killed, SwitchClash, ProxyConnects, ProxyFails, Steps
<1> QED
  BY <1>1, <1>2

(* Every step keeps the window's part of DesktopTypeOK.                      *)
LEMMA DesktopStep ==
  ASSUME DInv, DesktopTypeOK, [Next]_vars
  PROVE  DesktopTypeOK'
<1> DEFINE Gui == [buttons: BOOLEAN, flight: {"no", "reading", "error", "running", "stopped"},
                   label: {"unknown", "error", "running", "stopped"}]
<1>1. RuntimeTypeOK'
  BY DStep DEF DInv
<1>2. RuntimeTypeOK /\ gui \in Gui /\ owner \in {"window", "shell"}
      /\ gui.buttons = ~(owner = "window" /\ ctl.at # "idle")
  BY DEF DesktopTypeOK
<1>3. \A g \in Gui : Refreshed(g) \in Gui /\ Refreshed(g).buttons = g.buttons
  BY DEF Refreshed
<1>4. \A b \in BOOLEAN : [gui EXCEPT !.buttons = b] \in Gui /\ [gui EXCEPT !.buttons = b].buttons = b
  BY <1>2
<1> HIDE DEF Gui
<1> SUFFICES /\ gui' \in Gui /\ owner' \in {"window", "shell"}
             /\ gui'.buttons = ~(owner' = "window" /\ ctl'.at # "idle")
  BY <1>1 DEF DesktopTypeOK, Gui
<1>5. CASE (CtlStep \/ Environment) /\ UNCHANGED <<gui, owner>>
  BY <1>2, <1>5, CommandRuns
<1>6. CASE SaveProfile
  BY <1>2, <1>3, <1>6 DEF SaveProfile
<1>7. CASE ConnectClient
  <2>1. gui' = [Refreshed(gui) EXCEPT !.buttons = FALSE] => gui' \in Gui /\ gui'.buttons = FALSE
    BY <1>2, <1>3 DEF Gui
  <2>2. ctl'.at # "idle"
    BY <1>7 DEF ConnectClient, Begin
  <2> QED
    BY <1>2, <1>4, <1>7, <2>1, <2>2 DEF ConnectClient
<1>8. CASE DisconnectClient
  <2>1. ctl'.at # "idle"
    BY <1>8 DEF DisconnectClient, Begin
  <2> QED
    BY <1>2, <1>4, <1>8, <2>1 DEF DisconnectClient
<1>9. CASE ProcessFinished
  BY <1>2, <1>3, <1>4, <1>9 DEF ProcessFinished, Idle
<1>10. CASE StatusTimer
  BY <1>2, <1>3, <1>10 DEF StatusTimer, runtimeVars
<1>11. CASE StatusReads
  BY <1>2, <1>11 DEF StatusReads, runtimeVars, StatusNow, Gui
<1>12. CASE StatusFinished
  BY <1>2, <1>12 DEF StatusFinished, runtimeVars, Gui
<1>13. CASE ShellBegins
  BY <1>2, <1>13 DEF ShellBegins, Begin
<1>14. CASE ShellEnds
  BY <1>2, <1>14 DEF ShellEnds, Idle
<1>15. CASE ShellSaves
  BY <1>2, <1>15 DEF ShellSaves
<1>16. CASE UNCHANGED vars
  BY <1>2, <1>16 DEF vars, runtimeVars
<1> QED
  BY <1>5, <1>6, <1>7, <1>8, <1>9, <1>10, <1>11, <1>12, <1>13, <1>14, <1>15, <1>16 DEF Next

(* The types, and the window's buttons: disabled exactly while a command of  *)
(* the window runs, however commands of a shell interleave with it           *)
(* (_run_process, _process_finished).                                        *)
THEOREM DesktopTypeAlways == Spec => []DesktopTypeOK
<1>1. Init => DInv /\ DesktopTypeOK
  <2>1. Init => ctl.at = "idle" /\ gui.buttons = TRUE /\ owner = "shell"
    BY DEF Init, RuntimeInit, Idle
  <2>2. Init => RuntimeTypeOK
    BY DInit DEF DInv
  <2>3. Init => gui \in [buttons: BOOLEAN,
                         flight: {"no", "reading", "error", "running", "stopped"},
                         label: {"unknown", "error", "running", "stopped"}]
    BY DEF Init
  <2>4. Init => ~(owner = "window" /\ ctl.at # "idle") /\ owner \in {"window", "shell"}
    BY <2>1
  <2>5. Init => gui.buttons = ~(owner = "window" /\ ctl.at # "idle")
    BY <2>1, <2>4
  <2> QED
    BY <2>2, <2>3, <2>4, <2>5, DInit DEF DesktopTypeOK
<1>2. DInv /\ DesktopTypeOK /\ [Next]_vars => (DInv /\ DesktopTypeOK)'
  BY DStep, DesktopStep
<1> QED
  BY <1>1, <1>2, PTL DEF Spec
=============================================================================
