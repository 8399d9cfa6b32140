---------------------------- MODULE LinuxRuntime ----------------------------
(***************************************************************************)
(* The runtime of the Linux VPN client, veil_core/linux_client_app.py: one   *)
(* control command (`veil-vpn up`, `veil-vpn down`) at a time, the files it   *)
(* leaves for the next one, and what it does to the machine: the proxy       *)
(* process, its TUN interface, the routes, and the other VPN's service.      *)
(* A system is one tunnel name; paths, addresses and logs are left out.      *)
(***************************************************************************)
EXTENDS Naturals, FiniteSets

CONSTANTS
    Host,       \* server hosts a configuration may name
    Pid,        \* process ids
    NoPid,      \* no pid file
    TornPid,    \* a pid file opened for writing, and empty
    AsRoot,     \* status commands are root's, as the proxy is
    KillPoints  \* where a Ctrl-C, a kill or a failing write may end the control command

Steps == {"check", "suspend", "resolve", "launch", "record", "write", "wait", "low", "high",
          "kill", "unroute", "restore", "forget"}

ASSUME RuntimeAssumption ==
    /\ NoPid \notin Pid /\ TornPid \notin Pid /\ NoPid # TornPid
    /\ Pid # {} /\ Host # {} /\ KillPoints \subseteq Steps /\ AsRoot \in BOOLEAN

VARIABLES
    config, \* the configuration file: server_host, suspend_conflicting_services
    ctl,    \* the control command: its action, its step, its result, the
            \* pid of the proxy it has started and not yet recorded
    files,  \* <tun>.pid and <tun>.env.json
    child,  \* the proxy processes: what each does, which server it dials, and whether
            \* its pid has been written to the pid file (history)
    net,    \* default: the two half-default routes; pinned: hosts with a route of their own
    clash   \* the other VPN's service: "on", "off", or "suspended" by a control command

world == <<files, child, net, clash>>
runtimeVars == <<config, ctl, files, child, net, clash>>

Config == [host: Host, suspend: BOOLEAN]
NoState == "none"

Ended == [at |-> "none", host |-> CHOOSE h \in Host : TRUE, named |-> FALSE]
Idle == [act |-> "up", at |-> "idle", suspended |-> FALSE, ok |-> TRUE, pid |-> NoPid]

RuntimeInit ==
    /\ config \in Config
    /\ ctl = Idle
    /\ files = [pid |-> NoPid, state |-> NoState]
    /\ child = [p \in Pid |-> Ended]
    /\ net = [default |-> {}, pinned |-> {}]
    /\ clash \in {"on", "off"}

Lives(p)  == child[p].at # "none"
TunExists == \E p \in Pid : child[p].at = "tunnel"
Alive(p)  == p \in Pid /\ Lives(p)            \* int() and os.kill(pid, 0)
Named(p)  == Lives(p) /\ child[p].named

(* A route over the interface goes with the interface.                       *)
WithoutTun == [net EXCEPT !.default = {}]

Goto(at) == ctl' = [ctl EXCEPT !.at = at]
Exit(ok) == ctl' = [ctl EXCEPT !.at = "exit", !.ok = ok, !.pid = NoPid]
(* start_runtime() failed after it had written its files: stop_runtime().    *)
Undo == ctl' = [ctl EXCEPT !.at = "kill", !.ok = FALSE]

-----------------------------------------------------------------------------
(* start_runtime().                                                          *)

(* Mutant: a pid file that a living process owns is ignored.                 *)
Check_ignoresPid ==
    /\ ctl.at = "check"
    /\ IF clash = "on" /\ ~config.suspend
       THEN Exit(FALSE) /\ UNCHANGED files
       ELSE /\ files' = [files EXCEPT !.pid = NoPid]
            /\ Goto(IF config.suspend THEN "suspend" ELSE "resolve")
    /\ UNCHANGED <<config, child, net, clash>>

(* A pid file without a number is an error, and stays.                       *)
Check ==
    /\ ctl.at = "check"
    /\ IF Alive(files.pid) \/ files.pid = TornPid THEN Exit(FALSE) /\ UNCHANGED files
       ELSE /\ files' = [files EXCEPT !.pid = NoPid]
            /\ IF clash = "on" /\ ~config.suspend THEN Exit(FALSE)
               ELSE Goto(IF config.suspend THEN "suspend" ELSE "resolve")
    /\ UNCHANGED <<config, child, net, clash>>

(* _suspend_conflicting_services(): the service as it is now.                *)
Suspend ==
    /\ ctl.at = "suspend"
    /\ ctl' = [ctl EXCEPT !.at = "resolve", !.suspended = (clash = "on")]
    /\ clash' = IF clash = "on" THEN "suspended" ELSE clash
    /\ UNCHANGED <<config, files, child, net>>

(* Mutant: the server is reached over whatever route there is.               *)
Resolve_unpinned ==
    /\ ctl.at = "resolve" /\ Goto("launch")
    /\ UNCHANGED <<config, world>>

(* The route to the server is still pinned to the other VPN after 5 s, or    *)
(* there is none; or it gets a route of its own.                             *)
Resolve ==
    /\ ctl.at = "resolve"
    /\ \/ Exit(FALSE) /\ UNCHANGED net
       \/ Goto("launch") /\ net' = [net EXCEPT !.pinned = @ \cup {config.host}]
    /\ UNCHANGED <<config, files, child, clash>>

(* Popen(), which may fail; the proxy is in a session of its own and does    *)
(* not go with the command.                                                  *)
Launch ==
    /\ ctl.at = "launch"
    /\ \/ Exit(FALSE) /\ UNCHANGED child
       \/ \E p \in Pid :
            /\ ~Lives(p)
            /\ child' = [child EXCEPT ![p] = [at |-> "dialing", host |-> config.host,
                                             named |-> FALSE]]
            /\ ctl' = [ctl EXCEPT !.at = "record", !.pid = p]
    /\ UNCHANGED <<config, files, net, clash>>

(* The pid file is truncated, then written.                                  *)
RecordPid ==
    /\ ctl.at = "record"
    /\ IF files.pid # TornPid
       THEN files' = [files EXCEPT !.pid = TornPid] /\ UNCHANGED <<ctl, child>>
       ELSE /\ files' = [files EXCEPT !.pid = ctl.pid]
            /\ child' = [child EXCEPT ![ctl.pid].named = Lives(ctl.pid)]
            /\ ctl' = [ctl EXCEPT !.at = "write", !.pid = NoPid]
    /\ UNCHANGED <<config, net, clash>>

(* The state file is truncated, then written; a reader in between finds no   *)
(* JSON in it.                                                               *)
WriteState ==
    /\ ctl.at = "write"
    /\ IF files.state # "torn"
       THEN files' = [files EXCEPT !.state = "torn"] /\ UNCHANGED ctl
       ELSE /\ files' = [files EXCEPT !.state = IF ctl.suspended THEN "owes" ELSE "plain"]
            /\ Goto("wait")
    /\ UNCHANGED <<config, child, net, clash>>

WaitForTun ==
    /\ ctl.at = "wait"
    /\ IF TunExists THEN Goto("low") ELSE Undo              \* after 30 s
    /\ UNCHANGED <<config, world>>

Route(half, next) ==
    /\ ctl.at = half
    /\ IF TunExists THEN net' = [net EXCEPT !.default = @ \cup {half}] /\ next
                    ELSE Undo /\ UNCHANGED net
    /\ UNCHANGED <<config, files, child, clash>>

RouteLow  == Route("low", Goto("high"))
RouteHigh == Route("high", Exit(TRUE))

-----------------------------------------------------------------------------
(* stop_runtime().                                                           *)

(* Mutant: the process is left to notice that its interface has gone.        *)
KillChild_forgotten ==
    /\ ctl.at = "kill"
    /\ ctl' = [ctl EXCEPT !.at = "unroute", !.suspended = (files.state = "owes")]
    /\ files' = [files EXCEPT !.pid = NoPid]
    /\ UNCHANGED <<config, child, net, clash>>

(* The state is read first, and a torn file is an error.  The proxy does not *)
(* handle SIGTERM, so that ends it.                                          *)
KillChild ==
    /\ ctl.at = "kill" /\ files.state # "torn" /\ files.pid # TornPid
    /\ ctl' = [ctl EXCEPT !.at = "unroute", !.suspended = (files.state = "owes")]
    /\ child' = [p \in Pid |-> IF p = files.pid THEN Ended ELSE child[p]]
    /\ net' = IF \E p \in Pid : child'[p].at = "tunnel" THEN net ELSE WithoutTun
    /\ files' = [files EXCEPT !.pid = NoPid]
    /\ UNCHANGED <<config, clash>>

StateUnreadable ==
    /\ ctl.at = "kill" /\ files.state = "torn" /\ Exit(FALSE)
    /\ UNCHANGED <<config, world>>

(* int() raises, and `finally` removes the file that held no number.         *)
PidUnreadable ==
    /\ ctl.at = "kill" /\ files.state # "torn" /\ files.pid = TornPid /\ Exit(FALSE)
    /\ files' = [files EXCEPT !.pid = NoPid]
    /\ UNCHANGED <<config, child, net, clash>>

(* The host is the one the configuration names now.  Deleting an interface   *)
(* that a process still holds makes the process fail.                        *)
Unroute ==
    /\ ctl.at = "unroute" /\ Goto("restore")
    /\ net' = [default |-> {}, pinned |-> net.pinned \ {config.host}]
    /\ child' = [p \in Pid |-> IF child[p].at = "tunnel" THEN [child[p] EXCEPT !.at = "dialing"]
                                                         ELSE child[p]]
    /\ UNCHANGED <<config, files, clash>>

(* `systemctl start` is checked; when it fails, the state file stays.        *)
Restore ==
    /\ ctl.at = "restore"
    /\ \/ ctl.suspended /\ clash' = "on" /\ Goto("forget")
       \/ ctl.suspended /\ Exit(FALSE) /\ UNCHANGED clash
       \/ ~ctl.suspended /\ Goto("forget") /\ UNCHANGED clash
    /\ UNCHANGED <<config, files, child, net>>

Forget ==
    /\ ctl.at = "forget" /\ Exit(ctl.ok)
    /\ files' = [files EXCEPT !.state = NoState]
    /\ UNCHANGED <<config, child, net, clash>>

CtlStep ==
    \/ Check \/ Suspend \/ Resolve \/ Launch \/ RecordPid \/ WriteState
    \/ WaitForTun \/ RouteLow \/ RouteHigh
    \/ KillChild \/ StateUnreadable \/ PidUnreadable \/ Unroute \/ Restore \/ Forget

-----------------------------------------------------------------------------
(* The command begins; the privilege helper may refuse to run it.  It loads  *)
(* the configuration once, so that `config` is only saved between commands   *)
(* here: a save meanwhile concerns the next command.                         *)
Begin(act) ==
    /\ ctl.at = "idle"
    /\ \E refused \in BOOLEAN :
        ctl' = [act |-> act, suspended |-> FALSE, ok |-> ~refused, pid |-> NoPid,
                at |-> IF refused THEN "exit" ELSE IF act = "up" THEN "check" ELSE "kill"]
    /\ UNCHANGED world

Killed ==
    /\ ctl.at \in KillPoints
    /\ Exit(FALSE)
    /\ UNCHANGED <<config, world>>

-----------------------------------------------------------------------------
(* The proxy process.  With --reconnect it dials again when its connection   *)
(* is gone and opens the interface anew; without, or on SIGKILL, it ends.    *)

ProxyConnects(p) ==
    /\ child[p].at = "dialing" /\ ~TunExists
    /\ child' = [child EXCEPT ![p].at = "tunnel"]
    /\ UNCHANGED <<config, ctl, files, net, clash>>

ProxyFails(p) ==
    /\ Lives(p)
    /\ \/ child' = [child EXCEPT ![p] = Ended]
       \/ child[p].at = "tunnel" /\ child' = [child EXCEPT ![p].at = "dialing"]
    /\ net' = IF child[p].at = "tunnel" THEN WithoutTun ELSE net
    /\ UNCHANGED <<config, ctl, files, clash>>

(* The owner of the other VPN switches it on and off.                        *)
SwitchClash ==
    /\ ctl.at = "idle"
    /\ clash' = IF clash = "on" THEN "off" ELSE "on"
    /\ UNCHANGED <<config, ctl, files, child, net>>

Environment ==
    \/ Killed \/ SwitchClash
    \/ \E p \in Pid : ProxyConnects(p) \/ ProxyFails(p)

-----------------------------------------------------------------------------
(* read_runtime_status(): what a status command that runs now prints.  The   *)
(* window's runs without privileges, and may not signal root's process.      *)
StatusNow ==
    IF files.state = "torn" THEN "error"
    ELSE IF (AsRoot /\ Alive(files.pid)) \/ (TunExists /\ files.state # NoState) THEN "running"
    ELSE "stopped"

(* Types of what the control commands and the machine keep.                 *)
RuntimeTypeOK ==
    /\ config \in Config
    /\ ctl \in [act: {"up", "down"}, at: Steps \cup {"idle", "exit"},
                suspended: BOOLEAN, ok: BOOLEAN, pid: Pid \cup {NoPid}]
    /\ files \in [pid: Pid \cup {NoPid, TornPid}, state: {NoState, "torn", "plain", "owes"}]
    /\ child \in [Pid -> [at: {"none", "dialing", "tunnel"}, host: Host, named: BOOLEAN]]
    /\ net \in [default: SUBSET {"low", "high"}, pinned: SUBSET Host]
    /\ clash \in {"on", "off", "suspended"}

(* However often a proxy dies, wherever a command is interrupted or fails,   *)
(* and whatever is saved meanwhile: of the proxies whose pid reached the pid *)
(* file at most one runs, and the file still names it, so that `down` finds  *)
(* it.  A command ended between Popen and that write leaves one beside it    *)
(* that no file names: see DownStops.                                        *)
OneRuntime ==
    \A p \in Pid : Named(p) => files.pid = p

(* While the default route goes into the tunnel of a proxy that the pid file *)
(* was written for, the tunnel's own packets do not: the server it talks to  *)
(* has a route beside it, whatever command was interrupted where.            *)
NoLoop ==
    \A p \in Pid :
        child[p].at = "tunnel" /\ Named(p) /\ net.default # {} => child[p].host \in net.pinned

(* A `down` that reports success leaves no default route, no files and no    *)
(* proxy that the pid file was ever written for, whatever it found.          *)
DownCleans ==
    ctl.at = "exit" /\ ctl.act = "down" /\ ctl.ok =>
        /\ \A p \in Pid : ~Named(p)
        /\ net.default = {}
        /\ files = [pid |-> NoPid, state |-> NoState]

(* A `down` that reports success has stopped the VPN: no proxy process runs  *)
(* (VPN.md gives `veil-vpn down` as the way to stop it).                     *)
DownStops ==
    ctl.at = "exit" /\ ctl.act = "down" /\ ctl.ok => \A p \in Pid : ~Lives(p)

(* ... and no service that a control command suspended.                      *)
SuspendedComesBack ==
    ctl.at = "exit" /\ ctl.act = "down" /\ ctl.ok => clash # "suspended"
=============================================================================
