---------------------------- MODULE LinuxDesktop ----------------------------
(***************************************************************************)
(* The window of the Linux VPN client, desktop/veil_vpn_client.py, and the   *)
(* command line, desktop/veil_vpn_ctl.py, over the runtime: the window runs   *)
(* control commands and status commands as processes and reacts to their     *)
(* end; a shell runs the same commands on the same configuration file.       *)
(***************************************************************************)
EXTENDS LinuxRuntime

VARIABLES
    gui,   \* buttons enabled, _refresh_in_flight with the status read, the label
    owner  \* who runs the control command: "window" or "shell"

vars == <<runtimeVars, gui, owner>>

Init ==
    /\ RuntimeInit
    /\ gui = [buttons |-> TRUE, flight |-> "reading", label |-> "unknown"]
    /\ owner = "shell"

(* refresh_status(): nothing while a status command is under way.            *)
Refreshed(g) == IF g.flight = "no" THEN [g EXCEPT !.flight = "reading"] ELSE g

-----------------------------------------------------------------------------
(* save-config and import-profile run to their end while the window waits.   *)
SaveProfile ==
    /\ gui.buttons /\ ctl.at = "idle"
    /\ config' \in Config
    /\ gui' = Refreshed(gui)
    /\ UNCHANGED <<ctl, world, owner>>

(* _run_process(): connect_client() saves the form first, and goes on with   *)
(* the configuration there is when that fails.                               *)
ConnectClient ==
    /\ gui.buttons
    /\ \/ config' \in Config /\ gui' = [Refreshed(gui) EXCEPT !.buttons = FALSE]
       \/ config' = config /\ gui' = [gui EXCEPT !.buttons = FALSE]
    /\ Begin("up")
    /\ owner' = "window"

DisconnectClient ==
    /\ gui.buttons /\ Begin("down")
    /\ owner' = "window"
    /\ gui' = [gui EXCEPT !.buttons = FALSE]
    /\ UNCHANGED config

(* Mutant: the buttons stay disabled after a command that failed.            *)
ProcessFinished_onSuccess ==
    /\ ctl.at = "exit" /\ owner = "window"
    /\ ctl' = Idle
    /\ gui' = Refreshed([gui EXCEPT !.buttons = ctl.ok])
    /\ UNCHANGED <<config, world, owner>>

ProcessFinished ==
    /\ ctl.at = "exit" /\ owner = "window"
    /\ ctl' = Idle
    /\ gui' = Refreshed([gui EXCEPT !.buttons = TRUE])
    /\ UNCHANGED <<config, world, owner>>

StatusTimer ==
    /\ gui.flight = "no"
    /\ gui' = Refreshed(gui)
    /\ UNCHANGED <<runtimeVars, owner>>

StatusReads ==
    /\ gui.flight = "reading"
    /\ gui' = [gui EXCEPT !.flight = StatusNow]
    /\ UNCHANGED <<runtimeVars, owner>>

(* Mutant: an error returns before the refresh is over.                      *)
StatusFinished_inFlight ==
    /\ gui.flight \in {"error", "running", "stopped"}
    /\ gui' = [gui EXCEPT !.flight = IF @ = "error" THEN "lost" ELSE "no", !.label = gui.flight]
    /\ UNCHANGED <<runtimeVars, owner>>

StatusFinished ==
    /\ gui.flight \in {"error", "running", "stopped"}
    /\ gui' = [gui EXCEPT !.flight = "no", !.label = gui.flight]
    /\ UNCHANGED <<runtimeVars, owner>>

-----------------------------------------------------------------------------
ShellBegins ==
    /\ \E act \in {"up", "down"} : Begin(act)
    /\ owner' = "shell"
    /\ UNCHANGED <<config, gui>>

ShellEnds ==
    /\ ctl.at = "exit" /\ owner = "shell"
    /\ ctl' = Idle
    /\ UNCHANGED <<config, world, gui, owner>>

ShellSaves ==
    /\ ctl.at = "idle"
    /\ config' \in Config
    /\ UNCHANGED <<ctl, world, gui, owner>>

Next ==
    \/ (CtlStep \/ Environment) /\ UNCHANGED <<gui, owner>>
    \/ SaveProfile \/ ConnectClient \/ DisconnectClient \/ ProcessFinished
    \/ StatusTimer \/ StatusReads \/ StatusFinished
    \/ ShellBegins \/ ShellEnds \/ ShellSaves

Spec == Init /\ [][Next]_vars

(* A control command has timeouts and ends; the window's event loop runs.    *)
Fairness ==
    /\ WF_vars(CtlStep /\ UNCHANGED <<gui, owner>>)
    /\ WF_vars(ProcessFinished)
    /\ WF_vars(StatusTimer \/ StatusReads \/ StatusFinished)

FairSpec == Spec /\ Fairness

-----------------------------------------------------------------------------
(* Types; and the buttons are disabled exactly while a command the window   *)
(* started runs (_run_process, _process_finished).                          *)
DesktopTypeOK ==
    /\ RuntimeTypeOK
    /\ gui \in [buttons: BOOLEAN, flight: {"no", "reading", "error", "running", "stopped"},
                label: {"unknown", "error", "running", "stopped"}]
    /\ owner \in {"window", "shell"}
    /\ gui.buttons = ~(owner = "window" /\ ctl.at # "idle")

(* Once the runtime stays as it is, the window comes to show it for good.    *)
StatusConverges ==
    \A shown \in {"running", "stopped"} :
        <>[](StatusNow = shown) => <>[](gui.label = shown)
=============================================================================
