--------------------------- MODULE MCLinuxDesktop ---------------------------
(* LinuxDesktop for TLC: two servers to choose from, two process ids (an     *)
(* orphan and the proxy started beside it), and a control command that can   *)
(* be ended between any two of its steps.                                    *)
EXTENDS LinuxDesktop

Anywhere == Steps

(* Bound: while the window's first status command has yet to answer, any     *)
(* server may be configured and dialled; afterwards one of them only.        *)
AnyHost == CHOOSE h \in Host : TRUE
Unanswered == gui.label = "unknown" /\ gui.flight = "reading"
OneServer ==
    /\ config.host = AnyHost /\ net.pinned \subseteq {AnyHost}
    /\ \A p \in Pid : child[p].host = AnyHost
ServersBound == Unanswered \/ OneServer
=============================================================================
