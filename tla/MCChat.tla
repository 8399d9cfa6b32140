------------------------------- MODULE MCChat -------------------------------
(* Chat for TLC: the desktop client, a client-mode application and a foreign *)
(* client dial one server; the limits are small enough to be met.            *)
EXTENDS Chat

(* Bound: nobody watches the page once the foreign client has dialled, which *)
(* says nothing that the page would show.                                    *)
AudienceBound == browser.at = "off" \/ \A s \in Session : sess[s].by # "foreign"
=============================================================================
