--------------------------- MODULE MCProvisioning ---------------------------
EXTENDS Provisioning

\* no wrapper, and the browser persona over a WebSocket with and without the upgrade
MCProtos ==
  {Plain} \cup [wrapper : {"websocket"}, persona : {"browser_ws"}, http : BOOLEAN]
=============================================================================
