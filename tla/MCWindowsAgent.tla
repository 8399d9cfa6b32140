--------------------------- MODULE MCWindowsAgent ---------------------------
(* WindowsAgent for TLC: two servers, commands at least a second apart.      *)
EXTENDS WindowsAgent
=============================================================================
