---------------------------- MODULE Provisioning ----------------------------
(* How a key and a protocol get from the server's operator to a client: the server's   *)
(* configuration file, the control tool's commands that read and rewrite it            *)
(* (desktop/veil_vpn_server_ctl.py, veil_core/linux_server_app.py), the systemd        *)
(* service that loads it once when it starts, the profile or token that is handed out  *)
(* (veil_core/provisioning.py), the client's configuration that it is imported into,   *)
(* and the form of the desktop client, which is written back whenever Connect is       *)
(* pressed. Each of the five is a copy; nothing tells a copy that its origin changed.  *)
(* A key is a number: 0 is blank, and a generated key is one never used before.        *)
EXTENDS Naturals

CONSTANTS
  MaxKeys,      \* bound: keys generated or typed by the operator
  Protos,       \* the protocols the operator chooses from
  Windows       \* the client is the Windows one, whose configuration has fewer fields


VARIABLES
  file,         \* server.json
  installed,    \* the launcher and the unit file are there
  service,      \* the systemd service and the configuration its process loaded
  token,        \* the profile handed out last, or NoToken
  client,       \* the client's configuration file
  form,         \* what the desktop client's form shows
  keys,         \* keys used so far
  outdated      \* ghost: copies made before the operator's last change, or of a blank key

serverSide == <<file, installed, service>>
vars == <<file, installed, service, token, client, form, keys, outdated>>

Copy  == {"service", "token", "client", "form"}
Key   == 0..MaxKeys
Proto == [wrapper : {"none", "websocket"}, persona : {"custom", "browser_ws"}, http : BOOLEAN]
ASSUME ProvisioningAssumption ==
  MaxKeys \in Nat \ {0} /\ Protos \subseteq Proto /\ Windows \in BOOLEAN

Entry == {"absent", "enabled", "disabled"}     \* the file's list of clients: none, or one
Server == [host : BOOLEAN, psk : Key, entry : Entry, entryKey : Key, proto : Proto]
Profile == [id : {"", "entry"}, key : Key, proto : Proto]

Plain    == [wrapper |-> "none", persona |-> "custom", http |-> FALSE]
NoToken  == [id |-> "", key |-> 0, proto |-> Plain]

\* browser_ws over a WebSocket makes no sense without the HTTP upgrade.
ensure_compatible(p) ==
  IF p = [wrapper |-> "websocket", persona |-> "browser_ws", http |-> FALSE]
  THEN [p EXCEPT !.persona = "custom"] ELSE p

Keyed(c) == IF c.entry = "absent" THEN c.psk # 0 ELSE c.entryKey # 0

\* mutant: the server's own key is renewed by every load
ensure_defaults_renews(c, fresh) ==
  [c EXCEPT !.entryKey = IF c.entry # "absent" /\ @ = 0 THEN fresh ELSE @,
            !.psk      = IF c.entry = "absent" THEN fresh ELSE @,
            !.proto    = ensure_compatible(@)]

\* mutant: the persona is only adjusted by the client
ensure_defaults_anyPersona(c, fresh) ==
  [c EXCEPT !.entryKey = IF c.entry # "absent" /\ @ = 0 THEN fresh ELSE @,
            !.psk      = IF c.entry = "absent" /\ @ = 0 THEN fresh ELSE @]

\* Blank keys are generated: those of the listed clients, else the server's own.
ensure_defaults(c, fresh) ==
  [c EXCEPT !.entryKey = IF c.entry # "absent" /\ @ = 0 THEN fresh ELSE @,
            !.psk      = IF c.entry = "absent" /\ @ = 0 THEN fresh ELSE @,
            !.proto    = ensure_compatible(@)]

\* load_server_config: what a process that reads the file now works with. It keeps a
\* key it had to generate to itself.
Loaded == ensure_defaults(file, keys + 1)
Generates == IF Keyed(file) THEN keys' = keys ELSE keys < MaxKeys /\ keys' = keys + 1

\* The copies made from here are up to date, unless the key was generated for them only.
Refreshes(copies) ==
  outdated' = IF Keyed(file) THEN outdated \ copies ELSE outdated

Init ==
  /\ file = [host |-> FALSE, psk |-> 0, entry |-> "absent", entryKey |-> 0, proto |-> Plain]
  /\ installed = FALSE
  /\ service = [at |-> "disabled", config |-> file]
  /\ token = NoToken
  /\ client = NoToken
  /\ form = NoToken
  /\ keys = 0
  /\ outdated = Copy

(* The server's operator. *)
Exportable(c) == c.host /\ c.entry # "disabled"

\* export_client_profile: the first enabled client's credential, else the server's.
export_client_profile(c) ==
  IF c.entry = "absent" THEN [id |-> "", key |-> c.psk, proto |-> c.proto]
                        ELSE [id |-> "entry", key |-> c.entryKey, proto |-> c.proto]

Save(config) == file' = config

\* init, with or without --public-host and the protocol options. A file without keys
\* gets them here; one with keys keeps them.
InitCommand ==
  \E host \in {file.host, TRUE}, proto \in {file.proto} \cup Protos :
    /\ Save(ensure_defaults([Loaded EXCEPT !.host = host, !.proto = proto], keys + 1))
    /\ Generates
    /\ outdated' = IF proto = file.proto THEN outdated ELSE Copy
    /\ UNCHANGED <<installed, service, token, client, form>>

\* init --psk-hex with a key from gen-psk; the load may generate a listed client's first
RotateKey ==
  /\ keys' = IF file.entry = "absent" \/ Keyed(file) THEN keys + 1 ELSE keys + 2
  /\ keys' <= MaxKeys
  /\ Save([Loaded EXCEPT !.psk = keys'])
  /\ outdated' = Copy
  /\ UNCHANGED <<installed, service, token, client, form>>

\* There is no command for the list of clients: the operator edits the file, with a key
\* or leaving it to the program.
EditClients ==
  \E entry \in Entry, blank \in BOOLEAN :
    /\ keys < MaxKeys
    /\ Save([file EXCEPT !.entry = entry,
                         !.entryKey = IF entry = "absent" \/ blank THEN 0 ELSE keys + 1])
    /\ keys' = IF file'.entryKey = 0 THEN keys ELSE keys + 1
    /\ outdated' = Copy
    /\ UNCHANGED <<installed, service, token, client, form>>

\* install: the configuration is saved before the profile is written, and it stays
\* saved when no profile can be exported.
Install ==
  /\ file.host
  /\ Save(Loaded)
  /\ Generates
  /\ IF Exportable(Loaded)
       THEN /\ installed' = TRUE
            /\ token' = export_client_profile(Loaded)
            /\ outdated' = outdated \ {"token"}
       ELSE UNCHANGED <<installed, token, outdated>>
  /\ UNCHANGED <<service, client, form>>

\* export-client-profile, export-client-token, write-client-profile
Export ==
  /\ Exportable(file)
  /\ token' = export_client_profile(Loaded)
  /\ Generates
  /\ Refreshes({"token"})
  /\ UNCHANGED <<serverSide, client, form>>

(* systemd. *)
Loads ==
  /\ service' = [at |-> "running", config |-> Loaded]
  /\ Generates
  /\ Refreshes({"service"})
  /\ UNCHANGED <<file, installed, token, client, form>>

\* enable --now starts a service that does not run, and leaves one that runs alone.
EnableService == installed /\ service.at = "disabled" /\ Loads

ServiceStopped(at) ==
  /\ service' = [service EXCEPT !.at = at]
  /\ UNCHANGED <<file, installed, token, client, form, keys, outdated>>

DisableService == service.at # "disabled" /\ ServiceStopped("disabled")
ServiceExits   == service.at = "running" /\ ServiceStopped("restarting")
ServiceStarts  == service.at = "restarting" /\ Loads

(* The client. *)
\* The fields a client configuration has: the Windows one knows neither the client's id
\* nor the HTTP upgrade, and never adjusts the persona.
Stored(c) ==
  IF Windows THEN [c EXCEPT !.id = "", !.proto.http = FALSE]
             ELSE [c EXCEPT !.proto = ensure_compatible(@)]

import_profile(p) == Stored(p)

\* import-profile, by the command line or by the installer; the form does not notice
ImportByCtl ==
  /\ token # NoToken
  /\ client' = import_profile(token)
  /\ outdated' = IF "token" \in outdated THEN outdated \cup {"client"} ELSE outdated \ {"client"}
  /\ UNCHANGED <<serverSide, token, form, keys>>

\* the form shows what the configuration file holds
load_profile(c, old) ==
  /\ form' = c
  /\ outdated' = IF "client" \in old THEN old \cup {"form"} ELSE old \ {"form"}

\* the desktop client's import dialogs: import, then load the form again
ImportByForm ==
  /\ token # NoToken
  /\ client' = import_profile(token)
  /\ load_profile(client', IF "token" \in outdated THEN outdated \cup {"client"}
                                                  ELSE outdated \ {"client"})
  /\ UNCHANGED <<serverSide, token, keys>>

OpenForm ==
  /\ load_profile(client, outdated)
  /\ UNCHANGED <<serverSide, token, client, keys>>

\* connect_client saves the form first, over whatever the file holds by now. The form
\* has no field for the client's id: that comes from the file.
save_profile ==
  /\ client' = Stored([form EXCEPT !.id = client.id])
  /\ load_profile(client', IF "form" \in outdated THEN outdated \cup {"client"} ELSE outdated)
  /\ UNCHANGED <<serverSide, token, keys>>

Next ==
  \/ InitCommand \/ RotateKey \/ EditClients \/ Install \/ Export
  \/ EnableService \/ DisableService \/ ServiceExits \/ ServiceStarts
  \/ ImportByCtl \/ ImportByForm \/ OpenForm \/ save_profile

Spec == Init /\ [][Next]_vars

-----------------------------------------------------------------------------
\* Types; in particular no command generates more keys than the bound pays for, so that
\* a key once saved is not renewed (ensure_defaults).
ProvisionTypeOK ==
  /\ file \in Server
  /\ installed \in BOOLEAN
  /\ service \in [at : {"disabled", "running", "restarting"}, config : Server]
  /\ {token, client, form} \subseteq Profile
  /\ keys \in Key
  /\ outdated \subseteq Copy

\* The server process admits this client: its credential, over the same transport. Where
\* no client is listed the credential is the server's key, whatever client hint the
\* handshake carries: the Linux client sends its name where the profile names no id, and
\* that the responder, which is not in this repository, takes it is an assumption.
Admits(config, c) ==
  /\ c.proto = config.proto
  /\ IF config.entry = "absent" THEN c.key = config.psk
                                ELSE c.id = "entry" /\ c.key = config.entryKey

\* A client that imported a profile exported since the operator's last change is admitted
\* by a service started since then, in whatever order the operator's commands, service
\* restarts, repeated installations and saves of the client's form happened in between
\* (load_server_config, install_server_assets, export_client_profile, import-profile,
\* save_profile). What is read from a file without a key counts as outdated: every reader
\* makes up a key of its own.
ProfileFits ==
  (service.at = "running" /\ outdated \cap {"service", "token", "client"} = {})
    => Admits(service.config, client)
=============================================================================
