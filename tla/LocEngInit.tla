----------------------------- MODULE LocEngInit -----------------------------
(***************************************************************************)
(* Bringing the engine up, and up again: loc_init, loc_eng_init,           *)
(* loc_eng_agps_init and the settings that loc_eng sends to the modem.     *)
(*                                                                         *)
(* The framework's thread initialises the HAL, names the location server   *)
(* and tells whether data calls are possible, in any order.  All it wants  *)
(* of the modem it posts to the MsgTask thread.  A modem that restarts has *)
(* forgotten its settings; the callback thread then posts the messages     *)
(* that reopen the client and send the settings again.                     *)
(***************************************************************************)
EXTENDS Naturals, Sequences

CONSTANTS
    Servers,                \* addresses of a SUPL server
    NULL,                   \* no server, no value
    SensorPropertiesValid,  \* does sap.conf give a random walk parameter
    MaxCalls,               \* bound: calls of the framework
    MaxRestarts             \* bound: modem restarts

VARIABLES
    adapter,        \* loc_eng_data.adapter is set
    agps_status_cb, \* and so is loc_eng_data.agps_status_cb
    agpsStatus,     \* are data calls possible, as the framework said last
    supl_host,      \* supl_host_buf if supl_host_set
    msgq,           \* the MsgTask queue, oldest first
    sending,        \* loc_eng_reinit's copy of agpsStatus, before it is sent
    client,         \* of the modem: closed, open, stale after a restart
    enabled,        \* what LocApiBase::enableData was last called with
    modem,          \* service, and the settings it has
    wanted,         \* history: the server the framework named last, and when
    untold,         \* history: enabled need not be agpsStatus
    calls, restarts

vars == <<adapter, agps_status_cb, agpsStatus, supl_host, msgq, sending,
          client, enabled, modem, wanted, untold, calls, restarts>>

engine == <<adapter, agps_status_cb, supl_host>>
bounds == <<calls, restarts>>

(* What loc_eng_reinit sends before the state of data calls. *)
Settings ==
    <<"SuplVer", "LppConfig", "SensorControl", "AGlonass">>
        \o (IF SensorPropertiesValid THEN <<"SensorProperties">> ELSE <<>>)
        \o <<"SensorPerf">>

(* LocApiV02 has a setSensorControlConfig of other parameters, which does   *)
(* not override the one that is called: LocApiBase's, which does nothing.   *)
Overridden(setting) == setting # "SensorControl"

Blank == [up |-> TRUE, settings |-> {}, server |-> NULL, locked |-> FALSE]

Named  == {Settings[k] : k \in DOMAIN Settings}
Config == [k \in DOMAIN Settings |-> [kind |-> "Set", arg |-> Settings[k]]]
Enable(v) == [kind |-> "Enable", arg |-> v]
Server(s) == [kind |-> "Server", arg |-> s]
Plain(k)  == [kind |-> k, arg |-> NULL]

TypeOK ==
    /\ adapter \in BOOLEAN /\ agps_status_cb \in BOOLEAN
    /\ agpsStatus \in BOOLEAN
    /\ supl_host \in Servers \cup {NULL}
    /\ \A k \in DOMAIN msgq :
          \/ msgq[k] \in [kind : {"Open", "Ssr", "Init", "Up"}, arg : {NULL}]
          \/ msgq[k] \in [kind : {"Set"}, arg : Named]
          \/ msgq[k] \in [kind : {"Enable"}, arg : BOOLEAN]
          \/ msgq[k] \in [kind : {"Server"}, arg : Servers]
    /\ sending \in [by : {"none", "Init", "Up"}, value : BOOLEAN \cup {NULL}]
    /\ client \in {"closed", "open", "stale"}
    /\ modem \in [up : BOOLEAN, settings : SUBSET Named,
                  server : Servers \cup {NULL}, locked : BOOLEAN]
    /\ enabled \in BOOLEAN \cup {NULL}
    /\ wanted \in [server : Servers \cup {NULL}, early : BOOLEAN]
    /\ untold \in BOOLEAN
    /\ calls \in 0..MaxCalls /\ restarts \in 0..MaxRestarts

NotSending == [by |-> "none", value |-> NULL]

Init ==
    /\ adapter = FALSE /\ agps_status_cb = FALSE
    /\ agpsStatus = FALSE
    /\ supl_host = NULL
    /\ msgq = <<>>
    /\ sending = NotSending
    /\ client = "closed"
    /\ enabled = NULL
    /\ modem = Blank
    /\ wanted = [server |-> NULL, early |-> FALSE]
    /\ untold = FALSE
    /\ calls = 0 /\ restarts = 0

-----------------------------------------------------------------------------
(* The framework's thread.                                                  *)

Call == calls < MaxCalls /\ calls' = calls + 1 /\ UNCHANGED restarts

(* loc_eng_init clears loc_eng_data and builds the adapter, whose base      *)
(* class has the client opened.  Called again, it does nothing: cleaning up *)
(* leaves the adapter.                                                      *)
loc_eng_init ==
    /\ Call
    /\ \/ /\ ~adapter
          /\ adapter' = TRUE
          /\ agps_status_cb' = FALSE
          /\ supl_host' = NULL
          /\ msgq' = msgq \o <<Plain("Open"), Plain("Init")>>
       \/ adapter /\ UNCHANGED <<engine, msgq>>
    /\ UNCHANGED <<agpsStatus, sending, client, enabled, modem, wanted, untold>>

(* loc_eng_agps_reinit sends the server that came before init. *)
Buffered == IF supl_host # NULL THEN <<Server(supl_host)>> ELSE <<>>

loc_eng_agps_init ==
    /\ Call
    /\ adapter /\ ~agps_status_cb
    /\ agps_status_cb' = TRUE
    /\ msgq' = msgq \o Buffered
    /\ UNCHANGED <<adapter, supl_host, agpsStatus, sending, client, enabled, modem,
                   wanted, untold>>

(* loc_eng_set_server_proxy. *)
SetServer(s) ==
    /\ Call
    /\ \/ /\ adapter
          /\ msgq' = Append(msgq, Server(s))
          /\ UNCHANGED supl_host
       \/ /\ ~adapter
          /\ supl_host' = s
          /\ UNCHANGED msgq
    /\ wanted' = [server |-> s, early |-> ~adapter]
    /\ UNCHANGED <<adapter, agps_status_cb, agpsStatus, sending, client, enabled,
                   modem, untold>>

(* loc_eng_agps_ril_update_network_availability, with an APN or without.    *)
(* Without, or while loc_eng_reinit holds an older value, the new one need  *)
(* not be handed on.                                                        *)
UpdateAvailability(available, apn) ==
    /\ Call
    /\ agpsStatus' = available
    /\ \/ /\ adapter /\ apn
          /\ msgq' = Append(msgq, Enable(available))
       \/ /\ ~(adapter /\ apn)
          /\ UNCHANGED msgq
    /\ untold' = (adapter /\ (~apn \/ sending.by # "none"))
    /\ UNCHANGED <<engine, sending, client, enabled, modem, wanted>>

-----------------------------------------------------------------------------
(* The MsgTask thread.                                                      *)

Next1(kind) == sending.by = "none" /\ msgq # <<>> /\ Head(msgq).kind = kind
Taken       == Tail(msgq)

(* A request reaches the modem through a client of its present life. *)
Reached == client = "open" /\ modem.up

(* LocOpenMsg::proc, LocSsrMsg::proc: the client is opened, opened again.   *)
ProcOpen ==
    /\ \/ Next1("Open") /\ client = "closed" /\ modem.up /\ client' = "open"
       \/ Next1("Open") /\ client = "closed" /\ ~modem.up /\ UNCHANGED client
       \/ Next1("Open") /\ client # "closed" /\ UNCHANGED client
       \/ Next1("Ssr") /\ client' = IF modem.up THEN "open" ELSE "closed"
    /\ msgq' = Taken
    /\ UNCHANGED <<engine, agpsStatus, sending, enabled, modem, wanted, untold,
                   bounds>>

ReinitUnsent(by) ==
    /\ Next1(by)
    /\ msgq' = Taken \o Config
    /\ sending' = NotSending
    /\ UNCHANGED <<engine, agpsStatus, client, enabled, modem, wanted, untold, bounds>>

(* loc_eng_reinit, called by LocEngInit::proc and when the modem is back:   *)
(* the settings are posted and agpsStatus is read, ...                      *)
Reinit(by) ==
    /\ Next1(by)
    /\ msgq' = Taken \o Config
    /\ sending' = [by |-> by, value |-> agpsStatus]
    /\ untold' = FALSE
    /\ UNCHANGED <<engine, agpsStatus, client, enabled, modem, wanted, bounds>>

(* ... and the value read is posted.  The first time the engine is then     *)
(* locked, the other times the server that came before init is sent again.  *)
ReinitSend ==
    /\ sending.by # "none"
    /\ \/ /\ sending.by = "Init"
          /\ msgq' = Append(msgq, Enable(sending.value))
          /\ modem' = [modem EXCEPT !.locked = @ \/ Reached]
       \/ /\ sending.by = "Up"
          /\ msgq' = Append(msgq, Enable(sending.value))
                        \o (IF agps_status_cb THEN Buffered ELSE <<>>)
          /\ UNCHANGED modem
    /\ sending' = NotSending
    /\ UNCHANGED <<engine, agpsStatus, client, enabled, wanted, untold, bounds>>

(* LocEngSuplVer::proc and its like, LocEngSetServerUrl::proc: what does    *)
(* not reach the modem is forgotten.                                        *)
Told(kind, new) ==
    /\ Next1(kind)
    /\ msgq' = Taken
    /\ modem' = IF Reached THEN new ELSE modem
    /\ UNCHANGED <<engine, agpsStatus, sending, client, enabled, wanted, untold, bounds>>

ProcSet == Told("Set",
    [modem EXCEPT !.settings = @ \cup {a \in {Head(msgq).arg} : Overridden(a)}])
ProcServer == Told("Server", [modem EXCEPT !.server = Head(msgq).arg])

(* LocEngEnableData::proc.  LocApiV02 has no enableData, so the modem does  *)
(* not hear of it.                                                          *)
ProcEnable ==
    /\ Next1("Enable")
    /\ msgq' = Taken
    /\ enabled' = Head(msgq).arg
    /\ UNCHANGED <<engine, agpsStatus, sending, client, modem, wanted, untold,
                   bounds>>

-----------------------------------------------------------------------------
(* The modem and the callback thread.                                       *)

Crash ==
    /\ modem.up /\ restarts < MaxRestarts
    /\ restarts' = restarts + 1
    /\ modem' = [Blank EXCEPT !.up = FALSE]
    /\ client' = IF client = "open" THEN "stale" ELSE client
    /\ UNCHANGED <<engine, agpsStatus, msgq, sending, enabled, wanted, untold,
                   calls>>

(* LocApiBase::handleEngineUpEvent. *)
EngineUp ==
    /\ ~modem.up
    /\ modem' = [modem EXCEPT !.up = TRUE]
    /\ msgq' = IF adapter THEN msgq \o <<Plain("Ssr"), Plain("Up")>> ELSE msgq
    /\ UNCHANGED <<engine, agpsStatus, sending, client, enabled, wanted, untold,
                   bounds>>

Next ==
    \/ loc_eng_init \/ loc_eng_agps_init
    \/ \E s \in Servers : SetServer(s)
    \/ \E available, apn \in BOOLEAN : UpdateAvailability(available, apn)
    \/ ProcOpen \/ Reinit("Init") \/ Reinit("Up") \/ ReinitSend
    \/ ProcSet \/ ProcEnable \/ ProcServer
    \/ Crash \/ EngineUp

Spec == Init /\ [][Next]_vars

-----------------------------------------------------------------------------
(* Properties.                                                              *)

Quiet == adapter /\ msgq = <<>> /\ sending.by = "none" /\ modem.up

(* Whatever is initialised, updated and restarted in whatever order: once   *)
(* all messages are processed the client is open, the modem has in this     *)
(* life of its every setting that LocApiV02 takes, and LocApiBase was last  *)
(* told, unless an update bypassed it, whether data calls are possible.     *)
SettingsReachModem ==
    /\ TypeOK
    /\ Quiet => /\ client = "open"
                /\ modem.settings = {a \in Named : Overridden(a)}
                /\ untold \/ enabled = agpsStatus

(* "This proxy buffers server settings and calls loc_eng_set_server when    *)
(* the client is open": a server named before init reaches the modem.       *)
BufferedServerReachesModem ==
    (Quiet /\ agps_status_cb /\ wanted.early) => modem.server = wanted.server
=============================================================================
