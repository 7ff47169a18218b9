------------------------------ MODULE MCLocApi ------------------------------
(***************************************************************************)
(* TLC instances of four components that bring the engine up and do not    *)
(* touch each other's state: a behaviour is one of LocApi, LocEngInit,     *)
(* LocClient or DmnConn.                                                   *)
(*                                                                         *)
(* LocApi: a background context with two slots and three adapters, so that *)
(* one can leave before another and one finds no room.  LocEngInit: two    *)
(* servers, so that a later one can overtake an earlier one.  LocClient:   *)
(* an attempt that is repeated and a client that is replaced.  DmnConn: a  *)
(* daemon that is turned away because another one has the connection.      *)
(***************************************************************************)
EXTENDS LocApi, TLC

CONSTANTS a1, a2, a3, s1, s2, Servers, SensorPropertiesValid, MaxCalls,
          MaxRestarts, ClientEvents, ClientRespInds, ClientUnknown,
          ClientMasks, MAX_RETRIES, MaxAttempts, MaxLives, WifiDaemons,
          PipeSize, MaxRecords, MaxEngineUps

(* A mask is of events; "error" and "none" stand for what is no indication; *)
(* "gpsone" and "server" are not among the daemons with a response pipe.    *)
ASSUME BringUpAssumption ==
    /\ {MaxCalls, MaxRestarts, MAX_RETRIES, MaxAttempts} \subseteq Nat
    /\ MaxLives \in Nat \ {0}
    /\ ClientMasks \subseteq SUBSET ClientEvents /\ ClientMasks # {}
    /\ {"error", "none"} \cap (ClientEvents \cup ClientRespInds) = {}
    /\ {PipeSize, MaxRecords, MaxEngineUps} \subseteq Nat
    /\ IsFiniteSet(WifiDaemons) /\ {"gpsone", "server"} \cap WifiDaemons = {}

Masks == a1 :> {"position", "nmea"} @@ a2 :> {"ni"} @@ a3 :> {"position"}

VARIABLES
    part,       \* "api", "init", "client" or "daemons", chosen at the start
    adapter, agps_status_cb, agpsStatus, supl_host, initq, sending, client,
    enabled, service, wanted, untold, calls, restarts,
    pc, tries, asked, clientHandle, attempt, data, point, qmi, signalled, ssr,
    cb, deaf, late,
    launch, thread, thread_ready, msgqid, server_q, misaligned, dmnq, agnss,
    wifi, answers, daemon, written, engineUps, misled

initVars == <<adapter, agps_status_cb, agpsStatus, supl_host, initq, sending,
              client, enabled, service, wanted, untold, calls, restarts>>
clientVars == <<pc, tries, asked, clientHandle, attempt, data, point, qmi,
                signalled, ssr, cb, deaf, late>>
dmnVars == <<launch, thread, thread_ready, msgqid, server_q, misaligned, dmnq,
             agnss, wifi, answers, daemon, written, engineUps, misled>>

EngInit == INSTANCE LocEngInit WITH msgq <- initq, modem <- service

Client == INSTANCE LocClient WITH
            Events <- ClientEvents, RespInds <- ClientRespInds,
            Unknown <- ClientUnknown, Wanted <- ClientMasks,
            service <- qmi, n <- attempt

Dmn == INSTANCE DmnConn WITH
            GpsoneDaemon <- "gpsone", msgq <- dmnq

(* The servers are alike. *)
Symmetry == Permutations({s1, s2})

BringUpInit ==
    /\ Init /\ EngInit!Init /\ Client!Init /\ Dmn!Init
    /\ part \in {"api", "client", "daemons"} \cup (IF calm THEN {"init"} ELSE {})
    /\ part # "client" => asked = (CHOOSE mask \in ClientMasks : TRUE) /\ qmi.up

BringUpNext ==
    /\ UNCHANGED part
    /\ \/ part = "api" /\ Next /\ UNCHANGED <<initVars, clientVars, dmnVars>>
       \/ part = "init" /\ EngInit!Next /\ UNCHANGED <<vars, clientVars, dmnVars>>
       \/ part = "client" /\ Client!Next
            /\ UNCHANGED <<vars, initVars, dmnVars>>
       \/ part = "daemons" /\ Dmn!Next
            /\ UNCHANGED <<vars, initVars, clientVars>>

BringUpSpec ==
    BringUpInit /\ [][BringUpNext]_<<part, vars, initVars, clientVars, dmnVars>>

(* The properties of the three others, for the behaviours that are theirs.  *)
SettingsReachModem == part = "init" => EngInit!SettingsReachModem
ClientInv == part = "client" => Client!ClientInv
DaemonsServed == part = "daemons" => Dmn!DaemonsServed
=============================================================================
