------------------------- MODULE MCAgpsStateMachine -------------------------
(***************************************************************************)
(* TLC instances of AgpsStateMachine: two clients are enough for one to    *)
(* join, leave or be turned away while the other holds the connection.     *)
(* The initial state chooses which of two connections they share: agnss_nif*)
(* with one client in the modem (the constants' values), or wifi_nif       *)
(* between two daemons.                                                    *)
(***************************************************************************)
EXTENDS AgpsStateMachine

CONSTANTS c1, c2

VARIABLE shared     \* "agnss_nif" or "wifi_nif"

Wifi == INSTANCE AgpsStateMachine
           WITH Type <- "WIFI", ModemClients <- {}, MaxInFlight <- 3

NifInit == Init /\ shared \in {"agnss_nif", "wifi_nif"}

NifNext ==
    /\ UNCHANGED shared
    /\ \/ shared = "agnss_nif" /\ Next
       \/ shared = "wifi_nif" /\ Wifi!Next

NifMsgTask == \/ shared = "agnss_nif" /\ MsgTask
              \/ shared = "wifi_nif" /\ Wifi!MsgTask

NifSpec ==
    /\ NifInit /\ [][NifNext]_<<shared, vars>>
    /\ WF_vars(NifMsgTask) /\ WF_vars(Framework)

(* GrantBelief and SingleSubscriber depend on the type: each connection has *)
(* those of its own.  Whoever was granted the connection has it, and        *)
(* wifi_nif has one subscriber at a time, until its close completes.        *)
NifHolders ==
    IF shared = "agnss_nif"
      THEN GrantBelief /\ SingleSubscriber
      ELSE Wifi!GrantBelief /\ Wifi!SingleSubscriber
=============================================================================
