------------------------- MODULE OnDemandConnection -------------------------
(***************************************************************************)
(* What an AgpsStateMachine promises its clients, without the list, the    *)
(* messages or the framework: one connection, shared by whoever asked.     *)
(* A client is idle, waiting for the connection, granted it, or closing:   *)
(* done with it and waiting to hear that it is closed.                     *)
(***************************************************************************)
CONSTANT Clients

VARIABLE client

Statuses == {"idle", "waiting", "granted", "closing"}

Are(s) == {c \in Clients : client[c] = s}

Become(who, s) == client' = [c \in Clients |-> IF c \in who THEN s ELSE client[c]]

Init == client = [c \in Clients |-> "idle"]

(* A newcomer shares what the others have, and waits if they wait. *)
Join(c) ==
    /\ client[c] = "idle"
    /\ \/ Are("granted") = {} /\ Become({c}, "waiting")
       \/ Are("waiting") \cup Are("closing") = {} /\ Become({c}, "granted")

(* Everybody who waits is granted the connection in the same step. *)
Grant ==
    /\ Are("waiting") # {}
    /\ Are("closing") = {}
    /\ Become(Are("waiting"), "granted")

(* Only one client at a time leaves of its own accord. *)
Leave(c) ==
    /\ client[c] \in {"waiting", "granted"}
    /\ Become({c}, "idle") \/ Become({c}, "closing")

(* The connection closes: those who asked for that are done, and nobody    *)
(* was still granted it.                                                   *)
Closed ==
    /\ Are("closing") # {}
    /\ Are("granted") = {}
    /\ Become(Are("closing"), "idle")

(* Denied, lost, or the modem restarted: it is over for everybody at once. *)
Over == Become(Clients, "idle")

Next ==
    \/ \E c \in Clients : Join(c) \/ Leave(c)
    \/ Grant \/ Closed \/ Over

Spec == Init /\ [][Next]_client

(* Nobody is granted the connection while another is left waiting for it:  *)
(* there is one connection, and its state is the same for all.             *)
OneConnection == Are("granted") = {} \/ Are("waiting") = {}
=============================================================================
