------------------------------- MODULE DmnConn -------------------------------
(***************************************************************************)
(* loc_eng_dmn_conn: daemons outside the HAL ask for data connections and  *)
(* give them back through named pipes.  A thread of its own, started by    *)
(* agps_init through a thread helper, opens the pipes and turns what it    *)
(* reads into messages; the MsgTask thread puts them to the connections    *)
(* and writes the answers.                                                 *)
(*                                                                         *)
(* The connections, agnss_nif and wifi_nif, are what AgpsStateMachine is   *)
(* shown to implement: an OnDemandConnection each.  What a client is told  *)
(* at each of its steps becomes an answer here.                            *)
(***************************************************************************)
EXTENDS Naturals, Sequences, SequencesExt

CONSTANTS
    WifiDaemons,    \* QUIPC, MSAPM, MSAPU: each has a response pipe
    GpsoneDaemon,   \* the one daemon that asks for agnss_nif, none of those
    PipeSize,       \* answers that fit into a response pipe
    MaxRecords,     \* bound: records the daemons write
    MaxEngineUps    \* bound: restarts of the modem

Daemons == WifiDaemons \cup {GpsoneDaemon}

VARIABLES
    calm,           \* chosen at the start: pipes open, reads are whole, no
                    \* wake-up is spurious
    launch,         \* the thread that calls loc_eng_dmn_conn_..._launch
    thread,         \* the server thread
    thread_ready,
    msgqid,         \* the pipes the server thread has opened
    server_q,       \* records in the server's pipe
    misaligned,     \* a record was read in part
    msgq,           \* the messages the records became
    agnss, wifi,    \* the status of each client of a connection
    answers,        \* answers in each response pipe
    daemon,         \* what each daemon knows of its connection
    written,        \* records the daemons wrote
    engineUps,      \* restarts of the modem
    misled          \* daemons that read an answer they had not asked for

server == <<launch, thread, thread_ready, msgqid>>
input  == <<server_q, misaligned>>
nifs   == <<agnss, wifi>>
world  == <<answers, daemon, written, misled>>
vars   == <<calm, server, input, msgq, nifs, world, engineUps>>

(* loc_api_server_proc_init opens the server's pipe first. *)
Pipes == <<"server", GpsoneDaemon>> \o SetToSeq(WifiDaemons)

Agnss == INSTANCE OnDemandConnection WITH Clients <- {GpsoneDaemon}, client <- agnss
Wifi  == INSTANCE OnDemandConnection WITH Clients <- WifiDaemons, client <- wifi

Status(d) == IF d = GpsoneDaemon THEN agnss[d] ELSE wifi[d]

Records == [from : Daemons, ask : BOOLEAN]
Answers == {"REQUEST_SUCCESS", "RELEASE_SUCCESS", "FAILURE"}

TypeOK ==
    /\ calm \in BOOLEAN
    /\ launch \in {"start", "create", "waiting", "returned"}
    /\ thread \in {"none", "init", "ready", "loop"}
    /\ thread_ready \in BOOLEAN
    /\ msgqid \in [Daemons \cup {"server"} -> {"unset", "open", "failed"}]
    /\ server_q \in Seq(Records) /\ misaligned \in BOOLEAN
    /\ msgq \in Seq(Records)
    /\ agnss \in [{GpsoneDaemon} -> Agnss!Statuses]
    /\ wifi \in [WifiDaemons -> Wifi!Statuses]
    /\ answers \in [Daemons -> Seq(Answers)]
    /\ daemon \in [Daemons -> {"idle", "asked", "has", "releasing"}]
    /\ written \in 0..MaxRecords
    /\ engineUps \in 0..MaxEngineUps
    /\ misled \subseteq Daemons

Init ==
    /\ calm \in BOOLEAN
    /\ launch = "start" /\ thread = "none" /\ thread_ready = FALSE
    /\ msgqid = [p \in Daemons \cup {"server"} |-> "unset"]
    /\ server_q = <<>> /\ misaligned = FALSE
    /\ msgq = <<>>
    /\ Agnss!Init /\ Wifi!Init
    /\ answers = [d \in Daemons |-> <<>>]
    /\ daemon = [d \in Daemons |-> "idle"]
    /\ written = 0
    /\ engineUps = 0 /\ misled = {}

-----------------------------------------------------------------------------
(* The hand-shake of the launching thread and the server thread.            *)

(* loc_eng_dmn_conn_launch_thelper: signals are set up and the thread is    *)
(* created.                                                                 *)
Launch ==
    /\ launch = "start"
    /\ launch' = "create" /\ thread' = "init" /\ thread_ready' = FALSE
    /\ UNCHANGED <<calm, msgqid, input, msgq, nifs, world, engineUps>>

SignalWaitUntested ==
    /\ launch = "create"
    /\ launch' = "waiting"
    /\ UNCHANGED <<calm, thread, thread_ready, msgqid, input, msgq, nifs, world,
                   engineUps>>

(* thelper_signal_wait tests under the mutex, and waits once.               *)
SignalWait ==
    /\ launch = "create"
    /\ launch' = IF thread_ready THEN "returned" ELSE "waiting"
    /\ UNCHANGED <<calm, thread, thread_ready, msgqid, input, msgq, nifs, world,
                   engineUps>>

SpuriousWakeup ==
    /\ launch = "waiting" /\ ~calm
    /\ launch' = "returned"
    /\ UNCHANGED <<calm, thread, thread_ready, msgqid, input, msgq, nifs, world,
                   engineUps>>

(* loc_api_server_proc_init: the pipes are made and opened in order; it     *)
(* returns 0 even if one cannot be opened.                                  *)
OpenPipe ==
    /\ thread = "init"
    /\ \E i \in DOMAIN Pipes :
          /\ \A j \in DOMAIN Pipes : j < i <=> msgqid[Pipes[j]] # "unset"
          /\ \/ msgqid' = [msgqid EXCEPT ![Pipes[i]] = "open"]
             \/ ~calm /\ msgqid' = [msgqid EXCEPT ![Pipes[i]] = "failed"]
          /\ thread' = IF i = Len(Pipes) THEN "ready" ELSE "init"
    /\ UNCHANGED <<calm, launch, thread_ready, input, msgq, nifs, world, engineUps>>

SignalReadyFirst ==
    /\ thread \in {"init", "ready"} /\ ~thread_ready
    /\ thread_ready' = TRUE
    /\ thread' = IF thread = "ready" THEN "loop" ELSE thread
    /\ launch' = IF launch = "waiting" THEN "returned" ELSE launch
    /\ UNCHANGED <<calm, msgqid, input, msgq, nifs, world, engineUps>>

(* thelper_signal_ready: the flag is set and the waiting thread woken.      *)
SignalReady ==
    /\ thread = "ready"
    /\ thread' = "loop" /\ thread_ready' = TRUE
    /\ launch' = IF launch = "waiting" THEN "returned" ELSE launch
    /\ UNCHANGED <<calm, msgqid, input, msgq, nifs, world, engineUps>>

-----------------------------------------------------------------------------
(* The server thread: loc_api_server_proc.                                  *)

Listening == thread = "loop" /\ msgqid["server"] = "open" /\ server_q # <<>>

(* A record becomes a LocEngReqRelBIT of the GPSONE daemon's or a           *)
(* LocEngReqRelWifi of another's.                                           *)
Receive ==
    /\ Listening /\ ~misaligned
    /\ server_q' = Tail(server_q)
    /\ msgq' = Append(msgq, Head(server_q))
    /\ UNCHANGED <<calm, server, misaligned, nifs, world, engineUps>>

(* loc_eng_dmn_conn_glue_msgrcv reads the size and the rest of a record in  *)
(* turn.  If the second read fails, the rest is taken for sizes from then   *)
(* on, until by chance it fits.                                             *)
ReceivePart ==
    /\ Listening /\ ~calm
    /\ server_q' = Tail(server_q)
    /\ misaligned' \in BOOLEAN
    /\ UNCHANGED <<calm, server, msgq, nifs, world, engineUps>>

-----------------------------------------------------------------------------
(* The MsgTask thread.                                                      *)

(* loc_eng_dmn_conn_loc_api_server_data_conn: a full pipe blocks the        *)
(* writer; a pipe that is not open loses the answer.                        *)
Answer(who, what) ==
    /\ \A d \in who : msgqid[d] = "open" => Len(answers[d]) < PipeSize
    /\ answers' = [d \in Daemons |->
                      IF d \in who /\ msgqid[d] = "open"
                        THEN Append(answers[d], what[d]) ELSE answers[d]]
    /\ UNCHANGED <<daemon, written, misled>>

All(what) == [d \in Daemons |-> what]
Nobody == Answer({}, All("FAILURE"))

TakeMsg(ask) ==
    /\ msgq # <<>> /\ Head(msgq).ask = ask
    /\ msgq' = Tail(msgq)

(* LocEngReqRelBIT::proc and LocEngReqRelWifi::proc of a request: the       *)
(* daemon waits, has what others have, or, the connection having a          *)
(* subscriber and taking one only, is turned away.                          *)
ProcRequest ==
    /\ TakeMsg(TRUE)
    /\ LET d == Head(msgq).from IN
       \/ /\ d = GpsoneDaemon
          /\ \/ Agnss!Join(d)
             \/ agnss[d] # "idle" /\ UNCHANGED agnss
          /\ UNCHANGED wifi
          /\ IF agnss'[d] = "granted"
               THEN Answer({d}, All("REQUEST_SUCCESS")) ELSE Nobody
       \/ /\ d # GpsoneDaemon
          /\ \A other \in WifiDaemons : wifi[other] = "idle"
          /\ Wifi!Become({d}, "waiting")
          /\ UNCHANGED agnss
          /\ Nobody
       \/ /\ d # GpsoneDaemon
          /\ \E other \in WifiDaemons : wifi[other] # "idle"
          /\ UNCHANGED nifs
          /\ Answer({d}, All("FAILURE"))
    /\ UNCHANGED <<calm, server, input, engineUps>>

ProcReleaseWifiAnswered ==
    /\ TakeMsg(FALSE)
    /\ LET d == Head(msgq).from IN
       /\ Status(d) # "idle"
       /\ IF d = GpsoneDaemon
            THEN Agnss!Become({d}, "idle") /\ UNCHANGED wifi
            ELSE Wifi!Become({d}, "closing") /\ UNCHANGED agnss
       /\ Answer({d}, All("RELEASE_SUCCESS"))
    /\ UNCHANGED <<calm, server, input, engineUps>>

(* ... and of a release: a BITSubscriber is told at once, a WIFISubscriber  *)
(* when the connection has closed, and nobody hears of a release by a       *)
(* daemon that is not on the list.                                          *)
ProcRelease ==
    /\ TakeMsg(FALSE)
    /\ LET d == Head(msgq).from IN
       \/ /\ d = GpsoneDaemon /\ Agnss!Leave(d) /\ agnss'[d] = "idle"
          /\ UNCHANGED wifi
          /\ Answer({d}, All("RELEASE_SUCCESS"))
       \/ /\ d # GpsoneDaemon /\ Wifi!Leave(d) /\ wifi'[d] = "closing"
          /\ UNCHANGED agnss
          /\ Nobody
       \/ /\ Status(d) \in {"idle", "closing"}
          /\ UNCHANGED nifs
          /\ Nobody
    /\ UNCHANGED <<calm, server, input, engineUps>>

(* BITSubscriber and WIFISubscriber::notifyRsrcStatus, for a status of the  *)
(* framework: whoever changes from old to new is told.                      *)
Told(nif, old, what) == Answer({d \in DOMAIN nif : nif[d] = old}, All(what))

Opened ==
    \/ Agnss!Grant /\ UNCHANGED wifi /\ Told(agnss, "waiting", "REQUEST_SUCCESS")
    \/ Wifi!Grant /\ UNCHANGED agnss /\ Told(wifi, "waiting", "REQUEST_SUCCESS")

OpenFailed ==
    \/ Agnss!Are("waiting") # {} /\ Agnss!Over /\ UNCHANGED wifi
         /\ Told(agnss, "waiting", "FAILURE")
    \/ Wifi!Are("waiting") # {} /\ Wifi!Over /\ UNCHANGED agnss
         /\ Told(wifi, "waiting", "FAILURE")

(* The connection is lost by those that have it, or has closed.             *)
ConnectionClosed ==
    \/ Agnss!Are("granted") # {} /\ Agnss!Over /\ UNCHANGED wifi
         /\ Told(agnss, "granted", "RELEASE_SUCCESS")
    \/ Wifi!Are("granted") # {} /\ Wifi!Over /\ UNCHANGED agnss
         /\ Told(wifi, "granted", "RELEASE_SUCCESS")
    \/ Wifi!Closed /\ UNCHANGED agnss /\ Told(wifi, "closing", "RELEASE_SUCCESS")

Framework ==
    /\ Opened \/ OpenFailed \/ ConnectionClosed
    /\ UNCHANGED <<calm, server, input, msgq, engineUps>>

(* LocEngUp drops the subscribers of agnss_nif and tells no daemon.         *)
EngineUp ==
    /\ engineUps < MaxEngineUps
    /\ engineUps' = engineUps + 1
    /\ Agnss!Over
    /\ UNCHANGED <<calm, server, input, msgq, wifi, world>>

-----------------------------------------------------------------------------
(* The daemons, which are not in the repository: each waits for the answer  *)
(* to a request, may give back what it has, and may hear of a loss.         *)

DaemonWrites(d) ==
    /\ msgqid["server"] = "open" /\ written < MaxRecords
    /\ \/ daemon[d] = "idle" /\ daemon' = [daemon EXCEPT ![d] = "asked"]
       \/ daemon[d] = "has" /\ daemon' = [daemon EXCEPT ![d] = "releasing"]
    /\ server_q' = Append(server_q, [from |-> d, ask |-> daemon[d] = "idle"])
    /\ written' = written + 1
    /\ UNCHANGED <<calm, server, misaligned, msgq, nifs, answers, misled, engineUps>>

Expected(d) ==
    CASE daemon[d] = "idle"  -> {}
      [] daemon[d] = "asked" -> {"REQUEST_SUCCESS", "FAILURE"}
      [] OTHER               -> {"RELEASE_SUCCESS"}

DaemonReads(d) ==
    /\ answers[d] # <<>>
    /\ answers' = [answers EXCEPT ![d] = Tail(@)]
    /\ LET what == Head(answers[d])
       IN  /\ misled' = IF what \in Expected(d) THEN misled ELSE misled \cup {d}
           /\ daemon' = [daemon EXCEPT ![d] =
                           IF what = "REQUEST_SUCCESS" THEN "has" ELSE "idle"]
    /\ UNCHANGED <<calm, server, input, msgq, nifs, written, engineUps>>

Next ==
    \/ Launch \/ SignalWait \/ SpuriousWakeup \/ OpenPipe \/ SignalReady
    \/ Receive \/ ReceivePart
    \/ ProcRequest \/ ProcRelease \/ Framework \/ EngineUp
    \/ \E d \in Daemons : DaemonWrites(d) \/ DaemonReads(d)

Spec == Init /\ [][Next]_vars

-----------------------------------------------------------------------------
(* Properties.                                                              *)

(* The launch ends, and not before the pipes were opened.                   *)
LaunchIsDone ==
    /\ launch = "waiting" => ~thread_ready
    /\ calm /\ launch = "returned" => \A p \in DOMAIN msgqid : msgqid[p] = "open"

(* No daemon reads an answer it has not asked for, whatever was lost, ...   *)
NobodyIsMisled == misled = {}

(* ... and once everything is read and processed, each daemon knows the     *)
(* state of its connection, until a restart of the modem drops the GPSONE   *)
(* daemon untold.                                                           *)
EachKnowsItsConnection ==
    calm /\ server_q = <<>> /\ msgq = <<>> =>
        \A d \in Daemons :
            answers[d] = <<>> /\ (d = GpsoneDaemon => engineUps = 0) =>
                CASE daemon[d] = "idle"      -> Status(d) = "idle"
                  [] daemon[d] = "asked"     -> Status(d) = "waiting"
                  [] daemon[d] = "has"       -> Status(d) = "granted"
                  [] daemon[d] = "releasing" -> Status(d) = "closing"

(* All of it: from the launch to the answers.                               *)
DaemonsServed == TypeOK /\ LaunchIsDone /\ NobodyIsMisled /\ EachKnowsItsConnection
=============================================================================
