---------------------------- MODULE ModemReports ----------------------------
(***************************************************************************)
(* What the modem tells LocApiV02: the events it asks for with a mask, and *)
(* the answers from which a server list, a position or the lock is taken.  *)
(* A field that is not marked valid may hold anything in a buffer that     *)
(* nobody has cleared, and a refused request is answered without the rest. *)
(***************************************************************************)
EXTENDS LocationService, MessageTables, MessageEncoding, Integers, Sequences, TLC

CONSTANTS
    Masks,          \* masks the adapters ask for: sets of bit numbers
    FieldSets,      \* valid fields of a message, of those that are looked at
    Urls            \* server addresses

VARIABLES
    mask,           \* what the adapters ask for
    registered,     \* the events the service is asked for
    sent,           \* what the modem sent, and is being looked at
    told            \* what is made of it

vars == <<mask, registered, sent, told>>

Nothing == [event |-> "nothing"]

-----------------------------------------------------------------------------
(* loc_api_adapter_event_index: what a bit stands for.                      *)
Names ==
    [b \in 0..20 |->
        CASE b = 0 -> {"POSITION_REPORT"}   [] b = 1 -> {"GNSS_SV_INFO"}
          [] b \in {2, 3} -> {"NMEA"}       [] b = 4 -> {"NI_NOTIFY_VERIFY_REQ"}
          [] b = 5 -> {"INJECT_PREDICTED_ORBITS_REQ", "INJECT_TIME_REQ",
                       "INJECT_POSITION_REQ"}
          [] b = 6 -> {"LOCATION_SERVER_CONNECTION_REQ"}
          [] b = 7 -> {}                    [] b = 8 -> {"ENGINE_STATE"}
          [] b = 9 -> {"WIFI_REQ"}          [] b = 10 -> {"SENSOR_STREAMING_READY_STATUS"}
          [] b = 11 -> {"TIME_SYNC_REQ"}    [] b = 12 -> {"SET_SPI_STREAMING_REPORT"}
          [] b = 13 -> {"NI_GEOFENCE_NOTIFICATION"}
          [] b = 14 -> {"GEOFENCE_GEN_ALERT"}
          [] b = 15 -> {"GEOFENCE_BREACH_NOTIFICATION"}
          [] b = 16 -> {"PEDOMETER_CONTROL"}
          [] b = 17 -> {"MOTION_DATA_CONTROL"}
          [] b = 18 -> {"INJECT_WIFI_AP_DATA_REQ"}
          [] b = 19 -> {"BATCH_FULL_NOTIFICATION"}
          [] b = 20 -> {"LIVE_BATCHED_POSITION_REPORT"}]

(* The bits of a number.                                                   *)
Number(n) == {b \in 0..4 : (n \div 2^b) % 2 = 1}

(* A mutant: tested as bits, and the first of them by its number.           *)
ConvertMaskByNumber(m) ==
    UNION {Names[n] : n \in {k \in 0..20 : (IF k \in 1..8 THEN Number(k) ELSE {k}) \cap m # {}}}

(* convertMask tests most bits, but for ten it takes the bit's number for   *)
(* the mask: number 9 is tested as bits 0 and 3.  (An eleventh name it      *)
(* tests is not defined in this tree.)                                      *)
Tested(n) == IF n \in 9..18 THEN Number(n) ELSE {n}
ConvertMask(m) == UNION {Names[n] : n \in {k \in 0..20 : Tested(k) \cap m # {}}}

-----------------------------------------------------------------------------
(* reportPosition.  A failure is told without a position; a position only   *)
(* if it has a place, and not the one where both coordinates are 0.         *)

Taken ==
    {"latitude", "longitude", "timestampUtc", "altitudeWrtEllipsoid",
     "speedHorizontal", "heading", "horUncCircular", "magneticDeviation", "DOP",
     "altitudeWrtMeanSeaLevel", "vertUnc", "speedUnc"}

(* The technologies are taken whether or not they are valid.                *)
Technologies(m) ==
    IF "technologyMask" \in m.fields THEN {m.tech} ELSE {{}, {"SATELLITE"}, {"CELLID"}}

(* A mutant: one coordinate is enough.                                      *)
ReportPositionHalf(m) ==
    IF m.status \in {"SUCCESS", "IN_PROGRESS"} /\ "latitude" \in m.fields /\ ~m.origin
    THEN [event : {m.event}, status : {"SUCCESS"}, filled : {m.fields \cap Taken},
          tech : Technologies(m)]
    ELSE {Nothing}

ReportPosition(m) ==
    IF m.status \notin {"SUCCESS", "IN_PROGRESS"}
    THEN {[event |-> m.event, status |-> "FAILURE", filled |-> {}, tech |-> {}]}
    ELSE IF {"latitude", "longitude"} \subseteq m.fields /\ ~m.origin
    THEN [event : {m.event},
          status : {IF m.status = "SUCCESS" THEN "SUCCESS" ELSE "INTERMEDIATE"},
          filled : {m.fields \cap Taken}, tech : Technologies(m)]
    ELSE {Nothing}

(* Three addresses are told whatever the list has: those beyond its one or  *)
(* two are empty, those of a list with none are what the buffer held.       *)
Three(list) ==
    CASE Len(list) = 1 -> {list \o <<"", "">>}
      [] Len(list) = 2 -> {list \o <<"">>}
      [] Len(list) = 3 -> {list}
      [] OTHER -> [1..3 -> {"", "left over"}]

(* reportXtraServerUrl does not look whether there is a list.               *)
ReportXtraServerUrl(m) ==
    [event : {m.event},
     urls : Three(IF "serverList" \in m.fields THEN m.list ELSE <<>>)]

SessionStatus(state) ==
    CASE state = "STARTED" -> "SESSION_BEGIN" [] state = "FINISHED" -> "SESSION_END"
      [] OTHER -> "NONE"
ReportFixSessionState(m) ==
    {[event |-> m.event, status |-> SessionStatus(m.status), filled |-> {"sessionState"}]}

(* A request of the network is read from the first payload of the three it  *)
(* may have; without one it is dropped.                                     *)
ReportNiRequest(m) ==
    LET payload == CASE "NiVxInd" \in m.fields     -> {"NiVxInd"}
                     [] "NiVxInd" \notin m.fields /\ "NiUmtsCpInd" \in m.fields -> {"NiUmtsCpInd"}
                     [] OTHER -> m.fields \cap {"NiSuplInd"}
    IN  IF payload = {} THEN {Nothing}
        ELSE {[event |-> m.event, filled |-> payload \cup {"notificationType"}]}

(* A mutant: the list of satellites is taken for granted.                   *)
TakenOfUnchecked(m) == IF m.event = "GNSS_SV_INFO" THEN {"svList"} ELSE {}

(* What is taken of the other events; where it goes is in other modules.    *)
TakenOf(m) ==
    CASE m.event = "GNSS_SV_INFO" -> m.fields \cap {"svList"}
      [] m.event = "NMEA"         -> {"nmea"}
      [] m.event = "ENGINE_STATE" -> {"engineState"}
      [] m.event = "LOCATION_SERVER_CONNECTION_REQ" ->
            {"connHandle", "requestType", "wwanType"}
      [] m.event \in {"INJECT_TIME_REQ", "INJECT_POSITION_REQ"} -> {}

EventCb(m) ==
    CASE m.event = "POSITION_REPORT" -> ReportPosition(m)
      [] m.event = "INJECT_PREDICTED_ORBITS_REQ" -> ReportXtraServerUrl(m)
      [] m.event = "FIX_SESSION_STATE" -> ReportFixSessionState(m)
      [] m.event = "NI_NOTIFY_VERIFY_REQ" -> ReportNiRequest(m)
      [] m.event \in {"GNSS_SV_INFO", "ENGINE_STATE", "NMEA", "INJECT_TIME_REQ",
                      "INJECT_POSITION_REQ", "LOCATION_SERVER_CONNECTION_REQ"} ->
            {[event |-> m.event, filled |-> TakenOf(m)]}
      [] OTHER -> {Nothing}

-----------------------------------------------------------------------------
(* Answers: [client, ind, fields, ...], whether the client succeeded and    *)
(* the modem did.  A request that cannot be sent or answered only fails.    *)

Succeeded(answer) == answer.client /\ answer.ind
Possible(id, fields, answer) ==
    answer.client => Validated(id, fields) /\ Answerable(id)

RequestXtraServer(answer) ==
    IF Succeeded(answer) /\ "serverList" \in answer.fields /\ answer.list # <<>>
    THEN [event : {"XTRA_SERVER"}, urls : Three(answer.list)]
    ELSE {Nothing}

(* -1 stands for a failure.                                                 *)
GetGpsLock(answer) ==
    [event |-> "GPS_LOCK",
     lock |-> IF Succeeded(answer) /\ "lockType" \in answer.fields THEN answer.lock ELSE -1]

Place == {"latitude", "longitude", "horUncCircular"}

(* The time of the system stands in for that of the modem.                  *)
ZppTime(answer) == IF "timestampUtc" \in answer.fields THEN "modem" ELSE "system"

(* A mutant: the technologies are taken even without a place.               *)
GetBestAvailableZppFixLoose(answer) ==
    [event  |-> "BEST_AVAILABLE",
     result |-> IF answer.client THEN "SUCCESS" ELSE "FAILURE",
     filled |-> IF Place \subseteq answer.fields THEN answer.fields \cap Place ELSE {},
     time   |-> ZppTime(answer),
     tech   |-> answer.tech]

(* A refused request is no error of convertErr: success without a place.    *)
GetBestAvailableZppFix(answer) ==
    LET placed == Succeeded(answer) /\ Place \subseteq answer.fields
    IN  [event  |-> "BEST_AVAILABLE",
         result |-> IF answer.client THEN "SUCCESS" ELSE "FAILURE",
         filled |-> IF placed
                    THEN answer.fields \cap (Place \cup {"altitudeWrtEllipsoid", "horSpeed",
                                                         "heading"})
                    ELSE {},
         time   |-> IF Succeeded(answer) THEN ZppTime(answer) ELSE "none",
         tech   |-> IF placed /\ "technologyMask" \in answer.fields THEN answer.tech ELSE {}]

(* The WWAN position, or if it is not to be had the best available one,     *)
(* provided that a cell is among its sources.                               *)
GetWwanZppFix(wwan, best) ==
    IF ~Succeeded(wwan)
    THEN LET fix == GetBestAvailableZppFix(best)
         IN  [fix EXCEPT !.event = "WWAN",
                         !.result = IF @ = "SUCCESS" /\ "CELLID" \in fix.tech
                                    THEN "SUCCESS" ELSE "FAILURE"]
    ELSE [event  |-> "WWAN",
          result |-> IF Place \subseteq wwan.fields THEN "SUCCESS" ELSE "FAILURE",
          filled |-> IF Place \subseteq wwan.fields
                     THEN wwan.fields \cap (Place \cup {"altitudeWrtEllipsoid"}) ELSE {},
          time   |-> ZppTime(wwan),
          tech   |-> {"WWAN"}]

-----------------------------------------------------------------------------
UrlLists == UNION {[1..n -> Urls] : n \in 0..3}
(* A message that lacks a mandatory field cannot be decoded.                *)
Valid(message) == {message.mandatory \cup (f \cap message.optional) : f \in FieldSets}

PositionReports ==
    [event : {"POSITION_REPORT"}, status : {"SUCCESS", "IN_PROGRESS", "TIMEOUT"},
     fields : Valid(PositionReportInd), origin : BOOLEAN, tech : {{"SATELLITE"}}]
OrbitsRequests ==
    [event : {"INJECT_PREDICTED_ORBITS_REQ"}, fields : Valid(InjectPredictedOrbitsReqInd),
     list : UrlLists]
SessionStates ==
    [event : {"FIX_SESSION_STATE"}, fields : Valid(FixSessionStateInd),
     status : {"STARTED", "FINISHED", "OTHER"}]

(* The messages of the other events, which matter only by their fields.     *)
MessageOf ==
    [GNSS_SV_INFO |-> GnssSvInfoInd, NMEA |-> NmeaInd, ENGINE_STATE |-> EngineStateInd,
     INJECT_TIME_REQ |-> InjectTimeReqInd, INJECT_POSITION_REQ |-> InjectPositionReqInd,
     NI_NOTIFY_VERIFY_REQ |-> NiNotifyVerifyReqInd,
     LOCATION_SERVER_CONNECTION_REQ |-> LocationServerConnectionReqInd]
Others ==
    UNION {[event : {e}, fields : Valid(MessageOf[e])] : e \in DOMAIN MessageOf}
    \cup [event : EventTable \ (DOMAIN MessageOf \cup {"POSITION_REPORT", "FIX_SESSION_STATE",
                                 "INJECT_PREDICTED_ORBITS_REQ"}),
          fields : {{}}]

(* What is sent, as QCCI reads it.                                          *)
Read(id, message) ==
    IF id \in DOMAIN IndicationTlvs
    THEN [message EXCEPT !.fields =
             DOMAIN Travelled(IndicationTlvs[id], [f \in @ |-> "sent"])]
    ELSE message

Answers(message) ==
    [client : BOOLEAN, ind : BOOLEAN, fields : Valid(message), tech : SUBSET {"CELLID", "GNSS"}]

Init ==
    /\ mask \in Masks
    /\ registered = ConvertMask(mask)
    /\ sent = Nothing
    /\ told = Nothing

Idle == sent = Nothing

RegisterEventMask ==
    /\ Idle
    /\ mask' \in Masks
    /\ registered' = ConvertMask(mask')
    /\ UNCHANGED <<sent, told>>

(* The modem sends what it was asked for, the client passes on what its     *)
(* tables know, and eventCb looks at it.                                    *)
Arrive ==
    /\ Idle
    /\ \E m \in PositionReports \cup OrbitsRequests \cup SessionStates \cup Others :
          /\ Delivered(m.event, registered)
          /\ sent' = m
          /\ told' \in EventCb(Read(m.event, m))
    /\ UNCHANGED <<mask, registered>>

AskXtraServer ==
    /\ Idle
    /\ \E answer \in [client : BOOLEAN, ind : BOOLEAN, list : UrlLists,
                      fields : Valid(GetPredictedOrbitsDataSourceInd)] :
          /\ Possible("GET_PREDICTED_ORBITS_DATA_SOURCE", {}, answer)
          /\ sent' = answer @@ [event |-> "answer"]
          /\ told' \in RequestXtraServer(Read("GET_PREDICTED_ORBITS_DATA_SOURCE", answer))
    /\ UNCHANGED <<mask, registered>>

AskGpsLock ==
    /\ Idle
    /\ \E answer \in [client : BOOLEAN, ind : BOOLEAN, lock : 1..4,
                      fields : Valid(GetEngineLockInd)] :
          /\ Possible("GET_ENGINE_LOCK", {}, answer)
          /\ sent' = answer @@ [event |-> "answer"]
          /\ told' = GetGpsLock(Read("GET_ENGINE_LOCK", answer))
    /\ UNCHANGED <<mask, registered>>

AskBestAvailable ==
    /\ Idle
    /\ \E answer \in Answers(GetBestAvailablePositionInd) :
          /\ Possible("GET_BEST_AVAILABLE_POSITION", {"transactionId"}, answer)
          /\ sent' = answer @@ [event |-> "answer"]
          /\ told' = GetBestAvailableZppFix(Read("GET_BEST_AVAILABLE_POSITION", answer))
    /\ UNCHANGED <<mask, registered>>

AskWwan ==
    /\ Idle
    /\ \E wwan \in Answers(GetAvailWwanPositionInd), best \in Answers(GetBestAvailablePositionInd) :
          /\ Possible("GET_AVAILABLE_WWAN_POSITION", {"transactionId"}, wwan)
          /\ Possible("GET_BEST_AVAILABLE_POSITION", {"transactionId"}, best)
          /\ wwan.tech = {} /\ (Succeeded(wwan) => best.tech = {})
          /\ sent' = [event |-> "answer", fields |-> wwan.fields \cup best.fields]
          /\ told' = GetWwanZppFix(Read("GET_AVAILABLE_WWAN_POSITION", wwan),
                                   Read("GET_BEST_AVAILABLE_POSITION", best))
    /\ UNCHANGED <<mask, registered>>

Look ==
    /\ ~Idle
    /\ sent' = Nothing
    /\ told' = Nothing
    /\ UNCHANGED <<mask, registered>>

Next ==
    \/ RegisterEventMask \/ Arrive \/ AskXtraServer \/ AskGpsLock
    \/ AskBestAvailable \/ AskWwan \/ Look

Spec == Init /\ [][Next]_vars

-----------------------------------------------------------------------------
(* What an adapter asks for, and eventCb (LocApiV02.cpp:2434) can tell it,  *)
(* reaches it: it is registered, and known to the tables of the client.     *)
(* And nobody is told what he did not ask for, though convertMask (:1683)   *)
(* registers for other events than it should.                               *)
AskedForIsTold ==
    /\ \A b \in mask \cap 0..8 : \A e \in Names[b] : Delivered(e, registered)
    /\ told.event \in EventTable => \E b \in mask : told.event \in Names[b]

(* What is told was in the message and marked valid there.  A position has  *)
(* a place, a failure nothing at all (:1819).  A position for want of a fix *)
(* (:2616) has a place and an accuracy, and comes from the cells.           *)
ToldFromTheMessage ==
    /\ "filled" \in DOMAIN told => told.filled \subseteq sent.fields
    /\ told.event = "POSITION_REPORT" =>
          IF told.status = "FAILURE" THEN told.filled = {}
          ELSE {"latitude", "longitude"} \subseteq told.filled
    /\ told.event = "WWAN" /\ told.result = "SUCCESS" =>
          /\ Place \subseteq told.filled
          /\ told.tech \cap {"WWAN", "CELLID"} # {}

(* The addresses told are the first ones of the list, in its order, if it   *)
(* has any: each of them comes from the modem (:1155, :2340).               *)
UrlsFromTheModem ==
    ("urls" \in DOMAIN told /\ "serverList" \in sent.fields /\ sent.list # <<>>) =>
        \A i \in 1..3 : told.urls[i] = IF i \in DOMAIN sent.list THEN sent.list[i] ELSE ""

(* The events and answers that LocApiV02 looks at, as the modem sent them.   *)
ReportedAsSent == AskedForIsTold /\ ToldFromTheMessage /\ UrlsFromTheModem
=============================================================================
