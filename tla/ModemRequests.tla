--------------------------- MODULE ModemRequests ---------------------------
(***************************************************************************)
(* What LocApiV02 asks the modem to keep: time and position, servers, the  *)
(* state of data connections, configuration, locks and certificates, and   *)
(* the session that startFix starts.  One thread makes the calls, and each *)
(* waits for its answers (SyncReq), which the modem may refuse or delay.   *)
(* Requests of different functions share a message, and the tables of the  *)
(* client decide which can be sent and answered at all.                    *)
(***************************************************************************)
EXTENDS LocationService, MessageTables, MessageEncoding, Integers, Sequences, FiniteSets, TLC

CONSTANTS
    MAX_SLOTS,      \* AGPS_CERTIFICATE_MAX_SLOTS
    PosModes,       \* LocPosMode: [mode, accuracy, recurrence, credentials]
    Installs,       \* installations: [writable, certs], slots and certificates
    MaxCalls        \* bound: calls made

VARIABLES
    modem,      \* what the modem keeps: by place and field
    asked,      \* by function, the last of its requests that took effect
    last,       \* the last request, what became of it, and what was returned
    starting,   \* startFix between its two requests: <<>> or <<its argument>>
    install,    \* how far installAGpsCert has come
    made        \* calls so far

vars == <<modem, asked, last, starting, install, made>>

Slots == 0..(MAX_SLOTS - 1)

(* A request: the fields assigned, optional ones with their valid flag.     *)
(* memset has cleared the others, so they are not sent, or sent as 0.       *)
Request(id, message, values) ==
    [id |-> id, message |-> message,
     values |-> values @@ [f \in message.mandatory |-> 0]]
None == Request("none", Message({}, {}), <<>>)

-----------------------------------------------------------------------------
(* The modem.  A server is kept by its type, a connection by its handle and *)
(* a certificate by its slot; everything else there is once.                *)

Place(request) ==
    CASE request.id = "SET_SERVER" -> <<"server", request.values.serverType>>
      [] request.id = "INFORM_LOCATION_SERVER_CONN_STATUS" ->
            <<"connection", request.values.connHandle>>
      [] request.id \in {"INJECT_SUPL_CERTIFICATE", "DELETE_SUPL_CERTIFICATE"} ->
            <<"certificate", request.values.suplCertId>>
      [] OTHER -> <<request.id>>

(* Of a configuration, what is not sent stays; without the ID of one, all   *)
(* certificates are deleted.                                                *)
Merged == {"SET_PROTOCOL_CONFIG_PARAMETERS", "SET_SENSOR_CONTROL_CONFIG",
           "SET_SENSOR_PROPERTIES", "SET_SENSOR_PERFORMANCE_CONTROL_CONFIGURATION"}

Received(request) ==
    [request EXCEPT !.values = Travelled(RequestTlvs[request.id], @)]
Deleted(request) ==
    IF "suplCertId" \in DOMAIN request.values THEN {Place(request)}
    ELSE {p \in DOMAIN modem : p[1] = "certificate"}
Set(request) ==
    LET place == Place(request)
        kept  == IF request.id \in Merged /\ place \in DOMAIN modem THEN modem[place]
                 ELSE <<>>
    IN  (place :> (request.values @@ kept)) @@ modem
Applied(request) ==
    LET received == Received(request)
    IN  IF request.id = "DELETE_SUPL_CERTIFICATE"
        THEN [p \in DOMAIN modem \ Deleted(received) |-> modem[p]]
        ELSE Set(received)

(* Refused: by the indication, after the request was accepted.  Late: done, *)
(* but not answered in time.  Failed: not done.  Some have no indication.   *)
Unanswered == {"START", "STOP", "REG_EVENTS"}
Outcomes(request) ==
    IF ~Validated(request.id, Fields(request.message)) THEN {"failed"}
    ELSE IF request.id \in Unanswered THEN {"accepted", "failed"}
    ELSE {"late", "failed"}
         \cup IF Answerable(request.id) THEN {"accepted", "refused"} ELSE {}
TakesEffect(outcome) == outcome \in {"accepted", "late"}

(* convertErr looks at the status of the client only; setGpsLock and        *)
(* setXtraVersionCheck look at the indication too.                          *)
ConvertErr(outcome) == IF outcome \in {"accepted", "refused"} THEN "SUCCESS" ELSE "FAILURE"
CheckedErr(outcome) == IF outcome = "accepted" THEN "SUCCESS" ELSE "FAILURE"
Result(function, outcome) ==
    IF function \in {"setGpsLock", "setXtraVersionCheck"}
    THEN CheckedErr(outcome) ELSE ConvertErr(outcome)

-----------------------------------------------------------------------------
(* The requests.                                                            *)

(* The time is as old as the message that carries it.                       *)
SetTime(time, timeReference, now) ==
    Request("INJECT_UTC_TIME", InjectUtcTimeReq,
            [timeUtc |-> time + (now - timeReference), timeUnc |-> "uncertainty"])

InjectPosition(accuracy) ==
    Request("INJECT_POSITION", InjectPositionReq,
            [latitude |-> "latitude", longitude |-> "longitude",
             horUncCircular |-> IF accuracy < 1000 THEN 1000 ELSE accuracy,
             horConfidence |-> 68, rawHorUncCircular |-> accuracy,
             rawHorConfidence |-> 68])

SetServerUrl(url) ==
    Request("SET_SERVER", SetServerReq, [serverType |-> "UMTS_SLP", urlAddr |-> url])

ServerType(type) ==
    CASE type = "LOC_AGPS_MPC_SERVER" -> "CDMA_MPC"
      [] type = "LOC_AGPS_CUSTOM_PDE_SERVER" -> "CUSTOM_PDE"
      [] OTHER -> "CDMA_PDE"
SetServerIp(ip, type) ==
    Request("SET_SERVER", SetServerReq, [serverType |-> ServerType(type), ipv4Addr |-> ip])

(* A call that failed, or has no bearer, has no APN profile to tell.        *)
AtlOpenStatus(handle, is_succ, bear) ==
    Request("INFORM_LOCATION_SERVER_CONN_STATUS", InformLocationServerConnStatusReq,
            (IF is_succ /\ bear # "INVALID" THEN [apnProfile |-> bear] ELSE <<>>)
            @@ [connHandle |-> handle, requestType |-> "OPEN",
                statusType |-> IF is_succ THEN "SUCCESS" ELSE "FAILURE"])
AtlCloseStatus(handle, is_succ) ==
    Request("INFORM_LOCATION_SERVER_CONN_STATUS", InformLocationServerConnStatusReq,
            [connHandle |-> handle, requestType |-> "CLOSE",
             statusType |-> IF is_succ THEN "SUCCESS" ELSE "FAILURE"])

(* A mutant: the flags of all the fields are set.                           *)
ProtocolOver(values) ==
    Request("SET_PROTOCOL_CONFIG_PARAMETERS", SetProtocolConfigParametersReq,
            values @@ [f \in SetProtocolConfigParametersReq.optional |-> "0"])

Protocol(values) ==
    Request("SET_PROTOCOL_CONFIG_PARAMETERS", SetProtocolConfigParametersReq, values)
SetSUPLVersion(version) ==
    Protocol([suplVersion |-> IF version = "0x00020000" THEN "2.0" ELSE "1.0"])
SetLPPConfig(profile)          == Protocol([lppConfig |-> profile])
SetAGLONASSProtocol(aGlonass)  == Protocol([assistedGlonassProtocolMask |-> aGlonass])

SetSensorControlConfig(disabled, provider) ==
    Request("SET_SENSOR_CONTROL_CONFIG", SetSensorControlConfigReq,
            [sensorsUsage |-> IF disabled = 1 THEN "DISABLE" ELSE "ENABLE",
             sensorProvider |-> IF provider \in {1, 4} THEN "SSC" ELSE "NATIVE"])

(* The parameters of setSensorProperties, and the fields they go to.        *)
SensorField ==
    [gyroBias  |-> "gyroBiasVarianceRandomWalk",
     accelBias |-> "accelerationRandomWalkSpectralDensity",
     angleBias |-> "angleRandomWalkSpectralDensity",
     rateBias  |-> "rateRandomWalkSpectralDensity",
     velocityBias |-> "velocityRandomWalkSpectralDensity"]
SetSensorProperties(valid, value) ==
    Request("SET_SENSOR_PROPERTIES", SetSensorPropertiesReq,
            [f \in {SensorField[p] : p \in valid} |-> value])

SetSensorPerfControlConfig(mode) ==
    Request("SET_SENSOR_PERFORMANCE_CONTROL_CONFIGURATION",
            SetSensorPerformanceControlConfigReq,
            [f \in SetSensorPerformanceControlConfigReq.optional |->
                IF f = "performanceControlMode" THEN mode ELSE "given"])

SetExtPowerConfig(isBatteryCharging) ==
    Request("SET_EXTERNAL_POWER_CONFIG", SetExternalPowerConfigReq,
            [externalPowerState |->
                IF isBatteryCharging = 1 THEN "CONNECTED" ELSE "NOT_CONNECTED"])

SetGpsLock(lockType) ==
    Request("SET_ENGINE_LOCK", SetEngineLockReq, [lockType |-> lockType])

SetXtraVersionCheck(check) ==
    Request("SET_XTRA_VERSION_CHECK", SetXtraVersionCheckReq,
            [xtraVersionCheckMode |->
                IF check \in {"AUTO", "XTRA2", "XTRA3"} THEN check ELSE "DISABLED"])

InjectCert(slot, data) ==
    Request("INJECT_SUPL_CERTIFICATE", InjectSuplCertificateReq,
            [suplCertId |-> slot, suplCertData |-> data])
DeleteCert(slot) ==
    Request("DELETE_SUPL_CERTIFICATE", DeleteSuplCertificateReq, [suplCertId |-> slot])

OperationMode(mode) ==
    CASE mode = "MS_BASED" -> "MSB" [] mode = "MS_ASSISTED" -> "MSA"
      [] mode = "RESERVED_4" -> "CELL_ID" [] mode = "RESERVED_5" -> "WWAN"
      [] OTHER -> "STANDALONE"
SetOperationMode(fix) ==
    Request("SET_OPERATION_MODE", SetOperationModeReq,
            [operationMode |-> OperationMode(fix.mode)])

Accuracy(metres) ==
    CASE metres <= 100 -> "HIGH" [] metres \in 101..1000 -> "MED" [] OTHER -> "LOW"
Start(fix) ==
    Request("START", StartReq,
            (IF fix.accuracy >= 0 THEN [horizontalAccuracyLevel |-> Accuracy(fix.accuracy)]
             ELSE <<>>)
            @@ (IF fix.credentials THEN [applicationId |-> "credentials"] ELSE <<>>)
            @@ [sessionId |-> 0, minInterval |-> "interval",
                fixRecurrence |-> IF fix.recurrence = "SINGLE" THEN "SINGLE"
                                  ELSE "PERIODIC",
                configAltitudeAssumed |-> "DISABLED"])

Stop == Request("STOP", StopReq, [sessionId |-> 0])

(* Requests whose content is told elsewhere: LocApi, XtraInjection,         *)
(* AidingDeletion and NiMessages.                                           *)
RegisterEvents(mask) == Request("REG_EVENTS", RegEventsReq, [eventRegMask |-> mask])
InjectPart ==
    Request("INJECT_PREDICTED_ORBITS_DATA", InjectPredictedOrbitsDataReq,
            [formatType |-> "XTRA", totalSize |-> "size", totalParts |-> "parts",
             partNum |-> "part", partData |-> "data"])
DeleteLists == {"deleteSvInfoList", "deleteGnssDataMask", "deleteCellDbDataMask",
                "deleteBdsSvInfoList"}
Delete(lists) ==
    Request("DELETE_ASSIST_DATA", DeleteAssistDataReq,
            [f \in lists \cup {"deleteAllFlag"} |-> IF f = "deleteAllFlag" THEN lists = {}
                                                   ELSE TRUE])
Payloads == {"NiVxPayload", "NiSuplPayload", "NiUmtsCpPayload", "NiSuplVer2ExtPayload",
             "NiVxServiceInteractionPayload", "suplEmergencyNotification"}
NiResponse(payloads) ==
    Request("NI_USER_RESPONSE", NiUserRespReq,
            [f \in payloads |-> "copied"]
            @@ [userResp |-> "response", notificationType |-> "type"])

-----------------------------------------------------------------------------
(* faked: the slot has the fake certificate that goes before a deletion.    *)
(* clean: no request of the installation has failed.                        *)
NotInstalling == [slot |-> -1, writable |-> {}, certs |-> <<>>, certIndex |-> 1,
                  faked |-> FALSE, clean |-> TRUE, before |-> <<>>]

Init ==
    /\ modem = [p \in {<<"certificate", s>> : s \in Slots} |->
                    [suplCertId |-> p[2], suplCertData |-> "old"]]
    /\ asked = <<>>
    /\ last = [request |-> None, argument |-> "none", outcome |-> "none", result |-> "none"]
    /\ starting = <<>>
    /\ install = NotInstalling
    /\ made = 0

Free == starting = <<>> /\ install = NotInstalling /\ made < MaxCalls

(* loc_sync_send_req, and what is made of its outcome.                      *)
Send(function, argument, request, outcome) ==
    /\ modem' = IF TakesEffect(outcome) THEN Applied(request) ELSE modem
    /\ asked' = IF TakesEffect(outcome)
                THEN (function :> [request |-> request, argument |-> argument]) @@ asked
                ELSE asked
    /\ last' = [request |-> request, argument |-> argument, outcome |-> outcome,
                result |-> Result(function, outcome)]

(* A call that makes one request.                                           *)
Call(function, argument, request) ==
    /\ Free
    /\ made' = made + 1
    /\ \E outcome \in Outcomes(request) : Send(function, argument, request, outcome)
    /\ UNCHANGED <<starting, install>>

(* The message waits for age after the time 100 was taken.                  *)
InjectTime ==
    \E age \in {0, 7} : Call("setTime", 100 + age, SetTime(100, 0, age))
InjectFix ==
    \E accuracy \in {999, 1000, 1001} :
        Call("injectPosition", accuracy, InjectPosition(accuracy))

SetServer ==
    \/ Call("UMTS_SLP", "url", SetServerUrl("url"))
    \/ \E type \in {"LOC_AGPS_MPC_SERVER", "LOC_AGPS_CUSTOM_PDE_SERVER",
                    "LOC_AGPS_CDMA_PDE_SERVER"} :
          Call(type, "ip", SetServerIp("ip", type))
AtlStatus ==
    \/ \E is_succ \in BOOLEAN, bear \in {"IPV4", "IPV6", "IPV4V6", "INVALID"} :
          Call("atlStatus", is_succ, AtlOpenStatus(1, is_succ, bear))
    \/ \E is_succ \in BOOLEAN : Call("atlStatus", is_succ, AtlCloseStatus(1, is_succ))

SetProtocol ==
    \/ \E version \in {"0x00010000", "0x00020000"} :
          Call("setSUPLVersion", version, SetSUPLVersion(version))
    \/ \E profile \in {"0", "3"} : Call("setLPPConfig", profile, SetLPPConfig(profile))
    \/ \E mask \in {"0", "5"} : Call("setAGLONASSProtocol", mask, SetAGLONASSProtocol(mask))
SetSensors ==
    \/ \E disabled \in {0, 1}, provider \in {1, 2} :
          Call("setSensorControlConfig", disabled, SetSensorControlConfig(disabled, provider))
    \/ \E valid \in {{}, {"gyroBias"}, DOMAIN SensorField} :
          Call("setSensorProperties", valid, SetSensorProperties(valid, "value"))
    \/ \E mode \in {0, 2} :
          Call("setSensorPerfControlConfig", mode, SetSensorPerfControlConfig(mode))
SetOthers ==
    \/ \E charging \in {0, 1} :
          Call("setExtPowerConfig", charging, SetExtPowerConfig(charging))
    \/ \E lockType \in {"NONE", "ALL"} : Call("setGpsLock", lockType, SetGpsLock(lockType))
    \/ \E check \in {"DISABLED", "AUTO", "XTRA2", "XTRA3"} :
          Call("setXtraVersionCheck", check, SetXtraVersionCheck(check))

(* startFix: the mode is sent first, and unless it is accepted nothing is   *)
(* started, though the call may return success.                             *)
StartFix(fix) ==
    /\ Free
    /\ made' = made + 1
    /\ \E outcome \in Outcomes(SetOperationMode(fix)) :
          /\ Send("mode", fix, SetOperationMode(fix), outcome)
          /\ starting' = IF outcome = "accepted" THEN <<fix>> ELSE <<>>
    /\ UNCHANGED install

StartSession ==
    /\ starting # <<>>
    /\ \E outcome \in Outcomes(Start(starting[1])) :
          Send("startFix", starting[1], Start(starting[1]), outcome)
    /\ starting' = <<>>
    /\ UNCHANGED <<install, made>>

(* stopFix: whatever session there is ends.                                 *)
StopFix ==
    /\ Free
    /\ made' = made + 1
    /\ \E outcome \in Outcomes(Stop) :
          /\ modem' = IF TakesEffect(outcome)
                      THEN [p \in DOMAIN modem \ {<<"START">>} |-> modem[p]] ELSE modem
          /\ asked' = IF TakesEffect(outcome)
                      THEN [f \in DOMAIN asked \ {"startFix"} |-> asked[f]] ELSE asked
          /\ last' = [request |-> Stop, argument |-> "none", outcome |-> outcome,
                      result |-> ConvertErr(outcome)]
    /\ UNCHANGED <<starting, install>>

SendOthers ==
    \/ \E mask \in {{}, {"some"}} : Call("registerEventMask", mask, RegisterEvents(mask))
    \/ Call("setXtraData", "part", InjectPart)
    \/ \E lists \in {{}} \cup {{f} : f \in DeleteLists} \cup {DeleteLists} :
          Call("deleteAidingData", lists, Delete(lists))
    \/ \E payloads \in {{"NiVxPayload"}, {"NiSuplPayload", "suplEmergencyNotification"},
                        Payloads} :
          Call("informNiResponse", payloads, NiResponse(payloads))

-----------------------------------------------------------------------------
(* installAGpsCert: the certificates go to the writable slots in order, and *)
(* the slots left over are emptied.                                         *)

HeldIn(slot) ==
    IF <<"certificate", slot>> \in DOMAIN modem
    THEN modem[<<"certificate", slot>>].suplCertData ELSE "none"

InstallAGpsCert(i) ==
    /\ Free
    /\ made' = made + 1
    /\ install' = [NotInstalling EXCEPT !.slot = 0, !.writable = i.writable, !.certs = i.certs,
                                        !.before = [s \in Slots |-> HeldIn(s)]]
    /\ UNCHANGED <<modem, asked, last, starting>>

AtSlot == install.slot \in Slots /\ install.slot \in install.writable
HasCert ==
    /\ install.certIndex \in DOMAIN install.certs
    /\ install.certs[install.certIndex] # "empty"

(* One request of the loop, after which it stands at next.                  *)
InstallStep(request, next) ==
    /\ \E outcome \in Outcomes(request) :
          /\ modem' = IF TakesEffect(outcome) THEN Applied(request) ELSE modem
          /\ last' = [request |-> request, argument |-> "none", outcome |-> outcome,
                      result |-> "none"]
          /\ install' = [next EXCEPT !.clean = @ /\ TakesEffect(outcome)]
    /\ UNCHANGED <<asked, starting, made>>

(* A mutant: the next certificate is only moved to with the slot.           *)
InstallCertBySlot ==
    /\ AtSlot
    /\ HasCert
    /\ InstallStep(InjectCert(install.slot, install.certs[install.certIndex]),
                   [install EXCEPT !.slot = @ + 1, !.certIndex = install.slot + 2])

InstallCert ==
    /\ AtSlot
    /\ HasCert
    /\ InstallStep(InjectCert(install.slot, install.certs[install.certIndex]),
                   [install EXCEPT !.slot = @ + 1, !.certIndex = @ + 1])

(* A fake certificate goes first: deleting an empty slot does not work.     *)
InstallFake ==
    /\ AtSlot
    /\ ~HasCert
    /\ ~install.faked
    /\ InstallStep(InjectCert(install.slot, "fake"), [install EXCEPT !.faked = TRUE])
InstallDelete ==
    /\ AtSlot
    /\ install.faked
    /\ InstallStep(DeleteCert(install.slot),
                   [install EXCEPT !.faked = FALSE, !.slot = @ + 1])

InstallSkip ==
    /\ install.slot \in Slots \ install.writable
    /\ install' = [install EXCEPT !.slot = @ + 1]
    /\ UNCHANGED <<modem, asked, last, starting, made>>
InstallEnd ==
    /\ install.slot = MAX_SLOTS
    /\ install' = NotInstalling
    /\ UNCHANGED <<modem, asked, last, starting, made>>

Next ==
    \/ InjectTime \/ InjectFix \/ SetServer \/ AtlStatus
    \/ SetProtocol \/ SetSensors \/ SetOthers \/ SendOthers
    \/ \E fix \in PosModes : StartFix(fix)
    \/ StartSession \/ StopFix
    \/ \E i \in Installs : InstallAGpsCert(i)
    \/ InstallCert \/ InstallFake \/ InstallDelete \/ InstallSkip \/ InstallEnd

Spec == Init /\ [][Next]_vars

-----------------------------------------------------------------------------
(* What a function last got done stays in the modem, whatever the others do *)
(* that send the same message: each leaves out the fields of the others.    *)
KeptByTheModem ==
    \A f \in DOMAIN asked :
        LET request == asked[f].request
        IN  \A field \in DOMAIN request.values :
                modem[Place(request)][field] = request.values[field]

(* The time is the time it is sent at, a position is never made out to be   *)
(* better than it is, and no failed call comes with an APN profile.         *)
MeantAsAsked ==
    \A f \in DOMAIN asked :
        LET values == asked[f].request.values
        IN  CASE f = "setTime" -> values.timeUtc = asked[f].argument
              [] f = "injectPosition" ->
                    values.horUncCircular >= values.rawHorUncCircular
                    /\ values.rawHorUncCircular = asked[f].argument
              [] f = "atlStatus" -> "apnProfile" \in DOMAIN values => asked[f].argument
              [] OTHER -> TRUE

(* A request carries all that its message must have and nothing it has not, *)
(* and all of it travels,                                                   *)
(* the client lets it through, and its answer is one that gets back: no     *)
(* function is condemned to fail or to time out.                            *)
CanBeSent ==
    LET request == last.request
    IN  request.id # "none" =>
            /\ request.message.mandatory \subseteq DOMAIN request.values
            /\ DOMAIN request.values \subseteq Fields(request.message)
            /\ Received(request) = request
            /\ Validated(request.id, Fields(request.message))
            /\ request.id \in Unanswered  \/ Answerable(request.id)

(* A session is started in the mode that was asked for it.                  *)
StartedInItsMode ==
    last.request.id = "START" =>
        modem[<<"SET_OPERATION_MODE">>].operationMode = OperationMode(last.argument.mode)

(* After an installation, slots that may not be written are as they were.   *)
(* If no request failed, the n-th writable slot has the n-th certificate,   *)
(* up to the first that is empty, and the others have none; if one did, no  *)
(* slot has the certificate of another.                                     *)
CertificatesInstalled ==
    LET usable == {n \in DOMAIN install.certs : \A m \in 1..n : install.certs[m] # "empty"}
        Rank(s) == Cardinality({w \in install.writable : w <= s})
        Own(s) == IF Rank(s) \in usable THEN install.certs[Rank(s)] ELSE "none"
    IN  install.slot = MAX_SLOTS =>
            \A s \in Slots :
                IF s \notin install.writable THEN HeldIn(s) = install.before[s]
                ELSE IF install.clean THEN HeldIn(s) = Own(s)
                ELSE HeldIn(s) \in {install.before[s], "fake", "none", Own(s)}

(* What was asked of the modem is what it holds, in requests that can get   *)
(* there, by startFix (LocApiV02.cpp:308), the setters (:983 to :1680) and  *)
(* installAGpsCert (:2930).                                                 *)
ModemAsAsked ==
    KeptByTheModem /\ MeantAsAsked /\ CanBeSent /\ StartedInItsMode /\ CertificatesInstalled
=============================================================================
