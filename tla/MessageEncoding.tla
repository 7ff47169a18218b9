-------------------------- MODULE MessageEncoding --------------------------
(* How the messages of the location service travel (location_service_v02.c): *)
(* a message is a set of values by type, and the table of a message says,    *)
(* independently of its declaration in LocationService, which field goes by  *)
(* which type.  An optional field travels if it is marked valid.             *)
EXTENDS Integers, Functions

(* A table, as it stands in the file: the fields a message always has are    *)
(* numbered from 0x01, those it may have from 0x10.                          *)
At(fields, f) == CHOOSE i \in DOMAIN fields : fields[i] = f

(* A mutant: one numbering for both kinds.                                   *)
TypesOver(mandatory, optional) ==
    [f \in Range(mandatory) \cup Range(optional) |->
        IF f \in Range(mandatory)
        THEN At(mandatory, f) ELSE At(optional, f)]

Types(mandatory, optional) ==
    [f \in Range(mandatory) \cup Range(optional) |->
        IF f \in Range(mandatory)
        THEN At(mandatory, f) ELSE 15 + At(optional, f)]

(* What is sent of a message with these values, and what is made of it: a    *)
(* field the table has not is not sent, a type it has not is passed over.    *)
Encoded(tlvs, values) ==
    LET sent == DOMAIN values \cap DOMAIN tlvs
    IN  [t \in {tlvs[f] : f \in sent} |->
            values[CHOOSE f \in sent : tlvs[f] = t]]
Decoded(tlvs, message) ==
    [f \in {g \in DOMAIN tlvs : tlvs[g] \in DOMAIN message} |->
        message[tlvs[f]]]
Travelled(tlvs, values) == Decoded(tlvs, Encoded(tlvs, values))

-----------------------------------------------------------------------------
(* Requests.                                                                 *)

RegEventsReqTlvs == Types(<<"eventRegMask">>, <<>>)

StartReqTlvs ==
    Types(<<"sessionId">>,
          <<"fixRecurrence", "horizontalAccuracyLevel",
            "intermediateReportState", "minInterval", "applicationId",
            "configAltitudeAssumed">>)

StopReqTlvs == Types(<<"sessionId">>, <<>>)
SetOperationModeReqTlvs == Types(<<"operationMode">>, <<>>)
InjectUtcTimeReqTlvs == Types(<<"timeUtc", "timeUnc">>, <<>>)

InjectPositionReqTlvs ==
    Types(<<>>,
          <<"latitude", "longitude", "horUncCircular", "horConfidence",
            "horReliability", "altitudeWrtEllipsoid", "altitudeWrtMeanSeaLevel",
            "vertUnc", "vertConfidence", "vertReliability", "altSourceInfo",
            "timestampUtc", "timestampAge", "positionSrc", "rawHorUncCircular",
            "rawHorConfidence">>)

InjectPredictedOrbitsDataReqTlvs ==
    Types(<<"totalSize", "totalParts", "partNum", "partData">>,
          <<"formatType">>)

DeleteAssistDataReqTlvs ==
    Types(<<"deleteAllFlag">>,
          <<"deleteSvInfoList", "deleteGnssDataMask", "deleteCellDbDataMask",
            "deleteClockInfoMask", "deleteBdsSvInfoList">>)

SetServerReqTlvs ==
    Types(<<"serverType">>, <<"ipv4Addr", "ipv6Addr", "urlAddr">>)

InformLocationServerConnStatusReqTlvs ==
    Types(<<"connHandle", "requestType", "statusType">>, <<"apnProfile">>)

SetProtocolConfigParametersReqTlvs ==
    Types(<<>>,
          <<"suplSecurity", "vxVersion", "suplVersion", "lppConfig",
            "assistedGlonassProtocolMask", "suplHashAlgo", "suplTlsVersion",
            "emergencyProtocol", "wifiScanInjectTimeout">>)

SetSensorControlConfigReqTlvs ==
    Types(<<>>, <<"sensorsUsage", "sensorProvider">>)

SetSensorPropertiesReqTlvs ==
    Types(<<>>,
          <<"gyroBiasVarianceRandomWalk", "velocityRandomWalkSpectralDensity",
            "accelerationRandomWalkSpectralDensity",
            "angleRandomWalkSpectralDensity", "rateRandomWalkSpectralDensity",
            "vehicleDataUse", "vehicleVelocityRandomWalkSpectralDensity",
            "vehicleAccelRandomWalkSpectralDensity",
            "vehicleAngleRandomWalkSpectralDensity",
            "vehicleAngularRateRandomWalkSpectralDensity",
            "vehicleOdometryScaleFactorRandomWalkSpectralDensity",
            "vehicleOdometryVariance">>)

SetSensorPerformanceControlConfigReqTlvs ==
    Types(<<>>,
          <<"performanceControlMode", "accelSamplingSpec", "gyroSamplingSpec",
            "algorithmConfig", "accelSamplingSpecHigh", "gyroSamplingSpecHigh">>)

SetExternalPowerConfigReqTlvs == Types(<<"externalPowerState">>, <<>>)
SetEngineLockReqTlvs == Types(<<"lockType">>, <<>>)
SetXtraVersionCheckReqTlvs == Types(<<"xtraVersionCheckMode">>, <<>>)
InjectSuplCertificateReqTlvs == Types(<<"suplCertId", "suplCertData">>, <<>>)
DeleteSuplCertificateReqTlvs == Types(<<>>, <<"suplCertId">>)

NiUserRespReqTlvs ==
    Types(<<"userResp", "notificationType">>,
          <<"NiVxPayload", "NiSuplPayload", "NiUmtsCpPayload",
            "NiVxServiceInteractionPayload", "NiSuplVer2ExtPayload",
            "suplEmergencyNotification">>)

-----------------------------------------------------------------------------
(* Indications.                                                              *)

PositionReportIndTlvs ==
    Types(<<"sessionStatus", "sessionId">>,
          <<"latitude", "longitude", "horUncCircular", "horUncEllipseSemiMinor",
            "horUncEllipseSemiMajor", "horUncEllipseOrientAzimuth",
            "horConfidence", "horReliability", "speedHorizontal", "speedUnc",
            "altitudeWrtEllipsoid", "altitudeWrtMeanSeaLevel", "vertUnc",
            "vertConfidence", "vertReliability", "speedVertical", "heading",
            "headingUnc", "magneticDeviation", "technologyMask", "DOP",
            "timestampUtc", "leapSeconds", "gpsTime", "timeUnc", "timeSrc",
            "sensorDataUsage", "fixId", "gnssSvUsedList", "altitudeAssumed">>)

GnssSvInfoIndTlvs == Types(<<"altitudeAssumed">>, <<"svList">>)
NmeaIndTlvs == Types(<<"nmea">>, <<>>)
EngineStateIndTlvs == Types(<<"engineState">>, <<>>)
FixSessionStateIndTlvs == Types(<<"sessionState">>, <<"sessionId">>)
InjectTimeReqIndTlvs == Types(<<>>, <<"timeServerInfo">>)

InjectPositionReqIndTlvs ==
    Types(<<"latitude", "longitude", "horUncCircular", "timestampUtc">>, <<>>)

InjectPredictedOrbitsReqIndTlvs == Types(<<"allowedSizes">>, <<"serverList">>)

LocationServerConnectionReqIndTlvs ==
    Types(<<"connHandle", "requestType", "wwanType">>, <<>>)

NiNotifyVerifyReqIndTlvs ==
    Types(<<"notificationType">>,
          <<"NiVxInd", "NiSuplInd", "NiUmtsCpInd", "NiVxServiceInteractionInd",
            "NiSuplVer2ExtInd", "suplEmergencyNotification">>)

GetPredictedOrbitsDataSourceIndTlvs ==
    Types(<<"status">>, <<"allowedSizes", "serverList">>)

GetEngineLockIndTlvs == Types(<<"status">>, <<"lockType">>)

GetAvailWwanPositionIndTlvs ==
    Types(<<"status">>,
          <<"transactionId", "latitude", "longitude", "horUncCircular",
            "altitudeWrtEllipsoid", "vertUnc", "timestampUtc", "timeUnc",
            "horUncEllipseSemiMinor", "horUncEllipseSemiMajor",
            "horUncEllipseOrientAzimuth", "horCircularConfidence",
            "horEllipticalConfidence", "horReliability",
            "altitudeWrtMeanSeaLevel", "vertConfidence", "vertReliability",
            "gpsTime", "timeSrc">>)

GetBestAvailablePositionIndTlvs ==
    Types(<<"status">>,
          <<"transactionId", "latitude", "longitude", "horUncCircular",
            "altitudeWrtEllipsoid", "vertUnc", "timestampUtc", "timeUnc",
            "horUncEllipseSemiMinor", "horUncEllipseSemiMajor",
            "horUncEllipseOrientAzimuth", "horCircularConfidence",
            "horEllipticalConfidence", "horReliability", "horSpeed",
            "horSpeedUnc", "altitudeWrtMeanSeaLevel", "vertConfidence",
            "vertReliability", "vertSpeed", "vertSpeedUnc", "heading",
            "headingUnc", "magneticDeviation", "technologyMask", "DOP",
            "gpsTime", "timeSrc", "sensorDataUsage", "gnssSvUsedList">>)

-----------------------------------------------------------------------------
(* The tables by message ID.                                                 *)
RequestTlvs ==
    [REG_EVENTS |-> RegEventsReqTlvs,
     START |-> StartReqTlvs,
     STOP |-> StopReqTlvs,
     SET_OPERATION_MODE |-> SetOperationModeReqTlvs,
     INJECT_UTC_TIME |-> InjectUtcTimeReqTlvs,
     INJECT_POSITION |-> InjectPositionReqTlvs,
     INJECT_PREDICTED_ORBITS_DATA |-> InjectPredictedOrbitsDataReqTlvs,
     DELETE_ASSIST_DATA |-> DeleteAssistDataReqTlvs,
     SET_SERVER |-> SetServerReqTlvs,
     INFORM_LOCATION_SERVER_CONN_STATUS |->
        InformLocationServerConnStatusReqTlvs,
     SET_PROTOCOL_CONFIG_PARAMETERS |-> SetProtocolConfigParametersReqTlvs,
     SET_SENSOR_CONTROL_CONFIG |-> SetSensorControlConfigReqTlvs,
     SET_SENSOR_PROPERTIES |-> SetSensorPropertiesReqTlvs,
     SET_SENSOR_PERFORMANCE_CONTROL_CONFIGURATION |->
        SetSensorPerformanceControlConfigReqTlvs,
     SET_EXTERNAL_POWER_CONFIG |-> SetExternalPowerConfigReqTlvs,
     SET_ENGINE_LOCK |-> SetEngineLockReqTlvs,
     SET_XTRA_VERSION_CHECK |-> SetXtraVersionCheckReqTlvs,
     INJECT_SUPL_CERTIFICATE |-> InjectSuplCertificateReqTlvs,
     DELETE_SUPL_CERTIFICATE |-> DeleteSuplCertificateReqTlvs,
     NI_USER_RESPONSE |-> NiUserRespReqTlvs]

IndicationTlvs ==
    [POSITION_REPORT |-> PositionReportIndTlvs,
     GNSS_SV_INFO |-> GnssSvInfoIndTlvs,
     NMEA |-> NmeaIndTlvs,
     ENGINE_STATE |-> EngineStateIndTlvs,
     FIX_SESSION_STATE |-> FixSessionStateIndTlvs,
     INJECT_TIME_REQ |-> InjectTimeReqIndTlvs,
     INJECT_POSITION_REQ |-> InjectPositionReqIndTlvs,
     INJECT_PREDICTED_ORBITS_REQ |-> InjectPredictedOrbitsReqIndTlvs,
     LOCATION_SERVER_CONNECTION_REQ |-> LocationServerConnectionReqIndTlvs,
     NI_NOTIFY_VERIFY_REQ |-> NiNotifyVerifyReqIndTlvs,
     GET_PREDICTED_ORBITS_DATA_SOURCE |-> GetPredictedOrbitsDataSourceIndTlvs,
     GET_ENGINE_LOCK |-> GetEngineLockIndTlvs,
     GET_AVAILABLE_WWAN_POSITION |-> GetAvailWwanPositionIndTlvs,
     GET_BEST_AVAILABLE_POSITION |-> GetBestAvailablePositionIndTlvs]
=============================================================================
