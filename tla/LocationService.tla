-------------------------- MODULE LocationService --------------------------
(* The messages of the location service (location_service_v02.h) that       *)
(* LocApiV02 sends and reads: which fields each always has, and which it    *)
(* has only if they are marked valid.                                       *)

Message(mandatory, optional) == [mandatory |-> mandatory, optional |-> optional]
Fields(message) == message.mandatory \cup message.optional

-----------------------------------------------------------------------------
(* Requests.                                                                *)

RegEventsReq == Message({"eventRegMask"}, {})

StartReq ==
    Message({"sessionId"},
            {"fixRecurrence", "horizontalAccuracyLevel", "intermediateReportState",
             "minInterval", "applicationId", "configAltitudeAssumed"})
StopReq             == Message({"sessionId"}, {})
SetOperationModeReq == Message({"operationMode"}, {})

InjectUtcTimeReq == Message({"timeUtc", "timeUnc"}, {})

InjectedPlace ==
    {"latitude", "longitude", "horUncCircular", "horConfidence", "horReliability",
     "altitudeWrtEllipsoid", "altitudeWrtMeanSeaLevel"}
InjectedRest ==
    {"vertUnc", "vertConfidence", "vertReliability", "altSourceInfo", "timestampUtc",
     "timestampAge", "positionSrc", "rawHorUncCircular", "rawHorConfidence"}
InjectPositionReq == Message({}, InjectedPlace \cup InjectedRest)

InjectPredictedOrbitsDataReq ==
    Message({"totalSize", "totalParts", "partNum", "partData"}, {"formatType"})

DeleteAssistDataReq ==
    Message({"deleteAllFlag"},
            {"deleteSvInfoList", "deleteGnssDataMask", "deleteCellDbDataMask",
             "deleteClockInfoMask", "deleteBdsSvInfoList"})

SetServerReq == Message({"serverType"}, {"ipv4Addr", "ipv6Addr", "urlAddr"})

InformLocationServerConnStatusReq ==
    Message({"connHandle", "requestType", "statusType"}, {"apnProfile"})

SetProtocolConfigParametersReq ==
    Message({}, {"suplSecurity", "vxVersion", "suplVersion", "lppConfig",
                 "assistedGlonassProtocolMask", "suplHashAlgo", "suplTlsVersion",
                 "emergencyProtocol", "wifiScanInjectTimeout"})

SetSensorControlConfigReq == Message({}, {"sensorsUsage", "sensorProvider"})

SetSensorPropertiesReq ==
    Message({}, {"gyroBiasVarianceRandomWalk",
                 "accelerationRandomWalkSpectralDensity",
                 "angleRandomWalkSpectralDensity", "rateRandomWalkSpectralDensity",
                 "velocityRandomWalkSpectralDensity",
                 "vehicleAccelRandomWalkSpectralDensity",
                 "vehicleAngleRandomWalkSpectralDensity",
                 "vehicleAngularRateRandomWalkSpectralDensity",
                 "vehicleOdometryScaleFactorRandomWalkSpectralDensity",
                 "vehicleOdometryVariance",
                 "vehicleVelocityRandomWalkSpectralDensity", "vehicleDataUse"})

SetSensorPerformanceControlConfigReq ==
    Message({}, {"performanceControlMode", "accelSamplingSpec", "gyroSamplingSpec",
                 "accelSamplingSpecHigh", "gyroSamplingSpecHigh", "algorithmConfig"})

SetExternalPowerConfigReq == Message({"externalPowerState"}, {})
SetEngineLockReq          == Message({"lockType"}, {})
SetXtraVersionCheckReq    == Message({"xtraVersionCheckMode"}, {})
InjectSuplCertificateReq  == Message({"suplCertId", "suplCertData"}, {})
DeleteSuplCertificateReq  == Message({}, {"suplCertId"})

NiUserRespReq ==
    Message({"userResp", "notificationType"},
            {"NiVxPayload", "NiSuplPayload", "NiUmtsCpPayload",
             "NiVxServiceInteractionPayload", "NiSuplVer2ExtPayload",
             "suplEmergencyNotification"})

-----------------------------------------------------------------------------
(* Indications: events, and the answers to requests that ask for something. *)

ReportedPlace ==
    {"latitude", "longitude", "horUncCircular", "horUncEllipseSemiMinor",
     "horUncEllipseSemiMajor", "horUncEllipseOrientAzimuth", "horConfidence",
     "horReliability", "speedHorizontal", "speedUnc", "altitudeWrtEllipsoid",
     "altitudeWrtMeanSeaLevel", "vertUnc", "vertConfidence", "vertReliability"}
ReportedRest ==
    {"speedVertical", "heading", "headingUnc", "magneticDeviation", "technologyMask",
     "DOP", "timestampUtc", "leapSeconds", "gpsTime", "timeUnc", "timeSrc",
     "sensorDataUsage", "fixId", "gnssSvUsedList", "altitudeAssumed"}
PositionReportInd ==
    Message({"sessionStatus", "sessionId"}, ReportedPlace \cup ReportedRest)

GnssSvInfoInd       == Message({"altitudeAssumed"}, {"svList"})
NmeaInd             == Message({"nmea"}, {})
EngineStateInd      == Message({"engineState"}, {})
FixSessionStateInd  == Message({"sessionState"}, {"sessionId"})
InjectTimeReqInd    == Message({}, {"timeServerInfo"})
InjectPositionReqInd ==
    Message({"latitude", "longitude", "horUncCircular", "timestampUtc"}, {})
InjectPredictedOrbitsReqInd == Message({"allowedSizes"}, {"serverList"})
LocationServerConnectionReqInd ==
    Message({"connHandle", "requestType", "wwanType"}, {})

NiNotifyVerifyReqInd ==
    Message({"notificationType"},
            {"NiVxInd", "NiUmtsCpInd", "NiSuplInd", "NiVxServiceInteractionInd",
             "NiSuplVer2ExtInd", "suplEmergencyNotification"})

GetPredictedOrbitsDataSourceInd == Message({"status"}, {"allowedSizes", "serverList"})
GetEngineLockInd                == Message({"status"}, {"lockType"})

WwanPlace ==
    {"transactionId", "latitude", "longitude", "horUncCircular",
     "altitudeWrtEllipsoid", "vertUnc", "timestampUtc", "timeUnc",
     "horUncEllipseSemiMinor", "horUncEllipseSemiMajor",
     "horUncEllipseOrientAzimuth", "horCircularConfidence",
     "horEllipticalConfidence"}
WwanRest ==
    {"horReliability", "altitudeWrtMeanSeaLevel", "vertConfidence",
     "vertReliability", "gpsTime", "timeSrc"}
GetAvailWwanPositionInd == Message({"status"}, WwanPlace \cup WwanRest)

BestPlace ==
    {"transactionId", "latitude", "longitude", "horUncCircular",
     "altitudeWrtEllipsoid", "vertUnc", "timestampUtc", "timeUnc",
     "horUncEllipseSemiMinor", "horUncEllipseSemiMajor",
     "horUncEllipseOrientAzimuth", "horCircularConfidence",
     "horEllipticalConfidence", "horReliability", "horSpeed", "horSpeedUnc"}
BestRest ==
    {"altitudeWrtMeanSeaLevel", "vertConfidence", "vertReliability", "vertSpeed",
     "vertSpeedUnc", "heading", "headingUnc", "magneticDeviation",
     "technologyMask", "DOP", "gpsTime", "timeSrc", "sensorDataUsage",
     "gnssSvUsedList"}
GetBestAvailablePositionInd == Message({"status"}, BestPlace \cup BestRest)
=============================================================================
