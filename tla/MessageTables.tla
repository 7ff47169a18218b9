--------------------------- MODULE MessageTables ---------------------------
(* The tables of loc_api_v02_client.c, which are kept by hand and must      *)
(* agree: what may be sent, and which indications have a size and are known *)
(* to the function that looks at them.  Each message goes by its name,      *)
(* without QMI_LOC_, EVENT_, _REQ and _IND.                                 *)

(* locClientEventIndTable: the events, each with a bit of the event mask.   *)
EventTable ==
    {"POSITION_REPORT", "GNSS_SV_INFO", "NMEA", "NI_NOTIFY_VERIFY_REQ",
     "INJECT_TIME_REQ", "INJECT_PREDICTED_ORBITS_REQ", "INJECT_POSITION_REQ",
     "ENGINE_STATE", "FIX_SESSION_STATE", "WIFI_REQ",
     "SENSOR_STREAMING_READY_STATUS", "TIME_SYNC_REQ",
     "SET_SPI_STREAMING_REPORT", "LOCATION_SERVER_CONNECTION_REQ",
     "NI_GEOFENCE_NOTIFICATION", "GEOFENCE_GEN_ALERT",
     "GEOFENCE_BREACH_NOTIFICATION", "GEOFENCE_BATCHED_BREACH_NOTIFICATION",
     "PEDOMETER_CONTROL", "MOTION_DATA_CONTROL", "INJECT_WIFI_AP_DATA_REQ",
     "LIVE_BATCHED_POSITION_REPORT", "BATCH_FULL_NOTIFICATION",
     "VEHICLE_DATA_READY_STATUS", "GEOFENCE_PROXIMITY_NOTIFICATION"}

(* locClientRespIndTable: the answers.  Two of the events follow again.     *)
AssistanceAnswers ==
    {"GET_SERVICE_REVISION", "GET_FIX_CRITERIA", "NI_USER_RESPONSE",
     "INJECT_PREDICTED_ORBITS_DATA", "GET_PREDICTED_ORBITS_DATA_SOURCE",
     "GET_PREDICTED_ORBITS_DATA_VALIDITY", "INJECT_UTC_TIME",
     "INJECT_POSITION", "SET_ENGINE_LOCK", "GET_ENGINE_LOCK",
     "SET_SBAS_CONFIG", "GET_SBAS_CONFIG", "SET_NMEA_TYPES", "GET_NMEA_TYPES",
     "SET_LOW_POWER_MODE", "GET_LOW_POWER_MODE", "SET_SERVER", "GET_SERVER",
     "DELETE_ASSIST_DATA", "SET_XTRA_T_SESSION_CONTROL",
     "GET_XTRA_T_SESSION_CONTROL", "INJECT_WIFI_POSITION",
     "NOTIFY_WIFI_STATUS", "GET_REGISTERED_EVENTS", "SET_OPERATION_MODE",
     "GET_OPERATION_MODE", "SET_SPI_STATUS", "INJECT_SENSOR_DATA",
     "INJECT_TIME_SYNC_DATA", "SET_CRADLE_MOUNT_CONFIG",
     "GET_CRADLE_MOUNT_CONFIG", "SET_EXTERNAL_POWER_CONFIG",
     "GET_EXTERNAL_POWER_CONFIG"}

ConfigAnswers ==
    {"INFORM_LOCATION_SERVER_CONN_STATUS", "SET_PROTOCOL_CONFIG_PARAMETERS",
     "GET_PROTOCOL_CONFIG_PARAMETERS", "SET_SENSOR_CONTROL_CONFIG",
     "GET_SENSOR_CONTROL_CONFIG", "SET_SENSOR_PROPERTIES",
     "GET_SENSOR_PROPERTIES", "SET_SENSOR_PERFORMANCE_CONTROL_CONFIGURATION",
     "GET_SENSOR_PERFORMANCE_CONTROL_CONFIGURATION",
     "INJECT_SUPL_CERTIFICATE", "DELETE_SUPL_CERTIFICATE",
     "SET_POSITION_ENGINE_CONFIG_PARAMETERS",
     "GET_POSITION_ENGINE_CONFIG_PARAMETERS", "ADD_CIRCULAR_GEOFENCE",
     "DELETE_GEOFENCE", "QUERY_GEOFENCE", "EDIT_GEOFENCE",
     "GET_BEST_AVAILABLE_POSITION", "INJECT_MOTION_DATA",
     "GET_NI_GEOFENCE_ID_LIST"}

LaterAnswers ==
    {"INJECT_GSM_CELL_INFO", "INJECT_NETWORK_INITIATED_MESSAGE",
     "WWAN_OUT_OF_SERVICE_NOTIFICATION", "PEDOMETER_REPORT",
     "INJECT_WCDMA_CELL_INFO", "INJECT_TDSCDMA_CELL_INFO",
     "INJECT_SUBSCRIBER_ID", "INJECT_WIFI_AP_DATA", "START_BATCHING",
     "STOP_BATCHING", "GET_BATCH_SIZE", "LIVE_BATCHED_POSITION_REPORT",
     "BATCH_FULL_NOTIFICATION", "READ_FROM_BATCH", "RELEASE_BATCH",
     "SET_XTRA_VERSION_CHECK", "INJECT_VEHICLE_SENSOR_DATA",
     "NOTIFY_WIFI_ATTACHMENT_STATUS", "NOTIFY_WIFI_ENABLED_STATUS",
     "SET_PREMIUM_SERVICES_CONFIG", "GET_AVAILABLE_WWAN_POSITION"}

(* A mutant: the table before its latest messages.                          *)
RespIndTableOlder == AssistanceAnswers \cup ConfigAnswers

RespIndTable == AssistanceAnswers \cup ConfigAnswers \cup LaterAnswers

-----------------------------------------------------------------------------
(* locClientHandleIndication: any other indication is dropped.              *)

HandledEvents ==
    {"POSITION_REPORT", "GNSS_SV_INFO", "NMEA", "NI_NOTIFY_VERIFY_REQ",
     "INJECT_TIME_REQ", "INJECT_PREDICTED_ORBITS_REQ", "INJECT_POSITION_REQ",
     "ENGINE_STATE", "FIX_SESSION_STATE", "WIFI_REQ",
     "SENSOR_STREAMING_READY_STATUS", "TIME_SYNC_REQ",
     "SET_SPI_STREAMING_REPORT", "LOCATION_SERVER_CONNECTION_REQ",
     "NI_GEOFENCE_NOTIFICATION", "GEOFENCE_GEN_ALERT",
     "GEOFENCE_BREACH_NOTIFICATION", "GEOFENCE_BATCHED_BREACH_NOTIFICATION",
     "PEDOMETER_CONTROL", "MOTION_DATA_CONTROL", "INJECT_WIFI_AP_DATA_REQ",
     "VEHICLE_DATA_READY_STATUS", "GEOFENCE_PROXIMITY_NOTIFICATION"}

HandledAlone ==
    {"INJECT_VEHICLE_SENSOR_DATA", "GET_SERVICE_REVISION", "GET_FIX_CRITERIA",
     "INJECT_PREDICTED_ORBITS_DATA", "GET_PREDICTED_ORBITS_DATA_SOURCE",
     "GET_PREDICTED_ORBITS_DATA_VALIDITY", "INJECT_SENSOR_DATA",
     "GET_PROTOCOL_CONFIG_PARAMETERS", "SET_PROTOCOL_CONFIG_PARAMETERS",
     "GET_EXTERNAL_POWER_CONFIG", "GET_CRADLE_MOUNT_CONFIG",
     "GET_SENSOR_CONTROL_CONFIG",
     "GET_SENSOR_PERFORMANCE_CONTROL_CONFIGURATION", "GET_SENSOR_PROPERTIES",
     "SET_SENSOR_PERFORMANCE_CONTROL_CONFIGURATION",
     "SET_POSITION_ENGINE_CONFIG_PARAMETERS",
     "GET_POSITION_ENGINE_CONFIG_PARAMETERS", "ADD_CIRCULAR_GEOFENCE",
     "DELETE_GEOFENCE", "EDIT_GEOFENCE", "QUERY_GEOFENCE",
     "GET_BEST_AVAILABLE_POSITION", "GET_ENGINE_LOCK",
     "GET_NI_GEOFENCE_ID_LIST", "PEDOMETER_REPORT", "START_BATCHING",
     "STOP_BATCHING", "GET_BATCH_SIZE", "LIVE_BATCHED_POSITION_REPORT",
     "BATCH_FULL_NOTIFICATION", "READ_FROM_BATCH", "RELEASE_BATCH"}

HandledTogether ==
    {"NI_USER_RESPONSE", "INJECT_UTC_TIME", "INJECT_POSITION",
     "SET_ENGINE_LOCK", "SET_SBAS_CONFIG", "SET_NMEA_TYPES",
     "SET_LOW_POWER_MODE", "SET_SERVER", "DELETE_ASSIST_DATA",
     "SET_XTRA_T_SESSION_CONTROL", "INJECT_WIFI_POSITION",
     "NOTIFY_WIFI_STATUS", "SET_OPERATION_MODE", "SET_SPI_STATUS",
     "INJECT_TIME_SYNC_DATA", "SET_CRADLE_MOUNT_CONFIG",
     "SET_EXTERNAL_POWER_CONFIG", "INFORM_LOCATION_SERVER_CONN_STATUS",
     "SET_SENSOR_CONTROL_CONFIG", "SET_SENSOR_PROPERTIES",
     "INJECT_SUPL_CERTIFICATE", "DELETE_SUPL_CERTIFICATE",
     "INJECT_MOTION_DATA", "INJECT_GSM_CELL_INFO",
     "INJECT_NETWORK_INITIATED_MESSAGE", "WWAN_OUT_OF_SERVICE_NOTIFICATION",
     "INJECT_WCDMA_CELL_INFO", "INJECT_TDSCDMA_CELL_INFO",
     "INJECT_SUBSCRIBER_ID", "INJECT_WIFI_AP_DATA",
     "NOTIFY_WIFI_ATTACHMENT_STATUS", "NOTIFY_WIFI_ENABLED_STATUS",
     "SET_PREMIUM_SERVICES_CONFIG", "GET_AVAILABLE_WWAN_POSITION",
     "SET_XTRA_VERSION_CHECK", "GET_REGISTERED_EVENTS"}

Handled == HandledEvents \cup HandledAlone \cup HandledTogether

-----------------------------------------------------------------------------
(* validateRequest: any other request is an invalid parameter.              *)

SessionRequests ==
    {"INFORM_CLIENT_REVISION", "REG_EVENTS", "START", "STOP",
     "NI_USER_RESPONSE", "INJECT_PREDICTED_ORBITS_DATA", "INJECT_UTC_TIME",
     "INJECT_POSITION", "SET_ENGINE_LOCK", "SET_SBAS_CONFIG",
     "SET_NMEA_TYPES", "SET_LOW_POWER_MODE", "SET_SERVER",
     "DELETE_ASSIST_DATA", "SET_XTRA_T_SESSION_CONTROL",
     "INJECT_WIFI_POSITION", "NOTIFY_WIFI_STATUS", "SET_OPERATION_MODE",
     "SET_SPI_STATUS", "INJECT_SENSOR_DATA", "INJECT_TIME_SYNC_DATA",
     "SET_CRADLE_MOUNT_CONFIG", "SET_EXTERNAL_POWER_CONFIG",
     "INFORM_LOCATION_SERVER_CONN_STATUS"}

ConfigRequests ==
    {"SET_PROTOCOL_CONFIG_PARAMETERS", "GET_PROTOCOL_CONFIG_PARAMETERS",
     "SET_SENSOR_CONTROL_CONFIG", "GET_SENSOR_PROPERTIES",
     "SET_SENSOR_PROPERTIES", "SET_SENSOR_PERFORMANCE_CONTROL_CONFIGURATION",
     "INJECT_SUPL_CERTIFICATE", "DELETE_SUPL_CERTIFICATE",
     "SET_POSITION_ENGINE_CONFIG_PARAMETERS",
     "GET_POSITION_ENGINE_CONFIG_PARAMETERS", "ADD_CIRCULAR_GEOFENCE",
     "DELETE_GEOFENCE", "QUERY_GEOFENCE", "EDIT_GEOFENCE",
     "GET_BEST_AVAILABLE_POSITION", "INJECT_MOTION_DATA",
     "GET_NI_GEOFENCE_ID_LIST", "INJECT_GSM_CELL_INFO",
     "INJECT_NETWORK_INITIATED_MESSAGE", "PEDOMETER_REPORT",
     "INJECT_WCDMA_CELL_INFO", "INJECT_TDSCDMA_CELL_INFO"}

LaterRequests ==
    {"INJECT_SUBSCRIBER_ID", "INJECT_WIFI_AP_DATA", "GET_BATCH_SIZE",
     "START_BATCHING", "READ_FROM_BATCH", "STOP_BATCHING", "RELEASE_BATCH",
     "SET_XTRA_VERSION_CHECK", "INJECT_VEHICLE_SENSOR_DATA",
     "NOTIFY_WIFI_ATTACHMENT_STATUS", "NOTIFY_WIFI_ENABLED_STATUS",
     "SET_PREMIUM_SERVICES_CONFIG", "GET_AVAILABLE_WWAN_POSITION"}

WithPayload == SessionRequests \cup ConfigRequests \cup LaterRequests

(* Whatever their payload, these are sent without.                          *)
WithoutPayload ==
    {"GET_SERVICE_REVISION", "GET_FIX_CRITERIA",
     "GET_PREDICTED_ORBITS_DATA_SOURCE", "GET_PREDICTED_ORBITS_DATA_VALIDITY",
     "GET_ENGINE_LOCK", "GET_SBAS_CONFIG", "GET_NMEA_TYPES",
     "GET_LOW_POWER_MODE", "GET_SERVER", "GET_XTRA_T_SESSION_CONTROL",
     "GET_REGISTERED_EVENTS", "GET_OPERATION_MODE", "GET_CRADLE_MOUNT_CONFIG",
     "GET_EXTERNAL_POWER_CONFIG", "GET_SENSOR_CONTROL_CONFIG",
     "GET_SENSOR_PERFORMANCE_CONTROL_CONFIGURATION",
     "WWAN_OUT_OF_SERVICE_NOTIFICATION", "GET_SUPPORTED_MSGS",
     "GET_SUPPORTED_FIELDS"}

-----------------------------------------------------------------------------
(* The service gets the request as it was meant.                            *)
Validated(id, fields) == id \in IF fields = {} THEN WithoutPayload ELSE WithPayload

(* The answer to a request reaches the client.                              *)
Answerable(id) == id \in RespIndTable \cap Handled

(* An event reaches the client that asked for those in mask.                *)
Delivered(event, mask) == event \in EventTable \cap mask \cap Handled
=============================================================================
