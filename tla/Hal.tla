--------------------------------- MODULE Hal ---------------------------------
(* loc.cpp: the interface that the framework gets, initialises, uses and    *)
(* cleans up, with what loc_eng makes of its calls before they reach the    *)
(* MsgTask thread, and with the target, the configuration and the libraries *)
(* these depend on.  The framework's thread calls; the MsgTask thread       *)
(* starts and stops the session and brings reports.  The chip may be        *)
(* detected, and the modem's device appear, at any time.                    *)
EXTENDS Configuration

CONSTANTS Clients,      \* who initialises the HAL: the callbacks of each
          Phones        \* [platform, files, libs, props, calls]

VARIABLES
    phone,
    gTarget,
    conf,           \* gps_conf and sap_conf, NULL until they are read
    handed,         \* an interface has been handed out
    adapter, told,  \* loc_eng_data.adapter is set; set_capabilities_cb's value
    gps_loc_cb,     \* and gps_sv_cb
    status_cb,      \* loc_eng_data's, and its nmea_cb
    msgq, inSession,
    delivering,     \* the callback that local_loc_cb has found
    passed,         \* what the last step handed on to loc_eng, or back
    (* History. *)
    found,          \* the targets for which an interface was asked
    user,           \* who initialised the HAL and did not clean up
    late,           \* the user changed while a report was being delivered
    unstopped,      \* the HAL was cleaned up before a start was processed
    calls           \* bound: calls of the framework that are left

target == <<phone, gTarget, conf, handed, found>>
engine == <<adapter, told, status_cb>>
session == <<msgq, inSession, unstopped>>
report == <<gps_loc_cb, delivering, user, late>>
vars == <<target, engine, session, report, passed, calls>>

Hand(op, arg) == [op |-> op, arg |-> arg]
None    == "none"
Nothing == Hand(None, None)

TypeOK ==
    /\ phone.libs \subseteq {"lbs", "lbs_api", "lbs_cpi", "rpc", "geofence"}
    /\ phone.props \subseteq {"gps.disable", "nlp_in_use"}
    /\ conf = NULL \/ conf.valid \subseteq FloatParams
    /\ handed \in BOOLEAN /\ adapter \in BOOLEAN /\ inSession \in BOOLEAN
    /\ {gps_loc_cb, status_cb, user, delivering} \subseteq Clients \cup {NULL}
    /\ msgq \in Seq({"start", "stop"})

Init ==
    /\ phone \in Phones
    /\ gTarget = "unset" /\ conf = NULL /\ handed = FALSE /\ found = {}
    /\ adapter = FALSE /\ told = NULL /\ status_cb = NULL
    /\ passed = Nothing
    /\ msgq = <<>> /\ inSession = FALSE /\ unstopped = FALSE
    /\ gps_loc_cb = NULL /\ delivering = NULL /\ user = NULL /\ late = FALSE
    /\ calls = phone.calls

Call == calls > 0 /\ calls' = calls - 1

(* loc_get_target: the targets that may be found, the first one for good.   *)
loc_get_target == IF gTarget # "unset" THEN {gTarget} ELSE Detected(phone.platform)

(* A mutant: they are read each time.                                       *)
loc_eng_read_configAgain == Configured(phone.files)

(* loc_eng_read_config: the files are read once.                            *)
loc_eng_read_config == IF conf = NULL THEN Configured(phone.files) ELSE conf

(* GPS_CAPABILITY_MSB and MSA, the second bit and the third, taken away.    *)
Unassisted(c) ==
    [c EXCEPT !.value["CAPABILITIES"] = 8 * (@ \div 8) + (@ % 2)]
Capabilities == conf.value["CAPABILITIES"]
Geofencing(c) == (c \div 32) % 2 = 1

-----------------------------------------------------------------------------
(* The framework's thread, which gets the interface before it calls it.     *)

(* gps.c asks for the interface like this: no assistance if nothing assists, *)
(* no interface if there is no GPS.                                         *)
get_gps_interface ==
    /\ ~adapter
    /\ \E t \in loc_get_target :
          /\ gTarget' = t
          /\ found' = found \cup {t}
          /\ conf' = IF Standalone(t) THEN Unassisted(loc_eng_read_config)
                     ELSE loc_eng_read_config
          /\ handed' = (handed \/ GnssType(t) # "GNSS_NONE")
    /\ passed' = Nothing
    /\ UNCHANGED <<phone, engine, session, report, calls>>

(* The other way to the interface, which nobody in the repository takes.    *)
gps_get_hardware_interface ==
    /\ ~adapter
    /\ conf' = loc_eng_read_config
    /\ handed' = (handed \/ "gps.disable" \notin phone.props)
    /\ passed' = Nothing
    /\ UNCHANGED <<phone, gTarget, found, engine, session, report, calls>>

(* ContextBase::createLocApi, in the one foreground context there is: by    *)
(* way of the LBS library, which connects LocApiV02 to the target's         *)
(* instance of the service, by RPC, or a back end that does nothing.        *)
createLocApi(t) ==
    CASE t # "TARGET_MPQ" /\ {"lbs", "lbs_api"} \subseteq phone.libs -> Instance(t)
      [] t # "TARGET_MPQ" /\ ~({"lbs", "lbs_api"} \subseteq phone.libs)
            /\ "rpc" \in phone.libs -> "RPC"
      [] OTHER -> "dummy"

(* loc_init with loc_eng_init: the second time only the callbacks for       *)
(* positions and satellites are new.                                        *)
loc_init(c) ==
    /\ handed /\ Call
    /\ gps_loc_cb' = c /\ user' = c
    /\ late' = (late \/ delivering # NULL)
    /\ \/ /\ ~adapter
          /\ \E t \in loc_get_target :
                gTarget' = t /\ passed' = Hand("createLocApi", createLocApi(t))
          /\ adapter' = TRUE
          /\ told' = Capabilities
          /\ status_cb' = c
       \/ adapter /\ passed' = Nothing /\ UNCHANGED <<gTarget, engine>>
    /\ UNCHANGED <<phone, conf, handed, found, session, delivering>>

(* A mutant: the session is left to itself.                                 *)
loc_cleanupRunning ==
    /\ handed /\ Call
    /\ gps_loc_cb' = NULL /\ user' = NULL
    /\ unstopped' = (~inSession /\ msgq # <<>> /\ Last(msgq) = "start")
    /\ late' = (late \/ delivering # NULL)
    /\ passed' = Nothing
    /\ UNCHANGED <<target, engine, msgq, inSession, delivering>>

(* loc_eng_cleanup stops a session if there is one: the adapter stays.      *)
loc_cleanup ==
    /\ handed /\ Call
    /\ msgq' = IF adapter /\ inSession THEN Append(msgq, "stop") ELSE msgq
    /\ unstopped' = (~inSession /\ msgq # <<>> /\ Last(msgq) = "start")
    /\ gps_loc_cb' = NULL /\ user' = NULL
    /\ late' = (late \/ delivering # NULL)
    /\ passed' = Nothing
    /\ UNCHANGED <<target, engine, inSession, delivering>>

(* loc_start and loc_stop, loc_eng_start and loc_eng_stop, by one who has   *)
(* initialised the HAL.  UlpProxyBase leaves the session to loc_eng.        *)
StartStop(op) ==
    /\ user # NULL /\ Call
    /\ msgq' = Append(msgq, op)
    /\ passed' = Nothing
    /\ UNCHANGED <<target, engine, inSession, unstopped, report>>

(* loc_set_position_mode: any other mode is standalone, and so is every     *)
(* mode if nothing assists.                                                 *)
loc_set_position_mode(m) ==
    /\ adapter
    /\ \E t \in loc_get_target :
          /\ gTarget' = t
          /\ passed' = Hand("set_position_mode",
                            IF m \in {"MS_BASED", "MS_ASSISTED"} /\ ~Standalone(t) THEN m
                            ELSE "STANDALONE")
    /\ UNCHANGED <<phone, conf, handed, found, engine, session, report, calls>>

(* loc_agps_init: a SUPL connection for the modem, if there is one.         *)
loc_agps_init ==
    /\ adapter
    /\ \E t \in loc_get_target :
          /\ gTarget' = t
          /\ passed' = Hand("agps_init", IF Standalone(t) THEN None ELSE "SUPL")
    /\ UNCHANGED <<phone, conf, handed, found, engine, session, report, calls>>

Handing(op, arg) ==
    /\ passed' = Hand(op, arg)
    /\ UNCHANGED <<target, engine, session, report, calls>>

(* The framework's answers about a connection say neither which nor of what *)
(* bearer: they are taken for SUPL's, and IPv4.                             *)
AgpsAnswer == adapter /\ Handing("agps_answer", "SUPL")

(* loc_agps_set_server: a server that is not CDMA's is SUPL's.  Before      *)
(* loc_init it is kept.                                                     *)
loc_agps_set_server(type) ==
    handed /\ Handing("set_server", IF type = "C2K" THEN "CDMA_PDE" ELSE "SUPL")

(* The calls that hand their data on as it is, to loc_eng_inject_time,      *)
(* loc_eng_delete_aiding_data, loc_eng_xtra_init, loc_eng_xtra_inject_data, *)
(* loc_eng_ni_init, loc_eng_ni_respond and the one that tells of the        *)
(* network.                                                                 *)
Pass == adapter /\ Handing("data", None)

(* loc_inject_location: with an accuracy of 1000 m, unless a property said  *)
(* no when it was first called.  loc_eng_inject_location hands it on if the *)
(* LBS library knows coarse positions: mCPIEnabled is set if it does not.   *)
loc_inject_location ==
    /\ adapter /\ "nlp_in_use" \notin phone.props
    /\ {"lbs", "lbs_cpi"} \subseteq phone.libs
    /\ Handing("inject_location", "1000 m")

(* loc_get_extension, get_geofence_interface.                               *)
Available(name) ==
    CASE name \in {"xtra", "agps", "ni"} -> TRUE
      [] name = "agps_ril" -> phone.platform.baseband = "csfb"
      [] name = "geofencing" -> Geofencing(Capabilities) /\ "geofence" \in phone.libs
      [] OTHER -> FALSE

loc_get_extension(name) == handed /\ Available(name) /\ Handing("extension", name)

-----------------------------------------------------------------------------
(* The MsgTask thread.                                                      *)

(* loc_eng_start_handler, which the modem may refuse, loc_eng_stop_handler. *)
ProcSession ==
    /\ msgq # <<>>
    /\ \/ Head(msgq) = "start" /\ inSession' = TRUE
       \/ Head(msgq) = "start" /\ UNCHANGED inSession
       \/ Head(msgq) = "stop" /\ inSession' = FALSE
    /\ msgq' = Tail(msgq)
    /\ passed' = Nothing
    /\ UNCHANGED <<target, engine, unstopped, report, calls>>

(* local_loc_cb and local_sv_cb look at the callback, ...                   *)
Report ==
    /\ inSession /\ delivering = NULL
    /\ gps_loc_cb # NULL
    /\ delivering' = gps_loc_cb
    /\ late' = FALSE
    /\ passed' = Nothing
    /\ UNCHANGED <<target, engine, session, gps_loc_cb, user, calls>>

(* ... and call it, as it was or, if the compiler has them read it again,   *)
(* as it is.                                                                *)
Delivered ==
    /\ delivering # NULL
    /\ \E c \in {delivering, gps_loc_cb} : passed' = Hand("report", c)
    /\ delivering' = NULL
    /\ UNCHANGED <<target, engine, session, gps_loc_cb, user, late, calls>>

-----------------------------------------------------------------------------
(* The phone.                                                               *)

DetectionEnds ==
    /\ phone.platform.qca1530 = "detect"
    /\ \E r \in {"yes", "no"} : phone' = [phone EXCEPT !.platform.qca1530 = r]
    /\ passed' = Nothing
    /\ UNCHANGED <<gTarget, conf, handed, found, engine, session, report, calls>>

ModemAppears ==
    /\ ~phone.platform.mdm /\ gTarget = "unset"
    /\ phone' = [phone EXCEPT !.platform.mdm = TRUE]
    /\ passed' = Nothing
    /\ UNCHANGED <<gTarget, conf, handed, found, engine, session, report, calls>>

Next ==
    \/ get_gps_interface \/ gps_get_hardware_interface
    \/ \E c \in Clients : loc_init(c)
    \/ loc_cleanup \/ StartStop("start") \/ StartStop("stop")
    \/ \E m \in {"STANDALONE", "MS_BASED", "MS_ASSISTED", "other"} : loc_set_position_mode(m)
    \/ loc_agps_init
    \/ AgpsAnswer \/ Pass \/ loc_inject_location
    \/ \E type \in {"SUPL", "C2K", "other"} : loc_agps_set_server(type)
    \/ \E n \in {"xtra", "agps_ril", "geofencing", "other"} : loc_get_extension(n)
    \/ ProcSession \/ Report \/ Delivered
    \/ DetectionEnds \/ ModemAppears

Spec == Init /\ [][Next]_vars

-----------------------------------------------------------------------------
(* Properties.                                                              *)

Lines == (IF phone.files.gps = NULL THEN <<>> ELSE phone.files.gps)
             \o (IF phone.files.sap = NULL THEN <<>> ELSE phone.files.sap)
Giving(p, lines) == {k \in DOMAIN lines : lines[k].name = p /\ lines[k].text # NULL}

(* A parameter's value in the files, if there is one, is that of its last   *)
(* line.  It has its flag if the last of the files that exist gives it.     *)
ValueOf(p) ==
    LET given == Giving(p, Lines)
    IN  IF given = {} THEN Default(p)
        ELSE Number(p, Lines[CHOOSE k \in given : \A l \in given : l <= k].text)
FlaggedBy == IF phone.files.sap # NULL THEN phone.files.sap
             ELSE IF phone.files.gps # NULL THEN phone.files.gps ELSE <<>>

ConfigurationMeant ==
    conf # NULL =>
        /\ \A p \in Params \ {"CAPABILITIES"} : conf.value[p] = ValueOf(p)
        /\ \E c \in {[conf EXCEPT !.value["CAPABILITIES"] = ValueOf("CAPABILITIES")]} :
              conf = IF \E t \in found : Standalone(t) THEN Unassisted(c) ELSE c
        /\ conf.valid = {p \in FloatParams : Giving(p, FlaggedBy) # {}}

(* All who look at the target agree on it, if it was known to the first: a  *)
(* chip that nothing assists gets no assistance of any kind, and any other  *)
(* the capabilities of gps.conf.                                            *)
AssistanceMatchesTarget ==
    found # {} /\ "unset" \notin found =>
        /\ found = {gTarget}
        /\ told # NULL => told = Capabilities
        /\ passed.op = "createLocApi" => passed.arg \in {Instance(gTarget), "RPC", "dummy"}
        /\ Standalone(gTarget) =>
              /\ told = NULL \/ (told \div 2) % 4 = 0
              /\ passed.op = "set_position_mode" => passed.arg = "STANDALONE"
              /\ passed.op = "agps_init" => passed.arg = None

(* The HAL is correct to its user.  It is configured as the files say and   *)
(* as the target allows.  Geofences are offered to those who are told of    *)
(* them.  A report reaches whoever uses the HAL, and nobody after a         *)
(* clean-up, except one that is being delivered when the user changes.  And *)
(* no session outlives the clean-up, except one whose start had not been    *)
(* processed by then.                                                       *)
HalInv ==
    /\ TypeOK
    /\ ConfigurationMeant
    /\ AssistanceMatchesTarget
    /\ passed = Hand("extension", "geofencing") /\ told # NULL => Geofencing(told)
    /\ passed.op = "report" => late \/ passed.arg = user
    /\ (user = NULL /\ msgq = <<>> /\ ~unstopped) => ~inSession
=============================================================================
