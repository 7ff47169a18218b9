------------------------------- MODULE MCData -------------------------------
(* Four components that hand data from one layer to another, side by side:  *)
(* a behaviour is one of NmeaSentences, ModemRequests, ModemReports or Hal, *)
(* as `subject` says.                                                       *)
EXTENDS NmeaSentences

CONSTANT NULL

VARIABLES
    subject,
    modem, kept, last, starting, install, made,
    mask, registered, arrived, told,
    phone, gTarget, conf, handed, adapter, capabilities, gps_loc_cb, status_cb, msgq,
    inSession, delivering, passed, targets, user, late, unstopped, calls

api == <<modem, kept, last, starting, install, made>>
events == <<mask, registered, arrived, told>>
hal == <<phone, gTarget, conf, handed, adapter, capabilities, gps_loc_cb, status_cb, msgq,
         inSession, delivering, passed, targets, user, late, unstopped, calls>>
allVars == <<subject, vars, api, events, hal>>

(* Position modes on both sides of the bounds of accuracy, and certificates *)
(* for fewer and for more slots than there are, with an empty one first.    *)
Req == INSTANCE ModemRequests WITH
           asked <- kept, MAX_SLOTS <- 3, MaxCalls <- 2,
           PosModes <- {[mode |-> "MS_BASED", accuracy |-> 100, recurrence |-> "SINGLE",
                         credentials |-> FALSE],
                        [mode |-> "STANDALONE", accuracy |-> 1001, recurrence |-> "PERIODIC",
                         credentials |-> TRUE]},
           Installs <- [writable : {0..2, {1, 2}, {1}},
                        certs : {<<>>, <<"c1">>, <<"c1", "c2">>, <<"empty", "c2">>}]

(* The HAL's mask (loc.cpp:253) and parts of it; every field valid, all but *)
(* one, and a few.                                                          *)
HalMask == {0, 1, 2, 4, 5, 6, 7, 8}
ReadFields ==
    {"latitude", "longitude", "timestampUtc", "altitudeWrtEllipsoid", "speedHorizontal",
     "heading", "horUncCircular", "magneticDeviation", "DOP", "altitudeWrtMeanSeaLevel",
     "vertUnc", "speedUnc", "technologyMask", "horSpeed", "serverList", "lockType", "svList",
     "NiVxInd", "NiUmtsCpInd", "NiSuplInd", "timeServerInfo"}
Rep == INSTANCE ModemReports WITH
           sent <- arrived, Urls <- {"u1", "u2"}, Masks <- {{}, HalMask, {0, 8}, {4, 5, 6}},
           FieldSets <- {{}, {"latitude", "longitude"}, ReadFields,
                         ReadFields \ {"NiVxInd", "NiUmtsCpInd"}}
                        \cup {ReadFields \ {f} : f \in ReadFields}

(* Lines of files: numbers in hex, decimal and with a fraction.             *)
Hex(name, n)  == [name |-> name, text |-> [hex |-> TRUE, thousandths |-> 1000 * n]]
Dec(name, n)  == [name |-> name, text |-> [hex |-> FALSE, thousandths |-> 1000 * n]]
Frac(name, n) == [name |-> name, text |-> [hex |-> FALSE, thousandths |-> n]]

(* gps.conf of the repository in brief, one that gives parameters twice, a  *)
(* line without a value and random walks, and a sap.conf that gives others. *)
GpsConf == <<Dec("ERR_ESTIMATE", 0), Hex("SUPL_VER", 65536), Hex("CAPABILITIES", 55)>>
GpsTwice == <<Dec("CAPABILITIES", 1), [name |-> "LPP_PROFILE", text |-> NULL],
              Hex("CAPABILITIES", 39), Frac("GYRO_BIAS_RANDOM_WALK", 500),
              Frac("SENSOR_USAGE", 1500)>>
SapConf == <<Dec("SENSOR_USAGE", 0), Hex("RATE_RANDOM_WALK_SPECTRAL_DENSITY", 2),
             Dec("SUPL_VER", 7)>>

(* One phone whose framework initialises the HAL twice, and others that     *)
(* differ from it in their board, files, libraries or properties.           *)
Msm == [qca1530 |-> "absent", baseband |-> "msm", soc |-> "other", board |-> "other",
        mdm |-> FALSE]
Moto == [platform |-> Msm, files |-> [gps |-> GpsConf, sap |-> SapConf], props |-> {},
         libs |-> {"lbs", "lbs_api", "lbs_cpi", "geofence"}, calls |-> 4]
Brief == [Moto EXCEPT !.calls = 2]
Phones ==
    {Moto, [Brief EXCEPT !.platform.baseband = "apq", !.files.gps = GpsTwice]}
    \cup {[Brief EXCEPT !.platform = p] : p \in
             {[Msm EXCEPT !.soc = "MSM8930"], [Msm EXCEPT !.qca1530 = "detect"],
              [Msm EXCEPT !.baseband = "apq"], [Msm EXCEPT !.baseband = "csfb"],
              [Msm EXCEPT !.board = "MTP", !.qca1530 = "detect"],
              [Msm EXCEPT !.baseband = "apq", !.soc = "MPQ8064"]}}
    \cup {[Brief EXCEPT !.files = [gps |-> g, sap |-> s]] :
             g \in {GpsTwice, NULL}, s \in {SapConf, NULL}}
    \cup {[Brief EXCEPT !.libs = l] : l \in {{}, {"rpc", "geofence"}}}
    \cup {[Brief EXCEPT !.props = {p}] : p \in {"gps.disable", "nlp_in_use"}}
Handset == INSTANCE Hal WITH
               Clients <- {"c1", "c2"}, told <- capabilities, found <- targets

(* A satellite, by its constellation, whether it is in use, or what is      *)
(* wrong with it, and its place in the report.                              *)
Sv(kind, i) ==
    [system |-> IF kind \in {"used", "noid"} THEN "gps" ELSE kind,
     svid   |-> CASE kind = "sbas" -> 119 + i [] kind = "bds" -> 200 + i [] OTHER -> i,
     valid  |-> kind # "noid", track |-> kind = "used"]

(* None or one, every four of two constellations with a fifth, which is not *)
(* looked at, and a stranger among five of one.                             *)
Kinds ==
    {<<>>} \cup {<<k>> : k \in {"gps", "used", "glonass", "sbas", "bds", "other", "noid"}}
    \cup {Append(four, "used") : four \in [1..4 -> {"used", "glonass"}]}
    \cup {[[j \in 1..5 |-> k] EXCEPT ![i] = l] : i \in {2, 4}, k \in {"used", "glonass"},
                                  l \in {"gps", "sbas", "bds", "other", "noid"}}
MCLists == {[i \in DOMAIN s |-> Sv(s[i], i)] : s \in Kinds}

DataInit ==
    /\ subject \in {"nmea", "requests", "reports", "hal"}
    /\ mask = HalMask
    /\ subject = "hal" \/ phone = Moto
    /\ Init /\ Req!Init /\ Rep!Init /\ Handset!Init

DataNext ==
    /\ UNCHANGED subject
    /\ \/ subject = "nmea" /\ Next /\ UNCHANGED <<api, events, hal>>
       \/ subject = "requests" /\ Req!Next /\ UNCHANGED <<vars, events, hal>>
       \/ subject = "reports" /\ Rep!Next /\ UNCHANGED <<vars, api, hal>>
       \/ subject = "hal" /\ Handset!Next /\ UNCHANGED <<vars, api, events>>

DataSpec == DataInit /\ [][DataNext]_allVars

(* The properties of the others: see there.                                 *)
SentencesTrue == subject = "nmea" => EachSatelliteListed /\ FixTold
MeaningKept == CASE subject = "requests" -> Req!ModemAsAsked
                 [] subject = "reports" -> Rep!ReportedAsSent
                 [] subject = "hal" -> Handset!HalInv
                 [] OTHER -> TRUE
=============================================================================
