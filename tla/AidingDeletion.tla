-------------------------- MODULE AidingDeletion --------------------------
(* The aiding data the framework wants deleted, from the bits of            *)
(* GpsAidingData to the lists and masks of one QMI request: deleteAidingData *)
(* of LocApiV02, in a build without PDK_FEATURE_SET.                        *)
EXTENDS Integers, Sequences, FiniteSets

CONSTANTS
    SV_ID_RANGE, BDS_SV_ID_RANGE,   \* satellites of a constellation
    Masks                           \* the sets of bits that are asked for

VARIABLES
    asked,      \* the bits of the last deletion, alone in a sequence
    delete_req  \* the request it made, alone in a sequence

vars == <<asked, delete_req>>

Bits ==
    {"EPHEMERIS", "ALMANAC", "POSITION", "TIME", "IONO", "UTC", "HEALTH",
     "SVDIR", "SVSTEER", "SADATA", "RTI", "CELLDB_INFO", "TIME_GPS",
     "ALMANAC_CORR", "FREQ_BIAS_EST",
     "GLO_EPHEMERIS", "GLO_ALMANAC", "GLO_SVDIR", "GLO_SVSTEER",
     "GLO_ALMANAC_CORR", "GLO_TIME",
     "BDS_EPHEMERIS", "BDS_ALMANAC", "BDS_SVDIR", "BDS_SVSTEER",
     "BDS_ALMANAC_CORR", "BDS_TIME"}

(* The bits that are deleted satellite by satellite, ...                    *)
EphemerisOf == [GPS |-> "EPHEMERIS", GLONASS |-> "GLO_EPHEMERIS", BDS |-> "BDS_EPHEMERIS"]
AlmanacOf   == [GPS |-> "ALMANAC", GLONASS |-> "GLO_ALMANAC", BDS |-> "BDS_ALMANAC"]
Constellations == DOMAIN EphemerisOf

SvBits == {EphemerisOf[c] : c \in Constellations} \cup {AlmanacOf[c] : c \in Constellations}

(* ... and those that are bits of deleteGnssDataMask, with the names they   *)
(* have there.  GPS_DELETE_SVSTEER has none.                                *)
GnssDataName == [b \in {"SVDIR", "TIME_GPS", "ALMANAC_CORR"} |->
    CASE b = "SVDIR" -> "GPS_SVDIR" [] b = "TIME_GPS" -> "GPS_TIME"
      [] b = "ALMANAC_CORR" -> "GPS_ALM_CORR"]
GnssDataBits ==
    Bits \ (SvBits \cup {"SVSTEER", "CELLDB_INFO"})
GnssData(f) ==
    {IF b \in DOMAIN GnssDataName THEN GnssDataName[b] ELSE b : b \in f \cap GnssDataBits}

PerSv(f, c) == {EphemerisOf[c], AlmanacOf[c]} \cap f # {}

(* The entries of one constellation, each with the same mask.               *)
SvInfo(f, c, range) ==
    [i \in 1..range |-> [gnssSvId |-> i, system |-> c,
        mask |-> {x \in {"EPHEMERIS", "ALMANAC"} :
                    (IF x = "EPHEMERIS" THEN EphemerisOf[c] ELSE AlmanacOf[c]) \in f}]]

SvInfoList(f, c) == IF PerSv(f, c) THEN SvInfo(f, c, SV_ID_RANGE) ELSE <<>>

DeleteSvInfoListOver(f) ==
    IF PerSv(f, "GLONASS") THEN SvInfoList(f, "GLONASS") ELSE SvInfoList(f, "GPS")

(* deleteSvInfoList is filled from curr_sv_idx to curr_sv_len: GLONASS goes *)
(* on where GPS has ended.                                                  *)
DeleteSvInfoList(f) == SvInfoList(f, "GPS") \o SvInfoList(f, "GLONASS")

DeleteRequest(f) ==
    IF f = Bits
    THEN [all |-> TRUE, svs |-> <<>>, bds |-> <<>>, gnss |-> {}, cellDb |-> FALSE]
    ELSE [all |-> FALSE, svs |-> DeleteSvInfoList(f),
          bds |-> IF PerSv(f, "BDS") THEN SvInfo(f, "BDS", BDS_SV_ID_RANGE) ELSE <<>>,
          gnss |-> GnssData(f), cellDb |-> "CELLDB_INFO" \in f]

-----------------------------------------------------------------------------
Init == asked = <<>> /\ delete_req = <<>>

DeleteAidingData(f) ==
    /\ asked' = <<f>>
    /\ delete_req' = <<DeleteRequest(f)>>

Next == \E f \in Masks : DeleteAidingData(f)

Spec == Init /\ [][Next]_vars

-----------------------------------------------------------------------------
(* Properties.                                                              *)

(* What the modem makes of a list: the data of which satellites are deleted. *)
Deleted(list, c) ==
    UNION {{<<list[k].gnssSvId, item>> : item \in list[k].mask} :
              k \in {j \in DOMAIN list : list[j].system = c}}

Wanted(f, c, range) ==
    (1..range) \X {item \in {"EPHEMERIS", "ALMANAC"} :
                      \/ item = "EPHEMERIS" /\ EphemerisOf[c] \in f
                      \/ item = "ALMANAC" /\ AlmanacOf[c] \in f}

(* The modem deletes the data of exactly the satellites and kinds the       *)
(* framework named, but for SVSTEER, and no satellite is named twice, for   *)
(* every combination of the constellations that share a list.               *)
DeletesAsAsked ==
    \A k \in DOMAIN asked :
        LET f == asked[k] req == delete_req[k]
        IN  \/ req.all /\ f = Bits
            \/ /\ ~req.all
               /\ \A c \in {"GPS", "GLONASS"} :
                     Deleted(req.svs, c) = Wanted(f, c, SV_ID_RANGE)
               /\ \A i, j \in DOMAIN req.svs :
                     (/\ req.svs[i].gnssSvId = req.svs[j].gnssSvId
                      /\ req.svs[i].system = req.svs[j].system) => i = j
               /\ Deleted(req.bds, "BDS") = Wanted(f, "BDS", BDS_SV_ID_RANGE)
               /\ Cardinality(req.gnss) = Cardinality(f \cap GnssDataBits)
               /\ req.cellDb <=> "CELLDB_INFO" \in f
=============================================================================
