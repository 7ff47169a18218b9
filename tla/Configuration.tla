---------------------------- MODULE Configuration ----------------------------
(* What the HAL reads before it does anything: gps.conf and sap.conf, one   *)
(* after the other through one table of parameters, and what kind of phone  *)
(* this is.  A file is a sequence of lines, or NULL if there is none.  Of a *)
(* line the name and the text behind "=" are kept, NULL if there is no "=". *)
(* A text is a number, written in hex or not, in thousandths.  Strings,     *)
(* lines longer than a buffer and the logger's two parameters are left out. *)
EXTENDS Integers, SequencesExt

CONSTANT NULL

(* loc_parameter_table: the parameters of type 'n', and those of type 'f',  *)
(* each of which has a flag that says that it was given.                    *)
IntParams ==
    {"INTERMEDIATE_POS", "ACCURACY_THRES", "NMEA_PROVIDER", "SUPL_VER", "CAPABILITIES",
     "SENSOR_ACCEL_BATCHES_PER_SEC", "SENSOR_ACCEL_SAMPLES_PER_BATCH",
     "SENSOR_GYRO_BATCHES_PER_SEC", "SENSOR_GYRO_SAMPLES_PER_BATCH",
     "SENSOR_ACCEL_BATCHES_PER_SEC_HIGH", "SENSOR_ACCEL_SAMPLES_PER_BATCH_HIGH",
     "SENSOR_GYRO_BATCHES_PER_SEC_HIGH", "SENSOR_GYRO_SAMPLES_PER_BATCH_HIGH",
     "SENSOR_CONTROL_MODE", "SENSOR_USAGE", "SENSOR_ALGORITHM_CONFIG_MASK",
     "QUIPC_ENABLED", "LPP_PROFILE", "A_GLONASS_POS_PROTOCOL_SELECT"}
FloatParams ==
    {"GYRO_BIAS_RANDOM_WALK", "ACCEL_RANDOM_WALK_SPECTRAL_DENSITY",
     "ANGLE_RANDOM_WALK_SPECTRAL_DENSITY", "RATE_RANDOM_WALK_SPECTRAL_DENSITY",
     "VELOCITY_RANDOM_WALK_SPECTRAL_DENSITY"}
Params == IntParams \cup FloatParams

(* loc_default_parameters.  QUIPC_ENABLED is not among them: it is static.  *)
Default(p) ==
    CASE p = "SUPL_VER" -> 65536
      [] p = "CAPABILITIES" -> 7
      [] p \in {"SENSOR_ACCEL_BATCHES_PER_SEC", "SENSOR_GYRO_BATCHES_PER_SEC"} -> 2
      [] p \in {"SENSOR_ACCEL_SAMPLES_PER_BATCH", "SENSOR_GYRO_SAMPLES_PER_BATCH"} -> 5
      [] p \in {"SENSOR_ACCEL_BATCHES_PER_SEC_HIGH",
                "SENSOR_GYRO_BATCHES_PER_SEC_HIGH"} -> 4
      [] p \in {"SENSOR_ACCEL_SAMPLES_PER_BATCH_HIGH",
                "SENSOR_GYRO_SAMPLES_PER_BATCH_HIGH"} -> 25
      [] OTHER -> 0

Defaults == [value |-> [p \in Params |-> Default(p)], valid |-> {}]

(* A text as the type of its parameter wants it: a hex text gives no double. *)
Number(p, text) ==
    IF p \in IntParams THEN text.thousandths \div 1000
    ELSE IF text.hex THEN 0 ELSE text.thousandths

(* loc_set_config_entry, for the entry that has the name of the line.       *)
loc_set_config_entry(conf, line) ==
    IF line.text = NULL \/ line.name \notin Params THEN conf
    ELSE [value |-> [conf.value EXCEPT ![line.name] = Number(line.name, line.text)],
          valid |-> conf.valid \cup ({line.name} \cap FloatParams)]

(* A mutant: the flags of the file before stay.                             *)
loc_read_confKeeps(conf, file) ==
    IF file = NULL THEN conf ELSE FoldLeft(loc_set_config_entry, conf, file)

(* loc_read_conf: unless the file is missing all flags are cleared first.   *)
loc_read_conf(conf, file) ==
    IF file = NULL THEN conf
    ELSE FoldLeft(loc_set_config_entry, [conf EXCEPT !.valid = {}], file)

(* loc_eng_read_config, the first time.                                     *)
Configured(files) == loc_read_conf(loc_read_conf(Defaults, files.gps), files.sap)

-----------------------------------------------------------------------------
(* is_qca1530: while the property says "detect" it is read again, every     *)
(* second, thirty times at most; whoever detects the chip may be faster.    *)
is_qca1530(platform) ==
    CASE platform.qca1530 = "yes" -> {TRUE}
      [] platform.qca1530 = "detect" -> BOOLEAN
      [] OTHER -> {FALSE}

(* loc_get_target, without that chip.  A board of Qualcomm's that has no    *)
(* external modem leaves gTarget as it is: unset.                           *)
Board(platform) ==
    CASE platform.baseband = "apq" /\ platform.soc = "MPQ8064" -> "TARGET_MPQ"
      [] platform.baseband = "apq" /\ platform.soc # "MPQ8064" -> "TARGET_APQ_SA"
      [] platform.baseband # "apq" /\ platform.board \in {"Liquid", "Surf", "MTP"} ->
            IF platform.mdm THEN "TARGET_MDM" ELSE "unset"
      [] OTHER -> IF platform.soc = "MSM8930" THEN "TARGET_MSM_NO_SSC" ELSE "TARGET_UNKNOWN"

(* What loc_get_target may find.                                            *)
Detected(platform) ==
    {IF chip THEN "TARGET_QCA1530" ELSE Board(platform) : chip \in is_qca1530(platform)}

(* getTargetGnssType.                                                       *)
GnssType(target) ==
    CASE target = "TARGET_MPQ" -> "GNSS_NONE"
      [] target = "TARGET_APQ_SA" -> "GNSS_GSS"
      [] target = "TARGET_QCA1530" -> "GNSS_QCA1530"
      [] target = "TARGET_MDM" -> "GNSS_MDM"
      [] target = "TARGET_MSM_NO_SSC" -> "GNSS_MSM"
      [] OTHER -> "GNSS_UNKNOWN"

(* The chips without a modem that could assist.                             *)
Standalone(target) == GnssType(target) \in {"GNSS_GSS", "GNSS_QCA1530"}

(* locClientOpen: which instance of the modem's service it connects to.     *)
Instance(target) ==
    CASE GnssType(target) = "GNSS_GSS" -> "GSS"
      [] GnssType(target) = "GNSS_QCA1530" -> "QCA1530"
      [] GnssType(target) = "GNSS_MSM" -> "MSM"
      [] GnssType(target) = "GNSS_MDM" -> "MDM"
      [] OTHER -> "ANY"
=============================================================================
