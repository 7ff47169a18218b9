\* Everything may fail; single sessions too.
CONSTANTS
    Modes = {"MS_BASED"}
    Recurrences = {"PERIODIC", "SINGLE"}
    AidingBits = {"ephemeris"}
    IntermediateFix = TRUE
    StartOutcomes = {"ok", "refused", "failed"}
    StopOutcomes = {"ok", "failed"}
    RegisterOutcomes = {"ok", "failed"}
    OpenOutcomes = {"open", "invalid"}
    MaxCalls = 4
    MaxReports = 1
    MaxMutes = 0
    MaxCrashes = 1
SPECIFICATION Spec
INVARIANTS
    SessionInv
    EventsRegistered
CHECK_DEADLOCK FALSE
