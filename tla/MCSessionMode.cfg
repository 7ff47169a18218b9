\* A restart in an MS based session.
CONSTANTS
    Modes = {"MS_BASED"}
    Recurrences = {"PERIODIC"}
    AidingBits = {}
    IntermediateFix = FALSE
    StartOutcomes = {"ok"}
    StopOutcomes = {"ok"}
    RegisterOutcomes = {"ok"}
    OpenOutcomes = {"open"}
    MaxCalls = 4
    MaxReports = 0
    MaxMutes = 0
    MaxCrashes = 1
SPECIFICATION Spec
INVARIANTS
    ModeIsKept
CHECK_DEADLOCK FALSE
