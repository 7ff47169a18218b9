\* No failure but of event masks, a restart and a mute: periodic sessions in
\* two modes.
CONSTANTS
    Modes = {"STANDALONE", "MS_BASED"}
    Recurrences = {"PERIODIC"}
    AidingBits = {}
    IntermediateFix = FALSE
    StartOutcomes = {"ok"}
    StopOutcomes = {"ok"}
    RegisterOutcomes = {"ok", "failed"}
    OpenOutcomes = {"open"}
    MaxCalls = 4
    MaxReports = 1
    MaxMutes = 1
    MaxCrashes = 1
SPECIFICATION Spec
INVARIANTS
    SessionIsWanted
    MutedWhileOn
PROPERTIES
    RestartsAfterCrash
CHECK_DEADLOCK FALSE
