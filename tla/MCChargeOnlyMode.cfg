\* Two messages wait in the socket; a reboot may fail.  A pulse every two
\* steps of time, one change of the screen on its way.  Two cameras; colours
\* at both ends of what the files take.
SPECIFICATION HandsetSpec
CONSTANTS
    Sequence <- MCSequence
    RebootMayFail = TRUE
    MaxUevents = 2
    DELAY_BETWEEN_DOZES = 1
    MaxScreen = 1
    Cameras = {0, 1}
    Colors <- MCColors
    NULL = NULL
INVARIANTS AlarmsMatchScreen HandsetServed
PROPERTIES ShutsDown
CHECK_DEADLOCK FALSE
