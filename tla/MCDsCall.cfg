\* Calm runs, and runs in which DSI answers anything and the modem restarts.  Two
\* calls opened over lists of at most two profiles, after three waits for WDS.
CONSTANTS
    h1 = h1
    h2 = h2
    Handles = {h1, h2}
    StartOutcomes = {"SUCCESS", "BUSY", "NO_PROFILE", "START_FAILED"}
    MaxInFlight = 2
    MaxEngineUps = 1
    ProfileLists <- MCProfileLists
    MaxWaits = 3
    MaxOpens = 2
SPECIFICATION CallSpec
INVARIANTS
    StateMatchesCall
    CallHasOwner
    CallOpened
PROPERTIES
    RequestAnswered
CHECK_DEADLOCK FALSE
