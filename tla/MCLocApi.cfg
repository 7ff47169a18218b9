\* Adapters join and leave while the modem reports and restarts; the engine is
\* set up while the modem restarts; a client is opened, lost and replaced; two
\* daemons and the GPSONE daemon ask for connections.
CONSTANTS
    a1 = a1
    a2 = a2
    a3 = a3
    s1 = s1
    s2 = s2
    NULL = NULL
    Adapters = {a1, a2, a3}
    Events = {"position", "ni", "nmea"}
    EvtMask <- Masks
    Handling = {a1, a3}
    Excluded = {"nmea"}
    MAX_ADAPTERS = 2
    MaxWalks = 2
    Servers = {s1, s2}
    SensorPropertiesValid = TRUE
    MaxCalls = 4
    MaxRestarts = 2
    ClientEvents = {"engine", "position"}
    ClientRespInds = {"set", "get"}
    ClientUnknown = {"get"}
    ClientMasks = {{"engine"}, {"engine", "position"}}
    MAX_RETRIES = 1
    MaxAttempts = 2
    MaxLives = 2
    WifiDaemons = {"quipc", "msapm"}
    PipeSize = 1
    MaxRecords = 5
    MaxEngineUps = 1
SPECIFICATION BringUpSpec
SYMMETRY Symmetry
INVARIANTS
    AdaptersServed
    DeliveredWhenCalm
    SettingsReachModem
    ClientInv
    DaemonsServed
CHECK_DEADLOCK FALSE
