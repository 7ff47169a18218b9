\* The SUPL connection of a modem client (ATL) and a daemon (BIT), and the
\* single-subscriber WIFI connection of two daemons.
CONSTANTS
    c1 = c1
    c2 = c2
    Clients = {c1, c2}
    ModemClients = {c1}
    Type = "SUPL"
    MaxInFlight = 3
    MaxEngineUps = 1
SPECIFICATION NifSpec
INVARIANTS
    PendingIsAwaited
    AcquiredMeansConnected
    NifHolders
    HeldForSomebody
    TracksNifUnlessOverlapping
PROPERTIES
    EveryWaitEnds
    ImplementsConnection
