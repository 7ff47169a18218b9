\* Modem restarts at any time.
CONSTANTS
    Replies = {"ACCEPT", "IGNORE"}
    MaxRequests = 2
    MaxDowns = 1
SPECIFICATION Spec
INVARIANTS
    SessionHasThread
    EndsOnce
PROPERTIES
    StatusCleared
CHECK_DEADLOCK FALSE
