\* A response that races the end of its session.
CONSTANTS
    Replies = {"ACCEPT", "DENY"}
    MaxRequests = 2
    MaxDowns = 0
SPECIFICATION Spec
INVARIANTS
    AnswerMatches
CHECK_DEADLOCK FALSE
