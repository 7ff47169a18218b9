\* Three callers, two slots: calm runs, and runs in which anything may be
\* late, lost, shared or woken for nothing.  Files on both sides of a full part,
\* of the last part number and of the width of the byte counter.  One NI request
\* at a time; constellations of three and of two satellites.
CONSTANTS
    t1 = t1
    t2 = t2
    t3 = t3
    i1 = i1
    i2 = i2
    Callers = {t1, t2, t3}
    Inds = {i1, i2}
    BUFFER_SIZE = 2
    MaxRequests = 3
    PART_LEN = 2
    PartBits = 3
    LenBits = 3
    Lengths = {0, 1, 2, 3, 6, 7, 8, 9, 13, 14, 15}
    MaxFiles = 2
    MaxSends = 9
    SV_ID_RANGE = 3
    BDS_SV_ID_RANGE = 2
    Masks <- MCMasks
    MaxNi = 1
SPECIFICATION RequestsSpec
INVARIANTS
    SlotsOwned
    AnswerIsOwn
    SentAsMeant
PROPERTIES
    NoLateWrite
    CallReturns
CHECK_DEADLOCK FALSE
