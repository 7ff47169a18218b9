\* Two senders and the loop itself send up to six messages.  Three list elements
\* are a head, a tail and one between.
CONSTANTS
    s1 = s1
    s2 = s2
    loop = loop
    Senders = {s1, s2}
    Loop = loop
    MaxMsgs = 6
    Elements = {e1, e2, e3}
    Data = {d1, d2}
    NULL = NULL
SPECIFICATION QueueSpec
INVARIANTS
    NoLostWakeup
    EachOnceInOrder
    LinksMirror
PROPERTIES
    SentIsProcessed
    ImplementsMailbox
    ImplementsItems
CHECK_DEADLOCK FALSE
