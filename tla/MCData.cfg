\* Satellites: four of a report count, two in a GSV sentence, three in a GSA
\* sentence, three reports.  Two calls of LocApiV02, or an installation in three
\* slots and another call; one event or answer at a time.
SPECIFICATION DataSpec
CONSTANTS
    Lists <- MCLists
    MAX_SVS = 4
    PAGE_SVS = 2
    GSA_SVS = 3
    IntermediateFix = TRUE
    MaxReports = 3
    NULL = NULL
INVARIANTS SentencesTrue MeaningKept
CHECK_DEADLOCK FALSE
