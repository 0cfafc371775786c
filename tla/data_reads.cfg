SPECIFICATION FairSpec
CONSTANTS
    Calls <- MCCalls
    SafeReads <- MCSafeReads
    IdLast = 3
    KwpLast = 2
    MaxRecords = 2
    MaxScans = 2
    MaxDelays = 2
INVARIANTS
    InductiveInvariant
    RecordAttribution
    Tally
    ReadsStayInPlan
    NothingLost
PROPERTIES
    ScanEnds
