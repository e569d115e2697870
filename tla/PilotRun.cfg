\* A pilot, one more on the same directory, one change by somebody else.
SPECIFICATION Spec
CONSTANTS
    Counts <- MCCounts
    Rankings <- MCRankings
    Period = 3
    MaxTop1Drop = 50
    MaxTop5Drop = 0
    MinAgreement = 50
    MaxImages = 4
    Passes = 2
    Attempts = 2
    MaxChanges = 1
    None = None
INVARIANTS
    TypeOK
    CalibratedOnSelection
    LabelsOfRecorded
    LabelsRight
    VerdictDeserved
    SamplesDistinct
    PrefixOnDisk
PROPERTIES
    Implements
CHECK_DEADLOCK FALSE
