SPECIFICATION FairSpec
CONSTANTS
    Scans <- SoundScan
    MayDrop = FALSE
PROPERTIES
    EveryScanEnds
CHECK_DEADLOCK FALSE
