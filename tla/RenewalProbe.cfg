SPECIFICATION FairSpec
CONSTANTS
    None = None
    MaxTx = 1
    MaxErrors = 0
    MaxDeaths = 0
    UnknownProbeRefused = TRUE
PROPERTIES
    RenewalStarts
CHECK_DEADLOCK FALSE
