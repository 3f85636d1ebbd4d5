SPECIFICATION Spec
CONSTANTS
    None = None
    MaxVersion = 3
    MaxJobs = 2
    MaxFaults = 3
    MaxLocal = 1
PROPERTIES
    SettledOnce
    SuccessIsLoaded
    JobSettles
    HandoffEnds
