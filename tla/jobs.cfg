SPECIFICATION Spec
CONSTANTS
    None = None
    Fires = {1, 3, 20}
    SampledGap = 3
    Setups <- MCInStep
    Specs <- MCSpecs
    Feeds <- MCFeeds
    Day = 9
    MCPolicies = {"Allow"}
    MCSuspend = {FALSE, TRUE}
    MCWindows = {0, 3}
    MCDeadlines = {None, 1}
    SuccessLimit = 0
    FailedLimit = 1
    MaxMissed = 1
    MaxTime = 6
    MaxLag = 0
    MaxEdits = 1
    MaxFaults = 0
INVARIANTS TypeOK OncePerOccurrence
PROPERTIES HistoryKept 
