SPECIFICATION Spec
CONSTANTS
    None = None
    Fires = {1, 5, 20}
    SampledGap = 4
    Setups <- MCInStep
    Specs <- MCSpecs
    Feeds <- MCDayFeeds
    Day = 4
    MCPolicies = {"Allow"}
    MCSuspend = {FALSE}
    MCWindows = {2}
    MCDeadlines = {None}
    SuccessLimit = 1
    FailedLimit = 1
    MaxMissed = 1
    MaxTime = 7
    MaxLag = 0
    MaxEdits = 0
    MaxFaults = 0
PROPERTY PricedOccurrenceServed
