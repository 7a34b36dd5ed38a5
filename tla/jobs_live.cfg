SPECIFICATION Spec
CONSTANTS
    None = None
    Fires = {1, 4, 20}
    SampledGap = 3
    Setups <- MCSetups
    Specs <- MCSpecs
    Feeds <- MCWholeFeed
    Day = 9
    MCPolicies = {"Forbid", "Replace"}
    MCSuspend = {FALSE}
    MCWindows = {3}
    MCDeadlines = {None}
    SuccessLimit = 1
    FailedLimit = 1
    MaxMissed = 1
    MaxTime = 7
    MaxLag = 1
    MaxEdits = 0
    MaxFaults = 1
PROPERTIES KeepsUp NoOverlap AnnouncedStartMade
