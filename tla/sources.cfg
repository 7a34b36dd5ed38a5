SPECIFICATION Spec
CONSTANTS
    None = None
    a = a  b = b  c = c
    Sources = {a, b, c}
    Parses = {a, b}
    Offset <- MCOffset
    CacheTTL <- MCTTL
    Period = 5
    Ahead = 1
    Retry = 2
    MaxBackoff = 1
    MaxWork = 1
    MaxFaults = 1
INVARIANTS TypeOK NeverForgotten PricesFresh
PROPERTIES RefreshedAgain
