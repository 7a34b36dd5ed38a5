\* Lists as in prices.cfg, of at most 3 points.
CONSTANTS
    Horizon = 4
    Prices = {0, 1, 3}
    MaxPoints = 3
SPECIFICATION Spec
INVARIANT BestOfTheWindow
CHECK_DEADLOCK FALSE
