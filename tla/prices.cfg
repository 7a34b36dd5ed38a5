\* Every list of at most 4 points at times 0..5 with three prices.
CONSTANTS
    Horizon = 5
    Prices = {0, 1, 3}
    MaxPoints = 4
SPECIFICATION Spec
INVARIANTS SelectionIsBest OrderRestored JoinedInOrder CurrentPriceInForce
CHECK_DEADLOCK FALSE
