CONSTANTS
    MAX_ROWS = 3
    Prices = {1, 2}
    Amounts = {0, 1}
    MaxDepth = 4
SPECIFICATION Spec
INVARIANTS
    ViewMatchesSpec
