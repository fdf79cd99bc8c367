CONSTANTS
    p1 = p1
    p2 = p2
    p3 = p3
    Currencies = {"BTC", "ETH"}
    AnyCurrency = "any"
    Kinds = {"future", "spot"}
    Pos = {p1, p2, p3}
    Held <- MCHeld
    CurrencyOrder <- MCCurrencyOrder
    InitCurrency = "BTC"
    InitKind = "future"
    NoData = NoData
    MaxUserSteps = 4
SPECIFICATION Spec
INVARIANT
    RowsDistinct
