CONSTANTS
    BTC = BTC
    ETH = ETH
    future = future
    spot = spot
    i1 = i1
    i2 = i2
    i3 = i3
    Currencies = {BTC, ETH}
    Kinds = {future, spot}
    Instr = {i1, i2, i3}
    Listing <- MCListing
    InitCurrency = BTC
    InitKind = future
    NoInstrument = NoInstrument
    NoListener = NoListener
    NoBook = NoBook
    MaxUserSteps = 3
    MaxPushes = 2
SPECIFICATION FairSpec
INVARIANTS
    TypeOK
    InstrumentsMatchSelection
    SubscribedRequested
    IInv
    ListingInv
PROPERTY
    BookFollowsSelection
