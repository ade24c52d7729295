SPECIFICATION Spec
CONSTANTS
    Towns <- TwoMarkets
    Hosts = {h1}
    Mixes <- OneOrBoth
    MaxPerTick = 2
    MaxArrivals = 2
    Slots = 2
    MaxCrashes = 1
INVARIANTS OneOrderPerArrival RowsAreTrue NothingLeftBehind FreshVisitors
PROPERTIES EveryArrivalEnds
CHECK_DEADLOCK FALSE
