SPECIFICATION Spec
CONSTANTS
    Tracked <- BarrelAndChest
    LowWaterMark = 1
    RefillTo = 2
    MaxPerPass = 2
    Page = 1
    Refused = {1}
    MaxOrders = 3
    MaxFaults = 2
INVARIANTS AcceptedOnce
PROPERTIES EveryOrderSettles ShelvesRefilled
CHECK_DEADLOCK FALSE
