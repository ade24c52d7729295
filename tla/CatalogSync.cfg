SPECIFICATION Spec
CONSTANTS
    Products <- StairsThenBarrel
    Combos <- OakAndBirch
    MaxEdits = 2
    MaxFaults = 1
INVARIANTS OneRowPerProduct
PROPERTIES Converges QuietWhenConverged
CHECK_DEADLOCK FALSE
