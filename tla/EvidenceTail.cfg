SPECIFICATION Spec
CONSTANTS
    Employees = {"angel"}
    Names = {t1, t2}
    NoName = NoName
    PageRows = 1
    MaxMatched = 3
    Limits = {0, 2}
    Shapes = {"a", "b"}
    FetchLines = 2
    MaxLines = 3
    MaxNow = 3
SYMMETRY NameSymmetry
INVARIANT DatasetsAreWhole
CHECK_DEADLOCK FALSE
