SPECIFICATION Spec
CONSTANTS
    Object = {o1, o2, o3}
    Place <- MCPlaces
    Side = 8
    MaxLevel = 2
    Box <- MCBoxes
INVARIANT QueryIsExact
PROPERTY LostOnlyOnSplitLines
SYMMETRY Symmetry
CHECK_DEADLOCK FALSE
