\* Plain files, called twice in one process.
SPECIFICATION Spec
CONSTANTS
    x = x
    y = y
    Bad = Bad
    Junk = Junk
    Garbage = Garbage
    Values = {x, y}
    Selections <- MCSelections
    Files <- MCPlainFiles
    MaxCalls = 2
    MaxPcrs = 3
\* The process ends after its last call.
CHECK_DEADLOCK FALSE
INVARIANT AnySetMatches
