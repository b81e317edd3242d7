\* Every small file, called twice in one process.
SPECIFICATION Spec
CONSTANTS
    x = x
    y = y
    Bad = Bad
    Junk = Junk
    Garbage = Garbage
    Values = {x, y}
    Selections <- MCSelections
    Files <- MCFiles
    MaxCalls = 2
    MaxPcrs = 3
\* The process ends after its last call.
CHECK_DEADLOCK FALSE
INVARIANTS TypeOK RimSound RimAgrees CallIsFunction
