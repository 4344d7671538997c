SPECIFICATION AccountSpec
CONSTANTS
    laptop = laptop
    desktop = desktop
    left = left
    right = right
    only = only
    Devices = {laptop, desktop}
    Terminals = {left, right, only}
    On <- Desks
    MaxMade = 2
INVARIANT
    NoHalfInit
PROPERTY
    ServerKeyIsHeld
CHECK_DEADLOCK FALSE
SYMMETRY EitherTerminal
