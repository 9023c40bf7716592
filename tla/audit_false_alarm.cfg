\* Verification beside an appending process.
SPECIFICATION Spec
CONSTANTS
    p1 = p1
    p2 = p2
    b1 = b1
    b2 = b2
    Processes <- MCProcesses
    Bodies <- MCBodies
    MaxEvents = 3
    MaxPowerLosses = 0
    Damages = FALSE
INVARIANT NoFalseAlarm
CHECK_DEADLOCK FALSE
