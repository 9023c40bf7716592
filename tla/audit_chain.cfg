\* Two processes append; rows are damaged, the power is lost, a verifier runs.
SPECIFICATION Spec
CONSTANTS
    p1 = p1
    p2 = p2
    b1 = b1
    b2 = b2
    Processes <- MCProcesses
    Bodies <- MCBodies
    MaxEvents = 4
    MaxPowerLosses = 1
    Damages = TRUE
INVARIANTS AuditTypeOK ChainIntact DamageShows AlarmMeansDamage
PROPERTY AppendOnly
CHECK_DEADLOCK FALSE
