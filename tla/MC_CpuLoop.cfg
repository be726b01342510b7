CONSTANTS
    SpeedReal = FALSE
    NomemStop = FALSE
    Instrs <- MC_Instrs
    OpRequests <- MC_OpRequests
    NONE = NONE
SPECIFICATION Spec
\* cpu_loop returns on OFF: the CPU thread then has ended.
CHECK_DEADLOCK FALSE
INVARIANT TypeOK OperatorStopKept
PROPERTY WaitWakes OffHonoured
