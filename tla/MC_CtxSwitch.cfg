CONSTANTS
    STACK_POINTER = 97
    EXL_VECTOR = 96
    MASK_9 = 1
    MappedIn <- MC_MappedIn
    InitMem <- MC_InitMem
    IntVector <- MC_IntVector
    IntMaskOf <- MC_IntMaskOf
    IntBit <- MC_IntBit
    Args = {300, 5}
    ShortArgs = {0}
    R0s = {0, 1}
    InitIc = 100
    InitSr <- MC_UserSr
SPECIFICATION Spec
INVARIANT TypeOK
PROPERTY SwitchAllOrNothing
