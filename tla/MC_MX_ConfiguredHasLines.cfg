CONSTANTS
    LineCnt = 4
    DIR_NONE <- MC_DIR_NONE
    DIR_INPUT <- MC_DIR_INPUT
    DIR_OUTPUT <- MC_DIR_OUTPUT
    DIR_HALF_DUPLEX <- MC_DIR_HALF_DUPLEX
    DIR_FULL_DUPLEX <- MC_DIR_FULL_DUPLEX
    PHY_USART_ASYNC <- MC_PHY_USART_ASYNC
    PHY_8255 <- MC_PHY_8255
    PHY_USART_SYNC <- MC_PHY_USART_SYNC
    PHY_MTAPE <- MC_PHY_MTAPE
    PHY_CNT <- MC_PHY_CNT
    Protos <- MC_Protos
    Configs <- MC_Configs
    LogLines <- MC_LogLines
    CpuCmds <- MC_CpuCmds
    EvCap = 8
    IntCap = 8
    MaxCalls = 3
    NONE = NONE
SPECIFICATION Spec
INVARIANT ConfiguredHasLines
CHECK_DEADLOCK FALSE
