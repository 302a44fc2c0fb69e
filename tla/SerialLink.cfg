SPECIFICATION FairSpec
CONSTANTS
    Bodies <- MCBodies
    Crc32 <- MCCrc32
    MaxHdlc = 10
    MaxSends = 2
    MaxReceives = 1
INVARIANT IInv
PROPERTIES RestartIsSafe StopTxReturns
