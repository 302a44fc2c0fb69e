SPECIFICATION FairSpec
CONSTANTS
    Bodies <- MCBodies
    Crc32 <- MCCrc32
    MaxHdlc = 10
    MaxSends = 1
    MaxReceives = 0
PROPERTY RequestIsHandled
