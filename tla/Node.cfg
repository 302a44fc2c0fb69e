SPECIFICATION FairSpec
CONSTANTS
    Callers = {g1, g2}
    Payloads = {p}
    TxFrame = TxFrame
    Updater = Updater
    Streams = {s1}
    Capacity = 1
    MaxArrived = 2
    Torn = Torn
    None = None
CHECK_DEADLOCK FALSE
INVARIANTS IInv RunsOnProbedRadio HoldersGoOn
PROPERTIES HandedUpIsQueued ImplementsMesh ImplementsGrpc DeliveryEnds SomeTransmitProceeds
