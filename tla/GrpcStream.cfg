SPECIFICATION FairSpec
CONSTANTS
    Streams = {s1, s2}
    Capacity = 2
    MaxArrived = 3
    Torn = Torn
    None = None
INVARIANTS IInv ResponseIsPopped
PROPERTIES ImplementsFifo ResponsesInOrder CancelledTakesOneMore CancelEndsStream QueueDrains
