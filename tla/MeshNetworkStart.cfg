SPECIFICATION Spec
CONSTANTS
    g1 = g1
    g2 = g2
    s = s
    grpcFrame = grpcFrame
    serialFrame = serialFrame
    Callers = {g1}
    Buffers = {grpcFrame, serialFrame}
    BufferOf <- MCBufferOf
    Payloads = {p}
    Torn = Torn
    Updater = Updater
    None = None
INVARIANT StartedHasThread

