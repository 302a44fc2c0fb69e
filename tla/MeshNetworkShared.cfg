SPECIFICATION Spec
CONSTANTS
    g1 = g1
    g2 = g2
    s = s
    grpcFrame = grpcFrame
    serialFrame = serialFrame
    Callers = {g1, g2}
    Buffers = {grpcFrame, serialFrame}
    BufferOf <- MCBufferOf
    Payloads = {p, q}
    Torn = Torn
    Updater = Updater
    None = None

PROPERTY EverySendsOwn
