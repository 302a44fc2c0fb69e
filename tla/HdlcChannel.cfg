SPECIFICATION Spec
CONSTANTS
    Inputs <- MCInputs
    Noise <- MCNoise
    MaxNoise = 2
CHECK_DEADLOCK FALSE
INVARIANTS IInv RoundTrip Functional
