SPECIFICATION Spec
CONSTANTS
    Configurers = {c1, c2}
    Requests <- MCRequests
    Faults = {}
    None = None
    MaxFaults = 0
INVARIANTS OneOfTheRequests
