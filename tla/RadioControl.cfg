SPECIFICATION Spec
CONSTANTS
    Configurers = {c1, c2}
    Requests <- MCRequests
    Faults = {"common", "modem", "tune"}
    None = None
    MaxFaults = 1
SYMMETRY MCSymmetry
INVARIANTS IInv Applied CommonApplied
