SPECIFICATION Spec
CONSTANTS
    None = None
    Machines = {c1}
    ControlPlane = {c1}
    NodeId = {n1, n2}
    LbId = {l1}
    Faults = {"listError", "patchError"}
SYMMETRY Symmetry
INVARIANTS
    NoDuplicateVM
\* The system stops when the objects are gone and nothing is left to do.
CHECK_DEADLOCK FALSE
