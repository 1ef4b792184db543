SPECIFICATION Spec
CONSTANTS
    None = None
    Machines = {c1, c2}
    ControlPlane = {c1, c2}
    NodeId = {n1, n2}
    LbId = {l1}
    Faults = {"nodeLoss", "pause"}
SYMMETRY Symmetry
INVARIANTS
    BootstrappedIsRegistered
    NoOrphanVM
    NoStaleBackend
    FailureIsReal
PROPERTIES
    DeregistersOnlyItsOwn
\* The system stops when the objects are gone and nothing is left to do.
CHECK_DEADLOCK FALSE
