SPECIFICATION Spec
CONSTANTS
    None = None
    Machines = {c1, k1}
    ControlPlane = {c1}
    NodeId = {n1, n2}
    LbId = {l1}
    Faults = {"staleCache", "crash", "patchError", "lostReply", "lbError"}
SYMMETRY Symmetry
INVARIANTS
    NoDuplicateVM
    OneNodeInv
    ReadyIsEarned
    InstanceIsOwn
PROPERTIES
    RegisteredBeforeBootstrap
    DeletesOnlyItsOwn
\* The system stops when the objects are gone and nothing is left to do.
CHECK_DEADLOCK FALSE
