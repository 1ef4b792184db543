SPECIFICATION Spec
CONSTANTS
    None = None
    Machines = {c1}
    ControlPlane = {c1}
    NodeId = {n1}
    LbId = {l1}
    Faults = {"staleCache", "crash", "patchError", "listError", "lostReply", "lateCreate", "lbError", "workloadError", "nodeLoss", "noPrivateIP", "lbReset", "ownerGone", "clusterGone"}
INVARIANTS
    TypeOK
    CreateUnderFinalizer
    FinalizerInv
\* The system stops when the objects are gone and nothing is left to do.
CHECK_DEADLOCK FALSE
