SPECIFICATION Spec
CONSTANTS
    None = None
    LbId = {l1, l2, l3}
    Backend = {b1}
    Faults = {"staleCache", "crash", "patchError", "lostReply", "lbError",
              "lbReset", "noIP", "lateBackend", "pause"}
SYMMETRY Symmetry
INVARIANTS
    TypeOK
    OneLB
    ContractInv
PROPERTIES
    KeepsContract
    ReleasedBeforeGone
\* The system stops when the object is gone and nothing is left to do.
CHECK_DEADLOCK FALSE
