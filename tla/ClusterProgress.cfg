SPECIFICATION FairSpec
CONSTANTS
    None = None
    LbId = {l1, l2}
    Backend = {b1}
    Faults = {"listError", "lateCreate", "lbError", "lbReset",
              "noIP", "lateBackend"}
INVARIANTS
    ReadyHasEndpoint
PROPERTIES
    Settles
    ClusterDeletes
\* The system stops when the object is gone and nothing is left to do.
CHECK_DEADLOCK FALSE
