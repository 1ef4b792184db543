SPECIFICATION Spec
CONSTANTS
    Machines = {k1}
    ControlPlane = {}
    Infra = infra
    Cluster = cluster
    None = None
    Faults = {"error", "pause", "hold", "lateOwner", "restart"}
    MaxPauses = 1
INVARIANTS
    TypeOK
    NoLostWakeup
\* The system stops when the machine is bootstrapped and nobody changes anything.
CHECK_DEADLOCK FALSE
