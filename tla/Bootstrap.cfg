SPECIFICATION FairSpec
CONSTANTS
    None = None
    Payloads <- AllPayloads
    Runs = {r1, r2}
    Faults = {"survive", "reboot", "resetFails", "lostReply"}
INVARIANTS
    TypeOK
    ReportedServes
    FilesInPlace
PROPERTIES
    SentinelProtects
    Completes
\* The system stops when the machine is reported as bootstrapped.
CHECK_DEADLOCK FALSE
