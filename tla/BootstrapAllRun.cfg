SPECIFICATION Spec
CONSTANTS
    None = None
    Payloads <- PlainPayloads
    Runs = {r1}
    Faults = {}
INVARIANTS
    AllCommandsRun
\* The system stops when the machine is reported as bootstrapped.
CHECK_DEADLOCK FALSE
