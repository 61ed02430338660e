SPECIFICATION Spec
CONSTANTS
    NumFiles = 2
    MaxBytes <- FileBytes
    ReadBytes = 2
    ScanRecords = 2
    MaxScanFaults = 1
    MaxEvents = 3
    MaxStarts = 2
    QueueSize = 1
    MaxFaults = 1
INVARIANTS TailInvariant ClientInvariant
PROPERTIES EveryLineHandled EventArrives
CHECK_DEADLOCK FALSE
