SPECIFICATION FairSpec
CONSTANTS
    MaxTracked = 3
    MaxFailures = 2
    Rejectable = {2}
    MaxBatch = 2
    Capacity = 2
\* A client with nothing to send is idle for ever.
CHECK_DEADLOCK FALSE
INVARIANTS
    TypeOK OldestFirst OneRowPerEvent NothingVanishes
PROPERTIES
    DisabledIsSilent EveryEventSettles
