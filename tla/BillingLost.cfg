\* One event, one delivery at a time, and one fault.
CONSTANTS
    MaxEvent = 1
    MaxSub = 1
    MaxRequests = 1
    MaxFaults = 1
SPECIFICATION Spec
INVARIANTS RetryRecovers
