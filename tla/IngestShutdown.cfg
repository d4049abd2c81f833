\* The shutdown strands a group that is not full.
SPECIFICATION ServerSpec
CONSTANTS
    p1 = p1  p2 = p2
    r1 = r1  r3 = r3  r4 = r4  r5 = r5  r6 = r6
    a = a  b = b  n = n
    Project = {p1, p2}
    Request = {r1, r4}
    Event = {a, b, n}
    Keyed = {a, b}
    TooLarge = {}
    ProjectOf <- MCProjectOf
    BatchOf <- MCBatchOf
    MaxEvents = 3
    MaxWaiters = 3
    MaxBuffered = 3
    MaxInFlight = 1
    Linger = 1
INVARIANT StoredIsAnswered
