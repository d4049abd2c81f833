\* Three requests, of which one resends a key that another brings and one brings
\* it to the other project.
SPECIFICATION CallsSpec
CONSTANTS
    p1 = p1  p2 = p2
    r1 = r1  r2 = r2  r3 = r3
    a = a  n = n
    Project = {p1, p2}
    Request = {r1, r2, r3}
    Event = {a, n}
    Keyed = {a}
    TooLarge = {}
    ProjectOf <- MCProjectOf
    BatchOf <- MCBatchOf
    MaxEvents = 2
    MaxWaiters = 2
    MaxBuffered = 3
    MaxInFlight = 2
    Linger = 1
PROPERTIES
    SinkKeepsPromise
