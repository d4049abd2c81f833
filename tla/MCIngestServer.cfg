\* Five requests on two projects: one resends a key that another brings, one
\* brings it to the other project, one has nothing left after admission, and one
\* is refused by admission as too large.  The first and the third pass the check
\* before the quota together, and do not both fit into the buffer after it.
SPECIFICATION ServerSpec
CONSTANTS
    p1 = p1  p2 = p2
    r1 = r1  r3 = r3  r4 = r4  r5 = r5  r6 = r6
    a = a  b = b  n = n
    Project = {p1, p2}
    Request = {r1, r3, r4, r5, r6}
    Event = {a, b, n}
    Keyed = {a, b}
    TooLarge = {r6}
    ProjectOf <- MCProjectOf
    BatchOf <- MCBatchOf
    MaxEvents = 3
    MaxWaiters = 2
    MaxBuffered = 3
    MaxInFlight = 2
    Linger = 1
INVARIANTS
    AckedIsDurable AcceptedIsOwnRows BufferBounded ExitAbandonsNobody
PROPERTIES
    JoinedIsAnswered ShutdownCompletes
