\* Two workers on two rows, of which the older is never accepted.
SPECIFICATION FairSpec
CONSTANTS
    c1 = c1
    Command = {c1}
    Event = {1, 2}
    EventsOf <- Together
    Worker = {w1, w2}
    Dead = {1}
    Batch = 2
    AttemptsCap = 2
    MaxTransient = 1
    MaxEarly = 1
    MaxCrashes = 1
    MaxErrors = 1
INVARIANTS
    HeardIsCommitted
    RepeatsAreExplained
PROPERTIES
    CommittedIsDispatched
