\* Three ids, two API calls at a time (three in all) beside the reconciler,
\* which repairs, a cap of one project and one fault.
CONSTANTS
    MaxProject = 3
    Request = {r1, r2}
    Sweeper = Sweeper
    Repairs = TRUE
    Cap = 1
    MaxFaults = 1
    MaxCalls = 3
SPECIFICATION FairSpec
INVARIANTS OvershootBounded DeletionIsAnnounced KeyFollowsClaim
PROPERTIES RevokedStaysRevoked KeylessIsRepaired
