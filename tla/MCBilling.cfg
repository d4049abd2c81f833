\* Three events of up to two subscriptions, two deliveries at a time and one fault.
CONSTANTS
    MaxEvent = 3
    MaxSub = 2
    MaxRequests = 2
    MaxFaults = 1
SPECIFICATION FairSpec
INVARIANTS TypeOK ClaimedIsApplied StandingIsTheProviders
PROPERTIES EventsAreAnswered
