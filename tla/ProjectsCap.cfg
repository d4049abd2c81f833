\* Two creations at once, with room for one project.
CONSTANTS
    MaxProject = 2
    Request = {r1, r2}
    Sweeper = Sweeper
    Repairs = TRUE
    Cap = 1
    MaxFaults = 0
    MaxCalls = 2
SPECIFICATION Spec
INVARIANTS CapHolds
