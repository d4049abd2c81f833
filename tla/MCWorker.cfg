\* Three pages of at most two rows, with a ceiling of three rows.
SPECIFICATION Spec
CONSTANTS
    retention = retention  maintenance = maintenance
    Job = {retention, maintenance}
    Retention = retention
    BootJob = maintenance
    Every <- MCEvery
    LastId = 4
    PageSize = 2
    MaxProjects = 3
    MaxChanges = 2
INVARIANTS
    OneCopyRuns PoolsOutliveJobs SweepSkipsNobody
PROPERTIES
    JobsRecur
