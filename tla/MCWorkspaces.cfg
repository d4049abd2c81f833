\* One organization from before, in each of three shapes, and one that is created.
SPECIFICATION Spec
CONSTANTS
    a = a
    b = b
    Workspace = {1, 2}
    Legacy = {1}
    Account = {a, b}
    Founding <- Shapes
    Reconciler = {r1, r2}
    MaxChanges = 2
    MaxFaults = 1
INVARIANTS
    TypeOK OrganizationIsWhole
PROPERTIES
    OwnerRemains PaidIsKept OrphansAreRepaired
