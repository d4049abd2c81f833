\* One fault, after which every alert must settle.
SPECIFICATION MonitorFairSpec
CONSTANTS
    Worker = {w1, w2}
    Operator = {o1}
    Question = {q1, q2}
    Channel = {c1}
    MaxEvaluations = 2
    MaxFaults = 1
INVARIANTS
    MonitorTypeOK HeardInOrder AnnouncedOnce
PROPERTIES EvaluationIsCurrent
    AlertsSettle
