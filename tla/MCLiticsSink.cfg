\* Four calls over two keys on two connections.
SPECIFICATION FairSpec
CONSTANTS
    w1 = w1
    w2 = w2
    w3 = w3
    w4 = w4
    Writer = {w1, w2, w3, w4}
    Item = {1, 2, 3, 4, 5, 6, 7}
    Keyed = {1, 2, 3, 4, 5, 6}
    KeyOf <- MCKeyOf
    Batch <- MCBatch
    PoolSize = 2
PROPERTIES
    Refines
    CallsAreAnswered
