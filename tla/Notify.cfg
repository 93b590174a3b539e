CONSTANTS
    d1 = d1
    Devices = {d1}
    Users = {u1}
    Tokens = {t1, t2}
    Reqs = {r1, r2}
    Batches <- MCBatches
    MaxBatch = 2
    HighWater = 1
    MaxUnread = 1
SPECIFICATION MCSpec
INVARIANTS
    AlertsThrottled
    BatchWhole
    TokensStay
PROPERTIES
    Drains
