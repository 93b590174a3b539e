CONSTANTS
    Reqs = {r1}
    Admins = {a1}
    Boot = Boot
    Tokens = {1, 2, 3}
    Manual = {m1}
    None = None
    Steps = {"core_config"}
    SaveAttempts = 2
    FinishAttempts = 1
    MaxFaults = 2
    MaxRestarts = 1
CONSTANTS
    Handlers = {xiaomi, tuya}
    Xiaomi = xiaomi
    Flows = {1, 2, 3}
    f3 = 3
    FlowReqs = {q1, q2}
    NoFlow = NoFlow
    DeadFlow = DeadFlow
SPECIFICATION MCSpec
INVARIANT
    GivesUpForGood
